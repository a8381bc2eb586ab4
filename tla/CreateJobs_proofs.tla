------------------------- MODULE CreateJobs_proofs -------------------------
(***************************************************************************)
(* Proofs about CreateJobs for any requests, replicas, workers, attempts    *)
(* and any combination of faults: typing, the inductive invariant JobInv,   *)
(* the properties of movies, job records and polls it gives, and the        *)
(* refinements of IdRegistry and CreationPromise.                           *)
(***************************************************************************)
EXTENDS CreateJobs, FiniteSetTheorems, TLAPS

USE NoneAssumption, HostAssumption, BoundAssumption

\* Blame only adds to the losses of the requests it names.
LEMMA BlameType ==
    ASSUME NEW R, NEW why \in Loss, loss \in [Req -> SUBSET Loss], Blame(R, why)
    PROVE  /\ loss' \in [Req -> SUBSET Loss]
           /\ \A r \in Req : loss[r] \subseteq loss'[r] /\ (r \in R => loss'[r] # {})
  BY DEF Blame

\* One more message in the queue.
LEMMA EnqueueType ==
    ASSUME TypeOK, NEW r \in Req, Enqueue(r)
    PROVE  /\ ready' \in [Req -> Nat] /\ copies' \in [Req -> Nat]
           /\ buffered' = buffered /\ consuming' = consuming
           /\ ready'[r] > 0
           /\ \A q \in Req : ready'[q] >= ready[q]
  BY DEF Enqueue, TypeOK

\* A saved outcome is a job record, and is no longer pending.
LEMMA SaveType ==
    ASSUME TypeOK, NEW r \in Req, NEW i \in 0..MaxId,
           SaveCompleted(r, i) \/ SaveFailed(r)
    PROVE  /\ jobs' \in [Req -> [status : Status, movie : 0..MaxId, error : BOOLEAN]]
           /\ jobs'[r].status # "pending"
           /\ \A q \in Req : q # r => jobs'[q] = jobs[q]
  <1> DEFINE Record == [status : Status, movie : 0..MaxId, error : BOOLEAN]
             done == [jobs[r] EXCEPT !.status = "completed", !.movie = i]
             fail == [jobs[r] EXCEPT !.status = "failed", !.error = TRUE]
  <1>1. jobs \in [Req -> Record] /\ jobs[r] \in Record
    BY DEF TypeOK
  <1>2. done \in Record /\ done.status = "completed"
    BY <1>1 DEF Status
  <1>3. fail \in Record /\ fail.status = "failed"
    BY <1>1 DEF Status
  <1>4. PICK new \in Record : jobs' = [jobs EXCEPT ![r] = new] /\ new.status # "pending"
    BY <1>2, <1>3 DEF SaveCompleted, SaveFailed
  <1> QED BY <1>1, <1>4
-----------------------------------------------------------------------------
\* Every variable keeps its type: no attempt beyond MaxAttempts, no negative
\* number of messages, no job record but the three statuses.
LEMMA TypeInit == Init => TypeOK
  BY DEF Init, TypeOK, NoJob, Status, Id

\* Every step of a gateway, replica, worker or client keeps the types.
LEMMA TypeStep ==
    ASSUME TypeOK, AttemptsLeft, IdsUnwritten, [Next]_vars
    PROVE  TypeOK'
  <1> USE DEF TypeOK, gateway, broker, handler, client
  <1>1. ASSUME NEW r \in Req, PostMovie(r) PROVE TypeOK'
    BY <1>1 DEF PostMovie
  <1>2. ASSUME NEW r \in Req, PublishOk(r) PROVE TypeOK'
    BY <1>2, EnqueueType DEF PublishOk
  <1>3. ASSUME NEW r \in Req, PublishVanishes(r) PROVE TypeOK'
    BY <1>3, BlameType DEF PublishVanishes, Loss
  <1>4. ASSUME NEW r \in Req, PublishFails(r) PROVE TypeOK'
    <2>1. attempts' \in [Req -> 0..MaxAttempts]
      BY <1>4 DEF PublishFails, AttemptsLeft
    <2>2. /\ ready' \in [Req -> Nat] /\ copies' \in [Req -> Nat]
          /\ buffered' = buffered /\ consuming' = consuming
      BY <1>4, EnqueueType DEF PublishFails
    <2> QED BY <1>4, <2>1, <2>2 DEF PublishFails
  <1>5. ASSUME NEW p \in Proc, NEW r \in Req, Deliver(p, r) PROVE TypeOK'
    BY <1>5 DEF Deliver
  <1>6. ASSUME NEW w \in Worker, NEW r \in Req, Take(w, r) PROVE TypeOK'
    BY <1>6 DEF Take
  <1>7. ASSUME NEW p \in Proc, Disconnect(p) PROVE TypeOK'
    BY <1>7, BlameType DEF Disconnect, Loss
  <1>8. CASE BrokerRestart
    BY <1>8, BlameType DEF BrokerRestart, Loss
  <1>9. ASSUME NEW w \in Worker, NextMovieID(w) PROVE TypeOK'
    <2>1. lastId' \in 0..MaxId /\ lastId' = lastId + 1
      BY <1>9 DEF NextMovieID
    <2>2. id' \in [Worker -> 0..MaxId]
      BY <1>9, <2>1 DEF NextMovieID
    <2>3. pc' \in [Worker -> {"idle", "nextid", "create", "completed", "failed"}]
      BY <1>9 DEF NextMovieID, Goto
    <2>4. \A v \in Worker : pc'[v] # "idle" => msg[v] \in Req
      BY <1>9 DEF NextMovieID, Goto
    <2> QED BY <1>9, <2>1, <2>2, <2>3, <2>4 DEF NextMovieID
  <1>10. ASSUME NEW w \in Worker, NextMovieIDFails(w) PROVE TypeOK'
    BY <1>10 DEF NextMovieIDFails, Goto
  <1>11. ASSUME NEW w \in Worker, pc[w] = "create", Upsert(w)
         PROVE  movies' \in SUBSET Id /\ owner' \in [Id -> Req \cup {None}]
    <2>1. id[w] \in Id
      BY <1>11 DEF IdsUnwritten, Id
    <2>2. msg[w] \in Req
      BY <1>11
    <2> QED BY <1>11, <2>1, <2>2 DEF Upsert
  <1>12. ASSUME NEW w \in Worker, CreateMovie(w) PROVE TypeOK'
    BY <1>11, <1>12 DEF CreateMovie, Goto
  <1>13. ASSUME NEW w \in Worker, CreateMovieFails(w) PROVE TypeOK'
    <2>1. movies' \in SUBSET Id /\ owner' \in [Id -> Req \cup {None}]
      BY <1>11, <1>13 DEF CreateMovieFails
    <2>2. loss' \in [Req -> SUBSET Loss]
      BY <1>13, BlameType DEF CreateMovieFails, Loss
    <2> QED BY <1>13, <2>1, <2>2 DEF CreateMovieFails, Goto
  <1>14. ASSUME NEW w \in Worker, pc[w] # "idle",
                \/ SaveCompleted(msg[w], id[w]) \/ SaveFailed(msg[w])
                \/ UNCHANGED jobs
         PROVE  jobs' \in [Req -> [status : Status, movie : 0..MaxId, error : BOOLEAN]]
    BY <1>14, SaveType
  <1>15. ASSUME NEW w \in Worker, Return(w)
         PROVE  /\ pc' \in [Worker -> {"idle", "nextid", "create", "completed", "failed"}]
                /\ msg' \in [Worker -> Req \cup {None}]
                /\ \A v \in Worker : pc'[v] # "idle" => msg'[v] \in Req
                /\ id' \in [Worker -> 0..MaxId]
    BY <1>15 DEF Return, Goto
  <1>16. ASSUME NEW w \in Worker, RecordJobCompleted(w) \/ RecordJobFailure(w)
         PROVE  TypeOK'
    BY <1>14, <1>15, <1>16 DEF RecordJobCompleted, RecordJobFailure
  <1>17. ASSUME NEW w \in Worker, RecordJobCompletedFails(w) \/ RecordJobFailureFails(w)
         PROVE  TypeOK'
    <2>1. loss' \in [Req -> SUBSET Loss]
      BY <1>17, BlameType DEF RecordJobCompletedFails, RecordJobFailureFails, Loss
    <2> QED BY <1>14, <1>15, <1>17, <2>1 DEF RecordJobCompletedFails, RecordJobFailureFails
  <1>18. ASSUME NEW p \in Proc, Crash(p) \/ Exit(p) PROVE TypeOK'
    <2>1. loss' \in [Req -> SUBSET Loss]
      BY <1>18, BlameType DEF Crash, Exit, Replace, Loss
    <2>2. buffered' \in [Proc -> [Req -> Nat]]
      <3>1. buffered' = [buffered EXCEPT ![p] = [r \in Req |-> 0]]
        BY <1>18 DEF Crash, Exit, Replace
      <3>2. [r \in Req |-> 0] \in [Req -> Nat]
        OBVIOUS
      <3> QED BY <3>1, <3>2
    <2>3. consuming' \in [Proc -> BOOLEAN] /\ stopping' \in [Proc -> BOOLEAN]
      <3>1. /\ consuming' = [consuming EXCEPT ![p] = TRUE]
            /\ stopping' = [stopping EXCEPT ![p] = FALSE]
        BY <1>18 DEF Crash, Exit, Replace
      <3> QED BY <3>1
    <2>4. /\ pc' \in [Worker -> {"idle", "nextid", "create", "completed", "failed"}]
          /\ msg' \in [Worker -> Req \cup {None}]
          /\ \A v \in Worker : pc'[v] # "idle" => msg'[v] \in Req
          /\ id' \in [Worker -> 0..MaxId]
      BY <1>18 DEF Crash, Exit, Replace
    <2> QED BY <1>18, <2>1, <2>2, <2>3, <2>4 DEF Crash, Exit, Replace
  <1>19. ASSUME NEW p \in Proc, Sigterm(p) PROVE TypeOK'
    BY <1>19 DEF Sigterm
  <1>20. ASSUME NEW r \in Req, PollJob(r) PROVE TypeOK'
    <2>1. jobs[r].status \in Status /\ jobs[r].movie \in 0..MaxId
      OBVIOUS
    <2>2. jobs[r].status # "completed" => jobs[r].status \in {"pending", "failed"}
      BY <2>1 DEF Status
    <2>3. /\ poll' \in [Req -> 0..MaxId]
          /\ answer' \in [Req -> {"none", "pending", "failed", "movie", "gone", "error"}]
      BY <1>20, <2>1, <2>2 DEF PollJob
    <2> QED BY <1>20, <2>3 DEF PollJob
  <1>21. ASSUME NEW r \in Req, PollMovie(r) \/ PollFails(r) PROVE TypeOK'
    <2>1. PICK a \in {"movie", "gone", "error"} : answer' = [answer EXCEPT ![r] = a]
      BY <1>21 DEF PollMovie, PollFails
    <2>2. answer' \in [Req -> {"none", "pending", "failed", "movie", "gone", "error"}]
      BY <2>1
    <2>3. poll' \in [Req -> 0..MaxId]
      BY <1>21 DEF PollMovie, PollFails
    <2> QED BY <1>21, <2>2, <2>3 DEF PollMovie, PollFails
  <1>22. ASSUME NEW i \in Id, DeleteMovie(i) PROVE TypeOK'
    BY <1>22 DEF DeleteMovie
  <1>23. CASE UNCHANGED vars
    BY <1>23 DEF vars
  <1> QED
    BY <1>1, <1>2, <1>3, <1>4, <1>5, <1>6, <1>7, <1>8, <1>9, <1>10, <1>12,
       <1>13, <1>16, <1>17, <1>18, <1>19, <1>20, <1>21, <1>22, <1>23
    DEF Next, Publish, Handle
-----------------------------------------------------------------------------
\* The retry budget is never exceeded.
LEMMA AttemptsStep ==
    ASSUME TypeOK, AttemptsLeft, [Next]_vars
    PROVE  AttemptsLeft'
  <1> USE DEF TypeOK, AttemptsLeft, gateway
  <1>1. ASSUME NEW r \in Req, PostMovie(r) PROVE AttemptsLeft'
    BY <1>1 DEF PostMovie
  <1>2. ASSUME NEW r \in Req, PublishOk(r) \/ PublishVanishes(r) PROVE AttemptsLeft'
    BY <1>2 DEF PublishOk, PublishVanishes
  <1>3. ASSUME NEW r \in Req, PublishFails(r) PROVE AttemptsLeft'
    BY <1>3 DEF PublishFails
  <1>4. CASE UNCHANGED gateway
    BY <1>4
  <1> QED
    BY <1>1, <1>2, <1>3, <1>4
    DEF Next, Publish, Handle, Deliver, Take, Disconnect, BrokerRestart,
        NextMovieID, NextMovieIDFails, CreateMovie, CreateMovieFails,
        RecordJobCompleted, RecordJobCompletedFails, RecordJobFailure,
        RecordJobFailureFails, Crash, Exit, Replace, Sigterm, PollJob,
        PollMovie, PollFails, DeleteMovie, vars

\* A step that neither issues an id nor writes a movie, and in which workers
\* only stay where they are or leave "create" and "completed".
LEMMA LeavingStep ==
    ASSUME IdsUnwritten, WrittenByWorker,
           lastId' = lastId, owner' = owner,
           \A w \in Worker : pc'[w] \in {"create", "completed"} =>
               pc'[w] = pc[w] /\ id'[w] = id[w] /\ msg'[w] = msg[w]
    PROVE  IdsUnwritten' /\ WrittenByWorker'
  BY DEF IdsUnwritten, WrittenByWorker

\* A worker gets a new id: larger than every id in use or written.
LEMMA IssueStep ==
    ASSUME TypeOK, IdsUnwritten, WrittenByWorker, NEW w \in Worker, NextMovieID(w)
    PROVE  IdsUnwritten' /\ WrittenByWorker'
  <1>1. lastId \in Nat /\ lastId' = lastId + 1 /\ owner' = owner /\ msg' = msg
    BY DEF NextMovieID, TypeOK
  <1>2. /\ pc'[w] \in {"create", "failed"} /\ id'[w] = lastId'
        /\ \A v \in Worker : v # w => pc'[v] = pc[v] /\ id'[v] = id[v]
    BY DEF NextMovieID, Goto, TypeOK
  <1>3. lastId' \in Id
    BY DEF NextMovieID, TypeOK, Id
  <1>4. owner[lastId'] = None
    BY <1>1, <1>3 DEF IdsUnwritten
  <1>5. \A v \in Worker : v # w /\ pc'[v] \in {"create", "completed"} =>
            id'[v] \in 1..lastId /\ id'[v] # lastId'
    BY <1>1, <1>2 DEF IdsUnwritten
  <1>6. \A v \in Worker : pc'[v] \in {"create", "completed"} => id'[v] \in 1..lastId'
    BY <1>1, <1>2, <1>5
  <1>7. \A v \in Worker : pc'[v] = "create" => owner'[id'[v]] = None
    BY <1>1, <1>2, <1>4 DEF IdsUnwritten
  <1>8. \A u, v \in Worker :
            pc'[u] = "create" /\ pc'[v] = "create" /\ id'[u] = id'[v] => u = v
    BY <1>2, <1>5 DEF IdsUnwritten
  <1>9. \A i \in Id : owner'[i] # None => i <= lastId'
    BY <1>1 DEF IdsUnwritten, Id
  <1>10. WrittenByWorker'
    BY <1>1, <1>2 DEF WrittenByWorker
  <1> QED BY <1>6, <1>7, <1>8, <1>9, <1>10 DEF IdsUnwritten

\* A worker writes its movie: nobody else's movie is touched.
LEMMA UpsertStep ==
    ASSUME TypeOK, IdsUnwritten, WrittenByWorker, NEW w \in Worker,
           pc[w] = "create", Upsert(w), NEW l \in {"completed", "failed"}, Goto(w, l),
           lastId' = lastId, id' = id, msg' = msg
    PROVE  /\ IdsUnwritten' /\ WrittenByWorker'
           /\ owner[id[w]] = None
           /\ \A i \in Id : i # id[w] => owner'[i] = owner[i]
  <1>1. /\ lastId \in Nat /\ lastId <= MaxId
        /\ id[w] \in 1..lastId /\ owner[id[w]] = None
    BY DEF IdsUnwritten, TypeOK
  <1>2. id[w] \in Id
    BY <1>1 DEF Id
  <1>3. /\ owner'[id[w]] = msg[w]
        /\ \A i \in Id : i # id[w] => owner'[i] = owner[i]
    BY <1>2 DEF Upsert, TypeOK
  <1>4. pc'[w] = l /\ \A v \in Worker : v # w => pc'[v] = pc[v]
    BY DEF Goto, TypeOK
  <1>5. msg[w] \in Req
    BY DEF TypeOK
  <1>6. \A v \in Worker : pc[v] \in {"create", "completed"} => id[v] \in Id
    BY <1>1 DEF IdsUnwritten, Id
  <1>7. \A v \in Worker : v # w /\ pc[v] \in {"create", "completed"} => id[v] # id[w]
    <2> SUFFICES ASSUME NEW v \in Worker, v # w, pc[v] \in {"create", "completed"}
                 PROVE  id[v] # id[w]
      OBVIOUS
    <2>1. CASE pc[v] = "create"
      BY <2>1 DEF IdsUnwritten
    <2>2. CASE pc[v] = "completed"
      <3>1. msg[v] \in Req /\ owner[id[v]] = msg[v]
        BY <2>2 DEF WrittenByWorker, TypeOK
      <3> QED BY <1>1, <3>1
    <2> QED BY <2>1, <2>2
  <1>8. IdsUnwritten'
    BY <1>1, <1>3, <1>4, <1>6, <1>7 DEF IdsUnwritten
  <1>9. WrittenByWorker'
    BY <1>3, <1>4, <1>6, <1>7 DEF WrittenByWorker
  <1> QED BY <1>1, <1>3, <1>8, <1>9

\* The steps of the handler that move a worker without issuing or writing.
Leaves(w) ==
    \/ NextMovieIDFails(w)
    \/ RecordJobCompleted(w) \/ RecordJobCompletedFails(w)
    \/ RecordJobFailure(w) \/ RecordJobFailureFails(w)

\* Ids stay one worker's until they are written, and written ones stay
\* their writer's.
LEMMA IdsStep ==
    ASSUME TypeOK, IdsUnwritten, WrittenByWorker, [Next]_vars
    PROVE  IdsUnwritten' /\ WrittenByWorker'
  <1> DEFINE Goal == IdsUnwritten' /\ WrittenByWorker'
  <1>1. ASSUME NEW w \in Worker, NEW r \in Req, Take(w, r) PROVE Goal
    BY <1>1, LeavingStep DEF Take, TypeOK
  <1>2. ASSUME NEW w \in Worker, NextMovieID(w) PROVE Goal
    BY <1>2, IssueStep
  <1>3. ASSUME NEW w \in Worker, CreateMovie(w) PROVE Goal
    BY <1>3, UpsertStep DEF CreateMovie
  <1>4. ASSUME NEW w \in Worker, CreateMovieFails(w), Upsert(w) PROVE Goal
    BY <1>4, UpsertStep DEF CreateMovieFails
  <1>5. ASSUME NEW w \in Worker, CreateMovieFails(w), owner' = owner PROVE Goal
    BY <1>5, LeavingStep DEF CreateMovieFails, Goto, TypeOK
  <1>6. ASSUME NEW w \in Worker, Leaves(w) PROVE Goal
    <2>1. lastId' = lastId /\ owner' = owner
      BY <1>6 DEF Leaves, NextMovieIDFails, RecordJobCompleted,
         RecordJobCompletedFails, RecordJobFailure, RecordJobFailureFails
    <2>2. pc'[w] \notin {"create", "completed"}
      BY <1>6 DEF Leaves, NextMovieIDFails, RecordJobCompleted, Return, Goto, TypeOK,
         RecordJobCompletedFails, RecordJobFailure, RecordJobFailureFails
    <2>3. \A v \in Worker : v # w => pc'[v] = pc[v] /\ id'[v] = id[v] /\ msg'[v] = msg[v]
      <3>1. CASE NextMovieIDFails(w)
        BY <3>1 DEF NextMovieIDFails, Goto, TypeOK
      <3>2. CASE Return(w)
        BY <3>2 DEF Return, Goto, TypeOK
      <3> QED
        BY <1>6, <3>1, <3>2 DEF Leaves, RecordJobCompleted,
           RecordJobCompletedFails, RecordJobFailure, RecordJobFailureFails
    <2> QED BY <2>1, <2>2, <2>3, LeavingStep
  <1>7. ASSUME NEW p \in Proc, Crash(p) \/ Exit(p) PROVE Goal
    BY <1>7, LeavingStep DEF Crash, Exit, Replace
  <1>8. ASSUME UNCHANGED <<handler, owner>> PROVE Goal
    BY <1>8, LeavingStep DEF handler
  <1> HIDE DEF Goal
  <1>9. ASSUME NEW w \in Worker, CreateMovieFails(w) PROVE Goal
    <2>1. Upsert(w) \/ owner' = owner
      BY <1>9 DEF CreateMovieFails
    <2> QED BY <1>4, <1>5, <1>9, <2>1
  <1>10. ASSUME NEW r \in Req,
                \/ PostMovie(r) \/ Publish(r) \/ PollJob(r) \/ PollMovie(r) \/ PollFails(r)
                \/ \E p \in Proc : Deliver(p, r)
         PROVE  Goal
    <2>1. UNCHANGED <<handler, owner>>
      BY <1>10 DEF Publish, PostMovie, PublishOk, PublishVanishes, PublishFails,
       Deliver, PollJob, PollMovie, PollFails
    <2> QED BY <2>1, <1>8
  <1>11. ASSUME \/ \E p \in Proc : Disconnect(p) \/ Sigterm(p)
                \/ BrokerRestart
                \/ \E i \in Id : DeleteMovie(i)
                \/ UNCHANGED vars
         PROVE  Goal
    <2>1. UNCHANGED <<handler, owner>>
      BY <1>11 DEF Disconnect, Sigterm, BrokerRestart, DeleteMovie, vars, handler
    <2> QED BY <2>1, <1>8
  <1>12. Goal
    BY <1>1, <1>2, <1>3, <1>6, <1>7, <1>8, <1>9, <1>10, <1>11 DEF Next, Handle, Leaves
  <1> QED BY <1>12 DEF Goal
-----------------------------------------------------------------------------
\* A completed job keeps naming a movie written from its own message.
LEMMA OwnsStep ==
    ASSUME TypeOK, IdsUnwritten, WrittenByWorker, CompletedOwnsMovie, [Next]_vars
    PROVE  CompletedOwnsMovie'
  <1>1. ASSUME NEW w \in Worker, Upsert(w), pc[w] = "create", jobs' = jobs,
               lastId' = lastId, id' = id, msg' = msg,
               NEW l \in {"completed", "failed"}, Goto(w, l)
        PROVE  CompletedOwnsMovie'
    <2>1. owner[id[w]] = None /\ \A i \in Id : i # id[w] => owner'[i] = owner[i]
      BY <1>1, UpsertStep
    <2> QED BY <1>1, <2>1 DEF CompletedOwnsMovie
  <1>2. ASSUME NEW w \in Worker, CreateMovie(w) PROVE CompletedOwnsMovie'
    BY <1>1, <1>2 DEF CreateMovie
  <1>3. ASSUME NEW w \in Worker, CreateMovieFails(w) PROVE CompletedOwnsMovie'
    <2>1. CASE UNCHANGED owner
      BY <1>3, <2>1 DEF CreateMovieFails, CompletedOwnsMovie
    <2> QED BY <1>1, <1>3, <2>1 DEF CreateMovieFails
  <1>4. ASSUME NEW w \in Worker, pc[w] = "completed", owner' = owner,
               SaveCompleted(msg[w], id[w])
        PROVE  CompletedOwnsMovie'
    <2>1. msg[w] \in Req /\ id[w] \in Id /\ owner[id[w]] = msg[w]
      <3>1. id[w] \in 1..lastId /\ lastId <= MaxId /\ lastId \in Nat
        BY <1>4 DEF IdsUnwritten, TypeOK
      <3> QED BY <1>4, <3>1 DEF WrittenByWorker, TypeOK, Id
    <2>2. /\ jobs'[msg[w]].movie = id[w]
          /\ \A r \in Req : r # msg[w] => jobs'[r] = jobs[r]
      BY <1>4, <2>1 DEF SaveCompleted, TypeOK
    <2> QED BY <1>4, <2>1, <2>2 DEF CompletedOwnsMovie
  <1>5. ASSUME NEW w \in Worker, pc[w] = "failed", owner' = owner, SaveFailed(msg[w])
        PROVE  CompletedOwnsMovie'
    <2>1. msg[w] \in Req
      BY <1>5 DEF TypeOK
    <2>2. /\ jobs'[msg[w]].status = "failed"
          /\ \A r \in Req : r # msg[w] => jobs'[r] = jobs[r]
      BY <1>5, <2>1 DEF SaveFailed, TypeOK
    <2> QED BY <1>5, <2>1, <2>2 DEF CompletedOwnsMovie
  <1>6. CASE UNCHANGED <<owner, jobs>>
    BY <1>6 DEF CompletedOwnsMovie
  <1>7. ASSUME NEW w \in Worker, RecordJobCompleted(w) \/ RecordJobCompletedFails(w)
        PROVE  CompletedOwnsMovie'
    BY <1>4, <1>6, <1>7 DEF RecordJobCompleted, RecordJobCompletedFails
  <1>8. ASSUME NEW w \in Worker, RecordJobFailure(w) \/ RecordJobFailureFails(w)
        PROVE  CompletedOwnsMovie'
    BY <1>5, <1>6, <1>8 DEF RecordJobFailure, RecordJobFailureFails
  <1> QED
    BY <1>2, <1>3, <1>6, <1>7, <1>8
    DEF Next, Publish, Handle, PostMovie, PublishOk, PublishVanishes,
        PublishFails, Deliver, Take, Disconnect, BrokerRestart, NextMovieID,
        NextMovieIDFails, Crash, Exit, Replace, Sigterm, PollJob, PollMovie,
        PollFails, DeleteMovie, vars
-----------------------------------------------------------------------------
\* An outcome, once recorded, is never replaced by the absence of one.
LEMMA OutcomeKept ==
    ASSUME TypeOK, IdsUnwritten, [Next]_vars, NEW r \in Req, jobs[r].status # "pending"
    PROVE  jobs'[r].status # "pending"
  <1>1. ASSUME NEW w \in Worker, pc[w] # "idle",
               SaveCompleted(msg[w], id[w]) \/ SaveFailed(msg[w])
        PROVE  jobs'[r].status # "pending"
    <2>1. msg[w] \in Req /\ id[w] \in 0..MaxId
      BY <1>1 DEF TypeOK
    <2> QED BY <1>1, <2>1, SaveType
  <1>2. CASE UNCHANGED jobs
    BY <1>2
  <1>3. ASSUME NEW w \in Worker, Leaves(w) PROVE jobs'[r].status # "pending"
    <2>1. \/ pc[w] # "idle" /\ (SaveCompleted(msg[w], id[w]) \/ SaveFailed(msg[w]))
          \/ UNCHANGED jobs
      BY <1>3 DEF Leaves, NextMovieIDFails, RecordJobCompleted,
         RecordJobCompletedFails, RecordJobFailure, RecordJobFailureFails
    <2> QED BY <1>1, <1>2, <2>1
  <1> QED
    BY <1>2, <1>3
    DEF Next, Publish, Handle, Leaves, PostMovie, PublishOk, PublishVanishes,
        PublishFails, Deliver, Take, Disconnect, BrokerRestart, NextMovieID,
        CreateMovie, CreateMovieFails, Crash, Exit, Replace, Sigterm, PollJob,
        PollMovie, PollFails, DeleteMovie, vars

\* A poll reports an outcome only if the job record has one.
LEMMA OutcomeStep ==
    ASSUME TypeOK, IdsUnwritten, OutcomeRecorded, [Next]_vars
    PROVE  OutcomeRecorded'
  <1> SUFFICES ASSUME NEW r \in Req,
                      answer'[r] \in {"movie", "gone", "failed"} \/ poll'[r] # 0
               PROVE  jobs'[r].status # "pending"
    BY DEF OutcomeRecorded
  <1>1. CASE jobs[r].status # "pending"
    BY <1>1, OutcomeKept
  <1>2. CASE jobs[r].status = "pending"
    <2>1. poll[r] = 0 /\ answer[r] \notin {"movie", "gone", "failed"}
      BY <1>2 DEF OutcomeRecorded
    <2>2. ASSUME NEW q \in Req, PollJob(q) PROVE FALSE
      BY <1>2, <2>1, <2>2 DEF PollJob, TypeOK
    <2>3. ASSUME NEW q \in Req, PollMovie(q) PROVE FALSE
      BY <2>1, <2>3 DEF PollMovie, TypeOK
    <2>4. ASSUME NEW q \in Req, PollFails(q) PROVE FALSE
      BY <2>1, <2>4 DEF PollFails, TypeOK
    <2>5. CASE UNCHANGED client
      BY <2>1, <2>5 DEF client
    <2> QED
      BY <2>2, <2>3, <2>4, <2>5
      DEF Next, Publish, Handle, PostMovie, PublishOk, PublishVanishes,
          PublishFails, Deliver, Take, Disconnect, BrokerRestart, NextMovieID,
          NextMovieIDFails, CreateMovie, CreateMovieFails, RecordJobCompleted,
          RecordJobCompletedFails, RecordJobFailure, RecordJobFailureFails,
          Crash, Exit, Replace, Sigterm, DeleteMovie, vars, client
  <1> QED BY <1>1, <1>2
-----------------------------------------------------------------------------
\* A message of r is queued, buffered by a replica or in a worker's hands.
Alive(r) ==
    \/ ready[r] > 0
    \/ \E p \in Proc : buffered[p][r] > 0
    \/ \E w \in Worker : pc[w] # "idle" /\ msg[w] = r

\* Outside of publishing, a request is settled when no message of it is left
\* anywhere, neither queued nor in hand.
LEMMA AliveUnsettles ==
    ASSUME TypeOK, NEW r \in Req, http[r] # "publishing"
    PROVE  Settled(r) <=> ~Alive(r)
  <1>1. ready[r] \in Nat
    BY DEF TypeOK
  <1>2. (\A p \in Proc : r \notin InHands(p)) <=>
            /\ ~ \E p \in Proc : buffered[p][r] > 0
            /\ ~ \E w \in Worker : pc[w] # "idle" /\ msg[w] = r
    BY DEF InHands
  <1> QED BY <1>1, <1>2 DEF Settled, Alive

\* The end of a message: its request has an outcome, or a loss is on record.
Accounted(r) == loss'[r] # {} \/ jobs'[r].status # "pending"

\* A worker that moves on keeps its message until the handler returns, and the
\* handler returns only with an outcome saved or a failed save on record.
LEMMA HandlerAccounts ==
    ASSUME TypeOK, NEW w \in Worker, Handle(w), NEW r \in Req, Alive(r)
    PROVE  Alive(r)' \/ Accounted(r)
  <1> USE DEF TypeOK
  <1>1. ready' = ready /\ buffered' = buffered
    BY DEF Handle, NextMovieID, NextMovieIDFails, CreateMovie, CreateMovieFails,
       RecordJobCompleted, RecordJobCompletedFails, RecordJobFailure,
       RecordJobFailureFails, broker
  <1>2. \A v \in Worker : v # w => pc'[v] = pc[v] /\ msg'[v] = msg[v]
    BY DEF Handle, NextMovieID, NextMovieIDFails, CreateMovie, CreateMovieFails,
       RecordJobCompleted, RecordJobCompletedFails, RecordJobFailure,
       RecordJobFailureFails, Goto, Return, handler
  <1>3. CASE ready[r] > 0 \/ \E p \in Proc : buffered[p][r] > 0
    BY <1>1, <1>3 DEF Alive
  <1>4. CASE \E v \in Worker : v # w /\ pc[v] # "idle" /\ msg[v] = r
    BY <1>2, <1>4 DEF Alive
  <1>5. CASE pc[w] # "idle" /\ msg[w] = r
    <2>1. CASE NextMovieID(w) \/ NextMovieIDFails(w) \/ CreateMovie(w) \/ CreateMovieFails(w)
      <3>1. pc'[w] # "idle" /\ msg'[w] = r
        BY <1>5, <2>1 DEF NextMovieID, NextMovieIDFails, CreateMovie,
           CreateMovieFails, Goto
      <3> QED BY <3>1 DEF Alive
    <2>2. CASE RecordJobCompleted(w) \/ RecordJobFailure(w)
      <3>1. SaveCompleted(msg[w], id[w]) \/ SaveFailed(msg[w])
        BY <2>2 DEF RecordJobCompleted, RecordJobFailure
      <3>2. id[w] \in 0..MaxId
        OBVIOUS
      <3> QED BY <1>5, <3>1, <3>2, SaveType DEF Accounted
    <2>3. CASE RecordJobCompletedFails(w) \/ RecordJobFailureFails(w)
      <3>1. Blame({r}, "record")
        BY <1>5, <2>3 DEF RecordJobCompletedFails, RecordJobFailureFails
      <3> QED BY <3>1, BlameType DEF Accounted, Loss
    <2> QED BY <2>1, <2>2, <2>3 DEF Handle
  <1> QED BY <1>3, <1>4, <1>5 DEF Alive

\* Whatever takes a replica or the broker away puts what it held on record.
LEMMA FaultAccounts ==
    ASSUME TypeOK, NEW r \in Req, Alive(r),
           BrokerRestart \/ \E p \in Proc : Disconnect(p) \/ Crash(p) \/ Exit(p)
    PROVE  Alive(r)' \/ Accounted(r)
  <1> USE DEF TypeOK
  <1>1. CASE BrokerRestart
    <2>1. CASE ready[r] > 0 \/ \E p \in Proc : buffered[p][r] > 0
      <3> DEFINE R == {q \in Req : ready[q] > 0 \/ \E p \in Proc : buffered[p][q] > 0}
      <3>1. Blame(R, "broker") /\ r \in R
        BY <1>1, <2>1 DEF BrokerRestart
      <3> HIDE DEF R
      <3> QED BY <3>1, BlameType DEF Accounted, Loss
    <2>2. CASE \E w \in Worker : pc[w] # "idle" /\ msg[w] = r
      BY <1>1, <2>2 DEF BrokerRestart, Alive, handler
    <2> QED BY <2>1, <2>2 DEF Alive
  <1>2. ASSUME NEW p \in Proc, Disconnect(p) PROVE Alive(r)' \/ Accounted(r)
    <2>1. CASE buffered[p][r] > 0
      <3> DEFINE R == {q \in Req : buffered[p][q] > 0}
      <3>1. Blame(R, "disconnect") /\ r \in R
        BY <1>2, <2>1 DEF Disconnect
      <3> HIDE DEF R
      <3> QED BY <3>1, BlameType DEF Accounted, Loss
    <2>2. CASE \/ ready[r] > 0
               \/ \E q \in Proc : q # p /\ buffered[q][r] > 0
               \/ \E w \in Worker : pc[w] # "idle" /\ msg[w] = r
      BY <1>2, <2>2 DEF Disconnect, Alive, handler
    <2> QED BY <2>1, <2>2 DEF Alive
  <1>3. ASSUME NEW p \in Proc, NEW why \in Loss, Replace(p, why)
        PROVE  Alive(r)' \/ Accounted(r)
    <2>1. CASE r \in InHands(p)
      BY <1>3, <2>1, BlameType DEF Replace, Accounted
    <2>2. CASE ready[r] > 0
      BY <1>3, <2>2 DEF Replace, Alive
    <2>3. CASE \E q \in Proc : q # p /\ buffered[q][r] > 0
      BY <1>3, <2>3 DEF Replace, Alive
    <2>4. CASE \E w \in Worker : Host[w] # p /\ pc[w] # "idle" /\ msg[w] = r
      BY <1>3, <2>4 DEF Replace, Alive
    <2> QED BY <2>1, <2>2, <2>3, <2>4 DEF Alive, InHands
  <1> QED
    BY <1>1, <1>2, <1>3 DEF Crash, Exit, Loss

\* A request loses its last message only with a result or a named loss.
LEMMA AliveStep ==
    ASSUME TypeOK, [Next]_vars, NEW r \in Req, Alive(r)
    PROVE  Alive(r)' \/ Accounted(r)
  <1> USE DEF TypeOK
  <1>1. ASSUME NEW q \in Req, PublishOk(q) \/ PublishFails(q) PROVE Alive(r)'
    <2>1. /\ \A s \in Req : ready'[s] >= ready[s] /\ ready'[s] \in Nat
          /\ buffered' = buffered
      BY <1>1, EnqueueType DEF PublishOk, PublishFails, broker
    <2>2. pc' = pc /\ msg' = msg
      BY <1>1 DEF PublishOk, PublishFails, handler
    <2> QED BY <2>1, <2>2 DEF Alive
  <1>2. ASSUME NEW p \in Proc, NEW q \in Req, Deliver(p, q) PROVE Alive(r)'
    <2>1. CASE q = r
      <3>1. buffered'[p][r] > 0
        BY <1>2, <2>1 DEF Deliver
      <3> QED BY <3>1 DEF Alive
    <2>2. CASE q # r
      <3>1. /\ ready'[r] = ready[r] /\ pc' = pc /\ msg' = msg
            /\ \A s \in Proc : buffered'[s][r] = buffered[s][r]
        BY <1>2, <2>2 DEF Deliver, handler
      <3> QED BY <3>1 DEF Alive
    <2> QED BY <2>1, <2>2
  <1>3. ASSUME NEW w \in Worker, NEW q \in Req, Take(w, q) PROVE Alive(r)'
    <2>1. CASE q = r
      <3>1. pc'[w] # "idle" /\ msg'[w] = r
        BY <1>3, <2>1 DEF Take
      <3> QED BY <3>1 DEF Alive
    <2>2. CASE q # r
      <3>1. /\ ready'[r] = ready[r]
            /\ \A s \in Proc : buffered'[s][r] = buffered[s][r]
            /\ \A v \in Worker : pc[v] # "idle" => pc'[v] = pc[v] /\ msg'[v] = msg[v]
        BY <1>3, <2>2 DEF Take
      <3> QED BY <3>1 DEF Alive
    <2> QED BY <2>1, <2>2
  <1>4. ASSUME NEW w \in Worker, Handle(w) PROVE Alive(r)' \/ Accounted(r)
    BY <1>4, HandlerAccounts
  <1>5. ASSUME BrokerRestart \/ \E p \in Proc : Disconnect(p) \/ Crash(p) \/ Exit(p)
        PROVE  Alive(r)' \/ Accounted(r)
    BY <1>5, FaultAccounts
  <1>6. ASSUME UNCHANGED <<ready, buffered, pc, msg>> PROVE Alive(r)'
    BY <1>6 DEF Alive
  <1>7. ASSUME NEW q \in Req,
               PostMovie(q) \/ PublishVanishes(q) \/ PollJob(q) \/ PollMovie(q) \/ PollFails(q)
        PROVE  Alive(r)'
    BY <1>6, <1>7 DEF PostMovie, PublishVanishes, PollJob, PollMovie, PollFails,
       broker, handler
  <1>8. ASSUME \/ \E p \in Proc : Sigterm(p)
               \/ \E i \in Id : DeleteMovie(i)
               \/ UNCHANGED vars
        PROVE  Alive(r)'
    BY <1>6, <1>8 DEF Sigterm, DeleteMovie, vars, broker, handler
  <1> QED
    BY <1>1, <1>2, <1>3, <1>4, <1>5, <1>7, <1>8 DEF Next, Publish

\* A loss, once on record, stays.
LEMMA LossKept ==
    ASSUME TypeOK, [Next]_vars, NEW r \in Req
    PROVE  loss[r] \subseteq loss'[r]
  <1>1. loss' = loss \/ \E R, why : Blame(R, why)
    BY DEF Next, Publish, Handle, PostMovie, PublishOk, PublishVanishes,
       PublishFails, Deliver, Take, Disconnect, BrokerRestart, NextMovieID,
       NextMovieIDFails, CreateMovie, CreateMovieFails, RecordJobCompleted,
       RecordJobCompletedFails, RecordJobFailure, RecordJobFailureFails,
       Crash, Exit, Replace, Sigterm, PollJob, PollMovie, PollFails,
       DeleteMovie, vars
  <1>2. ASSUME NEW R, NEW why, Blame(R, why) PROVE loss[r] \subseteq loss'[r]
    BY <1>2 DEF Blame
  <1> QED BY <1>1, <1>2

\* An accepted request without outcome and without loss still has a message.
LEMMA ExplainedStep ==
    ASSUME TypeOK, TypeOK', IdsUnwritten, PendingIsExplained, [Next]_vars
    PROVE  PendingIsExplained'
  <1> USE DEF TypeOK
  <1> SUFFICES ASSUME NEW r \in Req, http'[r] = "accepted", Settled(r)',
                      jobs'[r].status = "pending", loss'[r] = {}
               PROVE  FALSE
    BY DEF PendingIsExplained
  <1>1. ~Alive(r)'
    <2>1. ASSUME TypeOK', http'[r] # "publishing" PROVE Settled(r)' <=> ~Alive(r)'
      <3>1. ready'[r] \in Nat
        BY <2>1
      <3>2. (\A p \in Proc : r \notin InHands(p)') <=>
                /\ ~ \E p \in Proc : buffered'[p][r] > 0
                /\ ~ \E w \in Worker : pc'[w] # "idle" /\ msg'[w] = r
        BY DEF InHands
      <3> QED BY <2>1, <3>1, <3>2 DEF Settled, Alive
    <2> QED BY <2>1
  <1>2. jobs[r].status = "pending"
    BY OutcomeKept
  <1>3. ~Alive(r)
    BY <1>1, AliveStep DEF Accounted
  <1>4. loss[r] = {}
    BY LossKept
  <1>5. http[r] # "accepted"
    BY <1>2, <1>3, <1>4, AliveUnsettles DEF PendingIsExplained
  <1>6. ASSUME NEW q \in Req, PostMovie(q) \/ PublishFails(q) PROVE FALSE
    BY <1>5, <1>6 DEF PostMovie, PublishFails
  <1>7. ASSUME NEW q \in Req, PublishOk(q) PROVE FALSE
    <2>1. q = r
      BY <1>5, <1>7 DEF PublishOk
    <2>2. ready'[r] > 0
      BY <1>7, <2>1, EnqueueType DEF PublishOk
    <2> QED BY <1>1, <2>2 DEF Alive
  <1>8. ASSUME NEW q \in Req, PublishVanishes(q) PROVE FALSE
    <2>1. q = r
      BY <1>5, <1>8 DEF PublishVanishes
    <2>2. Blame({r}, "publish")
      BY <1>8, <2>1 DEF PublishVanishes
    <2> QED BY <2>2, BlameType DEF Loss
  <1>9. CASE UNCHANGED gateway
    BY <1>5, <1>9 DEF gateway
  <1> QED
    BY <1>6, <1>7, <1>8, <1>9
    DEF Next, Publish, Handle, Deliver, Take, Disconnect, BrokerRestart,
        NextMovieID, NextMovieIDFails, CreateMovie, CreateMovieFails,
        RecordJobCompleted, RecordJobCompletedFails, RecordJobFailure,
        RecordJobFailureFails, Crash, Exit, Replace, Sigterm, PollJob,
        PollMovie, PollFails, DeleteMovie, vars, gateway
-----------------------------------------------------------------------------
(* What each message of a request has paid for.                             *)

\* The messages of r in the replicas, one by one.
LEMMA BufferedMembers ==
    ASSUME NEW r
    PROVE  /\ \A x : x \in Buffered(r) <=>
                  \E p \in Proc : \E k \in 1..buffered[p][r] : x = <<p, k>>
           /\ \A x : x \in Buffered(r)' <=>
                  \E p \in Proc : \E k \in 1..buffered'[p][r] : x = <<p, k>>
  BY DEF Buffered

\* A replica gets one more message, or one of its messages is taken.
LEMMA BufferedChanges ==
    ASSUME TypeOK, NEW p \in Proc, NEW r \in Req, IsFiniteSet(Buffered(r)),
           NEW n \in Nat, buffered' = [buffered EXCEPT ![p][r] = n]
    PROVE  /\ n = buffered[p][r] + 1 =>
                 /\ IsFiniteSet(Buffered(r)')
                 /\ Cardinality(Buffered(r)') = Cardinality(Buffered(r)) + 1
           /\ n = buffered[p][r] - 1 =>
                 /\ IsFiniteSet(Buffered(r)')
                 /\ Cardinality(Buffered(r)') = Cardinality(Buffered(r)) - 1
           /\ \A q \in Req \ {r} : Buffered(q)' = Buffered(q)
  <1>1. /\ buffered[p][r] \in Nat
        /\ buffered'[p][r] = n
        /\ \A s \in Proc, q \in Req : s # p \/ q # r => buffered'[s][q] = buffered[s][q]
    BY DEF TypeOK
  <1>2. \A q \in Req \ {r} : Buffered(q)' = Buffered(q)
    BY <1>1 DEF Buffered
  <1>3. ASSUME n = buffered[p][r] + 1
        PROVE  /\ IsFiniteSet(Buffered(r)')
               /\ Cardinality(Buffered(r)') = Cardinality(Buffered(r)) + 1
    <2>1. Buffered(r)' = Buffered(r) \cup {<<p, n>>} /\ <<p, n>> \notin Buffered(r)
      BY <1>1, <1>3, BufferedMembers
    <2> QED BY <2>1, FS_AddElement
  <1>4. ASSUME n = buffered[p][r] - 1
        PROVE  /\ IsFiniteSet(Buffered(r)')
               /\ Cardinality(Buffered(r)') = Cardinality(Buffered(r)) - 1
    <2> DEFINE last == <<p, n + 1>>
    <2>1. Buffered(r)' = Buffered(r) \ {last} /\ last \in Buffered(r)
      BY <1>1, <1>4, BufferedMembers
    <2> HIDE DEF last
    <2>2. /\ IsFiniteSet(Buffered(r) \ {last})
          /\ Cardinality(Buffered(r) \ {last}) = Cardinality(Buffered(r)) - 1
      BY <2>1, FS_RemoveElement
    <2> QED BY <2>1, <2>2
  <1> QED BY <1>2, <1>3, <1>4

\* One worker moves: of each set of workers it is a member before, after, both or
\* neither, and the others stay.
LEMMA HandlingMoves ==
    ASSUME NEW w \in Worker, NEW r, NEW L,
           \A v \in Worker \ {w} : pc'[v] = pc[v] /\ msg'[v] = msg[v]
    PROVE  /\ Cardinality(Handling(r, L)) \in Nat
           /\ Cardinality(Handling(r, L)') \in Nat
           /\ Cardinality(Handling(r, L)') + Bit(pc[w] \in L /\ msg[w] = r)
                = Cardinality(Handling(r, L)) + Bit(pc'[w] \in L /\ msg'[w] = r)
  <1> DEFINE H == Handling(r, L)
             In == pc[w] \in L /\ msg[w] = r
             InNext == pc'[w] \in L /\ msg'[w] = r
  <1>1. \A v \in Worker \ {w} : v \in H' <=> v \in H
    BY DEF Handling
  <1>2. (w \in H <=> In) /\ (w \in H' <=> InNext)
    BY DEF Handling
  <1>3. H \subseteq Worker /\ H' \subseteq Worker
    BY DEF Handling
  <1>4. IsFiniteSet(H) /\ IsFiniteSet(H')
    BY <1>3, WorkerAssumption, FS_Subset
  <1>5. Cardinality(H) \in Nat /\ Cardinality(H') \in Nat
    BY <1>4, FS_CardinalityType
  <1> HIDE DEF H
  <1>6. CASE In <=> InNext
    <2>1. H' = H
      BY <1>1, <1>2, <1>3, <1>6
    <2> QED BY <1>5, <1>6, <2>1 DEF Bit, H
  <1>7. CASE In /\ ~InNext
    <2>1. H' = H \ {w} /\ w \in H
      BY <1>1, <1>2, <1>3, <1>7
    <2>2. Cardinality(H') = Cardinality(H) - 1
      BY <1>4, <2>1, FS_RemoveElement
    <2> QED BY <1>5, <1>7, <2>2 DEF Bit, H
  <1>8. CASE ~In /\ InNext
    <2>1. H' = H \cup {w} /\ w \notin H
      BY <1>1, <1>2, <1>3, <1>8
    <2>2. Cardinality(H') = Cardinality(H) + 1
      BY <1>4, <2>1, FS_AddElement
    <2> QED BY <1>5, <1>8, <2>2 DEF Bit, H
  <1> QED BY <1>6, <1>7, <1>8

\* The movies of a request are finitely many.
LEMMA MadeCount ==
    ASSUME NEW r
    PROVE  IsFiniteSet(Made(r)) /\ Cardinality(Made(r)) \in Nat
  <1>1. IsFiniteSet(1..MaxId)
    BY FS_Interval
  <1>2. Made(r) \subseteq 1..MaxId
    BY DEF Made, Id
  <1> QED BY <1>1, <1>2, FS_Subset, FS_CardinalityType

\* Messages are lost or stay, workers stay, give up or move on without a movie or
\* a job record: what was covered is covered.
LEMMA CoveredByLess ==
    ASSUME TypeOK, TypeOK', NEW r \in Req, Covered(r),
           ready'[r] <= ready[r],
           Buffered(r)' \subseteq Buffered(r),
           \A w \in Worker : pc'[w] # "idle" /\ msg'[w] = r =>
               /\ msg[w] = r
               /\ \/ pc'[w] = pc[w]
                  \/ pc[w] \in {"nextid", "create"} /\ pc'[w] \in {"create", "failed"},
           Made(r)' = Made(r), jobs'[r] = jobs[r], loss[r] \subseteq loss'[r],
           copies'[r] = copies[r]
    PROVE  Covered(r)'
  <1>1. /\ ready[r] \in Nat /\ ready'[r] \in Nat /\ copies[r] \in Nat
        /\ jobs[r].error \in BOOLEAN
    BY DEF TypeOK
  <1>2. /\ IsFiniteSet(Buffered(r)')
        /\ Cardinality(Buffered(r)') <= Cardinality(Buffered(r))
        /\ Cardinality(Buffered(r)) \in Nat /\ Cardinality(Buffered(r)') \in Nat
    BY FS_Subset, FS_CardinalityType DEF Covered
  <1>3. ASSUME NEW L, Handling(r, L)' \subseteq Handling(r, L)
        PROVE  /\ Cardinality(Handling(r, L)') \in Nat /\ Cardinality(Handling(r, L)) \in Nat
               /\ Cardinality(Handling(r, L)') <= Cardinality(Handling(r, L))
    <2>1. IsFiniteSet(Handling(r, L))
      BY WorkerAssumption, FS_Subset DEF Handling
    <2> QED BY <1>3, <2>1, FS_Subset, FS_CardinalityType
  <1>4. ASSUME NEW L \in {{"nextid", "create"}, {"nextid", "create", "failed"},
                          {"nextid", "create", "completed", "failed"}}
        PROVE  /\ InHand(r, L) \in Nat /\ InHand(r, L)' \in Nat
               /\ InHand(r, L)' <= InHand(r, L)
    <2>1. Handling(r, L)' \subseteq Handling(r, L)
      BY DEF Handling
    <2>2. /\ Cardinality(Handling(r, L)') \in Nat /\ Cardinality(Handling(r, L)) \in Nat
          /\ Cardinality(Handling(r, L)') <= Cardinality(Handling(r, L))
      BY <1>3, <2>1
    <2> QED BY <1>1, <1>2, <2>2 DEF InHand, Waiting
  <1>5. Made(r)' = Made(r) /\ Cardinality(Made(r)) \in Nat
    BY MadeCount
  <1>6. Bit(jobs[r].error) \in {0, 1} /\ Bit(jobs[r].movie # 0) \in {0, 1}
    BY DEF Bit
  <1> DEFINE A == InHand(r, {"nextid", "create"})
             B == InHand(r, {"nextid", "create", "failed"})
             C == InHand(r, {"nextid", "create", "completed", "failed"})
             M == Cardinality(Made(r))
  <1>7. /\ A \in Nat /\ A' \in Nat /\ A' <= A
        /\ B \in Nat /\ B' \in Nat /\ B' <= B
        /\ C \in Nat /\ C' \in Nat /\ C' <= C
        /\ M \in Nat /\ M' = M
    BY <1>4, <1>5
  <1>8. /\ M + A <= copies[r]
        /\ "write" \in loss[r] \/ M + B + Bit(jobs[r].error) <= copies[r]
        /\ C + Bit(jobs[r].error) + Bit(jobs[r].movie # 0) <= copies[r]
    BY DEF Covered
  <1> HIDE DEF A, B, C, M
  <1>9. /\ M' + A' <= copies'[r]
        /\ "write" \in loss'[r] \/ M' + B' + Bit(jobs'[r].error) <= copies'[r]
        /\ C' + Bit(jobs'[r].error) + Bit(jobs'[r].movie # 0) <= copies'[r]
    BY <1>1, <1>6, <1>7, <1>8
  <1> QED BY <1>2, <1>9 DEF Covered, A, B, C, M

\* The numbers behind Covered are numbers.
LEMMA CountsAreNat ==
    ASSUME TypeOK, NEW r \in Req, Covered(r)
    PROVE  /\ Cardinality(Buffered(r)) \in Nat
           /\ Waiting(r) \in Nat
           /\ Cardinality(Made(r)) \in Nat
           /\ copies[r] \in Nat /\ ready[r] \in Nat
           /\ Bit(jobs[r].error) \in {0, 1} /\ Bit(jobs[r].movie # 0) \in {0, 1}
           /\ \A L : Cardinality(Handling(r, L)) \in Nat /\ InHand(r, L) \in Nat
  <1>1. copies[r] \in Nat /\ ready[r] \in Nat
    BY DEF TypeOK
  <1>2. Cardinality(Buffered(r)) \in Nat
    BY FS_CardinalityType DEF Covered
  <1>3. Waiting(r) \in Nat
    BY <1>1, <1>2 DEF Waiting
  <1>4. ASSUME NEW L PROVE Cardinality(Handling(r, L)) \in Nat /\ InHand(r, L) \in Nat
    <2>1. IsFiniteSet(Handling(r, L))
      BY WorkerAssumption, FS_Subset DEF Handling
    <2>2. Cardinality(Handling(r, L)) \in Nat
      BY <2>1, FS_CardinalityType
    <2> QED BY <1>3, <2>2 DEF InHand
  <1> QED BY <1>1, <1>2, <1>3, <1>4, MadeCount DEF Bit

\* A copy of r reaches the queue.
LEMMA CoveredByEnqueue ==
    ASSUME TypeOK, NEW r \in Req, Covered(r), Enqueue(r),
           UNCHANGED <<pc, msg, owner, jobs, loss>>
    PROVE  Covered(r)'
  <1>1. /\ ready'[r] = ready[r] + 1 /\ copies'[r] = copies[r] + 1
        /\ buffered' = buffered
    BY DEF Enqueue, TypeOK
  <1>2. Buffered(r)' = Buffered(r) /\ Made(r)' = Made(r)
    BY <1>1 DEF Buffered, Made
  <1>3. Waiting(r)' = Waiting(r) + 1
    BY <1>1, <1>2, CountsAreNat DEF Waiting
  <1>4. ASSUME NEW L PROVE InHand(r, L)' = InHand(r, L) + 1
    <2>1. Handling(r, L)' = Handling(r, L)
      BY DEF Handling
    <2> QED BY <1>3, <2>1, CountsAreNat DEF InHand
  <1> QED BY <1>1, <1>2, <1>4, CountsAreNat DEF Covered

\* A message of r goes from the queue to a replica.
LEMMA CoveredByDeliver ==
    ASSUME TypeOK, NEW p \in Proc, NEW r \in Req, Covered(r), Deliver(p, r)
    PROVE  Covered(r)'
  <1>1. /\ ready'[r] = ready[r] - 1
        /\ buffered' = [buffered EXCEPT ![p][r] = buffered[p][r] + 1]
        /\ buffered[p][r] + 1 \in Nat
        /\ UNCHANGED <<copies, pc, msg, owner, jobs, loss>>
    BY DEF Deliver, TypeOK, handler
  <1>2. /\ IsFiniteSet(Buffered(r)')
        /\ Cardinality(Buffered(r)') = Cardinality(Buffered(r)) + 1
    BY <1>1, BufferedChanges DEF Covered
  <1>3. Waiting(r)' = Waiting(r)
    BY <1>1, <1>2, CountsAreNat DEF Waiting
  <1>4. ASSUME NEW L PROVE InHand(r, L)' = InHand(r, L)
    <2>1. Handling(r, L)' = Handling(r, L)
      BY <1>1 DEF Handling
    <2> QED BY <1>3, <2>1 DEF InHand
  <1>5. Made(r)' = Made(r)
    BY <1>1 DEF Made
  <1> QED BY <1>1, <1>2, <1>4, <1>5 DEF Covered

\* A worker takes a message of r.
LEMMA CoveredByTake ==
    ASSUME TypeOK, NEW w \in Worker, NEW r \in Req, Covered(r), Take(w, r)
    PROVE  Covered(r)'
  <1> DEFINE p == Host[w]
  <1>1. /\ p \in Proc
        /\ buffered' = [buffered EXCEPT ![p][r] = buffered[p][r] - 1]
        /\ buffered[p][r] - 1 \in Nat
        /\ UNCHANGED <<ready, copies, owner, jobs, loss>>
    BY DEF Take, TypeOK
  <1>2. /\ pc[w] = "idle" /\ pc'[w] = "nextid" /\ msg'[w] = r
        /\ \A v \in Worker \ {w} : pc'[v] = pc[v] /\ msg'[v] = msg[v]
    BY DEF Take, TypeOK
  <1> HIDE DEF p
  <1>3. /\ IsFiniteSet(Buffered(r)')
        /\ Cardinality(Buffered(r)') = Cardinality(Buffered(r)) - 1
    BY <1>1, BufferedChanges DEF Covered
  <1>4. Waiting(r)' = Waiting(r) - 1
    BY <1>1, <1>3, CountsAreNat DEF Waiting
  <1>5. ASSUME NEW L, "nextid" \in L, "idle" \notin L PROVE InHand(r, L)' = InHand(r, L)
    <2>1. Cardinality(Handling(r, L)') = Cardinality(Handling(r, L)) + 1
      <3>1. /\ Cardinality(Handling(r, L)) \in Nat
            /\ Cardinality(Handling(r, L)') \in Nat
            /\ Cardinality(Handling(r, L)') + Bit(pc[w] \in L /\ msg[w] = r)
                 = Cardinality(Handling(r, L)) + Bit(pc'[w] \in L /\ msg'[w] = r)
        BY <1>2, HandlingMoves
      <3>2. ~(pc[w] \in L /\ msg[w] = r) /\ pc'[w] \in L /\ msg'[w] = r
        BY <1>2, <1>5
      <3> QED BY <3>1, <3>2 DEF Bit
    <2> QED BY <1>4, <2>1, CountsAreNat DEF InHand
  <1>6. Made(r)' = Made(r)
    BY <1>1 DEF Made
  <1> QED BY <1>1, <1>3, <1>5, <1>6 DEF Covered

\* What a worker that moves alone does to the deliveries in hand.
LEMMA InHandMoves ==
    ASSUME TypeOK, NEW w \in Worker, NEW r \in Req, Covered(r),
           UNCHANGED <<ready, buffered>>,
           \A v \in Worker \ {w} : pc'[v] = pc[v] /\ msg'[v] = msg[v],
           msg[w] = r,
           NEW L
    PROVE  /\ pc[w] \in L /\ (pc'[w] \notin L \/ msg'[w] # r) => InHand(r, L)' = InHand(r, L) - 1
           /\ pc[w] \in L /\ pc'[w] \in L /\ msg'[w] = r => InHand(r, L)' = InHand(r, L)
           /\ pc[w] \notin L /\ pc'[w] \notin L => InHand(r, L)' = InHand(r, L)
  <1> DEFINE H == Cardinality(Handling(r, L))
             HNext == Cardinality(Handling(r, L)')
  <1>1. Waiting(r)' = Waiting(r) /\ Waiting(r) \in Nat
    <2>1. Buffered(r)' = Buffered(r)
      BY DEF Buffered
    <2> QED BY <2>1, CountsAreNat DEF Waiting
  <1>2. /\ H \in Nat /\ HNext \in Nat
        /\ HNext + Bit(pc[w] \in L /\ msg[w] = r) = H + Bit(pc'[w] \in L /\ msg'[w] = r)
    BY HandlingMoves
  <1>3. InHand(r, L) = Waiting(r) + H /\ InHand(r, L)' = Waiting(r) + HNext
    BY <1>1 DEF InHand
  <1> HIDE DEF H, HNext
  <1> QED BY <1>1, <1>2, <1>3 DEF Bit

\* A worker writes its movie, and goes on to report it or an error.
LEMMA CoveredByUpsert ==
    ASSUME TypeOK, IdsUnwritten, NEW w \in Worker, NEW r \in Req, msg[w] = r,
           Covered(r), pc[w] = "create", Upsert(w),
           UNCHANGED <<ready, buffered, copies, msg, jobs>>,
           \/ Goto(w, "completed") /\ loss' = loss
           \/ Goto(w, "failed") /\ "write" \in loss'[r]
    PROVE  Covered(r)'
  <1>1. /\ msg'[w] = r
        /\ \/ pc'[w] = "completed" /\ loss' = loss
           \/ pc'[w] = "failed" /\ "write" \in loss'[r]
        /\ \A v \in Worker \ {w} : pc'[v] = pc[v] /\ msg'[v] = msg[v]
    BY DEF Goto, TypeOK
  <1>2. Cardinality(Made(r)') = Cardinality(Made(r)) + 1
    <2>1. id[w] \in Id /\ owner[id[w]] = None /\ None # r
      BY DEF IdsUnwritten, TypeOK, Id
    <2>2. Made(r)' = Made(r) \cup {id[w]} /\ id[w] \notin Made(r)
      BY <2>1 DEF Made, Upsert, TypeOK
    <2> QED BY <2>2, MadeCount, FS_AddElement
  <1>3. IsFiniteSet(Buffered(r)')
    BY DEF Covered, Buffered
  <1>4. InHand(r, {"nextid", "create"})' = InHand(r, {"nextid", "create"}) - 1
    BY <1>1, InHandMoves
  <1>5. pc'[w] = "completed" =>
          InHand(r, {"nextid", "create", "failed"})' = InHand(r, {"nextid", "create", "failed"}) - 1
    BY <1>1, InHandMoves
  <1>6. InHand(r, {"nextid", "create", "completed", "failed"})'
          = InHand(r, {"nextid", "create", "completed", "failed"})
    BY <1>1, InHandMoves
  <1> QED BY <1>1, <1>2, <1>3, <1>4, <1>5, <1>6, CountsAreNat DEF Covered

\* A worker records the outcome of its message, and is done with it.
LEMMA CoveredBySave ==
    ASSUME TypeOK, NEW w \in Worker, NEW r \in Req, msg[w] = r, Covered(r),
           UNCHANGED <<ready, buffered, copies, owner>>,
           Return(w), loss[r] \subseteq loss'[r],
           \/ pc[w] = "completed" /\ SaveCompleted(r, id[w])
           \/ pc[w] = "failed" /\ SaveFailed(r)
    PROVE  Covered(r)'
  <1>1. /\ pc'[w] = "idle"
        /\ \A v \in Worker \ {w} : pc'[v] = pc[v] /\ msg'[v] = msg[v]
    BY DEF Return, Goto, TypeOK
  <1>2. /\ pc[w] = "completed" => jobs'[r].error = jobs[r].error
        /\ pc[w] = "failed" => jobs'[r].movie = jobs[r].movie
    <2> DEFINE done == [jobs[r] EXCEPT !.status = "completed", !.movie = id[w]]
               fail == [jobs[r] EXCEPT !.status = "failed", !.error = TRUE]
    <2>1. jobs[r] \in [status : Status, movie : 0..MaxId, error : BOOLEAN]
      BY DEF TypeOK
    <2>2. done.error = jobs[r].error /\ fail.movie = jobs[r].movie
      BY <2>1
    <2>3. \/ pc[w] = "completed" /\ jobs'[r] = done
          \/ pc[w] = "failed" /\ jobs'[r] = fail
      BY DEF SaveCompleted, SaveFailed, TypeOK
    <2> QED BY <2>2, <2>3
  <1>3. IsFiniteSet(Buffered(r)') /\ Made(r)' = Made(r)
    BY DEF Covered, Buffered, Made
  <1>4. InHand(r, {"nextid", "create"})' = InHand(r, {"nextid", "create"})
    BY <1>1, InHandMoves
  <1>5. /\ pc[w] = "completed" => InHand(r, {"nextid", "create", "failed"})'
                                   = InHand(r, {"nextid", "create", "failed"})
        /\ pc[w] = "failed" => InHand(r, {"nextid", "create", "failed"})'
                                 = InHand(r, {"nextid", "create", "failed"}) - 1
    BY <1>1, InHandMoves
  <1>6. InHand(r, {"nextid", "create", "completed", "failed"})'
          = InHand(r, {"nextid", "create", "completed", "failed"}) - 1
    BY <1>1, InHandMoves
  <1>7. Bit(jobs'[r].error) \in {0, 1} /\ Bit(jobs'[r].movie # 0) \in {0, 1}
    BY DEF Bit
  <1>8. /\ pc[w] = "completed" => Bit(jobs'[r].error) = Bit(jobs[r].error)
        /\ pc[w] = "failed" => Bit(jobs'[r].movie # 0) = Bit(jobs[r].movie # 0)
    BY <1>2
  <1> DEFINE A == InHand(r, {"nextid", "create"})
             B == InHand(r, {"nextid", "create", "failed"})
             C == InHand(r, {"nextid", "create", "completed", "failed"})
             M == Cardinality(Made(r))
             e == Bit(jobs[r].error)
             m == Bit(jobs[r].movie # 0)
  <1>9. /\ M \in Nat /\ A \in Nat /\ B \in Nat /\ C \in Nat /\ copies[r] \in Nat
        /\ e \in {0, 1} /\ m \in {0, 1}
        /\ M + A <= copies[r]
        /\ "write" \in loss[r] \/ M + B + e <= copies[r]
        /\ C + e + m <= copies[r]
    BY CountsAreNat DEF Covered
  <1>10. /\ M' = M /\ A' = A /\ C' = C - 1 /\ copies'[r] = copies[r]
         /\ e' \in {0, 1} /\ m' \in {0, 1}
         /\ \/ e' = e /\ B' = B
            \/ m' = m /\ B' = B - 1
    BY <1>3, <1>4, <1>5, <1>6, <1>7, <1>8
  <1> HIDE DEF A, B, C, M, e, m
  <1>11. /\ M' + A' <= copies'[r]
         /\ "write" \in loss'[r] \/ M' + B' + e' <= copies'[r]
         /\ C' + e' + m' <= copies'[r]
    BY <1>9, <1>10
  <1> QED BY <1>3, <1>11 DEF Covered, A, B, C, M, e, m

\* The handler's steps, for the request whose message it handles and for others.
LEMMA CoveredByHandler ==
    ASSUME TypeOK, TypeOK', IdsUnwritten, [Next]_vars,
           NEW w \in Worker, Handle(w), NEW r \in Req, Covered(r)
    PROVE  Covered(r)'
  <1> DEFINE Others == \A v \in Worker \ {w} : pc'[v] = pc[v] /\ msg'[v] = msg[v]
  <1>1. UNCHANGED <<ready, buffered, copies>>
    BY DEF Handle, NextMovieID, NextMovieIDFails, CreateMovie, CreateMovieFails,
       RecordJobCompleted, RecordJobCompletedFails, RecordJobFailure,
       RecordJobFailureFails, broker
  <1>2. Others
    BY DEF Handle, NextMovieID, NextMovieIDFails, CreateMovie, CreateMovieFails,
       RecordJobCompleted, RecordJobCompletedFails, RecordJobFailure,
       RecordJobFailureFails, Goto, Return, TypeOK
  <1>3. Buffered(r)' = Buffered(r) /\ ready'[r] <= ready[r]
    BY <1>1 DEF Buffered, TypeOK
  <1>4. loss[r] \subseteq loss'[r]
    BY LossKept
  <1>5. pc[w] # "idle" /\ msg[w] \in Req
    BY DEF Handle, NextMovieID, NextMovieIDFails, CreateMovie, CreateMovieFails,
       RecordJobCompleted, RecordJobCompletedFails, RecordJobFailure,
       RecordJobFailureFails, TypeOK
  <1>6. CASE msg[w] # r
    <2>1. Made(r)' = Made(r)
      <3>1. CASE UNCHANGED owner
        BY <3>1 DEF Made
      <3>2. CASE pc[w] = "create" /\ Upsert(w)
        <4>1. owner[id[w]] = None /\ id[w] \in Id
          BY <3>2 DEF IdsUnwritten, TypeOK, Id
        <4> QED BY <1>6, <3>2, <4>1 DEF Made, Upsert, TypeOK
      <3> QED BY <3>1, <3>2 DEF Handle, NextMovieID, NextMovieIDFails, CreateMovie,
             CreateMovieFails, RecordJobCompleted, RecordJobCompletedFails,
             RecordJobFailure, RecordJobFailureFails
    <2>2. jobs'[r] = jobs[r]
      BY <1>6 DEF Handle, NextMovieID, NextMovieIDFails, CreateMovie, CreateMovieFails,
         RecordJobCompleted, RecordJobCompletedFails, RecordJobFailure,
         RecordJobFailureFails, SaveCompleted, SaveFailed, TypeOK
    <2>3. msg'[w] # r
      BY <1>6 DEF Handle, NextMovieID, NextMovieIDFails, CreateMovie, CreateMovieFails,
         RecordJobCompleted, RecordJobCompletedFails, RecordJobFailure,
         RecordJobFailureFails, Return, TypeOK
    <2> QED BY <1>1, <1>2, <1>3, <1>4, <2>1, <2>2, <2>3, CoveredByLess
  <1>7. CASE msg[w] = r
    <2>1. ASSUME UNCHANGED <<owner, jobs>>,
                 \/ pc'[w] = "idle"
                 \/ /\ msg'[w] = msg[w]
                    /\ pc[w] \in {"nextid", "create"} /\ pc'[w] \in {"create", "failed"}
          PROVE  Covered(r)'
      <3>1. Made(r)' = Made(r)
        BY <2>1 DEF Made
      <3> QED BY <1>1, <1>2, <1>3, <1>4, <1>7, <2>1, <3>1, CoveredByLess
    <2>2. CASE NextMovieID(w) \/ NextMovieIDFails(w)
      BY <2>1, <2>2 DEF NextMovieID, NextMovieIDFails, Goto, TypeOK
    <2>3. CASE CreateMovie(w)
      BY <1>1, <1>7, <2>3, CoveredByUpsert DEF CreateMovie
    <2>4. CASE CreateMovieFails(w)
      <3>1. CASE Upsert(w) /\ Blame({r}, "write")
        <4>1. "write" \in loss'[r]
          BY <3>1 DEF Blame
        <4> QED BY <1>1, <1>7, <2>4, <3>1, <4>1, CoveredByUpsert DEF CreateMovieFails
      <3>2. CASE UNCHANGED owner
        BY <2>1, <2>4, <3>2 DEF CreateMovieFails, Goto, TypeOK
      <3> QED BY <1>7, <2>4, <3>1, <3>2 DEF CreateMovieFails
    <2>5. ASSUME RecordJobCompleted(w) \/ RecordJobCompletedFails(w)
                 \/ RecordJobFailure(w) \/ RecordJobFailureFails(w)
          PROVE  Covered(r)'
      <3>1. /\ Return(w) /\ owner' = owner
            /\ \/ pc[w] = "completed" /\ SaveCompleted(r, id[w])
               \/ pc[w] = "failed" /\ SaveFailed(r)
               \/ UNCHANGED jobs
        BY <1>7, <2>5 DEF RecordJobCompleted, RecordJobCompletedFails,
           RecordJobFailure, RecordJobFailureFails
      <3>2. CASE UNCHANGED jobs
        <4>1. pc'[w] = "idle"
          BY <3>1 DEF Return, Goto, TypeOK
        <4> QED BY <2>1, <3>1, <3>2, <4>1
      <3>3. CASE \/ pc[w] = "completed" /\ SaveCompleted(r, id[w])
                 \/ pc[w] = "failed" /\ SaveFailed(r)
        BY <1>1, <1>4, <1>7, <3>1, <3>3, CoveredBySave
      <3> QED BY <3>1, <3>2, <3>3
    <2> QED BY <2>2, <2>3, <2>4, <2>5 DEF Handle
  <1> QED BY <1>6, <1>7

\* Where buffers are only kept or emptied, nothing is delivered anew.
LEMMA BufferedEmptied ==
    ASSUME NEW r \in Req,
           \A s \in Proc : buffered'[s][r] = 0 \/ buffered'[s][r] = buffered[s][r]
    PROVE  Buffered(r)' \subseteq Buffered(r)
  <1> SUFFICES ASSUME NEW s \in Proc, NEW x \in {s} \X (1..buffered'[s][r])
               PROVE  x \in {s} \X (1..buffered[s][r])
    BY DEF Buffered
  <1>1. CASE buffered'[s][r] = 0
    <2>1. 1..buffered'[s][r] = {}
      BY <1>1
    <2> QED BY <2>1
  <1>2. CASE buffered'[s][r] = buffered[s][r]
    BY <1>2
  <1> QED BY <1>1, <1>2

\* Every step keeps every message from paying twice.
LEMMA CopiesStep ==
    ASSUME TypeOK, TypeOK', IdsUnwritten, CopiesCover, [Next]_vars
    PROVE  CopiesCover'
  <1> SUFFICES ASSUME NEW r \in Req PROVE Covered(r)'
    BY DEF CopiesCover
  <1>1. Covered(r) /\ loss[r] \subseteq loss'[r]
    BY LossKept DEF CopiesCover
  <1>2. ASSUME Buffered(r)' \subseteq Buffered(r), ready'[r] \in {0, ready[r]},
               \A w \in Worker : pc'[w] # "idle" /\ msg'[w] = r =>
                   pc'[w] = pc[w] /\ msg'[w] = msg[w],
               owner' = owner, jobs' = jobs, copies'[r] = copies[r]
        PROVE  Covered(r)'
    <2>1. Made(r)' = Made(r) /\ ready'[r] <= ready[r]
      BY <1>2 DEF Made, TypeOK
    <2> QED BY <1>1, <1>2, <2>1, CoveredByLess
  <1>3. ASSUME NEW q \in Req, PublishOk(q) \/ PublishFails(q) PROVE Covered(r)'
    <2>1. UNCHANGED <<pc, msg, owner, jobs, loss>>
      BY <1>3 DEF PublishOk, PublishFails, handler
    <2>2. CASE Enqueue(r)
      BY <1>1, <2>1, <2>2, CoveredByEnqueue
    <2>3. CASE Enqueue(q) /\ q # r
      <3>1. ready'[r] = ready[r] /\ copies'[r] = copies[r] /\ buffered' = buffered
        BY <2>3 DEF Enqueue, TypeOK
      <3> QED BY <1>2, <2>1, <3>1 DEF Buffered
    <2>4. CASE UNCHANGED broker
      BY <1>2, <2>1, <2>4 DEF broker, Buffered
    <2> QED BY <1>3, <2>2, <2>3, <2>4 DEF PublishOk, PublishFails
  <1>4. ASSUME NEW p \in Proc, NEW q \in Req, Deliver(p, q) PROVE Covered(r)'
    <2>1. CASE q = r
      BY <1>1, <1>4, <2>1, CoveredByDeliver
    <2>2. CASE q # r
      <3>1. /\ UNCHANGED <<copies, pc, msg, owner, jobs>>
            /\ ready'[r] = ready[r]
            /\ \A s \in Proc : buffered'[s][r] = buffered[s][r]
        BY <1>4, <2>2 DEF Deliver, handler, TypeOK
      <3> QED BY <1>2, <3>1 DEF Buffered
    <2> QED BY <2>1, <2>2
  <1>5. ASSUME NEW w \in Worker, NEW q \in Req, Take(w, q) PROVE Covered(r)'
    <2>1. CASE q = r
      BY <1>1, <1>5, <2>1, CoveredByTake
    <2>2. CASE q # r
      <3>1. /\ UNCHANGED <<ready, copies, owner, jobs>>
            /\ \A s \in Proc : buffered'[s][r] = buffered[s][r]
            /\ msg'[w] # r
            /\ \A v \in Worker \ {w} : pc'[v] = pc[v] /\ msg'[v] = msg[v]
        BY <1>5, <2>2 DEF Take, TypeOK
      <3> QED BY <1>2, <3>1 DEF Buffered
    <2> QED BY <2>1, <2>2
  <1>6. ASSUME NEW w \in Worker, Handle(w) PROVE Covered(r)'
    BY <1>1, <1>6, CoveredByHandler
  <1>7. ASSUME NEW p \in Proc, Disconnect(p) PROVE Covered(r)'
    <2>1. UNCHANGED <<ready, copies, pc, msg, owner, jobs>>
      BY <1>7 DEF Disconnect, handler
    <2>2. \A s \in Proc : buffered'[s][r] = 0 \/ buffered'[s][r] = buffered[s][r]
      BY <1>7 DEF Disconnect, TypeOK
    <2> QED BY <1>2, <2>1, <2>2, BufferedEmptied
  <1>8. ASSUME BrokerRestart PROVE Covered(r)'
    <2>1. /\ UNCHANGED <<copies, pc, msg, owner, jobs>>
          /\ ready'[r] = 0
          /\ \A s \in Proc : buffered'[s][r] = 0
      BY <1>8 DEF BrokerRestart, handler
    <2> QED BY <1>2, <2>1, BufferedEmptied
  <1>9. ASSUME NEW p \in Proc, Crash(p) \/ Exit(p) PROVE Covered(r)'
    <2>1. /\ UNCHANGED <<ready, copies, owner, jobs>>
          /\ buffered' = [buffered EXCEPT ![p] = [q \in Req |-> 0]]
          /\ pc' = [w \in Worker |-> IF Host[w] = p THEN "idle" ELSE pc[w]]
          /\ msg' = [w \in Worker |-> IF Host[w] = p THEN None ELSE msg[w]]
      BY <1>9 DEF Crash, Exit, Replace
    <2>2. \A s \in Proc : buffered'[s][r] = 0 \/ buffered'[s][r] = buffered[s][r]
      BY <2>1 DEF TypeOK
    <2>3. \A w \in Worker : pc'[w] # "idle" => pc'[w] = pc[w] /\ msg'[w] = msg[w]
      BY <2>1
    <2> QED BY <1>2, <2>1, <2>2, <2>3, BufferedEmptied
  <1>10. ASSUME \/ \E q \in Req : \/ PostMovie(q) \/ PublishVanishes(q)
                                  \/ PollJob(q) \/ PollMovie(q) \/ PollFails(q)
                \/ \E p \in Proc : Sigterm(p)
                \/ \E i \in Id : DeleteMovie(i)
                \/ UNCHANGED vars
         PROVE  Covered(r)'
    <2>1. UNCHANGED <<ready, buffered, copies, pc, msg, owner, jobs>>
      BY <1>10 DEF PostMovie, PublishVanishes, PollJob, PollMovie, PollFails, Sigterm,
         DeleteMovie, vars, broker, handler
    <2> QED BY <1>2, <2>1 DEF Buffered
  <1> QED BY <1>3, <1>4, <1>5, <1>6, <1>7, <1>8, <1>9, <1>10 DEF Next, Publish
-----------------------------------------------------------------------------
\* A job reported as failed carries its error.
LEMMA FailureStep ==
    ASSUME TypeOK, FailureHasError, [Next]_vars
    PROVE  FailureHasError'
  <1>1. ASSUME NEW r \in Req, NEW i, SaveCompleted(r, i) PROVE FailureHasError'
    <2> DEFINE done == [jobs[r] EXCEPT !.status = "completed", !.movie = i]
    <2>1. done.status = "completed"
      BY DEF TypeOK
    <2>2. jobs'[r] = done /\ \A q \in Req \ {r} : jobs'[q] = jobs[q]
      BY <1>1 DEF SaveCompleted, TypeOK
    <2> HIDE DEF done
    <2> QED BY <2>1, <2>2 DEF FailureHasError
  <1>2. ASSUME NEW r \in Req, SaveFailed(r) PROVE FailureHasError'
    <2> DEFINE fail == [jobs[r] EXCEPT !.status = "failed", !.error = TRUE]
    <2>1. fail.error
      BY DEF TypeOK
    <2>2. jobs'[r] = fail /\ \A q \in Req \ {r} : jobs'[q] = jobs[q]
      BY <1>2 DEF SaveFailed, TypeOK
    <2> HIDE DEF fail
    <2> QED BY <2>1, <2>2 DEF FailureHasError
  <1>3. CASE UNCHANGED jobs
    BY <1>3 DEF FailureHasError
  <1>4. ASSUME NEW w \in Worker, Leaves(w) PROVE FailureHasError'
    <2>1. \/ msg[w] \in Req /\ (SaveCompleted(msg[w], id[w]) \/ SaveFailed(msg[w]))
          \/ UNCHANGED jobs
      BY <1>4 DEF Leaves, NextMovieIDFails, RecordJobCompleted,
         RecordJobCompletedFails, RecordJobFailure, RecordJobFailureFails, TypeOK
    <2> QED BY <1>1, <1>2, <1>3, <2>1
  <1> QED
    BY <1>3, <1>4
    DEF Next, Publish, Handle, Leaves, PostMovie, PublishOk, PublishVanishes,
        PublishFails, Deliver, Take, Disconnect, BrokerRestart, NextMovieID,
        CreateMovie, CreateMovieFails, Crash, Exit, Replace, Sigterm, PollJob,
        PollMovie, PollFails, DeleteMovie, vars

\* A movie once made keeps its request, and once deleted is not written again.
LEMMA WritesKeep ==
    ASSUME TypeOK, IdsUnwritten, [Next]_vars, NEW i \in Id, owner[i] # None
    PROVE  owner'[i] = owner[i] /\ (i \in movies' => i \in movies)
  <1>1. ASSUME NEW w \in Worker, pc[w] = "create", Upsert(w)
        PROVE  owner'[i] = owner[i] /\ (i \in movies' => i \in movies)
    <2>1. i # id[w]
      BY <1>1 DEF IdsUnwritten
    <2> QED BY <1>1, <2>1 DEF Upsert, TypeOK
  <1>2. ASSUME owner' = owner, movies' \subseteq movies
        PROVE  owner'[i] = owner[i] /\ (i \in movies' => i \in movies)
    BY <1>2
  <1>3. ASSUME NEW w \in Worker, Handle(w)
        PROVE  (pc[w] = "create" /\ Upsert(w)) \/ UNCHANGED <<movies, owner>>
    BY <1>3 DEF Handle, NextMovieID, NextMovieIDFails, CreateMovie, CreateMovieFails,
       RecordJobCompleted, RecordJobCompletedFails, RecordJobFailure,
       RecordJobFailureFails
  <1>4. ASSUME ~ \E w \in Worker : Handle(w)
        PROVE  owner' = owner /\ movies' \subseteq movies
    BY <1>4 DEF Next, Publish, PostMovie, PublishOk, PublishVanishes, PublishFails,
       Deliver, Take, Disconnect, BrokerRestart, Crash, Exit, Replace, Sigterm,
       PollJob, PollMovie, PollFails, DeleteMovie, vars
  <1> QED BY <1>1, <1>2, <1>3, <1>4

\* A poll looks for a movie of its request, and says it is gone of one that was
\* deleted.
LEMMA PollsStep ==
    ASSUME TypeOK, IdsUnwritten, CompletedOwnsMovie, PollsOwnMovie, [Next]_vars
    PROVE  PollsOwnMovie'
  <1> SUFFICES ASSUME NEW r \in Req
               PROVE  /\ poll'[r] # 0 => owner'[poll'[r]] = r
                      /\ answer'[r] = "gone" => Made(r)' \ movies' # {}
    BY DEF PollsOwnMovie
  <1>1. r # None /\ poll[r] \in 0..MaxId
    BY DEF TypeOK
  <1>2. \A i \in Id : owner[i] = r => owner'[i] = r
    BY <1>1, WritesKeep
  <1>3. ASSUME poll'[r] = poll[r] PROVE poll'[r] # 0 => owner'[poll'[r]] = r
    BY <1>1, <1>2, <1>3 DEF PollsOwnMovie, Id
  <1>4. Made(r) \ movies # {} => Made(r)' \ movies' # {}
    <2> SUFFICES ASSUME NEW i \in Made(r) \ movies PROVE i \in Made(r)' \ movies'
      OBVIOUS
    <2>1. i \in Id /\ owner[i] = r
      BY DEF Made
    <2> QED BY <1>1, <1>2, <2>1, WritesKeep DEF Made
  <1>5. ASSUME NEW q \in Req, PollJob(q)
        PROVE  /\ poll'[r] # 0 => owner'[poll'[r]] = r
               /\ answer'[r] = "gone" => Made(r)' \ movies' # {}
    <2>1. CASE q # r \/ jobs[r].status # "completed"
      <3>1. poll'[r] = poll[r]
        BY <1>5, <2>1 DEF PollJob, TypeOK
      <3>2. answer'[r] = "gone" => answer[r] = "gone"
        <4>1. jobs[q].status # "gone"
          BY DEF TypeOK, Status
        <4> QED BY <1>5, <4>1 DEF PollJob, TypeOK
      <3> QED BY <1>3, <1>4, <3>1, <3>2 DEF PollsOwnMovie
    <2>2. CASE q = r /\ jobs[r].status = "completed"
      <3>1. poll'[r] = jobs[r].movie /\ answer' = answer
        BY <1>5, <2>2 DEF PollJob, TypeOK
      <3>2. jobs[r].movie \in Id /\ owner[jobs[r].movie] = r
        BY <2>2 DEF CompletedOwnsMovie
      <3> QED BY <1>2, <1>4, <3>1, <3>2 DEF PollsOwnMovie
    <2> QED BY <2>1, <2>2
  <1>6. ASSUME NEW q \in Req, PollMovie(q)
        PROVE  /\ poll'[r] # 0 => owner'[poll'[r]] = r
               /\ answer'[r] = "gone" => Made(r)' \ movies' # {}
    <2>1. CASE q # r
      <3>1. poll'[r] = poll[r] /\ answer'[r] = answer[r]
        BY <1>6, <2>1 DEF PollMovie, TypeOK
      <3> QED BY <1>3, <1>4, <3>1 DEF PollsOwnMovie
    <2>2. CASE q = r
      <3>1. /\ poll'[r] = 0 /\ poll[r] # 0
            /\ answer'[r] = "gone" => poll[r] \notin movies
        BY <1>6, <2>2 DEF PollMovie, TypeOK
      <3>2. poll[r] \in Made(r)
        BY <1>1, <3>1 DEF PollsOwnMovie, Made, Id
      <3> QED BY <1>4, <3>1, <3>2
    <2> QED BY <2>1, <2>2
  <1>7. ASSUME NEW q \in Req, PollFails(q)
        PROVE  /\ poll'[r] # 0 => owner'[poll'[r]] = r
               /\ answer'[r] = "gone" => Made(r)' \ movies' # {}
    <2>1. /\ poll'[r] = poll[r] \/ poll'[r] = 0
          /\ answer'[r] = "gone" => answer[r] = "gone"
      BY <1>7 DEF PollFails, TypeOK
    <2> QED BY <1>3, <1>4, <2>1 DEF PollsOwnMovie
  <1>8. CASE UNCHANGED client
    <2>1. poll'[r] = poll[r] /\ answer'[r] = answer[r]
      BY <1>8 DEF client
    <2> QED BY <1>3, <1>4, <2>1 DEF PollsOwnMovie
  <1> QED
    BY <1>5, <1>6, <1>7, <1>8
    DEF Next, Publish, Handle, PostMovie, PublishOk, PublishVanishes,
        PublishFails, Deliver, Take, Disconnect, BrokerRestart, NextMovieID,
        NextMovieIDFails, CreateMovie, CreateMovieFails, RecordJobCompleted,
        RecordJobCompletedFails, RecordJobFailure, RecordJobFailureFails,
        Crash, Exit, Replace, Sigterm, DeleteMovie, vars, client

\* A poll of a request begins once it is accepted, which no later step takes back.
LEMMA PollsAcceptedStep ==
    ASSUME TypeOK, PollsAccepted, [Next]_vars
    PROVE  PollsAccepted'
  <1> USE DEF PollsAccepted
  <1>1. ASSUME NEW r \in Req, PostMovie(r) \/ Publish(r) PROVE PollsAccepted'
    BY <1>1 DEF PostMovie, Publish, PublishOk, PublishVanishes, PublishFails, client, TypeOK
  <1>2. ASSUME NEW r \in Req, PollJob(r) \/ PollMovie(r) \/ PollFails(r)
        PROVE  PollsAccepted'
    BY <1>2 DEF PollJob, PollMovie, PollFails, gateway, TypeOK
  <1>3. CASE UNCHANGED <<gateway, client>>
    BY <1>3 DEF gateway, client
  <1> QED
    BY <1>1, <1>2, <1>3
    DEF Next, Handle, Deliver, Take, Disconnect, BrokerRestart, NextMovieID,
        NextMovieIDFails, CreateMovie, CreateMovieFails, RecordJobCompleted,
        RecordJobCompletedFails, RecordJobFailure, RecordJobFailureFails,
        Crash, Exit, Replace, Sigterm, DeleteMovie, vars

\* A worker between messages holds no id, and documents are written for requests.
LEMMA IdsAccountedStep ==
    ASSUME TypeOK, IdsUnwritten, IdsAccounted, [Next]_vars
    PROVE  IdsAccounted'
  <1> DEFINE Unused == \A w \in Worker : pc'[w] \in {"idle", "nextid"} => id'[w] = 0
             Owned == \A i \in movies' : owner'[i] # None
  <1> SUFFICES Unused /\ Owned
    BY DEF IdsAccounted
  <1>1. \A i \in movies : i \in Id /\ owner[i] # None
    BY DEF IdsAccounted, TypeOK
  <1>2. ASSUME NEW w \in Worker, Handle(w) PROVE Unused /\ Owned
    <2>1. \A v \in Worker \ {w} : pc'[v] = pc[v] /\ id'[v] = id[v]
      BY <1>2 DEF Handle, NextMovieID, NextMovieIDFails, CreateMovie, CreateMovieFails,
         RecordJobCompleted, RecordJobCompletedFails, RecordJobFailure,
         RecordJobFailureFails, Goto, Return, TypeOK
    <2>2. pc'[w] \in {"create", "completed", "failed"} \/ (pc'[w] = "idle" /\ id'[w] = 0)
      BY <1>2 DEF Handle, NextMovieID, NextMovieIDFails, CreateMovie, CreateMovieFails,
         RecordJobCompleted, RecordJobCompletedFails, RecordJobFailure,
         RecordJobFailureFails, Goto, Return, TypeOK
    <2>3. Unused
      BY <2>1, <2>2 DEF IdsAccounted
    <2>4. CASE UNCHANGED <<movies, owner>>
      BY <1>1, <2>3, <2>4
    <2>5. CASE pc[w] = "create" /\ Upsert(w)
      <3>1. id[w] \in Id /\ msg[w] \in Req
        BY <2>5 DEF IdsUnwritten, TypeOK, Id
      <3>2. owner'[id[w]] = msg[w] /\ \A i \in movies : owner'[i] # None
        BY <1>1, <2>5, <3>1, WritesKeep DEF Upsert, TypeOK
      <3> QED BY <2>3, <2>5, <3>1, <3>2 DEF Upsert
    <2> QED
      BY <1>2, <2>4, <2>5 DEF Handle, NextMovieID, NextMovieIDFails, CreateMovie,
         CreateMovieFails, RecordJobCompleted, RecordJobCompletedFails,
         RecordJobFailure, RecordJobFailureFails
  <1>3. ASSUME NEW w \in Worker, NEW r \in Req, Take(w, r) PROVE Unused /\ Owned
    BY <1>1, <1>3 DEF Take, TypeOK, IdsAccounted
  <1>4. ASSUME NEW p \in Proc, Crash(p) \/ Exit(p) PROVE Unused /\ Owned
    BY <1>1, <1>4 DEF Crash, Exit, Replace, IdsAccounted
  <1>5. CASE UNCHANGED <<pc, id, owner>> /\ movies' \subseteq movies
    BY <1>1, <1>5 DEF IdsAccounted
  <1>6. ASSUME NEW r \in Req,
               \/ PostMovie(r) \/ Publish(r) \/ PollJob(r) \/ PollMovie(r) \/ PollFails(r)
               \/ \E p \in Proc : Deliver(p, r)
        PROVE  UNCHANGED <<pc, id, owner>> /\ movies' \subseteq movies
    BY <1>6 DEF Publish, PostMovie, PublishOk, PublishVanishes, PublishFails,
       Deliver, PollJob, PollMovie, PollFails, handler
  <1>7. ASSUME \/ \E p \in Proc : Disconnect(p) \/ Sigterm(p)
               \/ BrokerRestart
               \/ \E i \in Id : DeleteMovie(i)
               \/ UNCHANGED vars
        PROVE  UNCHANGED <<pc, id, owner>> /\ movies' \subseteq movies
    BY <1>7 DEF Disconnect, Sigterm, BrokerRestart, DeleteMovie, vars, handler
  <1> HIDE DEF Unused, Owned
  <1> QED BY <1>2, <1>3, <1>4, <1>5, <1>6, <1>7 DEF Next
-----------------------------------------------------------------------------
\* With nothing queued and nothing made, every message is still to be paid for.
LEMMA CopiesInit == Init => CopiesCover
  <1> SUFFICES ASSUME Init, NEW r \in Req PROVE Covered(r)
    BY DEF CopiesCover
  <1>1. Buffered(r) = {}
    <2>1. \A p \in Proc : 1..buffered[p][r] = {}
      BY DEF Init
    <2> QED BY <2>1 DEF Buffered
  <1>2. Made(r) = {}
    BY DEF Init, Made
  <1>3. ASSUME NEW L \in {{"nextid", "create"}, {"nextid", "create", "failed"},
                          {"nextid", "create", "completed", "failed"}}
        PROVE  InHand(r, L) = 0
    <2>1. Handling(r, L) = {}
      BY DEF Init, Handling
    <2>2. ready[r] = 0
      BY DEF Init
    <2> QED BY <1>1, <2>1, <2>2, FS_EmptySet DEF InHand, Waiting
  <1>4. copies[r] = 0 /\ jobs[r].error = FALSE /\ jobs[r].movie = 0
    BY DEF Init, NoJob
  <1> QED BY <1>1, <1>2, <1>3, <1>4, FS_EmptySet DEF Covered, Bit

\* The invariant holds before the first request, and no step breaks it.
LEMMA InvInit == Init => JobInv
  <1> SUFFICES ASSUME Init PROVE JobInv
    OBVIOUS
  <1>1. TypeOK
    BY TypeInit
  <1>2. AttemptsLeft
    BY DEF Init, AttemptsLeft
  <1>3. IdsUnwritten /\ WrittenByWorker
    BY DEF Init, IdsUnwritten, WrittenByWorker
  <1>4. CompletedOwnsMovie /\ PendingIsExplained /\ OutcomeRecorded
    BY DEF Init, NoJob, CompletedOwnsMovie, PendingIsExplained, OutcomeRecorded
  <1>5. CopiesCover
    BY CopiesInit
  <1>6. FailureHasError /\ PollsOwnMovie /\ PollsAccepted /\ IdsAccounted
    BY DEF Init, NoJob, FailureHasError, PollsOwnMovie, PollsAccepted, IdsAccounted
  <1> QED BY <1>1, <1>2, <1>3, <1>4, <1>5, <1>6 DEF JobInv

\* Every step keeps the inductive invariant.
LEMMA InvStep == JobInv /\ [Next]_vars => JobInv'
  <1> SUFFICES ASSUME JobInv, [Next]_vars PROVE JobInv'
    OBVIOUS
  <1>0. /\ TypeOK /\ AttemptsLeft /\ IdsUnwritten /\ WrittenByWorker
        /\ CompletedOwnsMovie /\ PendingIsExplained /\ OutcomeRecorded
        /\ CopiesCover /\ FailureHasError /\ PollsOwnMovie /\ PollsAccepted /\ IdsAccounted
    BY DEF JobInv
  <1>1. TypeOK'
    BY <1>0, TypeStep
  <1>2. AttemptsLeft' /\ IdsUnwritten' /\ WrittenByWorker'
    BY <1>0, AttemptsStep, IdsStep
  <1>3. CompletedOwnsMovie' /\ OutcomeRecorded'
    BY <1>0, OwnsStep, OutcomeStep
  <1>4. PendingIsExplained'
    BY <1>0, <1>1, ExplainedStep
  <1>5. CopiesCover'
    BY <1>0, <1>1, CopiesStep
  <1>6. FailureHasError' /\ PollsOwnMovie' /\ PollsAccepted' /\ IdsAccounted'
    BY <1>0, FailureStep, PollsStep, PollsAcceptedStep, IdsAccountedStep
  <1> QED BY <1>1, <1>2, <1>3, <1>4, <1>5, <1>6 DEF JobInv

\* The inductive invariant holds whatever faults occur and however requests,
\* workers, replicas and polls interleave.
THEOREM InvHolds == Spec => []JobInv
  <1>1. JobInv /\ [Next]_vars => JobInv'
    BY InvStep
  <1> QED BY InvInit, <1>1, PTL DEF Spec

\* Typing of every variable.
THEOREM TypeCorrect == Spec => []TypeOK
  <1>1. JobInv => TypeOK
    BY DEF JobInv
  <1> QED BY InvHolds, <1>1, PTL

\* A completed job names a movie written from its own message.
THEOREM CompletedOwns == Spec => []CompletedOwnsMovie
  <1>1. JobInv => CompletedOwnsMovie
    BY DEF JobInv
  <1> QED BY InvHolds, <1>1, PTL

\* No accepted request ends in silence without one of the named losses.
THEOREM PendingExplained == Spec => []PendingIsExplained
  <1>1. JobInv => PendingIsExplained
    BY DEF JobInv
  <1> QED BY InvHolds, <1>1, PTL

\* A poll that follows an answered outcome does not answer "pending".
THEOREM OutcomesStay == Spec => OutcomeStays
  <1> DEFINE Kept == \A r \in Req :
                         answer[r] \in {"movie", "gone", "failed"} => answer'[r] # "pending"
  <1>1. JobInv /\ [Next]_vars => [Kept]_vars
    <2> SUFFICES ASSUME JobInv, [Next]_vars, NEW r \in Req,
                        answer[r] \in {"movie", "gone", "failed"}
                 PROVE  answer'[r] # "pending"
      OBVIOUS
    <2> USE DEF JobInv, TypeOK
    <2>1. jobs[r].status # "pending"
      BY DEF OutcomeRecorded
    <2>2. ASSUME NEW q \in Req, PollJob(q) \/ PollMovie(q) \/ PollFails(q)
          PROVE  answer'[r] # "pending"
      BY <2>1, <2>2 DEF PollJob, PollMovie, PollFails
    <2>3. CASE UNCHANGED client
      BY <2>3 DEF client
    <2> QED
      BY <2>2, <2>3
      DEF Next, Publish, Handle, PostMovie, PublishOk, PublishVanishes,
          PublishFails, Deliver, Take, Disconnect, BrokerRestart, NextMovieID,
          NextMovieIDFails, CreateMovie, CreateMovieFails, RecordJobCompleted,
          RecordJobCompletedFails, RecordJobFailure, RecordJobFailureFails,
          Crash, Exit, Replace, Sigterm, DeleteMovie, vars, client
  <1> QED BY InvHolds, <1>1, PTL DEF Spec, OutcomeStays

\* A request with movies has a number of them.
LEMMA MadeIsCounted ==
    ASSUME NEW r, Made(r) # {}
    PROVE  Cardinality(Made(r)) >= 1
  <1>1. Cardinality(Made(r)) # 0
    BY MadeCount, FS_EmptySet
  <1> QED BY <1>1, MadeCount

\* A delivery makes at most one movie: the movies of a request, and the messages
\* that can still make one, are never more than its messages in the queue.
THEOREM OneMovieEach == Spec => []OneMoviePerCopy
  <1>1. JobInv => OneMoviePerCopy
    <2> SUFFICES ASSUME JobInv, NEW r \in Req
                 PROVE  Cardinality(Made(r)) + Waiting(r)
                          + Cardinality(Handling(r, {"nextid", "create"})) <= copies[r]
      BY DEF OneMoviePerCopy
    <2>1. TypeOK /\ Covered(r)
      BY DEF JobInv, CopiesCover
    <2> QED BY <2>1, CountsAreNat DEF Covered, InHand
  <1> QED BY InvHolds, <1>1, PTL

\* A job reported as failed left no movie behind, unless its message was queued
\* twice or a write of it was carried out and answered with an error.
THEOREM FailedMadeNone == Spec => []FailedMadeNothing
  <1>1. JobInv => FailedMadeNothing
    <2> SUFFICES ASSUME JobInv, NEW r \in Req, jobs[r].status = "failed", Made(r) # {},
                        "write" \notin loss[r]
                 PROVE  copies[r] > 1
      BY DEF FailedMadeNothing
    <2>1. TypeOK /\ Covered(r) /\ jobs[r].error
      BY DEF JobInv, CopiesCover, FailureHasError
    <2>2. Bit(jobs[r].error) = 1
      BY <2>1 DEF Bit
    <2>3. Cardinality(Made(r)) + InHand(r, {"nextid", "create", "failed"}) + 1 <= copies[r]
      BY <2>1, <2>2 DEF Covered
    <2> QED BY <2>1, <2>3, MadeIsCounted, CountsAreNat
  <1> QED BY InvHolds, <1>1, PTL

\* A completed job with an error was handled twice, and a poll that finds no movie
\* for a completed job comes after a delete.
THEOREM AnswersAreExplained == Spec => []AnswersExplained
  <1>1. JobInv => AnswersExplained
    <2> SUFFICES ASSUME JobInv, NEW r \in Req,
                        jobs[r].status = "completed", jobs[r].error
                 PROVE  copies[r] > 1
      BY DEF AnswersExplained, JobInv, PollsOwnMovie
    <2>1. TypeOK /\ Covered(r) /\ jobs[r].movie \in Id
      BY DEF JobInv, CopiesCover, CompletedOwnsMovie
    <2>2. jobs[r].movie # 0
      BY <2>1 DEF Id
    <2>3. Bit(jobs[r].error) = 1 /\ Bit(jobs[r].movie # 0) = 1
      BY <2>2 DEF Bit
    <2>4. InHand(r, {"nextid", "create", "completed", "failed"}) + 1 + 1 <= copies[r]
      BY <2>1, <2>3 DEF Covered
    <2> QED BY <2>1, <2>4, CountsAreNat
  <1> QED BY InvHolds, <1>1, PTL
-----------------------------------------------------------------------------
\* Workers, replicas, faults and deletes do to the ids what the registry allows.
LEMMA RegistryStep ==
    ASSUME JobInv, [Next]_vars
    PROVE  [Registry!Next]_(Registry!vars)
  <1>0. TypeOK /\ IdsUnwritten /\ IdsAccounted
    BY DEF JobInv
  <1>1. ASSUME 1..lastId' = 1..lastId, movies' = movies, Unwritten' \subseteq Unwritten
        PROVE  Registry!Next
    <2>1. Unwritten' = Unwritten \ (Unwritten \ Unwritten')
      BY <1>1
    <2> QED BY <1>1, <2>1 DEF Registry!Next, Registry!Discard
  <1>2. ASSUME lastId' = lastId, movies' = movies, owner' = owner,
               \A w \in Worker : pc'[w] \in {"create", "failed"} /\ id'[w] # 0 =>
                   pc[w] \in {"create", "failed"} /\ id'[w] = id[w]
        PROVE  Registry!Next
    <2>1. Unwritten' \subseteq Unwritten
      BY <1>2 DEF Unwritten, Id
    <2> QED BY <1>1, <1>2, <2>1
  <1>3. ASSUME NEW w \in Worker, NextMovieID(w) PROVE Registry!Next
    <2>1. /\ lastId' \in Id /\ lastId' = lastId + 1 /\ lastId \in Nat
          /\ movies' = movies /\ owner' = owner
      BY <1>0, <1>3 DEF NextMovieID, TypeOK, Id
    <2>2. owner[lastId'] = None /\ lastId' \notin movies
      BY <1>0, <2>1 DEF IdsUnwritten, IdsAccounted
    <2>3. /\ pc[w] = "nextid" /\ id[w] = 0
          /\ pc'[w] \in {"create", "failed"} /\ id'[w] = lastId'
          /\ \A v \in Worker \ {w} : pc'[v] = pc[v] /\ id'[v] = id[v]
      BY <1>0, <1>3 DEF NextMovieID, Goto, TypeOK, IdsAccounted
    <2>4. Unwritten' = Unwritten \cup {lastId'}
      BY <2>1, <2>2, <2>3 DEF Unwritten
    <2>5. 1..lastId' = 1..lastId \cup {lastId'} /\ lastId' \notin 1..lastId
      BY <2>1
    <2> QED BY <2>1, <2>2, <2>4, <2>5 DEF Registry!Next, Registry!Issue
  <1>4. ASSUME NEW w \in Worker, pc[w] = "create", Upsert(w), lastId' = lastId, id' = id,
               NEW l \in {"completed", "failed"}, Goto(w, l)
        PROVE  Registry!Next
    <2>1. id[w] \in Id /\ owner[id[w]] = None /\ msg[w] \in Req
      BY <1>0, <1>4 DEF IdsUnwritten, TypeOK, Id
    <2>2. id[w] \in Unwritten /\ id[w] \notin movies
      BY <1>0, <1>4, <2>1 DEF Unwritten, IdsAccounted
    <2>3. owner'[id[w]] # None /\ \A i \in Id \ {id[w]} : owner'[i] = owner[i]
      BY <1>0, <1>4, <2>1 DEF Upsert, TypeOK
    <2>4. \A v \in Worker \ {w} : pc'[v] = pc[v] /\ id'[v] = id[v]
      BY <1>0, <1>4 DEF Goto, TypeOK
    <2>5. Unwritten' = Unwritten \ {id[w]}
      <3> SUFFICES ASSUME NEW i \in Id PROVE i \in Unwritten' <=> i \in Unwritten /\ i # id[w]
        BY DEF Unwritten
      <3>1. CASE i = id[w]
        BY <2>3, <3>1 DEF Unwritten
      <3>2. CASE i # id[w]
        <4>1. \A v \in Worker : id'[v] = i => v # w
          BY <1>4, <3>2
        <4> QED BY <1>4, <2>3, <2>4, <3>2, <4>1 DEF Unwritten
      <3> QED BY <3>1, <3>2
    <2> QED BY <1>4, <2>1, <2>2, <2>5 DEF Upsert, Registry!Next, Registry!Store
  <1>5. ASSUME NEW w \in Worker, Handle(w) PROVE Registry!Next
    <2>1. CASE NextMovieID(w)
      BY <1>3, <2>1
    <2>2. CASE CreateMovie(w)
      BY <1>4, <2>2 DEF CreateMovie
    <2>3. CASE CreateMovieFails(w)
      <3>1. CASE UNCHANGED <<movies, owner>>
        <4>1. \A v \in Worker : pc'[v] \in {"create", "failed"} /\ id'[v] # 0 =>
                  pc[v] \in {"create", "failed"} /\ id'[v] = id[v]
          BY <1>0, <2>3 DEF CreateMovieFails, Goto, TypeOK
        <4> QED BY <1>2, <2>3, <3>1, <4>1 DEF CreateMovieFails
      <3> QED BY <1>4, <2>3, <3>1 DEF CreateMovieFails
    <2>4. CASE NextMovieIDFails(w)
      <3>1. \A v \in Worker : pc'[v] \in {"create", "failed"} /\ id'[v] # 0 =>
                pc[v] \in {"create", "failed"} /\ id'[v] = id[v]
        BY <1>0, <2>4 DEF NextMovieIDFails, Goto, TypeOK, IdsAccounted
      <3> QED BY <1>2, <2>4, <3>1 DEF NextMovieIDFails
    <2>5. CASE Return(w) /\ UNCHANGED <<lastId, movies, owner>>
      <3>1. \A v \in Worker : pc'[v] \in {"create", "failed"} =>
                pc[v] \in {"create", "failed"} /\ id'[v] = id[v]
        BY <1>0, <2>5 DEF Return, Goto, TypeOK
      <3> QED BY <1>2, <2>5, <3>1
    <2> QED
      BY <1>5, <2>1, <2>2, <2>3, <2>4, <2>5 DEF Handle, RecordJobCompleted,
         RecordJobCompletedFails, RecordJobFailure, RecordJobFailureFails
  <1>6. ASSUME NEW p \in Proc, Crash(p) \/ Exit(p) PROVE Registry!Next
    <2>1. \A v \in Worker : pc'[v] \in {"create", "failed"} =>
              pc[v] \in {"create", "failed"} /\ id'[v] = id[v]
      BY <1>6 DEF Crash, Exit, Replace
    <2> QED BY <1>2, <1>6, <2>1 DEF Crash, Exit, Replace
  <1>7. ASSUME NEW w \in Worker, NEW r \in Req, Take(w, r) PROVE Registry!Next
    <2>1. \A v \in Worker : pc'[v] \in {"create", "failed"} =>
              pc[v] \in {"create", "failed"} /\ id'[v] = id[v]
      BY <1>0, <1>7 DEF Take, TypeOK
    <2> QED BY <1>2, <1>7, <2>1 DEF Take
  <1>8. ASSUME UNCHANGED <<handler, owner>> PROVE Unwritten' = Unwritten /\ lastId' = lastId
    BY <1>8 DEF Unwritten, handler
  <1>9. ASSUME NEW i \in Id, DeleteMovie(i) PROVE Registry!Next
    BY <1>8, <1>9 DEF DeleteMovie, Registry!Next, Registry!Remove
  <1>10. ASSUME UNCHANGED <<handler, owner, movies>> PROVE Registry!Next
    BY <1>1, <1>8, <1>10
  <1>11. ASSUME NEW r \in Req,
                \/ PostMovie(r) \/ Publish(r) \/ PollJob(r) \/ PollMovie(r) \/ PollFails(r)
                \/ \E p \in Proc : Deliver(p, r)
         PROVE  UNCHANGED <<handler, owner, movies>>
    BY <1>11 DEF Publish, PostMovie, PublishOk, PublishVanishes, PublishFails,
       Deliver, PollJob, PollMovie, PollFails
  <1>12. ASSUME \/ \E p \in Proc : Disconnect(p) \/ Sigterm(p)
                \/ BrokerRestart
                \/ UNCHANGED vars
         PROVE  UNCHANGED <<handler, owner, movies>>
    BY <1>12 DEF Disconnect, Sigterm, BrokerRestart, vars, handler
  <1> QED
    BY <1>5, <1>6, <1>7, <1>9, <1>10, <1>11, <1>12 DEF Next

\* The asynchronous creation refines the registry of ids, which MovieIds refines
\* too: what this module assumes of NextMovieID is what that module guarantees.
THEOREM RegistryRefined == Spec => ImplementsRegistry
  <1>1. Init => Registry!Init
    BY DEF Init, Registry!Init, Unwritten
  <1>2. JobInv /\ [Next]_vars => [Registry!Next]_(Registry!vars)
    BY RegistryStep
  <1> QED BY InvHolds, <1>1, <1>2, PTL DEF Spec, ImplementsRegistry, Registry!Spec
-----------------------------------------------------------------------------
\* The promise counts movies as this module does.
LEMMA SameCardinality == ASSUME NEW S PROVE Promise!Cardinality(S) = Cardinality(S)
  BY DEF Promise!Cardinality, Cardinality

\* Each message in a worker's hands still counts against the copies sent.
LEMMA HandledWasSent ==
    ASSUME JobInv, NEW w \in Worker, pc[w] # "idle"
    PROVE  /\ msg[w] \in Req /\ copies[msg[w]] > 0
           /\ pc[w] = "create" => Cardinality(Made(msg[w])) < copies[msg[w]]
  <1> DEFINE r == msg[w]
  <1>1. r \in Req /\ TypeOK /\ Covered(r)
    BY DEF JobInv, TypeOK, CopiesCover
  <1>2. ASSUME NEW L, pc[w] \in L PROVE InHand(r, L) >= 1
    <2>1. w \in Handling(r, L) /\ IsFiniteSet(Handling(r, L))
      BY <1>2, WorkerAssumption, FS_Subset DEF Handling
    <2>2. Cardinality(Handling(r, L)) \in Nat /\ Cardinality(Handling(r, L)) # 0
      BY <2>1, FS_CardinalityType, FS_EmptySet
    <2> QED BY <1>1, <2>2, CountsAreNat DEF InHand
  <1>3. pc[w] \in {"nextid", "create", "completed", "failed"}
    BY <1>1 DEF TypeOK
  <1>4. copies[r] > 0
    <2>1. InHand(r, {"nextid", "create", "completed", "failed"}) >= 1
      BY <1>2, <1>3
    <2> HIDE DEF r
    <2> QED BY <1>1, <2>1, CountsAreNat DEF Covered
  <1>5. pc[w] = "create" => Cardinality(Made(r)) < copies[r]
    <2>1. pc[w] = "create" => InHand(r, {"nextid", "create"}) >= 1
      BY <1>2
    <2> HIDE DEF r
    <2> QED BY <1>1, <2>1, CountsAreNat DEF Covered
  <1> QED BY <1>1, <1>4, <1>5

\* What a handler does is a movie made or an outcome recorded, or unseen.
LEMMA HandlerKeepsPromise ==
    ASSUME JobInv, NEW w \in Worker, Handle(w)
    PROVE  Promise!Next \/ UNCHANGED <<http, copies, owner, movies, jobs, answer>>
  <1>1. pc[w] # "idle" /\ UNCHANGED <<http, copies, answer>>
    BY DEF Handle, NextMovieID, NextMovieIDFails, CreateMovie, CreateMovieFails,
           RecordJobCompleted, RecordJobCompletedFails, RecordJobFailure,
           RecordJobFailureFails, gateway, broker, client
  <1>2. PICK r \in Req : r = msg[w] /\ copies[r] > 0
    BY <1>1, HandledWasSent
  <1>3. ASSUME pc[w] = "create", Upsert(w), jobs' = jobs PROVE Promise!Next
    <2>1. PICK i \in Id : i = id[w] /\ owner[i] = None
      BY <1>3 DEF JobInv, IdsUnwritten, TypeOK, Id
    <2>2. Promise!Cardinality(Promise!MadeFor(r)) < copies[r]
      BY <1>1, <1>2, <1>3, HandledWasSent, SameCardinality DEF Made, Promise!MadeFor
    <2>3. Promise!Make(r, i)
      BY <1>1, <1>2, <1>3, <2>1, <2>2 DEF Upsert, Promise!Make
    <2> QED BY <2>3 DEF Promise!Next
  <1>4. ASSUME pc[w] = "completed", SaveCompleted(msg[w], id[w]), UNCHANGED <<owner, movies>>
        PROVE  Promise!Next
    <2>1. PICK i \in Id : i = id[w] /\ i \in Promise!MadeFor(r)
      BY <1>2, <1>4 DEF JobInv, IdsUnwritten, WrittenByWorker, TypeOK, Id, Promise!MadeFor
    <2>2. \A q \in Req :
            /\ jobs'[q].status = IF q = r THEN "completed" ELSE jobs[q].status
            /\ jobs'[q].movie = IF q = r THEN i ELSE jobs[q].movie
      BY <1>2, <1>4, <2>1 DEF SaveCompleted, JobInv, TypeOK
    <2>3. Promise!Complete(r, i)
      BY <1>1, <1>4, <2>1, <2>2 DEF Promise!Complete
    <2> QED BY <2>3 DEF Promise!Next
  <1>5. ASSUME SaveFailed(msg[w]), UNCHANGED <<owner, movies>> PROVE Promise!Next
    <2>1. \A q \in Req :
            /\ jobs'[q].status = IF q = r THEN "failed" ELSE jobs[q].status
            /\ jobs'[q].movie = jobs[q].movie
      BY <1>2, <1>5 DEF SaveFailed, JobInv, TypeOK
    <2>2. Promise!Fail(r)
      BY <1>1, <1>2, <1>5, <2>1 DEF Promise!Fail
    <2> QED BY <2>2 DEF Promise!Next
  <1>6. CASE NextMovieID(w) \/ NextMovieIDFails(w)
    BY <1>1, <1>6 DEF NextMovieID, NextMovieIDFails
  <1>7. CASE CreateMovie(w) \/ CreateMovieFails(w)
    BY <1>1, <1>3, <1>7 DEF CreateMovie, CreateMovieFails
  <1>8. CASE RecordJobCompleted(w) \/ RecordJobCompletedFails(w)
    BY <1>1, <1>4, <1>8 DEF RecordJobCompleted, RecordJobCompletedFails
  <1>9. CASE RecordJobFailure(w) \/ RecordJobFailureFails(w)
    BY <1>1, <1>5, <1>9 DEF RecordJobFailure, RecordJobFailureFails
  <1> QED BY <1>6, <1>7, <1>8, <1>9 DEF Handle

\* What a poll answers was so.
LEMMA PollKeepsPromise ==
    ASSUME JobInv, NEW r \in Req, PollJob(r) \/ PollMovie(r) \/ PollFails(r)
    PROVE  Promise!Next \/ UNCHANGED <<http, copies, owner, movies, jobs, answer>>
  <1>1. UNCHANGED <<http, copies, owner, movies, jobs>>
    BY DEF PollJob, PollMovie, PollFails, gateway, broker
  <1>2. http[r] = "accepted"
    BY DEF PollJob, PollMovie, PollFails, JobInv, PollsAccepted
  <1>3. ASSUME NEW what \in {"pending", "failed", "movie", "gone", "error"},
               Promise!Tell(r, what)
        PROVE  Promise!Next
    BY <1>3 DEF Promise!Next
  <1>4. CASE PollJob(r)
    <2>1. CASE jobs[r].status = "completed"
      BY <1>1, <1>4, <2>1 DEF PollJob
    <2>2. CASE jobs[r].status # "completed"
      <3>1. /\ jobs[r].status \in {"pending", "failed"}
            /\ answer' = [answer EXCEPT ![r] = jobs[r].status]
        BY <1>4, <2>2 DEF PollJob, JobInv, TypeOK, Status
      <3>2. Promise!Tell(r, jobs[r].status)
        BY <1>1, <1>2, <3>1 DEF Promise!Tell
      <3> QED BY <1>3, <3>1, <3>2
    <2> QED BY <2>1, <2>2
  <1>5. CASE PollMovie(r)
    <2>1. jobs[r].status # "pending" /\ poll[r] \in Promise!MadeFor(r)
      BY <1>5 DEF PollMovie, JobInv, OutcomeRecorded, PollsOwnMovie, TypeOK, Id, Promise!MadeFor
    <2>2. CASE poll[r] \in movies
      <3>1. Promise!Tell(r, "movie")
        BY <1>1, <1>2, <1>5, <2>1, <2>2 DEF PollMovie, Promise!Tell
      <3> QED BY <1>3, <3>1
    <2>3. CASE poll[r] \notin movies
      <3>1. Promise!Tell(r, "gone")
        BY <1>1, <1>2, <1>5, <2>1, <2>3 DEF PollMovie, Promise!Tell
      <3> QED BY <1>3, <3>1
    <2> QED BY <2>2, <2>3
  <1>6. CASE PollFails(r)
    <2>1. Promise!Tell(r, "error")
      BY <1>1, <1>2, <1>6 DEF PollFails, Promise!Tell
    <2> QED BY <1>3, <2>1
  <1> QED BY <1>4, <1>5, <1>6

\* Every step of the creation is one of its promise or goes unseen by clients.
LEMMA PromiseStep ==
    ASSUME JobInv, [Next]_vars
    PROVE  [Promise!Next]_(Promise!vars)
  <1>1. UNCHANGED <<http, copies, owner, movies, jobs, answer>> => UNCHANGED Promise!vars
    BY DEF Promise!vars
  <1>2. ASSUME NEW r \in Req, PostMovie(r) PROVE Promise!Next
    BY <1>2 DEF PostMovie, broker, client, Promise!Next, Promise!Post
  <1>3. ASSUME NEW r \in Req, Publish(r) PROVE Promise!Next
    <2>1. /\ http[r] = "publishing" /\ UNCHANGED <<owner, movies, jobs, answer>>
          /\ copies' = [copies EXCEPT ![r] = @ + 1] \/ UNCHANGED copies
      BY <1>3 DEF Publish, PublishOk, PublishVanishes, PublishFails, Enqueue, broker, client
    <2>2. \E a \in {"publishing", "accepted", "refused"} : http' = [http EXCEPT ![r] = a]
      BY <1>3 DEF Publish, PublishOk, PublishVanishes, PublishFails, JobInv, TypeOK
    <2>3. Promise!Publish(r)
      BY <2>1, <2>2 DEF Promise!Publish
    <2> QED BY <2>3 DEF Promise!Next
  <1>4. ASSUME NEW i \in Id, DeleteMovie(i) PROVE Promise!Next
    BY <1>4 DEF DeleteMovie, gateway, broker, client, Promise!Next, Promise!Remove
  <1>5. ASSUME \/ \E r \in Req, p \in Proc : Deliver(p, r)
               \/ \E r \in Req, w \in Worker : Take(w, r)
               \/ \E p \in Proc : Disconnect(p) \/ Crash(p) \/ Sigterm(p) \/ Exit(p)
               \/ BrokerRestart
               \/ UNCHANGED vars
        PROVE  UNCHANGED <<http, copies, owner, movies, jobs, answer>>
    BY <1>5 DEF Deliver, Take, Disconnect, Crash, Exit, Replace, Sigterm, BrokerRestart, vars,
       gateway, broker, client
  <1> QED
    BY <1>1, <1>2, <1>3, <1>4, <1>5, HandlerKeepsPromise, PollKeepsPromise DEF Next

\* The asynchronous creation keeps what CreationPromise promises its clients.
THEOREM PromiseKept == Spec => ImplementsPromise
  <1>1. Init => Promise!Init
    BY DEF Init, NoJob, Promise!Init
  <1>2. JobInv /\ [Next]_vars => [Promise!Next]_(Promise!vars)
    BY PromiseStep
  <1> QED BY InvHolds, <1>1, <1>2, PTL DEF Spec, ImplementsPromise, Promise!Spec
=============================================================================
