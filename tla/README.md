# Movies-API in TLA+

Specifications, model-checking runs and machine-checked proofs for the parts of
Movies-API whose correctness depends on order, concurrency, failure and the
conversions between its layers: the numbering of movies, their asynchronous
creation, the seeding at boot, the gateway's resilience layer, the catalogue as
clients read it, the lives of the two processes, and the load generator behind
the published performance figures. The code is Go; paths below are relative to
the repository's root.

## 1. Inventory

```
client --HTTP--> api-gateway --gRPC (retry, breaker)--> movies-service --> MongoDB
                     |                                      ^
                     +--publish (retry, breaker)--> RabbitMQ --> consumer workers
```

| Part | State | Operations | Interacts by |
|---|---|---|---|
| Movie repository, `adapters/mongodb/movie_repo.go` | collections `movies`, `counters`; per process `counterOnce`, `counterErr` | NextID, CreateMovie (upsert), DeleteMovie, GetMovieByID, ListMovies | MongoDB operations, each atomic; shared by all replicas |
| Job repository, `movie_job_repo.go` | collection `movie_jobs` | SaveCompleted, SaveFailed, GetStatus | MongoDB |
| Consumer and message handler, `adapters/rabbitmq/consumer.go`, `cmd/main.go` | deliveries buffered in memory, worker goroutines | handle one message: number, write, record | a Go channel shared by the workers; automatic acknowledgement |
| Movie service and gRPC server, `core/service`, `adapters/grpc-server` | none | the five RPCs, error classification | calls |
| Seed, `adapters/seed/mongo_seed.go` | `movies` | fill an empty collection at boot | MongoDB |
| Gateway handlers, `api-gateway/internal/handlers` | none | five HTTP routes | client and publisher |
| Resilience, `api-gateway/internal/resilience` | two breakers; per request: attempt, deadline | Retry, executeBreaker | shared by all HTTP goroutines |
| RabbitMQ publisher, `api-gateway/internal/adapters/rabbitmq` | `conn`, `channel`, `mu` | Publish with lazy redial | mutex, network |
| Domain, `core/domain` | none | validation of id, title, year, when a movie is created and each time it is read | calls |
| The two mains, `*/cmd/main.go` | stage of boot and shutdown; context of the signal; listening goroutine | boot, SIGTERM, Shutdown, GracefulStop, deferred calls, log.Fatal | OS signals, goroutines |
| Tracing, `*/observability/tracing.go` | ended spans of the batch processor | InitTracing, export, shutdown | deferred call of main, OTLP collector |
| Load generator, `docs/performance/tools/ingest-load` | result and status of each item | publish, drain, report | HTTP; goroutines under a semaphore and a WaitGroup |
| Metrics, Hermes agent, generated code, infra, other tools | | | no effect on the state above |

What is hard in this system, and which property faces it, is the `hazards` list
of PROJECT.json, line by line. In short: several replicas
(`infra/kubernetes/backend-hpa.yaml` allows 3, and a rolling update runs two at
once) and four workers each number movies from one counter that is seeded from
the movies themselves; messages are acknowledged on delivery and published
without confirms but with retries, so they are lost and duplicated; an
operation that returned an error may have been applied, or be applied later;
the breakers are shared by goroutines whose attempts outlive one another; the
gateway and the domain measure the same title differently, and what is stored is
validated again when it is read, under a limit that moves with the clock; pages
are cut from a collection that changes between them; and a process ends in three
ways, of which `log.Fatal` skips everything that was deferred.

## 2. Modules

| Module | What it is |
|---|---|
| `IdRegistry` | abstract: an id is issued to one creation, never while a movie has it, and stored at most once |
| `MovieIds` | NextID, sync.Once, counter document, upsert, delete; implements `IdRegistry` |
| `CreationPromise` | abstract: what a client may rely on who creates a movie: what a message can make, what a job can become, what an answer may say |
| `CreateJobs` | POST /movies to GET /movies/status across gateway, RabbitMQ, replicas, workers; implements `CreationPromise` |
| `SeedBoot` | the boot of replicas on new, filled and half-filled databases |
| `Resilience` | Retry around a gobreaker around an attempt; abstract about what an attempt is |
| `Dependency` | what the next two have in common: callers, breaker, callTimeout |
| `MovieClient` | gRPC client, movies-service and MongoDB inside `Resilience`; implements it |
| `PublisherConnection` | state and safety properties of the shared RabbitMQ connection |
| `MoviePublisher` | its steps, inside `Resilience`; implements it |
| `Catalogue` | the collection as clients see it: paths, validation, GET, DELETE, pages |
| `ProcessLife` | gateway and movies-service from boot to exit, with requests, RPCs and spans under way |
| `IngestLoad` | the load generator: goroutines, rounds of polling, deadline, report |
| `Dependencies_proofs` | theorems and proofs about `MovieClient`, which it extends, and about `MoviePublisher`, an instance `P` of it on the state of `PublisherConnection` |
| other `*_proofs` | theorems and proofs about the module of that name |
| `MC*` | instances for TLC |

Each action is one handler step as the code has it; PROJECT.json `map` gives the
lines. The modules meet at interfaces, not in one product: `CreateJobs` uses the
numbering that `MovieIds` is shown to implement, `MovieClient` and
`MoviePublisher` are two dependencies shown to behave as `Resilience` allows,
`Catalogue` says what every call does when nothing goes wrong on its way, and
`ProcessLife` says which calls an ending process may cut. What each leaves out:

**MovieIds.** Movies are their ids. A MongoDB operation succeeds, fails without
effect, or is applied although its caller gets an error; an upsert may be
applied after its caller gave up or died (`late`). The counter saturates at
`MaxInt32 + 1`: MongoDB widens it to 64 bits there and every later value fails
to decode alike. The initial database is arbitrary.

**CreateJobs.** NextID is one step that issues the ids in order. That this is the
registry `MovieIds` implements is a theorem (`RegistryRefined` of
`CreateJobs_proofs`): the two modules meet in `IdRegistry`. The queue is a bag:
workers overtake one another, so its order says nothing about the order of effects. A failed publish may have put a message in
the queue, a successful one may have not. `loss[r]` is a history variable that
names what a result was lost to, so that the properties can say *unless* without
saying *anything goes*. `copies` and `owner` are history variables too.
`CreationPromise` forgets the queue, the replicas, the workers and what a poll has
read so far; what remains is the POST, the messages sent, the movies and whom
they were made for, the job record and the last answer.

**SeedBoot.** InsertMany inserts document by document in the order of the file,
which is ascending. The seeding of the counter reads the largest id in one step
(`ReadLargest`, which keeps it in `max`) and raises the counter in another
(`SeedCounter`), so that an insertion comes before, between or after them. An
upsert whose caller got an error or died may be applied at any later moment
(`LateUpsert`), also to a collection that another replica seeded meanwhile. Only
the write of the counter is applied at once or never when its replica dies, here
and in `MovieIds`: a `$max` applied later still can only raise the counter, which
skips ids and uncovers none.
`exposed` is a history variable: the seeds that were outstanding while some
replica had read the largest id or already numbered movies, or while an upsert of
their id was still to come.

**Resilience.** Time is left out: Interval, Timeout and backoffs pass at any
moment. gobreaker looks at its timers when it is next used, the model moves
when they expire; no caller can see the difference (the gauge of
`resilience/metrics.go` could, and is not modelled). The generation number
becomes the set of attempts of the present generation.

**MovieClient.** One movie, present at first: ids do not interact and
`MovieIds` shows none is reused. GET and DELETE stand for the RPCs; ListMovie
and GetMovieStatus take the same path and change nothing.

**MoviePublisher.** A connection is open, has lost its channel, or is closed. The
publisher's steps are those between which another goroutine or a network fault
can come: check, dial, take the channel, send.

**Catalogue.** A title is a sort key, its numbers of characters and bytes, and how
many of these are white space that trimming takes; a year is a key and the
number Atoi reads, as a year is sorted as text. A filter is the set of movies
it selects. `Int32` is the conversion of the handlers, on a word of `2 * Half`
values. One client walks the pages; GET, DELETE, creations and jumps to any page
go on around it, each in one step. `walk` holds the history the properties about
the walk need. A cursor that breaks off has yielded its first batch, 101
documents, and the handler takes no limit above 100. MongoDB may answer movies with
equal sort keys in another order on every page; a walk is `tied` when one of its
pages was cut between two such movies (`Cut`), which is what
`WalkFollowsChanges` excludes. Equal keys elsewhere in the list do no harm.

**ProcessLife.** One gateway, one movies-service; a request makes at most one RPC.
The consumer's messages at shutdown are in `CreateJobs`. Of the spans, those the
gateway's handlers end are followed, one for each request: they wait in the queue
of the BatchSpanProcessor, of `QueueSize` places, until its goroutine puts them
into a batch, and are dropped when the queue is full. The goroutine may be busy at
any time, so that the batch needs no limit of its own. A listener may fail at any
time, which ends its process by `log.Fatal`. A handler whose context is cancelled ends;
one whose context is not may wait for MongoDB for ever.

**IngestLoad.** The system under load is reduced to the fate of a job: it settles,
late or never, and a POST that failed may have made one. A job that settled may
settle again, with the other outcome, when its message has two copies, since
`movie_job_repo.go:28-46` writes the status whatever it was; the history variable
`had` keeps the outcomes a job has had. Latencies and the HTTP
bodies are left out.

**Domain of the data.** `MovieClient`, `MovieIds` and `CreateJobs` treat a movie as
valid or not; `Catalogue` says which is which. That splits what a handler does
over several modules, and PROJECT.json `components` names them for each part.

## 3. Runs

All runs end within two minutes on two cores.

| Run | Instance | Shows |
|---|---|---|
| `ids` | 2 replicas, 2 + 1 goroutines, ids 1..2, fairness | no upsert lands on an existing movie; the inductive invariant; `IdRegistry` is implemented; NextID returns, also for who waits in the Once |
| `jobs` | 1 request, 2 replicas, 2 publish attempts, all faults | records, collection and client answers agree; every silence has a named cause; `CreationPromise` is implemented; the inductive invariant |
| `jobs_live` | a valid and a refused movie, 2 workers of a replica, all faults, fairness | as long as a replica goes on consuming, accepted requests settle or fall to a named loss |
| `boot` | 2 replicas, movies.json = {1, 3}, ids 1..4, every fault | a creation, on time or late, replaces only seeds inserted after the largest id was read or while its upsert was still to come; deleted movies come back only from movies.json; the inductive invariant |
| `resilience` | 3 callers, 2 attempts, trip after 3 | the trial alone decides; the inductive invariant: nothing is lost in half-open |
| `client` | 2 callers, trip after 2, all faults | 404 is true, a DELETE is confirmed once, `Resilience` is implemented; the inductive invariant |
| `client_live` | 2 callers, fairness | requests are answered, the breaker recovers |
| `publisher` | 2 callers, all faults, fairness | one connection, none leaked; POSTs are answered; the publisher recovers; `Resilience` is implemented; the inductive invariant |
| `catalogue` | 4 ids, 6 movies, pages of 2, a year passes | what is stored can be read; a short page is the last; what a walk misses and repeats is bounded by what changed; an answer's id is the path's modulo 2^32; the inductive invariant |
| `ingest` | 3 items, 2 slots, fairness | publishing and polling never overlap; the report adds up and counts only outcomes the jobs had; the tool ends; the inductive invariant |
| `life` | 2 requests, both processes, a queue of 1 span, signals, kills and failing listeners at any moment, fairness | requests, RPCs and spans are lost only to a kill, a failed listener, Shutdown's 5 seconds or the collector, and spans dropped only by a full queue; a process that can accept never ends by log.Fatal; a signalled one ends; the inductive invariant |

`client_healthy` ends in a counterexample: clients that leave open the breaker of a
healthy service, since the `Canceled` of their calls counts as a failure; the
comment at `api-gateway/internal/resilience/grpc_errors.go:36-38` says that only
errors of the dependency count.

More differences between the code and what is said of it came up. The models
contain the behaviour and the properties say exactly how far it goes, so these
need no run of their own:

- main exits under a worker in the middle of a message, or with messages in its
  channel, where the comment at `movies-service/cmd/main.go:115-118` speaks of
  work that drains: one of the causes `PendingIsExplained` names.
- A second replica that boots on a half-filled collection takes it for filled and
  creations then replace seeds, where `docs/adr/0001-*.md:35-37` says the counter
  never collides with the ids of the seed data; and so does one that seeds while
  an upsert of a replica that died is still to be applied. `OnlyExposedReplaced`
  names the seeds.
- DELETE of an id below 1 is answered 500, after retries that count against the
  breaker, where the route documents 400 (`movie-handler.go:217`): `DeleteRefused`
  of `Catalogue`, `MovieClient`'s `bad` id.
- A title filter that is no regular expression is likewise retried, counted and
  answered 500 (`PatternRefused`).
- `/movies/4294967297` is movie 1: ids and pages are cut to 32 bits
  (`TypeOK` of `Catalogue`, a part of `CatalogueInv`).
- A title of 300 characters that are not all ASCII passes the handler's binding and
  is refused by the consumer: the request is accepted and its job fails. The
  check is what keeps the movie from being stored and then unreadable
  (`StoredIsReadable`).
- A `Serve` that main's goroutine reaches only after GracefulStop returns an error,
  and `log.Fatal` skips the deferred flush: `ServingNeverFatal` shows that it can
  cost only a process that has not accepted anything.
- A job that failed in one copy and completed in another keeps the error, which
  `proto/movies.proto:69` excludes; and the status of a job whose movie was
  deleted is 404, which the route does not document: `AnswersExplained` pins down
  when these happen.
- Since a second copy of a message may flip the status of a job, the load tool's
  Completed and Failed may no longer be what the API says when they are printed:
  `ReportIsTrue` says that each job counted had that outcome once, and that a job
  that never had another one is counted by it, timed out, or was a failed POST.
- `api-gateway/cmd/main.go:108-115` speaks of saving the buffered spans; before any
  shutdown the batch processor drops what its queue of 2048 spans has no room
  for: `SpansReachCollector` says that it takes more than that many answers.
- When every consumer is gone, its channel closed by RabbitMQ or its broker
  restarted, nobody subscribes again (`rabbitmq/consumer.go:65-71`) and messages
  wait for ever: `AcceptedSettles` is conditional on a replica that goes on
  consuming.
- `resilience/publisher.go:46-48` says callTimeout bounds how long Retry waits for
  a publish; executeBreaker calls it synchronously, so it does not, which is why
  `PostAnswered` needs a RabbitMQ that reads.
- A retried DELETE whose first attempt was carried out late answers 404 to the
  client whose request deleted the movie; `NotFoundIsTrue` says only that the
  movie is gone.

**Bounds.** Two replicas with two goroutines in one give every pair that can
interfere: same process (shared Once), different processes (shared counter).
Two ids let the counter start below, at and above the movies and overflow. One
request with two publish attempts gives two copies handled at once, which is
what duplicates do; a second request, to mix results up with, is in
`jobs_live`. Two attempts and two failures to trip let a request both retry and
be refused, and let a result of an old generation meet a trial; in `resilience`
a third caller lets two late results meet it. `TripAfter` is 5 and `MaxAttempts`
3 in the code and in `client_healthy`. In `boot` the seeds 1 and 3 leave a gap that
an id issued before the seeding can fall before, into and after, and ids 2 and 4
are movies created. `MaxId` of CreateJobs, SeedBoot and
Catalogue bounds the ids issued; a replica of SeedBoot that needs more waits, so
`boot` is run without the deadlock check. In `jobs` the ids are as many as the
copies.
In `catalogue` the paths 2, 7, 13 and one that is no number stand, on a word of
12 values, for an id, one that turns negative, one that turns into another
movie's id, and garbage; pages of 2 over 4 movies give a first, a middle and an
empty page; the seeds are full, short and sparse, so that the counter starts at the
largest id and not at the number of movies; the batch of 2 is the least
`LimitAssumption` allows;
the six titles and years lie on either side of every limit, one of them only
until the year passes; sort keys tie and do not. In `ingest` three items over
two slots let one wait for a slot while another is in its last deferred call,
and let a round be left with some items settled. In `life` two requests let one
end while the other holds up a shutdown, or fill the queue of one span (2048 in
the code) so that the other's is dropped; a process lives once, so the run
ends, by design, when both have, and the deadlock check is off.

**Symmetry** is over replicas (`boot`) and callers (`client`), never in a run with
liveness.

**Fairness.** `MovieIds`: a goroutine inside the repository goes on, because it
is scheduled and the driver answers. `CreateJobs`: RabbitMQ delivers to a
subscribed consumer, goroutines run; that somebody stays subscribed is no
fairness, since no code sees to it, but the condition of `AcceptedSettles`. `MovieClient`: goroutines run, callTimeout
ends silent attempts, the breaker's Timeout passes; a request need never come.
`MoviePublisher`: also strong fairness of the steps that take the mutex, since a
`sync.Mutex` in starvation mode hands itself to its longest waiter.
`IngestLoad`: main and its goroutines run, a request ends at the latest with the
client's 10 seconds, the deadline passes; no job need settle. `ProcessLife`: the
mains run, their dials, Shutdown and the export have limits, callTimeout passes
and a handler whose context is cancelled ends; MongoDB, RabbitMQ, clients and
signals owe nothing. Nothing that a fault or a client does is fair: crashes,
restarts, requests, a service coming back. The recovery properties assume the
service stays up and requests keep coming, and say so in their formulas.

## 4. Proofs

`tlapm` checks eight modules to the last leaf. The theorems hold for any number
of replicas, goroutines, requests, callers, movies and items, any faults, and
any values of the bounds that satisfy the named assumptions:

- `HostAssumption`, `FaultAssumption`, `KindAssumption`, `InvalidAssumption`,
  `NoneAssumption`: the constants are of the kind their comments say.
- `WorkerAssumption` of `CreateJobs`: the workers of all replicas are finitely
  many, since what they have in hand is counted.
- `BoundAssumption`: at least one attempt, at least one failure to trip
  (`MaxAttempts` and `TripAfter` are 3 and 5 in the code).
- `SizeAssumption`, `DocAssumption`, `SeedAssumption`, `PathAssumption`,
  `IdAssumption`, `LimitAssumption` of `Catalogue`: sizes are numbers, seeds hold
  documents under ids, ids fit an int32, and no limit exceeds a first batch.

**MovieIds_proofs.** `IdInv` is needed because "no upsert meets a movie" is not
inductive: it holds since every id not yet written was issued (`UnwrittenIssued`),
issued ids are at most the counter (`IssuedCovered`), a replica issues only
after its seeding, when the counter covers all movies (`CounterCovers`), and a
seeding between its read and its write has read a bound on the movies the
counter does not cover (`SeedingCovers`): later movies have ids the counter
covers, since only issued ids are written. From it follow `OverwriteFree`,
`IdsDistinct`, `ReissueFree`, `TypeCorrect` and `RegistryRefined`, the
refinement of `IdRegistry`. `SeedingIsHeld` is the safety half of `CallReturns`,
which only TLC checks: while a `sync.Once` is running exactly one goroutine of
its replica is in the seeding (`OnceHeld`), so that who waits in `Do` waits for
MongoDB and for nobody who waits for them, whatever failed or died before.

**CreateJobs_proofs.** `JobInv`: a worker between NextID and its upsert has an id
nobody else has and nothing was written under (`IdsUnwritten`), so what was
written (`WrittenByWorker`) and recorded stays true; a client's answer is backed
by a job record (`OutcomeRecorded`), which is never taken back. From it follow
`TypeCorrect`, `CompletedOwns`, `PendingExplained`, `OutcomesStay`.

`PromiseKept` is the refinement of `CreationPromise`, step by step: a publish sends a
message or none, the upsert of a worker is a `Make`, its record a `Complete` or
`Fail`, a poll's last step a `Tell`, and all else, a crash and a lost message
above all, is a stutter. A worker that writes has a message of its own that made
no movie so far, which is what `CopiesCover` counts (`HandlerKeepsPromise`); it
has one that was sent (`HandledWasSent`); only who was accepted polls
(`PollsAccepted`), and what a poll read first still holds when it answers
(`PollKeepsPromise`). `OutcomesStay`, that no outcome is taken back, is a
consequence the promise states too: no action of it makes a job pending again.

What duplicates of a message can bring about is an argument about numbers,
`CopiesCover`. Every message of a request pays for one thing only, and the
deliveries in hand are counted as if what they can still do were done: movies
and deliveries that may still write one are no more than the copies
(`OneMovieEach`); so are movies, errors in the record and deliveries that may
still bring either, unless a write lied, which is why a job with an error and a
movie had two copies (`FailedMadeNone`); so are the error, the movie of the
record and all deliveries (`AnswersAreExplained`). `PollsOwnMovie` carries the
request's own movie from a poll's first read to its second. How each action
changes the sets that are counted is stated once (`BufferedChanges`,
`HandlingMoves`, `MadeCount`, `InHandMoves`).

`RegistryRefined` maps ids `1..lastId` to the issued ones and those a worker may
still write to `pending`, so that a crash of a replica discards a set of them at
once; it needs `IdsAccounted`, that an idle worker has no id and every document
was written for some request.

**Resilience_proofs.** `BreakerInv`: the attempts the breaker follows are under
way, none while open, and while half-open exactly the trials it counts
(`TrialFollowed`), and who waits has an attempt left (`AttemptsLeft`). From it
follow `TypeCorrect`, `TrialsUnderWay`, `TrialsDecide`.

**Dependencies_proofs.** The client and the publisher implement `Resilience`
(`ClientIsResilient`, `PublisherIsResilient`), action by action: an attempt's end
is a `Finish` whose outcome is what the classification of errors makes of it,
and what happens in the network, in movies-service or to the connection is a
stutter. What is proved of `Resilience` then holds inside them, `TrialDecides`
above all (`ClientTrialsDecide`, `PublisherTrialsDecide`), and their own
invariants start from `BreakerInv`, which is not proved twice.

`ClientInv` says that movies-service answers only who waits (`RepliesAwaited`), that
an answer under way stays true (`RepliesTrue`), and that one caller at most was
told, or has an answer under way which tells it, that its DELETE found the movie
(`OneDeleter`). `NotFoundTrue` and `DeletedAtMostOnce` follow. `PublisherInv` says
that who is in `Publish` is in an attempt (`Publishing`), and that the mutex is
held by the one who dials, while nothing is connected (`DialsAlone`): no second
dial can replace a connection that lives, which gives `OneConnectionHeld`. The
publisher's theorems are about an instance of its module, since two modules with
an `Init` and a `Next` cannot both be extended; what they state, `PublisherInv`,
`OneConnection` and `ImplementsResilience`, is what the runs check, as it is
defined in the modules both extend.

**SeedBoot_proofs.** `OnlyExposedReplaced` speaks of what was overwritten, so
`BootInv` has to follow the counter: while some replica numbers movies, it
covers the collection but for exposed seeds, and all seeds still outstanding are
exposed (`Covered`). A replica between its read and its write is covered too:
the counter, once raised to what it has read, covers the same (`Reads`), since a
raise keeps what another one covered (`RaisedKeeps`, `RaiseRaises`) and a movie is
written under an id the counter covers (`IssuedCovers`). An id is at hand
(`AtHand`) while a worker has it or an upsert of it may still come, although
nobody numbers movies any more. It belongs to nobody else (`Numbered`), to no
movie present but an exposed seed, and to none deleted but a seed (`Fresh`): a seed
that is inserted under it meanwhile is exposed by that (`InsertedIsExposed`), so
that the upsert, however late, replaces nothing else (`WritesKeep`). From it follow
`TypeCorrect`, `ExposedReplaced`, `DeletedStay`.

**Catalogue_proofs.** `CatalogueInv` is proved in two halves, for collections and
limits of any size.

`ReadInv` is about what is read back. `StoredReadable` rests on the year's limit
only going up and on the collection changing only by validated movies.
`ShortPagesEnd` shows by cardinalities of `before` and `read` that a page shorter
than the limit, whether the cursor ended or broke off, left nothing out
(`ShortPageIsAll`); it needs `LimitAssumption`, that no limit exceeds the first
batch, and says what would break if the handler's 100 became 102.

The other half is about a walk (`WalksFollowChanges`). Between two pages the walk
stands behind `Offset` movies, and a movie's place among those that match is
`Rank`, the number of movies that come before it in the order of sort keys and, among
equal ones, of ids (`Precedes`). A movie that was there from
the start, was not seen and now has a place before the walk has slipped past it
(`Slipped`); one that was seen and has a place behind it will come again
(`Returning`). `ChangesCover` bounds the first by the deletions, and what was
repeated together with the second by the creations. A deletion moves places up by one, so it
lets only the movie right behind the walk slip, and there is only one with that
place (`RankUnique`); a creation likewise pushes one back. A page moves nothing
across: MongoDB may order equal keys as it likes, but where no page is cut between
two of them the first `n` movies are those with places below `n`, whichever the
order (`FirstByRank`), so that what the page shows is what has places from `Offset` to the next
one, and what it shows again was `Returning`. After a short page every unseen
movie would have a place before the walk, so what was missed had slipped. The
page number stays below 2^31 because a full page needs a full page's movies
(`FullPages`) and ids fit an int32 (`IdAssumption`). `TypeCorrect` includes that
the id of an answer is the path's number up to a multiple of 2^32 (`Int32Type`).

**IngestLoad_proofs.** `LoadInv` says where an item is from its goroutine's place
(`Sent`, `Asked`), that every status recorded is one the job has had (`StatusTrue`), that
a drain leaves nothing pending (`Drained`), and what the report was computed
from (`Reported`); the sums of `ReportTrue` are then cardinalities of disjoint
sets (`Parts`). `TypeCorrect` includes that main reads nothing that a goroutine
may still write.

**ProcessLife_proofs.** `LifeInv`: nothing reaches a process that has not accepted
(`BootQuiet`), which is what makes a `log.Fatal` of the boot harmless, and once
a server was stopped what it waited for is over, or Shutdown ran out of time
(`Stopped`). A request has a span when it has its answer (`SpanOfAnswer`), so that
a full queue and the span it has no room for are more than `QueueSize` answers,
and answers stay (`RoomStaysGone`). `QueueAssumption`: the queue has room for a
span, and requests can be counted. From it follow `TypeCorrect`, `NothingCut`, `SpansSent`, and, by a
step of its own, `NeverFatal`.

Model-checked only: the liveness properties (`CallReturns`, `AcceptedSettles`,
`RequestAnswered`, `BreakerRecovers`, `PostAnswered`, `PublisherRecovers`,
`Terminates`, `SignalEnds`), since TLAPS proves neither fairness-based liveness nor
ENABLED. Every safety property and every refinement a run checks is proved as
well. The other way round, `RegistryRefined` of `CreateJobs_proofs` is a theorem
about `ImplementsRegistry` that no run lists; on the instance of `jobs` TLC finds
it true too. The runs check the inductive invariants as they are proved; `TypeOK`,
`DistinctIds`, `NeverReissued` and `TrialUnderWay` are parts of them or follow from
them.

## 5. Plan

Done: the numbering, creation, boot, resilience and their compositions; the
catalogue, the two processes, the load generator; proofs of every safety property
and refinement the runs check. What would carry it further, in order:

1. An abstract specification of the page walk, as a list that others edit, for
   `Catalogue`: `WalksFollowChanges` bounds what a walk misses, a refinement would
   say which walks there are.
2. One run of `SeedBoot` and `MovieIds` together, in place of the counter's two
   steps in `SeedBoot`.
3. The liveness properties from their safety cores, as `SeedingIsHeld` is one of
   `CallReturns`, should a prover for ENABLED become available.

## 6. Not modelled

Metrics, the Hermes agent and trace propagation observe the state above and feed
nothing back into it (`hermesAgent.Stop`, a deferred call of both mains into
a library outside the repository, is left out of `ProcessLife`); RPCs of clients other than
the gateway, which may have no deadline and hold up GracefulStop for ever, do not
occur; generated gRPC code, deployment files, documents and the
tool that publishes straight to RabbitMQ in a loop have no part in it. Message
bodies are valid JSON because only the gateway publishes them. Indexes
(EnsureIndexes) change speed, not results. How a regular expression matches a
title is MongoDB's. The CreateMovie RPC is modelled on the server (`MovieIds`),
and nothing in the repository calls it through the client. A failed seeding of
the counter that a replica keeps until its restart is in `MovieIds` (`NextIDSticky`)
and no property says it is wrong: the code wants it. Delays, jitter and the
exact timers are abstracted to "may pass at any time", so nothing here speaks of
latency.
