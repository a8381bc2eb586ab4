------------------------------ MODULE MovieIds ------------------------------
(***************************************************************************)
(* How movies-service numbers its movies: NextID, the sync.Once that seeds  *)
(* the counter document from the movies that already exist, and the upsert  *)
(* and delete that the ids are used for (mongodb/movie_repo.go).            *)
(*                                                                         *)
(* Several replicas (Proc) share one MongoDB; in each, several goroutines   *)
(* (Caller: the consumer's workers and the gRPC CreateMovie handlers) are   *)
(* inside the repository at once.  Every MongoDB operation is one atomic    *)
(* step that succeeds, fails without effect, or takes effect while its      *)
(* caller gets an error; an upsert whose caller gave up or died may also    *)
(* reach the collection later.  A replica can crash and restart any time.   *)
(***************************************************************************)
EXTENDS Naturals, FiniteSets

CONSTANTS Proc,      \* replicas of movies-service
          Caller,    \* goroutines that create movies
          Host,      \* Host[c]: the replica goroutine c runs in
          MaxInt32   \* largest value an int32 holds (2147483647)

ASSUME HostAssumption == Host \in [Caller -> Proc]
ASSUME MaxInt32Assumption == MaxInt32 \in Nat \ {0}

VARIABLES
    movies,      \* ids of the documents in the movies collection
    seq,         \* field seq of the counter document; 0 while there is none
    once,        \* once[p]: state of Movie.counterOnce
    counterErr,  \* counterErr[p]: Movie.counterErr # nil
    pc,          \* pc[c]: where goroutine c is
    num,         \* num[c]: the id goroutine c read or was given
    late,        \* ids of upserts that may still reach the collection
    issued       \* history: every id NextID has returned

mongo == <<movies, seq>>
vars  == <<movies, seq, once, counterErr, pc, num, late, issued>>

Id  == 1..MaxInt32
Seq32 == 0..(MaxInt32 + 1)  \* MaxInt32 + 1: the counter no longer fits an int32

Larger(a, b) == IF a >= b THEN a ELSE b

\* The counter after $inc.  MongoDB widens it to 64 bits past MaxInt32; every
\* value from there on fails to decode alike, so they are one value here.
Incremented == IF seq > MaxInt32 THEN seq ELSE seq + 1

OnceState == {"new", "running", "done"}
Location  == {"idle", "nextid", "seedFind", "seedMax", "create"}

TypeOK ==
    /\ movies \in SUBSET Id
    /\ seq \in Seq32
    /\ once \in [Proc -> OnceState]
    /\ counterErr \in [Proc -> BOOLEAN]
    /\ pc \in [Caller -> Location]
    /\ num \in [Caller -> 0..MaxInt32]
    /\ late \in SUBSET Id
    /\ issued \in SUBSET Id

\* Any database: an empty one, the seeded one, one restored from a backup.
Init ==
    /\ movies \in SUBSET Id
    /\ seq \in Seq32
    /\ once = [p \in Proc |-> "new"]
    /\ counterErr = [p \in Proc |-> FALSE]
    /\ pc = [c \in Caller |-> "idle"]
    /\ num = [c \in Caller |-> 0]
    /\ late = {}
    /\ issued = {}
-----------------------------------------------------------------------------
\* The goroutines that hold an id whose document is not written yet.
Creating == {c \in Caller : pc[c] = "create"}

\* Every id whose document may still be written.
Unwritten == {num[c] : c \in Creating} \cup late

Goto(c, l) == pc' = [pc EXCEPT ![c] = l]

CallNextID(c) ==
    /\ pc[c] = "idle"
    /\ Goto(c, "nextid")
    /\ UNCHANGED <<mongo, once, counterErr, num, late, issued>>

\* counterOnce.Do: the first goroutine runs the seeding, the others of its
\* replica wait at "nextid" until it is done.
OnceRun(c) ==
    /\ pc[c] = "nextid"
    /\ once[Host[c]] = "new"
    /\ once' = [once EXCEPT ![Host[c]] = "running"]
    /\ Goto(c, "seedFind")
    /\ UNCHANGED <<mongo, counterErr, num, late, issued>>

\* Mutant of OnceReturn: the error of the seeding is not kept.
OnceForgetsError(c, failed) ==
    /\ once' = [once EXCEPT ![Host[c]] = "done"]
    /\ counterErr' = [counterErr EXCEPT ![Host[c]] = FALSE]
    /\ Goto(c, "nextid")

\* The end of counterOnce.Do: its error is kept for the life of the replica.
OnceReturn(c, failed) ==
    /\ once' = [once EXCEPT ![Host[c]] = "done"]
    /\ counterErr' = [counterErr EXCEPT ![Host[c]] = failed]
    /\ Goto(c, "nextid")

SeedFindEmpty(c) ==
    /\ pc[c] = "seedFind"
    /\ movies = {}
    /\ OnceReturn(c, FALSE)
    /\ UNCHANGED <<mongo, num, late, issued>>

\* Mutant of SeedFindLargest: the find does not sort by descending _id.
SeedFindAny(c) ==
    /\ pc[c] = "seedFind"
    /\ \E m \in movies : num' = [num EXCEPT ![c] = m]
    /\ Goto(c, "seedMax")
    /\ UNCHANGED <<mongo, once, counterErr, late, issued>>

SeedFindLargest(c) ==
    /\ pc[c] = "seedFind"
    /\ \E m \in movies :
        /\ \A n \in movies : n <= m
        /\ num' = [num EXCEPT ![c] = m]
    /\ Goto(c, "seedMax")
    /\ UNCHANGED <<mongo, once, counterErr, late, issued>>

\* Mutant of SeedFindFails: the error path leaves the once held.
SeedFindNeverReleases(c) ==
    /\ pc[c] = "seedFind"
    /\ Goto(c, "idle")
    /\ UNCHANGED <<mongo, once, counterErr, num, late, issued>>

SeedFindFails(c) ==
    /\ pc[c] = "seedFind"
    /\ OnceReturn(c, TRUE)
    /\ UNCHANGED <<mongo, num, late, issued>>

SeedMax(c) ==
    /\ pc[c] = "seedMax"
    /\ seq' = Larger(seq, num[c])
    /\ OnceReturn(c, FALSE)
    /\ UNCHANGED <<movies, num, late, issued>>

SeedMaxFails(c) ==
    /\ pc[c] = "seedMax"
    /\ seq' \in {seq, Larger(seq, num[c])}
    /\ OnceReturn(c, TRUE)
    /\ UNCHANGED <<movies, num, late, issued>>

\* counterErr # nil: NextID answers the stored error.
NextIDSticky(c) ==
    /\ pc[c] = "nextid"
    /\ once[Host[c]] = "done"
    /\ counterErr[Host[c]]
    /\ Goto(c, "idle")
    /\ UNCHANGED <<mongo, once, counterErr, num, late, issued>>

Seeded(p) == once[p] = "done" /\ ~counterErr[p]

NextIDIssues(c) ==
    /\ pc[c] = "nextid"
    /\ Seeded(Host[c])
    /\ seq' = Incremented
    /\ seq' <= MaxInt32
    /\ num' = [num EXCEPT ![c] = seq']
    /\ issued' = issued \cup {seq'}
    /\ Goto(c, "create")
    /\ UNCHANGED <<movies, once, counterErr, late>>

\* The increment is applied but its result does not decode into an int32.
NextIDOverflows(c) ==
    /\ pc[c] = "nextid"
    /\ Seeded(Host[c])
    /\ seq' = Incremented
    /\ seq' > MaxInt32
    /\ Goto(c, "idle")
    /\ UNCHANGED <<movies, once, counterErr, num, late, issued>>

NextIDFails(c) ==
    /\ pc[c] = "nextid"
    /\ Seeded(Host[c])
    /\ seq' \in {seq, Incremented}
    /\ Goto(c, "idle")
    /\ UNCHANGED <<movies, once, counterErr, num, late, issued>>

\* FindOneAndUpdate with upsert on _id = num[c]: it would replace a document
\* that is already there.
CreateMovie(c) ==
    /\ pc[c] = "create"
    /\ movies' = movies \cup {num[c]}
    /\ Goto(c, "idle")
    /\ UNCHANGED <<seq, once, counterErr, num, late, issued>>

\* Mutant of CreateMovieFails: the upsert is sent again with the same id.
CreateMovieRetries(c) ==
    /\ pc[c] = "create"
    /\ late' \in {late, late \cup {num[c]}}
    /\ UNCHANGED <<mongo, once, counterErr, pc, num, issued>>

\* The movie is invalid, or the caller gets an error while the upsert was not
\* applied, was applied, or is applied later.
CreateMovieFails(c) ==
    /\ pc[c] = "create"
    /\ late' \in {late, late \cup {num[c]}}
    /\ Goto(c, "idle")
    /\ UNCHANGED <<mongo, once, counterErr, num, issued>>

LateUpsert(i) ==
    /\ i \in late
    /\ movies' = movies \cup {i}
    /\ late' = late \ {i}
    /\ UNCHANGED <<seq, once, counterErr, pc, num, issued>>

DeleteMovie(i) ==
    /\ i \in movies
    /\ movies' = movies \ {i}
    /\ UNCHANGED <<seq, once, counterErr, pc, num, late, issued>>

\* The replica dies and is started again with a new Movie repository.  Upserts
\* it had sent may still be applied.
Restart(p) ==
    /\ once' = [once EXCEPT ![p] = "new"]
    /\ counterErr' = [counterErr EXCEPT ![p] = FALSE]
    /\ pc' = [c \in Caller |-> IF Host[c] = p THEN "idle" ELSE pc[c]]
    /\ \E sent \in SUBSET {c \in Creating : Host[c] = p} :
           late' = late \cup {num[c] : c \in sent}
    /\ UNCHANGED <<mongo, num, issued>>

\* What goroutine c does once it is inside the repository.
Proceed(c) ==
    \/ OnceRun(c)
    \/ SeedFindEmpty(c) \/ SeedFindLargest(c) \/ SeedFindFails(c)
    \/ SeedMax(c) \/ SeedMaxFails(c)
    \/ NextIDSticky(c) \/ NextIDIssues(c) \/ NextIDOverflows(c) \/ NextIDFails(c)
    \/ CreateMovie(c) \/ CreateMovieFails(c)

Next ==
    \/ \E c \in Caller : CallNextID(c) \/ Proceed(c)
    \/ \E i \in Id : DeleteMovie(i) \/ LateUpsert(i)
    \/ \E p \in Proc : Restart(p)

Spec == Init /\ [][Next]_vars

\* A goroutine inside the repository is scheduled, and MongoDB answers it
\* (with a result or an error).  Nobody is forced to call, delete or crash.
FairSpec == Spec /\ \A c \in Caller : WF_vars(Proceed(c))
-----------------------------------------------------------------------------
\* Safety: the upsert of CreateMovie never lands on a document that exists, be
\* it a seeded movie or one created by another goroutine or replica.
NeverOverwrites == Unwritten \cap movies = {}

\* Safety: two creations in flight, in whatever replicas, hold different ids,
\* and none holds the id of an upsert that may still be applied.
DistinctIds ==
    /\ \A c, d \in Creating : num[c] = num[d] => c = d
    /\ \A c \in Creating : num[c] \notin late

\* Action property: the id of a movie is never issued again, not even after the
\* movie was deleted, its creation failed or the replica that issued it died.
NeverReissued ==
    [][\A c \in Caller : pc[c] # "create" /\ pc'[c] = "create"
                            => num'[c] \notin issued]_vars

\* Liveness: a goroutine that calls NextID comes back: the wait for the seeding
\* of another goroutine ends however the seeding ended.
CallReturns == \A c \in Caller : pc[c] # "idle" ~> pc[c] = "idle"

\* The inductive invariant.  A replica issues ids only while the counter covers
\* every movie; a seeding in progress has read a bound on the movies that are
\* not covered yet, and no movie above that bound can appear meanwhile.
CounterCovers == \A p \in Proc : Seeded(p) => \A m \in movies : m <= seq
SeedingCovers ==
    \A c \in Caller : pc[c] = "seedMax" =>
        \A m \in movies : m <= num[c] \/ m <= seq
IssuedCovered == \A i \in issued : i <= seq
UnwrittenIssued == Unwritten \subseteq issued

\* Safety: who waits in counterOnce.Do waits for exactly one goroutine of its own
\* replica, which is in the seeding and needs nothing but MongoDB's answer.
SeedingCallers(p) == {c \in Caller : Host[c] = p /\ pc[c] \in {"seedFind", "seedMax"}}
OnceHeld ==
    \A p \in Proc :
        /\ once[p] = "running" => SeedingCallers(p) # {}
        /\ \A c, d \in SeedingCallers(p) : c = d /\ once[p] = "running"

IdInv ==
    /\ TypeOK
    /\ CounterCovers
    /\ SeedingCovers
    /\ IssuedCovered
    /\ UnwrittenIssued
    /\ OnceHeld
    /\ DistinctIds
    /\ NeverOverwrites

\* Refinement: the counter, the once and the replicas implement IdRegistry.
Registry == INSTANCE IdRegistry
                WITH pending <- Unwritten
ImplementsRegistry == Registry!Spec
=============================================================================
