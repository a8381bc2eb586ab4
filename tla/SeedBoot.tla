------------------------------ MODULE SeedBoot ------------------------------
(***************************************************************************)
(* The boot of movies-service: Seed fills an empty movies collection from   *)
(* movies.json and whatever happened to it, the replica goes on to serve,   *)
(* numbering new movies from a counter that its first NextID raises to the  *)
(* largest id it finds.                                                     *)
(*                                                                         *)
(* InsertMany is not atomic: MongoDB inserts the documents one after the    *)
(* other, in the order of the file (ascending ids), while other replicas    *)
(* count, read and write the collection.  The first NextID reads the largest *)
(* id in one step and raises the counter to it in another, so that seeds and *)
(* movies may come in between.                                              *)
(***************************************************************************)
EXTENDS Naturals, FiniteSets

CONSTANTS Proc,     \* replicas of movies-service
          SeedIds,  \* ids of the movies in movies.json
          MaxId,    \* bound on the ids issued
          Faults    \* what goes wrong in this instance

FaultKind == {"crash",  \* a replica dies
              "mongo",  \* an operation fails without effect
              "late"}   \* MongoDB completes what its client gave up on

Id == 1..MaxId

ASSUME MaxIdAssumption == MaxId \in Nat
ASSUME SeedAssumption == SeedIds \subseteq Id /\ SeedIds # {}
ASSUME FaultAssumption == Faults \subseteq FaultKind

VARIABLES
    movies,       \* ids of the documents in the movies collection
    seq,          \* the id counter
    pc,           \* pc[p]: where replica p is
    todo,         \* todo[p]: what p's InsertMany has still to insert
    late,         \* seeds an abandoned InsertMany has still to insert
    counter,      \* counter[p]: how far p's counterOnce is, or its outcome
    max,          \* max[p]: the largest id p's counterOnce has read, or 0
    num,          \* num[p]: the id p's worker was given, or 0
    lateUpserts,  \* ids of movies whose upsert MongoDB has still to apply
    overwritten,  \* history: ids whose upsert found a document
    deleted,      \* history: ids whose document was deleted
    exposed       \* history: Outstanding seeds of all states so far

data == <<movies, seq>>
vars == <<data, pc, todo, late, counter, max, num, lateUpserts, overwritten, deleted, exposed>>

TypeOK ==
    /\ movies \in SUBSET Id
    /\ seq \in 0..MaxId
    /\ pc \in [Proc -> {"down", "count", "insert", "serve"}]
    /\ todo \in [Proc -> SUBSET SeedIds]
    /\ late \in SUBSET SeedIds
    /\ counter \in [Proc -> {"new", "read", "ok", "failed"}]
    /\ max \in [Proc -> 0..MaxId]
    /\ num \in [Proc -> Id \cup {0}]
    /\ lateUpserts \in SUBSET Id
    /\ overwritten \in SUBSET Id
    /\ deleted \in SUBSET Id
    /\ exposed \in SUBSET SeedIds

\* A new database, or one an earlier deployment has filled, emptied, numbered.
Init ==
    /\ movies \in {{}, SeedIds}
    /\ seq \in 0..MaxId
    /\ pc = [p \in Proc |-> "down"]
    /\ todo = [p \in Proc |-> {}]
    /\ late = {}
    /\ counter = [p \in Proc |-> "new"]
    /\ max = [p \in Proc |-> 0]
    /\ num = [p \in Proc |-> 0]
    /\ lateUpserts = {}
    /\ overwritten = {}
    /\ deleted = {}
    /\ exposed = {}

Goto(p, l) == pc' = [pc EXCEPT ![p] = l]

IsFirst(i, S) == i \in S /\ \A j \in S : i <= j

\* The next document of an InsertMany that has S left; a duplicate key ends it.
Insert(i, S, rest) ==
    /\ IsFirst(i, S)
    /\ \/ /\ i \notin movies
          /\ movies' = movies \cup {i}
          /\ rest = S \ {i}
       \/ /\ i \in movies
          /\ rest = {}
          /\ UNCHANGED movies

Start(p) ==
    /\ pc[p] = "down"
    /\ Goto(p, "count")
    /\ UNCHANGED <<data, todo, late, counter, max, num, lateUpserts, overwritten, deleted>>

CountDocuments(p) ==
    /\ pc[p] = "count"
    /\ IF movies = {}
         THEN Goto(p, "insert") /\ todo' = [todo EXCEPT ![p] = SeedIds]
         ELSE Goto(p, "serve") /\ UNCHANGED todo
    /\ UNCHANGED <<data, late, counter, max, num, lateUpserts, overwritten, deleted>>

InsertMany(p) ==
    /\ pc[p] = "insert"
    /\ \E i \in todo[p], rest \in SUBSET SeedIds :
         /\ Insert(i, todo[p], rest)
         /\ todo' = [todo EXCEPT ![p] = rest]
         /\ \/ rest = {} /\ Goto(p, "serve")
            \/ rest # {} /\ UNCHANGED pc
    /\ UNCHANGED <<seq, late, counter, max, num, lateUpserts, overwritten, deleted>>

\* An insert that was cut off stops, or goes on in the database.
Abandon(p) ==
    /\ \/ UNCHANGED late
       \/ "late" \in Faults /\ late' = late \cup todo[p]
    /\ todo' = [todo EXCEPT ![p] = {}]

\* main logs the error of Seed and goes on.
SeedFails(p) ==
    /\ "mongo" \in Faults
    /\ pc[p] \in {"count", "insert"}
    /\ Abandon(p)
    /\ Goto(p, "serve")
    /\ UNCHANGED <<data, counter, max, num, lateUpserts, overwritten, deleted>>

LateInsert ==
    /\ \E i \in late : Insert(i, late, late')
    /\ UNCHANGED <<seq, pc, todo, counter, max, num, lateUpserts, overwritten, deleted>>

\* Mutant of ReadLargest: the movies are counted.
ReadCount(p) ==
    /\ pc[p] = "serve"
    /\ counter[p] = "new"
    /\ counter' = [counter EXCEPT ![p] = IF movies = {} THEN "ok" ELSE "read"]
    /\ max' = [max EXCEPT ![p] = Cardinality(movies)]
    /\ UNCHANGED <<data, pc, todo, late, num, lateUpserts, overwritten, deleted>>

\* The largest id, or 0 when there is no movie.
Largest(m) == m \in movies \cup {0} /\ \A i \in movies : i <= m

\* The first NextID of a replica reads the collection; without a movie there is
\* nothing to raise the counter to.
ReadLargest(p) ==
    /\ pc[p] = "serve"
    /\ counter[p] = "new"
    /\ \E m \in 0..MaxId :
         /\ Largest(m)
         /\ counter' = [counter EXCEPT ![p] = IF m = 0 THEN "ok" ELSE "read"]
         /\ max' = [max EXCEPT ![p] = m]
    /\ UNCHANGED <<data, pc, todo, late, num, lateUpserts, overwritten, deleted>>

\* $max: what p has read may be less than the counter by now.
Raise(p) == seq' = IF max[p] > seq THEN max[p] ELSE seq

Forget(p, outcome) ==
    /\ counter' = [counter EXCEPT ![p] = outcome]
    /\ max' = [max EXCEPT ![p] = 0]

\* Mutant of SeedCounter: the counter is lowered as well as raised.
SetCounter(p) ==
    /\ counter[p] = "read"
    /\ seq' = max[p]
    /\ Forget(p, "ok")
    /\ UNCHANGED <<movies, pc, todo, late, num, lateUpserts, overwritten, deleted>>

\* Mutant of SeedCounter: a counter that exists is left as it is.
CounterSetOnInsert(p) ==
    /\ counter[p] = "read"
    /\ seq' = IF seq = 0 THEN max[p] ELSE seq
    /\ Forget(p, "ok")
    /\ UNCHANGED <<movies, pc, todo, late, num, lateUpserts, overwritten, deleted>>

SeedCounter(p) ==
    /\ counter[p] = "read"
    /\ Raise(p)
    /\ Forget(p, "ok")
    /\ UNCHANGED <<movies, pc, todo, late, num, lateUpserts, overwritten, deleted>>

\* The read fails, or the write does, or only its answer is lost.
SeedCounterFails(p) ==
    /\ "mongo" \in Faults
    /\ pc[p] = "serve"
    /\ counter[p] \in {"new", "read"}
    /\ Raise(p) \/ UNCHANGED seq
    /\ Forget(p, "failed")
    /\ UNCHANGED <<movies, pc, todo, late, num, lateUpserts, overwritten, deleted>>

NextID(p) ==
    /\ pc[p] = "serve"
    /\ counter[p] = "ok"
    /\ num[p] = 0
    /\ seq < MaxId
    /\ seq' = seq + 1
    /\ num' = [num EXCEPT ![p] = seq']
    /\ UNCHANGED <<movies, pc, todo, late, counter, max, lateUpserts, overwritten, deleted>>

\* An upsert of movie i, which replaces what it finds.
Upsert(i) ==
    /\ movies' = movies \cup {i}
    /\ overwritten' = overwritten \cup ({i} \cap movies)

CreateMovie(p) ==
    /\ num[p] # 0
    /\ Upsert(num[p])
    /\ num' = [num EXCEPT ![p] = 0]
    /\ UNCHANGED <<seq, pc, todo, late, lateUpserts, counter, max, deleted>>

\* A replica gives its id up: it sent no upsert of it, or one that MongoDB has
\* applied, will apply later, or will never apply.
GiveUp(p) ==
    /\ num' = [num EXCEPT ![p] = 0]
    /\ \/ UNCHANGED <<movies, overwritten, lateUpserts>>
       \/ num[p] # 0 /\ Upsert(num[p]) /\ UNCHANGED lateUpserts
       \/ /\ num[p] # 0 /\ "late" \in Faults
          /\ lateUpserts' = lateUpserts \cup {num[p]}
          /\ UNCHANGED <<movies, overwritten>>

CreateMovieFails(p) ==
    /\ "mongo" \in Faults
    /\ num[p] # 0
    /\ GiveUp(p)
    /\ UNCHANGED <<seq, pc, todo, late, counter, max, deleted>>

LateUpsert(i) ==
    /\ i \in lateUpserts
    /\ Upsert(i)
    /\ lateUpserts' = lateUpserts \ {i}
    /\ UNCHANGED <<seq, pc, todo, late, counter, max, num, deleted>>

DeleteMovie(i) ==
    /\ i \in movies
    /\ movies' = movies \ {i}
    /\ deleted' = deleted \cup {i}
    /\ UNCHANGED <<seq, pc, todo, late, counter, max, num, lateUpserts, overwritten>>

\* A write of the counter that was under way is carried out or not.
Crash(p) ==
    /\ "crash" \in Faults
    /\ Abandon(p)
    /\ Raise(p) \/ UNCHANGED seq
    /\ Goto(p, "down")
    /\ Forget(p, "new")
    /\ GiveUp(p)
    /\ UNCHANGED deleted

\* Some replica numbers movies by what it read of the collection, or is about to.
Numbering == \E p \in Proc : counter[p] \in {"read", "ok"}

Unseeded == late \cup UNION {todo[p] : p \in Proc}

\* Seeds that are still to be inserted then, or while an upsert of their id is
\* still to be applied.
Outstanding == IF Numbering THEN Unseeded ELSE Unseeded \cap lateUpserts

Step ==
    \/ \E p \in Proc :
        \/ Start(p) \/ CountDocuments(p) \/ InsertMany(p) \/ SeedFails(p)
        \/ ReadLargest(p) \/ SeedCounter(p) \/ SeedCounterFails(p)
        \/ NextID(p) \/ CreateMovie(p) \/ CreateMovieFails(p) \/ Crash(p)
    \/ LateInsert
    \/ \E i \in Id : DeleteMovie(i) \/ LateUpsert(i)

Next == Step /\ exposed' = exposed \cup Outstanding'

Spec == Init /\ [][Next]_vars
-----------------------------------------------------------------------------
\* Safety: a movie that is created replaces no movie of the collection, unless it
\* is one of movies.json that was inserted after a replica, about to set the
\* counter, had read the largest id, or while MongoDB had an upsert of its id
\* still to apply from a replica that gave up or died.
OnlyExposedReplaced == overwritten \subseteq exposed

\* Safety: whatever the seeding does meanwhile, a deleted movie comes back only
\* if it is one of movies.json: restarts and half-filled collections never make
\* the counter issue the id of a created movie again.
DeletedStaysDeleted == deleted \cap movies \subseteq SeedIds

\* The inductive invariant, part by part.

\* Who numbers movies has set the counter, and of those who have an id at hand, or
\* whose upsert may still come, no two have the same.
Numbered ==
    /\ \A p \in Proc : num[p] # 0 => counter[p] = "ok" /\ num[p] \in 1..seq \ lateUpserts
    /\ \A p, q \in Proc : num[p] # 0 /\ num[p] = num[q] => p = q
    /\ lateUpserts \subseteq 1..seq

\* The counter, once raised to what a replica has read, covers the collection
\* but for seeds that were inserted after that read.
Covered ==
    /\ Outstanding \subseteq exposed
    /\ \A p \in Proc : counter[p] # "read" => max[p] = 0
    /\ \A p \in Proc : counter[p] \in {"read", "ok"} =>
          \A i \in movies : i <= seq \/ i <= max[p] \/ i \in exposed

\* Only seeds were inserted without an id from the counter.
FromCounter == \A i \in movies \cup deleted : i <= seq \/ i \in SeedIds

\* Ids under which a movie may still be written.
AtHand == (lateUpserts \cup {num[p] : p \in Proc}) \ {0}

\* Such an id is the id of no movie, present or deleted, but of a seed.
Fresh == AtHand \cap movies \subseteq exposed /\ AtHand \cap deleted \subseteq SeedIds

BootInv == TypeOK /\ Numbered /\ Covered /\ FromCounter /\ Fresh
           /\ OnlyExposedReplaced /\ DeletedStaysDeleted
=============================================================================
