-------------------------- MODULE MovieIds_proofs --------------------------
(***************************************************************************)
(* Proofs about MovieIds for any number of replicas and goroutines and any  *)
(* width of the ids: typing, the inductive invariant IdInv, the properties  *)
(* it gives, and the refinement of IdRegistry.                              *)
(***************************************************************************)
EXTENDS MovieIds, TLAPS

USE HostAssumption, MaxInt32Assumption

\* The counter stays in its range whatever MongoDB adds to it.
LEMMA IncrementedType ==
    ASSUME seq \in Seq32
    PROVE  /\ Incremented \in Seq32
           /\ Incremented >= seq
           /\ Incremented <= MaxInt32 => Incremented = seq + 1 /\ Incremented \in Id
  BY DEF Incremented, Seq32, Id

\* $max of the counter and a movie's id.
LEMMA LargerType ==
    ASSUME seq \in Seq32, NEW m \in 0..MaxInt32
    PROVE  /\ Larger(seq, m) \in Seq32
           /\ Larger(seq, m) >= seq
           /\ Larger(seq, m) >= m
  BY DEF Larger, Seq32

\* Goto only moves one goroutine.
LEMMA GotoType ==
    ASSUME NEW c \in Caller, NEW l \in Location,
           pc \in [Caller -> Location], Goto(c, l)
    PROVE  /\ pc' \in [Caller -> Location]
           /\ pc'[c] = l
           /\ \A d \in Caller : d # c => pc'[d] = pc[d]
  BY DEF Goto

\* Ids that may still be written are ids.
LEMMA UnwrittenType == TypeOK => Unwritten \subseteq 0..MaxInt32
  BY DEF TypeOK, Unwritten, Creating, Id
-----------------------------------------------------------------------------
\* Every variable keeps its type: in particular an id is always a positive
\* int32, and the counter is never read outside its range.
LEMMA TypeInit == Init => TypeOK
  BY DEF Init, TypeOK, OnceState, Location

\* Every step of NextID, the upserts, deletes and restarts keeps the types.
LEMMA TypeStep == TypeOK /\ UnwrittenIssued /\ [Next]_vars => TypeOK'
  <1> SUFFICES ASSUME TypeOK, UnwrittenIssued, [Next]_vars
               PROVE  TypeOK'
    OBVIOUS
  <1> USE DEF TypeOK
  <1>1. ASSUME NEW c \in Caller, CallNextID(c) PROVE TypeOK'
    BY <1>1 DEF CallNextID, Goto, Location, mongo
  <1>2. ASSUME NEW c \in Caller, OnceRun(c) PROVE TypeOK'
    BY <1>2 DEF OnceRun, Goto, Location, OnceState, mongo
  <1>3. ASSUME NEW c \in Caller, SeedFindEmpty(c) PROVE TypeOK'
    BY <1>3 DEF SeedFindEmpty, OnceReturn, Goto, Location, OnceState, mongo
  <1>4. ASSUME NEW c \in Caller, SeedFindLargest(c) PROVE TypeOK'
    BY <1>4 DEF SeedFindLargest, Goto, Location, mongo, Id
  <1>5. ASSUME NEW c \in Caller, SeedFindFails(c) PROVE TypeOK'
    BY <1>5 DEF SeedFindFails, OnceReturn, Goto, Location, OnceState, mongo
  <1>6. ASSUME NEW c \in Caller, SeedMax(c) PROVE TypeOK'
    BY <1>6, LargerType DEF SeedMax, OnceReturn, Goto, Location, OnceState
  <1>7. ASSUME NEW c \in Caller, SeedMaxFails(c) PROVE TypeOK'
    BY <1>7, LargerType DEF SeedMaxFails, OnceReturn, Goto, Location, OnceState
  <1>8. ASSUME NEW c \in Caller, NextIDSticky(c) PROVE TypeOK'
    BY <1>8 DEF NextIDSticky, Goto, Location, mongo
  <1>9. ASSUME NEW c \in Caller, NextIDIssues(c) PROVE TypeOK'
    <2>1. seq' \in Id /\ seq' \in Seq32
      BY <1>9, IncrementedType DEF NextIDIssues
    <2>2. seq' \in 0..MaxInt32
      BY <2>1 DEF Id
    <2> HIDE DEF Id, Seq32
    <2> QED BY <1>9, <2>1, <2>2 DEF NextIDIssues, Goto, Location
  <1>10. ASSUME NEW c \in Caller, NextIDOverflows(c) PROVE TypeOK'
    BY <1>10, IncrementedType DEF NextIDOverflows, Goto, Location
  <1>11. ASSUME NEW c \in Caller, NextIDFails(c) PROVE TypeOK'
    BY <1>11, IncrementedType DEF NextIDFails, Goto, Location
  <1>12. ASSUME NEW c \in Caller, CreateMovie(c) PROVE TypeOK'
    <2>1. num[c] \in Id
      BY <1>12 DEF CreateMovie, UnwrittenIssued, Unwritten, Creating
    <2> QED BY <1>12, <2>1 DEF CreateMovie, Goto, Location
  <1>13. ASSUME NEW c \in Caller, CreateMovieFails(c) PROVE TypeOK'
    <2>1. num[c] \in Id
      BY <1>13 DEF CreateMovieFails, UnwrittenIssued, Unwritten, Creating
    <2> QED BY <1>13, <2>1 DEF CreateMovieFails, Goto, Location, mongo
  <1>14. ASSUME NEW i \in Id, DeleteMovie(i) PROVE TypeOK'
    BY <1>14 DEF DeleteMovie
  <1>15. ASSUME NEW i \in Id, LateUpsert(i) PROVE TypeOK'
    BY <1>15 DEF LateUpsert
  <1>16. ASSUME NEW p \in Proc, Restart(p) PROVE TypeOK'
    <2>1. late' \in SUBSET Id
      BY <1>16 DEF Restart, UnwrittenIssued, Unwritten, Creating
    <2> QED BY <1>16, <2>1 DEF Restart, Location, OnceState, mongo
  <1>17. CASE UNCHANGED vars
    BY <1>17 DEF vars
  <1> QED
    BY <1>1, <1>2, <1>3, <1>4, <1>5, <1>6, <1>7, <1>8, <1>9, <1>10, <1>11,
       <1>12, <1>13, <1>14, <1>15, <1>16, <1>17 DEF Next, Proceed
-----------------------------------------------------------------------------
\* A goroutine moves without entering, leaving or writing for "create".
Quiet(c) ==
    \/ CallNextID(c) \/ OnceRun(c)
    \/ SeedFindEmpty(c) \/ SeedFindLargest(c) \/ SeedFindFails(c)
    \/ SeedMax(c) \/ SeedMaxFails(c)
    \/ NextIDSticky(c) \/ NextIDOverflows(c) \/ NextIDFails(c)

\* The counter never goes down.
LEMMA CounterGrows ==
    ASSUME TypeOK, [Next]_vars
    PROVE  seq' >= seq
  <1> USE DEF TypeOK
  <1>0. seq \in Nat /\ \A c \in Caller : num[c] \in 0..MaxInt32
    BY DEF Seq32
  <1>1. ASSUME NEW c \in Caller, SeedMax(c) \/ SeedMaxFails(c) PROVE seq' >= seq
    <2>1. Larger(seq, num[c]) >= seq
      BY <1>0, LargerType
    <2>2. seq' \in {seq, Larger(seq, num[c])}
      BY <1>1 DEF SeedMax, SeedMaxFails
    <2> QED BY <1>0, <2>1, <2>2
  <1>2. ASSUME NEW c \in Caller, NextIDIssues(c) \/ NextIDOverflows(c) \/ NextIDFails(c)
        PROVE  seq' >= seq
    BY <1>0, <1>2, IncrementedType DEF NextIDIssues, NextIDOverflows, NextIDFails
  <1>3. CASE seq' = seq
    BY <1>0, <1>3
  <1> QED
    BY <1>1, <1>2, <1>3
    DEF Next, Proceed, vars, mongo, CallNextID, OnceRun, SeedFindEmpty,
        SeedFindLargest, SeedFindFails, NextIDSticky, CreateMovie,
        CreateMovieFails, DeleteMovie, LateUpsert, Restart

\* A quiet step leaves the creations in flight, the collection and the issued
\* ids alone.
LEMMA QuietStep ==
    ASSUME TypeOK, NEW c \in Caller, Quiet(c)
    PROVE  /\ movies' = movies
           /\ late' = late
           /\ issued' = issued
           /\ Creating' = Creating
           /\ \A d \in Creating : num'[d] = num[d]
  BY DEF Quiet, TypeOK, CallNextID, OnceRun, SeedFindEmpty, SeedFindLargest,
         SeedFindFails, SeedMax, SeedMaxFails, NextIDSticky, NextIDOverflows,
         NextIDFails, OnceReturn, Goto, Creating, mongo, Location

\* Steps that neither issue nor write an id keep what is known of ids.
LEMMA QuietKeepsIds ==
    ASSUME TypeOK, NEW c \in Caller, Quiet(c),
           UnwrittenIssued, DistinctIds, NeverOverwrites
    PROVE  UnwrittenIssued' /\ DistinctIds' /\ NeverOverwrites'
  <1>1. Unwritten' = Unwritten
    BY QuietStep DEF Unwritten
  <1> QED
    BY <1>1, QuietStep DEF UnwrittenIssued, DistinctIds, NeverOverwrites
-----------------------------------------------------------------------------
\* The ids stay distinct and unused, action by action.
LEMMA IssueKeepsIds ==
    ASSUME TypeOK, NEW c \in Caller, NextIDIssues(c), CounterCovers,
           IssuedCovered, UnwrittenIssued, DistinctIds, NeverOverwrites
    PROVE  /\ UnwrittenIssued' /\ DistinctIds' /\ NeverOverwrites'
           /\ num'[c] \notin issued
  <1> DEFINE i == seq'
  <1>1. seq \in Nat /\ i = seq + 1
    BY IncrementedType DEF NextIDIssues, TypeOK, Seq32
  <1>2. i \notin issued
    BY <1>1 DEF IssuedCovered, TypeOK, Id
  <1>3. i \notin movies
    BY <1>1, HostAssumption DEF NextIDIssues, CounterCovers, TypeOK, Id
  <1>4. pc[c] # "create" /\ c \notin Creating
    BY DEF NextIDIssues, Creating
  <1>5. Creating' = Creating \cup {c}
    BY GotoType DEF NextIDIssues, Creating, TypeOK, Location
  <1>6. num'[c] = i /\ \A d \in Creating : num'[d] = num[d]
    BY <1>4 DEF NextIDIssues, TypeOK, Creating
  <1>7. late' = late /\ movies' = movies /\ issued' = issued \cup {i}
    BY DEF NextIDIssues
  <1> HIDE DEF i
  <1>8. Unwritten' = Unwritten \cup {i}
    <2>1. {num'[d] : d \in Creating'} = {num[d] : d \in Creating} \cup {i}
      BY <1>5, <1>6
    <2> QED BY <2>1, <1>7 DEF Unwritten
  <1>9. i \notin Unwritten
    BY <1>2 DEF UnwrittenIssued
  <1>10. UnwrittenIssued' /\ NeverOverwrites'
    BY <1>3, <1>7, <1>8 DEF UnwrittenIssued, NeverOverwrites
  <1>11. DistinctIds'
    BY <1>5, <1>6, <1>7, <1>9 DEF DistinctIds, Unwritten
  <1> QED BY <1>2, <1>6, <1>10, <1>11

\* An upsert writes an id that was issued and not yet written, and no longer is.
LEMMA CreateKeepsIds ==
    ASSUME TypeOK, NEW c \in Caller, CreateMovie(c),
           UnwrittenIssued, DistinctIds, NeverOverwrites
    PROVE  /\ UnwrittenIssued' /\ DistinctIds' /\ NeverOverwrites'
           /\ num[c] \in Unwritten
           /\ Unwritten' = Unwritten \ {num[c]}
  <1>1. c \in Creating
    BY DEF CreateMovie, Creating
  <1>2. Creating' = Creating \ {c}
    BY GotoType DEF CreateMovie, Creating, TypeOK, Location
  <1>3. num' = num /\ late' = late /\ issued' = issued /\ movies' = movies \cup {num[c]}
    BY DEF CreateMovie
  <1>4. Unwritten' = Unwritten \ {num[c]}
    BY <1>1, <1>2, <1>3 DEF Unwritten, DistinctIds
  <1>5. num[c] \in Unwritten
    BY <1>1 DEF Unwritten
  <1> QED
    BY <1>1, <1>2, <1>3, <1>4, <1>5 DEF UnwrittenIssued, DistinctIds, NeverOverwrites

\* An upsert that fails gives its id up, or leaves it to be written late.
LEMMA FailKeepsIds ==
    ASSUME TypeOK, NEW c \in Caller, CreateMovieFails(c),
           UnwrittenIssued, DistinctIds, NeverOverwrites
    PROVE  /\ UnwrittenIssued' /\ DistinctIds' /\ NeverOverwrites'
           /\ Unwritten' \subseteq Unwritten
  <1>1. c \in Creating
    BY DEF CreateMovieFails, Creating
  <1>2. Creating' = Creating \ {c}
    BY GotoType DEF CreateMovieFails, Creating, TypeOK, Location
  <1>3. /\ num' = num /\ issued' = issued /\ movies' = movies
        /\ late' \in {late, late \cup {num[c]}}
    BY DEF CreateMovieFails, mongo
  <1>4. Unwritten' \subseteq Unwritten
    BY <1>1, <1>2, <1>3 DEF Unwritten
  <1> QED
    BY <1>1, <1>2, <1>3, <1>4 DEF UnwrittenIssued, DistinctIds, NeverOverwrites

\* A delete touches no id that is issued or still to be written.
LEMMA DeleteKeepsIds ==
    ASSUME NEW i \in Id, DeleteMovie(i),
           UnwrittenIssued, DistinctIds, NeverOverwrites
    PROVE  /\ UnwrittenIssued' /\ DistinctIds' /\ NeverOverwrites'
           /\ Unwritten' = Unwritten
  <1>1. Creating' = Creating /\ Unwritten' = Unwritten
    BY DEF DeleteMovie, Creating, Unwritten
  <1> QED
    BY <1>1 DEF DeleteMovie, UnwrittenIssued, DistinctIds, NeverOverwrites

\* A late upsert writes an id that nobody else can write.
LEMMA LateKeepsIds ==
    ASSUME TypeOK, NEW i \in Id, LateUpsert(i),
           UnwrittenIssued, DistinctIds, NeverOverwrites
    PROVE  /\ UnwrittenIssued' /\ DistinctIds' /\ NeverOverwrites'
           /\ i \in Unwritten
           /\ Unwritten' = Unwritten \ {i}
  <1>1. Creating' = Creating /\ num' = num /\ issued' = issued
    BY DEF LateUpsert, Creating
  <1>2. i \in late /\ late' = late \ {i} /\ movies' = movies \cup {i}
    BY DEF LateUpsert
  <1>3. i \in Unwritten /\ Unwritten' = Unwritten \ {i}
    BY <1>1, <1>2 DEF Unwritten, DistinctIds
  <1> QED
    BY <1>1, <1>2, <1>3 DEF UnwrittenIssued, DistinctIds, NeverOverwrites

\* A restart gives up ids of its own process, or leaves them to be written late.
LEMMA RestartKeepsIds ==
    ASSUME TypeOK, NEW p \in Proc, Restart(p),
           UnwrittenIssued, DistinctIds, NeverOverwrites
    PROVE  /\ UnwrittenIssued' /\ DistinctIds' /\ NeverOverwrites'
           /\ Unwritten' \subseteq Unwritten
  <1>1. Creating' = {c \in Creating : Host[c] # p}
    BY DEF Restart, Creating
  <1>2. num' = num /\ issued' = issued /\ movies' = movies
    BY DEF Restart, mongo
  <1>3. PICK sent \in SUBSET {c \in Creating : Host[c] = p} :
            late' = late \cup {num[c] : c \in sent}
    BY DEF Restart
  <1>4. Unwritten' \subseteq Unwritten
    BY <1>1, <1>2, <1>3 DEF Unwritten
  <1>5. UnwrittenIssued' /\ NeverOverwrites'
    BY <1>2, <1>4 DEF UnwrittenIssued, NeverOverwrites
  <1>6. \A c, d \in Creating' : num'[c] = num'[d] => c = d
    BY <1>1, <1>2 DEF DistinctIds
  <1>7. \A c \in Creating' : num'[c] \notin late'
    BY <1>1, <1>2, <1>3 DEF DistinctIds
  <1> QED BY <1>4, <1>5, <1>6, <1>7 DEF DistinctIds
-----------------------------------------------------------------------------
\* The two facts about the counter.  Only a seeding declares the counter fit
\* for use, and it does so when every movie is covered.
LEMMA SeedingKeepsCover ==
    ASSUME TypeOK, [Next]_vars, CounterCovers, SeedingCovers, IssuedCovered,
           UnwrittenIssued, NEW c \in Caller, Quiet(c)
    PROVE  CounterCovers' /\ SeedingCovers'
  <1> USE DEF TypeOK
  <1>1. movies' = movies /\ movies \subseteq Nat /\ seq \in Nat /\ seq' \in Nat
    BY QuietStep, TypeStep DEF Id, Seq32
  <1>2. seq' >= seq
    BY CounterGrows
  <1>3. ASSUME NEW p \in Proc, ~Seeded(p), Seeded(p)', NEW m \in movies
        PROVE  m <= seq'
    <2>1. p = Host[c]
      BY <1>3 DEF Quiet, CallNextID, OnceRun, SeedFindEmpty, SeedFindLargest,
         SeedFindFails, SeedMax, SeedMaxFails, NextIDSticky, NextIDOverflows,
         NextIDFails, OnceReturn, Seeded, mongo
    <2>2. SeedFindEmpty(c) \/ SeedMax(c)
      BY <1>3, <2>1 DEF Quiet, CallNextID, OnceRun, SeedFindEmpty, SeedFindLargest,
         SeedFindFails, SeedMax, SeedMaxFails, NextIDSticky, NextIDOverflows,
         NextIDFails, OnceReturn, Seeded, mongo
    <2>3. CASE SeedFindEmpty(c)
      BY <1>3, <2>3 DEF SeedFindEmpty
    <2>4. CASE SeedMax(c)
      <3>1. num[c] \in Nat /\ seq' = Larger(seq, num[c])
        BY <2>4 DEF SeedMax
      <3>2. m <= num[c] \/ m <= seq
        BY <1>3, <2>4 DEF SeedMax, SeedingCovers
      <3>3. seq' >= num[c]
        BY <3>1, LargerType
      <3> QED BY <1>1, <1>2, <3>1, <3>2, <3>3
    <2> QED BY <2>2, <2>3, <2>4
  <1>4. CounterCovers'
    <2> SUFFICES ASSUME NEW p \in Proc, Seeded(p)', NEW m \in movies
                 PROVE  m <= seq'
      BY <1>1 DEF CounterCovers
    <2>1. CASE Seeded(p)
      BY <1>1, <1>2, <2>1 DEF CounterCovers
    <2>2. CASE ~Seeded(p)
      BY <1>3, <2>2
    <2> QED BY <2>1, <2>2
  <1>5. SeedingCovers'
    <2> SUFFICES ASSUME NEW d \in Caller, pc'[d] = "seedMax", NEW m \in movies
                 PROVE  m <= num'[d] \/ m <= seq'
      BY <1>1 DEF SeedingCovers
    <2>1. CASE pc[d] = "seedMax" /\ num'[d] = num[d]
      <3>1. m <= num[d] \/ m <= seq
        BY <2>1 DEF SeedingCovers
      <3> QED BY <1>1, <1>2, <2>1, <3>1
    <2>2. CASE SeedFindLargest(c) /\ d = c
      BY <2>2 DEF SeedFindLargest
    <2>3. \/ pc[d] = "seedMax" /\ num'[d] = num[d]
          \/ SeedFindLargest(c) /\ d = c
      BY DEF Quiet, CallNextID, OnceRun, SeedFindEmpty, SeedFindLargest,
         SeedFindFails, SeedMax, SeedMaxFails, NextIDSticky, NextIDOverflows,
         NextIDFails, OnceReturn, Goto, mongo, Location
    <2> QED BY <2>1, <2>2, <2>3
  <1> QED BY <1>4, <1>5

\* A step that adds to the collection only ids issued before, and neither
\* starts nor ends a seeding, keeps the counter's cover.
LEMMA WriteKeepsCover ==
    ASSUME TypeOK, TypeOK', CounterCovers, SeedingCovers, IssuedCovered,
           seq' >= seq, movies' \subseteq movies \cup issued,
           \A p \in Proc : Seeded(p)' => Seeded(p),
           \A d \in Caller : pc'[d] = "seedMax" => pc[d] = "seedMax" /\ num'[d] = num[d]
    PROVE  CounterCovers' /\ SeedingCovers'
  <1>1. /\ seq \in Nat /\ seq' \in Nat
        /\ movies' \subseteq Nat
        /\ \A d \in Caller : num[d] \in Nat
    BY DEF TypeOK, Seq32, Id
  <1>2. CounterCovers'
    BY <1>1 DEF CounterCovers, IssuedCovered
  <1>3. SeedingCovers'
    BY <1>1 DEF SeedingCovers, IssuedCovered
  <1> QED BY <1>2, <1>3

\* No id is issued above the counter, and the counter never goes down.
LEMMA IssuedStaysCovered ==
    ASSUME TypeOK, TypeOK', [Next]_vars, IssuedCovered
    PROVE  IssuedCovered'
  <1>1. issued' \subseteq issued \cup {seq'}
    BY DEF Next, Proceed, vars, mongo, CallNextID, OnceRun, SeedFindEmpty,
       SeedFindLargest, SeedFindFails, SeedMax, SeedMaxFails, NextIDSticky,
       NextIDIssues, NextIDOverflows, NextIDFails, CreateMovie,
       CreateMovieFails, DeleteMovie, LateUpsert, Restart
  <1>2. seq \in Nat /\ seq' \in Nat /\ issued \subseteq Nat
    BY DEF TypeOK, Seq32, Id
  <1> QED BY <1>1, <1>2, CounterGrows DEF IssuedCovered
-----------------------------------------------------------------------------
\* A goroutine that is not seeding stays out of it, or leaves its replica's once
\* as it is: the once is held as before.
LEMMA OnceUntouched ==
    ASSUME TypeOK, OnceHeld, NEW c \in Caller, once' = once,
           \/ pc' = pc
           \/ \E l \in Location \ {"seedFind", "seedMax"} :
                 Goto(c, l) /\ pc[c] \notin {"seedFind", "seedMax"}
           \/ Goto(c, "seedMax") /\ pc[c] = "seedFind"
    PROVE  OnceHeld'
  <1>1. \A d \in Caller : pc'[d] \in {"seedFind", "seedMax"} <=> pc[d] \in {"seedFind", "seedMax"}
    BY DEF Goto, TypeOK
  <1>2. \A p \in Proc : SeedingCallers(p)' = SeedingCallers(p)
    BY <1>1 DEF SeedingCallers
  <1> QED BY <1>2 DEF OnceHeld

\* The once of a replica is run by one goroutine, which is alone in the seeding.
LEMMA OnceRunHolds ==
    ASSUME TypeOK, OnceHeld, NEW c \in Caller, OnceRun(c)
    PROVE  OnceHeld'
  <1>1. /\ Host[c] \in Proc /\ once[Host[c]] = "new"
        /\ once' = [once EXCEPT ![Host[c]] = "running"]
        /\ pc' = [pc EXCEPT ![c] = "seedFind"]
    BY HostAssumption DEF OnceRun, Goto
  <1>2. SeedingCallers(Host[c]) = {}
    BY <1>1 DEF OnceHeld
  <1>3. SeedingCallers(Host[c])' = {c}
    BY <1>1, <1>2 DEF SeedingCallers, TypeOK
  <1>4. \A p \in Proc \ {Host[c]} : SeedingCallers(p)' = SeedingCallers(p) /\ once'[p] = once[p]
    BY <1>1 DEF SeedingCallers, TypeOK
  <1>5. once'[Host[c]] = "running"
    BY <1>1 DEF TypeOK
  <1> QED BY <1>3, <1>4, <1>5 DEF OnceHeld

\* However the seeding ends, its goroutine lets the others of its replica go on.
LEMMA OnceReturnReleases ==
    ASSUME TypeOK, OnceHeld, NEW c \in Caller, pc[c] \in {"seedFind", "seedMax"},
           NEW failed, OnceReturn(c, failed)
    PROVE  OnceHeld'
  <1>1. /\ Host[c] \in Proc
        /\ once' = [once EXCEPT ![Host[c]] = "done"]
        /\ pc' = [pc EXCEPT ![c] = "nextid"]
    BY HostAssumption DEF OnceReturn, Goto
  <1>2. SeedingCallers(Host[c])' = {}
    BY <1>1 DEF SeedingCallers, OnceHeld, TypeOK
  <1>3. \A p \in Proc \ {Host[c]} : SeedingCallers(p)' = SeedingCallers(p) /\ once'[p] = once[p]
    BY <1>1 DEF SeedingCallers, TypeOK
  <1>4. once'[Host[c]] = "done"
    BY <1>1 DEF TypeOK
  <1> QED BY <1>2, <1>3, <1>4 DEF OnceHeld

\* Nobody is left waiting for a seeding that nobody carries out.
LEMMA OnceStep == TypeOK /\ OnceHeld /\ [Next]_vars => OnceHeld'
  <1> SUFFICES ASSUME TypeOK, OnceHeld, [Next]_vars PROVE OnceHeld'
    OBVIOUS
  <1>1. ASSUME NEW c \in Caller, OnceRun(c) PROVE OnceHeld'
    BY <1>1, OnceRunHolds
  <1>2. ASSUME NEW c \in Caller,
               SeedFindEmpty(c) \/ SeedFindFails(c) \/ SeedMax(c) \/ SeedMaxFails(c)
        PROVE  OnceHeld'
    BY <1>2, OnceReturnReleases DEF SeedFindEmpty, SeedFindFails, SeedMax, SeedMaxFails
  <1>3. ASSUME NEW c \in Caller, SeedFindLargest(c) PROVE OnceHeld'
    BY <1>3, OnceUntouched DEF SeedFindLargest
  <1>4. ASSUME NEW c \in Caller,
               \/ CallNextID(c) \/ NextIDSticky(c) \/ NextIDIssues(c) \/ NextIDOverflows(c)
               \/ NextIDFails(c) \/ CreateMovie(c) \/ CreateMovieFails(c)
        PROVE  OnceHeld'
    <2>1. PICK l \in {"idle", "nextid", "create"} : Goto(c, l)
      BY <1>4 DEF CallNextID, NextIDSticky, NextIDIssues, NextIDOverflows, NextIDFails,
                  CreateMovie, CreateMovieFails
    <2>2. once' = once /\ pc[c] \notin {"seedFind", "seedMax"}
      BY <1>4 DEF CallNextID, NextIDSticky, NextIDIssues, NextIDOverflows, NextIDFails,
                  CreateMovie, CreateMovieFails
    <2> QED BY <2>1, <2>2, OnceUntouched DEF Location
  <1>5. ASSUME NEW p \in Proc, Restart(p) PROVE OnceHeld'
    <2>1. /\ once' = [once EXCEPT ![p] = "new"]
          /\ pc' = [c \in Caller |-> IF Host[c] = p THEN "idle" ELSE pc[c]]
      BY <1>5 DEF Restart
    <2>2. SeedingCallers(p)' = {} /\ once'[p] = "new"
      BY <2>1 DEF SeedingCallers, TypeOK
    <2>3. \A q \in Proc \ {p} : SeedingCallers(q)' = SeedingCallers(q) /\ once'[q] = once[q]
      BY <2>1 DEF SeedingCallers, TypeOK
    <2> QED BY <2>2, <2>3 DEF OnceHeld
  <1>6. ASSUME UNCHANGED <<once, pc>> PROVE OnceHeld'
    BY <1>6 DEF OnceHeld, SeedingCallers
  <1> QED
    BY <1>1, <1>2, <1>3, <1>4, <1>5, <1>6 DEF Next, Proceed, DeleteMovie, LateUpsert, vars

\* No id was issued at first, and nobody is inside the repository.
LEMMA InvInit == Init => IdInv
  BY TypeInit DEF Init, IdInv, CounterCovers, SeedingCovers, IssuedCovered,
     UnwrittenIssued, OnceHeld, SeedingCallers, DistinctIds, NeverOverwrites,
     Unwritten, Creating, Seeded

\* Every step keeps the inductive invariant.
LEMMA InvStep == IdInv /\ [Next]_vars => IdInv'
  <1> SUFFICES ASSUME IdInv, [Next]_vars
               PROVE  IdInv'
    OBVIOUS
  <1> USE DEF IdInv
  <1>1. TypeOK' /\ IssuedCovered' /\ OnceHeld' /\ seq' >= seq
    BY TypeStep, IssuedStaysCovered, OnceStep, CounterGrows
  <1>2. ASSUME NEW c \in Caller, Quiet(c) PROVE IdInv'
    BY <1>1, <1>2, QuietKeepsIds, SeedingKeepsCover
  <1>3. ASSUME NEW c \in Caller, NextIDIssues(c) PROVE IdInv'
    <2>1. CounterCovers' /\ SeedingCovers'
      BY <1>1, <1>3, WriteKeepsCover DEF NextIDIssues, Goto, Seeded, TypeOK
    <2> QED BY <1>1, <1>3, <2>1, IssueKeepsIds
  <1>4. ASSUME NEW c \in Caller, CreateMovie(c) PROVE IdInv'
    <2>1. num[c] \in issued
      BY <1>4, CreateKeepsIds DEF UnwrittenIssued
    <2>2. CounterCovers' /\ SeedingCovers'
      BY <1>1, <1>4, <2>1, WriteKeepsCover DEF CreateMovie, Goto, Seeded, TypeOK
    <2> QED BY <1>1, <1>4, <2>2, CreateKeepsIds
  <1>5. ASSUME NEW c \in Caller, CreateMovieFails(c) PROVE IdInv'
    <2>1. CounterCovers' /\ SeedingCovers'
      BY <1>1, <1>5, WriteKeepsCover DEF CreateMovieFails, Goto, Seeded, TypeOK, mongo
    <2> QED BY <1>1, <1>5, <2>1, FailKeepsIds
  <1>6. ASSUME NEW i \in Id, DeleteMovie(i) PROVE IdInv'
    <2>1. CounterCovers' /\ SeedingCovers'
      BY <1>1, <1>6, WriteKeepsCover DEF DeleteMovie, Seeded
    <2> QED BY <1>1, <1>6, <2>1, DeleteKeepsIds
  <1>7. ASSUME NEW i \in Id, LateUpsert(i) PROVE IdInv'
    <2>1. i \in issued
      BY <1>7, LateKeepsIds DEF UnwrittenIssued
    <2>2. CounterCovers' /\ SeedingCovers'
      BY <1>1, <1>7, <2>1, WriteKeepsCover DEF LateUpsert, Seeded
    <2> QED BY <1>1, <1>7, <2>2, LateKeepsIds
  <1>8. ASSUME NEW p \in Proc, Restart(p) PROVE IdInv'
    <2>1. CounterCovers' /\ SeedingCovers'
      BY <1>1, <1>8, WriteKeepsCover DEF Restart, Seeded, TypeOK, mongo
    <2> QED BY <1>1, <1>8, <2>1, RestartKeepsIds
  <1>9. CASE UNCHANGED vars
    BY <1>1, <1>9 DEF vars, CounterCovers, SeedingCovers, UnwrittenIssued,
       DistinctIds, NeverOverwrites, Unwritten, Creating, Seeded
  <1> QED
    BY <1>2, <1>3, <1>4, <1>5, <1>6, <1>7, <1>8, <1>9 DEF Next, Proceed, Quiet

\* The inductive invariant holds in every reachable state, whatever database
\* the replicas find and however often they restart.
THEOREM InvHolds == Spec => []IdInv
  <1>1. IdInv /\ [Next]_vars => IdInv'
    BY InvStep
  <1> QED BY InvInit, <1>1, PTL DEF Spec

\* Typing of every variable: ids are positive int32 values.
THEOREM TypeCorrect == Spec => []TypeOK
  <1>1. IdInv => TypeOK
    BY DEF IdInv
  <1> QED BY InvHolds, <1>1, PTL

\* CreateMovie's upsert never replaces a document that already exists.
THEOREM OverwriteFree == Spec => []NeverOverwrites
  <1>1. IdInv => NeverOverwrites
    BY DEF IdInv
  <1> QED BY InvHolds, <1>1, PTL

\* No two creations in flight hold the same id, across goroutines and replicas.
THEOREM IdsDistinct == Spec => []DistinctIds
  <1>1. IdInv => DistinctIds
    BY DEF IdInv
  <1> QED BY InvHolds, <1>1, PTL

\* Who waits in counterOnce.Do waits for one goroutine that is in the seeding.
THEOREM SeedingIsHeld == Spec => []OnceHeld
  <1>1. IdInv => OnceHeld
    BY DEF IdInv
  <1> QED BY InvHolds, <1>1, PTL
-----------------------------------------------------------------------------
\* The only step that gives a goroutine an id is NextIDIssues.
LEMMA OnlyIssueEnters ==
    ASSUME TypeOK, [Next]_vars, NEW c \in Caller,
           pc[c] # "create", pc'[c] = "create"
    PROVE  NextIDIssues(c)
  <1>1. ASSUME NEW d \in Caller, NextIDIssues(d) PROVE d = c
    BY <1>1 DEF NextIDIssues, Goto, TypeOK
  <1>2. ASSUME NEW d \in Caller, Quiet(d) PROVE FALSE
    BY <1>2, QuietStep DEF Creating
  <1>3. ASSUME NEW d \in Caller, CreateMovie(d) \/ CreateMovieFails(d) PROVE FALSE
    BY <1>3 DEF CreateMovie, CreateMovieFails, Goto, TypeOK
  <1>4. ASSUME NEW i \in Id, DeleteMovie(i) \/ LateUpsert(i) PROVE FALSE
    BY <1>4 DEF DeleteMovie, LateUpsert
  <1>5. ASSUME NEW p \in Proc, Restart(p) PROVE FALSE
    BY <1>5 DEF Restart
  <1>6. CASE UNCHANGED vars
    BY <1>6 DEF vars
  <1> QED
    BY <1>1, <1>2, <1>3, <1>4, <1>5, <1>6 DEF Next, Proceed, Quiet

\* The id a goroutine is given was never given out before.
THEOREM ReissueFree == Spec => NeverReissued
  <1> DEFINE Fresh == \A c \in Caller : pc[c] # "create" /\ pc'[c] = "create"
                                            => num'[c] \notin issued
  <1>1. IdInv /\ [Next]_vars => [Fresh]_vars
    <2> SUFFICES ASSUME IdInv, [Next]_vars, NEW c \in Caller,
                        pc[c] # "create", pc'[c] = "create"
                 PROVE  num'[c] \notin issued
      OBVIOUS
    <2>1. NextIDIssues(c)
      BY OnlyIssueEnters DEF IdInv
    <2> QED BY <2>1, IssueKeepsIds DEF IdInv
  <1> QED BY InvHolds, <1>1, PTL DEF Spec, NeverReissued
-----------------------------------------------------------------------------
\* MovieIds implements IdRegistry: the counter document, sync.Once and replicas
\* never do anything to the ids that the registry of ids does not allow.
LEMMA RefinementStep ==
    ASSUME IdInv, IdInv', [Next]_vars
    PROVE  [Registry!Next]_(Registry!vars)
  <1> USE DEF IdInv, Registry!vars
  <1>0. issued \subseteq Id
    BY DEF TypeOK
  <1>1. ASSUME NEW c \in Caller, Quiet(c) PROVE UNCHANGED Registry!vars
    BY <1>1, QuietStep DEF Unwritten
  <1>2. ASSUME NEW c \in Caller, NextIDIssues(c) PROVE Registry!Next
    <2>1. Unwritten' = Unwritten \cup {seq'} /\ issued' = issued \cup {seq'}
      <3>1. pc[c] # "create" /\ c \notin Creating
        BY <1>2 DEF NextIDIssues, Creating
      <3>2. Creating' = Creating \cup {c}
        BY <1>2, GotoType DEF NextIDIssues, Creating, TypeOK, Location
      <3>3. num'[c] = seq' /\ \A d \in Creating : num'[d] = num[d]
        BY <1>2, <3>1 DEF NextIDIssues, TypeOK, Creating
      <3>4. late' = late /\ issued' = issued \cup {seq'}
        BY <1>2 DEF NextIDIssues
      <3> QED BY <3>2, <3>3, <3>4 DEF Unwritten
    <2>2. seq' \notin issued /\ movies' = movies
      BY <1>2, IssueKeepsIds DEF NextIDIssues, TypeOK
    <2>3. seq' \in Id /\ seq' \notin movies
      <3>1. seq' \in issued' /\ seq' \in Unwritten'
        BY <2>1
      <3>2. issued' \subseteq Id /\ Unwritten' \cap movies = {}
        BY <2>2 DEF TypeOK, NeverOverwrites
      <3> QED BY <3>1, <3>2
    <2> QED BY <2>1, <2>2, <2>3 DEF Registry!Next, Registry!Issue
  <1>3. ASSUME NEW c \in Caller, CreateMovie(c) PROVE Registry!Next
    <2>1. num[c] \in Unwritten /\ Unwritten' = Unwritten \ {num[c]}
      BY <1>3, CreateKeepsIds
    <2>2. num[c] \in Id /\ num[c] \notin movies
      BY <1>0, <2>1 DEF UnwrittenIssued, NeverOverwrites
    <2> QED BY <1>3, <2>1, <2>2 DEF CreateMovie, Registry!Next, Registry!Store
  <1>4. ASSUME NEW i \in Id, LateUpsert(i) PROVE Registry!Next
    <2>1. i \in Unwritten /\ Unwritten' = Unwritten \ {i}
      BY <1>4, LateKeepsIds
    <2>2. i \notin movies
      BY <2>1 DEF NeverOverwrites
    <2> QED BY <1>4, <2>1, <2>2 DEF LateUpsert, Registry!Next, Registry!Store
  <1>5. ASSUME NEW i \in Id, DeleteMovie(i) PROVE Registry!Next
    BY <1>5, DeleteKeepsIds DEF DeleteMovie, Registry!Next, Registry!Remove
  <1>6. ASSUME Unwritten' \subseteq Unwritten, movies' = movies, issued' = issued
        PROVE  Registry!Next
    <2>1. Unwritten' = Unwritten \ (Unwritten \ Unwritten')
      BY <1>6
    <2> QED BY <1>6, <2>1 DEF Registry!Next, Registry!Discard
  <1>7. ASSUME NEW c \in Caller, CreateMovieFails(c) PROVE Registry!Next
    BY <1>6, <1>7, FailKeepsIds DEF CreateMovieFails, mongo
  <1>8. ASSUME NEW p \in Proc, Restart(p) PROVE Registry!Next
    BY <1>6, <1>8, RestartKeepsIds DEF Restart, mongo
  <1>9. CASE UNCHANGED vars
    BY <1>9 DEF vars, Unwritten, Creating
  <1> QED
    BY <1>1, <1>2, <1>3, <1>4, <1>5, <1>7, <1>8, <1>9 DEF Next, Proceed, Quiet

\* Hence every behaviour of MovieIds is one of IdRegistry: no id is issued twice,
\* and none for a movie the collection already holds.
THEOREM RegistryRefined == Spec => ImplementsRegistry
  <1>1. Init => Registry!Init
    BY DEF Init, Registry!Init, Unwritten, Creating
  <1>2. IdInv /\ IdInv' /\ [Next]_vars => [Registry!Next]_(Registry!vars)
    BY RefinementStep
  <1> QED BY InvHolds, <1>1, <1>2, PTL DEF Spec, ImplementsRegistry, Registry!Spec
=============================================================================
