--------------------------- MODULE SeedBoot_proofs --------------------------
(* Proofs about SeedBoot: what a half-filled collection can cost, for any    *)
(* number of replicas and any movies.json.                                   *)
EXTENDS SeedBoot, TLAPS

\* What a replica has read, or set the counter to, covers the collection.
Reads ==
    /\ \A p \in Proc : counter[p] # "read" => max[p] = 0
    /\ \A p \in Proc : counter[p] \in {"read", "ok"} =>
          \A i \in movies : i <= seq \/ i <= max[p] \/ i \in exposed

\* The invariant after a step that leaves the history of Outstanding to Next.
LEMMA ExposedKeeps ==
    ASSUME BootInv, Next, TypeOK', Numbered', FromCounter',
           Reads', Fresh', OnlyExposedReplaced', DeletedStaysDeleted'
    PROVE  BootInv'
BY DEF BootInv, Covered, Reads, Next

\* The types, with the history of Outstanding.
LEMMA ExposedGrows ==
    ASSUME TypeOK, Next, todo' \in [Proc -> SUBSET SeedIds], late' \in SUBSET SeedIds
    PROVE  exposed \subseteq exposed' /\ exposed' \in SUBSET SeedIds
BY DEF TypeOK, Next, Outstanding, Unseeded

\* Seeds that are inserted while movies are numbered, or while an upsert of their
\* id may still come, are exposed.
LEMMA InsertedIsExposed ==
    ASSUME BootInv, NEW i, i \in Unseeded, Numbering \/ i \in lateUpserts
    PROVE  i \in exposed
BY DEF BootInv, Covered, Outstanding

\* A step that inserts at most a seed that an InsertMany has still to insert, and
\* changes nothing that is numbered.
LEMMA SeedingKeeps ==
    ASSUME BootInv, Next, TypeOK',
           UNCHANGED <<seq, counter, max, num, lateUpserts, overwritten, deleted>>,
           movies' \subseteq movies \cup Unseeded,
           movies' \ movies \subseteq SeedIds
    PROVE  BootInv'
<1> USE DEF BootInv
<1>1. exposed \subseteq exposed' /\ exposed' \in SUBSET SeedIds
  BY ExposedGrows DEF TypeOK
<1>2. \A i \in movies' \ movies : Numbering \/ i \in lateUpserts => i \in exposed
  BY InsertedIsExposed
<1>3. Numbered' /\ FromCounter' /\ AtHand' = AtHand
  BY DEF Numbered, FromCounter, AtHand
<1>4. Fresh'
  <2>1. \A p \in Proc : num[p] # 0 => Numbering
    BY DEF Numbered, Numbering
  <2>2. \A i \in AtHand : Numbering \/ i \in lateUpserts
    BY <2>1 DEF AtHand
  <2> QED BY <1>1, <1>2, <1>3, <2>2 DEF Fresh
<1>5. Reads'
  BY <1>1, <1>2 DEF Covered, Reads, Numbering
<1>6. OnlyExposedReplaced' /\ DeletedStaysDeleted'
  BY <1>1 DEF OnlyExposedReplaced, DeletedStaysDeleted
<1> QED BY <1>3, <1>4, <1>5, <1>6, ExposedKeeps

\* What is left of an InsertMany is a part of it.
LEMMA InsertTakesFirst ==
    ASSUME NEW S \in SUBSET SeedIds, NEW i, NEW rest, Insert(i, S, rest)
    PROVE  /\ i \in S /\ rest \subseteq S
           /\ movies' \subseteq movies \cup {i}
BY DEF Insert, IsFirst

\* $max never lowers the counter, and a write that is lost leaves it alone.
LEMMA RaiseRaises ==
    ASSUME TypeOK, NEW p \in Proc, Raise(p) \/ UNCHANGED seq
    PROVE  seq' \in 0..MaxId /\ seq <= seq'
BY MaxIdAssumption DEF TypeOK, Raise

\* What is known of the ids at hand bears a counter that is raised meanwhile.
LEMMA RaisedKeeps ==
    ASSUME BootInv, TypeOK', NEW p \in Proc, NEW outcome, counter[p] = "ok" => outcome = "ok",
           counter' = [counter EXCEPT ![p] = outcome], seq <= seq',
           UNCHANGED <<movies, num, lateUpserts, deleted>>, exposed \subseteq exposed'
    PROVE  Numbered' /\ FromCounter' /\ Fresh'
<1>1. seq \in Nat /\ seq' \in Nat /\ \A i \in movies \cup deleted : i \in Nat
  BY MaxIdAssumption DEF BootInv, TypeOK, Id
<1>2. Numbered'
  BY <1>1, MaxIdAssumption DEF BootInv, TypeOK, Numbered, Id
<1>3. FromCounter' /\ Fresh'
  BY <1>1 DEF BootInv, FromCounter, Fresh, AtHand
<1> QED BY <1>2, <1>3

\* Movies written under ids the counter has issued, and replicas that give up what
\* they have read, leave the others what they know.
LEMMA IssuedCovers ==
    ASSUME BootInv, TypeOK', (\A i \in movies' : i \in movies \/ i <= seq), seq <= seq',
           exposed \subseteq exposed',
           \A p \in Proc :
              \/ counter'[p] = counter[p] /\ max'[p] = max[p]
              \/ counter'[p] \notin {"read", "ok"} /\ max'[p] = 0
    PROVE  Reads'
<1>1. seq \in Nat /\ seq' \in Nat /\ \A i \in movies' : i \in Nat
  BY MaxIdAssumption DEF BootInv, TypeOK, Id
<1> QED BY <1>1 DEF BootInv, TypeOK, Reads, Covered

\* Movies W written under ids at hand, which are at hand no more, replace exposed
\* seeds only and bring no deleted movie back.
LEMMA WritesKeep ==
    ASSUME BootInv, TypeOK', NEW W \in SUBSET AtHand, W \subseteq 1..seq, seq <= seq',
           movies' = movies \cup W, overwritten' = overwritten \cup (W \cap movies),
           AtHand' \subseteq AtHand \ W, UNCHANGED deleted, exposed \subseteq exposed'
    PROVE  FromCounter' /\ Fresh' /\ OnlyExposedReplaced' /\ DeletedStaysDeleted'
<1> USE DEF BootInv
<1>1. seq \in Nat /\ seq' \in Nat /\ \A i \in movies \cup deleted : i \in Nat
  BY MaxIdAssumption DEF TypeOK, Id
<1>2. FromCounter'
  <2>1. \A i \in W : i \in Nat /\ i <= seq
    BY <1>1
  <2>2. \A i \in movies \cup deleted \cup W : i \in Nat /\ (i <= seq \/ i \in SeedIds)
    BY <1>1, <2>1 DEF FromCounter
  <2>3. \A i \in movies \cup deleted \cup W : i <= seq' \/ i \in SeedIds
    BY <1>1, <2>2
  <2> QED BY <2>3 DEF FromCounter
<1>3. Fresh'
  BY DEF Fresh
<1>4. OnlyExposedReplaced' /\ DeletedStaysDeleted'
  BY DEF Fresh, OnlyExposedReplaced, DeletedStaysDeleted
<1> QED BY <1>2, <1>3, <1>4

\* A replica that gives its id up writes a movie under it, now or later, or none.
LEMMA GivenUp ==
    ASSUME BootInv, NEW p \in Proc, GiveUp(p)
    PROVE  /\ lateUpserts' \in SUBSET Id /\ lateUpserts' \subseteq 1..seq
           /\ lateUpserts' \subseteq lateUpserts \cup {num[p]}
           /\ \E W \in SUBSET AtHand :
                /\ W \subseteq 1..seq
                /\ movies' = movies \cup W /\ overwritten' = overwritten \cup (W \cap movies)
                /\ AtHand' \subseteq AtHand \ W
<1> USE DEF BootInv
<1>1. num' = [num EXCEPT ![p] = 0]
  BY DEF GiveUp
<1>2. CASE UNCHANGED <<movies, overwritten, lateUpserts>>
  <2>1. movies' = movies \cup {} /\ overwritten' = overwritten \cup ({} \cap movies)
    BY <1>2
  <2>2. AtHand' \subseteq AtHand \ {}
    BY <1>1, <1>2 DEF AtHand, TypeOK
  <2> QED BY <1>2, <2>1, <2>2 DEF TypeOK, Numbered
<1>3. CASE num[p] # 0 /\ Upsert(num[p]) /\ UNCHANGED lateUpserts
  <2>1. {num[p]} \in SUBSET AtHand /\ {num[p]} \subseteq 1..seq
    BY <1>3 DEF AtHand, Numbered
  <2>2. AtHand' \subseteq AtHand \ {num[p]}
    BY <1>1, <1>3 DEF AtHand, Numbered, TypeOK
  <2> QED BY <1>3, <2>1, <2>2 DEF Upsert, TypeOK, Numbered
<1>4. CASE /\ num[p] # 0 /\ lateUpserts' = lateUpserts \cup {num[p]}
           /\ UNCHANGED <<movies, overwritten>>
  <2>1. movies' = movies \cup {} /\ overwritten' = overwritten \cup ({} \cap movies)
    BY <1>4
  <2>2. AtHand' \subseteq AtHand \ {}
    BY <1>1, <1>4 DEF AtHand, TypeOK
  <2>3. lateUpserts' \in SUBSET Id /\ lateUpserts' \subseteq 1..seq
    BY <1>4 DEF TypeOK, Numbered
  <2> QED BY <1>4, <2>1, <2>2, <2>3
<1> QED BY <1>2, <1>3, <1>4 DEF GiveUp

\* Every step of a replica or a fault keeps the invariant.
THEOREM InvStep == BootInv /\ [Next]_vars => BootInv'
<1> SUFFICES ASSUME BootInv, [Next]_vars PROVE BootInv'
  OBVIOUS
<1> USE DEF BootInv, data
<1>0. /\ seq \in Nat /\ max \in [Proc -> 0..MaxId]
      /\ counter \in [Proc -> {"new", "read", "ok", "failed"}]
  BY MaxIdAssumption DEF TypeOK
<1>1. ASSUME Next, NEW p \in Proc, Start(p) \/ CountDocuments(p) PROVE BootInv'
  <2>1. /\ pc' \in [Proc -> {"down", "count", "insert", "serve"}]
        /\ todo' \in [Proc -> SUBSET SeedIds]
        /\ UNCHANGED <<movies, seq, late, counter, max, num, lateUpserts, overwritten, deleted>>
    BY <1>1 DEF Start, CountDocuments, Goto, TypeOK
  <2>2. TypeOK'
    BY <1>1, <2>1, ExposedGrows DEF TypeOK
  <2> QED BY <1>1, <2>1, <2>2, SeedingKeeps
<1>2. ASSUME Next, NEW p \in Proc, InsertMany(p) PROVE BootInv'
  <2>1. PICK i \in todo[p], rest \in SUBSET SeedIds :
          /\ Insert(i, todo[p], rest)
          /\ todo' = [todo EXCEPT ![p] = rest]
          /\ \/ rest = {} /\ Goto(p, "serve")
             \/ rest # {} /\ UNCHANGED pc
    BY <1>2 DEF InsertMany
  <2>2. /\ movies' \subseteq movies \cup {i} /\ i \in SeedIds
        /\ UNCHANGED <<seq, late, counter, max, num, lateUpserts, overwritten, deleted>>
    BY <1>2, <2>1, InsertTakesFirst DEF TypeOK, InsertMany
  <2>3. TypeOK'
    BY <1>2, <2>1, <2>2, ExposedGrows, SeedAssumption DEF TypeOK, Goto
  <2> QED BY <1>2, <2>1, <2>2, <2>3, SeedingKeeps DEF Unseeded
<1>3. ASSUME Next, LateInsert PROVE BootInv'
  <2>1. PICK i \in late : Insert(i, late, late')
    BY <1>3 DEF LateInsert
  <2>2. /\ movies' \subseteq movies \cup {i} /\ i \in SeedIds /\ late' \subseteq late
        /\ UNCHANGED <<seq, pc, todo, counter, max, num, lateUpserts, overwritten, deleted>>
    BY <1>3, <2>1, InsertTakesFirst DEF TypeOK, LateInsert
  <2>3. TypeOK'
    BY <1>3, <2>2, ExposedGrows, SeedAssumption DEF TypeOK
  <2> QED BY <1>3, <2>1, <2>2, <2>3, SeedingKeeps DEF Unseeded
<1>4. ASSUME Next, NEW p \in Proc, SeedFails(p) PROVE BootInv'
  <2>1. /\ pc' \in [Proc -> {"down", "count", "insert", "serve"}]
        /\ todo' \in [Proc -> SUBSET SeedIds] /\ late' \in SUBSET SeedIds
        /\ UNCHANGED <<movies, seq, counter, max, num, lateUpserts, overwritten, deleted>>
    BY <1>4 DEF SeedFails, Abandon, Goto, TypeOK
  <2>2. TypeOK'
    BY <1>4, <2>1, ExposedGrows DEF TypeOK
  <2> QED BY <1>4, <2>1, <2>2, SeedingKeeps
<1>5. ASSUME Next, NEW p \in Proc, ReadLargest(p) PROVE BootInv'
  <2>1. PICK m \in 0..MaxId :
          /\ \A i \in movies : i <= m
          /\ counter' = [counter EXCEPT ![p] = IF m = 0 THEN "ok" ELSE "read"]
          /\ max' = [max EXCEPT ![p] = m]
    BY <1>5 DEF ReadLargest, Largest
  <2>2. counter[p] = "new" /\ UNCHANGED <<movies, seq, pc, todo, late, num, lateUpserts, overwritten, deleted>>
    BY <1>5 DEF ReadLargest
  <2>3. TypeOK' /\ exposed \subseteq exposed'
    BY <1>5, <2>1, <2>2, ExposedGrows DEF TypeOK
  <2>4. Numbered' /\ FromCounter' /\ Fresh'
    BY <2>1, <2>2, <2>3 DEF Numbered, FromCounter, Fresh, AtHand, TypeOK
  <2>5. Reads'
    BY <2>1, <2>2, <2>3, MaxIdAssumption DEF Reads, Covered, TypeOK, Id
  <2>6. OnlyExposedReplaced' /\ DeletedStaysDeleted'
    BY <2>2, <2>3 DEF OnlyExposedReplaced, DeletedStaysDeleted
  <2> QED BY <1>5, <2>3, <2>4, <2>5, <2>6, ExposedKeeps
<1>6. ASSUME Next, NEW p \in Proc, SeedCounter(p) PROVE BootInv'
  <2>1. /\ counter[p] = "read" /\ max[p] <= seq'
        /\ counter' = [counter EXCEPT ![p] = "ok"] /\ max' = [max EXCEPT ![p] = 0]
        /\ UNCHANGED <<movies, pc, todo, late, num, lateUpserts, overwritten, deleted>>
    BY <1>6, MaxIdAssumption DEF SeedCounter, Raise, Forget, TypeOK
  <2>2. seq' \in 0..MaxId /\ seq <= seq'
    BY <1>6, RaiseRaises DEF SeedCounter
  <2>3. TypeOK' /\ exposed \subseteq exposed'
    BY <1>6, <2>1, <2>2, ExposedGrows, MaxIdAssumption DEF TypeOK
  <2>4. Numbered' /\ FromCounter' /\ Fresh'
    BY <2>1, <2>2, <2>3, RaisedKeeps
  <2>5. Reads'
    BY <2>1, <2>2, <2>3, MaxIdAssumption DEF Reads, Covered, TypeOK, Id
  <2>6. OnlyExposedReplaced' /\ DeletedStaysDeleted'
    BY <2>1, <2>3 DEF OnlyExposedReplaced, DeletedStaysDeleted
  <2> QED BY <1>6, <2>3, <2>4, <2>5, <2>6, ExposedKeeps
<1>7. ASSUME Next, NEW p \in Proc, SeedCounterFails(p) PROVE BootInv'
  <2>1. /\ counter[p] \in {"new", "read"}
        /\ counter' = [counter EXCEPT ![p] = "failed"] /\ max' = [max EXCEPT ![p] = 0]
        /\ UNCHANGED <<movies, pc, todo, late, num, lateUpserts, overwritten, deleted>>
    BY <1>7 DEF SeedCounterFails, Forget
  <2>2. seq' \in 0..MaxId /\ seq <= seq'
    BY <1>7, RaiseRaises DEF SeedCounterFails
  <2>3. TypeOK' /\ exposed \subseteq exposed'
    BY <1>7, <2>1, <2>2, ExposedGrows, MaxIdAssumption DEF TypeOK
  <2>4. Numbered' /\ FromCounter' /\ Fresh'
    BY <2>1, <2>2, <2>3, RaisedKeeps
  <2>5. Reads'
    <3>1. (\A i \in movies' : i \in movies \/ i <= seq) /\ seq <= seq'
      BY <2>1, <2>2, <1>0, <2>3
    <3>2. \A q \in Proc :
            \/ counter'[q] = counter[q] /\ max'[q] = max[q]
            \/ counter'[q] \notin {"read", "ok"} /\ max'[q] = 0
      BY <2>1, <2>2, <1>0, <2>3
    <3> QED BY <2>3, <3>1, <3>2, IssuedCovers
  <2>6. OnlyExposedReplaced' /\ DeletedStaysDeleted'
    BY <2>1, <2>3 DEF OnlyExposedReplaced, DeletedStaysDeleted
  <2> QED BY <1>7, <2>3, <2>4, <2>5, <2>6, ExposedKeeps
<1>8. ASSUME Next, NEW p \in Proc, NextID(p) PROVE BootInv'
  <2>1. /\ seq' = seq + 1 /\ seq' \in 0..MaxId /\ seq' \in Id /\ counter[p] = "ok" /\ num[p] = 0
        /\ num' = [num EXCEPT ![p] = seq']
        /\ UNCHANGED <<movies, pc, todo, late, counter, max, lateUpserts, overwritten, deleted>>
    BY <1>8, MaxIdAssumption DEF NextID, TypeOK, Id
  <2>2. TypeOK' /\ exposed \subseteq exposed'
    BY <1>8, <2>1, ExposedGrows DEF TypeOK
  <2>3. \A i \in movies : i <= seq \/ i \in exposed
    BY <2>1 DEF Covered, TypeOK, Id
  <2>4. Numbered' /\ FromCounter'
    BY <2>1, MaxIdAssumption DEF Numbered, FromCounter, TypeOK, Id
  <2>5. Fresh'
    <3>1. AtHand' \subseteq AtHand \cup {seq'}
      BY <2>1 DEF AtHand, TypeOK
    <3>2. \A i \in movies \cup deleted : i \in Nat /\ (i <= seq => i # seq')
      BY <2>1, MaxIdAssumption DEF TypeOK, Id
    <3> QED BY <2>1, <2>2, <2>3, <3>1, <3>2 DEF Fresh, FromCounter
  <2>6. OnlyExposedReplaced' /\ DeletedStaysDeleted'
    BY <2>1, <2>2 DEF OnlyExposedReplaced, DeletedStaysDeleted
  <2>7. Reads'
    BY <2>1, <2>2, MaxIdAssumption DEF Reads, Covered, TypeOK, Id
  <2> QED BY <1>8, <2>2, <2>4, <2>5, <2>6, <2>7, ExposedKeeps
<1>9. ASSUME Next, NEW p \in Proc, CreateMovie(p) PROVE BootInv'
  <2>1. /\ num[p] # 0 /\ num[p] \in Id /\ movies' = movies \cup {num[p]}
        /\ overwritten' = overwritten \cup ({num[p]} \cap movies)
        /\ num' = [num EXCEPT ![p] = 0]
        /\ UNCHANGED <<seq, pc, todo, late, lateUpserts, counter, max, deleted>>
    BY <1>9 DEF CreateMovie, Upsert, TypeOK
  <2>2. TypeOK' /\ exposed \subseteq exposed'
    BY <1>9, <2>1, ExposedGrows DEF TypeOK
  <2>3. {num[p]} \subseteq 1..seq /\ {num[p]} \in SUBSET AtHand /\ AtHand' \subseteq AtHand \ {num[p]}
    BY <2>1 DEF Numbered, AtHand, TypeOK
  <2>4. Numbered'
    BY <2>1 DEF Numbered, TypeOK
  <2>5. FromCounter' /\ Fresh' /\ OnlyExposedReplaced' /\ DeletedStaysDeleted'
    <3>1. UNCHANGED <<seq, deleted>> /\ seq <= seq'
      BY <1>0, <2>1
    <3> QED BY <2>1, <2>2, <2>3, <3>1, WritesKeep
  <2>6. Reads'
    <3>1. (\A i \in movies' : i \in movies \/ i <= seq) /\ seq <= seq'
      BY <1>0, <2>1, <2>2, <2>3
    <3>2. \A q \in Proc :
            \/ counter'[q] = counter[q] /\ max'[q] = max[q]
            \/ counter'[q] \notin {"read", "ok"} /\ max'[q] = 0
      BY <1>0, <2>1, <2>2, <2>3
    <3> QED BY <2>2, <3>1, <3>2, IssuedCovers
  <2> QED BY <1>9, <2>2, <2>4, <2>5, <2>6, ExposedKeeps
<1>10. ASSUME Next, NEW i \in Id, DeleteMovie(i) PROVE BootInv'
  <2>1. /\ i \in movies /\ movies' = movies \ {i} /\ deleted' = deleted \cup {i}
        /\ UNCHANGED <<seq, pc, todo, late, counter, max, num, lateUpserts, overwritten>>
    BY <1>10 DEF DeleteMovie
  <2>2. TypeOK' /\ exposed \subseteq exposed' /\ exposed' \in SUBSET SeedIds
    BY <1>10, <2>1, ExposedGrows DEF TypeOK
  <2>3. Numbered' /\ FromCounter' /\ Reads'
    BY <2>1, <2>2 DEF Numbered, FromCounter, Reads, Covered
  <2>4. Fresh'
    <3>1. AtHand' = AtHand
      BY <2>1 DEF AtHand
    <3>2. i \in AtHand => i \in SeedIds
      BY <2>1 DEF Fresh, TypeOK
    <3> QED BY <2>1, <2>2, <3>1, <3>2 DEF Fresh
  <2>5. OnlyExposedReplaced' /\ DeletedStaysDeleted'
    BY <2>1, <2>2 DEF OnlyExposedReplaced, DeletedStaysDeleted
  <2> QED BY <1>10, <2>2, <2>3, <2>4, <2>5, ExposedKeeps
<1>11. ASSUME Next, NEW p \in Proc, Crash(p) PROVE BootInv'
  <2>1. /\ pc' \in [Proc -> {"down", "count", "insert", "serve"}]
        /\ todo' \in [Proc -> SUBSET SeedIds] /\ late' \in SUBSET SeedIds
        /\ UNCHANGED deleted /\ GiveUp(p)
    BY <1>11 DEF Crash, Abandon, Goto, TypeOK
  <2>2. /\ counter' = [counter EXCEPT ![p] = "new"] /\ max' = [max EXCEPT ![p] = 0]
        /\ num' = [num EXCEPT ![p] = 0]
    BY <1>11 DEF Crash, Forget, GiveUp
  <2>3. seq' \in 0..MaxId /\ seq <= seq'
    BY <1>11, RaiseRaises DEF Crash
  <2>4. PICK W \in SUBSET AtHand :
          /\ W \subseteq 1..seq
          /\ movies' = movies \cup W /\ overwritten' = overwritten \cup (W \cap movies)
          /\ AtHand' \subseteq AtHand \ W
    BY <2>1, GivenUp
  <2>5. /\ lateUpserts' \in SUBSET Id /\ lateUpserts' \subseteq 1..seq
        /\ lateUpserts' \subseteq lateUpserts \cup {num[p]}
    BY <2>1, GivenUp
  <2>6. TypeOK' /\ exposed \subseteq exposed'
    <3>1. W \subseteq Id
      BY <2>4 DEF AtHand, TypeOK
    <3>2. exposed \subseteq exposed' /\ exposed' \in SUBSET SeedIds
      BY <1>11, <2>1, ExposedGrows DEF TypeOK
    <3> QED BY <2>1, <2>2, <2>3, <2>4, <2>5, <3>1, <3>2, MaxIdAssumption DEF TypeOK
  <2>7. Numbered'
    BY <2>2, <2>3, <2>5, MaxIdAssumption DEF Numbered, TypeOK
  <2>8. FromCounter' /\ Fresh' /\ OnlyExposedReplaced' /\ DeletedStaysDeleted'
    BY <2>1, <2>3, <2>4, <2>6, WritesKeep
  <2>9. Reads'
    <3>1. (\A i \in movies' : i \in movies \/ i <= seq) /\ seq <= seq'
      <4>1. \A i \in W : i <= seq
        BY <1>0, <2>4
      <4> QED BY <2>3, <2>4, <4>1
    <3>2. \A q \in Proc :
            \/ counter'[q] = counter[q] /\ max'[q] = max[q]
            \/ counter'[q] \notin {"read", "ok"} /\ max'[q] = 0
      BY <1>0, <2>2, <2>3, <2>4, <2>6
    <3> QED BY <2>6, <3>1, <3>2, IssuedCovers
  <2> QED BY <1>11, <2>6, <2>7, <2>8, <2>9, ExposedKeeps
<1>12. ASSUME Next, NEW p \in Proc, CreateMovieFails(p) PROVE BootInv'
  <2>1. /\ GiveUp(p) /\ num' = [num EXCEPT ![p] = 0]
        /\ UNCHANGED <<seq, pc, todo, late, counter, max, deleted>>
    BY <1>12 DEF CreateMovieFails, GiveUp
  <2>2. PICK W \in SUBSET AtHand :
          /\ W \subseteq 1..seq
          /\ movies' = movies \cup W /\ overwritten' = overwritten \cup (W \cap movies)
          /\ AtHand' \subseteq AtHand \ W
    BY <2>1, GivenUp
  <2>3. /\ lateUpserts' \in SUBSET Id /\ lateUpserts' \subseteq 1..seq
        /\ lateUpserts' \subseteq lateUpserts \cup {num[p]}
    BY <2>1, GivenUp
  <2>4. TypeOK' /\ exposed \subseteq exposed'
    <3>1. W \subseteq Id
      BY <2>2 DEF AtHand, TypeOK
    <3>2. exposed \subseteq exposed' /\ exposed' \in SUBSET SeedIds
      BY <1>12, <2>1, ExposedGrows DEF TypeOK
    <3> QED BY <2>1, <2>2, <2>3, <3>1, <3>2 DEF TypeOK
  <2>5. Numbered'
    BY <2>1, <2>3 DEF Numbered, TypeOK
  <2>6. FromCounter' /\ Fresh' /\ OnlyExposedReplaced' /\ DeletedStaysDeleted'
    BY <1>0, <2>1, <2>2, <2>4, WritesKeep
  <2>7. Reads'
    <3>1. (\A i \in movies' : i \in movies \/ i <= seq) /\ seq <= seq'
      <4>1. \A i \in W : i <= seq
        BY <1>0, <2>2
      <4>2. seq <= seq'
        BY <1>0, <2>1
      <4> QED BY <2>2, <4>1, <4>2
    <3>2. \A q \in Proc :
            \/ counter'[q] = counter[q] /\ max'[q] = max[q]
            \/ counter'[q] \notin {"read", "ok"} /\ max'[q] = 0
      BY <2>1
    <3> QED BY <2>4, <3>1, <3>2, IssuedCovers
  <2> QED BY <1>12, <2>4, <2>5, <2>6, <2>7, ExposedKeeps
<1>13. ASSUME Next, NEW i \in Id, LateUpsert(i) PROVE BootInv'
  <2>1. /\ i \in lateUpserts /\ lateUpserts' = lateUpserts \ {i}
        /\ movies' = movies \cup {i} /\ overwritten' = overwritten \cup ({i} \cap movies)
        /\ UNCHANGED <<seq, pc, todo, late, counter, max, num, deleted>>
    BY <1>13 DEF LateUpsert, Upsert
  <2>2. TypeOK' /\ exposed \subseteq exposed'
    BY <1>13, <2>1, ExposedGrows DEF TypeOK
  <2>3. {i} \subseteq 1..seq /\ {i} \in SUBSET AtHand /\ AtHand' \subseteq AtHand \ {i}
    BY <2>1, MaxIdAssumption DEF Numbered, AtHand, TypeOK, Id
  <2>4. Numbered'
    BY <2>1 DEF Numbered
  <2>5. FromCounter' /\ Fresh' /\ OnlyExposedReplaced' /\ DeletedStaysDeleted'
    <3>1. UNCHANGED <<seq, deleted>> /\ seq <= seq'
      BY <1>0, <2>1
    <3> QED BY <2>1, <2>2, <2>3, <3>1, WritesKeep
  <2>6. Reads'
    <3>1. (\A id \in movies' : id \in movies \/ id <= seq) /\ seq <= seq'
      BY <1>0, <2>1, <2>2, <2>3
    <3>2. \A q \in Proc :
            \/ counter'[q] = counter[q] /\ max'[q] = max[q]
            \/ counter'[q] \notin {"read", "ok"} /\ max'[q] = 0
      BY <1>0, <2>1, <2>2, <2>3
    <3> QED BY <2>2, <3>1, <3>2, IssuedCovers
  <2> QED BY <1>13, <2>2, <2>4, <2>5, <2>6, ExposedKeeps
<1>14. CASE UNCHANGED vars
  BY <1>14 DEF vars, TypeOK, Numbered, Covered, Numbering, Outstanding, Unseeded, FromCounter,
               Fresh, AtHand, OnlyExposedReplaced, DeletedStaysDeleted
<1> QED
  BY <1>1, <1>2, <1>3, <1>4, <1>5, <1>6, <1>7, <1>8, <1>9, <1>10, <1>11, <1>12, <1>13, <1>14
     DEF Next, Step

\* The inductive invariant holds whatever fails, crashes and restarts at boot.
THEOREM Invariance == Spec => []BootInv
<1>1. Init => BootInv
  BY SeedAssumption, MaxIdAssumption
     DEF Init, BootInv, TypeOK, Numbered, Covered, Numbering, Outstanding, Unseeded, FromCounter,
         Fresh, AtHand, OnlyExposedReplaced, DeletedStaysDeleted
<1> QED BY <1>1, InvStep, PTL DEF Spec
-----------------------------------------------------------------------------
(* The theorems.                                                            *)

\* The variables keep their types.
THEOREM TypeCorrect == Spec => []TypeOK
BY Invariance, PTL DEF BootInv

\* A creation, on time or late, replaces only seeds that were inserted after the
\* largest id was read, or while its upsert was still to come.
THEOREM ExposedReplaced == Spec => []OnlyExposedReplaced
BY Invariance, PTL DEF BootInv

\* A movie that is no seed stays deleted.
THEOREM DeletedStay == Spec => []DeletedStaysDeleted
BY Invariance, PTL DEF BootInv
=============================================================================
