-------------------------- MODULE Catalogue_proofs --------------------------
(* Proofs about Catalogue, for collections, limits and batches of any size:  *)
(* stored movies stay readable, short pages are the last, every variable     *)
(* keeps its type, and a walk through the pages misses and repeats no more   *)
(* movies than were deleted and created meanwhile.                           *)
(*                                                                           *)
(* CatalogueInv is preserved in two halves.  ReadInv is about what is read   *)
(* back, and preserved by itself.  WalkPart is about the places of movies in *)
(* the list: it needs the types of the state before and after a step.        *)
EXTENDS Catalogue, FiniteSetTheorems, TLAPS

\* What the two theorems need of the types: ids are few enough to count, the
\* clock shows a year, and a walk has a limit the handler took.
Sound ==
    /\ Ids \subseteq Id
    /\ now \in Int
    /\ walk \in Walk
    /\ ~walk.ended => walk.limit \in 1..MaxLimit

ReadInv == Sound /\ StoredIsReadable /\ ShortPageEnds

\* A set that is a first part of another, and smaller than it had to be, is all
\* of it.
LEMMA SmallFirstIsAll ==
    ASSUME NEW n \in Nat, NEW part, NEW whole, IsFiniteSet(whole),
           First(n, part, whole), Cardinality(part) < n
    PROVE  part = whole
<1>1. Cardinality(part) \in Nat /\ Cardinality(whole) \in Nat
  BY FS_Subset, FS_CardinalityType DEF First
<1>2. Cardinality(part) = Cardinality(whole)
  BY <1>1 DEF First, Upto
<1> QED BY <1>2, FS_Subset DEF First

\* ListMovies answers fewer movies than the limit only when there are no more: a
\* cursor that broke off had yielded its first batch, which is no smaller.
LEMMA ShortPageIsAll ==
    ASSUME Sound, walk.limit \in 1..MaxLimit, NEW before, NEW read,
           ListMovies(before, read), Cardinality(read) < walk.limit
    PROVE  read = Matching(Ids) \ before
<1> DEFINE rest == Matching(Ids) \ before
<1>1. IsFiniteSet(rest)
  <2>1. IsFiniteSet(Id)
    BY FS_Interval, SizeAssumption DEF Id
  <2>2. rest \subseteq Id
    BY DEF Sound, Matching
  <2> QED BY <2>1, <2>2, FS_Subset
<1>2. PICK page \in SUBSET rest : /\ First(walk.limit, page, rest)
                                  /\ read = page \/ First(Batch, read, page)
  BY DEF ListMovies
<1>3. walk.limit \in Nat /\ Batch \in Nat /\ walk.limit <= Batch
  BY SizeAssumption, LimitAssumption
<1>4. IsFiniteSet(page) /\ IsFiniteSet(read)
  BY <1>1, <1>2, FS_Subset DEF First
<1>5. read = page
  <2>1. Cardinality(read) \in Nat
    BY <1>4, FS_CardinalityType
  <2> QED BY <1>2, <1>3, <1>4, <2>1, SmallFirstIsAll
<1>6. page = rest
  BY <1>1, <1>2, <1>3, <1>5, SmallFirstIsAll
<1> QED BY <1>5, <1>6

\* The ids some filter selects can be counted.
LEMMA FilteredAreFew ==
    ASSUME Sound, NEW S \in SUBSET Ids
    PROVE  IsFiniteSet(S) /\ Cardinality(S) \in Nat
<1>1. IsFiniteSet(Id)
  BY FS_Interval, SizeAssumption DEF Id
<1>2. IsFiniteSet(S)
  BY <1>1, FS_Subset DEF Sound
<1> QED BY <1>2, FS_CardinalityType

\* What FetchPage records of a page that was read.
PageRead(before, read) ==
    /\ ListMovies(before, read)
    /\ walk' = [walk EXCEPT
                 !.page = @ + 1,
                 !.seen = [id \in Id |-> IF id \in read THEN @[id] + 1 ELSE @[id]],
                 !.tied = @ \/ Cut(before) \/ Cut(before \cup read),
                 !.ended = Cardinality(read) < walk.limit,
                 !.beyond = Cardinality(Matching(Ids) \ (before \cup read))]

\* Every step keeps the collection readable and short pages last.
THEOREM InvStep == ReadInv /\ [Next]_vars => ReadInv'
<1> SUFFICES ASSUME ReadInv, [Next]_vars PROVE ReadInv'
  OBVIOUS
<1> USE SizeAssumption DEF ReadInv, Ids
<1>1. ASSUME NEW n \in Paths, DeleteMovie(n) PROVE ReadInv'
  <2>1. Int32(n) \in Ids
    BY <1>1 DEF DeleteMovie
  <2>2. Cardinality(Matching({Int32(n)})) \in Nat
    BY <2>1, FilteredAreFew DEF Matching
  <2>3. walk' \in Walk /\ walk'.ended = walk.ended /\ walk'.limit = walk.limit
        /\ walk'.beyond = walk.beyond
    <3> DEFINE stayed == walk.stayed \ {Int32(n)}
               died == walk.died + Cardinality(Matching({Int32(n)}))
    <3>1. stayed \in SUBSET Id /\ died \in Nat /\ walk \in Walk
      BY <2>2 DEF Sound, Walk
    <3>2. walk' = [walk EXCEPT !.stayed = stayed, !.died = died]
      BY <1>1 DEF DeleteMovie
    <3> HIDE DEF stayed, died
    <3> QED BY <3>1, <3>2 DEF Walk
  <2>4. /\ DOMAIN movies' = Ids \ {Int32(n)} /\ now' = now
        /\ \A id \in DOMAIN movies' : movies'[id] = movies[id]
    BY <1>1 DEF DeleteMovie
  <2> QED
    BY <2>3, <2>4 DEF Sound, StoredIsReadable, ShortPageEnds, Readable, MovieOK, YearOK
<1>2. ASSUME NEW doc \in Docs, CreateMovie(doc) PROVE ReadInv'
  <2>1. Cardinality({doc} \cap walk.filter) \in Nat
    BY FS_Singleton, FS_Subset, FS_CardinalityType
  <2>2. walk' \in Walk /\ walk'.ended = walk.ended /\ walk'.limit = walk.limit
        /\ walk'.beyond = walk.beyond
    BY <1>2, <2>1 DEF CreateMovie, Sound, Walk
  <2>3. /\ DOMAIN movies' = Ids \cup {nextId} /\ nextId \in Id /\ now' = now
        /\ \A id \in DOMAIN movies' : movies'[id] = doc \/ (id \in Ids /\ movies'[id] = movies[id])
        /\ MovieOK(doc)
    BY <1>2 DEF CreateMovie
  <2> QED
    BY <2>2, <2>3 DEF Sound, StoredIsReadable, ShortPageEnds, Readable, MovieOK, YearOK
<1>3. CASE NewYear
  <2>1. Sound' /\ ShortPageEnds'
    BY <1>3 DEF NewYear, Sound, ShortPageEnds
  <2>2. ASSUME NEW y, YearOK(y) PROVE YearOK(y)'
    BY <1>3, <2>2 DEF NewYear, YearOK, Sound
  <2>3. StoredIsReadable'
    BY <1>3, <2>2 DEF NewYear, StoredIsReadable, Readable, MovieOK
  <2> QED BY <2>1, <2>3
<1>4. ASSUME NEW limit \in Limits, NEW sort \in Sorts, NEW filter \in Filters,
             StartWalk(limit, sort, filter)
      PROVE  ReadInv'
  <2>1. limit \in 1..MaxLimit /\ filter \in SUBSET Docs
    BY <1>4, DocAssumption DEF StartWalk, LimitOK
  <2>2. NoWalk \in Walk /\ NoWalk.beyond = 0
    BY DEF NoWalk, Walk, Sorts
  <2>3. /\ walk' = [NoWalk EXCEPT !.limit = limit, !.sort = sort, !.filter = filter,
                                  !.ended = FALSE,
                                  !.stayed = {id \in Ids : movies[id] \in filter}]
        /\ UNCHANGED <<movies, now>>
    BY <1>4 DEF StartWalk
  <2>4. walk' \in Walk /\ walk'.limit \in 1..MaxLimit /\ walk'.ended = FALSE
    <3> DEFINE stayed == {id \in Ids : movies[id] \in filter}
    <3>1. stayed \in SUBSET Id /\ limit \in Int
      BY <2>1 DEF Sound
    <3> HIDE DEF stayed
    <3>2. LET v == [NoWalk EXCEPT !.limit = limit, !.sort = sort, !.filter = filter,
                                  !.ended = FALSE, !.stayed = stayed]
          IN  v \in Walk /\ v.limit = limit /\ v.ended = FALSE
      BY <2>1, <2>2, <3>1 DEF Walk
    <3> QED BY <2>1, <2>3, <3>2 DEF stayed
  <2> QED
    BY <2>3, <2>4 DEF Sound, StoredIsReadable, ShortPageEnds, Readable, MovieOK, YearOK
<1>5. CASE FetchPage
  <2>1. PICK before \in SUBSET Matching(Ids) : \E read \in SUBSET (Matching(Ids) \ before) :
          PageRead(before, read)
    BY <1>5 DEF FetchPage, PageRead
  <2>2. PICK read \in SUBSET (Matching(Ids) \ before) : PageRead(before, read)
    BY <2>1
  <2>3. Cardinality(Matching(Ids) \ (before \cup read)) \in Nat
    BY FilteredAreFew DEF Matching
  <2>4. walk' \in Walk /\ (~walk'.ended => walk'.limit \in 1..MaxLimit)
    <3> DEFINE seen == [id \in Id |-> IF id \in read THEN walk.seen[id] + 1 ELSE walk.seen[id]]
               page == walk.page + 1
               tied == walk.tied \/ Cut(before) \/ Cut(before \cup read)
               ended == Cardinality(read) < walk.limit
               beyond == Cardinality(Matching(Ids) \ (before \cup read))
    <3>1. walk \in Walk /\ page \in Nat /\ seen \in [Id -> Nat]
      BY DEF Sound, Walk
    <3>2. ended \in BOOLEAN /\ tied \in BOOLEAN /\ beyond \in Nat
      BY <2>3
    <3>3. walk' = [walk EXCEPT !.page = page, !.seen = seen, !.tied = tied, !.ended = ended,
                               !.beyond = beyond]
      BY <2>2 DEF PageRead, Sound, Walk
    <3>4. walk.limit \in 1..MaxLimit
      BY <1>5 DEF FetchPage, Sound
    <3> HIDE DEF seen, page, tied, ended, beyond
    <3>5. walk' \in Walk /\ walk'.limit = walk.limit
      BY <3>1, <3>2, <3>3 DEF Walk
    <3> QED BY <3>4, <3>5
  <2>5. ShortPageEnds'
    <3>1. CASE Cardinality(read) < walk.limit
      <4>1. Matching(Ids) \ (before \cup read) = {}
        BY <1>5, <2>2, <3>1, ShortPageIsAll DEF FetchPage, PageRead, Sound
      <4> QED BY <2>2, <4>1, FS_EmptySet DEF PageRead, Sound, Walk, ShortPageEnds
    <3>2. CASE ~(Cardinality(read) < walk.limit)
      BY <2>2, <3>2 DEF PageRead, Sound, Walk, ShortPageEnds
    <3> QED BY <3>1, <3>2
  <2>6. Sound' /\ StoredIsReadable'
    BY <1>5, <2>4 DEF FetchPage, Sound, StoredIsReadable, Readable, MovieOK, YearOK
  <2> QED BY <2>5, <2>6
<1>6. CASE \/ \E n \in Paths : \/ GetMovie(n) \/ DeleteRefused(n) \/ DeleteMissing(n)
                               \/ JumpToPage(n)
                               \/ \E limit \in Limits : ListRefused(n, limit)
           \/ PatternRefused \/ UNCHANGED vars
  <2>1. UNCHANGED <<movies, now, walk>>
    BY <1>6 DEF GetMovie, DeleteRefused, DeleteMissing, JumpToPage, ListRefused,
                PatternRefused, vars
  <2> QED BY <2>1 DEF Sound, StoredIsReadable, ShortPageEnds, Readable, MovieOK, YearOK
<1> QED BY <1>1, <1>2, <1>3, <1>4, <1>5, <1>6 DEF Next

\* What is stored can be read back, and pages stay honest, for ever: years only
\* go up and the collection changes only by validated movies.
THEOREM Invariance == Spec => []ReadInv
<1>1. Init => ReadInv
  <2> SUFFICES ASSUME Init PROVE ReadInv
    OBVIOUS
  <2>1. NoWalk \in Walk /\ NoWalk.ended = TRUE /\ NoWalk.beyond = 0
    BY DEF NoWalk, Walk, Sorts
  <2> QED
    BY <2>1, SeedAssumption, SizeAssumption
       DEF Init, ReadInv, Sound, StoredIsReadable, ShortPageEnds, Ids
<1> QED BY <1>1, InvStep, PTL DEF Spec
-----------------------------------------------------------------------------
(* Places in the list, and the walk through it.                             *)

\* What the places of movies in the list are computed from.
Typed ==
    /\ Sound
    /\ nextId \in Int /\ \A id \in Ids : movies[id] \in Docs /\ id < nextId

WalkPart == WalkSound /\ ChangesCover /\ WalkFollowsChanges

\* The remainder by a positive number, its range and what it leaves.
LEMMA Remainder ==
    ASSUME NEW x \in Int, NEW m \in Nat \ {0}
    PROVE  /\ x % m \in 0..(m - 1)
           /\ (x - (x % m)) % m = 0
           /\ x \in 0..(m - 1) => x % m = x
<1>1. x % m \in 0..(m - 1)
  OBVIOUS
<1>2. (x - (x % m)) % m = 0
  OBVIOUS
<1>3. ASSUME x \in 0..(m - 1) PROVE x % m = x
  BY <1>3
<1> QED BY <1>1, <1>2, <1>3

\* int32 keeps a number up to a multiple of 2^32, and small ones as they are.
LEMMA Int32Type ==
    ASSUME NEW n \in Int
    PROVE  /\ Int32(n) \in -Half..(Half - 1)
           /\ (n - Int32(n)) % (2 * Half) = 0
           /\ n \in 1..(Half - 1) => Int32(n) = n
<1> DEFINE m == 2 * Half
           x == n + Half
           r == x % m
<1>1. m \in Nat \ {0} /\ x \in Int /\ Half \in Nat \ {0}
  BY SizeAssumption
<1>2. Int32(n) = r - Half
  BY DEF Int32
<1> HIDE DEF m, x, r
<1>3. r \in 0..(m - 1) /\ (x - r) % m = 0 /\ (x \in 0..(m - 1) => r = x)
  BY <1>1, Remainder DEF r
<1>4. n - Int32(n) = x - r
  BY <1>1, <1>2, <1>3 DEF x
<1>5. Int32(n) \in -Half..(Half - 1)
  BY <1>1, <1>2, <1>3 DEF m
<1>6. ASSUME n \in 1..(Half - 1) PROVE Int32(n) = n
  BY <1>1, <1>2, <1>3, <1>6 DEF m, x
<1> QED BY <1>3, <1>4, <1>5, <1>6 DEF m

\* Places in the list are numbers, of two movies one has the smaller, and it is the
\* one that precedes the other.
LEMMA RankLess ==
    ASSUME Typed
    PROVE  /\ IsFiniteSet(Matching(Ids)) /\ Cardinality(Matching(Ids)) \in 0..MaxId
           /\ \A id \in Matching(Ids) : /\ SortKey(id) \in Nat /\ id \in Nat
                                        /\ IsFiniteSet(Ahead(id)) /\ Rank(id) \in Nat
           /\ \A id, other \in Matching(Ids) :
                  /\ Precedes(id, other) => Rank(id) < Rank(other)
                  /\ id # other => Precedes(id, other) \/ Precedes(other, id)
<1> DEFINE M == Matching(Ids)
<1>1. IsFiniteSet(M) /\ Cardinality(M) \in 0..MaxId
  <2>1. IsFiniteSet(Id) /\ Cardinality(Id) = MaxId
    BY FS_Interval, SizeAssumption DEF Id
  <2>2. M \subseteq Id
    BY DEF Typed, Sound, Matching
  <2> QED BY <2>1, <2>2, FS_Subset, FS_CardinalityType, SizeAssumption
<1>2. \A id \in M : SortKey(id) \in Nat /\ id \in Nat
  BY DocAssumption, SizeAssumption DEF Typed, Sound, Id, Matching, SortKey, TitleText, YearText
<1>3. \A id \in M : IsFiniteSet(Ahead(id)) /\ Rank(id) \in Nat
  <2> SUFFICES ASSUME NEW id \in M PROVE IsFiniteSet(Ahead(id)) /\ Rank(id) \in Nat
    OBVIOUS
  <2>1. Ahead(id) \subseteq M
    BY DEF Ahead
  <2> QED BY <1>1, <2>1, FS_Subset, FS_CardinalityType DEF Rank
<1>4. ASSUME NEW id \in M, NEW other \in M, Precedes(id, other)
      PROVE  Rank(id) < Rank(other)
  <2>1. Ahead(id) \cup {id} \subseteq Ahead(other) /\ id \notin Ahead(id)
    BY <1>2, <1>4 DEF Ahead, Precedes
  <2>2. Cardinality(Ahead(id) \cup {id}) = Rank(id) + 1
    BY <1>3, <2>1, FS_AddElement DEF Rank
  <2>3. Cardinality(Ahead(id) \cup {id}) <= Rank(other)
    BY <1>3, <2>1, FS_Subset DEF Rank
  <2> QED BY <1>3, <1>4, <2>2, <2>3
<1>5. \A id, other \in M : id # other => Precedes(id, other) \/ Precedes(other, id)
  BY <1>2 DEF Precedes
<1> QED BY <1>1, <1>2, <1>3, <1>4, <1>5

\* One movie at most has a given place.
LEMMA RankUnique ==
    ASSUME Typed, NEW id \in Matching(Ids), NEW other \in Matching(Ids), Rank(id) = Rank(other)
    PROVE  id = other
<1>1. Rank(id) \in Nat /\ ~Precedes(id, other) /\ ~Precedes(other, id)
  BY RankLess
<1> QED BY <1>1, RankLess

\* The first n movies, if they are not cut off among equal sort keys, are those with
\* the places below n.
LEMMA FirstByRank ==
    ASSUME Typed, NEW n \in Nat, NEW part, First(n, part, Matching(Ids)), ~Cut(part)
    PROVE  part = {id \in Matching(Ids) : Rank(id) < n}
<1> DEFINE M == Matching(Ids)
<1>1. IsFiniteSet(M) /\ IsFiniteSet(part) /\ Cardinality(part) \in Nat /\ Cardinality(M) \in Nat
  BY RankLess, FS_Subset, FS_CardinalityType DEF First
<1>2. Cardinality(part) <= n
  BY <1>1 DEF First, Upto
<1>3. ASSUME NEW id \in part PROVE Rank(id) < n
  <2>1. Ahead(id) \subseteq part \ {id}
    <3> SUFFICES ASSUME NEW other \in Ahead(id) PROVE other \in part \ {id}
      OBVIOUS
    <3>1. other \in M /\ Precedes(other, id) /\ id \in M
      BY DEF Ahead, First
    <3>2. /\ SortKey(other) \in Nat /\ SortKey(id) \in Nat
          /\ other \in Nat /\ id \in Nat
      BY <3>1, RankLess
    <3>3. other # id /\ SortKey(other) <= SortKey(id)
      BY <3>1, <3>2 DEF Precedes
    <3>4. other \notin part => SortKey(id) <= SortKey(other) /\ SortKey(id) # SortKey(other)
      BY <3>1 DEF First, Cut
    <3> QED BY <3>2, <3>3, <3>4
  <2>2. /\ Cardinality(part \ {id}) = Cardinality(part) - 1
        /\ IsFiniteSet(part \ {id})
    BY <1>1, FS_RemoveElement
  <2>3. Rank(id) <= Cardinality(part) - 1
    BY <2>1, <2>2, FS_Subset DEF Rank
  <2>4. Rank(id) \in Nat
    BY RankLess DEF First
  <2> QED BY <1>1, <1>2, <2>3, <2>4
<1>4. ASSUME NEW id \in M, id \notin part PROVE ~(Rank(id) < n)
  <2>1. part \subseteq Ahead(id)
    <3> SUFFICES ASSUME NEW x \in part PROVE x \in Ahead(id)
      OBVIOUS
    <3>1. x \in M /\ SortKey(x) <= SortKey(id) /\ SortKey(x) # SortKey(id)
      BY <1>4 DEF First, Cut
    <3>2. SortKey(x) \in Nat /\ SortKey(id) \in Nat
      BY <3>1, RankLess
    <3> QED BY <3>1, <3>2 DEF Ahead, Precedes
  <2>2. Cardinality(part) <= Rank(id) /\ Rank(id) \in Nat
    BY <2>1, RankLess, FS_Subset DEF Rank
  <2>3. Cardinality(part) = n
    <3>1. part # M
      BY <1>4
    <3>2. Cardinality(part) # Cardinality(M)
      BY <1>1, <3>1, FS_Subset DEF First
    <3> QED BY <1>1, <3>2 DEF First, Upto
  <2> QED BY <2>2, <2>3
<1> QED BY <1>3, <1>4 DEF First

\* The first movies and the first of the rest are the first of all.
LEMMA FirstOfRest ==
    ASSUME Typed, NEW n \in Nat, NEW k \in Nat, NEW before, NEW page,
           First(n, before, Matching(Ids)), First(k, page, Matching(Ids) \ before)
    PROVE  /\ First(n + k, before \cup page, Matching(Ids))
           /\ Cardinality(before \cup page) = Cardinality(before) + Cardinality(page)
<1> DEFINE M == Matching(Ids)
<1>1. /\ IsFiniteSet(M) /\ Cardinality(M) \in Nat
      /\ \A x \in M : SortKey(x) \in Nat
  BY RankLess
<1>2. /\ before \subseteq M /\ page \subseteq M \ before
      /\ IsFiniteSet(before) /\ IsFiniteSet(page) /\ IsFiniteSet(M \ before)
      /\ Cardinality(before) \in Nat /\ Cardinality(page) \in Nat
  BY <1>1, FS_Subset, FS_CardinalityType DEF First
<1>3. Cardinality(M \ before) = Cardinality(M) - Cardinality(before)
  <2>1. M \cap before = before
    BY <1>2
  <2> QED BY <1>1, <2>1, FS_Difference
<1>4. Cardinality(before \cup page) = Cardinality(before) + Cardinality(page)
  <2>1. before \cap page = {}
    BY <1>2
  <2> QED BY <1>2, <2>1, FS_Union, FS_EmptySet
<1>5. Cardinality(before) = Upto(n, Cardinality(M))
      /\ Cardinality(page) = Upto(k, Cardinality(M \ before))
  BY DEF First
<1>6. Cardinality(before \cup page) = Upto(n + k, Cardinality(M))
  BY <1>1, <1>2, <1>3, <1>4, <1>5 DEF Upto
<1>7. ASSUME NEW x \in before \cup page, NEW y \in M \ (before \cup page)
      PROVE  SortKey(x) <= SortKey(y)
  BY <1>2, <1>7 DEF First
<1> QED BY <1>2, <1>4, <1>6, <1>7 DEF First
-----------------------------------------------------------------------------
\* Ids go up, and the collection holds only those issued.
LEMMA StockStep ==
    ASSUME TypeOK, [Next]_vars
    PROVE  /\ nextId' \in 1..(MaxId + 1)
           /\ \A id \in DOMAIN movies' : movies'[id] \in Docs /\ id < nextId'
<1> DEFINE Stock == /\ nextId' \in 1..(MaxId + 1)
                    /\ \A id \in DOMAIN movies' : movies'[id] \in Docs /\ id < nextId'
<1>1. ASSUME NEW n \in Paths, DeleteMovie(n) PROVE Stock
  BY <1>1 DEF DeleteMovie, TypeOK, Ids
<1>2. ASSUME NEW doc \in Docs, CreateMovie(doc) PROVE Stock
  <2>1. nextId \in 1..MaxId /\ nextId' = nextId + 1
    BY <1>2 DEF CreateMovie, Id
  <2>2. /\ DOMAIN movies' = Ids \cup {nextId}
        /\ \A id \in Ids \cup {nextId} :
               movies'[id] = IF id = nextId THEN doc ELSE movies[id]
    BY <1>2 DEF CreateMovie
  <2>3. \A id \in Ids : id \in Int /\ id < nextId /\ movies[id] \in Docs
    BY SizeAssumption DEF TypeOK, Id
  <2>4. \A id \in DOMAIN movies' : movies'[id] \in Docs /\ id < nextId'
    BY <2>1, <2>2, <2>3
  <2>5. nextId' \in 1..(MaxId + 1)
    BY <2>1, SizeAssumption
  <2> QED BY <2>4, <2>5
<1>3. ASSUME UNCHANGED <<movies, nextId>> PROVE Stock
  BY <1>3 DEF TypeOK, Ids
<1>4. ASSUME NEW n \in Paths,
             \/ GetMovie(n) \/ DeleteRefused(n) \/ DeleteMissing(n) \/ JumpToPage(n)
             \/ \E limit \in Limits : ListRefused(n, limit)
      PROVE  UNCHANGED <<movies, nextId>>
  BY <1>4 DEF GetMovie, DeleteRefused, DeleteMissing, JumpToPage, ListRefused
<1>5. ASSUME \/ NewYear \/ PatternRefused \/ FetchPage \/ UNCHANGED vars
             \/ \E limit \in Limits, sort \in Sorts, filter \in Filters :
                    StartWalk(limit, sort, filter)
      PROVE  UNCHANGED <<movies, nextId>>
  BY <1>5 DEF NewYear, PatternRefused, FetchPage, StartWalk, vars
<1> HIDE DEF Stock
<1>6. Stock
  BY <1>1, <1>2, <1>3, <1>4, <1>5 DEF Next
<1> QED BY <1>6 DEF Stock

\* Every variable keeps its type: an answer, for one, speaks of the path's number,
\* up to a multiple of 2^32.
LEMMA TypeStep ==
    ASSUME TypeOK, ReadInv', WalkSound', [Next]_vars
    PROVE  TypeOK'
<1> DEFINE Dated == now' \in FirstYear..MaxNow
           Said == /\ answer'.op \in {"none", "GET", "DELETE", "LIST"}
                   /\ answer'.status \in {0, 200, 204, 400, 404, 500}
                   /\ answer'.id \in -Half..(Half - 1)
                   /\ answer'.path # NaN /\ answer'.id # 0 =>
                        (answer'.path - answer'.id) % (2 * Half) = 0
           Tells(op, n, status) ==
               answer' = [op |-> op, path |-> n, status |-> status, id |-> Int32(n)]
<1>1. ASSUME Dated, Said PROVE TypeOK'
  <2>1. /\ DOMAIN movies' \subseteq Id /\ walk' \in Walk
        /\ ~walk'.ended => walk'.limit \in 1..MaxLimit
    BY DEF ReadInv, Sound, Ids
  <2>2. walk'.stayed \subseteq DOMAIN movies'
    BY DEF WalkSound, Matching, Ids
  <2> QED BY <1>1, <2>1, <2>2, StockStep DEF TypeOK, Ids
<1>2. ASSUME UNCHANGED now PROVE Dated
  BY <1>2 DEF TypeOK
<1>3. 0 \in -Half..(Half - 1)
  BY SizeAssumption
<1>4. ASSUME answer' = NoAnswer PROVE Said
  BY <1>3, <1>4 DEF NoAnswer
<1>5. ASSUME NEW op \in {"GET", "DELETE", "LIST"}, NEW n, NEW status \in {400, 500},
             Refused(op, n, status)
      PROVE  Said
  BY <1>3, <1>5 DEF Refused
<1>6. ASSUME NEW op \in {"GET", "DELETE", "LIST"}, NEW n \in Int,
             NEW status \in {200, 204, 404, 500}, Tells(op, n, status)
      PROVE  Said
  <2>1. Int32(n) \in -Half..(Half - 1) /\ (n - Int32(n)) % (2 * Half) = 0
    BY Int32Type
  <2> QED BY <1>6, <2>1
<1>7. ASSUME NEW n \in Paths, n # NaN PROVE n \in Int
  BY <1>7, PathAssumption
<1> HIDE DEF Dated, Said, Tells
<1>8. ASSUME NEW n \in Paths, GetMovie(n) PROVE TypeOK'
  <2>1. CASE ~IdOK(n)
    BY <1>1, <1>2, <1>5, <1>8, <2>1 DEF GetMovie
  <2>2. CASE IdOK(n)
    <3>1. n \in Int
      BY <1>7, <2>2 DEF IdOK
    <3>2. Tells("GET", n, 404) \/ Tells("GET", n, 200) \/ Tells("GET", n, 500)
      BY <1>8, <2>2 DEF GetMovie, Tells
    <3>3. Said
      BY <1>6, <3>1, <3>2
    <3> QED BY <1>1, <1>2, <1>8, <3>3 DEF GetMovie
  <2> QED BY <2>1, <2>2
<1>9. ASSUME NEW n \in Paths, DeleteRefused(n) PROVE TypeOK'
  BY <1>1, <1>2, <1>5, <1>9 DEF DeleteRefused
<1>10. ASSUME NEW n \in Paths, DeleteMissing(n) PROVE TypeOK'
  <2>1. n \in Int /\ Tells("DELETE", n, 404)
    BY <1>7, <1>10 DEF DeleteMissing, IdOK, Tells
  <2>2. Said
    BY <1>6, <2>1
  <2> QED BY <1>1, <1>2, <1>10, <2>2 DEF DeleteMissing
<1>11. ASSUME NEW n \in Paths, DeleteMovie(n) PROVE TypeOK'
  <2>1. n \in Int /\ Tells("DELETE", n, 204)
    BY <1>7, <1>11 DEF DeleteMovie, IdOK, Tells
  <2>2. Said
    BY <1>6, <2>1
  <2> QED BY <1>1, <1>2, <1>11, <2>2 DEF DeleteMovie
<1>12. ASSUME NEW n \in Paths, JumpToPage(n) PROVE TypeOK'
  <2>1. n \in Int /\ Tells("LIST", n, 200)
    BY <1>7, <1>12 DEF JumpToPage, PageOK, Tells
  <2>2. Said
    BY <1>6, <2>1
  <2> QED BY <1>1, <1>2, <1>12, <2>2 DEF JumpToPage
<1>13. ASSUME NEW n \in Paths, NEW limit \in Limits, ListRefused(n, limit) PROVE TypeOK'
  BY <1>1, <1>2, <1>5, <1>13 DEF ListRefused
<1>14. CASE PatternRefused
  BY <1>1, <1>2, <1>5, <1>14 DEF PatternRefused
<1>15. ASSUME NEW doc \in Docs, CreateMovie(doc) PROVE TypeOK'
  BY <1>1, <1>2, <1>4, <1>15 DEF CreateMovie
<1>16. CASE NewYear
  <2>1. Dated
    BY <1>16, SizeAssumption DEF NewYear, Dated, TypeOK
  <2> QED BY <1>1, <1>4, <1>16, <2>1 DEF NewYear
<1>17. ASSUME NEW limit \in Limits, NEW sort \in Sorts, NEW filter \in Filters,
              StartWalk(limit, sort, filter)
       PROVE  TypeOK'
  BY <1>1, <1>2, <1>4, <1>17 DEF StartWalk
<1>18. CASE FetchPage
  BY <1>1, <1>2, <1>4, <1>18 DEF FetchPage
<1>19. CASE UNCHANGED vars
  <2>1. Said
    BY <1>19 DEF vars, TypeOK, Said
  <2> QED BY <1>1, <1>2, <1>19, <2>1 DEF vars
<1> QED
  BY <1>8, <1>9, <1>10, <1>11, <1>12, <1>13, <1>14, <1>15, <1>16, <1>17, <1>18, <1>19
  DEF Next
-----------------------------------------------------------------------------
\* One element more in a set counts one more at most.
LEMMA OneMore ==
    ASSUME NEW S, IsFiniteSet(S), NEW x, NEW T \in SUBSET (S \cup {x})
    PROVE  /\ IsFiniteSet(T) /\ Cardinality(T) \in Nat /\ Cardinality(S) \in Nat
           /\ Cardinality(T) <= Cardinality(S) + 1
<1>1. /\ IsFiniteSet(S \cup {x})
      /\ Cardinality(S \cup {x}) <= Cardinality(S) + 1
      /\ Cardinality(S) \in Nat
  BY FS_AddElement, FS_CardinalityType
<1>2. IsFiniteSet(T) /\ Cardinality(T) <= Cardinality(S \cup {x})
  BY <1>1, FS_Subset
<1>3. Cardinality(T) \in Nat /\ Cardinality(S \cup {x}) \in Nat
  BY <1>1, <1>2, FS_CardinalityType
<1> QED BY <1>1, <1>2, <1>3

\* What a walk counts can be counted.
LEMMA CountsAreFinite ==
    ASSUME Typed, WalkSound
    PROVE  /\ IsFiniteSet(Slipped) /\ IsFiniteSet(Returning) /\ IsFiniteSet(Missed)
           /\ Cardinality(Slipped) \in Nat /\ Cardinality(Returning) \in Nat
           /\ Cardinality(Missed) \in Nat
           /\ Offset \in Nat
           /\ walk.died \in Nat /\ walk.born \in Nat
<1>1. IsFiniteSet(Matching(Ids))
  BY RankLess
<1>2. /\ Slipped \subseteq Matching(Ids) /\ Returning \subseteq Matching(Ids)
      /\ Missed \subseteq Matching(Ids)
  BY DEF Slipped, Returning, Shown, Missed, WalkSound
<1>3. /\ IsFiniteSet(Slipped) /\ IsFiniteSet(Returning) /\ IsFiniteSet(Missed)
  BY <1>1, <1>2, FS_Subset
<1>4. walk.page - 1 \in Nat /\ walk.limit \in Nat /\ walk.died \in Nat /\ walk.born \in Nat
  BY SizeAssumption DEF Typed, Sound, Walk, WalkSound
<1>5. Offset \in Nat
  BY <1>4 DEF Offset
<1> QED BY <1>3, <1>4, <1>5, FS_CardinalityType

\* A step that leaves the filtered list alone leaves the walk's account alone.
LEMMA UntouchedList ==
    ASSUME Typed, WalkSound, ChangesCover, WalkFollowsChanges,
           Matching(Ids)' = Matching(Ids),
           \A id \in Matching(Ids) : SortKey(id)' = SortKey(id),
           nextId <= nextId', nextId \in Int, nextId' \in Int,
           walk'.page = walk.page, walk'.limit = walk.limit, walk'.ended = walk.ended,
           walk'.stayed = walk.stayed, walk'.seen = walk.seen, walk'.tied = walk.tied,
           walk'.born = walk.born, walk'.died = walk.died
    PROVE  WalkPart'
<1>1. \A id \in Matching(Ids) : Ahead(id)' = Ahead(id)
  BY DEF Ahead, Precedes
<1>2. \A id \in Matching(Ids) : Rank(id)' = Rank(id)
  BY <1>1 DEF Rank
<1>3. Offset' = Offset
  BY DEF Offset
<1>4. Shown' = Shown
  BY DEF Shown
<1>5. Slipped' = Slipped /\ Missed' = Missed /\ Repeated' = Repeated
  BY <1>2, <1>3 DEF Slipped, Missed, Repeated, WalkSound
<1>6. Returning' = Returning
  BY <1>2, <1>3, <1>4 DEF Returning, Shown
<1>7. WalkSound'
  BY DEF WalkSound, Id
<1>8. ChangesCover' /\ WalkFollowsChanges'
  BY <1>5, <1>6 DEF ChangesCover, WalkFollowsChanges
<1> QED BY <1>7, <1>8 DEF WalkPart

\* A movie of the list is deleted: one movie at most comes from behind the walk to
\* before it, the one right behind it.
LEMMA WalkByDelete ==
    ASSUME Typed, Typed', WalkSound, ChangesCover, WalkFollowsChanges,
           NEW n, DeleteMovie(n)
    PROVE  WalkPart'
<1> DEFINE d == Int32(n)
<1>1. /\ d \in Ids /\ Ids' = Ids \ {d} /\ nextId' = nextId
      /\ \A id \in Ids' : movies'[id] = movies[id]
  BY DEF DeleteMovie, Ids
<1>2. /\ walk'.stayed = walk.stayed \ {d}
      /\ walk'.died = walk.died + Cardinality(Matching({d}))
      /\ walk'.filter = walk.filter /\ walk'.sort = walk.sort
      /\ walk'.page = walk.page /\ walk'.limit = walk.limit /\ walk'.ended = walk.ended
      /\ walk'.seen = walk.seen /\ walk'.tied = walk.tied /\ walk'.born = walk.born
  BY DEF DeleteMovie, Typed, Sound, Walk
<1> HIDE DEF d
<1>3. Matching(Ids)' = Matching(Ids) \ {d}
  BY <1>1, <1>2 DEF Matching
<1>4. \A id \in Matching(Ids)' : SortKey(id)' = SortKey(id)
  BY <1>1, <1>2, <1>3 DEF Matching, SortKey
<1>5. CASE d \notin Matching(Ids)
  <2>1. walk'.stayed = walk.stayed /\ Matching(Ids)' = Matching(Ids)
    BY <1>2, <1>3, <1>5 DEF WalkSound
  <2>2. Matching({d}) = {}
    BY <1>1, <1>5 DEF Matching
  <2>3. walk'.died = walk.died
    BY <1>2, <2>2, CountsAreFinite, FS_EmptySet
  <2>4. \A id \in Matching(Ids) : SortKey(id)' = SortKey(id)
    BY <1>4, <2>1
  <2>5. nextId \in Int
    BY DEF Typed
  <2> QED BY <1>1, <1>2, <2>1, <2>3, <2>4, <2>5, UntouchedList
<1>6. CASE d \in Matching(Ids)
  <2>1. walk'.died = walk.died + 1
    <3>1. Matching({d}) = {d}
      BY <1>6 DEF Matching
    <3> QED BY <1>2, <3>1, FS_Singleton
  <2>2. \A id \in Matching(Ids)' : Ahead(id)' = Ahead(id) \ {d}
    BY <1>3, <1>4 DEF Ahead, Precedes
  <2>3. \A id \in Matching(Ids)' : /\ Rank(id) \in Nat /\ Rank(id)' \in Nat
                                   /\ Rank(id)' \in {Rank(id), Rank(id) - 1}
    <3> SUFFICES ASSUME NEW id \in Matching(Ids)'
                 PROVE  /\ Rank(id) \in Nat /\ Rank(id)' \in Nat
                        /\ Rank(id)' \in {Rank(id), Rank(id) - 1}
      OBVIOUS
    <3>1. IsFiniteSet(Ahead(id)) /\ Rank(id) \in Nat
      BY <1>3, RankLess
    <3>2. /\ IsFiniteSet(Ahead(id) \ {d})
          /\ Cardinality(Ahead(id) \ {d}) \in {Rank(id), Rank(id) - 1}
      BY <3>1, FS_RemoveElement DEF Rank
    <3>3. Rank(id)' = Cardinality(Ahead(id) \ {d})
      BY <2>2 DEF Rank
    <3>4. Cardinality(Ahead(id) \ {d}) \in Nat
      BY <3>2, FS_CardinalityType
    <3> QED BY <3>1, <3>2, <3>3, <3>4
  <2>4. Offset' = Offset /\ Offset \in Nat
    BY <1>2, CountsAreFinite DEF Offset
  <2>5. Shown' \subseteq Shown /\ walk'.stayed \subseteq walk.stayed
        /\ walk'.stayed \subseteq Matching(Ids)'
    BY <1>2, <1>3 DEF Shown, WalkSound
  <2>6. WalkSound'
    BY <1>1, <1>2, <2>5 DEF WalkSound
  <2>8. Returning' \subseteq Returning
    BY <2>3, <2>4, <2>5 DEF Returning, Shown
  <2>9. Missed' \subseteq Missed /\ Repeated' = Repeated
    BY <1>2 DEF Missed, Repeated
  <2>7. \E x : Slipped' \subseteq Slipped \cup {x}
    <3>1. ASSUME NEW x \in Slipped' \ Slipped PROVE x \in Matching(Ids) /\ Rank(x) = Offset
      <4>1. /\ x \in walk'.stayed /\ x \in walk.stayed /\ walk.seen[x] = 0
            /\ Rank(x)' < Offset /\ ~(Rank(x) < Offset)
        BY <1>2, <2>4, <2>5, <3>1 DEF Slipped
      <4>2. Rank(x) \in Nat /\ Rank(x)' \in Nat /\ Rank(x)' \in {Rank(x), Rank(x) - 1}
        BY <2>3, <2>5, <4>1
      <4>3. Rank(x) = Offset
        BY <2>4, <4>1, <4>2
      <4> QED BY <4>1, <4>3 DEF WalkSound
    <3>2. ASSUME NEW x \in Slipped' \ Slipped, NEW y \in Slipped' \ Slipped PROVE x = y
      BY <3>1, <3>2, RankUnique
    <3>3. CASE Slipped' \ Slipped = {}
      BY <3>3
    <3>4. CASE Slipped' \ Slipped # {}
      <4>1. PICK x \in Slipped' \ Slipped : TRUE
        BY <3>4
      <4>2. Slipped' \subseteq Slipped \cup {x}
        BY <3>2, <4>1
      <4> QED BY <4>2
    <3> QED BY <3>3, <3>4
  <2>10. ChangesCover' /\ WalkFollowsChanges'
    <3> SUFFICES ASSUME ~walk.tied
                 PROVE  /\ IsFiniteSet(Repeated')
                        /\ Cardinality(Slipped') <= walk'.died
                        /\ Cardinality(Repeated') + Cardinality(Returning') <= walk'.born
                        /\ walk'.ended => Cardinality(Missed') <= walk'.died
                        /\ Cardinality(Repeated') <= walk'.born
      BY <1>2 DEF ChangesCover, WalkFollowsChanges
    <3>1. IsFiniteSet(Repeated) /\ Cardinality(Repeated) \in Nat
      BY FS_CardinalityType DEF ChangesCover
    <3>2. Cardinality(Slipped') <= Cardinality(Slipped) + 1 /\ Cardinality(Slipped') \in Nat
      BY <2>7, CountsAreFinite, OneMore
    <3>3. /\ Cardinality(Returning') <= Cardinality(Returning) /\ Cardinality(Returning') \in Nat
          /\ Cardinality(Missed') <= Cardinality(Missed) /\ Cardinality(Missed') \in Nat
      BY <2>8, <2>9, CountsAreFinite, FS_Subset, FS_CardinalityType
    <3>4. /\ Cardinality(Slipped) <= walk.died
          /\ Cardinality(Repeated) + Cardinality(Returning) <= walk.born
          /\ walk.ended => Cardinality(Missed) <= walk.died
      BY DEF ChangesCover, WalkFollowsChanges
    <3> QED BY <1>2, <2>1, <2>9, <3>1, <3>2, <3>3, <3>4, CountsAreFinite
  <2> QED BY <2>6, <2>10 DEF WalkPart
<1> QED BY <1>5, <1>6

\* A movie is created: if it is one of the list, it pushes one movie at most from
\* before the walk to behind it.
LEMMA WalkByCreate ==
    ASSUME Typed, Typed', WalkSound, ChangesCover, WalkFollowsChanges,
           NEW doc, CreateMovie(doc)
    PROVE  WalkPart'
<1> DEFINE c == nextId
<1>1. /\ c \in Id /\ c \notin Ids /\ Ids' = Ids \cup {c} /\ nextId' = c + 1
      /\ \A id \in Ids : movies'[id] = movies[id]
      /\ movies'[c] = doc
  BY DEF CreateMovie, Ids, Typed
<1>2. /\ walk'.born = walk.born + Cardinality({doc} \cap walk.filter)
      /\ walk'.filter = walk.filter /\ walk'.sort = walk.sort
      /\ walk'.page = walk.page /\ walk'.limit = walk.limit /\ walk'.ended = walk.ended
      /\ walk'.stayed = walk.stayed
      /\ walk'.seen = walk.seen /\ walk'.tied = walk.tied /\ walk'.died = walk.died
  BY DEF CreateMovie, Typed, Sound, Walk
<1> HIDE DEF c
<1>3. \A id \in Matching(Ids) : SortKey(id)' = SortKey(id)
  BY <1>1, <1>2 DEF Matching, SortKey
<1>4. nextId \in Int /\ nextId' \in Int /\ nextId <= nextId'
  BY <1>1 DEF Typed, c
<1>5. CASE doc \notin walk.filter
  <2>1. Matching(Ids)' = Matching(Ids)
    BY <1>1, <1>2, <1>5 DEF Matching
  <2>2. {doc} \cap walk.filter = {}
    BY <1>5
  <2>3. walk'.born = walk.born
    BY <1>2, <2>2, CountsAreFinite, FS_EmptySet
  <2> QED BY <1>2, <1>3, <1>4, <2>1, <2>3, UntouchedList
<1>6. CASE doc \in walk.filter
  <2>1. walk'.born = walk.born + 1
    <3>1. {doc} \cap walk.filter = {doc}
      BY <1>6
    <3> QED BY <1>2, <3>1, FS_Singleton
  <2>2. Matching(Ids)' = Matching(Ids) \cup {c}
    BY <1>1, <1>2, <1>6 DEF Matching
  <2>3. \A id \in Matching(Ids) : Ahead(id) \subseteq Ahead(id)' /\ Ahead(id)' \subseteq Ahead(id) \cup {c}
    BY <1>3, <2>2 DEF Ahead, Precedes
  <2>4. \A id \in Matching(Ids) : /\ Rank(id) \in Nat /\ Rank(id)' \in Nat
                                  /\ Rank(id)' \in {Rank(id), Rank(id) + 1}
    <3> SUFFICES ASSUME NEW id \in Matching(Ids)
                 PROVE  /\ Rank(id) \in Nat /\ Rank(id)' \in Nat
                        /\ Rank(id)' \in {Rank(id), Rank(id) + 1}
      OBVIOUS
    <3> DEFINE after == Ahead(id)'
    <3>1. IsFiniteSet(Ahead(id)) /\ Rank(id) \in Nat
      BY RankLess
    <3>2. Ahead(id) \subseteq after /\ after \subseteq Ahead(id) \cup {c}
      BY <2>3
    <3>3. Rank(id)' = Cardinality(after)
      BY DEF Rank
    <3> HIDE DEF after
    <3>4. /\ IsFiniteSet(after) /\ Cardinality(after) \in Nat
          /\ Cardinality(after) <= Rank(id) + 1
      BY <3>1, <3>2, OneMore DEF Rank
    <3>5. Rank(id) <= Cardinality(after)
      BY <3>2, <3>4, FS_Subset DEF Rank
    <3> QED BY <3>1, <3>3, <3>4, <3>5
  <2>5. Offset' = Offset /\ Offset \in Nat
    BY <1>2, CountsAreFinite DEF Offset
  <2>6. walk.seen[c] = 0 /\ c \notin walk.stayed /\ c \notin Matching(Ids)
    <3>1. nextId >= nextId
      BY <1>4
    <3> QED BY <1>1, <3>1 DEF WalkSound, Matching, c
  <2>7. Shown' = Shown
    BY <1>2, <2>2, <2>6 DEF Shown
  <2>8. WalkSound'
    <3>1. walk'.stayed \subseteq Matching(Ids)'
      BY <1>2, <2>2 DEF WalkSound
    <3>2. \A id \in Id : id >= nextId' => walk'.seen[id] = 0
      BY <1>2, <1>4 DEF WalkSound, Id
    <3> QED BY <1>2, <3>1, <3>2 DEF WalkSound
  <2>9. Slipped' \subseteq Slipped
    BY <1>2, <2>4, <2>5 DEF Slipped, WalkSound
  <2>10. Missed' = Missed /\ Repeated' = Repeated
    BY <1>2 DEF Missed, Repeated
  <2>11. \E x : Returning' \subseteq Returning \cup {x}
    <3>1. ASSUME NEW x \in Returning' \ Returning
          PROVE  x \in Matching(Ids) /\ Rank(x) = Offset - 1
      <4>1. /\ x \in Shown /\ x \in Matching(Ids)
            /\ Rank(x)' >= Offset /\ ~(Rank(x) >= Offset)
        BY <2>5, <2>7, <3>1 DEF Returning, Shown
      <4>2. Rank(x) \in Nat /\ Rank(x)' \in {Rank(x), Rank(x) + 1}
        BY <2>4, <4>1
      <4> QED BY <2>5, <4>1, <4>2
    <3>2. ASSUME NEW x \in Returning' \ Returning, NEW y \in Returning' \ Returning
          PROVE  x = y
      BY <3>1, <3>2, RankUnique
    <3>3. CASE Returning' \ Returning = {}
      BY <3>3
    <3>4. CASE Returning' \ Returning # {}
      <4>1. PICK x \in Returning' \ Returning : TRUE
        BY <3>4
      <4>2. Returning' \subseteq Returning \cup {x}
        BY <3>2, <4>1
      <4> QED BY <4>2
    <3> QED BY <3>3, <3>4
  <2>12. ChangesCover' /\ WalkFollowsChanges'
    <3> SUFFICES ASSUME ~walk.tied
                 PROVE  /\ IsFiniteSet(Repeated')
                        /\ Cardinality(Slipped') <= walk'.died
                        /\ Cardinality(Repeated') + Cardinality(Returning') <= walk'.born
                        /\ walk'.ended => Cardinality(Missed') <= walk'.died
                        /\ Cardinality(Repeated') <= walk'.born
      BY <1>2 DEF ChangesCover, WalkFollowsChanges
    <3>1. IsFiniteSet(Repeated) /\ Cardinality(Repeated) \in Nat
      BY FS_CardinalityType DEF ChangesCover
    <3>2. Cardinality(Returning') <= Cardinality(Returning) + 1 /\ Cardinality(Returning') \in Nat
      BY <2>11, CountsAreFinite, OneMore
    <3>3. Cardinality(Slipped') <= Cardinality(Slipped) /\ Cardinality(Slipped') \in Nat
      BY <2>9, CountsAreFinite, FS_Subset, FS_CardinalityType
    <3>4. /\ Cardinality(Slipped) <= walk.died
          /\ Cardinality(Repeated) + Cardinality(Returning) <= walk.born
          /\ walk.ended => Cardinality(Missed) <= walk.died
      BY DEF ChangesCover, WalkFollowsChanges
    <3> QED BY <1>2, <2>1, <2>10, <3>1, <3>2, <3>3, <3>4, CountsAreFinite
  <2> QED BY <2>8, <2>12 DEF WalkPart
<1> QED BY <1>5, <1>6

\* A walk that begins has passed nothing and seen nothing.
LEMMA WalkByStart ==
    ASSUME Typed, NEW limit, NEW sort, NEW filter, StartWalk(limit, sort, filter)
    PROVE  WalkPart'
<1>1. /\ limit \in 1..MaxLimit
      /\ walk' = [NoWalk EXCEPT !.limit = limit, !.sort = sort, !.filter = filter,
                                !.ended = FALSE,
                                !.stayed = {id \in Ids : movies[id] \in filter}]
      /\ movies' = movies
  BY DEF StartWalk, LimitOK
<1>2. /\ walk'.page = 1 /\ walk'.limit = limit /\ walk'.filter = filter
      /\ walk'.ended = FALSE /\ walk'.tied = FALSE /\ walk'.born = 0 /\ walk'.died = 0
      /\ walk'.seen = [id \in Id |-> 0]
      /\ walk'.stayed = {id \in Ids : movies[id] \in filter}
  BY <1>1 DEF NoWalk
<1>3. Matching(Ids)' = walk'.stayed
  BY <1>1, <1>2 DEF Matching, Ids
<1>4. Matching(Ids)' \subseteq Id
  BY <1>2, <1>3 DEF Typed, Sound
<1>5. Shown' = {} /\ Returning' = {}
  BY <1>2, <1>4 DEF Shown, Returning
<1>6. Offset' = 0
  BY <1>1, <1>2, SizeAssumption DEF Offset
<1>7. Slipped' = {}
  <2>1. IsFiniteSet(Id)
    BY FS_Interval, SizeAssumption DEF Id
  <2>2. ASSUME NEW id PROVE ~(Rank(id)' < 0)
    <3>1. Ahead(id)' \subseteq Id
      BY <1>4 DEF Ahead
    <3>2. Cardinality(Ahead(id)') \in Nat
      BY <2>1, <3>1, FS_Subset, FS_CardinalityType
    <3> QED BY <3>2 DEF Rank
  <2> QED BY <1>6, <2>2 DEF Slipped
<1>8. Repeated' = {}
  <2>1. \A id \in Id : 2..walk'.seen[id] = {}
    BY <1>2
  <2> QED BY <2>1 DEF Repeated
<1>9. WalkSound'
  BY <1>1, <1>2, <1>3, SizeAssumption DEF WalkSound
<1>10. ChangesCover' /\ WalkFollowsChanges'
  BY <1>2, <1>5, <1>7, <1>8, FS_EmptySet DEF ChangesCover, WalkFollowsChanges
<1> QED BY <1>9, <1>10 DEF WalkPart

\* The page the walk asks for is the one ListMovies answers: its number is small
\* enough for an int32, and a cursor that breaks off has yielded a page's worth.
LEMMA PageCut ==
    ASSUME Typed, WalkSound, ~walk.ended, NEW before, NEW read, ListMovies(before, read)
    PROVE  /\ walk.limit \in Nat \ {0} /\ walk.page \in 1..(MaxId + 1) /\ Offset \in Nat
           /\ First(Offset, before, Matching(Ids))
           /\ First(walk.limit, read, Matching(Ids) \ before)
<1>1. /\ walk.limit \in 1..MaxLimit /\ walk.limit \in Nat \ {0} /\ Batch \in Nat
      /\ walk.limit <= Batch
  BY SizeAssumption, LimitAssumption DEF Typed, Sound
<1>2. walk.page \in 1..(MaxId + 1) /\ walk.page \in 1..(Half - 1) /\ walk.page \in Int
  BY SizeAssumption, IdAssumption DEF Typed, Sound, Walk, WalkSound
<1>3. Skip(Int32(walk.page), walk.limit) = Offset
  <2>1. Int32(walk.page) = walk.page /\ walk.page > 0
    BY <1>2, Int32Type
  <2> QED BY <2>1 DEF Skip, Offset
<1>4. Offset \in Nat
  BY CountsAreFinite
<1>5. PICK page \in SUBSET (Matching(Ids) \ before) :
        /\ First(walk.limit, page, Matching(Ids) \ before)
        /\ read = page \/ First(Batch, read, page)
  BY DEF ListMovies
<1>6. read = page
  <2> SUFFICES ASSUME First(Batch, read, page) PROVE read = page
    BY <1>5
  <2>1. IsFiniteSet(Matching(Ids))
    BY RankLess
  <2>2. IsFiniteSet(Matching(Ids) \ before)
    BY <2>1, FS_Subset
  <2>3. /\ IsFiniteSet(page) /\ Cardinality(page) \in Nat
        /\ Cardinality(Matching(Ids) \ before) \in Nat
    BY <1>5, <2>2, FS_Subset, FS_CardinalityType
  <2>4. Cardinality(page) <= walk.limit
    BY <1>1, <1>5, <2>3 DEF First, Upto
  <2>5. Cardinality(read) = Cardinality(page)
    BY <1>1, <2>3, <2>4 DEF First, Upto
  <2> QED BY <2>3, <2>5, FS_Subset DEF First
<1> QED BY <1>1, <1>2, <1>3, <1>4, <1>5, <1>6 DEF ListMovies

\* A full page comes after full pages, so that there are as many movies as that.
LEMMA FullPages ==
    ASSUME Typed, WalkSound, ~walk.ended, NEW before, NEW read, ListMovies(before, read),
           ~(Cardinality(read) < walk.limit)
    PROVE  walk.page <= MaxId
<1> DEFINE M == Matching(Ids)
           L == walk.limit
           p == walk.page
<1>1. /\ L \in Nat \ {0} /\ p \in Nat \ {0} /\ Offset \in Nat
      /\ First(Offset, before, M) /\ First(L, read, M \ before)
  BY PageCut, SizeAssumption
<1>2. /\ IsFiniteSet(M) /\ Cardinality(M) \in 0..MaxId
      /\ IsFiniteSet(before) /\ Cardinality(before) \in Nat
      /\ IsFiniteSet(M \ before) /\ IsFiniteSet(read) /\ Cardinality(read) \in Nat
  BY <1>1, RankLess, FS_Subset, FS_CardinalityType DEF First
<1>3. read # {}
  BY <1>1, FS_EmptySet
<1>4. before # M
  BY <1>1, <1>3 DEF First
<1>5. Cardinality(before) = Offset
  <2>1. Cardinality(before) # Cardinality(M)
    BY <1>1, <1>2, <1>4, FS_Subset DEF First
  <2> QED BY <1>1, <2>1 DEF First, Upto
<1>6. Cardinality(before \cup read) = Offset + Cardinality(read)
  BY <1>1, <1>5, FirstOfRest
<1>7. before \cup read \subseteq M
  BY <1>1 DEF First
<1>8. Offset + L <= MaxId
  <2>1. Cardinality(before \cup read) <= Cardinality(M)
    BY <1>2, <1>7, FS_Subset
  <2>2. Cardinality(read) >= L
    BY <1>1, <1>2
  <2> QED BY <1>1, <1>2, <1>6, <2>1, <2>2, SizeAssumption
<1>9. p <= Offset + L
  <2>1. Offset = (p - 1) * L
    BY DEF Offset
  <2>2. (p - 1) * L >= p - 1
    <3> DEFINE q == p - 1
    <3>1. q \in Nat
      BY <1>1
    <3> HIDE DEF q, L
    <3>2. q * L >= q
      BY <1>1, <3>1
    <3> QED BY <3>2 DEF q
  <2> QED BY <1>1, <2>1, <2>2
<1> QED BY <1>1, <1>8, <1>9, SizeAssumption

\* The offset of a page is its predecessor's and a limit more.
LEMMA PageAfter ==
    ASSUME NEW p \in Int, NEW L \in Int, NEW q, NEW l, q = p + 1, l = L
    PROVE  (q - 1) * l = (p - 1) * L + L
<1>1. q - 1 = p /\ p - 1 \in Int
  OBVIOUS
<1>2. p * L = (p - 1) * L + L
  OBVIOUS
<1> QED BY <1>1, <1>2

\* A page is read: what was passed stays passed, what is seen again was counted as
\* about to come back, and after the last page all of the list is passed.
LEMMA WalkByPage ==
    ASSUME Typed, WalkSound, ChangesCover, WalkFollowsChanges,
           UNCHANGED <<movies, nextId>>, ~walk.ended,
           NEW before, NEW read, PageRead(before, read)
    PROVE  WalkPart'
<1> DEFINE M == Matching(Ids)
           L == walk.limit
<1>1. /\ L \in Nat \ {0} /\ walk.page \in 1..(MaxId + 1) /\ Offset \in Nat
      /\ First(Offset, before, M) /\ First(L, read, M \ before)
  BY PageCut DEF PageRead
<1>2. /\ walk'.page = walk.page + 1
      /\ walk'.seen = [id \in Id |-> IF id \in read THEN walk.seen[id] + 1 ELSE walk.seen[id]]
      /\ walk'.tied = (walk.tied \/ Cut(before) \/ Cut(before \cup read))
      /\ walk'.ended = (Cardinality(read) < L)
      /\ walk'.limit = L /\ walk'.sort = walk.sort /\ walk'.filter = walk.filter
      /\ walk'.stayed = walk.stayed /\ walk'.born = walk.born /\ walk'.died = walk.died
  BY DEF PageRead, Typed, Sound, Walk
<1>3. Matching(Ids)' = M /\ read \subseteq M /\ before \subseteq M /\ M \subseteq Id
  <2>1. read \subseteq M \ before /\ before \subseteq M
    BY <1>1 DEF First
  <2>2. M \subseteq Id
    BY DEF Typed, Sound, Matching
  <2> QED BY <1>2, <2>1, <2>2 DEF Matching, Ids
<1>4. \A id \in M : SortKey(id)' = SortKey(id)
  BY <1>2 DEF SortKey
<1>5. \A id \in M : Rank(id)' = Rank(id)
  <2>1. \A id \in M : Ahead(id)' = Ahead(id)
    BY <1>3, <1>4 DEF Ahead, Precedes
  <2> QED BY <2>1 DEF Rank
<1>6. \A id \in Id : walk.seen[id] \in Nat
  BY DEF Typed, Sound, Walk
<1>7. Offset' = Offset + L
  <2> DEFINE p == walk.page
             q == walk'.page
             l == walk'.limit
  <2>1. p \in Int /\ L \in Int /\ q = p + 1 /\ l = L
    BY <1>1, <1>2, SizeAssumption
  <2>2. Offset = (p - 1) * L /\ Offset' = (q - 1) * l
    BY DEF Offset
  <2> HIDE DEF p, q, l, L
  <2>3. (q - 1) * l = (p - 1) * L + L
    BY <2>1, PageAfter
  <2> QED BY <2>2, <2>3
<1>8. WalkSound'
  <2>1. walk'.page >= 1 /\ walk'.limit \in 0..MaxLimit
    BY <1>1, <1>2, SizeAssumption DEF WalkSound
  <2>2. ~walk'.ended => walk'.page <= MaxId + 1
    <3> SUFFICES ASSUME ~(Cardinality(read) < L) PROVE walk.page + 1 <= MaxId + 1
      BY <1>2
    <3>1. walk.page <= MaxId
      BY FullPages DEF PageRead
    <3> QED BY <1>1, <3>1, SizeAssumption
  <2>3. walk'.stayed \subseteq Matching(Ids)'
    BY <1>2, <1>3 DEF WalkSound
  <2>4. \A id \in Id : id >= nextId' => walk'.seen[id] = 0
    <3> SUFFICES ASSUME NEW id \in Id, id >= nextId PROVE walk'.seen[id] = 0
      OBVIOUS
    <3>1. id \notin read
      <4>1. id \notin Ids
        BY DEF Typed, Id
      <4> QED BY <1>3, <4>1 DEF Matching
    <3> QED BY <1>2, <3>1 DEF WalkSound
  <2> QED BY <2>1, <2>2, <2>3, <2>4 DEF WalkSound
<1>9. CASE walk'.tied
  BY <1>8, <1>9 DEF WalkPart, ChangesCover, WalkFollowsChanges
<1>10. CASE ~walk'.tied
  <2>1. ~walk.tied /\ ~Cut(before) /\ ~Cut(before \cup read)
    BY <1>2, <1>10
  <2>2. /\ before = {id \in M : Rank(id) < Offset}
        /\ before \cup read = {id \in M : Rank(id) < Offset + L}
    <3>1. First(Offset + L, before \cup read, M)
      BY <1>1, FirstOfRest
    <3>2. Offset + L \in Nat
      BY <1>1
    <3> QED BY <1>1, <2>1, <3>1, <3>2, FirstByRank
  <2>3. \A id \in read : ~(Rank(id) < Offset)
    BY <1>1, <2>2 DEF First
  <2>4. Shown' = Shown \cup read
    BY <1>2, <1>3, <1>6 DEF Shown
  <2>6. Slipped' \subseteq Slipped
    <3> SUFFICES ASSUME NEW id \in Slipped' PROVE id \in Slipped
      OBVIOUS
    <3>1. id \in walk.stayed /\ id \in M /\ walk'.seen[id] = 0 /\ Rank(id) < Offset + L
      BY <1>2, <1>5, <1>7 DEF Slipped, WalkSound
    <3>2. id \notin read /\ walk.seen[id] = 0
      BY <1>2, <1>3, <1>6, <3>1
    <3> QED BY <2>2, <3>1, <3>2 DEF Slipped
  <2> DEFINE Again == read \cap Shown
  <2>7. Again \subseteq Returning /\ Returning' \subseteq Returning \ Again
    <3>1. \A id \in M : Rank(id) \in Nat
      BY RankLess
    <3>2. Again \subseteq Returning
      BY <1>1, <1>3, <2>3, <3>1 DEF Returning, Shown
    <3>3. ASSUME NEW id \in Returning' PROVE id \in Returning \ Again
      <4>1. id \in M /\ id \in Shown' /\ Rank(id) >= Offset + L
        BY <1>3, <1>5, <1>7, <3>3 DEF Returning, Shown
      <4>2. id \notin before \cup read
        BY <1>1, <2>2, <3>1, <4>1
      <4>3. id \in Shown /\ Rank(id) >= Offset
        BY <1>1, <2>4, <3>1, <4>1, <4>2
      <4> QED BY <4>2, <4>3 DEF Returning
    <3> QED BY <3>2, <3>3
  <2> DEFINE new == {<<id, walk.seen[id] + 1>> : id \in Again}
  <2>8. Repeated' = Repeated \cup new
    <3>1. \A x : x \in Repeated <=> \E id \in Id : \E k \in 2..walk.seen[id] : x = <<id, k>>
      BY DEF Repeated
    <3>2. \A x : x \in Repeated' <=> \E id \in Id : \E k \in 2..walk'.seen[id] : x = <<id, k>>
      BY DEF Repeated
    <3>3. ASSUME NEW id \in Id, NEW k
          PROVE  k \in 2..walk'.seen[id] <=>
                     k \in 2..walk.seen[id] \/ (id \in Again /\ k = walk.seen[id] + 1)
      <4>1. CASE id \notin read
        BY <1>2, <4>1
      <4>2. CASE id \in read /\ walk.seen[id] = 0
        <5>1. walk'.seen[id] = 1 /\ id \notin Again
          BY <1>2, <4>2 DEF Shown
        <5> QED BY <4>2, <5>1
      <4>3. CASE id \in read /\ walk.seen[id] > 0
        <5>1. walk'.seen[id] = walk.seen[id] + 1 /\ id \in Again /\ walk.seen[id] \in Nat
          BY <1>2, <1>3, <1>6, <4>3 DEF Shown
        <5> QED BY <4>3, <5>1
      <4> QED BY <1>6, <4>1, <4>2, <4>3
    <3>4. \A x : x \in new <=> \E id \in Again : x = <<id, walk.seen[id] + 1>>
      OBVIOUS
    <3>5. Again \subseteq Id
      BY <1>3
    <3> HIDE DEF new, Again
    <3> QED BY <3>1, <3>2, <3>3, <3>4, <3>5
  <2>9. /\ IsFiniteSet(Again) /\ Cardinality(Again) \in Nat
        /\ IsFiniteSet(new) /\ Cardinality(new) \in Nat
        /\ Cardinality(new) <= Cardinality(Again)
    <3>1. IsFiniteSet(Again)
      BY <2>7, CountsAreFinite, FS_Subset
    <3> DEFINE f == [x \in new |-> x[1]]
    <3>2. f \in Injection(new, Again)
      BY DEF Injection, IsInjective
    <3> HIDE DEF f, new, Again
    <3>3. IsFiniteSet(new) /\ Cardinality(new) <= Cardinality(Again)
      BY <3>1, <3>2, FS_Injection
    <3> QED BY <3>1, <3>3, FS_CardinalityType
  <2>10. /\ IsFiniteSet(Repeated) /\ Cardinality(Repeated) \in Nat
         /\ Cardinality(Slipped) <= walk.died
         /\ Cardinality(Repeated) + Cardinality(Returning) <= walk.born
    BY <2>1, FS_CardinalityType DEF ChangesCover
  <2> HIDE DEF new, Again
  <2>11. /\ IsFiniteSet(Repeated') /\ Cardinality(Repeated') \in Nat
         /\ Cardinality(Repeated') <= Cardinality(Repeated) + Cardinality(Again)
    <3>1. /\ IsFiniteSet(Repeated \cup new)
          /\ Cardinality(Repeated \cup new)
               = Cardinality(Repeated) + Cardinality(new) - Cardinality(Repeated \cap new)
      BY <2>9, <2>10, FS_Union
    <3>2. Cardinality(Repeated \cap new) \in Nat
      BY <2>10, FS_Subset, FS_CardinalityType
    <3>3. Cardinality(Repeated \cup new) \in Nat
      BY <3>1, FS_CardinalityType
    <3> QED BY <2>8, <2>9, <2>10, <3>1, <3>2, <3>3
  <2>12. /\ Cardinality(Returning') \in Nat
         /\ Cardinality(Returning') <= Cardinality(Returning) - Cardinality(Again)
    <3>1. IsFiniteSet(Returning)
      BY CountsAreFinite
    <3>2. Returning \cap Again = Again
      BY <2>7
    <3>3. /\ IsFiniteSet(Returning \ Again)
          /\ Cardinality(Returning \ Again) = Cardinality(Returning) - Cardinality(Again)
      BY <3>1, <3>2, FS_Difference
    <3> QED BY <2>7, <3>3, FS_Subset, FS_CardinalityType
  <2>13. Cardinality(Slipped') <= walk.died
    <3>1. Cardinality(Slipped') <= Cardinality(Slipped) /\ Cardinality(Slipped') \in Nat
      BY <2>6, CountsAreFinite, FS_Subset, FS_CardinalityType
    <3> QED BY <2>10, <3>1, CountsAreFinite
  <2>14. walk'.ended => Cardinality(Missed') <= walk.died
    <3> SUFFICES ASSUME Cardinality(read) < L PROVE Cardinality(Missed') <= walk.died
      BY <1>2
    <3>1. read = M \ before
      BY <1>1, RankLess, FS_Subset, SmallFirstIsAll
    <3>2. Missed' \subseteq Slipped
      <4> SUFFICES ASSUME NEW id \in Missed' PROVE id \in Slipped
        OBVIOUS
      <4>1. id \in walk.stayed /\ id \in M /\ walk'.seen[id] = 0
        BY <1>2 DEF Missed, WalkSound
      <4>2. id \notin read /\ walk.seen[id] = 0
        BY <1>2, <1>3, <1>6, <4>1
      <4>3. Rank(id) < Offset
        BY <2>2, <3>1, <4>1, <4>2
      <4> QED BY <4>1, <4>2, <4>3 DEF Slipped
    <3>3. Cardinality(Missed') <= Cardinality(Slipped) /\ Cardinality(Missed') \in Nat
      BY <3>2, CountsAreFinite, FS_Subset, FS_CardinalityType
    <3> QED BY <2>10, <3>3, CountsAreFinite
  <2>15. /\ Cardinality(Repeated') + Cardinality(Returning') <= walk.born
         /\ Cardinality(Repeated') <= walk.born
    BY <2>9, <2>10, <2>11, <2>12, CountsAreFinite
  <2>16. ChangesCover' /\ WalkFollowsChanges'
    BY <1>2, <2>11, <2>13, <2>14, <2>15 DEF ChangesCover, WalkFollowsChanges
  <2> QED BY <1>8, <2>16 DEF WalkPart
<1> QED BY <1>9, <1>10
-----------------------------------------------------------------------------
\* Every step keeps the account of the walk.
LEMMA WalkStep ==
    ASSUME Typed, Typed', WalkPart, [Next]_vars
    PROVE  WalkPart'
<1> USE DEF WalkPart
<1>1. ASSUME NEW n \in Paths, DeleteMovie(n) PROVE WalkPart'
  BY <1>1, WalkByDelete
<1>2. ASSUME NEW doc \in Docs, CreateMovie(doc) PROVE WalkPart'
  BY <1>2, WalkByCreate
<1>3. ASSUME NEW limit \in Limits, NEW sort \in Sorts, NEW filter \in Filters,
             StartWalk(limit, sort, filter)
      PROVE  WalkPart'
  BY <1>3, WalkByStart
<1>4. CASE FetchPage
  <2>1. PICK before \in SUBSET Matching(Ids) : \E read \in SUBSET (Matching(Ids) \ before) :
          PageRead(before, read)
    BY <1>4 DEF FetchPage, PageRead
  <2>2. PICK read \in SUBSET (Matching(Ids) \ before) : PageRead(before, read)
    BY <2>1
  <2>3. ~walk.ended /\ UNCHANGED <<movies, nextId>>
    BY <1>4 DEF FetchPage
  <2> QED BY <2>2, <2>3, WalkByPage
<1>5. ASSUME UNCHANGED <<movies, nextId, walk>> PROVE WalkPart'
  <2>1. Matching(Ids)' = Matching(Ids)
    BY <1>5 DEF Matching, Ids
  <2>2. \A id \in Matching(Ids) : SortKey(id)' = SortKey(id)
    BY <1>5 DEF SortKey
  <2>3. nextId \in Int /\ nextId' \in Int /\ nextId <= nextId'
    BY <1>5 DEF Typed
  <2>4. walk' = walk
    BY <1>5
  <2> QED BY <2>1, <2>2, <2>3, <2>4, UntouchedList
<1>6. ASSUME NEW n \in Paths,
             \/ GetMovie(n) \/ DeleteRefused(n) \/ DeleteMissing(n) \/ JumpToPage(n)
             \/ \E limit \in Limits : ListRefused(n, limit)
      PROVE  UNCHANGED <<movies, nextId, walk>>
  BY <1>6 DEF GetMovie, DeleteRefused, DeleteMissing, JumpToPage, ListRefused
<1>7. ASSUME NewYear \/ PatternRefused \/ UNCHANGED vars
      PROVE  UNCHANGED <<movies, nextId, walk>>
  BY <1>7 DEF NewYear, PatternRefused, vars
<1> HIDE DEF WalkPart
<1> QED BY <1>1, <1>2, <1>3, <1>4, <1>5, <1>6, <1>7 DEF Next

\* A collection nobody walks yet owes nothing.
LEMMA WalkInit ==
    ASSUME Init
    PROVE  WalkPart
<1>1. /\ walk.page = 1 /\ walk.limit = 0 /\ walk.ended = TRUE
      /\ walk.seen = [id \in Id |-> 0] /\ walk.stayed = {}
      /\ walk.born = 0 /\ walk.died = 0 /\ walk.filter = {}
  BY DEF Init, NoWalk
<1>2. Matching(Ids) = {} /\ Missed = {} /\ Slipped = {}
  BY <1>1 DEF Matching, Missed, Slipped
<1>3. Shown = {} /\ Returning = {}
  BY <1>2 DEF Shown, Returning
<1>4. Repeated = {}
  <2>1. \A id \in Id : 2..walk.seen[id] = {}
    BY <1>1
  <2> QED BY <2>1 DEF Repeated
<1>5. WalkSound
  BY <1>1, SizeAssumption DEF WalkSound
<1>6. ChangesCover /\ WalkFollowsChanges
  BY <1>1, <1>2, <1>3, <1>4, FS_EmptySet DEF ChangesCover, WalkFollowsChanges
<1> QED BY <1>5, <1>6 DEF WalkPart

\* The seeded collection and its counter have their types.
LEMMA TypeInit ==
    ASSUME Init
    PROVE  TypeOK
<1>1. /\ Ids \subseteq Id /\ \A id \in Ids : movies[id] \in Docs /\ id < nextId
  BY SeedAssumption DEF Init, Ids
<1>2. nextId \in 1..(MaxId + 1)
  <2>1. PICK id \in Ids \cup {0} : nextId = id + 1
    BY DEF Init
  <2>2. id \in 0..MaxId
    BY <1>1, SizeAssumption DEF Id
  <2> QED BY <2>1, <2>2, SizeAssumption
<1>3. now \in FirstYear..MaxNow
  BY SizeAssumption DEF Init
<1>4. walk \in Walk /\ walk.stayed = {} /\ walk.ended = TRUE
  BY DEF Init, NoWalk, Walk, Sorts
<1>5. /\ answer.op = "none" /\ answer.status = 0 /\ answer.id = 0
      /\ 0 \in -Half..(Half - 1)
  BY SizeAssumption DEF Init, NoAnswer
<1> QED BY <1>1, <1>2, <1>3, <1>4, <1>5 DEF TypeOK

\* The parts of the invariant that the two halves of the argument are about.
LEMMA InvParts ==
    ASSUME CatalogueInv
    PROVE  ReadInv /\ Typed /\ WalkPart
<1>1. ReadInv
  BY SizeAssumption DEF CatalogueInv, TypeOK, ReadInv, Sound
<1>2. Typed
  BY <1>1 DEF CatalogueInv, TypeOK, ReadInv, Typed
<1> QED BY <1>1, <1>2 DEF CatalogueInv, WalkPart

-----------------------------------------------------------------------------
(* The theorems.                                                            *)

\* Every stored movie passes the validation it is read back with, as years go by.
THEOREM StoredReadable == Spec => []StoredIsReadable
BY Invariance, PTL DEF ReadInv

\* A page shorter than its limit is the last, although cursor errors go unseen.
THEOREM ShortPagesEnd == Spec => []ShortPageEnds
BY Invariance, PTL DEF ReadInv

\* The inductive invariant holds of every reachable state.
THEOREM CatalogueInvariant == Spec => []CatalogueInv
<1>1. Init => CatalogueInv
  <2> SUFFICES ASSUME Init PROVE CatalogueInv
    OBVIOUS
  <2>1. StoredIsReadable /\ ShortPageEnds
    BY DEF Init, NoWalk, StoredIsReadable, ShortPageEnds
  <2> QED BY <2>1, TypeInit, WalkInit DEF CatalogueInv, WalkPart
<1>2. CatalogueInv /\ [Next]_vars => CatalogueInv'
  <2> SUFFICES ASSUME CatalogueInv, [Next]_vars PROVE CatalogueInv'
    OBVIOUS
  <2>1. ReadInv /\ Typed /\ WalkPart /\ TypeOK
    BY InvParts DEF CatalogueInv
  <2>2. ReadInv'
    BY <2>1, InvStep
  <2>3. Typed'
    BY <2>1, <2>2, StockStep DEF ReadInv, Typed, Ids
  <2>4. WalkPart'
    BY <2>1, <2>3, WalkStep
  <2>5. TypeOK'
    BY <2>1, <2>2, <2>4, TypeStep DEF WalkPart
  <2> QED BY <2>2, <2>4, <2>5 DEF CatalogueInv, ReadInv, WalkPart
<1> QED BY <1>1, <1>2, PTL DEF Spec

\* The collection, the counter, the clock, the answers and the walk keep their types.
THEOREM TypeCorrect == Spec => []TypeOK
BY CatalogueInvariant, PTL DEF CatalogueInv

\* What a walk through the pages misses or sees twice is covered by the movies
\* deleted and created meanwhile, unless a page was cut among equal sort keys.
THEOREM WalksFollowChanges == Spec => []WalkFollowsChanges
BY CatalogueInvariant, PTL DEF CatalogueInv
=============================================================================
