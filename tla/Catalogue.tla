------------------------------ MODULE Catalogue -----------------------------
(***************************************************************************)
(* The collection of movies as clients of the gateway see it: GET and       *)
(* DELETE of an id, creations, and a client that walks the pages of         *)
(* GET /movies while others create and delete.  Calls succeed at once here: *)
(* what may go wrong on their way is in MovieClient and CreateJobs.         *)
(*                                                                         *)
(* Find is one atomic read.  Movies with equal sort keys come in any order, *)
(* and in another order the next time: MongoDB promises none.               *)
(***************************************************************************)
EXTENDS Integers, FiniteSets

CONSTANTS Docs,      \* the movies POST /movies is sent
          Title,     \* of each of them: see TitleText
          Year,      \* of each of them: see YearText
          Seeds,     \* seeded collections: functions from ids to members of Docs
          MaxId,     \* bound on the ids issued
          Paths,     \* the ids clients put into a path, and the pages they jump to
          NaN,       \* a path that is not a number
          Limits,    \* the limits clients ask for
          Filters,   \* what title and year in a query select: subsets of Docs
          Half,      \* 2^31: an int32 is in -Half .. Half - 1
          MaxLimit,  \* largest limit the handler takes, 100
          Batch,     \* documents in the first batch of a cursor, 101
          MaxTitle,  \* maxTitleLength and binding max, 300
          MinYear,   \* minYear, 1888
          FirstYear, \* the year it is at first
          MaxNow     \* bound on the years that pass

(* A title has chars characters in bytes bytes, of which pad are white space *)
(* at its ends; a year is text that Atoi reads as value.  A key stands for   *)
(* the place of the text among others: "+2010" comes before "1999".          *)
TitleText == [key : Nat, chars : Nat, bytes : Nat, pad : Nat]
YearText == [key : Nat, value : Int]
Id == 1..MaxId

ASSUME SizeAssumption ==
    /\ MaxId \in Nat /\ MaxLimit \in Nat /\ Batch \in Nat /\ Half \in Nat \ {0}
    /\ MaxTitle \in Nat /\ MinYear \in Int /\ FirstYear \in Int /\ MaxNow \in Int
    /\ FirstYear <= MaxNow
ASSUME LimitAssumption == MaxLimit <= Batch
ASSUME DocAssumption ==
    /\ Title \in [Docs -> TitleText] /\ Year \in [Docs -> YearText]
    /\ Filters \subseteq SUBSET Docs
ASSUME SeedAssumption ==
    \A seed \in Seeds : DOMAIN seed \subseteq Id /\ \A id \in DOMAIN seed : seed[id] \in Docs
ASSUME PathAssumption == Paths \subseteq Int \cup {NaN} /\ Limits \subseteq Int
ASSUME IdAssumption == MaxId + 1 < Half

VARIABLES
    movies,  \* the collection: a function from the ids it holds to their docs
    nextId,  \* the id the next movie gets
    now,     \* the year
    answer,  \* the answer to a path, if the last step gave one
    walk     \* the client that walks, and history of its walk

vars == <<movies, nextId, now, answer, walk>>
-----------------------------------------------------------------------------
(* Conversions and validation.                                              *)

\* Mutant of Int32: the sign bit is cut off as well.
LowBits(n) == n % Half
\* int32(n) keeps the low 32 bits.
Int32(n) == ((n + Half) % (2 * Half)) - Half

\* A path that is a number, and an id NewMovieID takes.
IdOK(n) == n # NaN /\ Int32(n) > 0

\* Mutant of LimitOK: the handler checks that a limit is positive and no more.
AnyLimit(l) == l >= 1
LimitOK(l) == l \in 1..MaxLimit

PageOK(page) == page # NaN /\ page >= 1
Sorts == {"title", "year"}

\* Mutant of Skip: the first page is taken to be page 0.
SkipFromZero(page, limit) == IF page > 0 THEN page * limit ELSE 0
Skip(page, limit) == IF page > 0 THEN (page - 1) * limit ELSE 0

\* binding:"required,max=300" counts characters ...
BindingOK(doc) == Title[doc].chars \in 1..MaxTitle

\* ... NewMovieTitle counts the bytes that are left after trimming.
TitleOK(title) == title.bytes - title.pad \in 1..MaxTitle
YearOK(year) == year.value \in MinYear..(now + 2)
MovieOK(doc) == TitleOK(Title[doc]) /\ YearOK(Year[doc])
-----------------------------------------------------------------------------
Ids == DOMAIN movies

\* What is read from the collection goes through the domain's validation again.
Readable(id) == MovieOK(movies[id])

\* The ids a walk's filter selects, and the field it is sorted by.
Matching(ids) == {id \in ids : movies[id] \in walk.filter}
SortKey(id) == IF walk.sort = "title" THEN Title[movies[id]].key ELSE Year[movies[id]].key

Upto(n, m) == IF n <= m THEN n ELSE m
First(n, part, whole) ==
    /\ part \subseteq whole
    /\ Cardinality(part) = Upto(n, Cardinality(whole))
    /\ \A x \in part, y \in whole \ part : SortKey(x) <= SortKey(y)

NoAnswer == [op |-> "none", path |-> 0, status |-> 0, id |-> 0]
\* stayed: what matched at the start and was not deleted since; seen: how often
\* each id was listed; born and died: matching movies created and deleted since;
\* tied: some page began or ended among equal sort keys; beyond: what came after the
\* last page when it was read.
NoWalk == [limit |-> 0, page |-> 1, sort |-> "title", filter |-> {}, ended |-> TRUE,
           seen |-> [id \in Id |-> 0], stayed |-> {}, born |-> 0, died |-> 0,
           tied |-> FALSE, beyond |-> 0]
\* The list is cut behind part, between movies with equal sort keys.
Cut(part) == \E id \in part, other \in Matching(Ids) \ part : SortKey(id) = SortKey(other)

\* movies.json holds valid movies only; the counter starts at their largest id.
Init ==
    /\ movies \in Seeds
    /\ nextId \in {id + 1 : id \in Ids \cup {0}} /\ \A id \in Ids : id < nextId
    /\ now = FirstYear
    /\ \A id \in Ids : Readable(id)
    /\ answer = NoAnswer
    /\ walk = NoWalk

\* A path the handler cannot parse, or an id the service refuses.
Refused(op, n, status) == answer' = [op |-> op, path |-> n, status |-> status, id |-> 0]

GetMovie(n) ==
    /\ IF ~IdOK(n)
         THEN Refused("GET", n, 400)
         ELSE answer' = [op |-> "GET", path |-> n, id |-> Int32(n),
                         status |-> IF Int32(n) \notin Ids THEN 404
                                    ELSE IF Readable(Int32(n)) THEN 200 ELSE 500]
    /\ UNCHANGED <<movies, nextId, now, walk>>

\* An id below 1 is an error toGRPCError does not know.
DeleteRefused(n) ==
    /\ ~IdOK(n)
    /\ Refused("DELETE", n, IF n = NaN THEN 400 ELSE 500)
    /\ UNCHANGED <<movies, nextId, now, walk>>

DeleteMissing(n) ==
    /\ IdOK(n) /\ Int32(n) \notin Ids
    /\ answer' = [op |-> "DELETE", path |-> n, status |-> 404, id |-> Int32(n)]
    /\ UNCHANGED <<movies, nextId, now, walk>>

DeleteMovie(n) ==
    /\ IdOK(n) /\ Int32(n) \in Ids
    /\ answer' = [op |-> "DELETE", path |-> n, status |-> 204, id |-> Int32(n)]
    /\ movies' = [id \in Ids \ {Int32(n)} |-> movies[id]]
    /\ walk' = [walk EXCEPT
                 !.stayed = @ \ {Int32(n)},
                 !.died = @ + Cardinality(Matching({Int32(n)}))]
    /\ UNCHANGED <<nextId, now>>

\* A page asked for out of order: the answer bears the page cut to 32 bits.
JumpToPage(n) ==
    /\ PageOK(n)
    /\ answer' = [op |-> "LIST", path |-> n, status |-> 200, id |-> Int32(n)]
    /\ UNCHANGED <<movies, nextId, now, walk>>

ListRefused(n, limit) ==
    /\ ~(PageOK(n) /\ LimitOK(limit))
    /\ Refused("LIST", n, 400)
    /\ UNCHANGED <<movies, nextId, now, walk>>

\* A title that is no regular expression: MongoDB refuses the query, and no layer
\* tells this from an error of its own.
PatternRefused ==
    /\ Refused("LIST", 1, 500)
    /\ UNCHANGED <<movies, nextId, now, walk>>

\* Mutant of CreateMovie: the consumer trusts the handler's binding.
CreateUnchecked(doc) ==
    /\ BindingOK(doc)
    /\ nextId \in Id
    /\ movies' = [id \in Ids \cup {nextId} |-> IF id = nextId THEN doc ELSE movies[id]]
    /\ nextId' = nextId + 1
    /\ walk' = [walk EXCEPT !.born = @ + Cardinality({doc} \cap walk.filter)]
    /\ answer' = NoAnswer
    /\ UNCHANGED now

\* POST /movies up to the upsert of the consumer.
CreateMovie(doc) ==
    /\ BindingOK(doc)
    /\ MovieOK(doc)
    /\ nextId \in Id
    /\ movies' = [id \in Ids \cup {nextId} |-> IF id = nextId THEN doc ELSE movies[id]]
    /\ nextId' = nextId + 1
    /\ walk' = [walk EXCEPT !.born = @ + Cardinality({doc} \cap walk.filter)]
    /\ answer' = NoAnswer
    /\ UNCHANGED now

NewYear ==
    /\ now < MaxNow
    /\ now' = now + 1
    /\ answer' = NoAnswer
    /\ UNCHANGED <<movies, nextId, walk>>

\* A client begins to walk the list it describes, once: a second walk would
\* begin in a collection where the first could have begun as well.
StartWalk(limit, sort, filter) ==
    /\ walk = NoWalk
    /\ LimitOK(limit)
    /\ walk' = [NoWalk EXCEPT !.limit = limit, !.sort = sort, !.filter = filter,
                              !.ended = FALSE,
                              !.stayed = {id \in Ids : movies[id] \in filter}]
    /\ answer' = NoAnswer
    /\ UNCHANGED <<movies, nextId, now>>

\* After skipping the movies before, the cursor yields those of read.  The loop
\* over it ends alike at its end and at an error, which can only come when the
\* first batch was not all.
ListMovies(before, read) ==
    /\ First(Skip(Int32(walk.page), walk.limit), before, Matching(Ids))
    /\ \E page \in SUBSET (Matching(Ids) \ before) :
         /\ First(walk.limit, page, Matching(Ids) \ before)
         /\ read = page \/ First(Batch, read, page)

\* The next page.  A movie that the domain refuses would fail the request.
FetchPage ==
    /\ ~walk.ended /\ PageOK(walk.page)
    /\ \E before \in SUBSET Matching(Ids) : \E read \in SUBSET (Matching(Ids) \ before) :
         /\ ListMovies(before, read)
         /\ \A id \in read : Readable(id)
         /\ walk' = [walk EXCEPT
                      !.page = @ + 1,
                      !.seen = [id \in Id |-> IF id \in read THEN @[id] + 1 ELSE @[id]],
                      !.tied = @ \/ Cut(before) \/ Cut(before \cup read),
                      !.ended = Cardinality(read) < walk.limit,
                      !.beyond = Cardinality(Matching(Ids) \ (before \cup read))]
    /\ answer' = NoAnswer
    /\ UNCHANGED <<movies, nextId, now>>

Next ==
    \/ \E n \in Paths : \/ GetMovie(n) \/ DeleteRefused(n) \/ DeleteMissing(n)
                        \/ DeleteMovie(n) \/ JumpToPage(n)
                        \/ \E limit \in Limits : ListRefused(n, limit)
    \/ \E doc \in Docs : CreateMovie(doc)
    \/ NewYear \/ PatternRefused
    \/ \E limit \in Limits, sort \in Sorts, filter \in Filters : StartWalk(limit, sort, filter)
    \/ FetchPage

Spec == Init /\ [][Next]_vars
-----------------------------------------------------------------------------
Walk == [limit : Int, page : Nat, sort : Sorts, filter : SUBSET Docs, ended : BOOLEAN,
         seen : [Id -> Nat], stayed : SUBSET Id, born : Nat, died : Nat,
         tied : BOOLEAN, beyond : Nat]
TypeOK ==
    /\ Ids \subseteq Id /\ \A id \in Ids : movies[id] \in Docs
    /\ nextId \in 1..(MaxId + 1) /\ \A id \in Ids : id < nextId
    /\ now \in FirstYear..MaxNow
    /\ answer.op \in {"none", "GET", "DELETE", "LIST"}
    /\ answer.status \in {0, 200, 204, 400, 404, 500}
    \* the id of an answer is the path's, up to a multiple of 2^32
    /\ answer.id \in -Half..(Half - 1)
    /\ answer.path # NaN /\ answer.id # 0 => (answer.path - answer.id) % (2 * Half) = 0
    /\ walk \in Walk /\ walk.stayed \subseteq Ids
    /\ ~walk.ended => walk.limit \in 1..MaxLimit

\* Every movie in the collection passes the domain's validation when it is read
\* back: one that does not would fail the GET of it and every page it is on,
\* whoever asks and for as long as it is stored (ToDomain in GetMovieByID and
\* ListMovies).
StoredIsReadable == \A id \in Ids : Readable(id)

\* A page with fewer movies than its limit is the last one: a client may stop
\* there although ListMovies never looks at the error that ends a cursor.
ShortPageEnds == walk.ended => walk.beyond = 0

\* A client that walked all pages missed, of the movies that were there all the
\* time, at most as many as matching movies were deleted meanwhile (each moves the
\* rest up by one), and was shown movies again at most as many times as movies
\* were created meanwhile, if no page was cut among movies with equal sort keys:
\* equal keys elsewhere in the list do no harm.
Missed == {id \in walk.stayed : walk.seen[id] = 0}
Repeated == UNION {{id} \X (2..walk.seen[id]) : id \in Id}
WalkFollowsChanges ==
    ~walk.tied => /\ walk.ended => Cardinality(Missed) <= walk.died
                  /\ Cardinality(Repeated) <= walk.born

\* The inductive invariant.  Between two pages the walk stands behind Offset
\* movies.  A deletion lets one movie slip from behind that place to before it,
\* and a creation pushes one back: the walk will miss the first, or see the second
\* again.  Places are counted in one order of the list, in which the older of two
\* movies that sort alike is first; pages follow it wherever they are not cut
\* between such movies.
Offset == (walk.page - 1) * walk.limit
Precedes(id, other) ==
    SortKey(id) < SortKey(other) \/ (SortKey(id) = SortKey(other) /\ id < other)
Ahead(id) == {other \in Matching(Ids) : Precedes(other, id)}
Rank(id) == Cardinality(Ahead(id))

Shown == {id \in Matching(Ids) : walk.seen[id] > 0}
Slipped == {id \in walk.stayed : walk.seen[id] = 0 /\ Rank(id) < Offset}
Returning == {id \in Shown : Rank(id) >= Offset}

WalkSound ==
    /\ walk.page >= 1 /\ walk.limit \in 0..MaxLimit
    /\ ~walk.ended => walk.page <= MaxId + 1
    /\ walk.stayed \subseteq Matching(Ids)
    /\ \A id \in Id : id >= nextId => walk.seen[id] = 0

ChangesCover ==
    ~walk.tied => /\ IsFiniteSet(Repeated)
                  /\ Cardinality(Slipped) <= walk.died
                  /\ Cardinality(Repeated) + Cardinality(Returning) <= walk.born

CatalogueInv ==
    /\ TypeOK
    /\ StoredIsReadable
    /\ ShortPageEnds
    /\ WalkSound
    /\ ChangesCover
    /\ WalkFollowsChanges
=============================================================================
