----------------------------- MODULE IdRegistry -----------------------------
(***************************************************************************)
(* What the movie repository promises about ids, with no counter document, *)
(* no sync.Once and no replicas: an id is issued to one creation only, is   *)
(* never the id of a movie the collection already holds, and is stored at   *)
(* most once.  MovieIds implements this specification, and CreateJobs, where *)
(* an id is issued in one step, keeps to it.                                *)
(***************************************************************************)
CONSTANT Id   \* the ids a movie can have

VARIABLES movies,   \* ids of the documents in the movies collection
          issued,   \* ids ever returned by NextID
          pending   \* issued ids whose document has not been written yet

vars == <<movies, issued, pending>>

Init ==
    /\ movies \in SUBSET Id
    /\ issued = {}
    /\ pending = {}

Issue(i) ==
    /\ i \notin issued \cup movies
    /\ issued' = issued \cup {i}
    /\ pending' = pending \cup {i}
    /\ UNCHANGED movies

Store(i) ==
    /\ i \in pending \ movies
    /\ movies' = movies \cup {i}
    /\ pending' = pending \ {i}
    /\ UNCHANGED issued

\* A creation fails, or its process dies with several of them in flight.
Discard(S) ==
    /\ pending' = pending \ S
    /\ UNCHANGED <<movies, issued>>

Remove(i) ==
    /\ movies' = movies \ {i}
    /\ UNCHANGED <<issued, pending>>

Next ==
    \/ \E i \in Id : Issue(i) \/ Store(i) \/ Remove(i)
    \/ \E S \in SUBSET pending : Discard(S)

Spec == Init /\ [][Next]_vars
=============================================================================
