-------------------------- MODULE CreationPromise ---------------------------
(***************************************************************************)
(* What the asynchronous creation promises its clients, with no queue, no   *)
(* consumer, no worker and no replica: a movie is made for one request and  *)
(* stays that request's, a message makes one movie at most, a job has an    *)
(* outcome only for a message that was sent and is never pending again, and *)
(* what a client is told was so.  CreateJobs implements this specification. *)
(***************************************************************************)
EXTENDS Naturals, FiniteSets

CONSTANTS Req,   \* POST /movies requests
          Id,    \* the ids a movie can have
          None   \* no request

VARIABLES
    post,    \* post[r]: where the POST of request r is
    sent,    \* sent[r]: messages of r that reached the queue
    maker,   \* maker[i]: the request movie i was made for
    movies,  \* ids of the movies there are
    status,  \* status[r]: what r's job record says
    named,   \* named[r]: the movie the record names, or 0
    told     \* told[r]: what the client was told last

vars == <<post, sent, maker, movies, status, named, told>>

Init ==
    /\ post = [r \in Req |-> "new"]
    /\ sent = [r \in Req |-> 0]
    /\ maker = [i \in Id |-> None]
    /\ movies = {}
    /\ status = [r \in Req |-> "pending"]
    /\ named = [r \in Req |-> 0]
    /\ told = [r \in Req |-> "none"]

MadeFor(r) == {i \in Id : maker[i] = r}

Post(r) ==
    /\ post[r] = "new"
    /\ post' = [post EXCEPT ![r] = "publishing"]
    /\ UNCHANGED <<sent, maker, movies, status, named, told>>

\* An attempt to publish, which may be the last one, sends one message or none.
Publish(r) ==
    /\ post[r] = "publishing"
    /\ \E answer \in {"publishing", "accepted", "refused"} : post' = [post EXCEPT ![r] = answer]
    /\ sent' = [sent EXCEPT ![r] = @ + 1] \/ UNCHANGED sent
    /\ UNCHANGED <<maker, movies, status, named, told>>

\* A message of r that has made no movie makes one, under an id of its own.
Make(r, i) ==
    /\ Cardinality(MadeFor(r)) < sent[r]
    /\ maker[i] = None
    /\ maker' = [maker EXCEPT ![i] = r]
    /\ movies' = movies \cup {i}
    /\ UNCHANGED <<post, sent, status, named, told>>

\* The end of a message of r; another message of r may end otherwise.
Complete(r, i) ==
    /\ i \in MadeFor(r)
    /\ status' = [status EXCEPT ![r] = "completed"]
    /\ named' = [named EXCEPT ![r] = i]
    /\ UNCHANGED <<post, sent, maker, movies, told>>

Fail(r) ==
    /\ sent[r] > 0
    /\ status' = [status EXCEPT ![r] = "failed"]
    /\ UNCHANGED <<post, sent, maker, movies, named, told>>

\* A movie may have gone, and the record changed, while a client is answered.
Tell(r, what) ==
    /\ post[r] = "accepted"
    /\ what \in {"pending", "failed"} => status[r] = what
    /\ what \in {"movie", "gone"} => status[r] # "pending"
    /\ what = "movie" => MadeFor(r) \cap movies # {}
    /\ what = "gone" => MadeFor(r) \ movies # {}
    /\ told' = [told EXCEPT ![r] = what]
    /\ UNCHANGED <<post, sent, maker, movies, status, named>>

Remove(i) ==
    /\ movies' = movies \ {i}
    /\ UNCHANGED <<post, sent, maker, status, named, told>>

Next ==
    \/ \E r \in Req : Post(r) \/ Publish(r) \/ Fail(r)
    \/ \E r \in Req, i \in Id : Make(r, i) \/ Complete(r, i)
    \/ \E r \in Req, what \in {"pending", "failed", "movie", "gone", "error"} : Tell(r, what)
    \/ \E i \in Id : Remove(i)

Spec == Init /\ [][Next]_vars
=============================================================================
