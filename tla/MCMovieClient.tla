---------------------------- MODULE MCMovieClient ---------------------------
(* Instances of MovieClient: two concurrent requests.                       *)
EXTENDS MovieClient, TLC

CONSTANTS c1, c2

Requests == Permutations({c1, c2})

Get(i)    == [method |-> "GET", id |-> i]
Delete(i) == [method |-> "DELETE", id |-> i]

AnyKind   == {Get("movie"), Delete("movie"), Get("bad")}
Reads     == {Get("movie"), Get("missing"), Get("bad")}
Plain     == {Get("movie")}
=============================================================================
