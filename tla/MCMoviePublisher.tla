-------------------------- MODULE MCMoviePublisher --------------------------
(* An instance of MoviePublisher: two concurrent requests.                  *)
EXTENDS MoviePublisher

CONSTANTS c1, c2
=============================================================================
