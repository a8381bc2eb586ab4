--------------------------- MODULE MCProcessLife ----------------------------
(* An instance of ProcessLife: ProcessLife.cfg names its requests.           *)
EXTENDS ProcessLife
=============================================================================
