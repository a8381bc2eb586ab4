---------------------------- MODULE MCIngestLoad ----------------------------
(* An instance of IngestLoad; IngestLoad.cfg gives its flags their values.   *)
EXTENDS IngestLoad
=============================================================================
