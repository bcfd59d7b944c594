------------------------------ MODULE MCNdjson ------------------------------
(* The parser on all bodies of up to MaxLen bytes. *)
EXTENDS Ndjson
=============================================================================
