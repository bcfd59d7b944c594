------------------------------ MODULE Envelope ------------------------------
(***************************************************************************)
(* The lines a worker uploads for a job, one JSON object each: chunks of    *)
(* the answer and, at the end, done or error.                               *)
(***************************************************************************)
EXTENDS Naturals

CONSTANT MaxChunks  \* bound: chunk envelopes of one job

\* Chunks are numbered in the order the worker sends them.
Chunk(n) == [type |-> "chunk", n |-> n]
Done     == [type |-> "done", n |-> 0]
Error    == [type |-> "error", n |-> 0]

Envelopes == [type : {"chunk", "done", "error"}, n : 0..MaxChunks]
=============================================================================
