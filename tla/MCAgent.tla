------------------------------- MODULE MCAgent -------------------------------
(* Small instances of the worker for TLC: two slugs, two jobs of the first. *)
EXTENDS Agent

CONSTANTS a, b, j1, j2, j3

TwoSlugs == [j \in Jobs |-> IF j = j3 THEN b ELSE a]
=============================================================================
