------------------------------ MODULE MCSystem -------------------------------
(* Small instances of the whole system for TLC: one worker, two slugs. *)
EXTENDS System

CONSTANTS j1, j2, a, b, w1, pa, pb

OfSlug     == [j \in Jobs |-> IF j = j1 THEN a ELSE b]
SameWorker == [p \in Polls |-> w1]
PollOfSlug == [p \in Polls |-> IF p = pa THEN a ELSE b]
=============================================================================
