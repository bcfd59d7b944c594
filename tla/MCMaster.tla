------------------------------ MODULE MCMaster ------------------------------
(***************************************************************************)
(* Small instances of the master for TLC; the .cfg files choose the sets.   *)
(***************************************************************************)
EXTENDS Master, TLC

CONSTANTS j1, j2, j3, m1, w1, p1, p2

\* One slug and one worker: polls compete for its queue and its permits.
OneModel   == [j \in Jobs |-> m1]
SameWorker == [p \in Polls |-> w1]
SameModel  == [p \in Polls |-> m1]

PollSymmetry == Permutations(Polls)
JobSymmetry  == Permutations(Jobs)
=============================================================================
