----------------------------- MODULE JobService -----------------------------
(***************************************************************************)
(* What the master promises about jobs, with none of its handlers, queues   *)
(* or semaphores: every job is submitted, run by at most one worker within  *)
(* that worker's capacity, closed once, and answered once it is closed.     *)
(***************************************************************************)
EXTENDS Naturals, FiniteSets

CONSTANTS Jobs, Workers, Capacity, NoWorker

VARIABLES
    phase,   \* where each job is in its life
    worker,  \* who has been given it
    answer   \* what its client has been told

serviceVars == <<phase, worker, answer>>

Answers == {"rejected", "done", "error", "timeout", "gone"}

ServiceInit ==
    /\ phase = [j \in Jobs |-> "new"]
    /\ worker = [j \in Jobs |-> NoWorker]
    /\ answer = [j \in Jobs |-> "none"]

Unstarted == {j \in Jobs : phase[j] = "open" /\ worker[j] = NoWorker}
Busy(w)   == {j \in Jobs : phase[j] = "open" /\ worker[j] = w}

\* Jobs that have not started may be discarded at any time, several at once.
Discard(D) ==
    /\ D # {} /\ D \subseteq Unstarted
    /\ phase' = [j \in Jobs |-> IF j \in D THEN "closed" ELSE phase[j]]
    /\ UNCHANGED <<worker, answer>>

Submit(j, D) ==
    /\ phase[j] = "new"
    /\ D \subseteq Unstarted
    /\ phase' = [k \in Jobs |-> IF k = j THEN "open"
                                ELSE IF k \in D THEN "closed" ELSE phase[k]]
    /\ UNCHANGED <<worker, answer>>

Start(j, w) ==
    /\ j \in Unstarted
    /\ Cardinality(Busy(w)) < Capacity
    /\ worker' = [worker EXCEPT ![j] = w]
    /\ UNCHANGED <<phase, answer>>

Finish(j) ==
    /\ phase[j] = "open"
    /\ phase' = [phase EXCEPT ![j] = "closed"]
    /\ UNCHANGED <<worker, answer>>

\* Nobody hears "done" or "error" of a job that no worker had, nor "rejected"
\* of one that a worker had.
Answer(j, a) ==
    /\ phase[j] \in {"open", "closed"}
    /\ answer[j] = "none"
    /\ a \in {"done", "error"} => worker[j] # NoWorker
    /\ a = "rejected" => worker[j] = NoWorker
    /\ phase' = [phase EXCEPT ![j] = "closed"]
    /\ answer' = [answer EXCEPT ![j] = a]
    /\ UNCHANGED worker

ServiceNext ==
    \/ \E D \in SUBSET Jobs : Discard(D) \/ \E j \in Jobs : Submit(j, D)
    \/ \E j \in Jobs : \/ Finish(j)
                       \/ \E w \in Workers : Start(j, w)
                       \/ \E a \in Answers : Answer(j, a)

ServiceSpec == ServiceInit /\ [][ServiceNext]_serviceVars

=============================================================================
