------------------------------ MODULE Registry ------------------------------
(***************************************************************************)
(* The job registry of the master, src/api/master/app/queue.py: one bounded *)
(* FIFO per model slug, the table of jobs in flight, one semaphore per      *)
(* worker and the counters of /internal/status.  The handlers that call it  *)
(* are in ChatApi (clients) and WorkerApi (workers); Master composes them.  *)
(*                                                                          *)
(* All of them are coroutines of one event loop, so a method of the         *)
(* registry, which never awaits, runs within a single step of a handler.    *)
(***************************************************************************)
EXTENDS Integers, Sequences, FiniteSets, Envelope

CONSTANTS
    Jobs,           \* one per request to /v1/chat/completions
    Models,         \* the slugs of settings.slugs
    Workers,        \* the worker_id values
    ModelOf,        \* the slug each request names
    MaxQueueDepth,  \* settings.max_queue_depth
    MaxConcurrent,  \* settings.max_concurrent_per_worker
    OutCap,         \* the 64 of Job.out_queue
    NoWorker        \* Job.assigned_worker = None

\* asyncio.Queue(maxsize=0) is an unbounded queue: the code means a bound.
ASSUME RegistryAssumption ==
    /\ IsFiniteSet(Jobs)
    /\ NoWorker \notin Workers
    /\ ModelOf \in [Jobs -> Models]
    /\ MaxQueueDepth \in Nat \ {0}
    /\ MaxConcurrent \in Nat
    /\ OutCap \in Nat \ {0}
    /\ MaxChunks \in Nat

VARIABLES
    queues,             \* the FIFO of each slug
    in_flight,          \* the jobs a request handler has registered
    sem,                \* free permits of each worker's semaphore
    assigned_worker,    \* the worker each job was handed to
    holding,            \* job.semaphore is set and not semaphore_released
    final_reason,       \* "none" until the job is finalized
    finalized_counts,
    drop_counts,
    late_stream_count,
    user_disconnected,  \* the flag the disconnect watcher sets
    expired,            \* jobs with time.time() >= deadline_at
    out_queue           \* envelopes from the worker to the client's handler

queueVars   == <<queues, in_flight>>
permitVars  == <<sem, assigned_worker, holding>>
counterVars == <<finalized_counts, drop_counts, late_stream_count>>
jobVars     == <<final_reason, user_disconnected, expired, out_queue>>
registryVars == <<queueVars, permitVars, counterVars, jobVars>>

DropReasons == {"stale", "client_disconnected", "expired"}

FinalReasons == DropReasons \cup
    {"queue_rejected", "user_timeout", "client_stream_closed",
     "client_response_closed", "capacity_requeue_failed", "worker_done",
     "worker_error", "worker_upload_failed", "worker_disconnected"}

RegistryTypeOK ==
    /\ queues \in [Models -> Seq(Jobs)]
    /\ in_flight \subseteq Jobs
    /\ sem \in [Workers -> Nat]
    /\ assigned_worker \in [Jobs -> Workers \cup {NoWorker}]
    /\ holding \subseteq Jobs
    /\ final_reason \in [Jobs -> FinalReasons \cup {"none"}]
    /\ finalized_counts \in [FinalReasons -> Nat]
    /\ drop_counts \in [DropReasons -> Nat]
    /\ late_stream_count \in Nat
    /\ user_disconnected \subseteq Jobs
    /\ expired \subseteq Jobs
    /\ out_queue \in [Jobs -> Seq(Envelopes)]

RegistryInit ==
    /\ queues = [m \in Models |-> <<>>]
    /\ in_flight = {}
    /\ sem = [w \in Workers |-> MaxConcurrent]
    /\ assigned_worker = [j \in Jobs |-> NoWorker]
    /\ holding = {}
    /\ final_reason = [j \in Jobs |-> "none"]
    /\ finalized_counts = [r \in FinalReasons |-> 0]
    /\ drop_counts = [r \in DropReasons |-> 0]
    /\ late_stream_count = 0
    /\ user_disconnected = {}
    /\ expired = {}
    /\ out_queue = [j \in Jobs |-> <<>>]

Finalized(j) == final_reason[j] # "none"

\* Why a job must not be handed out, "live" where the code returns None.
skip_reason(j) ==
    IF j \notin in_flight THEN "stale"
    ELSE IF j \in user_disconnected THEN "client_disconnected"
    ELSE IF j \in expired THEN "expired"
    ELSE "live"

Live(j) == skip_reason(j) = "live"

\* The permits that finalize gives back for the jobs it pops: once each.
NotFreed(popped) == {}  \* mutant: the permit is forgotten
Freed(popped)    == popped \cap holding

\* finalize, for every job of D at once, where "known" is in_flight at the
\* time of the call: a job already popped is left alone, a popped one gets its
\* reason and its count once and gives back the permit it holds.
FinalizeAll(D, reason, known) ==
    LET popped == D \cap known
        first  == {j \in popped : ~Finalized(j)}
        freed  == Freed(popped)
    IN  /\ in_flight' = known \ popped
        /\ final_reason' = [j \in Jobs |-> IF j \in first THEN reason[j]
                                                          ELSE final_reason[j]]
        /\ finalized_counts' = [r \in FinalReasons |->
               finalized_counts[r] + Cardinality({j \in first : reason[j] = r})]
        /\ sem' = [w \in Workers |->
               sem[w] + Cardinality({j \in freed : assigned_worker[j] = w})]
        /\ holding' = holding \ freed

finalize(j, reason) == FinalizeAll({j}, [k \in Jobs |-> reason], in_flight)

\* Both places that skip a job, prune_queue and poll, count it under the
\* reason for the skip and then finalize it with that reason.
DropAll(D, known) ==
    /\ drop_counts' = [r \in DropReasons |->
           drop_counts[r] + Cardinality({j \in D : skip_reason(j) = r})]
    /\ FinalizeAll(D, [j \in Jobs |-> skip_reason(j)], known)

\* prune_queue walks the whole queue once: the live jobs keep their order and
\* the others are dropped.
Kept(q) ==
    LET kept[i \in 0..Len(q)] ==
            IF i = 0 THEN <<>>
            ELSE IF Live(q[i]) THEN Append(kept[i - 1], q[i])
                               ELSE kept[i - 1]
    IN  kept[Len(q)]

Dead(q) == {j \in {q[i] : i \in 1..Len(q)} : ~Live(j)}

QueueFull(q) == Len(q) >= MaxQueueDepth
OutFull(j)   == Len(out_queue[j]) >= OutCap
=============================================================================
