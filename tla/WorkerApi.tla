------------------------------ MODULE WorkerApi ------------------------------
(***************************************************************************)
(* The routes of the workers, routes/internal.py: GET /internal/jobs/poll,  *)
(* which hands out jobs, and POST /internal/jobs/{id}/stream, which takes   *)
(* in the envelopes of a job.                                               *)
(*                                                                          *)
(* A poll is one long-poll connection; several may be open for one worker   *)
(* and slug, since the server keeps running the handler of a poll whose     *)
(* worker has given up on it.  A worker uploads at most once for a job it   *)
(* was given, and may never do so: the answer of the poll may be lost, or   *)
(* the worker may crash.                                                    *)
(***************************************************************************)
EXTENDS Registry

CONSTANTS
    Polls,       \* poll connections
    PollWorker,  \* the worker_id of each
    PollModel,   \* the slug each asks for
    NoJob

ASSUME WorkerAssumption ==
    /\ PollWorker \in [Polls -> Workers]
    /\ PollModel \in [Polls -> Models]
    /\ NoJob \notin Jobs

VARIABLES
    poll,      \* where the handler of each poll is
    hand,      \* the job a poll took off its queue and waits a permit for
    up,        \* where the upload handler of each job is
    env,       \* the envelope an upload handler waits to put
    terminal,  \* terminal_reason["reason"], "none" for None
    sent,      \* how many chunks of each job have arrived
    lost       \* envelopes given up after 10 s of a full out_queue

pollVars   == <<poll, hand>>
uploadVars == <<up, env, terminal, sent, lost>>
workerVars == <<pollVars, uploadVars>>

UploadReasons == {"worker_done", "worker_error",
                  "worker_upload_failed", "worker_disconnected"}

WorkerTypeOK ==
    /\ poll \in [Polls -> {"idle", "getting", "acquiring"}]
    /\ hand \in [Polls -> Jobs \cup {NoJob}]
    /\ up \in [Jobs -> {"none", "reading", "putting", "failing", "ended"}]
    /\ env \in [Jobs -> Envelopes]
    /\ terminal \in [Jobs -> UploadReasons \cup {"none"}]
    /\ sent \in [Jobs -> 0..MaxChunks]
    /\ lost \in [Jobs -> SUBSET Envelopes]
    /\ \A j \in Jobs : up[j] = "failing" => terminal[j] # "none"

WorkerInit ==
    /\ poll = [p \in Polls |-> "idle"]
    /\ hand = [p \in Polls |-> NoJob]
    /\ up = [j \in Jobs |-> "none"]
    /\ env = [j \in Jobs |-> Done]
    /\ terminal = [j \in Jobs |-> "none"]
    /\ sent = [j \in Jobs |-> 0]
    /\ lost = [j \in Jobs |-> {}]

-----------------------------------------------------------------------------
(* poll *)

\* The head of the loop: prune what is left of the slug's queue, together
\* with the dead jobs of D the handler has in its hands, and ask for the next.
PruneAndGet(p, D, q) ==
    /\ DropAll(D \cup Dead(q), in_flight)
    /\ queues' = [queues EXCEPT ![PollModel[p]] = Kept(q)]
    /\ poll' = [poll EXCEPT ![p] = "getting"]
    /\ hand' = [hand EXCEPT ![p] = NoJob]
    /\ UNCHANGED <<assigned_worker, late_stream_count, user_disconnected,
                   expired, out_queue, uploadVars>>

PollStart(p) ==
    /\ poll[p] = "idle"
    /\ PruneAndGet(p, {}, queues[PollModel[p]])

\* The get() returns a job.  A job that died in the meantime is dropped and
\* the loop goes on, a live one needs a permit of the worker.
PollGet(p) ==
    LET m == PollModel[p]
        j == Head(queues[m])
    IN  /\ poll[p] = "getting"
        /\ queues[m] # <<>>
        /\ IF Live(j)
           THEN /\ queues' = [queues EXCEPT ![m] = Tail(@)]
                /\ poll' = [poll EXCEPT ![p] = "acquiring"]
                /\ hand' = [hand EXCEPT ![p] = j]
                /\ UNCHANGED <<in_flight, permitVars, counterVars, jobVars, uploadVars>>
           ELSE PruneAndGet(p, {j}, Tail(queues[m]))

\* 204: nothing came within the timeout of the poll.
PollGiveUp(p) ==
    /\ poll[p] = "getting"
    /\ queues[PollModel[p]] = <<>>
    /\ poll' = [poll EXCEPT ![p] = "idle"]
    /\ UNCHANGED <<registryVars, hand, uploadVars>>

\* What an assignment changes, once the permit has arrived.
Handover(p) ==
    /\ sem' = [sem EXCEPT ![PollWorker[p]] = @ - 1]
    /\ assigned_worker' = [assigned_worker EXCEPT ![hand[p]] = PollWorker[p]]
    /\ holding' = holding \cup {hand[p]}
    /\ poll' = [poll EXCEPT ![p] = "idle"]
    /\ hand' = [hand EXCEPT ![p] = NoJob]
    /\ UNCHANGED <<queueVars, counterVars, jobVars, uploadVars>>

\* mutant: the job is not looked at again after the wait for the permit.
AssignUnchecked(p) ==
    /\ poll[p] = "acquiring"
    /\ sem[PollWorker[p]] > 0
    /\ Handover(p)

\* mutant: the permit is not waited for.
AssignUnguarded(p) ==
    /\ poll[p] = "acquiring"
    /\ Live(hand[p])
    /\ Handover(p)

\* The permit arrives and the job is still wanted: it is answered to the worker.
Assign(p) ==
    /\ poll[p] = "acquiring"
    /\ sem[PollWorker[p]] > 0
    /\ Live(hand[p])
    /\ Handover(p)

\* The permit arrives too late for the job: it is given back at once.
AcquiredForDead(p) ==
    /\ poll[p] = "acquiring"
    /\ sem[PollWorker[p]] > 0
    /\ ~Live(hand[p])
    /\ PruneAndGet(p, {hand[p]}, queues[PollModel[p]])

\* mutant: the timed-out acquire is not cancelled and completes later.
AcquireTimeoutShielded(p) ==
    /\ poll[p] = "acquiring"
    /\ sem[PollWorker[p]] = 0
    /\ Live(hand[p])
    /\ ~QueueFull(queues[PollModel[p]])
    /\ queues' = [queues EXCEPT ![PollModel[p]] = Append(@, hand[p])]
    /\ UNCHANGED <<in_flight, permitVars, counterVars, jobVars, workerVars>>

\* mutant: the job is not put back.
AcquireTimeoutForgets(p) ==
    /\ poll[p] = "acquiring"
    /\ sem[PollWorker[p]] = 0
    /\ poll' = [poll EXCEPT ![p] = "idle"]
    /\ hand' = [hand EXCEPT ![p] = NoJob]
    /\ UNCHANGED <<registryVars, uploadVars>>

\* No permit within 0.25 s, 204: a live job goes back to the tail of its
\* queue or, if the queue has filled up meanwhile, is finalized; a dead one is
\* left to whoever finalizes it.
AcquireTimeout(p) ==
    LET j == hand[p]
        m == PollModel[p]
    IN  /\ poll[p] = "acquiring"
        /\ sem[PollWorker[p]] = 0
        /\ IF ~Live(j)
           THEN UNCHANGED <<queueVars, sem, holding, final_reason, finalized_counts>>
           ELSE IF QueueFull(queues[m])
           THEN finalize(j, "capacity_requeue_failed") /\ UNCHANGED queues
           ELSE /\ queues' = [queues EXCEPT ![m] = Append(@, j)]
                /\ UNCHANGED <<in_flight, sem, holding, final_reason, finalized_counts>>
        /\ poll' = [poll EXCEPT ![p] = "idle"]
        /\ hand' = [hand EXCEPT ![p] = NoJob]
        /\ UNCHANGED <<assigned_worker, drop_counts, late_stream_count,
                       user_disconnected, expired, out_queue, uploadVars>>

-----------------------------------------------------------------------------
(* stream *)

\* The worker opens its upload: 410 when the job is over.
Open(j) ==
    /\ assigned_worker[j] # NoWorker
    /\ up[j] = "none"
    /\ IF j \in in_flight
       THEN /\ up' = [up EXCEPT ![j] = "reading"]
            /\ UNCHANGED late_stream_count
       ELSE /\ up' = [up EXCEPT ![j] = "ended"]
            /\ late_stream_count' = late_stream_count + 1
    /\ UNCHANGED <<queueVars, permitVars, finalized_counts, drop_counts, jobVars,
                   pollVars, env, terminal, sent, lost>>

\* What on_envelope remembers of an envelope, put or dropped.
Terminal(e) ==
    IF e.type = "done" THEN "worker_done"
    ELSE IF e.type = "error" THEN "worker_error"
    ELSE "none"

Noted(j, e) == [terminal EXCEPT ![j] =
                   IF Terminal(e) = "none" THEN @ ELSE Terminal(e)]

\* What the worker may send next; nothing follows a done or an error.
NextEnvelopes(j) ==
    IF terminal[j] # "none" THEN {}
    ELSE {Done, Error} \cup {Chunk(n) : n \in {sent[j] + 1} \cap 1..MaxChunks}

\* The next envelope of the worker reaches on_envelope, which ignores it if
\* the job is finalized and waits if out_queue is full.
Receive(j, e) ==
    /\ up[j] = "reading"
    /\ e \in NextEnvelopes(j)
    /\ sent' = [sent EXCEPT ![j] = IF e.type = "chunk" THEN @ + 1 ELSE @]
    /\ IF Finalized(j)
       THEN UNCHANGED <<out_queue, up, env, terminal>>
       ELSE IF OutFull(j)
       THEN /\ up' = [up EXCEPT ![j] = "putting"]
            /\ env' = [env EXCEPT ![j] = e]
            /\ UNCHANGED <<out_queue, terminal>>
       ELSE /\ out_queue' = [out_queue EXCEPT ![j] = Append(@, e)]
            /\ terminal' = Noted(j, e)
            /\ UNCHANGED <<up, env>>
    /\ UNCHANGED <<queueVars, permitVars, counterVars, final_reason,
                   user_disconnected, expired, pollVars, lost>>

PutDone(j) ==
    /\ up[j] = "putting"
    /\ ~OutFull(j)
    /\ out_queue' = [out_queue EXCEPT ![j] = Append(@, env[j])]
    /\ up' = [up EXCEPT ![j] = "reading"]
    /\ terminal' = Noted(j, env[j])
    /\ UNCHANGED <<queueVars, permitVars, counterVars, final_reason,
                   user_disconnected, expired, pollVars, env, sent, lost>>

\* The put() of on_envelope times out after 10 s: the envelope is dropped.
PutDrop(j) ==
    /\ up[j] = "putting"
    /\ OutFull(j)
    /\ lost' = [lost EXCEPT ![j] = @ \cup {env[j]}]
    /\ up' = [up EXCEPT ![j] = "reading"]
    /\ terminal' = Noted(j, env[j])
    /\ UNCHANGED <<registryVars, pollVars, env, sent>>

\* The end of the handler: finalize with the reason it has settled on.
Conclusion(j, reason) ==
    /\ finalize(j, reason)
    /\ up' = [up EXCEPT ![j] = "ended"]
    /\ UNCHANGED <<queues, assigned_worker, drop_counts, late_stream_count,
                   user_disconnected, expired, pollVars, env, sent, lost>>

\* mutant: the client is not told that the upload broke.
FailSilently(j, reason) ==
    /\ terminal' = [terminal EXCEPT ![j] = reason]
    /\ Conclusion(j, reason)
    /\ UNCHANGED out_queue

\* An upload that breaks puts an error for the client, with no timeout, unless
\* the job is finalized.
Fail(j, reason) ==
    /\ terminal' = [terminal EXCEPT ![j] = reason]
    /\ IF Finalized(j)
       THEN Conclusion(j, reason) /\ UNCHANGED out_queue
       ELSE IF OutFull(j)
       THEN /\ up' = [up EXCEPT ![j] = "failing"]
            /\ UNCHANGED <<registryVars, pollVars, env, sent, lost>>
       ELSE /\ out_queue' = [out_queue EXCEPT ![j] = Append(@, Error)]
            /\ Conclusion(j, reason)

\* The body ends, after a done or an error or before one.
Eof(j) ==
    /\ up[j] = "reading"
    /\ IF terminal[j] = "none"
       THEN Fail(j, "worker_disconnected")
       ELSE Conclusion(j, terminal[j]) /\ UNCHANGED <<out_queue, terminal>>

\* The connection of the upload breaks: request.stream() raises.
Abort(j) ==
    /\ up[j] = "reading"
    /\ Fail(j, "worker_upload_failed")

FailPut(j) ==
    /\ up[j] = "failing"
    /\ ~OutFull(j)
    /\ out_queue' = [out_queue EXCEPT ![j] = Append(@, Error)]
    /\ Conclusion(j, terminal[j])
    /\ UNCHANGED terminal

-----------------------------------------------------------------------------
\* Steps that the event loop runs by itself.
PollStep(p) == PollGet(p) \/ PollGiveUp(p) \/ Assign(p)
               \/ AcquiredForDead(p) \/ AcquireTimeout(p)

UploadStep(j) == PutDone(j) \/ PutDrop(j) \/ FailPut(j)
=============================================================================
