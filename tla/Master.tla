------------------------------- MODULE Master -------------------------------
(***************************************************************************)
(* The master: client requests (ChatApi) and worker routes (WorkerApi) over *)
(* one registry, interleaved by the event loop.                             *)
(***************************************************************************)
EXTENDS ChatApi, WorkerApi

vars == <<registryVars, chatVars, workerVars>>

Init == RegistryInit /\ ChatInit /\ WorkerInit

\* The steps of each side leave the variables of the other alone.
Next ==
    \/ \E j \in Jobs :
        \/ Arrive(j)        /\ UNCHANGED workerVars
        \/ Enqueue(j)       /\ UNCHANGED workerVars
        \/ PutTimeout(j)    /\ UNCHANGED workerVars
        \/ Reject(j)        /\ UNCHANGED workerVars
        \/ SeeHangup(j)     /\ UNCHANGED workerVars
        \/ DeadlineAtTop(j) /\ UNCHANGED workerVars
        \/ Await(j)         /\ UNCHANGED workerVars
        \/ TakeGone(j)      /\ UNCHANGED workerVars
        \/ TakeChunk(j)     /\ UNCHANGED workerVars
        \/ TakeEnd(j)       /\ UNCHANGED workerVars
        \/ GetTimeout(j)    /\ UNCHANGED workerVars
        \/ WriteDone(j)     /\ UNCHANGED workerVars
        \/ LastWriteDone(j) /\ UNCHANGED workerVars
        \/ Cancelled(j)     /\ UNCHANGED workerVars
        \/ Close(j)         /\ UNCHANGED workerVars
        \/ WatchHangup(j)   /\ UNCHANGED workerVars
        \/ WatchFails(j)    /\ UNCHANGED workerVars
        \/ Expire(j)        /\ UNCHANGED workerVars
        \/ HangUp(j)        /\ UNCHANGED workerVars
    \/ \E p \in Polls :
        \/ PollStart(p)       /\ UNCHANGED chatVars
        \/ PollGet(p)         /\ UNCHANGED chatVars
        \/ PollGiveUp(p)      /\ UNCHANGED chatVars
        \/ Assign(p)          /\ UNCHANGED chatVars
        \/ AcquiredForDead(p) /\ UNCHANGED chatVars
        \/ AcquireTimeout(p)  /\ UNCHANGED chatVars
    \/ \E j \in Jobs :
        \/ Open(j)    /\ UNCHANGED chatVars
        \/ \E e \in NextEnvelopes(j) : Receive(j, e) /\ UNCHANGED chatVars
        \/ PutDone(j) /\ UNCHANGED chatVars
        \/ PutDrop(j) /\ UNCHANGED chatVars
        \/ Eof(j)     /\ UNCHANGED chatVars
        \/ Abort(j)   /\ UNCHANGED chatVars
        \/ FailPut(j) /\ UNCHANGED chatVars

Spec == Init /\ [][Next]_vars

\* What the event loop and the clock do by themselves: a handler whose await
\* is over runs, timers fire, deadlines pass.
LoopFairness ==
    /\ \A j \in Jobs : /\ WF_vars(ChatStep(j) /\ UNCHANGED workerVars)
                       /\ WF_vars(Expire(j) /\ UNCHANGED workerVars)
                       /\ WF_vars(UploadStep(j) /\ UNCHANGED chatVars)
    /\ \A p \in Polls : WF_vars(PollStep(p) /\ UNCHANGED chatVars)

\* Clients and workers may stop at any point.
LoopSpec == Spec /\ LoopFairness

\* Clients that go on reading, or leave, do not stop a write for ever.
ReadingSpec ==
    /\ LoopSpec
    /\ \A j \in Jobs : WF_vars(ClientReads(j) /\ UNCHANGED workerVars)

-----------------------------------------------------------------------------
TypeOK == RegistryTypeOK /\ ChatTypeOK /\ WorkerTypeOK

\* The jobs in flight that occupy a permit of w.
Running(w) == {j \in in_flight : assigned_worker[j] = w}

\* Permits are neither lost nor made: whatever finalizes a job, and however
\* often finalize is called for it (queue.py:92-106), what is free and what the
\* assigned jobs in flight hold add up to max_concurrent_per_worker.
PermitsConserved ==
    \A w \in Workers : sem[w] + Cardinality(Running(w)) = MaxConcurrent

Positions(m, j) == {i \in 1..Len(queues[m]) : queues[m][i] = j}
Queued(j)       == \E m \in Models : Positions(m, j) # {}
InHand(j)       == \E p \in Polls : hand[p] = j
Assigned(j)     == assigned_worker[j] # NoWorker

\* A job is in one place: in one position of one queue, in the hands of one
\* poll, or with one worker, however polls requeue it (internal.py:51) and
\* drop it.  So no job is ever handed out twice.
OneCustodian ==
    \A j \in Jobs :
        /\ \A m, n \in Models : \A i \in Positions(m, j), k \in Positions(n, j) :
               m = n /\ i = k
        /\ \A p, r \in Polls : hand[p] = j /\ hand[r] = j => p = r
        /\ ~(Queued(j) /\ InHand(j))
        /\ Assigned(j) => ~Queued(j) /\ ~InHand(j)

\* An unfinished job is in some place: a request that waits for an answer is
\* queued, in a poll's hands, with a worker, or known to be doomed, by its
\* flag or its deadline.  None is forgotten between two polls.
NoneForgotten ==
    \A j \in in_flight :
        \/ Queued(j) \/ InHand(j) \/ Assigned(j)
        \/ chat[j] \in {"putting", "rejecting"}
        \/ j \in user_disconnected \cup expired

\* What makes PermitsConserved and OneCustodian inductive: where a job may be
\* at each point of its request, and who holds a permit.
Placement ==
    /\ \A m \in Models : \A i \in 1..Len(queues[m]) :
           /\ ModelOf[queues[m][i]] = m
           /\ chat[queues[m][i]] \notin {"new", "putting", "rejecting"}
    /\ \A p \in Polls :
           /\ hand[p] \in Jobs <=> poll[p] = "acquiring"
           /\ hand[p] \in Jobs => /\ ModelOf[hand[p]] = PollModel[p]
                                  /\ chat[hand[p]] \notin {"new", "putting", "rejecting"}
    /\ \A j \in Jobs : Assigned(j) => chat[j] \notin {"new", "putting", "rejecting"}
    /\ holding = {j \in in_flight : Assigned(j)}

\* in_flight and the reason agree, and every reason has been counted once:
\* racing finalizers (client, watcher, poll, upload) settle a job exactly once.
FinalizedOnce ==
    /\ \A j \in Jobs : chat[j] # "new" => (j \in in_flight <=> ~Finalized(j))
    /\ \A r \in FinalReasons :
           finalized_counts[r] = Cardinality({j \in Jobs : final_reason[j] = r})
    /\ drop_counts["expired"] = finalized_counts["expired"]
    /\ drop_counts["client_disconnected"] <= finalized_counts["client_disconnected"]

\* The registry does not leak: once its client has been answered, however the
\* handler ended, the job is gone from in_flight.
AnsweredIsReleased == \A j \in Jobs : chat[j] = "answered" => j \notin in_flight

\* A worker is never handed a job whose client is known to have left or whose
\* deadline has passed or that is finalized, even when that happened while the
\* poll waited for the permit (internal.py:56).
NeverDispatchDead ==
    [][\A j \in Jobs : assigned_worker'[j] # assigned_worker[j] =>
          /\ j \in in_flight /\ ~Finalized(j)
          /\ j \notin user_disconnected \cup expired]_vars

\* An answer has a cause: done and error only if the worker, or the end of its
\* upload, said so; the timeout only after the deadline; "gone" only for a
\* client that hung up; 503 only for a job that never was in the queue.
AnswerHasCause ==
    \A j \in Jobs :
        /\ reply[j] = "done" => terminal[j] \in {"worker_done", "worker_upload_failed"}
        /\ reply[j] = "error" => terminal[j] \in UploadReasons \ {"worker_done"}
        /\ reply[j] = "timeout" => j \in expired
        /\ reply[j] = "gone" => j \in hung_up
        /\ reply[j] = "rejected" => ~Queued(j) /\ ~InHand(j) /\ ~Assigned(j)

Elements(s) == {s[i] : i \in 1..Len(s)}
ChunksAt(s) == {i \in 1..Len(s) : s[i].type = "chunk"}
Numbers(s)  == {s[i].n : i \in ChunksAt(s)}

\* The chunks of j that were not dropped.
Arrived(j) == {n \in 1..sent[j] : Chunk(n) \notin lost[j]}

\* The chunks a client has got, then those in its queue, then the one that
\* waits for room, are those the worker sent, in order, without repetition
\* and without a gap except for chunks dropped on a full queue.
InOrder ==
    \A j \in Jobs :
        LET q    == out_queue[j]
            seen == Elements(got[j]) \cup Numbers(q)
            put  == {n \in Arrived(j) : up[j] = "putting" => env[j] # Chunk(n)}
        IN  /\ \A i, k \in 1..Len(got[j]) : i < k => got[j][i] < got[j][k]
            /\ \A i, k \in ChunksAt(q) : i < k => q[i].n < q[k].n
            /\ \A m \in Elements(got[j]), n \in Numbers(q) : m < n
            /\ seen \subseteq put
            /\ ~Finalized(j) => seen = put

\* A complete answer is complete: a client told "done" got every chunk the
\* worker sent that was not dropped for its own slowness.
DoneIsComplete ==
    \A j \in Jobs : reply[j] = "done" => Elements(got[j]) = Arrived(j)

HasEnd(s) == \E i \in 1..Len(s) : s[i].type \in {"done", "error"}

\* Who waits will be told: when a job is finalized under a client that still
\* reads its envelopes, the one that ends the answer is in its queue, except
\* in the cases named here: the deadline or the flag was noticed first, the
\* requeue of internal.py:53 failed, or the terminal envelope was dropped.
SilentOnlyIf ==
    \A j \in Jobs :
        /\ Finalized(j)
        /\ chat[j] \in {"top", "waiting", "writing"}
        /\ ~HasEnd(out_queue[j])
        => \/ final_reason[j] \in {"client_disconnected", "expired",
                                   "capacity_requeue_failed"}
           \/ lost[j] \cap {Done, Error} # {}

\* Every request gets its answer, whatever workers do.
EveryRequestAnswered ==
    \A j \in Jobs : chat[j] # "new" ~> chat[j] = "answered"

\* Every permit comes back.
PermitComesBack == \A j \in Jobs : j \in holding ~> j \notin holding

-----------------------------------------------------------------------------
(* The master implements JobService. *)

PhaseOf  == [j \in Jobs |-> IF chat[j] = "new" THEN "new"
                            ELSE IF j \in in_flight THEN "open" ELSE "closed"]
AnswerOf == [j \in Jobs |-> IF chat[j] = "answered" THEN reply[j] ELSE "none"]

Service == INSTANCE JobService WITH
    Capacity <- MaxConcurrent,
    phase    <- PhaseOf,
    worker   <- assigned_worker,
    answer   <- AnswerOf

\* The handlers of Master, over queues and semaphores, do to a job only what
\* JobService allows: at most one worker has it, within that worker's
\* capacity, and its client hears "done" only of a job a worker had.
ImplementsService == Service!ServiceSpec

-----------------------------------------------------------------------------
(* What the repository says of the master and the code does not do. *)

\* internal.py:98, "user is too slow (or gone); drop instead of blocking the
\* upload": an upload that failed would end even if nobody reads out_queue.
UploadNotBlocked == \A j \in Jobs : up[j] = "failing" ~> up[j] = "ended"

\* HOSTING.md:119, "Per-slug queue size before requests get rejected with
\* 503": a client that waits for its answer and whose job was discarded
\* because the queue was full would be told so.
FullQueueIs503 ==
    \A j \in Jobs :
        /\ final_reason[j] = "capacity_requeue_failed"
        /\ chat[j] = "answered"
        => reply[j] \in {"rejected", "gone"}

\* config.py:27, "Master gives up on a queued job after this many seconds and
\* frees the slot": past its deadline no job would occupy a permit for ever,
\* whatever its client and its worker do.
DeadlineFreesSlot == \A j \in Jobs : j \in holding \cap expired ~> j \notin holding
=============================================================================
