------------------------------- MODULE System --------------------------------
(***************************************************************************)
(* Master and one worker together, over connections that may break: the     *)
(* answer of a poll may not arrive, a puller may give up on a poll whose    *)
(* handler goes on, an upload may be cut, either process may end and start  *)
(* again.  What each of the two modules assumes of the other is here what   *)
(* the other does.                                                          *)
(***************************************************************************)
EXTENDS Master

CONSTANTS
    Slots,      \* max_concurrent of the worker
    NoPoll,
    MaxMishaps  \* bound: how many steps of Mishap there may be

\* One worker takes part, and all polls are its own.
ASSUME SystemAssumption ==
    /\ IsFiniteSet(Models)
    /\ \E w \in Workers : Workers = {w}
    /\ Slots \in Nat \ {0}
    /\ NoPoll \notin Polls
    /\ MaxMishaps \in Nat

VARIABLES
    puller, task, free, waiters, handed, upload, body, llama, asked,  \* of Agent
    overdue,  \* jobs past their deadline by the worker's clock
    line,     \* the poll each puller waits for
    answer,   \* the job in the answer of a poll that is on its way to it
    taken,    \* how many envelopes of each upload the master has received
    mishaps   \* how many there have been

workVars == <<puller, task, free, waiters, handed, upload, body, llama, asked, overdue>>
linkVars == <<line, answer, taken>>
allVars  == <<vars, workVars, linkVars, mishaps>>

Worker == INSTANCE Agent WITH
    Slugs <- Models, SlugOf <- ModelOf, MaxConcurrent <- Slots,
    expired <- overdue

SystemInit ==
    /\ Init
    /\ Worker!AgentInit
    /\ line = [m \in Models |-> NoPoll]
    /\ answer = [m \in Models |-> NoJob]
    /\ taken = [j \in Jobs |-> 0]
    /\ mishaps = 0

-----------------------------------------------------------------------------
(* Polls. *)

\* A puller opens a poll; the handler of its last one may still run.
Poll(m, p) ==
    /\ puller[m] = "polling" /\ line[m] = NoPoll /\ answer[m] = NoJob
    /\ PollModel[p] = m
    /\ PollStart(p)
    /\ line' = [line EXCEPT ![m] = p]
    /\ UNCHANGED <<chatVars, workVars, answer, taken>>

\* The handler goes on, and answers with r if it ends.  The answer of a poll
\* that nobody waits for is lost.
Respond(p, r) ==
    LET waits == {m \in Models : line[m] = p}
    IN  /\ line' = [m \in Models |-> IF m \in waits /\ poll'[p] = "idle"
                                     THEN NoPoll ELSE line[m]]
        /\ answer' = [m \in Models |-> IF m \in waits THEN r ELSE answer[m]]
        /\ UNCHANGED <<chatVars, workVars, taken>>

PollHandler(p) ==
    \/ (PollGet(p) \/ PollGiveUp(p) \/ AcquiredForDead(p) \/ AcquireTimeout(p))
       /\ Respond(p, NoJob)
    \/ Assign(p) /\ Respond(p, hand[p])

\* The answer arrives: a job for the puller.
Deliver(m) ==
    /\ answer[m] # NoJob
    /\ Worker!PollJob(m, answer[m])
    /\ answer' = [answer EXCEPT ![m] = NoJob]
    /\ UNCHANGED <<vars, overdue, line, taken>>

-----------------------------------------------------------------------------
(* Uploads. *)

\* The request of the upload reaches the master.
OpenUpload(j) ==
    /\ upload[j] # "none"
    /\ Open(j)
    /\ UNCHANGED <<chatVars, workVars, linkVars>>

\* The next line of its body does.
Arrives(j) ==
    /\ taken[j] < Len(body[j])
    /\ Receive(j, body[j][taken[j] + 1])
    /\ taken' = [taken EXCEPT ![j] = @ + 1]
    /\ UNCHANGED <<chatVars, workVars, line, answer>>

\* Nobody is at the other end: the worker has dropped the upload, or waits for
\* its response no more.
Dropped(j) ==
    upload[j] = "cut" \/ (upload[j] = "sent" /\ task[ModelOf[j]] # j)

\* All of a body that has ended has arrived, or its connection is gone.
EndUpload(j) ==
    /\ \/ upload[j] = "sent" /\ taken[j] = Len(body[j]) /\ Eof(j)
       \/ Dropped(j) /\ Abort(j)
    /\ UNCHANGED <<chatVars, workVars, linkVars>>

\* The master's handler by itself.
UploadHandler(j) ==
    UploadStep(j) /\ UNCHANGED <<chatVars, workVars, linkVars>>

\* The response, which the worker waits for.
UploadAnswered(j) ==
    /\ up[j] = "ended"
    /\ Worker!Answered(j)
    /\ UNCHANGED <<vars, overdue, linkVars>>

\* The response, 410, comes before the end of the body.
UploadRefused(j) ==
    /\ up[j] = "ended"
    /\ Worker!Broken(j)
    /\ UNCHANGED <<vars, overdue, linkVars>>

-----------------------------------------------------------------------------
(* The two processes by themselves. *)

ClientSide(j) ==
    /\ Arrive(j) \/ ChatStep(j) \/ ClientReads(j) \/ WatchFails(j)
    /\ UNCHANGED <<workerVars, workVars, linkVars>>

Works(j) ==
    /\ Worker!ExpiredFirst(j) \/ Worker!OpenLlama(j) \/ Worker!LlamaStep(j)
       \/ Worker!EndBody(j) \/ Worker!CloseAbandoned(j)
    /\ UNCHANGED <<vars, overdue, linkVars>>

Starts(m) ==
    /\ Worker!Wake(m) \/ Worker!StartJob(m)
    /\ UNCHANGED <<vars, overdue, linkVars>>

\* The worker's container comes back.
Restarts ==
    /\ Worker!Restart
    /\ UNCHANGED <<vars, overdue, linkVars>>

-----------------------------------------------------------------------------
(* Mishaps. *)

\* The client leaves, or the deadline passes.
ClientMishap(j) ==
    /\ HangUp(j) \/ Expire(j)
    /\ UNCHANGED <<workerVars, workVars, linkVars>>

\* The deadline passes by the worker's clock, which is not the master's.
ClockMishap(j) == Worker!Expire(j) /\ UNCHANGED <<vars, linkVars>>

\* A connection of an upload breaks, or the worker stops to wait after 60 s.
UploadMishap(j) ==
    /\ Worker!Broken(j) \/ Worker!Answered(j)
    /\ UNCHANGED <<vars, overdue, linkVars>>

\* Nobody waits for the polls of the pullers in S any more.
Forsake(S) ==
    /\ line' = [m \in Models |-> IF m \in S THEN NoPoll ELSE line[m]]
    /\ answer' = [m \in Models |-> IF m \in S THEN NoJob ELSE answer[m]]
    /\ UNCHANGED <<vars, taken>>

\* A puller's poll times out or its connection breaks.
LosePoll(m) == Worker!PollFails(m) /\ Forsake({m})

\* The worker's process ends or is interrupted.
ProcessMishap == (Worker!Exit \/ Worker!Interrupt) /\ Forsake(Models)

\* The master's process ends and starts again.  It has forgotten every job, and
\* its connections break: clients get no answer, polls fail, uploads end.  An
\* answer on its way to a puller still arrives, and the upload of a job from
\* before is refused when it is opened (internal.py:84-87): assigned_worker stays
\* for what the worker knows, and matters only for jobs in flight.
MasterRestart ==
    LET asking == {m \in Models : line[m] # NoPoll}
        served == {j \in Jobs : chat[j] \notin {"new", "answered"}}
    IN  /\ queues' = [m \in Models |-> <<>>]
        /\ in_flight' = {} /\ holding' = {}
        /\ sem' = [w \in Workers |-> MaxConcurrent]
        /\ finalized_counts' = [r \in FinalReasons |-> 0]
        /\ drop_counts' = [r \in DropReasons |-> 0]
        /\ late_stream_count' = 0
        /\ final_reason' = [j \in Jobs |-> "none"]
        /\ user_disconnected' = {} /\ expired' = {}
        /\ out_queue' = [j \in Jobs |-> <<>>]
        /\ chat' = [j \in Jobs |-> IF j \in served THEN "answered" ELSE chat[j]]
        /\ reply' = [j \in Jobs |-> IF j \in served THEN "gone" ELSE reply[j]]
        /\ watching' = {}
        /\ poll' = [p \in Polls |-> "idle"]
        /\ hand' = [p \in Polls |-> NoJob]
        /\ up' = [j \in Jobs |-> IF up[j] = "none" THEN "none" ELSE "ended"]
        /\ puller' = [m \in Models |-> IF m \in asking THEN "sleeping" ELSE puller[m]]
        /\ line' = [m \in Models |-> NoPoll]
        /\ UNCHANGED <<assigned_worker, got, hung_up, env, terminal, sent, lost, answer, taken,
                       task, free, waiters, handed, upload, body, llama, asked, overdue>>

Mishap ==
    \/ \E j \in Jobs : ClientMishap(j) \/ ClockMishap(j) \/ UploadMishap(j)
    \/ \E m \in Models : LosePoll(m)
    \/ ProcessMishap
    \/ MasterRestart

Regular ==
    \/ \E m \in Models : Deliver(m) \/ Starts(m) \/ \E p \in Polls : Poll(m, p)
    \/ \E p \in Polls : PollHandler(p)
    \/ \E j \in Jobs :
        \/ OpenUpload(j) \/ Arrives(j) \/ EndUpload(j) \/ UploadHandler(j)
        \/ UploadAnswered(j) \/ UploadRefused(j)
        \/ ClientSide(j) \/ Works(j)
    \/ Restarts

SystemNext ==
    \/ Regular /\ UNCHANGED mishaps
    \/ mishaps < MaxMishaps /\ Mishap /\ mishaps' = mishaps + 1

SystemSpec == SystemInit /\ [][SystemNext]_allVars

-----------------------------------------------------------------------------
(* What each side assumes of the other. *)

\* WorkerApi assumes that nothing follows a done or an error and that chunks
\* are numbered on; Agent that it is never given a job twice, nor one of
\* another slug.  The real other side never does otherwise, through lost
\* answers, requeues, restarts and cut uploads.
AssumptionsMet ==
    /\ \A j \in Jobs : up[j] = "reading" /\ taken[j] < Len(body[j]) =>
           body[j][taken[j] + 1] \in NextEnvelopes(j)
    /\ \A m \in Models : answer[m] # NoJob =>
           answer[m] \notin handed /\ ModelOf[answer[m]] = m

\* From llama-server to the client: an answer that ends well is what the
\* model generated, all of it up to its [DONE] and in order, but for the chunks
\* the client was too slow for.
EndToEnd ==
    \A j \in Jobs : reply[j] = "done" =>
        /\ llama[j] = "completed"
        /\ \A i, k \in 1..Len(got[j]) : i < k => got[j][i] < got[j][k]
        /\ Elements(got[j]) =
               {n \in 1..Cardinality(ChunksAt(body[j])) : Chunk(n) \notin lost[j]}

\* The master frees a permit when the client leaves, while the worker goes on
\* (queue.py:103).  If the worker has as many slots as the master counts
\* permits, then a job that somebody waits for stands in line at the worker only
\* behind one that nobody waits for any more.
WaitsOnlyForGhosts ==
    Slots >= MaxConcurrent =>
        \A m \in Models : puller[m] = "acquiring" /\ task[m] \in in_flight =>
            \E n \in Models : /\ puller[n] \in {"granted", "running"}
                              /\ task[n] \notin in_flight
=============================================================================
