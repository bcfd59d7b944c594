-------------------------------- MODULE Agent --------------------------------
(***************************************************************************)
(* The worker: one puller per slug, puller.py, that long-polls the master   *)
(* and runs the job it gets, runner.py, by streaming from the slug's        *)
(* llama-server, llama_client.py, into a chunked upload to the master.  All *)
(* pullers are tasks of one gather, main.py, and share one semaphore.       *)
(*                                                                          *)
(* The master and the llama-servers are external: they may answer, fail or  *)
(* cut a connection at any await.                                           *)
(***************************************************************************)
EXTENDS Integers, Sequences, FiniteSets, Envelope

CONSTANTS
    Slugs,          \* settings.slugs: one puller each
    Jobs,           \* the jobs the master hands out, each at most once
    SlugOf,         \* the slug of each job
    MaxConcurrent,  \* settings.max_concurrent
    NoJob

ASSUME AgentAssumption ==
    /\ IsFiniteSet(Slugs) /\ IsFiniteSet(Jobs)
    /\ SlugOf \in [Jobs -> Slugs]
    /\ MaxConcurrent \in Nat \ {0}
    /\ NoJob \notin Jobs
    /\ MaxChunks \in Nat

VARIABLES
    puller,   \* where each puller is
    task,     \* the job a puller has been given
    free,     \* the value of the semaphore
    waiters,  \* the pullers that wait for it, first come first
    handed,   \* jobs the agent has received
    upload,   \* the POST of each job and its generator _envelopes
    body,     \* the envelopes sent for each job
    llama,    \* the request to llama-server for each job
    expired,  \* jobs past their deadline_at
    asked     \* the process has been interrupted

pullerVars == <<puller, task, free, waiters>>
streamVars == <<upload, body, llama>>
agentVars  == <<pullerVars, handed, streamVars, expired, asked>>

\* "start" is a generator that has sent nothing, "last" one suspended in the
\* yield of its done or error, "sent" an upload that waits for its response.
UploadStates == {"none", "start", "reading", "last", "sent", "cut"}
PullerStates == {"polling", "sleeping", "acquiring", "granted", "running", "stopped"}
LlamaStates  == {"none", "open", "completed", "failed"}

AgentTypeOK ==
    /\ puller \in [Slugs -> PullerStates]
    /\ task \in [Slugs -> Jobs \cup {NoJob}]
    /\ free \in 0..MaxConcurrent
    /\ waiters \in Seq(Slugs)
    /\ handed \subseteq Jobs
    /\ upload \in [Jobs -> UploadStates]
    /\ body \in [Jobs -> Seq(Envelopes)]
    /\ llama \in [Jobs -> LlamaStates]
    /\ expired \subseteq Jobs
    /\ asked \in BOOLEAN

AgentInit ==
    /\ puller = [s \in Slugs |-> "polling"]
    /\ task = [s \in Slugs |-> NoJob]
    /\ free = MaxConcurrent
    /\ waiters = <<>>
    /\ handed = {}
    /\ upload = [j \in Jobs |-> "none"]
    /\ body = [j \in Jobs |-> <<>>]
    /\ llama = [j \in Jobs |-> "none"]
    /\ expired = {}
    /\ asked = FALSE

-----------------------------------------------------------------------------
(* puller: the poll and the semaphore.  A 204 just polls again. *)

PollFails(s) ==
    /\ puller[s] = "polling"
    /\ puller' = [puller EXCEPT ![s] = "sleeping"]
    /\ UNCHANGED <<task, free, waiters, handed, streamVars, expired, asked>>

Wake(s) ==
    /\ puller[s] = "sleeping"
    /\ puller' = [puller EXCEPT ![s] = "polling"]
    /\ UNCHANGED <<task, free, waiters, handed, streamVars, expired, asked>>

\* mutant: the permit is not waited for.
PollJobUnlimited(s, j) ==
    /\ puller[s] = "polling"
    /\ j \notin handed
    /\ SlugOf[j] = s
    /\ handed' = handed \cup {j}
    /\ task' = [task EXCEPT ![s] = j]
    /\ free' = free - 1
    /\ puller' = [puller EXCEPT ![s] = "running"]
    /\ upload' = [upload EXCEPT ![j] = "start"]
    /\ UNCHANGED <<waiters, body, llama, expired, asked>>

\* A job: the puller takes a permit and runs it, or waits for one.
PollJob(s, j) ==
    /\ puller[s] = "polling"
    /\ j \notin handed
    /\ SlugOf[j] = s
    /\ handed' = handed \cup {j}
    /\ task' = [task EXCEPT ![s] = j]
    /\ IF free > 0 /\ waiters = <<>>
       THEN /\ free' = free - 1
            /\ puller' = [puller EXCEPT ![s] = "running"]
            /\ upload' = [upload EXCEPT ![j] = "start"]
            /\ UNCHANGED waiters
       ELSE /\ waiters' = Append(waiters, s)
            /\ puller' = [puller EXCEPT ![s] = "acquiring"]
            /\ UNCHANGED <<free, upload>>
    /\ UNCHANGED <<body, llama, expired, asked>>

\* The permit of a released semaphore has been given to this puller.
StartJob(s) ==
    /\ puller[s] = "granted"
    /\ puller' = [puller EXCEPT ![s] = "running"]
    /\ upload' = [upload EXCEPT ![task[s]] = "start"]
    /\ UNCHANGED <<task, free, waiters, handed, body, llama, expired, asked>>

\* The end of run_job for puller s, which polls again: its permit goes to the
\* first waiter.  "outcome" is what became of its upload.
Release(s, outcome) ==
    /\ task' = [task EXCEPT ![s] = NoJob]
    /\ upload' = [upload EXCEPT ![task[s]] = outcome]
    /\ IF waiters = <<>>
       THEN /\ free' = free + 1
            /\ puller' = [puller EXCEPT ![s] = "polling"]
            /\ UNCHANGED waiters
       ELSE /\ waiters' = Tail(waiters)
            /\ puller' = [puller EXCEPT ![s] = "polling", ![Head(waiters)] = "granted"]
            /\ UNCHANGED free

-----------------------------------------------------------------------------
(* run_job and _envelopes, for the job j of a running puller. *)

Runs(j, states) ==
    /\ puller[SlugOf[j]] = "running"
    /\ task[SlugOf[j]] = j
    /\ upload[j] \in states

\* The generator yields e and goes to state u; l is the request to llama.
Yield(j, e, u, l) ==
    /\ body' = [body EXCEPT ![j] = Append(@, e)]
    /\ upload' = [upload EXCEPT ![j] = u]
    /\ llama' = [llama EXCEPT ![j] = l]
    /\ UNCHANGED <<pullerVars, handed, expired, asked>>

\* The deadline passed before the job came to run.
ExpiredFirst(j) ==
    /\ Runs(j, {"start"})
    /\ j \in expired
    /\ Yield(j, Error, "last", "none")

OpenLlama(j) ==
    /\ Runs(j, {"start"})
    /\ j \notin expired
    /\ upload' = [upload EXCEPT ![j] = "reading"]
    /\ llama' = [llama EXCEPT ![j] = "open"]
    /\ UNCHANGED <<pullerVars, handed, body, expired, asked>>

LlamaChunk(j) ==
    /\ Runs(j, {"reading"})
    /\ Len(body[j]) < MaxChunks
    /\ Yield(j, Chunk(Len(body[j]) + 1), "reading", "open")

\* llama-server sends [DONE].
LlamaDone(j) ==
    /\ Runs(j, {"reading"})
    /\ Yield(j, Done, "last", "completed")

\* An HTTP status that is not 200, or an httpx error while it streams.
LlamaFails(j) ==
    /\ Runs(j, {"reading"})
    /\ Yield(j, Error, "last", "failed")

\* mutant: the end of the stream is taken for [DONE].
TruncatedIsDone(j) ==
    /\ Runs(j, {"reading"})
    /\ Yield(j, Done, "last", "failed")

\* mutant: no finally block, the body just ends.
TruncatedSilently(j) ==
    /\ Runs(j, {"reading"})
    /\ upload' = [upload EXCEPT ![j] = "sent"]
    /\ llama' = [llama EXCEPT ![j] = "failed"]
    /\ UNCHANGED <<pullerVars, handed, body, expired, asked>>

\* The stream ends without [DONE]: the finally block says so.
LlamaTruncated(j) ==
    /\ Runs(j, {"reading"})
    /\ Yield(j, Error, "last", "failed")

\* mutant: sent_terminal is not set, and the finally block adds an error.
EndBodyTwice(j) ==
    /\ Runs(j, {"last"})
    /\ Yield(j, Error, "sent", llama[j])

\* The generator is resumed and ends, and with it the body of the upload.
EndBody(j) ==
    /\ Runs(j, {"last"})
    /\ upload' = [upload EXCEPT ![j] = "sent"]
    /\ UNCHANGED <<pullerVars, handed, body, llama, expired, asked>>

\* The master answers the upload, with any status, or not within 60 s.
Answered(j) ==
    /\ Runs(j, {"sent"})
    /\ Release(SlugOf[j], "sent")
    /\ UNCHANGED <<handed, body, llama, expired, asked>>

\* mutant: the permit is given back only by an upload that went well.
BrokenLeaks(j) ==
    /\ Runs(j, {"start", "reading", "last"})
    /\ puller' = [puller EXCEPT ![SlugOf[j]] = "polling"]
    /\ task' = [task EXCEPT ![SlugOf[j]] = NoJob]
    /\ upload' = [upload EXCEPT ![j] = "cut"]
    /\ UNCHANGED <<free, waiters, handed, body, llama, expired, asked>>

\* The connection to the master breaks, or the master refuses the upload with
\* 410 before its end.  run_job logs it and gives the permit back.  Nobody
\* closes the generator, which is suspended in a yield, nor the stream under it.
Broken(j) ==
    /\ Runs(j, {"start", "reading", "last"})
    /\ Release(SlugOf[j], "cut")
    /\ UNCHANGED <<handed, body, llama, expired, asked>>

\* The garbage collector comes to the abandoned generator, at any later time:
\* only now is the request to llama-server closed.
CloseAbandoned(j) ==
    /\ upload[j] = "cut" /\ llama[j] = "open"
    /\ llama' = [llama EXCEPT ![j] = "failed"]
    /\ UNCHANGED <<pullerVars, handed, upload, body, expired, asked>>

-----------------------------------------------------------------------------
(* The process. *)

\* The end of every puller but those of S, which go on with their uploads.  The
\* process, and all its connections, end with the last puller.
StopExcept(S) ==
    LET on == {task[s] : s \in S}
    IN  /\ puller' = [s \in Slugs |-> IF s \in S THEN "running" ELSE "stopped"]
        /\ task' = [s \in Slugs |-> IF s \in S THEN task[s] ELSE NoJob]
        /\ waiters' = <<>>
        /\ free' = MaxConcurrent - Cardinality(S)
        /\ upload' = [j \in Jobs |->
               IF j \in on THEN "last"
               ELSE IF j \in handed /\ upload[j] # "sent" THEN "cut"
               ELSE upload[j]]
        /\ llama' = [j \in Jobs |-> IF llama[j] = "open" /\ (S = {} \/ j \in on)
                                   THEN "failed" ELSE llama[j]]
        /\ body' = [j \in Jobs |-> IF j \in on THEN Append(body[j], Error) ELSE body[j]]
        /\ UNCHANGED <<handed, expired>>

\* A 200 that is not a job raises out of the puller, gather ends the others
\* and amain the process; so does a signal.
Exit == StopExcept({}) /\ UNCHANGED asked

\* An interrupt cancels every puller.  A generator that is in llama's stream
\* takes the cancellation for an error of the stream, sends that error and
\* lives on; the cancellation of every other await ends its puller.
Interrupt ==
    /\ ~asked
    /\ asked' = TRUE
    /\ \E S \in SUBSET {s \in Slugs : puller[s] = "running" /\ upload[task[s]] = "reading"} :
           StopExcept(S)

\* docker's "restart: unless-stopped" once the process is gone.
Restart ==
    /\ \A s \in Slugs : puller[s] = "stopped"
    /\ puller' = [s \in Slugs |-> "polling"]
    /\ free' = MaxConcurrent
    /\ UNCHANGED <<task, waiters, handed, streamVars, expired, asked>>

Expire(j) ==
    /\ j \notin expired
    /\ upload[j] \in {"none", "start"}
    /\ expired' = expired \cup {j}
    /\ UNCHANGED <<pullerVars, handed, streamVars, asked>>

-----------------------------------------------------------------------------
LlamaStep(j) == LlamaChunk(j) \/ LlamaDone(j) \/ LlamaFails(j) \/ LlamaTruncated(j)

AgentNext ==
    \/ \E s \in Slugs : \/ PollFails(s) \/ Wake(s) \/ StartJob(s)
                        \/ \E j \in Jobs : PollJob(s, j)
    \/ \E j \in Jobs :
        \/ ExpiredFirst(j) \/ OpenLlama(j)
        \/ LlamaChunk(j) \/ LlamaDone(j) \/ LlamaFails(j) \/ LlamaTruncated(j)
        \/ EndBody(j) \/ Answered(j) \/ Broken(j) \/ CloseAbandoned(j) \/ Expire(j)
    \/ Exit \/ Interrupt \/ Restart

AgentSpec == AgentInit /\ [][AgentNext]_agentVars

\* What the event loop and the timeouts of run_job see to: a task that can run
\* does, a POST that starts connects within 10 s, and one whose body is out is
\* over 60 s later.  Nothing makes llama-server send (read=None) or the master
\* read the body (write=None), so nothing is assumed of an upload under way.
AgentFairness ==
    /\ \A s \in Slugs : WF_agentVars(StartJob(s))
    /\ \A j \in Jobs :
        /\ WF_agentVars(ExpiredFirst(j) \/ OpenLlama(j))
        /\ WF_agentVars(Answered(j))

FairAgent == AgentSpec /\ AgentFairness

-----------------------------------------------------------------------------
Running == {s \in Slugs : puller[s] \in {"granted", "running"}}

\* Permits of the shared semaphore are neither lost nor made, however a job
\* ends (puller.py:46-50): free ones and running pullers add up, a puller waits
\* in line once if it waits at all, and nobody waits while a permit is free.
SlotsBalanced ==
    /\ free + Cardinality(Running) = MaxConcurrent
    /\ \A s \in Slugs : puller[s] = "acquiring" <=> \E i \in 1..Len(waiters) : waiters[i] = s
    /\ \A i, k \in 1..Len(waiters) : waiters[i] = waiters[k] => i = k
    /\ waiters # <<>> => free = 0

Open == {j \in Jobs : llama[j] = "open"}

\* At most n of these jobs, and one of each slug.
Capped(jobs, n) ==
    /\ Cardinality(jobs) <= n
    /\ \A j, k \in jobs : SlugOf[j] = SlugOf[k] => j = k

\* No llama-server is at work on two jobs, nor all of them on more than
\* MAX_CONCURRENT, but for requests left over from uploads that broke: only those
\* outlive their permit (puller.py:46-50, runner.py:65-76).  HOSTING.md:182 and
\* worker/README.md:70 speak of a cap of active jobs without that exception.
OnlyAbandonedExceed == Capped({j \in Open : upload[j] # "cut"}, MaxConcurrent)

\* The end of an upload is the truth about the stream of llama-server: done
\* exactly when llama said [DONE], whatever interrupt, error or deadline came.
EndIsTruthful ==
    \A j \in Jobs :
        /\ Len(body[j]) > 0 /\ body[j][Len(body[j])] = Done => llama[j] = "completed"
        /\ llama[j] = "completed" => body[j][Len(body[j])] = Done
        /\ upload[j] = "sent" => body[j][Len(body[j])] \in {Done, Error}

\* What Upload sees of the generator and its POST.
UploadLink == [j \in Jobs |-> IF upload[j] = "sent" THEN "closed"
                              ELSE IF upload[j] \in {"none", "cut"} THEN upload[j]
                              ELSE "open"]

Contract == INSTANCE Upload WITH link <- UploadLink

\* An upload is chunks in order and then exactly one done or error, whichever
\* of the four ways out of _envelopes it takes (runner.py:31-56).
ImplementsUpload == Contract!UploadSpec

\* The llama-server of this slug and the master go on with each upload, or break
\* it off.
GoesOn(s) ==
    \A j \in Jobs : SlugOf[j] = s => []<>(upload[j] \notin {"reading", "last"})

Served(j) == j \in handed ~> upload[j] \in {"sent", "cut"}

\* If the peers go on, the worker does: each job it has received is run, or cut
\* off, in the end.  The semaphore alone starves no puller, however uploads end
\* (puller.py:46-50).
ReceivedIsServed ==
    (\A s \in Slugs : GoesOn(s)) => \A j \in Jobs : Served(j)

\* The master takes the end of each upload, or breaks it off.
MasterReads == \A j \in Jobs : []<>(upload[j] # "last")

\* main.py:51, "one puller per slug = fairness across models, no slug starves
\* another": a slug whose llama-server goes on would be served, whatever those
\* of other slugs do, by a worker whose master reads.
NoSlugStarves ==
    MasterReads => \A s \in Slugs :
        GoesOn(s) => \A j \in Jobs : SlugOf[j] = s => Served(j)
=============================================================================
