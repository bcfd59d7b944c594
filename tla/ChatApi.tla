------------------------------- MODULE ChatApi -------------------------------
(***************************************************************************)
(* POST /v1/chat/completions: the request handler of routes/openai.py, its  *)
(* disconnect watcher and the SSE generator sse_for of streaming.py.  One   *)
(* activation of the handler per job.                                       *)
(*                                                                          *)
(* An action is the code between two awaits.  "top" is the head of the loop *)
(* that reads out_queue, "waiting" the get() it suspends in.                *)
(***************************************************************************)
EXTENDS Registry

CONSTANTS
    Streaming,  \* jobs with body.stream
    ToolMode,   \* jobs with tool_mode: sse_for buffers their chunks
    Leaving     \* bound: the clients that may hang up

ASSUME ChatAssumption ==
    Streaming \subseteq Jobs /\ ToolMode \subseteq Jobs /\ Leaving \subseteq Jobs

VARIABLES
    chat,      \* where the handler of each job is
    reply,     \* how the answer ended, "none" while it is not decided
    got,       \* the chunks taken off out_queue for the client, in order
    watching,  \* jobs whose disconnect watcher runs
    hung_up    \* clients that have closed their connection

chatVars == <<chat, reply, got, watching, hung_up>>

ChatStates == {"new", "putting", "rejecting", "top", "waiting", "writing",
               "last_write", "closing", "answered"}

\* "rejected" is 503, "timeout" 504 or the SSE timeout error, "gone" 499 or
\* the end of the stream of a client that left.
Replies == {"none", "rejected", "done", "error", "timeout", "gone"}

ChatTypeOK ==
    /\ chat \in [Jobs -> ChatStates]
    /\ reply \in [Jobs -> Replies]
    /\ got \in [Jobs -> Seq(0..MaxChunks)]
    /\ watching \subseteq Jobs
    /\ hung_up \subseteq Jobs

ChatInit ==
    /\ chat = [j \in Jobs |-> "new"]
    /\ reply = [j \in Jobs |-> "none"]
    /\ got = [j \in Jobs |-> <<>>]
    /\ watching = {}
    /\ hung_up = {}

Goto(j, s) == chat' = [chat EXCEPT ![j] = s]

\* The finally block begins: stop.set() and watcher.cancel() of _stop_watcher.
\* Its await and the call of finalize after it are the step Close.
Conclude(j, r) ==
    /\ Goto(j, "closing")
    /\ reply' = [reply EXCEPT ![j] = r]
    /\ watching' = watching \ {j}

-----------------------------------------------------------------------------
(* From the request to its place in the queue. *)

\* Register the job, start the watcher, prune the slug's queue and put the
\* job there: at once when there is room, else by waiting up to 5 s.
Arrive(j) ==
    LET m == ModelOf[j]
        live == Kept(queues[m])
    IN  /\ chat[j] = "new"
        /\ DropAll(Dead(queues[m]), in_flight \cup {j})
        /\ IF QueueFull(live)
           THEN queues' = [queues EXCEPT ![m] = live] /\ Goto(j, "putting")
           ELSE queues' = [queues EXCEPT ![m] = Append(live, j)] /\ Goto(j, "top")
        /\ watching' = watching \cup {j}
        /\ UNCHANGED <<assigned_worker, late_stream_count, user_disconnected,
                       expired, out_queue, reply, got, hung_up>>

\* A consumer has made room while the handler waited.
Enqueue(j) ==
    LET m == ModelOf[j]
    IN  /\ chat[j] = "putting"
        /\ ~QueueFull(queues[m])
        /\ queues' = [queues EXCEPT ![m] = Append(@, j)]
        /\ Goto(j, "top")
        /\ UNCHANGED <<in_flight, permitVars, counterVars, jobVars,
                       reply, got, watching, hung_up>>

\* The 5 s are over: stop the watcher, then reject.
PutTimeout(j) ==
    /\ chat[j] = "putting"
    /\ QueueFull(queues[ModelOf[j]])
    /\ Goto(j, "rejecting")
    /\ watching' = watching \ {j}
    /\ UNCHANGED <<registryVars, reply, got, hung_up>>

\* mutant: the entry is deleted from in_flight instead of finalized.
RejectByDeleting(j) ==
    /\ chat[j] = "rejecting"
    /\ in_flight' = in_flight \ {j}
    /\ Goto(j, "answered")
    /\ reply' = [reply EXCEPT ![j] = "rejected"]
    /\ UNCHANGED <<queues, permitVars, counterVars, jobVars, got, watching, hung_up>>

Reject(j) ==
    /\ chat[j] = "rejecting"
    /\ finalize(j, "queue_rejected")
    /\ Goto(j, "answered")
    /\ reply' = [reply EXCEPT ![j] = "rejected"]
    /\ UNCHANGED <<queues, assigned_worker, drop_counts, late_stream_count,
                   user_disconnected, expired, out_queue, got, watching, hung_up>>

-----------------------------------------------------------------------------
(* The loop that turns envelopes into an answer. *)

\* sse_for asks request.is_disconnected() at the head of its loop.
SeeHangup(j) ==
    /\ j \in Streaming \cap hung_up
    /\ chat[j] = "top"
    /\ user_disconnected' = user_disconnected \cup {j}
    /\ Conclude(j, "gone")
    /\ UNCHANGED <<queueVars, permitVars, counterVars, final_reason, expired,
                   out_queue, got, hung_up>>

\* The deadline has passed.  A stream writes the timeout error and [DONE] and
\* finalizes at its end; the other handler finalizes first and answers 504.
UserTimeout(j) ==
    IF j \in Streaming
    THEN /\ Goto(j, "last_write")
         /\ reply' = [reply EXCEPT ![j] = "timeout"]
         /\ UNCHANGED <<registryVars, got, watching, hung_up>>
    ELSE /\ finalize(j, "user_timeout")
         /\ Conclude(j, "timeout")
         /\ UNCHANGED <<queues, assigned_worker, drop_counts, late_stream_count,
                        user_disconnected, expired, out_queue, got, hung_up>>

\* The check of the deadline at the head of the loop.
DeadlineAtTop(j) ==
    /\ chat[j] = "top"
    /\ j \in expired
    /\ j \notin Streaming \cap hung_up
    /\ UserTimeout(j)

\* The get() of the loop finds nothing and suspends.
Await(j) ==
    /\ chat[j] = "top"
    /\ j \notin expired
    /\ j \notin Streaming \cap hung_up
    /\ out_queue[j] = <<>>
    /\ Goto(j, "waiting")
    /\ UNCHANGED <<registryVars, reply, got, watching, hung_up>>

\* The get() returns: without suspending at the head of the loop, else later.
Gets(j) ==
    /\ \/ chat[j] = "top" /\ j \notin expired /\ j \notin Streaming \cap hung_up
       \/ chat[j] = "waiting"
    /\ out_queue[j] # <<>>
    /\ out_queue' = [out_queue EXCEPT ![j] = Tail(@)]

\* The handler that does not stream looks at the flag after each envelope.
SeesFlag(j) == j \notin Streaming /\ j \in user_disconnected

TakeGone(j) ==
    /\ Gets(j)
    /\ SeesFlag(j)
    /\ finalize(j, "client_disconnected")
    /\ Conclude(j, "gone")
    /\ UNCHANGED <<queues, assigned_worker, drop_counts, late_stream_count,
                   user_disconnected, expired, got, hung_up>>

\* mutant: tool mode does not keep the chunk for the end.
TakeChunkUnbuffered(j) ==
    /\ Gets(j)
    /\ ~SeesFlag(j)
    /\ Head(out_queue[j]).type = "chunk"
    /\ got' = IF j \in ToolMode THEN got
              ELSE [got EXCEPT ![j] = Append(@, Head(out_queue[j]).n)]
    /\ Goto(j, IF j \in Streaming \ ToolMode THEN "writing" ELSE "top")
    /\ UNCHANGED <<queueVars, permitVars, counterVars, final_reason,
                   user_disconnected, expired, reply, watching, hung_up>>

\* A stream yields the chunk and waits for the client to read it; in tool
\* mode, and when it does not stream, the handler keeps it for the end.
TakeChunk(j) ==
    /\ Gets(j)
    /\ ~SeesFlag(j)
    /\ Head(out_queue[j]).type = "chunk"
    /\ got' = [got EXCEPT ![j] = Append(@, Head(out_queue[j]).n)]
    /\ Goto(j, IF j \in Streaming \ ToolMode THEN "writing" ELSE "top")
    /\ UNCHANGED <<queueVars, permitVars, counterVars, final_reason,
                   user_disconnected, expired, reply, watching, hung_up>>

\* A done or error envelope ends the answer.
TakeEnd(j) ==
    LET kind == Head(out_queue[j]).type
    IN  /\ Gets(j)
        /\ ~SeesFlag(j)
        /\ kind \in {"done", "error"}
        /\ IF j \in Streaming
           THEN /\ Goto(j, "last_write")
                /\ reply' = [reply EXCEPT ![j] = kind]
                /\ UNCHANGED watching
           ELSE Conclude(j, kind)
        /\ UNCHANGED <<queueVars, permitVars, counterVars, final_reason,
                       user_disconnected, expired, got, hung_up>>

\* mutant: the timer drops an envelope the get() had already been given.
GetTimeoutLosing(j) ==
    /\ chat[j] = "waiting"
    /\ j \in Streaming
    /\ Goto(j, "writing")
    /\ out_queue' = [out_queue EXCEPT ![j] = IF @ = <<>> THEN @ ELSE Tail(@)]
    /\ UNCHANGED <<queueVars, permitVars, counterVars, final_reason,
                   user_disconnected, expired, reply, got, watching, hung_up>>

\* mutant: every timeout of the get() is taken for the deadline.
GetTimeoutEarly(j) == chat[j] = "waiting" /\ UserTimeout(j)

\* mutant: a get() without a timeout.
GetTimeoutNever(j) == FALSE

\* The get() times out: at the deadline when the handler does not stream, and
\* after 15 s, or at the deadline if that is sooner, with a keepalive when it
\* does.  The timer may win against an envelope that has just arrived.
GetTimeout(j) ==
    /\ chat[j] = "waiting"
    /\ IF j \in Streaming
       THEN /\ Goto(j, "writing")
            /\ UNCHANGED <<registryVars, reply, got, watching, hung_up>>
       ELSE j \in expired /\ UserTimeout(j)

\* The client has read what the generator yielded, which goes on.
WriteDone(j) ==
    /\ chat[j] = "writing"
    /\ Goto(j, "top")
    /\ UNCHANGED <<registryVars, reply, got, watching, hung_up>>

\* It has read the last of the stream: [DONE].
LastWriteDone(j) ==
    /\ chat[j] = "last_write"
    /\ Conclude(j, reply[j])
    /\ UNCHANGED <<registryVars, got, hung_up>>

\* The server cancels the body of a StreamingResponse whose client left, at
\* whatever await or yield it is; the finally block of _stream runs.
Cancelled(j) ==
    /\ j \in Streaming \cap hung_up
    /\ chat[j] \in {"top", "waiting", "writing", "last_write"}
    /\ Conclude(j, IF reply[j] = "none" THEN "gone" ELSE reply[j])
    /\ UNCHANGED <<registryVars, got, hung_up>>

\* mutant: the finally block only stops the watcher.
CloseOnly(j) ==
    /\ chat[j] = "closing"
    /\ Goto(j, "answered")
    /\ UNCHANGED <<registryVars, reply, got, watching, hung_up>>

\* The rest of the finally block of either handler.
Close(j) ==
    /\ chat[j] = "closing"
    /\ finalize(j, IF j \in Streaming THEN "client_stream_closed"
                                      ELSE "client_response_closed")
    /\ Goto(j, "answered")
    /\ UNCHANGED <<queues, assigned_worker, drop_counts, late_stream_count,
                   user_disconnected, expired, out_queue,
                   reply, got, watching, hung_up>>

-----------------------------------------------------------------------------
(* The disconnect watcher, the clock and the client. *)

WatchHangup(j) ==
    /\ j \in watching \cap hung_up
    /\ user_disconnected' = user_disconnected \cup {j}
    /\ watching' = watching \ {j}
    /\ UNCHANGED <<queueVars, permitVars, counterVars, final_reason, expired,
                   out_queue, chat, reply, got, hung_up>>

\* is_disconnected() raises: the watcher gives up silently.  Nothing but its
\* missing the hang-up comes of it, so one that fails does so after that.
WatchFails(j) ==
    /\ j \in watching \cap hung_up
    /\ watching' = watching \ {j}
    /\ UNCHANGED <<registryVars, chat, reply, got, hung_up>>

\* The clock passes deadline_at; nobody looks once the job is over.
Expire(j) ==
    /\ j \notin expired
    /\ chat[j] \notin {"new", "answered"}
    /\ expired' = expired \cup {j}
    /\ UNCHANGED <<queueVars, permitVars, counterVars, final_reason,
                   user_disconnected, out_queue, chatVars>>

HangUp(j) ==
    /\ j \in Leaving \ hung_up
    /\ chat[j] \notin {"new", "answered"}
    /\ hung_up' = hung_up \cup {j}
    /\ UNCHANGED <<registryVars, chat, reply, got, watching>>

\* Steps of the handler and the watcher that the event loop runs by itself.
ChatStep(j) ==
    \/ Enqueue(j) \/ PutTimeout(j) \/ Reject(j)
    \/ SeeHangup(j) \/ DeadlineAtTop(j) \/ Await(j)
    \/ TakeGone(j) \/ TakeChunk(j) \/ TakeEnd(j) \/ GetTimeout(j)
    \/ Cancelled(j) \/ Close(j) \/ WatchHangup(j)

\* Steps that wait for the client to read its connection.
ClientReads(j) == WriteDone(j) \/ LastWriteDone(j)
=============================================================================
