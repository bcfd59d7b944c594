# Verification of the self-hosted Himalaya GPT API

TLA+ specifications of `src/api`: a *master* on a public host takes OpenAI-style
chat requests and queues them; *workers* behind a firewall long-poll the master,
run each job on a local llama-server and stream the answer back in a chunked
upload, which the master turns into the client's answer. TLC checks small
instances; TLAPS proves the theorems for every value of the constants.

## 1. The system

| Part | Source (`api/…`) | State | Operations |
|---|---|---|---|
| Job registry | `master/app/queue.py` | a bounded FIFO per slug, `in_flight`, a semaphore per worker, counters, the fields of `Job` | `register`, `finalize`, `skip_reason`, `prune_queue`, `get`, counters, `snapshot` |
| Chat completions | `master/app/routes/openai.py` | one handler, one disconnect watcher per request | enqueue or 503, wait for envelopes, 504, 499, 502, stream |
| SSE | `streaming.py: sse_for` | the generator of a stream | keepalive, chunk, tool buffering, end, timeout |
| Worker routes | `master/app/routes/internal.py` | one handler per poll and per upload | `poll`, `stream`, `status` |
| Upload parser | `streaming.py: parse_ndjson` | a byte buffer | lines to envelopes |
| Worker agent | `worker/agent/app/{main,puller,runner,llama_client}.py` | a puller per slug, a semaphore they share | poll, run a job, upload its envelopes |
| Tool calling | `master/app/tool_calling.py`, `streaming.py` | the text of a turn | prompt rewriting, parsing of calls, shape of the answer |
| Auth, rate limit, schemas, config, health | `master/app/*.py` | the limiter's | turn requests away; readiness |
| llama-server, model download, reverse proxy | compose files | external | |

They meet in two places. The **registry** is shared by every handler of the master.
All of them are coroutines of one event loop, so what runs between two `await`s is
atomic, and everything else interleaves: a job may be finalized by its client's
handler, by a poll that finds it dead, by a prune on behalf of *another* request,
by a poll that cannot put it back, or by the end of its upload. `Job.out_queue`
carries **envelopes** (chunks, then done or error) from the upload handler to the
client's handler; it has 64 places and either side may be slow or gone.

What is hard here: permits that must come back exactly once whoever finalizes;
jobs that sit in nobody's queue while a poll waits for a permit; flags and
deadlines that change during that wait; a client that leaves, stalls, or leaves
its deadline behind; workers that vanish before, during and after an upload; full
queues on both sides; timers racing what they time; and, across the two hosts, answers that
get lost, ends that the two sides see at different points, and restarts of either. `PROJECT.json` lists each
of these hazards at its line with the properties that cover it.

What makes the parts correct, in a sentence each: *registry*: a job is finalized
once and its permit comes back once; *poll*: a job is in one place at a time, is
never lost, and goes only to a worker with a free permit while somebody wants it;
*chat*: each request is answered, for a true cause, and its job is gone afterwards;
*upload*: the client gets the worker's chunks in order, and an end; *parser*: the
envelopes do not depend on how the network cuts the body; *agent*: the shared permit
comes back whatever happens, and each upload has one truthful end; *tools*: what the
client is told does not depend on whether it streams, each call is told once, and the
next prompt says what the client was told; *both hosts*: each side does only what the
other is written for, and "done" means what llama-server meant.

## 2. Modules

| Module | Models | Notes |
|---|---|---|
| `Envelope` | the lines of an upload | chunks are numbers |
| `Registry` | `queue.py` | operators the handlers compose |
| `ChatApi` | `openai.py`, `sse_for` | `chat[j]` is the program counter of the handler of `j` |
| `WorkerApi` | `internal.py` | `poll[p]`, `up[j]` are the program counters of polls and uploads |
| `Master` | the three together | one disjunct of `Next` per action; the properties |
| `JobService` | nothing: the abstract promise about jobs | implemented by `Master` |
| `Selection` | nothing: the part of a sequence at given positions | filters a theorem can be stated about |
| `Ndjson` | `parse_ndjson` | bytes are `nl`, `sp`, `json`, `bad` |
| `Upload` | nothing: the abstract contract of an upload | implemented by `Agent` |
| `Agent` | the worker process | master and llama-servers are its environment |
| `System` | master and one worker, over connections that break | `Master` extended, `Agent` instantiated |
| `ToolCalling` | `tool_calling.py` | texts are sequences of tags, JSON objects and prose |
| `ToolTurn` | the turns of a conversation with tools, the shapes of `streaming.py` | a state machine over `ToolCalling` |
| `MC…` | | instances for TLC |
| `SelectionProofs` | | lemmas about `Select`; induction over a set of naturals |
| `MasterProofs`, `CauseProofs`, `ServiceProofs` | | theorems about `Master`: each module extends the one before |
| `AgentProofs` | | theorems about `Agent` |
| `SystemProofs` | | theorems about `System`, from those about both sides |
| `NdjsonProofs` | | theorems about `Ndjson`, for bodies of any length |
| `ToolProofs` | | theorems about `ToolCalling` and `ToolTurn`, for texts and conversations of any length |

**Steps.** An action is the code from one `await` to the next. Where an `await`
need not suspend (a `get()` on a queue that is not empty, an `acquire()` of a
free semaphore) the model still ends the step there in the worker's routes and in
the loop of the client's handler. That gives a few more interleavings than the
event loop has and no fewer. A timer that fires at the moment its condition comes
true is the same as one that fires just before, so most timeouts are guarded by
the condition still being false (`PutTimeout`, `AcquireTimeout`, `PollGiveUp`,
`PutDrop`); `GetTimeout`, whose outcome differs, is not.

**`chat[j]`.** `new`: no request yet. `putting`: waits up to 5 s for room in the queue.
`rejecting`: stops its watcher before 503. `top` / `waiting`: the head of the read
loop, and its `get()`. `writing` / `last_write`: suspended in a `yield`, until the
client reads. `closing`: in the `finally` block. `answered`: over. `reply[j]` says how:
`rejected` 503, `timeout` 504 or the SSE timeout error, `gone` 499 or an abandoned
stream, `error` 502 or an SSE error, `done`.

**`poll[p]`** is one HTTP long poll: `getting`, then `acquiring` with its job in
`hand[p]`. Two polls of one worker and slug exist because the server does not end
the handler of a poll whose connection has gone. **`up[j]`**: `reading`; `putting`, an
envelope that waits for room; `failing`, the error of a broken upload that does;
`terminal[j]` is `terminal_reason`. `sent` and `lost` are history variables: what has
arrived, and what was dropped after 10 s.

**Clock.** `expired` is the set of jobs with `time.time() >= deadline_at`. It grows at
any time between arrival and answer.

**Abstraction.** The content of a chunk is its number. Rejections before the job is made
(401, 429, 400) leave no state. `reason` strings are kept, as are the counters.
`Job.done` is set and never awaited: left out. `pop` is not called.

**Agent.** A puller is `polling`, `sleeping`, `acquiring` (in `waiters`, first come
first served, as `asyncio.Semaphore` is), `granted`, `running` or `stopped`.
`upload[j]` folds `run_job` and the generator `_envelopes`; `Broken` is a connection to
the master that breaks or a 410. It gives the permit back and leaves the request to
llama-server open: nobody calls `aclose` on `_envelopes` or `stream_chat`, and an `aclose` by a
finalizer meets the `yield` of the `finally` block (`runner.py:53`). `CloseAbandoned` is the garbage
collector, at any later time or never. `Exit` is an exception that leaves a puller, which
ends the gather and the process. `Interrupt` cancels every puller; a generator that is
inside llama's stream takes the cancellation for an error of the stream, sends it
and goes on. `Restart` is compose's restart policy.

**System.** `Master` leaves the worker open and `Agent` the master; here each is the
other's environment. `line[m]` is the poll the puller of slug `m` waits for, `answer[m]`
a job on its way to it, `taken[j]` how much of the body of an upload has arrived.
`Regular` steps are those of the two programs, each joined to what it does to the
other side: a poll's handler that ends puts its job into the answer of the
puller that waits, if one still does (`Respond`), the lines of a body arrive in order
(`Arrives`), the response ends `run_job`. `Mishap` steps, at most `MaxMishaps` of
them, are the rest: a poll or an upload that breaks or times out, a client that leaves, a deadline
by the clock of either host (`expired` and `overdue`), the end or an interrupt of the
worker, a restart of the master. `MasterRestart` forgets all jobs and resets all
permits; the worker goes on with what it has and is refused with 410.

**Tools.** A text is a sequence of pieces: tags and fences, whole JSON objects (the function
they name, if any, and the shape of their arguments), python calls, prose, and the
head of an object that never gets complete. `Spans` is what `finditer` of a lazy
pattern gives, a scan from the left (`Covered`); `Marked` are the layers of `parse_tool_calls` in their order and
`Bare` the last. `ToolTurn` runs a conversation: `Ask` writes the prompt, `Chunk` is a delta
of llama-server, `Done` shapes the answer twice from the same chunks, as
`aggregate_chat_completion` and as `_tool_stream_chunks` do, and `FollowUp` is the
client that keeps the answer and sends a result for each call; it may have begun with a system
message of its own (`Beginnings`). Left out: white space,
the sample values of the examples (`_example_value`) and the wording of the system
prompt with its `tool_choice` sentences; an object that names its function under
`function`, which reads like one with `name`, except in the last layer, which wants `name`;
calls in a history that the master never gave.

## 3. Runs

| Run | Instance | Asks |
|---|---|---|
| `queue` | 2 requests without streaming, one may hang up; queue of 1, 1 permit, 2 polls | custody, permits, exactly-once finalization, dispatch of live jobs only, `ImplementsService` |
| `stream` | 1 stream that may hang up, 3 chunks, `out_queue` of 2 | order and completeness, causes, ends; liveness |
| `three` | 3 requests, queue of 1, 1 poll | the requeue onto a full queue |
| `live_queue` | 2 requests, 1 permit | answers and permits with no help from workers; the clients wait |
| `agent` | 2 slugs, 3 jobs, 1 permit | semaphore, open requests, ends of uploads, contract, service |
| `ndjson` | all bodies up to 5 bytes, all cuts | equality with the lines of the whole body |
| `tool_turn` | 2 turns, 3 chunks with text among them, 16 fragments, 4 kinds of request | the answer to a tool turn and the next prompt |
| `system` | 2 slugs with a job each, 1 slot, 1 chunk, 1 mishap; one job streams in tool mode | what each side assumes of the other, and the answer end to end |

The bounds are the smallest at which every action fires. A queue of one place and
one permit make "full" and "busy" reachable with two requests; the failed requeue
takes three: one runs, one is in a poll's hand, one fills the queue. Two places in
`out_queue` and three chunks give a full queue with a chunk or an end waiting.
Two polls suffice to have two jobs in hands, or one in a hand while another poll
prunes. In `tool_turn` three chunks make every tag meet every other in every order,
with something between or around, and a whole call is one fragment, so that two
parallel calls and prose fit; the second turn has a history. `system` has two slugs
because a puller waits at the worker only for another puller's job. One mishap
at any point suffices for each kind of fault, and for the client that leaves while its
job runs. Pairs of faults were left out for the sake of a chunk in the stream; with
`MaxMishaps = 2`, `MaxChunks = 0` and no streaming the three invariants hold in the
instance's 2.2 million states too. Deadlock is checked: there is no point at which
both programs wait for each other.
`SYMMETRY` is used for polls and for jobs that no definition tells apart,
and in no run with a temporal property that needs fairness.

Four runs find what the repository says and the code does not do:

- `upload_blocked`: `internal.py:110` and `:118` put the error of a failed upload with no
  timeout. If `out_queue` is full and the client leaves, the handler waits for ever;
  `internal.py:98` promises to "drop instead of blocking the upload".
- `full_queue`: a poll that cannot put its job back because the queue has filled up
  finalizes it and tells nobody; its client gets 504 at the deadline and not the 503
  of `HOSTING.md:119`.
- `stalled_reader`: a stream looks at the deadline only between two yields. A client
  that keeps the connection but does not read, and a worker that never ends its
  upload, hold the permit past the deadline; `config.py:27` says the master "frees the slot".
- `agent_hung`: llama-server is read with no timeout under the permit all slugs share.
  With `MAX_CONCURRENT` below the number of slugs (the default equals it) one hung
  llama-server starves the others, against `worker/agent/app/main.py:51`, though the
  others' llama-servers go on and the master reads (`MasterReads`).

The `agent` run checks `OnlyAbandonedExceed` and not the plain cap of `HOSTING.md:182`
("Active-job cap shared across all per-quant pullers") and `worker/README.md:70` ("one active
job for each per-quant llama service"): when an upload breaks, its permit goes to the next job
(`puller.py:50`) while its request to llama-server is still open, so that for a while one
llama-server may be at work on two jobs, and more requests may be open than `MAX_CONCURRENT`.
Without `upload[j] # "cut"` in that invariant TLC finds this in six states.

**Fairness.** `LoopFairness`: a handler whose await is over runs, timers fire,
deadlines come. Nothing is assumed of workers (uploads may never start, never go on)
nor, in `LoopSpec`, of clients. `ReadingSpec` adds that a client reads or leaves,
without which a `yield` may suspend for ever. Without it `DeadlineFreesSlot` fails; with it
`EveryRequestAnswered` and `PermitComesBack` hold. `AgentFairness`: a task that can run does, a
POST that starts connects within 10 s, and one whose body is out is over 60 s later. The 60 s
begin only then: the body is written without a timeout (`runner.py:71`, `write=None`) and
llama-server is read without one (`llama_client.py:29`), so nothing is assumed of an upload
under way. That the peers go on with it is a condition of `ReceivedIsServed` (`GoesOn`): a
master that stops reading, or a llama-server that hangs, may hold the shared permit for ever.

## 4. Proofs

Every safety property that a passing run checks is a theorem.

*Induction.* The induction theorems of the library take a predicate as a parameter, which
no installed prover can instantiate. `NatSetInduction` (`SelectionProofs`) says the same of
a set: one that holds 0 and with each number the next holds all. A recursive function or a
fold is then reasoned about by an explicit walk along its argument: `Walks` for `Kept`,
`CoverStep` for `Covered`, `Joins` for `FlattenSeq`. In the same way filters are stated by
positions: `Select(s, I)` is a value that depends on a set, and `SelectBy` says that it
reads `s` along any increasing enumeration of `I`.

**Master.** `MasterProofs` starts with the lemmas about the registry: `Kept`, a recursion
over a queue, yields a sequence of live jobs of that queue, finite sets, and the types of
`FinalizeAll`, `finalize` and `DropAll`. It then proves `Spec => []TypeOK`. The one part
that is not immediate is `sem \in [Workers -> Nat]`: no permit count goes below zero.

Its second part proves `PermitsConserved`, `OneCustodian` and `Placement` from the
inductive invariant `IInv`. None of the three is inductive alone. A requeue keeps jobs
apart only if the job in hand is in no queue; an arrival only if a job whose handler
has not put it yet is nowhere; a pruning conserves permits only if `holding` is
exactly the assigned jobs in flight, since `finalize` frees by `holding` and
`PermitsConserved` counts by assignment. `IInv` says so place by place. Most steps are
covered at once: they move no job (`QuietPlaces`) and settle permits by a finalization or
not at all (`PermitStep`). What remains is `Arrive`, `Enqueue` and the polls, which replace
one queue by a part of it with perhaps one job appended (`NewQueue`, `AppendPart`), and
`Assign`, which alone takes a permit.

`CauseProofs` first proves `FinalizedOnce`, `AnsweredIsReleased` and the action property
`NeverDispatchDead` from `SInv`: `IInv`, and that a job is in flight from its
registration to its finalization. The size of each set of jobs with a reason grows by
those a finalization pops, which are disjoint from it (`FinalizeAllSettles`). The drops of a
pruning count the same jobs under the same reason (`DropAllSettles`), so
`drop_counts` follows `finalized_counts`; no other step finalizes with `expired`.
`IInv` is needed at one point: the pruning inside `Arrive` must not find the new job.

It then proves `NoneForgotten`, `AnswerHasCause` and `SilentOnlyIf` from `CInv`:
`SInv`, and for each job how its upload, the reason noted for it, its `out_queue` and
its client stand to each other (`JobOK`). An answer is taken from the queue, so its cause
must hold when the envelope is put (`EndsOK`); that nothing is in the queue of a job
without an upload, and that nobody but the upload finalizes a job whose upload
is open and whose client is not answered, is `UploadOK`. `HeardOK` is what `SilentOnlyIf`
lacks: between the end envelope and the end of the body the job is not final yet,
and its reader has the end in its queue or it was dropped. Most steps touch
one job, and do to any other no more than finalize it in a pruning; such a *bystander*
keeps its part (`Bystander`), so each action is argued for its own job only.

`ServiceProofs` first proves `InOrder` and `DoneIsComplete` from `OInv`: `CInv`, and that
dropped chunks have been sent and wait no more (`LostOK`), that a `done` in the queue comes
after all chunks, with none missing (`LastOK`), and, while the job is in flight, that what
the client has or has before it is *exactly* what was put (`OrderOK`). `CInv` is needed
because nothing may be put after `done`: the handler reads on until the body ends.

It then proves the refinement `Spec => Service!ServiceSpec` step by step, under
the mapping `PhaseOf`, `AnswerOf`: a step of bystanders is a stutter or `Discard`;
`Arrive` is `Submit` with the jobs its pruning finds; `Assign` is `Start`, whose capacity
comes from `PermitsConserved`; a finalization of an assigned job is `Finish`; the end of a
handler is `Answer`, whose guards are `AnswerHasCause`.

**Agent.** `AgentProofs` proves `AgentTypeOK`, `SlotsBalanced`, `OnlyAbandonedExceed`, `EndIsTruthful` and,
for each upload, the refinement of `Upload`, all from `AInv`. It ties together where a puller
is (`TasksMatch`), what its generator has yielded (`BodiesMatch`) and the request to
llama-server (`LlamaMatch`): the cap counts open requests, the semaphore counts pullers,
and only an invariant that gives every open request of an unbroken upload its own running
puller compares them.

**System.** `SystemProofs` proves `AssumptionsMet`, `EndToEnd` and `WaitsOnlyForGhosts`. Each step of
`System` but a restart of the master is a step or a stutter of `Master` and a step or a
stutter of `Agent` (`SystemSteps`), so `IInv` and `AInv` hold of it by the lemmas above;
`AgentProofs` is instantiated, and what it assumes is proved of `System`'s constants
(`WorkerAssumed`). `SystemInv` adds what stands between the hosts: polls and answers on
their way (`LinesOK`, `GivenOK`), how much of a body has been read, as a count of its lines
against `sent`, `terminal` and `env` (`BodyOK`), and that a `done` which a client hears or
will hear is the last line of a body read to its end (`TrueOK`). A restart of the master
breaks `JobOK` and `StreamOK`, which speak of one life of the master; `FateOK` keeps them
for the jobs of this life, and says of the forgotten ones that nothing is done for
them any more. For `WaitsOnlyForGhosts`, suppose a job somebody waits for
is in line and every running puller's job is in flight too. Then all slots are taken (`SlotsBalanced`), the
tasks in flight outnumber the slots, each holds a permit of the worker
(`GivenOK`), and there are no more permits than slots (`PermitsConserved`).

**Parser.** `NdjsonProofs` proves `LinesNotLate` and `WholeBody` for bodies of any length, cut in any way,
from `ParserInv`: the buffer is the end of what has arrived and begins after a newline
(`BufferOK`), and what was given out are the JSON lines that end before it (`OutOK`).
Neither property is inductive, since both speak of what has arrived and the parser
looks at its buffer only. That the lines of the reference that end in what has arrived do not change when
more arrives is `EnvelopesStay`, that each newline adds one, `OneLine`.

**Tools.** `ToolProofs` has three parts. The first is about reading: matches do not
overlap and each ends at a tag that closes it (`SpansFacts`); a layer takes at most one call
from each match, from inside it (`FromSpansFacts`, for each layer by `Reads`); no tag is
left in what is shown (`NoTagIsShown`); a text whose opening tags each begin a complete call
is read as exactly these calls, and the rest of it is its text (`TaggedRead`); one in which
nothing opens is read as it is (`PlainRead`). The second is the inductive invariant `TurnInv`: what a
stream has buffered is the text of all chunks and its finish_reason the last one
(`ChunksOK`: the two paths of `streaming.py` agree envelope by envelope), the prompt is
what the request and the history make, and every message with calls in the history is the
assistant's, its calls numbered, its text without tags (`HistoryOK`). The third are the properties.
`SameAnswer` follows from `ChunksOK`. No message but the tool prompt tells of tools
(`NoToolsInPieces`), the client's own system message included; `ModeIsPrompted` and `ExampleFits` follow from the parts of
the prompt (`PromptParts`): whatever functions and history there are, the last example ends with a
call that is read as one, or with prose. `HistoryRoundTrip` is the fold of three pieces for each call
(`FlattenTriples`) read back by `TaggedRead`, since the text before them has no tag: this is where
`strip_leaked_markup` is needed. `WellFormedIsRead` is `TaggedRead` with the prose as what is outside the
calls. For `CalledOrShown`, calls and text are *drawn* from two disjoint sets of places of the
text, no two from one place (`Parted`), so a name is in both together no more often than
in the text; what is stripped later only makes it less.

Assumptions: `RegistryAssumption`, `ChatAssumption`, `WorkerAssumption`, which
say no more than that the sets are what they are, jobs are finite, and a queue has
at least one place (`asyncio.Queue(maxsize=0)` would have no bound);
`AgentAssumption`, likewise, with at least one slot; and `SystemAssumption`, which adds that
there is one worker, since `System` has the state of one. `NoNameIsNone` says that the mark of
an object without a name is no name; `RequestsAreRequests` and `FragmentsAreText` are the types
of what a client and llama-server may send. TLC evaluates all of them.

Only model-checked: what has fairness in it (`EveryRequestAnswered`, `PermitComesBack`,
`ReceivedIsServed`), which is out of the prover's reach, and the four runs that find a
violation.

## 5. Not modelled

- A stream whose body generator is never started by the server (`openai.py:111`).
- Which of several waiting producers or polls is served first.
- A line that is JSON but no object, which no worker sends.
- Authentication, rate limits and rejected models: they turn a request away before a
  job exists; the fixed windows of the limiter are a library's.
- Readiness (`mark_poll`, `/readyz`), `/internal/status`, `/v1/models`: reads of what
  handlers leave behind. A worker whose pullers all run long jobs makes `/readyz`
  answer 503, since a poll is noted when it starts (`health.py:17`).
- Contents that are lists (`schemas.py:10`), in which an assistant's turn with calls
  fails at `tool_calling.py:196` before a job is registered.
- Arguments of python calls that JSON does not have: `ast.literal_eval` (`tool_calling.py:343`,
  `:348`) may give a set, bytes or a complex number, on which `json.dumps` raises at `:469`. The
  request ends with 500, or its stream breaks off, and the job is finalized.
- A llama-server that serves one request at a time and lets a new one wait behind an
  abandoned one: what it does with two is its own affair.
- Closing tags inside JSON strings and tags cut in two by the removal of others:
  tags are whole pieces.

## 6. What reading tool calls turned up

The properties of `tool_turn` hold as stated, and their preconditions name the limits:

- Objects inside one that does not decode are read as calls: after `<tool_call>{"x": `
  an argument that is an object with a `name` becomes the call, although
  `tool_calling.py:360` says "Malformed fragments are skipped". Hence `WellFormedIsRead`
  speaks of text without torn objects.
- An unclosed last call is read only if no complete one precedes it
  (`tool_calling.py:375`); otherwise its JSON stays in the text the user sees.
- A call found without markup (the last layer) is reported and shown as well, by
  design (`tool_calling.py:420`). Hence the precondition of `CalledOrShown`.

## 7. Plan

1. Done: registry, chat, worker routes, their composition, the agent, the parser;
   theorems on types, permits, custody, finalization and dispatch.
2. Done: tool calling and the answers shaped from it; master and worker together,
   with lost answers, broken uploads, two clocks and restarts.
3. Done: the safety properties of `Master`, `Agent` and `System` and both refinements as
   theorems.
4. Done: the parser for bodies of any length, and tool calling for texts and
   conversations of any length, as theorems.
5. Left: the liveness properties stay with TLC; the hazards without a property are listed
   in `PROJECT.json` with the reason.
