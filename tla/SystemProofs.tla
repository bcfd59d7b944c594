---------------------------- MODULE SystemProofs ----------------------------
(***************************************************************************)
(* Master and worker together, proved for every set of jobs and slugs, any   *)
(* bounds and any number of mishaps: each side does only what the other is   *)
(* written for, and what it says at the end is true.                         *)
(*                                                                         *)
(* Every step of the system but a restart of the master is one of Master,    *)
(* or leaves it alone, and one of Agent, or leaves that alone.  So the       *)
(* invariants of the two carry over, where they hold after a restart, and    *)
(* what is left to prove is what ties them together.                         *)
(***************************************************************************)
EXTENDS System, ServiceProofs

\* The theorems about the worker.
W == INSTANCE AgentProofs WITH
    Slugs <- Models, SlugOf <- ModelOf, MaxConcurrent <- Slots,
    expired <- overdue

\* A puller that waits for a poll polls its own slug, and has no answer on its
\* way to it.
LinesOK ==
    /\ line \in [Models -> Polls \cup {NoPoll}]
    /\ answer \in [Models -> Jobs \cup {NoJob}]
    /\ taken \in [Jobs -> Nat]
    /\ \A m \in Models : line[m] # NoPoll =>
           PollModel[line[m]] = m /\ puller[m] = "polling" /\ answer[m] = NoJob

\* A job on its way to the worker was assigned, and has not been there yet.
GivenOK ==
    /\ \A j \in handed : Assigned(j)
    /\ \A m \in Models : answer[m] # NoJob =>
           Assigned(answer[m]) /\ answer[m] \notin handed /\ ModelOf[answer[m]] = m

\* The first n lines of the body of j have an end among them.
EndsBy(j, n) == n > 0 /\ body[j][n] \in {Done, Error}

\* How the master's handler of an upload stands to the body it reads.
BodyOK(j) ==
    /\ taken[j] \in 0..Len(body[j])
    /\ upload[j] = "none" => up[j] = "none"
    /\ up[j] = "none" => taken[j] = 0
    /\ sent[j] = IF EndsBy(j, taken[j]) THEN taken[j] - 1 ELSE taken[j]
    /\ up[j] = "reading" /\ terminal[j] # "none" => EndsBy(j, taken[j])
    /\ up[j] = "putting" => taken[j] > 0 /\ env[j] = body[j][taken[j]]

\* The client is told "done", or will be, only if the master has the whole body
\* and it ends with done.
HearsDone(j) ==
    \/ \E i \in 1..Len(out_queue[j]) : out_queue[j][i].type = "done"
    \/ reply[j] = "done"

TrueOK(j) ==
    /\ HearsDone(j) => /\ EndsBy(j, taken[j]) /\ taken[j] = Len(body[j])
                       /\ body[j][taken[j]] = Done
    /\ reply[j] = "done" => WholeOK(j) /\ Increasing(got[j])

\* A job of the master's last life, answered and not finalized.
Forgotten(j) == chat[j] = "answered" /\ ~Finalized(j)

FateOK(j) ==
    /\ MemberOK(j) /\ UploadOK(j) /\ ReplyOK(j)
    /\ IF Forgotten(j) THEN up[j] \in {"none", "ended"} ELSE JobOK(j) /\ StreamOK(j)

SystemInv ==
    /\ IInv /\ W!AInv
    /\ LinesOK /\ GivenOK
    /\ AnsweredIsReleased /\ user_disconnected \subseteq hung_up
    /\ \A j \in Jobs : BodyOK(j) /\ TrueOK(j) /\ FateOK(j)

-----------------------------------------------------------------------------
(* The constants of the worker are as its theorems assume. *)

LEMMA WorkerAssumed ==
    /\ W!IsFiniteSet(Models) /\ W!IsFiniteSet(Jobs)
    /\ ModelOf \in [Jobs -> Models]
    /\ Slots \in Nat \ {0}
    /\ NoJob \notin Jobs
    /\ MaxChunks \in Nat
BY SystemAssumption, RegistryAssumption, WorkerAssumption DEF IsFiniteSet, W!IsFiniteSet

(* System and the theorems about the worker speak of the same actions. *)
LEMMA SamePolls ==
    ASSUME NEW m \in Models, NEW j
    PROVE  /\ Worker!PollFails(m) <=> W!PollFails(m)
           /\ Worker!Wake(m) <=> W!Wake(m)
           /\ Worker!StartJob(m) <=> W!StartJob(m)
           /\ Worker!PollJob(m, j) <=> W!PollJob(m, j)
BY DEF Worker!PollFails, W!PollFails, Worker!Wake, W!Wake, Worker!StartJob, W!StartJob,
       Worker!PollJob, W!PollJob, Worker!streamVars, W!streamVars

LEMMA SameUploads ==
    ASSUME NEW j \in Jobs
    PROVE  /\ Worker!ExpiredFirst(j) <=> W!ExpiredFirst(j)
           /\ Worker!LlamaStep(j) <=> W!LlamaStep(j)
           /\ Worker!OpenLlama(j) <=> W!OpenLlama(j)
           /\ Worker!EndBody(j) <=> W!EndBody(j)
           /\ Worker!Answered(j) <=> W!Answered(j)
           /\ Worker!Broken(j) <=> W!Broken(j)
           /\ Worker!Expire(j) <=> W!Expire(j)
           /\ Worker!CloseAbandoned(j) <=> W!CloseAbandoned(j)
<1>1. /\ Worker!ExpiredFirst(j) <=> W!ExpiredFirst(j)
      /\ Worker!OpenLlama(j) <=> W!OpenLlama(j)
      /\ Worker!EndBody(j) <=> W!EndBody(j)
      /\ Worker!Expire(j) <=> W!Expire(j)
      /\ Worker!CloseAbandoned(j) <=> W!CloseAbandoned(j)
  BY DEF Worker!CloseAbandoned, W!CloseAbandoned, Worker!ExpiredFirst, W!ExpiredFirst, Worker!OpenLlama, W!OpenLlama, Worker!EndBody,
         W!EndBody, Worker!Expire, W!Expire, Worker!Runs, W!Runs, Worker!Yield, W!Yield,
         Worker!Error, W!Error, Worker!pullerVars, W!pullerVars, Worker!streamVars,
         W!streamVars
<1>2. Worker!LlamaStep(j) <=> W!LlamaStep(j)
  BY DEF Worker!LlamaStep, W!LlamaStep, Worker!LlamaChunk, W!LlamaChunk, Worker!LlamaDone,
         W!LlamaDone, Worker!LlamaFails, W!LlamaFails, Worker!LlamaTruncated,
         W!LlamaTruncated, Worker!Runs, W!Runs, Worker!Yield, W!Yield, Worker!Error,
         W!Error, Worker!Done, W!Done, Worker!Chunk, W!Chunk,
         Worker!pullerVars, W!pullerVars
<1>3. /\ Worker!Answered(j) <=> W!Answered(j)
      /\ Worker!Broken(j) <=> W!Broken(j)
  BY DEF Worker!Answered, W!Answered, Worker!Broken, W!Broken, Worker!Runs, W!Runs,
         Worker!Release, W!Release
<1>. QED  BY <1>1, <1>2, <1>3

LEMMA SameProcess ==
    /\ Worker!Exit => W!Exit
    /\ Worker!Interrupt => W!Interrupt
    /\ Worker!Restart => W!Restart
    /\ Worker!AgentInit => W!AgentInit
<1>1. \A S : Worker!StopExcept(S) <=> W!StopExcept(S)
  BY DEF Worker!StopExcept, W!StopExcept, Worker!Error, W!Error, Worker!Cardinality,
         W!Cardinality
<1>. QED  BY <1>1 DEF Worker!Exit, W!Exit, Worker!Interrupt, W!Interrupt, Worker!Restart,
                      W!Restart, Worker!streamVars, W!streamVars, Worker!AgentInit, W!AgentInit

-----------------------------------------------------------------------------
(* The steps of the system, by who moves. *)

\* A client or its handler.
ClientActs(j) == ChatAction(j) /\ UNCHANGED <<workerVars, workVars, linkVars>>

\* The handler of an upload, but for taking in a line of it.
UploadActs(j) ==
    /\ \/ Open(j) /\ upload[j] # "none"
       \/ PutDone(j) \/ PutDrop(j) \/ FailPut(j) \/ Eof(j) \/ Abort(j)
    /\ UNCHANGED <<chatVars, workVars, linkVars>>

\* The worker, by itself, in what no poll is about.
WorkerActs ==
    /\ \/ \E m \in Models : W!Wake(m) \/ W!StartJob(m)
       \/ \E j \in Jobs :
           \/ W!ExpiredFirst(j) \/ W!LlamaStep(j) \/ W!OpenLlama(j) \/ W!EndBody(j)
           \/ W!Answered(j) \/ W!Broken(j) \/ W!Expire(j) \/ W!CloseAbandoned(j)
       \/ W!Restart
    /\ UNCHANGED <<vars, linkVars>>

\* The worker has the answer of a poll, or gives polls up.
Receives(m) ==
    /\ answer[m] # NoJob
    /\ W!PollJob(m, answer[m])
    /\ answer' = [answer EXCEPT ![m] = NoJob]
    /\ UNCHANGED <<vars, line, taken>>

Forsakes ==
    \/ \E m \in Models : W!PollFails(m) /\ Forsake({m})
    \/ (W!Exit \/ W!Interrupt) /\ Forsake(Models)

(* Every step of System is one of these. *)
LEMMA SystemSteps ==
    ASSUME SystemNext
    PROVE  \/ \E j \in Jobs : ClientActs(j)
           \/ \E m \in Models, p \in Polls : Poll(m, p)
           \/ \E p \in Polls : PollHandler(p)
           \/ \E j \in Jobs : UploadActs(j)
           \/ \E j \in Jobs : Arrives(j)
           \/ WorkerActs
           \/ \E m \in Models : Receives(m)
           \/ Forsakes
           \/ MasterRestart
<1>. DEFINE Goal == \/ \E j \in Jobs : ClientActs(j)
                    \/ \E m \in Models, p \in Polls : Poll(m, p)
                    \/ \E p \in Polls : PollHandler(p)
                    \/ \E j \in Jobs : UploadActs(j)
                    \/ \E j \in Jobs : Arrives(j)
                    \/ WorkerActs
                    \/ \E m \in Models : Receives(m)
                    \/ Forsakes
                    \/ MasterRestart
<1>1. ASSUME NEW j \in Jobs, ClientSide(j) \/ ClientMishap(j) PROVE Goal
  <2>1. ClientActs(j)
    BY <1>1 DEF ClientSide, ClientMishap, ClientActs, ChatAction, ChatStep, ClientReads
  <2>. QED  BY <2>1
<1>2. ASSUME NEW j \in Jobs, OpenUpload(j) \/ EndUpload(j) \/ UploadHandler(j) PROVE Goal
  <2>1. UploadActs(j)
    BY <1>2 DEF OpenUpload, EndUpload, UploadHandler, UploadStep, UploadActs
  <2>. QED  BY <2>1
<1>3. ASSUME NEW j \in Jobs,
             UploadAnswered(j) \/ UploadRefused(j) \/ Works(j) \/ ClockMishap(j) \/ UploadMishap(j)
      PROVE  Goal
  <2>1. \/ W!ExpiredFirst(j) \/ W!LlamaStep(j) \/ W!OpenLlama(j) \/ W!EndBody(j)
        \/ W!Answered(j) \/ W!Broken(j) \/ W!Expire(j) \/ W!CloseAbandoned(j)
    BY <1>3, SameUploads DEF UploadAnswered, UploadRefused, Works, ClockMishap, UploadMishap
  <2>2. UNCHANGED <<vars, linkVars>>
    BY <1>3 DEF UploadAnswered, UploadRefused, Works, ClockMishap, UploadMishap
  <2>3. WorkerActs
    BY <2>1, <2>2 DEF WorkerActs
  <2>. QED  BY <2>3
<1>4. ASSUME NEW m \in Models, Deliver(m) PROVE Goal
  <2>1. Receives(m)
    BY <1>4, SamePolls DEF Deliver, Receives
  <2>. QED  BY <2>1
<1>5. ASSUME NEW m \in Models, Starts(m) PROVE Goal
  <2>1. WorkerActs
    BY <1>5, SamePolls DEF Starts, WorkerActs
  <2>. QED  BY <2>1
<1>6. CASE Restarts
  <2>1. WorkerActs
    BY <1>6, SameProcess DEF Restarts, WorkerActs
  <2>. QED  BY <2>1
<1>7. ASSUME NEW m \in Models, LosePoll(m) PROVE Goal
  <2>1. Forsakes
    BY <1>7, SamePolls DEF LosePoll, Forsakes
  <2>. QED  BY <2>1
<1>8. CASE ProcessMishap
  <2>1. Forsakes
    BY <1>8, SameProcess DEF ProcessMishap, Forsakes
  <2>. QED  BY <2>1
<1>9. CASE Mishap
  BY <1>9, <1>1, <1>3, <1>7, <1>8 DEF Mishap
<1>10. CASE Regular
  BY <1>10, <1>1, <1>2, <1>3, <1>4, <1>5, <1>6 DEF Regular
<1>. QED  BY <1>9, <1>10 DEF SystemNext

(* A step of System is one of Master, or a restart of it. *)
LEMMA MasterMoves ==
    ASSUME SystemNext, ~MasterRestart
    PROVE  [Next]_vars
<1>1. CASE \E j \in Jobs : ClientActs(j)
  BY <1>1, NextActions DEF ClientActs
<1>2. ASSUME NEW p \in Polls, \/ \E m \in Models : Poll(m, p)
                              \/ PollHandler(p)
      PROVE  PollAction(p) /\ UNCHANGED chatVars
  BY <1>2 DEF Poll, PollHandler, PollAction, Respond
<1>3. CASE \E j \in Jobs : UploadActs(j)
  BY <1>3, NextActions DEF UploadActs, UploadAction
<1>4. ASSUME NEW j \in Jobs, Arrives(j)
      PROVE  UploadAction(j) /\ UNCHANGED chatVars
  BY <1>4 DEF Arrives, UploadAction, Receive
<1>5. CASE WorkerActs \/ Forsakes \/ \E m \in Models : Receives(m)
  BY <1>5 DEF WorkerActs, Forsakes, Forsake, Receives
<1>. QED  BY <1>1, <1>2, <1>3, <1>4, <1>5, SystemSteps, NextActions

(* And one of Agent. *)
LEMMA WorkerMoves ==
    ASSUME SystemNext, ~MasterRestart, LinesOK
    PROVE  [W!AgentNext]_(W!agentVars)
<1>1. CASE UNCHANGED workVars
  BY <1>1 DEF workVars, W!agentVars, W!pullerVars, W!streamVars
<1>2. CASE WorkerActs
  BY <1>2 DEF WorkerActs, W!AgentNext, W!LlamaStep
<1>3. CASE \E m \in Models : Receives(m)
  <2>1. PICK m \in Models : answer[m] \in Jobs /\ W!PollJob(m, answer[m])
    BY <1>3 DEF Receives, LinesOK
  <2>. QED  BY <2>1 DEF W!AgentNext
<1>4. CASE Forsakes
  BY <1>4 DEF Forsakes, W!AgentNext
<1>5. CASE \/ \E j \in Jobs : ClientActs(j) \/ UploadActs(j) \/ Arrives(j)
           \/ \E p \in Polls : PollHandler(p) \/ \E m \in Models : Poll(m, p)
  <2>1. UNCHANGED workVars
    BY <1>5 DEF ClientActs, UploadActs, Arrives, PollHandler, Poll, Respond
  <2>. QED  BY <1>1, <2>1
<1>. QED  BY <1>2, <1>3, <1>4, <1>5, SystemSteps

-----------------------------------------------------------------------------
(* The invariants of the two sides. *)

LEMMA InitSystemInv == SystemInit => SystemInv
<1>. SUFFICES ASSUME SystemInit PROVE SystemInv
  OBVIOUS
<1>1. IInv /\ W!AInv
  BY InitIInv, W!InitAInv, WorkerAssumed, SameProcess DEF SystemInit
<1>2. LinesOK /\ GivenOK
  BY DEF SystemInit, LinesOK, GivenOK, Worker!AgentInit
<1>3. CInv /\ OInv
  BY InitCInv, InitOInv DEF SystemInit
<1>4. AnsweredIsReleased /\ user_disconnected \subseteq hung_up
  BY <1>3 DEF CInv, SInv
<1>5. ASSUME NEW j \in Jobs PROVE BodyOK(j) /\ TrueOK(j) /\ FateOK(j)
  <2>1. /\ body[j] = <<>> /\ taken[j] = 0 /\ up[j] = "none" /\ sent[j] = 0
        /\ reply[j] = "none" /\ out_queue[j] = <<>> /\ chat[j] = "new"
    BY DEF SystemInit, Worker!AgentInit, Init, RegistryInit, ChatInit, WorkerInit
  <2>2. BodyOK(j)
    BY <2>1 DEF BodyOK, EndsBy
  <2>3. TrueOK(j)
    BY <2>1 DEF TrueOK, HearsDone
  <2>4. MemberOK(j) /\ JobOK(j) /\ StreamOK(j) /\ ~Forgotten(j)
    BY <1>3, <2>1, MembersOK DEF OInv, CInv, Forgotten
  <2>. QED  BY <2>2, <2>3, <2>4 DEF FateOK, JobOK
<1>. QED  BY <1>1, <1>2, <1>4, <1>5 DEF SystemInv

LEMMA RestartType ==
    ASSUME TypeOK, MasterRestart
    PROVE  TypeOK'
<1>1. RegistryTypeOK'
  BY RegistryAssumption DEF TypeOK, RegistryTypeOK, MasterRestart
<1>2. ChatTypeOK'
  BY DEF TypeOK, ChatTypeOK, MasterRestart, ChatStates, Replies
<1>3. WorkerTypeOK'
  BY DEF TypeOK, WorkerTypeOK, MasterRestart
<1>. QED  BY <1>1, <1>2, <1>3 DEF TypeOK

\* A master that starts again has nothing in any place, and all its permits.
LEMMA RestartIInv ==
    ASSUME IInv, MasterRestart
    PROVE  IInv'
<1>. TypeOK /\ PlacesOK
  BY DEF IInv
<1>1. TypeOK'
  BY RestartType
<1>2. \A m \in Models : QueueOK(m)'
  BY DEF MasterRestart, QueueOK
<1>3. \A p \in Polls : HandOK(p)'
  BY WorkerAssumption DEF MasterRestart, HandOK
<1>4. \A j \in Jobs : Assigned(j)' => chat'[j] \notin Early
  BY DEF PlacesOK, MasterRestart, Assigned, Early, TypeOK, ChatTypeOK
<1>5. HoldingOK'
  BY DEF HoldingOK, MasterRestart
<1>6. PermitsConserved'
  <2>1. \A w \in Workers : Running(w)' = {} /\ sem'[w] = MaxConcurrent
    BY DEF MasterRestart, Running
  <2>. QED  BY <2>1, FS_EmptySet, RegistryAssumption DEF PermitsConserved
<1>. QED  BY <1>1, <1>2, <1>3, <1>4, <1>5, <1>6 DEF IInv, PlacesOK

\* To the worker it is a poll that fails, for every puller that polls it.
LEMMA RestartAInv ==
    ASSUME W!AInv, LinesOK, MasterRestart
    PROVE  W!AInv'
<1>1. /\ \A m \in Models : \/ puller'[m] = puller[m]
                           \/ puller[m] = "polling" /\ puller'[m] = "sleeping"
      /\ puller' \in [Models -> W!PullerStates]
      /\ UNCHANGED <<task, free, waiters, handed, upload, body, llama, asked, overdue>>
  BY DEF W!AInv, W!AgentTypeOK, W!PullerStates, LinesOK, MasterRestart
<1>2. W!AgentTypeOK'
  BY <1>1 DEF W!AInv, W!AgentTypeOK
<1>3. W!TasksMatch'
  BY <1>1, WorkerAssumed DEF W!AInv, W!TasksMatch
<1>4. W!SlotsBalanced'
  <2>1. W!Running' = W!Running
    BY <1>1 DEF W!Running
  <2>. QED  BY <1>1, <2>1 DEF W!AInv, W!SlotsBalanced
<1>5. W!BodiesMatch' /\ W!LlamaMatch'
  BY <1>1 DEF W!AInv, W!BodiesMatch, W!LlamaMatch, W!HasEnd
<1>. QED  BY <1>2, <1>3, <1>4, <1>5 DEF W!AInv

LEMMA SidesOK ==
    ASSUME IInv, W!AInv, LinesOK, SystemNext
    PROVE  IInv' /\ W!AInv'
<1>1. CASE MasterRestart
  BY <1>1, RestartIInv, RestartAInv
<1>2. CASE ~MasterRestart
  <2>1. IInv'
    BY <1>2, MasterMoves, StepIInv
  <2>2. [W!AgentNext]_(W!agentVars)
    BY <1>2, WorkerMoves
  <2>3. W!AgentTypeOK' /\ W!SlotsBalanced' /\ W!TasksMatch' /\ W!BodiesMatch' /\ W!LlamaMatch'
    BY <2>2, WorkerAssumed, W!StepAgentType, W!StepSlots, W!StepTasks, W!StepBodies
  <2>. QED  BY <2>1, <2>3 DEF W!AInv
<1>. QED  BY <1>1, <1>2

-----------------------------------------------------------------------------
(* Polls and the jobs they bring. *)

\* Pullers that poll go on polling in the steps that no poll is about.
LEMMA PollingGoesOn ==
    ASSUME W!AInv, WorkerActs, NEW m \in Models, puller[m] = "polling"
    PROVE  puller'[m] = "polling" /\ handed' = handed
<1>. W!AgentTypeOK /\ W!TasksMatch /\ W!SlotsBalanced
  BY DEF W!AInv
<1>1. CASE \E n \in Models : W!Wake(n) \/ W!StartJob(n)
  BY <1>1 DEF W!Wake, W!StartJob, W!AgentTypeOK
<1>2. CASE \E j \in Jobs : W!ExpiredFirst(j) \/ W!LlamaStep(j)
  BY <1>2 DEF W!ExpiredFirst, W!LlamaStep, W!LlamaChunk, W!LlamaDone, W!LlamaFails,
              W!LlamaTruncated, W!Yield, W!pullerVars
<1>3. CASE \E j \in Jobs : \/ W!OpenLlama(j) \/ W!EndBody(j) \/ W!Expire(j)
                         \/ W!CloseAbandoned(j)
  BY <1>3 DEF W!OpenLlama, W!EndBody, W!Expire, W!CloseAbandoned, W!pullerVars
<1>4. ASSUME NEW j \in Jobs, W!Answered(j) \/ W!Broken(j)
      PROVE  puller'[m] = "polling" /\ handed' = handed
  <2>1. PICK o : W!Release(ModelOf[j], o)
    BY <1>4 DEF W!Answered, W!Broken
  <2>2. ModelOf[j] \in Models /\ puller[ModelOf[j]] = "running"
    BY <1>4, WorkerAssumed DEF W!Answered, W!Broken, W!Runs
  <2>3. puller'[m] = puller[m] \/ puller[m] = "acquiring"
    BY <2>1, <2>2, WorkerAssumed, W!ReleaseFacts
  <2>4. handed' = handed
    BY <1>4 DEF W!Answered, W!Broken
  <2>. QED  BY <2>3, <2>4
<1>5. CASE W!Restart
  BY <1>5 DEF W!Restart
<1>. QED  BY <1>1, <1>2, <1>3, <1>4, <1>5 DEF WorkerActs

LEMMA HandedGrows ==
    ASSUME W!AInv, WorkerActs
    PROVE  handed' = handed
BY DEF WorkerActs, W!Wake, W!StartJob, W!ExpiredFirst, W!LlamaStep, W!LlamaChunk, W!LlamaDone,
       W!LlamaFails, W!LlamaTruncated, W!Yield, W!OpenLlama, W!EndBody, W!Expire, W!Answered,
       W!Broken, W!CloseAbandoned, W!Restart

LEMMA StepLines ==
    ASSUME IInv, W!AInv, LinesOK, SystemNext
    PROVE  LinesOK'
<1>. /\ puller \in [Models -> W!PullerStates]
     /\ hand \in [Polls -> Jobs \cup {NoJob}]
  BY DEF W!AInv, W!AgentTypeOK, IInv, TypeOK, WorkerTypeOK
<1>. taken' \in [Jobs -> Nat]
  <2>1. CASE \E j \in Jobs : Arrives(j)
    BY <2>1 DEF Arrives, LinesOK
  <2>2. CASE ~\E j \in Jobs : Arrives(j)
    <3>1. taken' = taken
      BY <2>2, SystemSteps DEF ClientActs, UploadActs, Poll, PollHandler, Respond, WorkerActs,
         Receives, Forsakes, Forsake, MasterRestart, linkVars
    <3>. QED  BY <3>1 DEF LinesOK
  <2>. QED  BY <2>1, <2>2
<1>1. CASE \E j \in Jobs : ClientActs(j) \/ UploadActs(j) \/ Arrives(j)
  <2>1. UNCHANGED <<line, answer, puller>>
    BY <1>1 DEF ClientActs, UploadActs, Arrives, linkVars, workVars
  <2>. QED  BY <2>1 DEF LinesOK
<1>2. CASE \E m \in Models, p \in Polls : Poll(m, p)
  BY <1>2, SystemAssumption DEF Poll, LinesOK, workVars
<1>3. ASSUME NEW p \in Polls, PollHandler(p) PROVE LinesOK'
  <2>1. PICK r \in Jobs \cup {NoJob} : Respond(p, r) /\ (r = NoJob \/ poll'[p] = "idle")
    BY <1>3 DEF PollHandler, Assign, Handover, IInv, TypeOK, WorkerTypeOK
  <2>. QED  BY <2>1, SystemAssumption DEF Respond, LinesOK, workVars
<1>4. CASE WorkerActs
  <2>1. UNCHANGED <<line, answer>>
    BY <1>4 DEF WorkerActs, linkVars
  <2>. QED  BY <1>4, <2>1, PollingGoesOn DEF LinesOK
<1>5. ASSUME NEW m \in Models, Receives(m) PROVE LinesOK'
  <2>1. \A n \in Models \ {m} : puller'[n] = puller[n]
    BY <1>5 DEF Receives, W!PollJob
  <2>. QED  BY <1>5, <2>1 DEF Receives, LinesOK
<1>6. CASE Forsakes
  <2>1. ASSUME NEW m \in Models, W!PollFails(m), Forsake({m}) PROVE LinesOK'
    BY <2>1 DEF W!PollFails, Forsake, LinesOK
  <2>2. CASE Forsake(Models)
    BY <2>2 DEF Forsake, LinesOK
  <2>. QED  BY <1>6, <2>1, <2>2 DEF Forsakes
<1>7. CASE MasterRestart
  BY <1>7 DEF MasterRestart, LinesOK
<1>. QED  BY <1>1, <1>2, <1>3, <1>4, <1>5, <1>6, <1>7, SystemSteps

LEMMA StillAssigned ==
    ASSUME IInv, SystemNext, NEW j \in Jobs, Assigned(j)
    PROVE  Assigned(j)'
<1>. TypeOK /\ PlacesOK
  BY DEF IInv
<1>1. CASE UNCHANGED assigned_worker
  BY <1>1 DEF Assigned
<1>2. ASSUME NEW k \in Jobs, ClientActs(k) PROVE UNCHANGED assigned_worker
  BY <1>2, RequestPlaces DEF ClientActs
<1>3. ASSUME NEW p \in Polls, PollAction(p) PROVE Assigned(j)'
  BY <1>3, PollEffects DEF PollEffect
<1>4. ASSUME NEW k \in Jobs, UploadActs(k) \/ Arrives(k) PROVE UNCHANGED assigned_worker
  <2>1. UploadAction(k)
    BY <1>4 DEF UploadActs, Arrives, UploadAction, Receive
  <2>. QED  BY <2>1, UploadIsQuiet
<1>5. CASE WorkerActs \/ Forsakes \/ MasterRestart \/ \E m \in Models : Receives(m)
  BY <1>1, <1>5 DEF WorkerActs, Forsakes, Forsake, Receives, MasterRestart, vars,
     registryVars, permitVars
<1>6. ASSUME NEW p \in Polls, PollHandler(p) \/ \E m \in Models : Poll(m, p)
      PROVE  PollAction(p)
  BY <1>6 DEF PollHandler, Poll, PollAction
<1>. QED  BY <1>1, <1>2, <1>3, <1>4, <1>5, <1>6, SystemSteps

\* A job is given to the worker once: one that it has been assigned is in no
\* hands any more.
LEMMA StepGiven ==
    ASSUME IInv, W!AInv, LinesOK, GivenOK, SystemNext
    PROVE  GivenOK'
<1>. /\ handed \subseteq Jobs
     /\ \A m \in Models : answer[m] \in Jobs \cup {NoJob}
  BY DEF W!AInv, W!AgentTypeOK, LinesOK
<1>1. CASE handed' = handed /\ \A m \in Models : answer'[m] \in {answer[m], NoJob}
  BY <1>1, StillAssigned DEF GivenOK
<1>2. CASE \/ \E j \in Jobs : ClientActs(j) \/ UploadActs(j) \/ Arrives(j)
           \/ \E m \in Models, p \in Polls : Poll(m, p)
  <2>1. UNCHANGED <<handed, answer>>
    BY <1>2 DEF ClientActs, UploadActs, Arrives, Poll, workVars, linkVars
  <2>. QED  BY <1>1, <2>1
<1>3. ASSUME NEW p \in Polls, PollHandler(p) PROVE GivenOK'
  <2>1. handed' = handed
    BY <1>3 DEF PollHandler, Respond, workVars
  <2>2. CASE Respond(p, NoJob)
    BY <1>1, <2>1, <2>2 DEF Respond
  <2>3. CASE Assign(p) /\ Respond(p, hand[p])
    <3>1. /\ hand[p] \in Jobs /\ ModelOf[hand[p]] = PollModel[p]
          /\ ~Assigned(hand[p])
      <4>1. HandOK(p) /\ poll[p] = "acquiring"
        BY <2>3 DEF IInv, PlacesOK, Assign
      <4>2. hand[p] \in Jobs
        BY <4>1 DEF HandOK
      <4>. QED  BY <4>1, <4>2 DEF HandOK
    <3>2. assigned_worker'[hand[p]] # NoWorker
      BY <2>3, <3>1, RegistryAssumption, WorkerAssumption
         DEF Assign, Handover, Assigned, IInv, TypeOK, RegistryTypeOK
    <3>3. hand[p] \notin handed
      BY <3>1 DEF GivenOK
    <3>4. \A m \in Models : \/ answer'[m] = answer[m]
                            \/ answer'[m] = hand[p] /\ line[m] = p
      BY <2>3 DEF Respond
    <3>5. \A m \in Models : line[m] = p => PollModel[p] = m
      BY SystemAssumption DEF LinesOK
    <3>6. \A j \in handed' : Assigned(j)'
      BY <2>1, StillAssigned DEF GivenOK
    <3>7. ASSUME NEW m \in Models, answer'[m] # NoJob
          PROVE  /\ assigned_worker'[answer'[m]] # NoWorker
                 /\ answer'[m] \notin handed' /\ ModelOf[answer'[m]] = m
      <4>1. CASE answer'[m] = answer[m]
        <5>1. /\ Assigned(answer[m]) /\ answer[m] \notin handed /\ ModelOf[answer[m]] = m
              /\ answer[m] \in Jobs
          BY <3>7, <4>1 DEF GivenOK
        <5>. QED  BY <2>1, <4>1, <5>1, StillAssigned DEF Assigned
      <4>2. CASE answer'[m] = hand[p] /\ line[m] = p
        BY <2>1, <3>1, <3>2, <3>3, <3>5, <4>2
      <4>. QED  BY <3>4, <4>1, <4>2
    <3>. QED  BY <3>6, <3>7 DEF GivenOK, Assigned
  <2>. QED  BY <1>3, <2>2, <2>3 DEF PollHandler
<1>4. CASE WorkerActs
  <2>1. UNCHANGED <<handed, answer>>
    BY <1>4, HandedGrows DEF WorkerActs, linkVars
  <2>. QED  BY <1>1, <2>1
<1>5. ASSUME NEW m \in Models, Receives(m) PROVE GivenOK'
  <2>1. /\ handed' = handed \cup {answer[m]} /\ answer[m] \in Jobs
        /\ Assigned(answer[m]) /\ ModelOf[answer[m]] = m
        /\ answer' = [answer EXCEPT ![m] = NoJob]
    BY <1>5 DEF Receives, W!PollJob, GivenOK
  <2>2. \A n \in Models : answer'[n] # NoJob => n # m /\ answer'[n] = answer[n]
    BY <2>1 DEF LinesOK
  <2>. QED  BY <2>1, <2>2, StillAssigned DEF GivenOK
<1>6. CASE Forsakes
  <2>1. handed' = handed
    BY <1>6 DEF Forsakes, W!PollFails, W!Exit, W!Interrupt, W!StopExcept
  <2>2. \A m \in Models : answer'[m] \in {answer[m], NoJob}
    BY <1>6 DEF Forsakes, Forsake
  <2>. QED  BY <1>1, <2>1, <2>2
<1>7. CASE MasterRestart
  BY <1>1, <1>7 DEF MasterRestart
<1>. QED  BY <1>2, <1>3, <1>4, <1>5, <1>6, <1>7, SystemSteps

-----------------------------------------------------------------------------
(* The body of an upload, as the worker writes and the master reads it. *)

LEMMA BodyShape ==
    ASSUME W!AInv, NEW j \in Jobs
    PROVE  /\ body[j] \in Seq(Envelopes) /\ Len(body[j]) \in Nat
           /\ \A i \in 1..Len(body[j]) :
                  /\ body[j][i] \in Envelopes
                  /\ \/ body[j][i] = Chunk(i)
                     \/ i = Len(body[j]) /\ body[j][i] \in {Done, Error}
           /\ W!HasEnd(j) <=> EndsBy(j, Len(body[j]))
<1>1. body[j] \in Seq(Envelopes)
  BY DEF W!AInv, W!AgentTypeOK, W!Envelopes, Envelopes
<1>2. \A i \in 1..Len(body[j]) :
          \/ body[j][i] = Chunk(i)
          \/ i = Len(body[j]) /\ body[j][i] \in {Done, Error}
  BY DEF W!AInv, W!BodiesMatch, W!Chunk, Chunk, W!Done, Done, W!Error, Error
<1>3. W!HasEnd(j) <=> EndsBy(j, Len(body[j]))
  BY DEF W!HasEnd, EndsBy, W!Done, Done, W!Error, Error
<1>. QED  BY <1>1, <1>2, <1>3

\* A body only grows, and not after its end.
LEMMA BodyKept ==
    ASSUME W!AInv, LinesOK, SystemNext, NEW j \in Jobs
    PROVE  /\ Len(body'[j]) \in Nat /\ Len(body[j]) <= Len(body'[j])
           /\ \A i \in 1..Len(body[j]) : body'[j][i] = body[j][i]
           /\ EndsBy(j, Len(body[j])) => body'[j] = body[j]
           /\ upload'[j] = "none" => upload[j] = "none"
<1>1. body[j] \in Seq(Envelopes) /\ (W!HasEnd(j) <=> EndsBy(j, Len(body[j])))
  BY BodyShape
<1>2. CASE MasterRestart
  BY <1>1, <1>2 DEF MasterRestart
<1>3. CASE ~MasterRestart
  <2>1. /\ \/ body'[j] = body[j]
           \/ ~W!HasEnd(j) /\ \E e : body'[j] = Append(body[j], e)
        /\ upload'[j] = "none" => upload[j] = "none"
    BY <1>3, WorkerMoves, WorkerAssumed, W!WorkerGoesOn
  <2>2. ASSUME NEW e, body'[j] = Append(body[j], e)
        PROVE  /\ Len(body'[j]) = Len(body[j]) + 1
               /\ \A i \in 1..Len(body[j]) : body'[j][i] = body[j][i]
    <3>1. body[j] \in Seq(Envelopes \cup {e}) /\ e \in Envelopes \cup {e}
      BY <1>1
    <3>. QED  BY <2>2, <3>1
  <2>. QED  BY <1>1, <2>1, <2>2
<1>. QED  BY <1>2, <1>3

LEMMA BodyAside ==
    ASSUME W!AInv, LinesOK, SystemNext, NEW j \in Jobs, BodyOK(j),
           SameStream(j), taken'[j] = taken[j]
    PROVE  BodyOK(j)'
<1>1. \A n \in 0..Len(body[j]) : EndsBy(j, n)' <=> EndsBy(j, n)
  <2>1. ASSUME NEW n \in 0..Len(body[j]), n > 0 PROVE body'[j][n] = body[j][n]
    BY <2>1, BodyKept, BodyShape
  <2>. QED  BY <2>1 DEF EndsBy
<1>. QED  BY <1>1, BodyKept, BodyShape DEF BodyOK, SameStream, EndsBy

\* Up to n lines are read, and none of them is an end but the last.
LEMMA EndIsLast ==
    ASSUME W!AInv, NEW j \in Jobs, NEW n \in 0..Len(body[j]), EndsBy(j, n)
    PROVE  n = Len(body[j])
<1>1. n \in 1..Len(body[j]) /\ body[j][n] \in {Done, Error}
  BY BodyShape DEF EndsBy
<1>2. body[j][n] # Chunk(n)
  BY <1>1, ChunkFields
<1>. QED  BY <1>1, <1>2, BodyShape

LEMMA HandlerReads ==
    ASSUME TypeOK, W!AInv, NEW j \in Jobs, BodyOK(j), UploadOK(j), UploadActs(j)
    PROVE  BodyOK(j)'
<1>1. UNCHANGED <<upload, body, taken, sent>>
  BY DEF UploadActs, workVars, linkVars, Open, PutDone, PutDrop, FailPut, Eof, Abort, Fail,
         Conclusion, uploadVars, registryVars
<1>2. \A n : EndsBy(j, n)' <=> EndsBy(j, n)
  BY <1>1 DEF EndsBy
<1>. /\ up \in [Jobs -> {"none", "reading", "putting", "failing", "ended"}]
     /\ terminal \in [Jobs -> UploadReasons \cup {"none"}]
  BY DEF TypeOK, WorkerTypeOK
<1>3. CASE Open(j) /\ upload[j] # "none"
  BY <1>1, <1>2, <1>3 DEF Open, BodyOK, UploadOK
<1>4. CASE PutDone(j) \/ PutDrop(j)
  <2>1. /\ up[j] = "putting" /\ up'[j] = "reading" /\ terminal[j] = "none"
        /\ taken[j] > 0 /\ env[j] = body[j][taken[j]]
        /\ terminal'[j] = After(j, env[j]) /\ env[j] \in Envelopes
    BY <1>4 DEF PutDone, PutDrop, Noted, After, UploadOK, BodyOK, TypeOK, WorkerTypeOK
  <2>2. terminal'[j] # "none" => EndsBy(j, taken[j])
    <3>1. taken[j] \in 1..Len(body[j])
      BY <2>1, BodyShape DEF BodyOK
    <3>2. env[j] = Chunk(taken[j]) \/ env[j] \in {Done, Error}
      BY <2>1, <3>1, BodyShape
    <3>3. After(j, Chunk(taken[j])) = "none"
      BY <2>1, ChunkFields DEF After, Terminal
    <3>. QED  BY <2>1, <3>2, <3>3 DEF EndsBy
  <2>. QED  BY <1>1, <1>2, <2>1, <2>2 DEF BodyOK
<1>5. CASE FailPut(j) \/ Eof(j) \/ Abort(j)
  <2>1. up'[j] \in {"failing", "ended"} /\ up[j] \in {"reading", "failing"}
    BY <1>5 DEF FailPut, Eof, Abort, Fail, Conclusion
  <2>. QED  BY <1>1, <1>2, <2>1 DEF BodyOK
<1>. QED  BY <1>3, <1>4, <1>5 DEF UploadActs

LEMMA LineArrives ==
    ASSUME TypeOK, W!AInv, LinesOK, NEW j \in Jobs, BodyOK(j), Arrives(j)
    PROVE  BodyOK(j)'
<1>. DEFINE n == taken[j] + 1
            e == body[j][n]
<1>1. /\ n \in 1..Len(body[j]) /\ taken'[j] = n /\ n - 1 = taken[j]
      /\ UNCHANGED <<upload, body>>
      /\ up[j] = "reading" /\ e \in NextEnvelopes(j) /\ terminal[j] = "none"
  BY BodyShape DEF Arrives, Receive, BodyOK, workVars, NextEnvelopes, LinesOK
<1>2. e = Chunk(n) \/ e \in {Done, Error}
  BY <1>1, BodyShape
<1>3. ~EndsBy(j, taken[j])
  BY <1>1, EndIsLast DEF BodyOK
<1>4. EndsBy(j, taken[j])' <=> e \in {Done, Error}
  BY <1>1 DEF EndsBy
<1>5. sent'[j] = IF EndsBy(j, taken[j])' THEN n - 1 ELSE n
  <2>1. sent'[j] = IF e.type = "chunk" THEN sent[j] + 1 ELSE sent[j]
    BY DEF Arrives, Receive, TypeOK, WorkerTypeOK
  <2>. QED  BY <1>1, <1>2, <1>3, <1>4, <2>1 DEF BodyOK, Chunk, Done, Error
<1>6. /\ up'[j] \in {"reading", "putting"}
      /\ up'[j] = "putting" => env'[j] = e
      /\ up'[j] = "reading" => terminal'[j] \in {terminal[j], After(j, e)}
  BY <1>1 DEF Arrives, Receive, TypeOK, WorkerTypeOK, Noted, After
<1>7. After(j, e) = "none" \/ e \in {Done, Error}
  BY <1>1, <1>2, ChunkFields DEF After, Terminal
<1>. QED  BY <1>1, <1>4, <1>5, <1>6, <1>7, BodyShape DEF BodyOK

-----------------------------------------------------------------------------
(* The master's side of a job: a step settles it, or leaves it be. *)

\* What a step of Master may do to the life of k.
Lifecycle(k) ==
    /\ k \in in_flight' => /\ final_reason'[k] = final_reason[k]
                           /\ k \in in_flight \/ (chat[k] = "new" /\ chat'[k] # "new")
    /\ k \notin in_flight => final_reason'[k] = final_reason[k]
    /\ k \in in_flight \ in_flight' => Finalized(k)'
    /\ chat[k] # "new" => chat'[k] # "new"
    /\ chat[k] = "new" /\ chat'[k] # "new" => k \in in_flight'
    /\ chat'[k] = "answered" => chat[k] = "answered" \/ k \notin in_flight'
    /\ chat[k] = "answered" => chat'[k] = "answered"

LEMMA FinalizeAllEffect ==
    ASSUME TypeOK, NEW D, NEW reason, NEW known, FinalizeAll(D, reason, known),
           NEW k \in Jobs, k \in D \cap known => reason[k] # "none"
    PROVE  /\ k \in in_flight' <=> k \in known \ D
           /\ k \notin D \cap known => final_reason'[k] = final_reason[k]
           /\ k \in D \cap known => Finalized(k)'
BY DEF FinalizeAll, Finalized, TypeOK, RegistryTypeOK

LEMMA SettleEffect ==
    ASSUME TypeOK, SettleStep, NEW k \in Jobs
    PROVE  /\ k \in in_flight' => k \in in_flight /\ final_reason'[k] = final_reason[k]
           /\ k \notin in_flight => final_reason'[k] = final_reason[k]
           /\ k \in in_flight \ in_flight' => Finalized(k)'
<1>1. CASE UNCHANGED <<in_flight, final_reason, finalized_counts, drop_counts>>
  BY <1>1
<1>2. ASSUME NEW j \in Jobs, NEW r \in FinalReasons \ {"expired"}, finalize(j, r)
      PROVE  /\ k \in in_flight' => k \in in_flight /\ final_reason'[k] = final_reason[k]
             /\ k \notin in_flight => final_reason'[k] = final_reason[k]
             /\ k \in in_flight \ in_flight' => Finalized(k)'
  <2>1. FinalizeAll({j}, [i \in Jobs |-> r], in_flight) /\ r # "none"
    BY <1>2 DEF finalize, FinalReasons, DropReasons
  <2>2. [i \in Jobs |-> r][k] # "none"
    BY <2>1
  <2>. HIDE DEF FinalizeAll
  <2>. QED  BY <2>1, <2>2, FinalizeAllEffect
<1>3. ASSUME NEW D, \A j \in D : ~Live(j), DropAll(D, in_flight)
      PROVE  /\ k \in in_flight' => k \in in_flight /\ final_reason'[k] = final_reason[k]
             /\ k \notin in_flight => final_reason'[k] = final_reason[k]
             /\ k \in in_flight \ in_flight' => Finalized(k)'
  <2>1. FinalizeAll(D, [j \in Jobs |-> skip_reason(j)], in_flight)
    BY <1>3 DEF DropAll
  <2>2. k \in D => [j \in Jobs |-> skip_reason(j)][k] # "none"
    BY <1>3, SkipReasonType DEF DropReasons
  <2>. QED  BY <2>1, <2>2, FinalizeAllEffect
<1>. QED  BY <1>1, <1>2, <1>3 DEF SettleStep

LEMMA ArriveLife ==
    ASSUME TypeOK, PlacesOK, NEW j \in Jobs, Arrive(j), NEW k \in Jobs
    PROVE  Lifecycle(k)
<1>. DEFINE D == Dead(queues[ModelOf[j]])
<1>1. /\ chat[j] = "new" /\ chat'[j] \in {"putting", "top"}
      /\ k # j => chat'[k] = chat[k]
      /\ DropAll(D, in_flight \cup {j})
  BY DEF Arrive, Goto, TypeOK, ChatTypeOK
<1>2. D \subseteq Jobs /\ \A i \in D : ~Live(i)
  BY RegistryAssumption, DeadType DEF TypeOK, RegistryTypeOK
<1>3. j \notin D
  BY <1>1, EarlyUnplaced, RegistryAssumption DEF Early
<1>4. FinalizeAll(D, [i \in Jobs |-> skip_reason(i)], in_flight \cup {j})
  BY <1>1 DEF DropAll
<1>5. k \in D => [i \in Jobs |-> skip_reason(i)][k] # "none"
  BY <1>2, SkipReasonType DEF DropReasons
<1>6. /\ k \in in_flight' <=> k \in (in_flight \cup {j}) \ D
      /\ k \notin D \cap (in_flight \cup {j}) => final_reason'[k] = final_reason[k]
      /\ k \in D \cap (in_flight \cup {j}) => Finalized(k)'
  <2>. HIDE DEF D
  <2>. QED  BY <1>4, <1>5, FinalizeAllEffect
<1>. QED  BY <1>1, <1>3, <1>6 DEF Lifecycle

LEMMA StepLife ==
    ASSUME SystemInv, SystemNext, ~MasterRestart, NEW k \in Jobs
    PROVE  Lifecycle(k)
<1>. /\ TypeOK /\ PlacesOK /\ user_disconnected \subseteq hung_up
     /\ \A j \in Jobs : MemberOK(j) /\ ReplyOK(j)
  BY DEF SystemInv, IInv, FateOK
<1>1. ASSUME SettleStep, UNCHANGED chatVars PROVE Lifecycle(k)
  BY <1>1, SettleEffect DEF Lifecycle, chatVars
<1>2. ASSUME NEW j \in Jobs, ClientActs(j) PROVE Lifecycle(k)
  <2>1. CASE Arrive(j)
    BY <2>1, ArriveLife
  <2>2. CASE ~Arrive(j)
    <3>1. SettleStep /\ RequestStep
      BY <1>2, <2>2, RequestSettles DEF ClientActs
    <3>2. chat[k] = "answered" => chat'[k] = "answered"
      <4>1. ChatShape(j) /\ \A i \in Jobs \ {j} : SameClient(i)
        BY <1>2, ChatShapes DEF ClientActs
      <4>2. CASE k = j
        BY <4>1, <4>2 DEF ChatShape, Enters, Rejects, Idles, Takes, Hears, Leaves, Closes,
           Early, Reads
      <4>3. CASE k # j
        BY <4>1, <4>3 DEF SameClient
      <4>. QED  BY <4>2, <4>3
    <3>. QED  BY <3>1, <3>2, SettleEffect DEF RequestStep, Lifecycle
  <2>. QED  BY <2>1, <2>2
<1>3. ASSUME NEW p \in Polls, PollHandler(p) \/ \E m \in Models : Poll(m, p)
      PROVE  Lifecycle(k)
  <2>1. PollAction(p) /\ UNCHANGED chatVars
    BY <1>3 DEF PollHandler, Poll, PollAction, Respond
  <2>. QED  BY <1>1, <2>1, PollSettles
<1>4. ASSUME NEW j \in Jobs, UploadActs(j) \/ Arrives(j) PROVE Lifecycle(k)
  <2>1. UploadAction(j) /\ UNCHANGED chatVars
    BY <1>4 DEF UploadActs, Arrives, UploadAction, Receive
  <2>. QED  BY <1>1, <2>1, UploadSettles
<1>5. CASE WorkerActs \/ Forsakes \/ \E m \in Models : Receives(m)
  <2>1. UNCHANGED vars
    BY <1>5 DEF WorkerActs, Forsakes, Forsake, Receives
  <2>. QED  BY <1>1, <2>1 DEF SettleStep, vars, registryVars, queueVars, jobVars, counterVars
<1>. QED  BY <1>2, <1>3, <1>4, <1>5, SystemSteps

LEMMA LifeKeeps ==
    ASSUME NEW k \in Jobs, MemberOK(k), Lifecycle(k), chat[k] = "answered" => k \notin in_flight
    PROVE  /\ MemberOK(k)'
           /\ chat'[k] = "answered" => k \notin in_flight'
           /\ Forgotten(k)' => Forgotten(k)
           /\ Forgotten(k) => Forgotten(k)'
BY DEF MemberOK, Lifecycle, Forgotten, Finalized

\* A step of System is the client's of k, the upload's of k, or leaves k alone.
LEMMA JobSteps ==
    ASSUME SystemInv, SystemNext, ~MasterRestart, NEW k \in Jobs
    PROVE  \/ Bystander(k) /\ taken'[k] = taken[k]
           \/ ClientActs(k)
           \/ UploadActs(k)
           \/ Arrives(k)
<1>. /\ TypeOK /\ PlacesOK /\ user_disconnected \subseteq hung_up
     /\ \A j \in Jobs : MemberOK(j) /\ ReplyOK(j) /\ UploadOK(j)
     /\ taken \in [Jobs -> Nat]
  BY DEF SystemInv, IInv, FateOK, LinesOK
<1>1. ASSUME NEW j \in Jobs \ {k}, ClientActs(j) PROVE Bystander(k) /\ taken'[k] = taken[k]
  BY <1>1, RequestsStandBy DEF ClientActs, linkVars
<1>2. ASSUME NEW p \in Polls, PollHandler(p) \/ \E m \in Models : Poll(m, p)
      PROVE  Bystander(k) /\ taken'[k] = taken[k]
  <2>1. PollAction(p) /\ UNCHANGED chatVars /\ taken' = taken
    BY <1>2 DEF PollHandler, Poll, PollAction, Respond
  <2>. QED  BY <2>1, PollsStandBy
<1>3. ASSUME NEW j \in Jobs \ {k}, UploadActs(j) \/ Arrives(j)
      PROVE  Bystander(k) /\ taken'[k] = taken[k]
  <2>1. UploadAction(j) /\ UNCHANGED chatVars
    BY <1>3 DEF UploadActs, Arrives, UploadAction, Receive
  <2>2. taken'[k] = taken[k]
    BY <1>3 DEF UploadActs, Arrives, linkVars
  <2>. QED  BY <2>1, <2>2, UploadsStandBy
<1>4. CASE WorkerActs \/ Forsakes \/ \E m \in Models : Receives(m)
  <2>1. UNCHANGED vars /\ taken' = taken
    BY <1>4 DEF WorkerActs, Forsakes, Forsake, Receives, linkVars
  <2>. QED  BY <2>1, UnchangedIsBystander
<1>. QED  BY <1>1, <1>2, <1>3, <1>4, SystemSteps

\* Of a forgotten job nothing changes but that its upload may be refused.
LEMMA ForgottenStays ==
    ASSUME SystemInv, SystemNext, ~MasterRestart, NEW k \in Jobs, Forgotten(k)
    PROVE  /\ SameClient(k) /\ out_queue'[k] = out_queue[k] /\ terminal'[k] = terminal[k]
           /\ sent'[k] = sent[k] /\ lost'[k] = lost[k]
           /\ up'[k] = up[k] \/ (up[k] = "none" /\ up'[k] = "ended" /\ Assigned(k))
<1>. /\ TypeOK /\ PlacesOK /\ user_disconnected \subseteq hung_up
     /\ MemberOK(k) /\ ReplyOK(k) /\ UploadOK(k)
     /\ chat[k] = "answered" /\ k \notin in_flight /\ up[k] \in {"none", "ended"}
  BY DEF SystemInv, IInv, FateOK, AnsweredIsReleased, Forgotten
<1>1. CASE Bystander(k)
  BY <1>1 DEF Bystander, SameStream
<1>2. CASE ClientActs(k)
  <2>1. ChatShape(k) /\ UNCHANGED workerVars
    BY <1>2, ChatShapes DEF ClientActs
  <2>2. Idles(k) /\ chat'[k] = chat[k]
    BY <2>1 DEF ChatShape, Enters, Rejects, Idles, Takes, Hears, Leaves, Closes, Early, Reads
  <2>. QED  BY <2>1, <2>2 DEF Idles, SameOutput, SameClient, workerVars, uploadVars
<1>3. CASE UploadActs(k)
  <2>1. UploadShape(k) /\ UNCHANGED chatVars
    BY <1>3, UploadShapes DEF UploadActs, UploadAction
  <2>2. Opens(k)
    BY <2>1 DEF UploadShape, Opens, Ignores, Blocks, Accepts, Drops, Breaks, Ends
  <2>. QED  BY <2>1, <2>2 DEF Opens, SameEnvelopes, SameClient, chatVars
<1>4. CASE Arrives(k)
  BY <1>4 DEF Arrives, Receive
<1>. QED  BY <1>1, <1>2, <1>3, <1>4, JobSteps

LEMMA StepFate ==
    ASSUME SystemInv, SystemNext, ~MasterRestart, NEW k \in Jobs
    PROVE  FateOK(k)'
<1>. /\ TypeOK /\ PlacesOK /\ user_disconnected \subseteq hung_up
     /\ FateOK(k) /\ MemberOK(k) /\ ReplyOK(k) /\ UploadOK(k)
     /\ chat[k] = "answered" => k \notin in_flight
  BY DEF SystemInv, IInv, FateOK, AnsweredIsReleased
<1>1. MemberOK(k)' /\ (Forgotten(k)' <=> Forgotten(k))
  BY StepLife, LifeKeeps
<1>2. CASE Forgotten(k)
  <2>1. UploadOK(k)'
    <3>1. up[k] \in {"none", "ended"} /\ (Assigned(k) => Assigned(k)')
      BY <1>2, StillAssigned DEF FateOK, SystemInv
    <3>. QED  BY <1>2, <3>1, ForgottenStays DEF UploadOK
  <2>2. ReplyOK(k)'
    BY <1>1, <1>2, ForgottenStays DEF ReplyOK, SameClient, Forgotten
  <2>3. up'[k] \in {"none", "ended"}
    BY <1>2, ForgottenStays DEF FateOK
  <2>. QED  BY <1>1, <1>2, <2>1, <2>2, <2>3 DEF FateOK
<1>3. CASE ~Forgotten(k)
  <2>1. JobOK(k) /\ StreamOK(k)
    BY <1>3 DEF FateOK
  <2>2. JobOK(k)' /\ StreamOK(k)'
    <3>1. CASE Bystander(k)
      BY <2>1, <3>1, BystanderOK, BystanderStream
    <3>2. CASE ClientActs(k)
      BY <2>1, <3>2, RequestKeepsJob, RequestKeepsStream DEF ClientActs
    <3>3. CASE UploadActs(k) \/ Arrives(k)
      <4>1. UploadAction(k) /\ UNCHANGED chatVars
        BY <3>3 DEF UploadActs, Arrives, UploadAction, Receive
      <4>. QED  BY <2>1, <4>1, UploadKeepsJob, UploadKeepsStream
    <3>. QED  BY <3>1, <3>2, <3>3, JobSteps
  <2>. QED  BY <1>1, <1>3, <2>2 DEF FateOK, JobOK
<1>. QED  BY <1>2, <1>3

LEMMA StepHungUp ==
    ASSUME SystemInv, SystemNext, ~MasterRestart
    PROVE  (AnsweredIsReleased /\ user_disconnected \subseteq hung_up)'
<1>1. AnsweredIsReleased'
  <2>1. ASSUME NEW k \in Jobs PROVE chat'[k] = "answered" => k \notin in_flight'
    BY StepLife, LifeKeeps DEF SystemInv, FateOK, AnsweredIsReleased
  <2>. QED  BY <2>1 DEF AnsweredIsReleased
<1>2. (user_disconnected \subseteq hung_up)'
  <2>. /\ TypeOK /\ PlacesOK /\ user_disconnected \subseteq hung_up
       /\ \A j \in Jobs : MemberOK(j) /\ ReplyOK(j) /\ UploadOK(j)
    BY DEF SystemInv, IInv, FateOK
  <2>1. ASSUME NEW j \in Jobs, ClientActs(j) PROVE user_disconnected' \subseteq hung_up'
    BY <2>1, ChatShapes DEF ClientActs
  <2>2. ASSUME NEW p \in Polls, PollHandler(p) \/ \E m \in Models : Poll(m, p)
        PROVE  UNCHANGED <<user_disconnected, hung_up>>
    BY <2>2 DEF PollHandler, Poll, Respond, PollStart, PollGet, PollGiveUp, Assign, Handover,
         AcquiredForDead, AcquireTimeout, PruneAndGet, registryVars, jobVars, chatVars
  <2>3. ASSUME NEW j \in Jobs, UploadActs(j) \/ Arrives(j)
        PROVE  UNCHANGED <<user_disconnected, hung_up>>
    <3>1. UploadAction(j) /\ UNCHANGED chatVars
      BY <2>3 DEF UploadActs, Arrives, UploadAction, Receive
    <3>. QED  BY <3>1, UploadShapes DEF chatVars
  <2>4. CASE WorkerActs \/ Forsakes \/ \E m \in Models : Receives(m)
    BY <2>4 DEF WorkerActs, Forsakes, Forsake, Receives, vars, registryVars, jobVars, chatVars
  <2>. QED  BY <2>1, <2>2, <2>3, <2>4, SystemSteps
<1>. QED  BY <1>1, <1>2

-----------------------------------------------------------------------------
(* What a client hears is in the body of the upload. *)

LEMMA StepTrue ==
    ASSUME SystemInv, SystemNext, ~MasterRestart, NEW k \in Jobs
    PROVE  TrueOK(k)'
<1>. /\ TypeOK /\ PlacesOK /\ user_disconnected \subseteq hung_up /\ W!AInv /\ LinesOK
     /\ FateOK(k) /\ MemberOK(k) /\ ReplyOK(k) /\ UploadOK(k) /\ TrueOK(k) /\ BodyOK(k)
     /\ out_queue[k] \in Seq(Envelopes) /\ taken[k] \in 0..Len(body[k])
  BY DEF SystemInv, IInv, FateOK, BodyOK, TypeOK, RegistryTypeOK
<1>1. reply'[k] = "done" => WholeOK(k)' /\ Increasing(got[k])'
  <2>1. CASE Forgotten(k)
    BY <2>1, ForgottenStays DEF TrueOK, WholeOK, Arrived, SameClient
  <2>2. CASE ~Forgotten(k)
    <3>1. ~Forgotten(k)'
      BY <2>2, StepLife, LifeKeeps DEF SystemInv, AnsweredIsReleased
    <3>. QED  BY <3>1, StepFate DEF FateOK, StreamOK, OrderOK
  <2>. QED  BY <2>1, <2>2
<1>. DEFINE Whole == /\ EndsBy(k, taken[k]) /\ taken[k] = Len(body[k])
                     /\ body[k][taken[k]] = Done
<1>2. Whole /\ taken'[k] = taken[k] => Whole'
  BY BodyKept DEF EndsBy
<1>3. CASE Bystander(k) /\ taken'[k] = taken[k]
  <2>1. HearsDone(k)' => HearsDone(k)
    BY <1>3 DEF Bystander, SameClient, HearsDone
  <2>. QED  BY <1>1, <1>2, <1>3, <2>1 DEF TrueOK
<1>4. CASE ClientActs(k)
  <2>1. ChatShape(k) /\ taken' = taken
    BY <1>4, ChatShapes DEF ClientActs, linkVars
  <2>2. HearsDone(k)' => HearsDone(k)
    <3>1. CASE Pops(k)
      <4>1. /\ \A i \in 1..Len(Tail(out_queue[k])) :
                   i + 1 \in 1..Len(out_queue[k]) /\ Tail(out_queue[k])[i] = out_queue[k][i + 1]
            /\ 1 \in 1..Len(out_queue[k]) /\ Head(out_queue[k]) = out_queue[k][1]
        BY <3>1, TailEnvelopes DEF Pops
      <4>2. reply'[k] = "done" => reply[k] = "done" \/ Head(out_queue[k]).type = "done"
        BY <2>1 DEF ChatShape, Enters, Rejects, Idles, Takes, Hears, Leaves, Closes
      <4>. QED  BY <3>1, <4>1, <4>2 DEF Pops, HearsDone
    <3>2. CASE ~Pops(k)
      <4>1. out_queue'[k] = out_queue[k] /\ (reply'[k] = "done" => reply[k] = "done")
        BY <2>1, <3>2 DEF ChatShape, Enters, Rejects, Idles, Takes, Hears, Leaves, Closes,
           SameOutput
      <4>. QED  BY <4>1 DEF HearsDone
    <3>. QED  BY <3>1, <3>2
  <2>. QED  BY <1>1, <1>2, <2>1, <2>2 DEF TrueOK
<1>5. CASE UploadActs(k)
  <2>1. taken' = taken /\ reply'[k] = reply[k]
    BY <1>5 DEF UploadActs, linkVars, chatVars
  <2>2. \/ out_queue'[k] = out_queue[k]
        \/ out_queue'[k] = Append(out_queue[k], Error)
        \/ /\ up[k] = "putting" /\ out_queue'[k] = Append(out_queue[k], env[k])
    BY <1>5 DEF UploadActs, Open, PutDone, PutDrop, FailPut, Eof, Abort, Fail, Conclusion,
       registryVars, jobVars, TypeOK, RegistryTypeOK
  <2>3. CASE up[k] = "putting" /\ out_queue'[k] = Append(out_queue[k], env[k])
    <3>1. taken[k] \in 1..Len(body[k]) /\ env[k] = body[k][taken[k]]
      BY <2>3, BodyShape DEF BodyOK
    <3>2. env[k] \in Envelopes /\ (env[k].type = "done" => env[k] = Done)
      BY <3>1, BodyShape, ChunkFields
    <3>3. env[k] = Done => Whole
      <4>1. env[k] = Done => EndsBy(k, taken[k])
        BY <3>1 DEF EndsBy
      <4>. QED  BY <3>1, <4>1, EndIsLast
    <3>4. HearsDone(k)' => HearsDone(k) \/ env[k].type = "done"
      BY <2>1, <2>3, <3>2, AppendEnvelope DEF HearsDone
    <3>. QED  BY <1>1, <1>2, <2>1, <3>2, <3>3, <3>4 DEF TrueOK
  <2>4. CASE \/ out_queue'[k] = out_queue[k]
             \/ out_queue'[k] = Append(out_queue[k], Error)
    <3>1. Error \in Envelopes /\ Error.type # "done"
      BY RegistryAssumption DEF Error, Envelopes
    <3>2. HearsDone(k)' => HearsDone(k)
      BY <2>1, <2>4, <3>1, AppendEnvelope DEF HearsDone
    <3>. QED  BY <1>1, <1>2, <2>1, <3>2 DEF TrueOK
  <2>. QED  BY <2>2, <2>3, <2>4
<1>6. CASE Arrives(k)
  <2>. DEFINE e == body[k][taken[k] + 1]
  <2>1. /\ taken[k] + 1 \in 1..Len(body[k]) /\ taken'[k] = taken[k] + 1
        /\ reply'[k] = reply[k] /\ body'[k] = body[k]
    BY <1>6, BodyShape DEF Arrives, chatVars, workVars, LinesOK
  <2>2. \/ out_queue'[k] = out_queue[k]
        \/ out_queue'[k] = Append(out_queue[k], e)
    BY <1>6 DEF Arrives, Receive, TypeOK, RegistryTypeOK
  <2>3. ~HearsDone(k)
    BY <2>1 DEF TrueOK
  <2>4. e \in Envelopes /\ (e.type = "done" => e = Done)
    BY <2>1, BodyShape, ChunkFields
  <2>5. HearsDone(k)' => e = Done
    <3>. HIDE DEF e
    <3>1. CASE out_queue'[k] = out_queue[k]
      BY <2>1, <2>3, <3>1 DEF HearsDone
    <3>2. CASE out_queue'[k] = Append(out_queue[k], e)
      <4>1. \A i \in 1..Len(Append(out_queue[k], e)) :
                \/ i \in 1..Len(out_queue[k]) /\ Append(out_queue[k], e)[i] = out_queue[k][i]
                \/ Append(out_queue[k], e)[i] = e
        BY <2>4, AppendEnvelope
      <4>. QED  BY <2>1, <2>3, <2>4, <3>2, <4>1 DEF HearsDone
    <3>. QED  BY <2>2, <3>1, <3>2
  <2>6. e = Done => EndsBy(k, taken[k] + 1)
    BY <2>1 DEF EndsBy
  <2>7. e = Done => Whole'
    BY <2>1, <2>6, EndIsLast DEF EndsBy
  <2>. QED  BY <1>1, <2>5, <2>7 DEF TrueOK
<1>. QED  BY <1>3, <1>4, <1>5, <1>6, JobSteps

LEMMA StepBody ==
    ASSUME SystemInv, SystemNext, ~MasterRestart, NEW k \in Jobs
    PROVE  BodyOK(k)'
<1>. TypeOK /\ W!AInv /\ LinesOK /\ BodyOK(k) /\ UploadOK(k)
  BY DEF SystemInv, IInv, FateOK
<1>1. CASE Bystander(k) /\ taken'[k] = taken[k]
  BY <1>1, BodyAside DEF Bystander
<1>2. CASE ClientActs(k)
  <2>1. SameStream(k) /\ taken'[k] = taken[k]
    BY <1>2 DEF ClientActs, SameStream, workerVars, uploadVars, linkVars
  <2>. QED  BY <2>1, BodyAside
<1>. QED  BY <1>1, <1>2, JobSteps, HandlerReads, LineArrives

-----------------------------------------------------------------------------
(* The restart of the master: what it knew of its jobs is gone, and what it  *)
(* had said of them stays true.                                              *)

LEMMA RestartJob ==
    ASSUME SystemInv, MasterRestart, NEW k \in Jobs
    PROVE  BodyOK(k)' /\ TrueOK(k)' /\ FateOK(k)'
<1>. /\ TypeOK /\ PlacesOK /\ BodyOK(k) /\ TrueOK(k) /\ FateOK(k)
     /\ UploadOK(k) /\ ReplyOK(k) /\ MemberOK(k)
     /\ chat[k] \in ChatStates
  BY DEF SystemInv, IInv, FateOK, TypeOK, ChatTypeOK
<1>1. /\ in_flight' = {} /\ final_reason'[k] = "none" /\ out_queue'[k] = <<>>
      /\ IF chat[k] \notin {"new", "answered"}
         THEN chat'[k] = "answered" /\ reply'[k] = "gone"
         ELSE chat'[k] = chat[k] /\ reply'[k] = reply[k]
      /\ IF up[k] = "none" THEN up'[k] = "none" ELSE up'[k] = "ended"
      /\ UNCHANGED <<assigned_worker, got, env, terminal, sent, lost, taken, upload, body>>
  BY DEF MasterRestart
<1>2. BodyOK(k)'
  BY <1>1 DEF BodyOK, EndsBy
<1>3. TrueOK(k)'
  <2>1. HearsDone(k)' => reply[k] = "done"
    BY <1>1 DEF HearsDone
  <2>. QED  BY <1>1, <2>1 DEF TrueOK, HearsDone, EndsBy, WholeOK, Arrived
<1>4. MemberOK(k)'
  BY <1>1 DEF MemberOK, Finalized
<1>5. UploadOK(k)'
  BY <1>1 DEF UploadOK, Assigned
<1>6. ReplyOK(k)'
  BY <1>1 DEF ReplyOK, Finalized
<1>7. CASE chat'[k] = "answered"
  <2>1. Forgotten(k)' /\ up'[k] \in {"none", "ended"}
    BY <1>1, <1>7 DEF Forgotten, Finalized
  <2>. QED  BY <1>2, <1>3, <1>4, <1>5, <1>6, <2>1 DEF FateOK
<1>8. CASE chat'[k] # "answered"
  <2>1. chat[k] = "new" /\ chat'[k] = "new" /\ reply'[k] = reply[k] /\ reply[k] = "none"
    BY <1>1, <1>8 DEF ReplyOK
  <2>2. ~Assigned(k) /\ up[k] = "none" /\ terminal[k] = "none" /\ sent[k] = 0 /\ lost[k] = {}
    BY <2>1 DEF PlacesOK, Early, UploadOK
  <2>3. Increasing(got[k]) /\ Elements(got[k]) = {}
    <3>1. OrderOK(k)
      BY <2>1 DEF FateOK, Forgotten, StreamOK
    <3>2. Arrived(k) = {}
      BY <2>2 DEF Arrived
    <3>. QED  BY <3>1, <3>2 DEF OrderOK, Seen, Put
  <2>4. ChunksAt(out_queue'[k]) = {} /\ Numbers(out_queue'[k]) = {}
    BY <1>1 DEF ChunksAt, Numbers
  <2>5. Arrived(k)' = {}
    BY <1>1, <2>2 DEF Arrived
  <2>6. StreamOK(k)'
    <3>1. OrderOK(k)'
      BY <1>1, <2>3, <2>4, <2>5 DEF OrderOK, Ordered, Before, Seen, Put, Increasing, Elements
    <3>2. LostOK(k)'
      BY <1>1, <2>2 DEF LostOK
    <3>3. LastOK(k)' /\ WholeOK(k)'
      BY <1>1, <2>1 DEF LastOK, WholeOK
    <3>. QED  BY <3>1, <3>2, <3>3 DEF StreamOK
  <2>7. JobOK(k)'
    BY <1>1, <1>5, <1>6, <2>1, <2>2 DEF JobOK, EndsOK, HeardOK, SilentOK, CauseOK, Finalized
  <2>8. ~Forgotten(k)'
    BY <2>1 DEF Forgotten
  <2>. QED  BY <1>2, <1>3, <1>4, <1>5, <1>6, <2>6, <2>7, <2>8 DEF FateOK
<1>. QED  BY <1>7, <1>8

LEMMA StepSystemInv == SystemInv /\ [SystemNext]_allVars => SystemInv'
<1>1. ASSUME SystemInv, UNCHANGED allVars PROVE SystemInv'
  <2>1. IInv'
    <3>1. UNCHANGED vars
      BY <1>1 DEF allVars
    <3>. QED  BY <1>1, <3>1, StepIInv DEF SystemInv
  <2>2. W!AInv'
    <3>1. UNCHANGED W!agentVars
      BY <1>1 DEF allVars, workVars, W!agentVars, W!pullerVars, W!streamVars
    <3>2. W!AgentTypeOK' /\ W!SlotsBalanced' /\ W!TasksMatch' /\ W!BodiesMatch' /\ W!LlamaMatch'
      BY <1>1, <3>1, WorkerAssumed, W!StepAgentType, W!StepSlots, W!StepTasks, W!StepBodies
         DEF SystemInv
    <3>. QED  BY <3>2 DEF W!AInv
  <2>3. LinesOK' /\ GivenOK'
    BY <1>1 DEF SystemInv, allVars, workVars, linkVars, vars, registryVars, permitVars, LinesOK,
       GivenOK, Assigned
  <2>4. (AnsweredIsReleased /\ user_disconnected \subseteq hung_up)'
    BY <1>1 DEF SystemInv, allVars, vars, registryVars, queueVars, jobVars, chatVars,
       AnsweredIsReleased
  <2>5. ASSUME NEW k \in Jobs PROVE BodyOK(k)' /\ TrueOK(k)' /\ FateOK(k)'
    <3>1. UNCHANGED vars /\ UNCHANGED <<taken, body, upload>>
      BY <1>1 DEF allVars, workVars, linkVars
    <3>2. Bystander(k) /\ final_reason'[k] = final_reason[k] /\ in_flight' = in_flight
      BY <3>1, UnchangedIsBystander DEF vars, registryVars, queueVars, jobVars
    <3>3. BodyOK(k)'
      BY <1>1, <3>1, <3>2 DEF SystemInv, BodyOK, EndsBy, Bystander, SameStream
    <3>4. TrueOK(k)'
      BY <1>1, <3>1, <3>2 DEF SystemInv, TrueOK, HearsDone, EndsBy, WholeOK, Arrived, Bystander,
         SameStream, SameClient
    <3>5. MemberOK(k)' /\ UploadOK(k)' /\ ReplyOK(k)' /\ (Forgotten(k)' <=> Forgotten(k))
      BY <1>1, <3>2 DEF SystemInv, FateOK, MemberOK, UploadOK, ReplyOK, Forgotten, Finalized,
         Bystander, SameStream, SameClient
    <3>6. CASE Forgotten(k)
      BY <1>1, <3>2, <3>3, <3>4, <3>5, <3>6 DEF SystemInv, FateOK, Bystander, SameStream
    <3>7. CASE ~Forgotten(k)
      BY <1>1, <3>2, <3>3, <3>4, <3>5, <3>7, BystanderOK, BystanderStream DEF SystemInv, FateOK
    <3>. QED  BY <3>6, <3>7
  <2>. QED  BY <2>1, <2>2, <2>3, <2>4, <2>5 DEF SystemInv
<1>2. ASSUME SystemInv, SystemNext PROVE SystemInv'
  <2>1. IInv' /\ W!AInv' /\ LinesOK' /\ GivenOK'
    BY <1>2, SidesOK, StepLines, StepGiven DEF SystemInv
  <2>2. CASE MasterRestart
    <3>1. (AnsweredIsReleased /\ user_disconnected \subseteq hung_up)'
      BY <2>2 DEF MasterRestart, AnsweredIsReleased
    <3>. QED  BY <1>2, <2>1, <2>2, <3>1, RestartJob DEF SystemInv
  <2>3. CASE ~MasterRestart
    BY <1>2, <2>1, <2>3, StepHungUp, StepBody, StepTrue, StepFate DEF SystemInv
  <2>. QED  BY <2>2, <2>3
<1>. QED  BY <1>1, <1>2

(* The invariant holds in every reachable state of the system, through lost   *)
(* answers, cut uploads, exits and restarts of either process.                *)
THEOREM SystemInvariance == SystemSpec => []SystemInv
BY InitSystemInv, StepSystemInv, PTL DEF SystemSpec

-----------------------------------------------------------------------------
(* What follows for the two sides and for the client. *)

LEMMA AssumptionsFollow == SystemInv => AssumptionsMet
<1>. SUFFICES ASSUME SystemInv PROVE AssumptionsMet
  OBVIOUS
<1>1. ASSUME NEW j \in Jobs, up[j] = "reading", taken[j] < Len(body[j])
      PROVE  body[j][taken[j] + 1] \in NextEnvelopes(j)
  <2>. DEFINE n == taken[j] + 1
  <2>. W!AInv /\ BodyOK(j) /\ taken[j] \in 0..Len(body[j])
    BY DEF SystemInv, BodyOK
  <2>1. n \in 1..Len(body[j]) /\ ~EndsBy(j, taken[j])
    BY <1>1, BodyShape, EndIsLast
  <2>2. terminal[j] = "none" /\ sent[j] = taken[j]
    BY <1>1, <2>1 DEF BodyOK
  <2>3. CASE body[j][n] = Chunk(n)
    <3>1. n <= MaxChunks
      BY <2>1, <2>3, BodyShape DEF Envelopes, Chunk
    <3>. QED  BY <2>1, <2>2, <2>3, <3>1, BodyShape, RegistryAssumption DEF NextEnvelopes
  <2>4. CASE body[j][n] \in {Done, Error}
    BY <2>2, <2>4 DEF NextEnvelopes
  <2>. QED  BY <2>1, <2>3, <2>4, BodyShape
<1>. QED  BY <1>1 DEF SystemInv, GivenOK, AssumptionsMet

LEMMA EndToEndFollows == SystemInv => EndToEnd
<1>. SUFFICES ASSUME SystemInv, NEW j \in Jobs, reply[j] = "done"
     PROVE  /\ llama[j] = "completed"
            /\ \A i, k \in 1..Len(got[j]) : i < k => got[j][i] < got[j][k]
            /\ Elements(got[j]) =
                   {n \in 1..Cardinality(ChunksAt(body[j])) : Chunk(n) \notin lost[j]}
  BY DEF EndToEnd
<1>. DEFINE l == Len(body[j])
<1>. W!AInv /\ BodyOK(j) /\ TrueOK(j)
  BY DEF SystemInv
<1>1. /\ EndsBy(j, l) /\ taken[j] = l /\ body[j][l] = Done
      /\ WholeOK(j) /\ Increasing(got[j])
  BY DEF TrueOK, HearsDone
<1>2. l \in Nat /\ l > 0 /\ sent[j] = l - 1
  BY <1>1, BodyShape DEF EndsBy, BodyOK
<1>3. llama[j] = "completed"
  BY <1>1, <1>2 DEF W!AInv, W!LlamaMatch, W!Done, Done
<1>4. ChunksAt(body[j]) = 1..(l - 1)
  <2>1. ASSUME NEW i \in 1..l PROVE body[j][i].type = "chunk" <=> i < l
    BY <1>1, <1>2, <2>1, BodyShape, ChunkFields
  <2>. QED  BY <1>2, <2>1 DEF ChunksAt
<1>5. Cardinality(ChunksAt(body[j])) = sent[j]
  <2>1. \A b \in Int : Cardinality(1..b) = IF 1 > b THEN 0 ELSE b - 1 + 1
    BY FS_Interval
  <2>2. sent[j] \in Int /\ sent[j] >= 0 /\ ChunksAt(body[j]) = 1..sent[j]
    BY <1>2, <1>4
  <2>. QED  BY <2>1, <2>2
<1>6. Elements(got[j]) = Arrived(j)
  BY <1>1 DEF WholeOK
<1>. QED  BY <1>1, <1>3, <1>5, <1>6 DEF Increasing, Arrived

\* The tasks of the pullers that have or await a permit are as many jobs of
\* the one worker: were all of them in flight and one more that waits, the
\* master would have given out more permits than it has.
LEMMA GhostsFollow == SystemInv => WaitsOnlyForGhosts
<1>. SUFFICES ASSUME SystemInv, Slots >= MaxConcurrent, NEW m \in Models,
                     puller[m] = "acquiring", task[m] \in in_flight,
                     \A n \in Models : puller[n] \in {"granted", "running"} => task[n] \in in_flight
              PROVE  FALSE
  BY DEF WaitsOnlyForGhosts
<1>. DEFINE R == W!Running \cup {m}
            f == [n \in R |-> task[n]]
<1>. W!TasksMatch /\ W!SlotsBalanced /\ W!AgentTypeOK /\ TypeOK /\ PermitsConserved
  BY DEF SystemInv, IInv, W!AInv
<1>1. PICK w \in Workers : Workers = {w}
  BY SystemAssumption
<1>2. W!Running \subseteq Models /\ m \notin W!Running
  BY DEF W!Running
<1>3. IsFiniteSet(W!Running) /\ Cardinality(W!Running) = Slots
  <2>1. free = 0
    BY DEF W!SlotsBalanced, W!AgentTypeOK
  <2>2. IsFiniteSet(W!Running) /\ Cardinality(W!Running) \in Nat
    BY <1>2, SystemAssumption, FS_Subset, FS_CardinalityType
  <2>3. W!Cardinality(W!Running) = Cardinality(W!Running)
    BY DEF W!Cardinality, Cardinality
  <2>. QED  BY <2>1, <2>2, <2>3 DEF W!SlotsBalanced
<1>4. IsFiniteSet(R) /\ Cardinality(R) = Slots + 1
  BY <1>2, <1>3, FS_AddElement
<1>5. \A n \in R : task[n] \in Running(w) /\ ModelOf[task[n]] = n
  <2>1. ASSUME NEW n \in R PROVE task[n] \in Running(w) /\ ModelOf[task[n]] = n
    <3>1. n \in Models /\ puller[n] \in {"acquiring", "granted", "running"} /\ task[n] \in in_flight
      BY DEF W!Running
    <3>2. task[n] \in handed /\ ModelOf[task[n]] = n
      BY <3>1 DEF W!TasksMatch
    <3>3. task[n] \in Jobs /\ Assigned(task[n])
      BY <3>2 DEF SystemInv, GivenOK, W!AgentTypeOK
    <3>4. assigned_worker[task[n]] = w
      BY <1>1, <3>3 DEF Assigned, TypeOK, RegistryTypeOK
    <3>. QED  BY <3>1, <3>2, <3>4 DEF Running
  <2>. QED  BY <2>1
<1>6. IsFiniteSet(Running(w)) /\ Cardinality(Running(w)) \in Nat
  BY JobSetsFinite DEF Running, TypeOK, RegistryTypeOK
<1>7. Cardinality(R) <= Cardinality(Running(w))
  <2>1. f \in Injection(R, Running(w))
    BY <1>5 DEF Injection, IsInjective
  <2>. QED  BY <1>6, <2>1, FS_Injection
<1>8. sem[w] + Cardinality(Running(w)) = MaxConcurrent /\ sem[w] \in Nat
  BY DEF PermitsConserved, TypeOK, RegistryTypeOK
<1>. QED  BY <1>4, <1>6, <1>7, <1>8, SystemAssumption, RegistryAssumption

(* What each of Master and Agent takes for granted of the other is so: the    *)
(* lines that reach the master are what NextEnvelopes allows, and the worker  *)
(* is given a job once and of the right slug.                                 *)
THEOREM AssumptionsAreMet == SystemSpec => []AssumptionsMet
BY SystemInvariance, AssumptionsFollow, PTL

(* A client that is told "done" has what llama-server generated up to its     *)
(* [DONE], in order, but for chunks dropped for its own slowness: no loss of  *)
(* a poll's answer, cut upload, interrupt or restart makes a part the whole.  *)
THEOREM DoneFromEndToEnd == SystemSpec => []EndToEnd
BY SystemInvariance, EndToEndFollows, PTL

(* With as many slots as permits, a job somebody waits for stands in line at  *)
(* the worker only behind one that nobody waits for any more.                 *)
THEOREM OnlyGhostsBlock == SystemSpec => []WaitsOnlyForGhosts
BY SystemInvariance, GhostsFollow, PTL
=============================================================================
