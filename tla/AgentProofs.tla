---------------------------- MODULE AgentProofs ----------------------------
(***************************************************************************)
(* The worker, proved for every set of slugs and jobs and every             *)
(* MAX_CONCURRENT: the types, the balance of the shared semaphore, the cap  *)
(* on the requests that are read, the truth of an upload's end, and that    *)
(* the uploads of Agent are those of Upload.                                *)
(*                                                                         *)
(* None of the safety properties is inductive.  AInv ties the four views of *)
(* a job in run_job together: where its puller is, how far its generator    *)
(* got, what it has sent, and whether its request to llama-server is open.  *)
(***************************************************************************)
EXTENDS Agent, FiniteSetTheorems, SequenceTheorems, TLAPS

(* A puller has a task exactly while it is in run_job or on its way there,  *)
(* a job of its own slug that it has been handed; and an upload under way   *)
(* is the task of a running puller.                                         *)
TasksMatch ==
    /\ \A s \in Slugs : task[s] # NoJob <=> puller[s] \in {"acquiring", "granted", "running"}
    /\ \A s \in Slugs : task[s] # NoJob => task[s] \in handed /\ SlugOf[task[s]] = s
    /\ \A s \in Slugs : puller[s] \in {"acquiring", "granted"} => upload[task[s]] = "none"
    /\ \A s \in Slugs : puller[s] = "running" =>
           upload[task[s]] \in {"start", "reading", "last", "sent"}
    /\ \A j \in Jobs : upload[j] \in {"start", "reading", "last"} =>
           puller[SlugOf[j]] = "running" /\ task[SlugOf[j]] = j
    /\ \A j \in Jobs : upload[j] # "none" => j \in handed

HasEnd(j) == Len(body[j]) > 0 /\ body[j][Len(body[j])] \in {Done, Error}

(* A body is its chunks in order, with a done or error at most at its end,  *)
(* and the generator's state says whether that end has been sent.           *)
BodiesMatch ==
    /\ \A j \in Jobs : \A i \in 1..Len(body[j]) :
           \/ body[j][i] = Chunk(i)
           \/ i = Len(body[j]) /\ body[j][i] \in {Done, Error}
    /\ \A j \in Jobs : upload[j] \in {"none", "start"} => body[j] = <<>> /\ llama[j] = "none"
    /\ \A j \in Jobs : upload[j] = "reading" => ~HasEnd(j)
    /\ \A j \in Jobs : upload[j] \in {"last", "sent"} => HasEnd(j)

(* The request to llama-server is open while the generator reads from it,   *)
(* and after that only if the upload broke; it completed exactly when the   *)
(* body ends with done.                                                     *)
LlamaMatch ==
    /\ \A j \in Jobs : upload[j] = "reading" => llama[j] = "open"
    /\ \A j \in Jobs : llama[j] = "open" => upload[j] \in {"reading", "cut"}
    /\ \A j \in Jobs : llama[j] = "completed" <=>
           Len(body[j]) > 0 /\ body[j][Len(body[j])] = Done

AInv == AgentTypeOK /\ TasksMatch /\ SlotsBalanced /\ BodiesMatch /\ LlamaMatch

-----------------------------------------------------------------------------
(* The start of the process satisfies the invariant. *)
LEMMA InitAInv == AgentInit => AInv
<1> SUFFICES ASSUME AgentInit PROVE AInv
  OBVIOUS
<1> USE AgentAssumption DEF AgentInit
<1>1. AgentTypeOK
  <2>1. body \in [Jobs -> Seq(Envelopes)] /\ waiters \in Seq(Slugs)
    OBVIOUS
  <2>2. free \in 0..MaxConcurrent
    OBVIOUS
  <2>3. puller \in [Slugs -> PullerStates]
    BY DEF PullerStates
  <2>. QED
    BY <2>1, <2>2, <2>3 DEF AgentTypeOK, UploadStates, PullerStates, LlamaStates
<1>2. TasksMatch
  BY DEF TasksMatch
<1>3. SlotsBalanced
  <2>1. Running = {}
    BY DEF Running
  <2>. QED
    BY <2>1, FS_EmptySet DEF SlotsBalanced
<1>4. BodiesMatch /\ LlamaMatch
  BY DEF BodiesMatch, LlamaMatch, HasEnd
<1>. QED
  BY <1>1, <1>2, <1>3, <1>4 DEF AInv

(* What is sent for a job is an envelope, a chunk's number bounded by the   *)
(* sender's own count.                                                      *)
LEMMA EnvelopeTypes ==
    ASSUME MaxChunks \in Nat
    PROVE  /\ Done \in Envelopes /\ Error \in Envelopes
           /\ \A n \in 0..MaxChunks : Chunk(n) \in Envelopes
           /\ Done # Error
           /\ \A n : Chunk(n) \notin {Done, Error}
BY DEF Done, Error, Chunk, Envelopes

(* The body of a job after one more envelope: the old ones stay where they  *)
(* are and the new one is last.                                             *)
LEMMA BodyGrows ==
    ASSUME NEW b \in Seq(Envelopes), NEW e \in Envelopes
    PROVE  /\ Append(b, e) \in Seq(Envelopes)
           /\ Len(Append(b, e)) = Len(b) + 1
           /\ Len(b) \in Nat
           /\ Append(b, e)[Len(b) + 1] = e
           /\ \A i \in 1..Len(b) : Append(b, e)[i] = b[i]
BY DEF Envelopes

(* The pullers an interrupt may leave alive. *)
Readers == {s \in Slugs : puller[s] = "running" /\ upload[task[s]] = "reading"}

(* The steps of the worker by what they touch: a puller on its way to a     *)
(* job, a generator that sends an envelope, one that only moves on, the end *)
(* of a run_job, a request that is closed late, the end of every puller but *)
(* some that read.                                                          *)
LEMMA AgentSteps ==
    ASSUME [AgentNext]_agentVars
    PROVE  \/ \E s \in Slugs : PollFails(s) \/ Wake(s)
           \/ \E s \in Slugs : StartJob(s)
           \/ \E s \in Slugs, j \in Jobs : PollJob(s, j)
           \/ \E j \in Jobs : ExpiredFirst(j) \/ LlamaStep(j)
           \/ \E j \in Jobs : OpenLlama(j)
           \/ \E j \in Jobs : EndBody(j)
           \/ \E j \in Jobs : Answered(j)
           \/ \E j \in Jobs : Broken(j)
           \/ \E j \in Jobs : CloseAbandoned(j)
           \/ \E j \in Jobs : Expire(j)
           \/ \E S \in SUBSET Readers : StopExcept(S) /\ asked' \in {asked, TRUE}
           \/ Restart
           \/ UNCHANGED agentVars
<1>1. Exit => \E S \in SUBSET Readers : StopExcept(S) /\ asked' \in {asked, TRUE}
  <2>. SUFFICES ASSUME Exit
                PROVE  {} \in SUBSET Readers /\ StopExcept({}) /\ asked' \in {asked, TRUE}
    OBVIOUS
  <2>. QED
    BY DEF Exit
<1>2. Interrupt => \E S \in SUBSET Readers : StopExcept(S) /\ asked' \in {asked, TRUE}
  BY DEF Interrupt, Readers
<1>. QED
  BY <1>1, <1>2, Zenon DEF AgentNext, LlamaStep

(* The envelopes a generator can send next, with the state that leaves it   *)
(* in and what its request to llama-server is then.                         *)
LEMMA SendSteps ==
    ASSUME NEW j \in Jobs, ExpiredFirst(j) \/ LlamaStep(j)
    PROVE  \/ /\ Runs(j, {"reading"})
              /\ Len(body[j]) < MaxChunks
              /\ Yield(j, Chunk(Len(body[j]) + 1), "reading", "open")
           \/ Runs(j, {"reading"}) /\ Yield(j, Done, "last", "completed")
           \/ Runs(j, {"reading"}) /\ Yield(j, Error, "last", "failed")
           \/ Runs(j, {"start"}) /\ Yield(j, Error, "last", "none")
BY Zenon DEF ExpiredFirst, LlamaStep, LlamaChunk, LlamaDone, LlamaFails, LlamaTruncated

(* The uploads that an interrupt leaves alive are those of pullers that     *)
(* read, each the task of its own slug.                                     *)
LEMMA SurvivorsRun ==
    ASSUME TasksMatch, AgentTypeOK, NEW S \in SUBSET Readers
    PROVE  /\ S \subseteq Slugs
           /\ \A s \in S : task[s] \in Jobs /\ SlugOf[task[s]] = s
           /\ \A j \in Jobs : j \in {task[s] : s \in S} <=>
                  SlugOf[j] \in S /\ task[SlugOf[j]] = j
           /\ \A j \in {task[s] : s \in S} : j \in Jobs /\ upload[j] = "reading"
BY AgentAssumption DEF TasksMatch, AgentTypeOK, Readers

(* The set of pullers that hold a permit is finite, and is in the balance.  *)
LEMMA RunningFinite ==
    /\ IsFiniteSet(Running) /\ Cardinality(Running) \in Nat
    /\ \A S \in SUBSET Slugs : IsFiniteSet(S) /\ Cardinality(S) \in Nat
BY AgentAssumption, FS_Subset, FS_CardinalityType DEF Running

(* The end of run_job: the permit of s is freed or is the first waiter's,   *)
(* and the balance of the semaphore is kept.                                *)
LEMMA ReleaseFacts ==
    ASSUME AgentTypeOK, TasksMatch, SlotsBalanced,
           NEW s \in Slugs, puller[s] = "running",
           NEW o, Release(s, o)
    PROVE  /\ puller' \in [Slugs -> PullerStates]
           /\ free' \in 0..MaxConcurrent
           /\ waiters' \in Seq(Slugs)
           /\ puller'[s] = "polling"
           /\ \A t \in Slugs \ {s} : \/ puller'[t] = puller[t]
                                     \/ puller[t] = "acquiring" /\ puller'[t] = "granted"
           /\ SlotsBalanced'
<1> USE AgentAssumption
<1>1. /\ puller \in [Slugs -> PullerStates]
      /\ free \in Nat /\ free <= MaxConcurrent
      /\ waiters \in Seq(Slugs)
      /\ {"polling", "granted"} \subseteq PullerStates
  BY DEF AgentTypeOK, PullerStates
<1>2. s \in Running /\ IsFiniteSet(Running) /\ Cardinality(Running) \in Nat
  BY RunningFinite DEF Running
<1>3. /\ IsFiniteSet(Running \ {s})
      /\ Cardinality(Running \ {s}) \in Nat
      /\ Cardinality(Running \ {s}) = Cardinality(Running) - 1
  <2>1. /\ IsFiniteSet(Running \ {s})
        /\ Cardinality(Running \ {s}) = Cardinality(Running) - 1
    BY <1>2, FS_RemoveElement
  <2>. QED
    BY <2>1, FS_CardinalityType
<1>4. CASE waiters = <<>>
  <2>1. /\ free' = free + 1
        /\ puller' = [puller EXCEPT ![s] = "polling"]
        /\ waiters' = waiters
    BY <1>4 DEF Release
  <2>2. Running' = Running \ {s}
    BY <2>1, <1>1 DEF Running
  <2>3. free' + Cardinality(Running') = MaxConcurrent
    BY <2>1, <2>2, <1>1, <1>3, <1>2 DEF SlotsBalanced
  <2>4. free' \in 0..MaxConcurrent
    BY <2>1, <2>2, <2>3, <1>1, <1>2, <1>3
  <2>5. puller' \in [Slugs -> PullerStates]
    BY <2>1, <1>1
  <2>6. puller'[s] = "polling" /\ \A t \in Slugs \ {s} : puller'[t] = puller[t]
    BY <2>1, <1>1
  <2>7. SlotsBalanced'
    BY <2>1, <2>3, <2>6, <1>4, <1>1 DEF SlotsBalanced
  <2>. QED
    BY <2>1, <2>4, <2>5, <2>6, <2>7, <1>1
<1>5. CASE waiters # <<>>
  <2> DEFINE h == Head(waiters)
  <2>1. /\ free' = free
        /\ puller' = [puller EXCEPT ![s] = "polling", ![h] = "granted"]
        /\ waiters' = Tail(waiters)
    BY <1>5 DEF Release
  <2>2. /\ Tail(waiters) \in Seq(Slugs) /\ h \in Slugs
        /\ Len(waiters) \in Nat \ {0}
        /\ h = waiters[1]
        /\ Len(Tail(waiters)) = Len(waiters) - 1
        /\ \A i \in 1..Len(Tail(waiters)) : Tail(waiters)[i] = waiters[i + 1]
    BY <1>5, <1>1
  <2>3. puller[h] = "acquiring" /\ h # s
    BY <2>2, <1>1 DEF SlotsBalanced
  <2> HIDE DEF h
  <2>4. /\ puller'[s] = "polling" /\ puller'[h] = "granted"
        /\ \A t \in Slugs \ {s, h} : puller'[t] = puller[t]
    BY <2>1, <2>2, <2>3, <1>1
  <2>5. Running' = (Running \ {s}) \cup {h} /\ h \notin Running
    BY <2>2, <2>3, <2>4 DEF Running
  <2>6. Cardinality(Running') = Cardinality(Running)
    <3>1. h \notin Running \ {s}
      BY <2>5
    <3>2. Cardinality((Running \ {s}) \cup {h}) = Cardinality(Running \ {s}) + 1
      BY <3>1, <1>3, FS_AddElement
    <3>. QED
      BY <3>2, <2>5, <1>2, <1>3
  <2>7. free' + Cardinality(Running') = MaxConcurrent
    BY <2>1, <2>6 DEF SlotsBalanced
  <2>8. \A i, k \in 1..Len(waiters') : waiters'[i] = waiters'[k] => i = k
    <3>1. ASSUME NEW i \in 1..Len(Tail(waiters)), NEW k \in 1..Len(Tail(waiters)),
                 Tail(waiters)[i] = Tail(waiters)[k]
          PROVE  i = k
      <4>1. /\ waiters[i + 1] = waiters[k + 1]
            /\ i + 1 \in 1..Len(waiters) /\ k + 1 \in 1..Len(waiters)
        BY <3>1, <2>2
      <4>2. i + 1 = k + 1
        BY <4>1 DEF SlotsBalanced
      <4>. QED
        BY <4>2
    <3>. QED
      BY <3>1, <2>1
  <2>9. ASSUME NEW t \in Slugs
        PROVE  puller'[t] = "acquiring" <=> \E i \in 1..Len(waiters') : waiters'[i] = t
    <3>1. CASE t = h
      <4>1. ~ \E i \in 1..Len(Tail(waiters)) : Tail(waiters)[i] = h
        <5>1. SUFFICES ASSUME NEW i \in 1..Len(Tail(waiters)), waiters[i + 1] = waiters[1]
                       PROVE  FALSE
          BY <2>2
        <5>2. i + 1 \in 1..Len(waiters) /\ 1 \in 1..Len(waiters) /\ i + 1 # 1
          BY <2>2
        <5>. QED
          BY <5>1, <5>2 DEF SlotsBalanced
      <4>. QED
        BY <4>1, <3>1, <2>4, <2>1
    <3>2. CASE t # h
      <4>1. (\E i \in 1..Len(Tail(waiters)) : Tail(waiters)[i] = t)
                <=> \E i \in 1..Len(waiters) : waiters[i] = t
        <5>1. ASSUME NEW i \in 1..Len(waiters), waiters[i] = t
              PROVE  i - 1 \in 1..Len(Tail(waiters)) /\ Tail(waiters)[i - 1] = t
          BY <5>1, <3>2, <2>2
        <5>2. ASSUME NEW i \in 1..Len(Tail(waiters)), Tail(waiters)[i] = t
              PROVE  i + 1 \in 1..Len(waiters) /\ waiters[i + 1] = t
          BY <5>2, <2>2
        <5>. QED
          BY <5>1, <5>2
      <4>2. puller'[t] = "acquiring" <=> puller[t] = "acquiring"
        BY <3>2, <2>4
      <4>. QED
        BY <4>1, <4>2, <2>1 DEF SlotsBalanced
    <3>. QED
      BY <3>1, <3>2
  <2>10. free = 0
    BY <1>5 DEF SlotsBalanced
  <2>11. SlotsBalanced'
    BY <2>1, <2>7, <2>8, <2>9, <2>10 DEF SlotsBalanced
  <2>. QED
    BY <2>1, <2>2, <2>3, <2>4, <2>11, <1>1
<1>. QED
  BY <1>4, <1>5

-----------------------------------------------------------------------------
(* Every step of the worker keeps the types of its variables.               *)
LEMMA StepAgentType ==
    ASSUME AInv, [AgentNext]_agentVars
    PROVE  AgentTypeOK'
<1> USE AgentAssumption
<1>a. AgentTypeOK /\ TasksMatch /\ SlotsBalanced
  BY DEF AInv
<1>b. /\ puller \in [Slugs -> PullerStates]
      /\ task \in [Slugs -> Jobs \cup {NoJob}]
      /\ free \in Nat /\ free <= MaxConcurrent
      /\ waiters \in Seq(Slugs)
      /\ handed \subseteq Jobs
      /\ upload \in [Jobs -> UploadStates]
      /\ body \in [Jobs -> Seq(Envelopes)]
      /\ llama \in [Jobs -> LlamaStates]
      /\ expired \subseteq Jobs
      /\ asked \in BOOLEAN
  BY <1>a DEF AgentTypeOK
<1>c. /\ {"polling", "sleeping", "acquiring", "granted", "running", "stopped"}
             \subseteq PullerStates
      /\ {"none", "start", "reading", "last", "sent", "cut"} \subseteq UploadStates
      /\ {"none", "open", "completed", "failed"} \subseteq LlamaStates
  BY DEF PullerStates, UploadStates, LlamaStates
<1>1. ASSUME NEW s \in Slugs, PollFails(s) \/ Wake(s)
      PROVE  AgentTypeOK'
  BY <1>1, <1>b, <1>c DEF AgentTypeOK, PollFails, Wake, streamVars
<1>2. ASSUME NEW s \in Slugs, StartJob(s)
      PROVE  AgentTypeOK'
  <2>1. puller' \in [Slugs -> PullerStates] /\ upload' \in [Jobs -> UploadStates]
    BY <1>2, <1>b, <1>c DEF StartJob
  <2>. QED
    BY <2>1, <1>2, <1>a DEF AgentTypeOK, StartJob
<1>3. ASSUME NEW s \in Slugs, NEW j \in Jobs, PollJob(s, j)
      PROVE  AgentTypeOK'
  <2>1. puller' \in [Slugs -> PullerStates]
    BY <1>3, <1>b, <1>c DEF PollJob
  <2>2. upload' \in [Jobs -> UploadStates]
    BY <1>3, <1>b, <1>c DEF PollJob
  <2>3. free' \in 0..MaxConcurrent
    BY <1>3, <1>b DEF PollJob
  <2>4. waiters' \in Seq(Slugs)
    <3>1. Append(waiters, s) \in Seq(Slugs)
      BY <1>b
    <3>. QED
      BY <3>1, <1>3, <1>b DEF PollJob
  <2>5. task' \in [Slugs -> Jobs \cup {NoJob}] /\ handed' \subseteq Jobs
    BY <1>3, <1>b DEF PollJob
  <2>. QED
    BY <2>1, <2>2, <2>3, <2>4, <2>5, <1>3, <1>a DEF AgentTypeOK, PollJob
<1>4. ASSUME NEW j \in Jobs, NEW e \in Envelopes, NEW u \in UploadStates,
             NEW l \in LlamaStates, Yield(j, e, u, l)
      PROVE  AgentTypeOK'
  BY <1>4, <1>b DEF AgentTypeOK, Yield, pullerVars
<1>5. ASSUME NEW j \in Jobs, ExpiredFirst(j) \/ LlamaStep(j)
      PROVE  AgentTypeOK'
  <2>1. Error \in Envelopes /\ Done \in Envelopes
    BY EnvelopeTypes
  <2>2. Len(body[j]) < MaxChunks => Chunk(Len(body[j]) + 1) \in Envelopes
    BY EnvelopeTypes, <1>b
  <2>. QED
    BY <1>5, <1>4, <1>c, <2>1, <2>2, SendSteps
<1>6. ASSUME NEW j \in Jobs, OpenLlama(j)
      PROVE  AgentTypeOK'
  BY <1>6, <1>b, <1>c DEF AgentTypeOK, OpenLlama, pullerVars
<1>7. ASSUME NEW j \in Jobs, EndBody(j)
      PROVE  AgentTypeOK'
  BY <1>7, <1>b, <1>c DEF AgentTypeOK, EndBody, pullerVars
<1>8. ASSUME NEW j \in Jobs, Answered(j) \/ Broken(j)
      PROVE  AgentTypeOK'
  <2>1. PICK o \in UploadStates : Release(SlugOf[j], o)
    BY <1>8, <1>c DEF Answered, Broken
  <2>2. task[SlugOf[j]] = j /\ SlugOf[j] \in Slugs /\ puller[SlugOf[j]] = "running"
    BY <1>8 DEF Answered, Broken, Runs
  <2>3. UNCHANGED <<handed, body, expired, asked>>
    BY <1>8 DEF Answered, Broken
  <2>4. llama' \in [Jobs -> LlamaStates]
    BY <1>8, <1>b, <1>c DEF Answered, Broken
  <2>5. /\ task' \in [Slugs -> Jobs \cup {NoJob}]
        /\ upload' \in [Jobs -> UploadStates]
    BY <2>1, <2>2, <1>b DEF Release
  <2>6. /\ puller' \in [Slugs -> PullerStates]
        /\ free' \in 0..MaxConcurrent
        /\ waiters' \in Seq(Slugs)
    BY <2>1, <2>2, <1>a, ReleaseFacts
  <2>. QED
    BY <2>3, <2>4, <2>5, <2>6, <1>b DEF AgentTypeOK
<1>9. ASSUME NEW j \in Jobs, Expire(j)
      PROVE  AgentTypeOK'
  BY <1>9, <1>b DEF AgentTypeOK, Expire, pullerVars, streamVars
<1>9a. ASSUME NEW j \in Jobs, CloseAbandoned(j)
       PROVE  AgentTypeOK'
  BY <1>9a, <1>b, <1>c DEF AgentTypeOK, CloseAbandoned, pullerVars
<1>10. ASSUME NEW S \in SUBSET Readers, StopExcept(S), asked' \in {asked, TRUE}
       PROVE  AgentTypeOK'
  <2>1. Error \in Envelopes
    BY EnvelopeTypes
  <2>2. S \subseteq Running /\ Cardinality(S) <= Cardinality(Running)
    BY RunningFinite, FS_Subset DEF Readers, Running
  <2>3. free' \in 0..MaxConcurrent
    <3>1. Cardinality(S) \in Nat /\ Cardinality(S) <= MaxConcurrent
      BY <2>2, RunningFinite, <1>a, <1>b, FS_CardinalityType, FS_Subset DEF SlotsBalanced
    <3>. QED
      BY <3>1, <1>10 DEF StopExcept
  <2>4. /\ puller' \in [Slugs -> PullerStates]
        /\ task' \in [Slugs -> Jobs \cup {NoJob}]
        /\ waiters' \in Seq(Slugs)
    BY <1>10, <1>b, <1>c DEF StopExcept
  <2>5. /\ upload' \in [Jobs -> UploadStates]
        /\ llama' \in [Jobs -> LlamaStates]
    BY <1>10, <1>b, <1>c DEF StopExcept
  <2>6. body' \in [Jobs -> Seq(Envelopes)]
    BY <1>10, <1>b, <2>1 DEF StopExcept
  <2>. QED
    BY <2>3, <2>4, <2>5, <2>6, <1>10, <1>b DEF AgentTypeOK, StopExcept
<1>11. CASE Restart
  BY <1>11, <1>b, <1>c DEF AgentTypeOK, Restart, streamVars
<1>12. CASE UNCHANGED agentVars
  BY <1>12, <1>a DEF AgentTypeOK, agentVars, pullerVars, streamVars
<1>. QED
  BY AgentSteps, <1>1, <1>2, <1>3, <1>5, <1>6, <1>7, <1>8, <1>9, <1>9a, <1>10, <1>11, <1>12

(* The balance of the semaphore is kept by every step: a permit is taken    *)
(* only when one is free, and one that is given back goes to the first      *)
(* waiter if there is one.                                                  *)
LEMMA StepSlots ==
    ASSUME AInv, [AgentNext]_agentVars
    PROVE  SlotsBalanced'
<1> USE AgentAssumption
<1>a. AgentTypeOK /\ TasksMatch /\ SlotsBalanced
  BY DEF AInv
<1>b. /\ puller \in [Slugs -> PullerStates]
      /\ free \in Nat /\ free <= MaxConcurrent
      /\ waiters \in Seq(Slugs)
  BY <1>a DEF AgentTypeOK
<1>c. ASSUME UNCHANGED <<free, waiters>>,
             \A s \in Slugs :
                 \/ puller'[s] = puller[s]
                 \/ puller[s] \in {"polling", "sleeping"} /\ puller'[s] \in {"polling", "sleeping"}
                 \/ puller[s] = "granted" /\ puller'[s] = "running"
      PROVE  SlotsBalanced'
  <2>1. Running' = Running
    BY <1>c DEF Running
  <2>2. \A s \in Slugs : puller'[s] = "acquiring" <=> puller[s] = "acquiring"
    BY <1>c
  <2>. QED
    BY <2>1, <2>2, <1>a, <1>c DEF SlotsBalanced
<1>1. ASSUME NEW s \in Slugs, PollFails(s) \/ Wake(s)
      PROVE  SlotsBalanced'
  <2>1. /\ UNCHANGED <<free, waiters>>
        /\ puller[s] \in {"polling", "sleeping"} /\ puller'[s] \in {"polling", "sleeping"}
        /\ \A t \in Slugs \ {s} : puller'[t] = puller[t]
    BY <1>1, <1>b DEF PollFails, Wake
  <2>. QED
    BY <2>1, <1>c
<1>2. ASSUME NEW s \in Slugs, StartJob(s)
      PROVE  SlotsBalanced'
  BY <1>2, <1>b, <1>c DEF StartJob
<1>3. ASSUME NEW s \in Slugs, NEW j \in Jobs, PollJob(s, j)
      PROVE  SlotsBalanced'
  <2>1. puller[s] = "polling" /\ s \notin Running
    BY <1>3 DEF PollJob, Running
  <2>2. CASE free > 0 /\ waiters = <<>>
    <3>1. free' = free - 1 /\ waiters' = waiters /\ puller' = [puller EXCEPT ![s] = "running"]
      BY <1>3, <2>2 DEF PollJob
    <3>2. Running' = Running \cup {s}
      BY <3>1, <1>b DEF Running
    <3>3. Cardinality(Running') = Cardinality(Running) + 1
      BY <3>2, <2>1, RunningFinite, FS_AddElement
    <3>4. \A t \in Slugs : puller'[t] = "acquiring" <=> puller[t] = "acquiring"
      BY <3>1, <1>b, <2>1
    <3>5. free' + Cardinality(Running') = MaxConcurrent
      BY <3>1, <3>3, <1>a, <1>b, RunningFinite DEF SlotsBalanced
    <3>. QED
      BY <3>1, <3>4, <3>5, <2>2, <1>a DEF SlotsBalanced
  <2>3. CASE ~(free > 0 /\ waiters = <<>>)
    <3>1. /\ free' = free /\ waiters' = Append(waiters, s)
          /\ puller' = [puller EXCEPT ![s] = "acquiring"]
      BY <1>3, <2>3 DEF PollJob
    <3>2. Running' = Running
      BY <3>1, <1>b, <2>1 DEF Running
    <3>3. free = 0
      BY <2>3, <1>a, <1>b DEF SlotsBalanced
    <3>4. /\ Len(waiters) \in Nat
          /\ Len(Append(waiters, s)) = Len(waiters) + 1
          /\ Append(waiters, s)[Len(waiters) + 1] = s
          /\ \A i \in 1..Len(waiters) : Append(waiters, s)[i] = waiters[i] /\ waiters[i] # s
      BY <1>b, <1>a, <2>1 DEF SlotsBalanced
    <3>5. \A i, k \in 1..Len(waiters') : waiters'[i] = waiters'[k] => i = k
      <4>1. ASSUME NEW i \in 1..Len(waiters) + 1, NEW k \in 1..Len(waiters) + 1,
                   Append(waiters, s)[i] = Append(waiters, s)[k]
            PROVE  i = k
        <5>1. CASE i \in 1..Len(waiters) /\ k \in 1..Len(waiters)
          BY <5>1, <4>1, <3>4, <1>a DEF SlotsBalanced
        <5>2. CASE i = Len(waiters) + 1 \/ k = Len(waiters) + 1
          BY <5>2, <4>1, <3>4
        <5>. QED
          BY <5>1, <5>2, <3>4
      <4>. QED
        BY <4>1, <3>1, <3>4
    <3>6. ASSUME NEW t \in Slugs
          PROVE  puller'[t] = "acquiring" <=> \E i \in 1..Len(waiters') : waiters'[i] = t
      <4>1. CASE t = s
        BY <4>1, <3>1, <3>4, <1>b
      <4>2. CASE t # s
        <5>1. puller'[t] = puller[t]
          BY <4>2, <3>1, <1>b
        <5>2. (\E i \in 1..Len(waiters) + 1 : Append(waiters, s)[i] = t)
                  <=> \E i \in 1..Len(waiters) : waiters[i] = t
          <6>1. ASSUME NEW i \in 1..Len(waiters) + 1, Append(waiters, s)[i] = t
                PROVE  i \in 1..Len(waiters) /\ waiters[i] = t
            BY <6>1, <4>2, <3>4
          <6>2. ASSUME NEW i \in 1..Len(waiters), waiters[i] = t
                PROVE  i \in 1..Len(waiters) + 1 /\ Append(waiters, s)[i] = t
            BY <6>2, <3>4
          <6>. QED
            BY <6>1, <6>2
        <5>. QED
          BY <5>1, <5>2, <3>1, <3>4, <1>a DEF SlotsBalanced
      <4>. QED
        BY <4>1, <4>2
    <3>. QED
      BY <3>1, <3>2, <3>3, <3>5, <3>6, <1>a DEF SlotsBalanced
  <2>. QED
    BY <2>2, <2>3
<1>4. ASSUME NEW j \in Jobs,
             \/ ExpiredFirst(j) \/ LlamaStep(j) \/ OpenLlama(j) \/ EndBody(j)
             \/ CloseAbandoned(j) \/ Expire(j)
      PROVE  SlotsBalanced'
  <2>1. UNCHANGED pullerVars
    BY <1>4, SendSteps DEF Yield, OpenLlama, EndBody, CloseAbandoned, Expire
  <2>. QED
    BY <2>1, <1>c DEF pullerVars
<1>5. ASSUME NEW j \in Jobs, Answered(j) \/ Broken(j)
      PROVE  SlotsBalanced'
  <2>1. \E o : Release(SlugOf[j], o)
    BY <1>5 DEF Answered, Broken
  <2>2. SlugOf[j] \in Slugs /\ puller[SlugOf[j]] = "running"
    BY <1>5 DEF Answered, Broken, Runs
  <2>. QED
    BY <2>1, <2>2, <1>a, ReleaseFacts
<1>6. ASSUME NEW S \in SUBSET Readers, StopExcept(S), asked' \in {asked, TRUE}
      PROVE  SlotsBalanced'
  <2>1. S \subseteq Slugs /\ Running' = S
    BY <1>6 DEF StopExcept, Running, Readers
  <2>2. waiters' = <<>> /\ free' = MaxConcurrent - Cardinality(S)
    BY <1>6 DEF StopExcept
  <2>3. \A s \in Slugs : puller'[s] # "acquiring"
    BY <1>6 DEF StopExcept
  <2>4. Cardinality(S) \in Nat
    BY <2>1, RunningFinite
  <2>. QED
    BY <2>1, <2>2, <2>3, <2>4 DEF SlotsBalanced
<1>7. CASE Restart
  <2>1. Running' = {} /\ Running = {}
    BY <1>7 DEF Restart, Running
  <2>2. \A s \in Slugs : puller[s] # "acquiring" /\ puller'[s] # "acquiring"
    BY <1>7 DEF Restart
  <2>3. waiters' = waiters /\ free' = MaxConcurrent
    BY <1>7 DEF Restart
  <2>4. waiters = <<>>
    <3>1. SUFFICES ASSUME waiters # <<>> PROVE FALSE
      OBVIOUS
    <3>2. waiters[1] \in Slugs /\ 1 \in 1..Len(waiters)
      BY <3>1, <1>b
    <3>. QED
      BY <3>2, <2>2, <1>a DEF SlotsBalanced
  <2>5. Cardinality({}) = 0
    BY FS_EmptySet
  <2>. QED
    BY <2>1, <2>2, <2>3, <2>4, <2>5, <1>a DEF SlotsBalanced
<1>8. CASE UNCHANGED agentVars
  BY <1>8, <1>c DEF agentVars, pullerVars
<1>. QED
  BY AgentSteps, <1>1, <1>2, <1>3, <1>4, <1>5, <1>6, <1>7, <1>8

(* Tasks, pullers and uploads stay in step.  An upload that changes is the  *)
(* task of the one puller that may run it: another puller's task is a job   *)
(* of another slug.                                                         *)
LEMMA StepTasks ==
    ASSUME AInv, [AgentNext]_agentVars
    PROVE  TasksMatch'
<1> USE AgentAssumption
<1>a. AgentTypeOK /\ TasksMatch /\ SlotsBalanced
  BY DEF AInv
<1>b. /\ puller \in [Slugs -> PullerStates]
      /\ task \in [Slugs -> Jobs \cup {NoJob}]
      /\ upload \in [Jobs -> UploadStates]
      /\ waiters \in Seq(Slugs)
      /\ handed \subseteq Jobs
      /\ \A j \in Jobs : SlugOf[j] \in Slugs /\ j # NoJob
  BY <1>a DEF AgentTypeOK
<1>1. ASSUME NEW s \in Slugs, PollFails(s) \/ Wake(s)
      PROVE  TasksMatch'
  <2>1. /\ UNCHANGED <<task, handed, upload>>
        /\ puller[s] \in {"polling", "sleeping"} /\ puller'[s] \in {"polling", "sleeping"}
        /\ \A t \in Slugs \ {s} : puller'[t] = puller[t]
    BY <1>1, <1>b DEF PollFails, Wake, streamVars
  <2>. QED
    BY <2>1, <1>a, <1>b DEF TasksMatch
<1>2. ASSUME NEW s \in Slugs, StartJob(s)
      PROVE  TasksMatch'
  <2>1. /\ task[s] \in Jobs /\ SlugOf[task[s]] = s /\ task[s] \in handed
        /\ upload[task[s]] = "none" /\ puller[s] = "granted"
    BY <1>2, <1>a, <1>b DEF StartJob, TasksMatch
  <2>2. /\ UNCHANGED <<task, handed>>
        /\ puller'[s] = "running"
        /\ \A t \in Slugs \ {s} : puller'[t] = puller[t]
        /\ upload'[task[s]] = "start"
        /\ \A k \in Jobs \ {task[s]} : upload'[k] = upload[k]
    BY <1>2, <2>1, <1>b DEF StartJob
  <2>3. \A t \in Slugs \ {s} : task[t] # task[s]
    BY <2>1, <1>a, <1>b DEF TasksMatch
  <2>. QED
    BY <2>1, <2>2, <2>3, <1>a, <1>b DEF TasksMatch
<1>3. ASSUME NEW s \in Slugs, NEW j \in Jobs, PollJob(s, j)
      PROVE  TasksMatch'
  <2>1. /\ puller[s] = "polling" /\ j \notin handed /\ SlugOf[j] = s
        /\ handed' = handed \cup {j}
        /\ task'[s] = j
        /\ \A t \in Slugs \ {s} : task'[t] = task[t] /\ puller'[t] = puller[t]
        /\ \A k \in Jobs \ {j} : upload'[k] = upload[k]
        /\ \/ puller'[s] = "running" /\ upload'[j] = "start"
           \/ puller'[s] = "acquiring" /\ upload'[j] = upload[j]
    BY <1>3, <1>b DEF PollJob
  <2>2. upload[j] = "none" /\ \A t \in Slugs : task[t] # j
    BY <2>1, <1>a, <1>b DEF TasksMatch
  <2>. QED
    BY <2>1, <2>2, <1>a, <1>b DEF TasksMatch
<1>4. ASSUME NEW j \in Jobs, ExpiredFirst(j) \/ LlamaStep(j) \/ OpenLlama(j) \/ EndBody(j)
      PROVE  TasksMatch'
  <2>1. /\ puller[SlugOf[j]] = "running" /\ task[SlugOf[j]] = j
        /\ UNCHANGED <<puller, task, handed>>
        /\ \E u \in {"reading", "last", "sent"} : upload' = [upload EXCEPT ![j] = u]
    BY <1>4, SendSteps DEF Runs, Yield, OpenLlama, EndBody, pullerVars
  <2>2. /\ upload'[j] \in {"reading", "last", "sent"}
        /\ \A k \in Jobs \ {j} : upload'[k] = upload[k]
    BY <2>1, <1>b
  <2>3. j \in handed /\ \A t \in Slugs : task[t] = j => t = SlugOf[j]
    BY <2>1, <1>a, <1>b DEF TasksMatch
  <2>. QED
    BY <2>1, <2>2, <2>3, <1>a, <1>b DEF TasksMatch
<1>5. ASSUME NEW j \in Jobs, Answered(j) \/ Broken(j)
      PROVE  TasksMatch'
  <2> DEFINE s == SlugOf[j]
  <2>1. s \in Slugs /\ puller[s] = "running" /\ task[s] = j /\ UNCHANGED handed
    BY <1>5, <1>b DEF Answered, Broken, Runs
  <2>2. PICK o \in {"sent", "cut"} : Release(s, o)
    BY <1>5 DEF Answered, Broken
  <2> HIDE DEF s
  <2>3. /\ puller'[s] = "polling"
        /\ \A t \in Slugs \ {s} : \/ puller'[t] = puller[t]
                                  \/ puller[t] = "acquiring" /\ puller'[t] = "granted"
    BY <2>1, <2>2, <1>a, ReleaseFacts
  <2>4. /\ task'[s] = NoJob
        /\ \A t \in Slugs \ {s} : task'[t] = task[t]
        /\ upload'[j] \in {"sent", "cut"}
        /\ \A k \in Jobs \ {j} : upload'[k] = upload[k]
    BY <2>1, <2>2, <1>b DEF Release
  <2>5. SlugOf[j] = s /\ j \in handed /\ \A t \in Slugs \ {s} : task[t] # j
    BY <2>1, <1>a, <1>b DEF TasksMatch
  <2>. QED
    BY <2>1, <2>3, <2>4, <2>5, <1>a, <1>b DEF TasksMatch
<1>6. ASSUME NEW j \in Jobs, Expire(j) \/ CloseAbandoned(j)
      PROVE  TasksMatch'
  BY <1>6, <1>a DEF TasksMatch, Expire, CloseAbandoned, pullerVars, streamVars
<1>7. ASSUME NEW S \in SUBSET Readers, StopExcept(S), asked' \in {asked, TRUE}
      PROVE  TasksMatch'
  <2> DEFINE on == {task[s] : s \in S}
  <2>1. /\ S \subseteq Slugs
        /\ \A s \in S : task[s] \in Jobs /\ SlugOf[task[s]] = s
        /\ \A k \in Jobs : k \in on <=> SlugOf[k] \in S /\ task[SlugOf[k]] = k
        /\ \A k \in on : k \in Jobs /\ upload[k] = "reading"
    BY <1>a, SurvivorsRun
  <2>2. /\ \A s \in Slugs : puller'[s] = IF s \in S THEN "running" ELSE "stopped"
        /\ \A s \in Slugs : task'[s] = IF s \in S THEN task[s] ELSE NoJob
        /\ \A k \in Jobs : upload'[k] = IF k \in on THEN "last"
                                        ELSE IF k \in handed /\ upload[k] # "sent" THEN "cut"
                                        ELSE upload[k]
        /\ handed' = handed
    BY <1>7 DEF StopExcept
  <2>3. \A s \in S : task[s] \in on
    OBVIOUS
  <2> HIDE DEF on
  <2>4. \A k \in Jobs : k \in on => k \in handed
    BY <2>1, <1>a DEF TasksMatch
  <2>5. \A k \in Jobs : upload'[k] \in {"start", "reading", "last"} => k \in on
    BY <2>2, <1>a, <1>b DEF TasksMatch
  <2>6. \A k \in Jobs : upload'[k] # "none" => k \in handed
    BY <2>2, <2>4, <1>a DEF TasksMatch
  <2>7. \A s \in Slugs : s \in S => /\ task'[s] \in handed /\ SlugOf[task'[s]] = s
                                    /\ task'[s] # NoJob /\ upload'[task'[s]] = "last"
    BY <2>1, <2>2, <2>3, <2>4, <1>b
  <2>8. \A s \in Slugs : s \notin S => task'[s] = NoJob /\ puller'[s] = "stopped"
    BY <2>2
  <2>9. \A k \in Jobs : k \in on => puller'[SlugOf[k]] = "running" /\ task'[SlugOf[k]] = k
    BY <2>1, <2>2, <1>b
  <2>. QED
    BY <2>1, <2>2, <2>5, <2>6, <2>7, <2>8, <2>9 DEF TasksMatch
<1>8. CASE Restart
  <2>1. \A s \in Slugs : puller[s] = "stopped" /\ puller'[s] = "polling"
    BY <1>8 DEF Restart
  <2>2. UNCHANGED <<task, handed, upload>>
    BY <1>8 DEF Restart, streamVars
  <2>. QED
    BY <2>1, <2>2, <1>a, <1>b DEF TasksMatch
<1>9. CASE UNCHANGED agentVars
  BY <1>9, <1>a DEF TasksMatch, agentVars, pullerVars, streamVars
<1>. QED
  BY AgentSteps, <1>1, <1>2, <1>3, <1>4, <1>5, <1>6, <1>7, <1>8, <1>9

(* What has been sent, how far the generator is and what the request to     *)
(* llama-server has come to stay in step: every way out of the generator    *)
(* ends the body once, with done only after [DONE].                         *)
LEMMA StepBodies ==
    ASSUME AInv, [AgentNext]_agentVars
    PROVE  BodiesMatch' /\ LlamaMatch'
<1> USE AgentAssumption
<1>a. AgentTypeOK /\ TasksMatch /\ BodiesMatch /\ LlamaMatch
  BY DEF AInv
<1>b. /\ task \in [Slugs -> Jobs \cup {NoJob}]
      /\ upload \in [Jobs -> UploadStates]
      /\ body \in [Jobs -> Seq(Envelopes)]
      /\ llama \in [Jobs -> LlamaStates]
      /\ \A j \in Jobs : SlugOf[j] \in Slugs /\ j # NoJob
  BY <1>a DEF AgentTypeOK
<1>c. ASSUME UNCHANGED <<body, llama>>,
             \A j \in Jobs : \/ upload'[j] = upload[j]
                             \/ upload[j] = "none" /\ upload'[j] = "start"
                             \/ upload[j] = "last" /\ upload'[j] = "sent"
      PROVE  BodiesMatch' /\ LlamaMatch'
  BY <1>c, <1>a DEF BodiesMatch, LlamaMatch, HasEnd
<1>1. ASSUME NEW s \in Slugs, PollFails(s) \/ Wake(s)
      PROVE  BodiesMatch' /\ LlamaMatch'
  BY <1>1, <1>c DEF PollFails, Wake, streamVars
<1>2. ASSUME NEW s \in Slugs, StartJob(s)
      PROVE  BodiesMatch' /\ LlamaMatch'
  <2>1. upload[task[s]] = "none"
    BY <1>2, <1>a DEF StartJob, TasksMatch
  <2>2. UNCHANGED <<body, llama>> /\ upload' = [upload EXCEPT ![task[s]] = "start"]
    BY <1>2 DEF StartJob
  <2>. QED
    BY <2>1, <2>2, <1>b, <1>c
<1>3. ASSUME NEW s \in Slugs, NEW j \in Jobs, PollJob(s, j)
      PROVE  BodiesMatch' /\ LlamaMatch'
  <2>1. upload[j] = "none"
    BY <1>3, <1>a DEF PollJob, TasksMatch
  <2>2. UNCHANGED <<body, llama>> /\ upload' \in {upload, [upload EXCEPT ![j] = "start"]}
    BY <1>3 DEF PollJob
  <2>. QED
    BY <2>1, <2>2, <1>b, <1>c
<1>4. ASSUME NEW j \in Jobs, ExpiredFirst(j) \/ LlamaStep(j)
      PROVE  BodiesMatch' /\ LlamaMatch'
  <2>1. PICK e \in {Chunk(Len(body[j]) + 1), Done, Error}, u \in {"reading", "last"},
             l \in {"none", "open", "completed", "failed"} :
            /\ Yield(j, e, u, l)
            /\ upload[j] \in {"start", "reading"}
            /\ e = Chunk(Len(body[j]) + 1) <=> u = "reading"
            /\ u = "reading" <=> l = "open"
            /\ e = Done <=> l = "completed"
            /\ e = Chunk(Len(body[j]) + 1) => Len(body[j]) < MaxChunks
    BY <1>4, SendSteps, EnvelopeTypes DEF Runs
  <2>2. e \in Envelopes
    BY <2>1, <1>b, EnvelopeTypes
  <2>3. /\ body'[j] = Append(body[j], e) /\ upload'[j] = u /\ llama'[j] = l
        /\ \A k \in Jobs \ {j} :
               body'[k] = body[k] /\ upload'[k] = upload[k] /\ llama'[k] = llama[k]
    BY <2>1, <1>b DEF Yield
  <2>4. /\ Len(body'[j]) = Len(body[j]) + 1 /\ Len(body[j]) \in Nat
        /\ body'[j][Len(body[j]) + 1] = e
        /\ \A i \in 1..Len(body[j]) : body'[j][i] = body[j][i]
    BY <2>2, <2>3, <1>b, BodyGrows
  <2>5. \A i \in 1..Len(body[j]) : body[j][i] = Chunk(i)
    BY <2>1, <1>a, <1>b DEF BodiesMatch, HasEnd
  <2>6. \A i \in 1..Len(body'[j]) : \/ body'[j][i] = Chunk(i)
                                    \/ i = Len(body'[j]) /\ body'[j][i] \in {Done, Error}
    BY <2>1, <2>4, <2>5
  <2>7. /\ HasEnd(j)' <=> u = "last"
        /\ body'[j][Len(body'[j])] = e /\ Len(body'[j]) > 0
    BY <2>1, <2>4, EnvelopeTypes DEF HasEnd
  <2>8. \A k \in Jobs \ {j} : HasEnd(k)' <=> HasEnd(k)
    BY <2>3 DEF HasEnd
  <2>9. BodiesMatch'
    <3>1. \A k \in Jobs \ {j} : \A i \in 1..Len(body'[k]) :
              \/ body'[k][i] = Chunk(i)
              \/ i = Len(body'[k]) /\ body'[k][i] \in {Done, Error}
      BY <2>3, <1>a DEF BodiesMatch
    <3>. QED
      BY <3>1, <2>1, <2>3, <2>6, <2>7, <2>8, <1>a DEF BodiesMatch
  <2>10. LlamaMatch'
    BY <2>1, <2>3, <2>7, EnvelopeTypes, <1>a DEF LlamaMatch
  <2>. QED
    BY <2>9, <2>10
<1>5. ASSUME NEW j \in Jobs, OpenLlama(j)
      PROVE  BodiesMatch' /\ LlamaMatch'
  <2>1. /\ upload[j] = "start" /\ upload'[j] = "reading" /\ llama'[j] = "open"
        /\ \A k \in Jobs \ {j} : upload'[k] = upload[k] /\ llama'[k] = llama[k]
        /\ body' = body
    BY <1>5, <1>b DEF OpenLlama, Runs
  <2>2. body[j] = <<>> /\ Len(body[j]) = 0
    BY <2>1, <1>a DEF BodiesMatch
  <2>. QED
    BY <2>1, <2>2, <1>a DEF BodiesMatch, LlamaMatch, HasEnd
<1>6. ASSUME NEW j \in Jobs, EndBody(j)
      PROVE  BodiesMatch' /\ LlamaMatch'
  <2>1. UNCHANGED <<body, llama>> /\ upload[j] = "last" /\ upload' = [upload EXCEPT ![j] = "sent"]
    BY <1>6 DEF EndBody, Runs
  <2>. QED
    BY <2>1, <1>b, <1>c
<1>7. ASSUME NEW j \in Jobs, Answered(j)
      PROVE  BodiesMatch' /\ LlamaMatch'
  <2>1. UNCHANGED <<body, llama>> /\ upload[j] = "sent" /\ upload' = [upload EXCEPT ![j] = "sent"]
    BY <1>7 DEF Answered, Release, Runs
  <2>. QED
    BY <2>1, <1>b, <1>c
<1>8. ASSUME NEW j \in Jobs, Broken(j)
      PROVE  BodiesMatch' /\ LlamaMatch'
  <2>1. /\ upload'[j] = "cut" /\ UNCHANGED <<llama, body>>
        /\ \A k \in Jobs \ {j} : upload'[k] = upload[k]
    BY <1>8, <1>b DEF Broken, Release, Runs
  <2>. QED
    BY <2>1, <1>a DEF BodiesMatch, LlamaMatch, HasEnd
<1>8a. ASSUME NEW j \in Jobs, CloseAbandoned(j)
       PROVE  BodiesMatch' /\ LlamaMatch'
  <2>1. /\ upload[j] = "cut" /\ llama[j] = "open" /\ llama'[j] = "failed"
        /\ UNCHANGED <<upload, body>>
        /\ \A k \in Jobs \ {j} : llama'[k] = llama[k]
    BY <1>8a, <1>b DEF CloseAbandoned
  <2>. QED
    BY <2>1, <1>a DEF BodiesMatch, LlamaMatch, HasEnd
<1>9. ASSUME NEW j \in Jobs, Expire(j)
      PROVE  BodiesMatch' /\ LlamaMatch'
  BY <1>9, <1>c DEF Expire, streamVars
<1>10. ASSUME NEW S \in SUBSET Readers, StopExcept(S), asked' \in {asked, TRUE}
       PROVE  BodiesMatch' /\ LlamaMatch'
  <2> DEFINE on == {task[s] : s \in S}
  <2>1. \A k \in on : k \in Jobs /\ upload[k] = "reading"
    BY <1>a, SurvivorsRun
  <2>2. \A k \in Jobs :
            /\ upload'[k] = IF k \in on THEN "last"
                            ELSE IF k \in handed /\ upload[k] # "sent" THEN "cut"
                            ELSE upload[k]
            /\ llama'[k] = IF llama[k] = "open" /\ (S = {} \/ k \in on)
                           THEN "failed" ELSE llama[k]
            /\ body'[k] = IF k \in on THEN Append(body[k], Error) ELSE body[k]
    BY <1>10 DEF StopExcept
  <2> HIDE DEF on
  <2>3. \A k \in Jobs : /\ llama'[k] = "completed" <=> llama[k] = "completed"
                        /\ llama'[k] = "none" <=> llama[k] = "none"
                        /\ llama'[k] = "open" => llama[k] = "open" /\ k \notin on
    BY <2>2
  <2>4. ASSUME NEW k \in Jobs, k \in on
        PROVE  /\ \A i \in 1..Len(body'[k]) : \/ body'[k][i] = Chunk(i)
                                              \/ i = Len(body'[k]) /\ body'[k][i] \in {Done, Error}
               /\ Len(body'[k]) > 0 /\ body'[k][Len(body'[k])] = Error
               /\ llama'[k] # "completed" /\ upload'[k] = "last"
    <3>1. body'[k] = Append(body[k], Error) /\ upload[k] = "reading" /\ llama[k] = "open"
      BY <2>1, <2>2, <2>4, <1>a DEF LlamaMatch
    <3>2. /\ Len(body'[k]) = Len(body[k]) + 1 /\ Len(body[k]) \in Nat
          /\ body'[k][Len(body[k]) + 1] = Error
          /\ \A i \in 1..Len(body[k]) : body'[k][i] = body[k][i]
      BY <3>1, <1>b, BodyGrows, EnvelopeTypes
    <3>3. \A i \in 1..Len(body[k]) : body[k][i] = Chunk(i)
      BY <3>1, <1>a, <1>b DEF BodiesMatch, HasEnd
    <3>. QED
      BY <3>1, <3>2, <3>3, <2>2, <2>3, <2>4
  <2>5. ASSUME NEW k \in Jobs, k \notin on
        PROVE  /\ body'[k] = body[k]
               /\ upload'[k] \in {upload[k], "cut"} /\ upload'[k] # "reading"
               /\ upload'[k] \in {"none", "start"} => upload[k] = upload'[k]
               /\ upload'[k] \in {"last", "sent"} => upload[k] = upload'[k]
    BY <2>2, <2>5, <1>a DEF TasksMatch
  <2>6. BodiesMatch'
    <3>1. ASSUME NEW k \in Jobs
          PROVE  /\ \A i \in 1..Len(body'[k]) :
                        \/ body'[k][i] = Chunk(i)
                        \/ i = Len(body'[k]) /\ body'[k][i] \in {Done, Error}
                 /\ upload'[k] \in {"none", "start"} => body'[k] = <<>> /\ llama'[k] = "none"
                 /\ upload'[k] = "reading" => ~HasEnd(k)'
                 /\ upload'[k] \in {"last", "sent"} => HasEnd(k)'
      <4>1. CASE k \in on
        BY <4>1, <2>4 DEF HasEnd
      <4>2. CASE k \notin on
        BY <4>2, <2>3, <2>5, <1>a DEF BodiesMatch, HasEnd
      <4>. QED
        BY <4>1, <4>2
    <3>. QED
      BY <3>1 DEF BodiesMatch
  <2>7. LlamaMatch'
    <3>1. ASSUME NEW k \in Jobs
          PROVE  /\ upload'[k] = "reading" => llama'[k] = "open"
                 /\ llama'[k] = "open" => upload'[k] \in {"reading", "cut"}
                 /\ llama'[k] = "completed" <=>
                        Len(body'[k]) > 0 /\ body'[k][Len(body'[k])] = Done
      <4>1. CASE k \in on
        BY <4>1, <2>3, <2>4, EnvelopeTypes
      <4>2. CASE k \notin on
        BY <4>2, <2>3, <2>5, <1>a DEF LlamaMatch
      <4>. QED
        BY <4>1, <4>2
    <3>. QED
      BY <3>1 DEF LlamaMatch
  <2>. QED
    BY <2>6, <2>7
<1>11. CASE Restart
  BY <1>11, <1>c DEF Restart, streamVars
<1>12. CASE UNCHANGED agentVars
  BY <1>12, <1>c DEF agentVars, streamVars
<1>. QED
  BY AgentSteps, <1>1, <1>2, <1>3, <1>4, <1>5, <1>6, <1>7, <1>8, <1>8a, <1>9, <1>10, <1>11, <1>12

-----------------------------------------------------------------------------
(* Every reachable state of the worker satisfies the invariant.             *)
THEOREM AgentInvariance == AgentSpec => []AInv
<1>1. AInv /\ [AgentNext]_agentVars => AInv'
  BY StepAgentType, StepSlots, StepTasks, StepBodies DEF AInv
<1>. QED
  BY InitAInv, <1>1, PTL DEF AgentSpec

(* AgentTypeOK: puller, semaphore, uploads and requests keep their types,   *)
(* so the semaphore never goes below zero or above MAX_CONCURRENT.          *)
THEOREM AgentTypeCorrect == AgentSpec => []AgentTypeOK
<1>1. AInv => AgentTypeOK
  BY DEF AInv
<1>. QED
  BY AgentInvariance, <1>1, PTL

(* SlotsBalanced: puller.py's semaphore loses and makes no permit, however  *)
(* a job ends, and nobody waits for it while a permit is free.              *)
THEOREM PermitsAreBalanced == AgentSpec => []SlotsBalanced
<1>1. AInv => SlotsBalanced
  BY DEF AInv
<1>. QED
  BY AgentInvariance, <1>1, PTL

(* OnlyAbandonedExceed: leaving out what broken uploads have left behind,   *)
(* never more requests to llama-servers than MAX_CONCURRENT, and no two to  *)
(* the same one.  The rest of them map one to one to running pullers.       *)
THEOREM ReadRequestsAreCapped == AgentSpec => []OnlyAbandonedExceed
<1>1. AInv => OnlyAbandonedExceed
  <2> SUFFICES ASSUME AInv PROVE OnlyAbandonedExceed
    OBVIOUS
  <2> DEFINE open == {j \in Open : upload[j] # "cut"}
             slug == [j \in open |-> SlugOf[j]]
  <2>1. \A j \in open : puller[SlugOf[j]] = "running" /\ task[SlugOf[j]] = j
    BY DEF AInv, LlamaMatch, TasksMatch, Open
  <2>2. \A j, k \in open : SlugOf[j] = SlugOf[k] => j = k
    BY <2>1
  <2>3. slug \in Injection(open, Running)
    <3>1. slug \in [open -> Running]
      BY <2>1, AgentAssumption DEF Running, Open
    <3>2. \A j, k \in open : slug[j] = slug[k] => j = k
      BY <2>2
    <3>. QED
      BY <3>1, <3>2 DEF Injection, IsInjective
  <2>4. Cardinality(open) <= Cardinality(Running)
    BY <2>3, RunningFinite, FS_Injection
  <2>5. Cardinality(Running) <= MaxConcurrent
    BY RunningFinite, AgentAssumption DEF AInv, AgentTypeOK, SlotsBalanced
  <2>6. Cardinality(open) \in Nat
    BY <2>3, RunningFinite, FS_Injection, FS_CardinalityType
  <2>. QED
    BY <2>2, <2>4, <2>5, <2>6, RunningFinite, AgentAssumption
       DEF OnlyAbandonedExceed, Capped
<1>. QED
  BY AgentInvariance, <1>1, PTL

(* EndIsTruthful: a body ends with done exactly when llama-server said      *)
(* [DONE], and a body that is ended in good order ends with done or error.  *)
THEOREM UploadEndsTruthfully == AgentSpec => []EndIsTruthful
<1>1. AInv => EndIsTruthful
  BY DEF AInv, LlamaMatch, BodiesMatch, HasEnd, EndIsTruthful
<1>. QED
  BY AgentInvariance, <1>1, PTL

-----------------------------------------------------------------------------
(* Facts about the steps of the worker that its other side builds on.  A    *)
(* body only grows, and not after its end; no job is handed over but by     *)
(* PollJob; a puller that polls does so until its poll ends.                *)
LEMMA WorkerGoesOn ==
    ASSUME AInv, [AgentNext]_agentVars
    PROVE  /\ \A j \in Jobs : \/ body'[j] = body[j]
                              \/ ~HasEnd(j) /\ \E e : body'[j] = Append(body[j], e)
           /\ \A j \in Jobs : upload'[j] = "none" => upload[j] = "none"
           /\ handed' = handed \/ \E s \in Slugs, j \in Jobs : PollJob(s, j)
           /\ \A s \in Slugs : puller[s] = "polling" =>
                  \/ puller'[s] = "polling" \/ PollFails(s)
                  \/ \E j \in Jobs : PollJob(s, j)
                  \/ \E S \in SUBSET Slugs : StopExcept(S)
<1> USE AgentAssumption
<1>a. AgentTypeOK /\ TasksMatch /\ SlotsBalanced /\ BodiesMatch
  BY DEF AInv
<1>b. /\ puller \in [Slugs -> PullerStates]
      /\ task \in [Slugs -> Jobs \cup {NoJob}]
      /\ upload \in [Jobs -> UploadStates]
      /\ body \in [Jobs -> Seq(Envelopes)]
      /\ waiters \in Seq(Slugs)
      /\ \A j \in Jobs : SlugOf[j] \in Slugs /\ j # NoJob
  BY <1>a DEF AgentTypeOK
<1> DEFINE Bodies == \A j \in Jobs : \/ body'[j] = body[j]
                                     \/ ~HasEnd(j) /\ \E e : body'[j] = Append(body[j], e)
           Uploads == \A j \in Jobs : upload'[j] = "none" => upload[j] = "none"
           Handed == handed' = handed \/ \E s \in Slugs, j \in Jobs : PollJob(s, j)
           Polling == \A s \in Slugs : puller[s] = "polling" =>
                          \/ puller'[s] = "polling" \/ PollFails(s)
                          \/ \E j \in Jobs : PollJob(s, j)
                          \/ \E S \in SUBSET Slugs : StopExcept(S)
           Goal == Bodies /\ Uploads /\ Handed /\ Polling
<1>1. ASSUME NEW s \in Slugs, PollFails(s) \/ Wake(s) PROVE Goal
  BY <1>1, <1>b DEF PollFails, Wake, streamVars
<1>2. ASSUME NEW s \in Slugs, StartJob(s) PROVE Goal
  BY <1>2, <1>b DEF StartJob
<1>3. ASSUME NEW s \in Slugs, NEW j \in Jobs, PollJob(s, j) PROVE Goal
  <2>1. \A r \in Slugs \ {s} : puller'[r] = puller[r]
    BY <1>3, <1>b DEF PollJob
  <2>2. UNCHANGED body /\ Uploads
    BY <1>3, <1>b DEF PollJob
  <2>. QED
    BY <1>3, <2>1, <2>2
<1>4. ASSUME NEW j \in Jobs, ExpiredFirst(j) \/ LlamaStep(j) PROVE Goal
  <2>1. PICK e \in {Chunk(Len(body[j]) + 1), Done, Error}, u \in {"reading", "last"} :
            /\ upload[j] \in {"start", "reading"}
            /\ body' = [body EXCEPT ![j] = Append(@, e)]
            /\ upload' = [upload EXCEPT ![j] = u]
            /\ UNCHANGED <<puller, handed>>
    BY <1>4, SendSteps DEF Runs, Yield, pullerVars
  <2>2. ~HasEnd(j)
    BY <2>1, <1>a DEF BodiesMatch, HasEnd
  <2>. QED
    BY <2>1, <2>2, <1>b
<1>5. ASSUME NEW j \in Jobs, OpenLlama(j) \/ EndBody(j) PROVE Goal
  BY <1>5, <1>b DEF OpenLlama, EndBody, pullerVars
<1>6. ASSUME NEW j \in Jobs, Answered(j) \/ Broken(j) PROVE Goal
  <2>1. PICK s \in Slugs, o \in {"sent", "cut"} :
            /\ puller[s] = "running" /\ Release(s, o) /\ UNCHANGED <<body, handed>>
    BY <1>6, <1>b DEF Answered, Broken, Runs
  <2>2. Uploads
    BY <2>1, <1>b DEF Release
  <2>3. waiters # <<>> => Head(waiters) \in Slugs /\ puller[Head(waiters)] = "acquiring"
    BY <1>a, <1>b DEF SlotsBalanced
  <2>4. \A r \in Slugs : puller[r] = "polling" => puller'[r] = "polling"
    BY <2>1, <2>3, <1>b DEF Release
  <2>. QED
    BY <2>1, <2>2, <2>4
<1>7. ASSUME NEW j \in Jobs, Expire(j) \/ CloseAbandoned(j) PROVE Goal
  BY <1>7 DEF Expire, CloseAbandoned, pullerVars, streamVars
<1>8. ASSUME NEW S \in SUBSET Readers, StopExcept(S) PROVE Goal
  <2> DEFINE on == {task[s] : s \in S}
  <2>1. S \subseteq Slugs /\ \A k \in on : upload[k] = "reading"
    BY <1>a, SurvivorsRun
  <2>2. /\ upload' = [k \in Jobs |-> IF k \in on THEN "last"
                                     ELSE IF k \in handed /\ upload[k] # "sent" THEN "cut"
                                     ELSE upload[k]]
        /\ body' = [k \in Jobs |-> IF k \in on THEN Append(body[k], Error) ELSE body[k]]
        /\ handed' = handed
    BY <1>8 DEF StopExcept
  <2> HIDE DEF on
  <2>3. Bodies
    BY <2>1, <2>2, <1>a DEF BodiesMatch
  <2>. QED
    BY <1>8, <2>1, <2>2, <2>3
<1>9. CASE Restart
  BY <1>9 DEF Restart, streamVars
<1>10. CASE UNCHANGED agentVars
  BY <1>10 DEF agentVars, pullerVars, streamVars
<1>. QED
  BY AgentSteps, <1>1, <1>2, <1>3, <1>4, <1>5, <1>6, <1>7, <1>8, <1>9, <1>10, Zenon

-----------------------------------------------------------------------------
(* Agent implements Upload.  A generator that starts begins the upload, an  *)
(* envelope is sent by what it yields, the body is finished when it returns;*)
(* a connection that breaks and a process that stops cut uploads, and every *)
(* other step of the worker is a stutter.                                   *)

(* An upload that has not ended has not sent its end.                       *)
LEMMA NotEnded ==
    ASSUME AInv, NEW j \in Jobs, ~HasEnd(j)
    PROVE  ~Contract!Ended(j)
<1>1. \A i \in 1..Len(body[j]) : body[j][i] = Chunk(i)
  BY DEF AInv, BodiesMatch, HasEnd
<1>2. \A n : Chunk(n) \notin {Contract!Done, Contract!Error}
  BY DEF Chunk, Contract!Done, Contract!Error
<1>. QED
  BY <1>1, <1>2 DEF Contract!Ended

(* The start of the worker is the start of its uploads.                     *)
LEMMA InitUploads == AgentInit => Contract!UploadInit
BY DEF AgentInit, Contract!UploadInit, UploadLink

(* What the worker does to its uploads is what Upload allows.               *)
LEMMA StepUploads ==
    ASSUME AInv, [AgentNext]_agentVars
    PROVE  [Contract!UploadNext]_(Contract!uploadVars)
<1> USE AgentAssumption
<1>a. AgentTypeOK /\ TasksMatch /\ BodiesMatch /\ LlamaMatch
  BY DEF AInv
<1>b. /\ task \in [Slugs -> Jobs \cup {NoJob}]
      /\ upload \in [Jobs -> UploadStates]
      /\ body \in [Jobs -> Seq(Envelopes)]
      /\ \A j \in Jobs : SlugOf[j] \in Slugs /\ j # NoJob
  BY <1>a DEF AgentTypeOK
<1>c. ASSUME UNCHANGED body, \A j \in Jobs : UploadLink'[j] = UploadLink[j]
      PROVE  UNCHANGED Contract!uploadVars
  <2>1. UploadLink' = UploadLink
    BY <1>c DEF UploadLink
  <2>. QED
    BY <2>1, <1>c DEF Contract!uploadVars
<1>d. ASSUME UNCHANGED <<upload, body>>
      PROVE  UNCHANGED Contract!uploadVars
  BY <1>d DEF Contract!uploadVars, UploadLink
<1>e. ASSUME NEW j \in Jobs, upload[j] = "none", upload' = [upload EXCEPT ![j] = "start"],
             UNCHANGED body
      PROVE  Contract!UploadNext
  <2>1. UploadLink[j] = "none" /\ UploadLink' = [UploadLink EXCEPT ![j] = "open"]
    BY <1>e, <1>b DEF UploadLink
  <2>2. Contract!Begin(j)
    BY <2>1, <1>e DEF Contract!Begin
  <2>. QED
    BY <2>2 DEF Contract!UploadNext
<1>1. ASSUME NEW s \in Slugs, PollFails(s) \/ Wake(s)
      PROVE  UNCHANGED Contract!uploadVars
  BY <1>1, <1>d DEF PollFails, Wake, streamVars
<1>2. ASSUME NEW s \in Slugs, StartJob(s)
      PROVE  Contract!UploadNext
  <2>1. task[s] \in Jobs /\ upload[task[s]] = "none"
    BY <1>2, <1>a, <1>b DEF StartJob, TasksMatch
  <2>. QED
    BY <2>1, <1>2, <1>e DEF StartJob
<1>3. ASSUME NEW s \in Slugs, NEW j \in Jobs, PollJob(s, j)
      PROVE  Contract!UploadNext \/ UNCHANGED Contract!uploadVars
  <2>1. upload[j] = "none"
    BY <1>3, <1>a DEF PollJob, TasksMatch
  <2>2. UNCHANGED body /\ (UNCHANGED upload \/ upload' = [upload EXCEPT ![j] = "start"])
    BY <1>3 DEF PollJob
  <2>. QED
    BY <2>1, <2>2, <1>d, <1>e
<1>4. ASSUME NEW j \in Jobs, ExpiredFirst(j) \/ LlamaStep(j)
      PROVE  Contract!UploadNext
  <2>1. PICK e \in {Chunk(Len(body[j]) + 1), Done, Error}, u \in {"reading", "last"} :
            /\ upload[j] \in {"start", "reading"}
            /\ body' = [body EXCEPT ![j] = Append(@, e)]
            /\ upload' = [upload EXCEPT ![j] = u]
    BY <1>4, SendSteps DEF Runs, Yield
  <2>2. UploadLink[j] = "open" /\ UploadLink' = UploadLink
    BY <2>1, <1>b DEF UploadLink
  <2>3. ~HasEnd(j)
    BY <2>1, <1>a DEF BodiesMatch, HasEnd
  <2>4. ~Contract!Ended(j)
    BY <2>3, NotEnded
  <2>5. e \in {Contract!Chunk(Len(body[j]) + 1), Contract!Done, Contract!Error}
    BY <2>1 DEF Chunk, Done, Error, Contract!Chunk, Contract!Done, Contract!Error
  <2>6. Contract!Send(j)
    BY <2>1, <2>2, <2>4, <2>5 DEF Contract!Send
  <2>. QED
    BY <2>6 DEF Contract!UploadNext
<1>5. ASSUME NEW j \in Jobs, OpenLlama(j)
      PROVE  UNCHANGED Contract!uploadVars
  <2>1. upload[j] = "start" /\ upload' = [upload EXCEPT ![j] = "reading"] /\ UNCHANGED body
    BY <1>5 DEF OpenLlama, Runs
  <2>. QED
    BY <2>1, <1>b, <1>c DEF UploadLink
<1>6. ASSUME NEW j \in Jobs, EndBody(j)
      PROVE  Contract!UploadNext
  <2>1. upload[j] = "last" /\ upload' = [upload EXCEPT ![j] = "sent"] /\ UNCHANGED body
    BY <1>6 DEF EndBody, Runs
  <2>2. UploadLink[j] = "open" /\ UploadLink' = [UploadLink EXCEPT ![j] = "closed"]
    BY <2>1, <1>b DEF UploadLink
  <2>3. HasEnd(j)
    BY <2>1, <1>a DEF BodiesMatch
  <2>4. Contract!Ended(j)
    BY <2>3, <1>b DEF HasEnd, Contract!Ended, Contract!Done, Contract!Error, Done, Error
  <2>5. Contract!Finish(j)
    BY <2>1, <2>2, <2>4 DEF Contract!Finish
  <2>. QED
    BY <2>5 DEF Contract!UploadNext
<1>7. ASSUME NEW j \in Jobs, Answered(j)
      PROVE  UNCHANGED Contract!uploadVars
  <2>1. upload[j] = "sent" /\ upload' = [upload EXCEPT ![j] = "sent"] /\ UNCHANGED body
    BY <1>7 DEF Answered, Release, Runs
  <2>. QED
    BY <2>1, <1>b, <1>d
<1>8. ASSUME NEW j \in Jobs, Broken(j)
      PROVE  Contract!UploadNext
  <2>1. /\ upload[j] \in {"start", "reading", "last"}
        /\ upload' = [upload EXCEPT ![j] = "cut"] /\ UNCHANGED body
    BY <1>8 DEF Broken, Release, Runs
  <2>2. /\ UploadLink[j] = "open"
        /\ UploadLink' = [k \in Jobs |-> IF k \in {j} THEN "cut" ELSE UploadLink[k]]
    BY <2>1, <1>b DEF UploadLink
  <2>3. body' = [k \in Jobs |-> IF k \in {} THEN Append(body[k], Contract!Error) ELSE body[k]]
    BY <2>1, <1>b
  <2>4. Contract!Cut({j}, {})
    BY <2>2, <2>3 DEF Contract!Cut
  <2>. QED
    BY <2>4 DEF Contract!UploadNext
<1>9. ASSUME NEW j \in Jobs, Expire(j) \/ CloseAbandoned(j)
      PROVE  UNCHANGED Contract!uploadVars
  BY <1>9, <1>d DEF Expire, CloseAbandoned, streamVars
<1>10. ASSUME NEW S \in SUBSET Readers, StopExcept(S)
       PROVE  Contract!UploadNext
  <2> DEFINE on == {task[s] : s \in S}
             off == {j \in Jobs : j \notin on /\ j \in handed /\ upload[j] # "sent"}
  <2>1. on \subseteq Jobs /\ \A k \in on : upload[k] = "reading"
    BY <1>a, SurvivorsRun
  <2>2. /\ upload' = [k \in Jobs |-> IF k \in on THEN "last"
                                     ELSE IF k \in handed /\ upload[k] # "sent" THEN "cut"
                                     ELSE upload[k]]
        /\ body' = [k \in Jobs |-> IF k \in on THEN Append(body[k], Error) ELSE body[k]]
    BY <1>10 DEF StopExcept
  <2> HIDE DEF on
  <2>3. \A k \in off : UploadLink[k] # "closed"
    BY DEF UploadLink
  <2>4. \A k \in on : UploadLink[k] = "open" /\ ~Contract!Ended(k)
    BY <2>1, <1>a, NotEnded DEF UploadLink, BodiesMatch
  <2>5. UploadLink' = [k \in Jobs |-> IF k \in off THEN "cut" ELSE UploadLink[k]]
    BY <2>1, <2>2 DEF UploadLink
  <2>6. body' = [k \in Jobs |-> IF k \in on THEN Append(body[k], Contract!Error) ELSE body[k]]
    BY <2>2 DEF Error, Contract!Error
  <2>7. Contract!Cut(off, on)
    BY <2>3, <2>4, <2>5, <2>6 DEF Contract!Cut
  <2>. QED
    BY <2>1, <2>7 DEF Contract!UploadNext
<1>11. CASE Restart
  BY <1>11, <1>d DEF Restart, streamVars
<1>12. CASE UNCHANGED agentVars
  BY <1>12, <1>d DEF agentVars, streamVars
<1>. QED
  BY AgentSteps, <1>1, <1>2, <1>3, <1>4, <1>5, <1>6, <1>7, <1>8, <1>9, <1>10, <1>11, <1>12

(* ImplementsUpload: each job's upload is chunks in order and then exactly  *)
(* one done or error, whichever of the four ways out of _envelopes the      *)
(* worker takes; a body that lacks its end has been cut, never closed.      *)
THEOREM UploadsKeepTheContract == AgentSpec => ImplementsUpload
<1>1. AgentSpec => Contract!UploadInit /\ [][Contract!UploadNext]_(Contract!uploadVars)
  BY AgentInvariance, InitUploads, StepUploads, PTL DEF AgentSpec
<1>. QED
  BY <1>1 DEF ImplementsUpload, Contract!UploadSpec
=============================================================================
