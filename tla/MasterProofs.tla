---------------------------- MODULE MasterProofs ----------------------------
(***************************************************************************)
(* Theorems about the master, for any number of jobs, slugs, workers and    *)
(* polls and any bounds: first the methods of the registry, what            *)
(* prune_queue leaves in a queue (by induction over its positions) and what *)
(* finalize does to types and permits; then the types of every step; then   *)
(* where a job may be and who holds a permit in every reachable state: no   *)
(* job in two places, no permit lost or made.                               *)
(***************************************************************************)
EXTENDS Master, SelectionProofs

(* The recursive function of Kept, unfolded: f describes the first n steps. *)
Walks(f, q, n) ==
    f = [i \in 0..n |-> IF i = 0 THEN <<>>
                        ELSE IF Live(q[i]) THEN Append(f[i - 1], q[i])
                                           ELSE f[i - 1]]

(* The values of such a function, one by one. *)
LEMMA WalkStep ==
    ASSUME NEW f, NEW q, NEW n \in Nat, Walks(f, q, n)
    PROVE  /\ DOMAIN f = 0..n
           /\ f[0] = <<>>
           /\ \A i \in 1..n : f[i] = IF Live(q[i]) THEN Append(f[i - 1], q[i])
                                                  ELSE f[i - 1]
<1>. DEFINE e(i) == IF i = 0 THEN <<>>
                    ELSE IF Live(q[i]) THEN Append(f[i - 1], q[i]) ELSE f[i - 1]
<1>1. f = [i \in 0..n |-> e(i)]
  BY DEF Walks
<1>. HIDE DEF e
<1>2. DOMAIN f = 0..n /\ \A i \in 0..n : f[i] = e(i)
  BY <1>1, Zenon
<1>3. f[0] = <<>>
  BY <1>2 DEF e
<1>4. ASSUME NEW i \in 1..n
      PROVE  f[i] = IF Live(q[i]) THEN Append(f[i - 1], q[i]) ELSE f[i - 1]
  <2>1. i \in 0..n /\ i # 0
    OBVIOUS
  <2>2. f[i] = e(i)
    BY <1>2, <2>1
  <2>. QED  BY <2>1, <2>2, Zenon DEF e
<1>. QED  BY <1>2, <1>3, <1>4

(* Such a function exists for every n. *)
LEMMA WalkExists ==
    ASSUME NEW q
    PROVE  \A n \in Nat : \E f : Walks(f, q, n)
<1>. DEFINE S == {n \in Nat : \E f : Walks(f, q, n)}
<1>1. 0 \in S
  <2>. DEFINE f == [i \in 0..0 |-> <<>>]
  <2>1. Walks(f, q, 0)
    BY DEF Walks
  <2>. QED  BY <2>1
<1>2. ASSUME NEW n \in Nat, n \in S
      PROVE  n + 1 \in S
  <2>1. PICK f : Walks(f, q, n)
    BY <1>2
  <2>. DEFINE g == [i \in 0..(n + 1) |->
                      IF i \in 0..n THEN f[i]
                      ELSE IF Live(q[n + 1]) THEN Append(f[n], q[n + 1])
                                             ELSE f[n]]
              h == [i \in 0..(n + 1) |-> IF i = 0 THEN <<>>
                        ELSE IF Live(q[i]) THEN Append(g[i - 1], q[i])
                                           ELSE g[i - 1]]
  <2>2. ASSUME NEW i \in 0..(n + 1)  PROVE g[i] = h[i]
    <3>1. CASE i = 0
      BY <2>1, <3>1 DEF Walks
    <3>2. CASE i \in 1..n
      <4>1. i - 1 \in 0..n /\ g[i - 1] = f[i - 1] /\ g[i] = f[i]
        BY <3>2
      <4>2. f[i] = IF Live(q[i]) THEN Append(f[i - 1], q[i]) ELSE f[i - 1]
        BY <2>1, <3>2, WalkStep
      <4>. QED  BY <3>2, <4>1, <4>2
    <3>3. CASE i = n + 1
      <4>1. n \in 0..n /\ n \in 0..(n + 1)
        OBVIOUS
      <4>2. g[n] = f[n]
        BY <4>1, Zenon
      <4>3. /\ n + 1 \in 0..(n + 1) /\ n + 1 \notin 0..n
            /\ n + 1 # 0 /\ (n + 1) - 1 = n
        OBVIOUS
      <4>4. g[n + 1] = IF Live(q[n + 1]) THEN Append(f[n], q[n + 1]) ELSE f[n]
        BY <4>3
      <4>. HIDE DEF g
      <4>5. h[n + 1] = IF Live(q[n + 1]) THEN Append(g[n], q[n + 1]) ELSE g[n]
        BY <4>3
      <4>. HIDE DEF h
      <4>. QED  BY <3>3, <4>2, <4>4, <4>5
    <3>. QED  BY <3>1, <3>2, <3>3
  <2>. HIDE DEF g
  <2>3. g = h
    <3>1. g = [i \in 0..(n + 1) |-> g[i]]
      BY DEF g
    <3>. QED  BY <2>2, <3>1
  <2>4. Walks(g, q, n + 1)
    BY <2>3 DEF Walks
  <2>. QED  BY <2>4
<1>. HIDE DEF S
<1>3. Nat \subseteq S
  BY <1>1, <1>2, NatSetInduction
<1>. QED  BY <1>3 DEF S

(* What is kept of a queue is where its walk ends. *)
LEMMA KeptIsWalk ==
    ASSUME NEW q \in Seq(Jobs)
    PROVE  \E f : Walks(f, q, Len(q)) /\ Kept(q) = f[Len(q)]
<1>. DEFINE f == CHOOSE f : Walks(f, q, Len(q))
<1>1. Walks(f, q, Len(q))
  BY WalkExists
<1>2. Kept(q) = f[Len(q)]
  BY DEF Kept, Walks
<1>. QED  BY <1>1, <1>2

(* What prune_queue keeps: jobs of the queue that are live, every one of     *)
(* those, each once if it was there once.                                    *)
LEMMA KeptFacts ==
    ASSUME NEW q \in Seq(Jobs)
    PROVE  /\ Kept(q) \in Seq(Jobs)
           /\ Len(Kept(q)) <= Len(q)
           /\ \A a \in 1..Len(Kept(q)) : \E k \in 1..Len(q) :
                  Kept(q)[a] = q[k] /\ Live(q[k])
           /\ \A k \in 1..Len(q) : Live(q[k]) =>
                  \E a \in 1..Len(Kept(q)) : Kept(q)[a] = q[k]
           /\ (\A k, l \in 1..Len(q) : q[k] = q[l] => k = l)
              => \A a, b \in 1..Len(Kept(q)) : Kept(q)[a] = Kept(q)[b] => a = b
<1>1. PICK f : Walks(f, q, Len(q)) /\ Kept(q) = f[Len(q)]
  BY KeptIsWalk
<1>2. /\ f[0] = <<>>
      /\ \A i \in 1..Len(q) : f[i] = IF Live(q[i]) THEN Append(f[i - 1], q[i])
                                                  ELSE f[i - 1]
  BY <1>1, WalkStep
<1>. DEFINE Good(s, n) ==
       /\ s \in Seq(Jobs)
       /\ Len(s) <= n
       /\ \A a \in 1..Len(s) : \E k \in 1..n : s[a] = q[k] /\ Live(q[k])
       /\ \A k \in 1..n : Live(q[k]) => \E a \in 1..Len(s) : s[a] = q[k]
       /\ (\A k, l \in 1..Len(q) : q[k] = q[l] => k = l)
          => \A a, b \in 1..Len(s) : s[a] = s[b] => a = b
     S == {n \in Nat : n <= Len(q) => Good(f[n], n)}
<1>3. 0 \in S
  <2>1. Good(<<>>, 0)
    OBVIOUS
  <2>. HIDE DEF Good
  <2>. QED  BY <1>2, <2>1
<1>4. ASSUME NEW n \in Nat, n \in S
      PROVE  n + 1 \in S
  <2>. HIDE DEF Good
  <2>1. SUFFICES ASSUME n + 1 <= Len(q)
                 PROVE  Good(f[n + 1], n + 1)
    OBVIOUS
  <2>2. Good(f[n], n)
    BY <1>4, <2>1
  <2>. USE DEF Good
  <2>3. n + 1 \in 1..Len(q) /\ (n + 1) - 1 = n
    BY <2>1
  <2>4. f[n + 1] = IF Live(q[n + 1]) THEN Append(f[n], q[n + 1]) ELSE f[n]
    BY <1>2, <2>3
  <2>. DEFINE s == f[n]
  <2>5. CASE ~ Live(q[n + 1])
    <3>1. f[n + 1] = s
      BY <2>4, <2>5
    <3>2. \A k \in 1..(n + 1) : k \in 1..n \/ k = n + 1
      OBVIOUS
    <3>. QED  BY <2>2, <2>5, <3>1, <3>2
  <2>6. CASE Live(q[n + 1])
    <3>. DEFINE t == Append(s, q[n + 1])
    <3>1. f[n + 1] = t
      BY <2>4, <2>6
    <3>2. s \in Seq(Jobs) /\ q[n + 1] \in Jobs
      BY <2>2, <2>3
    <3>3. /\ t \in Seq(Jobs)
          /\ Len(t) = Len(s) + 1
          /\ t[Len(s) + 1] = q[n + 1]
          /\ \A a \in 1..Len(s) : t[a] = s[a]
      BY <3>2
    <3>. HIDE DEF t, s
    <3>4. \A a \in 1..Len(t) : a \in 1..Len(s) \/ a = Len(s) + 1
      BY <3>2, <3>3
    <3>5. \A k \in 1..(n + 1) : k \in 1..n \/ k = n + 1
      OBVIOUS
    <3>6. Len(t) <= n + 1
      BY <2>2, <3>2, <3>3 DEF s
    <3>7. ASSUME NEW a \in 1..Len(t)
          PROVE  \E k \in 1..(n + 1) : t[a] = q[k] /\ Live(q[k])
      <4>1. CASE a \in 1..Len(s)
        <5>1. PICK k \in 1..n : s[a] = q[k] /\ Live(q[k])
          BY <2>2, <4>1 DEF s
        <5>. QED  BY <3>3, <4>1, <5>1
      <4>2. CASE a = Len(s) + 1
        BY <2>6, <3>3, <4>2
      <4>. QED  BY <3>4, <4>1, <4>2
    <3>8. ASSUME NEW k \in 1..(n + 1), Live(q[k])
          PROVE  \E a \in 1..Len(t) : t[a] = q[k]
      <4>1. CASE k \in 1..n
        <5>1. PICK a \in 1..Len(s) : s[a] = q[k]
          BY <2>2, <3>8, <4>1 DEF s
        <5>2. a \in 1..Len(t) /\ t[a] = q[k]
          BY <3>2, <3>3, <5>1
        <5>. QED  BY <5>2
      <4>2. CASE k = n + 1
        <5>1. Len(s) + 1 \in 1..Len(t)
          BY <3>2, <3>3
        <5>. QED  BY <3>3, <4>2, <5>1
      <4>. QED  BY <3>5, <4>1, <4>2
    <3>9. ASSUME \A k, l \in 1..Len(q) : q[k] = q[l] => k = l,
                 NEW a \in 1..Len(t), NEW b \in 1..Len(t), t[a] = t[b]
          PROVE  a = b
      <4>1. \A c \in 1..Len(s) : s[c] # q[n + 1]
        <5>1. SUFFICES ASSUME NEW c \in 1..Len(s), s[c] = q[n + 1]
                       PROVE  FALSE
          OBVIOUS
        <5>2. PICK k \in 1..n : s[c] = q[k]
          BY <2>2 DEF s
        <5>3. k \in 1..Len(q) /\ k # n + 1
          BY <2>3
        <5>. QED  BY <2>3, <3>9, <5>1, <5>2, <5>3
      <4>2. \A c, d \in 1..Len(s) : s[c] = s[d] => c = d
        BY <2>2, <3>9 DEF s
      <4>3. CASE a \in 1..Len(s) /\ b \in 1..Len(s)
        BY <3>3, <3>9, <4>2, <4>3
      <4>4. CASE a = Len(s) + 1 \/ b = Len(s) + 1
        BY <3>3, <3>4, <3>9, <4>1, <4>4
      <4>. QED  BY <3>4, <4>3, <4>4
    <3>. QED  BY <3>1, <3>3, <3>6, <3>7, <3>8, <3>9
  <2>. QED  BY <2>5, <2>6
<1>5. Len(q) \in S
  <2>. HIDE DEF S
  <2>. QED  BY <1>3, <1>4, NatSetInduction
<1>. QED  BY <1>1, <1>5
-----------------------------------------------------------------------------
(* Sets of jobs are finite, so their sizes can be added. *)
LEMMA JobSetsFinite ==
    ASSUME NEW S, S \subseteq Jobs
    PROVE  IsFiniteSet(S) /\ Cardinality(S) \in Nat
BY RegistryAssumption, FS_Subset, FS_CardinalityType

(* A job is dead for a reason that is counted; a live one is in flight. *)
LEMMA SkipReasonType ==
    ASSUME NEW j
    PROVE  /\ ~ Live(j) <=> skip_reason(j) \in DropReasons
           /\ Live(j) => j \in in_flight /\ j \notin user_disconnected \cup expired
           /\ j \in in_flight => skip_reason(j) # "stale"
BY DEF Live, skip_reason, DropReasons

(* What prune_queue drops are dead jobs. *)
LEMMA DeadType ==
    ASSUME NEW q \in Seq(Jobs)
    PROVE  Dead(q) \subseteq Jobs /\ \A j \in Dead(q) : ~ Live(j)
BY DEF Dead

(* finalize keeps the types of what it changes. *)
LEMMA FinalizeAllType ==
    ASSUME RegistryTypeOK, NEW D, NEW reason, NEW known,
           known \subseteq Jobs,
           \A j \in D \cap known : reason[j] \in FinalReasons,
           FinalizeAll(D, reason, known)
    PROVE  /\ in_flight' \subseteq Jobs
           /\ final_reason' \in [Jobs -> FinalReasons \cup {"none"}]
           /\ finalized_counts' \in [FinalReasons -> Nat]
           /\ sem' \in [Workers -> Nat]
           /\ holding' \subseteq Jobs
<1>. DEFINE popped == D \cap known
            first  == {j \in popped : ~ Finalized(j)}
            freed  == Freed(popped)
<1>1. popped \subseteq Jobs /\ first \subseteq popped /\ freed \subseteq popped
  BY DEF Freed
<1>2. in_flight' \subseteq Jobs /\ holding' \subseteq Jobs
  BY <1>1 DEF FinalizeAll, RegistryTypeOK
<1>3. final_reason' \in [Jobs -> FinalReasons \cup {"none"}]
  <2>1. final_reason' = [j \in Jobs |-> IF j \in first THEN reason[j]
                                                       ELSE final_reason[j]]
    BY DEF FinalizeAll
  <2>. QED  BY <1>1, <2>1 DEF RegistryTypeOK
<1>4. finalized_counts' \in [FinalReasons -> Nat]
  <2>. DEFINE c(r) == Cardinality({j \in first : reason[j] = r})
  <2>1. \A r \in FinalReasons : c(r) \in Nat
    BY <1>1, JobSetsFinite
  <2>2. finalized_counts' = [r \in FinalReasons |-> finalized_counts[r] + c(r)]
    BY DEF FinalizeAll
  <2>. HIDE DEF c
  <2>. QED  BY <2>1, <2>2 DEF RegistryTypeOK
<1>5. sem' \in [Workers -> Nat]
  <2>. DEFINE c(w) == Cardinality({j \in freed : assigned_worker[j] = w})
  <2>1. \A w \in Workers : c(w) \in Nat
    BY <1>1, JobSetsFinite
  <2>2. sem' = [w \in Workers |-> sem[w] + c(w)]
    BY DEF FinalizeAll
  <2>. HIDE DEF c
  <2>. QED  BY <2>1, <2>2 DEF RegistryTypeOK
<1>. QED  BY <1>2, <1>3, <1>4, <1>5

(* So does finalize of one job. *)
LEMMA FinalizeType ==
    ASSUME RegistryTypeOK, NEW j, NEW r \in FinalReasons, finalize(j, r)
    PROVE  /\ in_flight' \subseteq Jobs
           /\ final_reason' \in [Jobs -> FinalReasons \cup {"none"}]
           /\ finalized_counts' \in [FinalReasons -> Nat]
           /\ sem' \in [Workers -> Nat]
           /\ holding' \subseteq Jobs
<1>. DEFINE reason == [k \in Jobs |-> r]
<1>1. FinalizeAll({j}, reason, in_flight)
  BY DEF finalize
<1>2. in_flight \subseteq Jobs
  BY DEF RegistryTypeOK
<1>3. \A k \in {j} \cap in_flight : reason[k] \in FinalReasons
  BY <1>2
<1>. HIDE DEF reason
<1>. QED  BY <1>1, <1>2, <1>3, FinalizeAllType

(* So do the drops of prune_queue and poll, with their counter. *)
LEMMA DropAllType ==
    ASSUME RegistryTypeOK, NEW D, NEW known, known \subseteq Jobs, IsFiniteSet(D),
           \A j \in D : ~ Live(j),
           DropAll(D, known)
    PROVE  /\ in_flight' \subseteq Jobs
           /\ final_reason' \in [Jobs -> FinalReasons \cup {"none"}]
           /\ finalized_counts' \in [FinalReasons -> Nat]
           /\ sem' \in [Workers -> Nat]
           /\ holding' \subseteq Jobs
           /\ drop_counts' \in [DropReasons -> Nat]
<1>. DEFINE reason == [j \in Jobs |-> skip_reason(j)]
<1>1. FinalizeAll(D, reason, known)
  BY DEF DropAll
<1>2. \A j \in D \cap known : reason[j] \in FinalReasons
  BY SkipReasonType DEF FinalReasons
<1>3. drop_counts' \in [DropReasons -> Nat]
  <2>. DEFINE c(r) == Cardinality({j \in D : skip_reason(j) = r})
  <2>1. \A r \in DropReasons : c(r) \in Nat
    BY FS_Subset, FS_CardinalityType
  <2>2. drop_counts' = [r \in DropReasons |-> drop_counts[r] + c(r)]
    BY DEF DropAll
  <2>. HIDE DEF c
  <2>. QED  BY <2>1, <2>2 DEF RegistryTypeOK
<1>. HIDE DEF reason
<1>. QED  BY <1>1, <1>2, <1>3, FinalizeAllType

-----------------------------------------------------------------------------
(* The initial state has the types. *)
LEMMA InitType == Init => TypeOK
<1>1. RegistryInit => RegistryTypeOK
  BY RegistryAssumption DEF RegistryInit, RegistryTypeOK, Envelopes
<1>2. ChatInit => ChatTypeOK
  BY DEF ChatInit, ChatTypeOK, ChatStates, Replies
<1>3. WorkerInit => WorkerTypeOK
  BY RegistryAssumption DEF WorkerInit, WorkerTypeOK, Envelopes, Done
<1>. QED  BY <1>1, <1>2, <1>3 DEF Init, TypeOK

(* The state a step leaves alone keeps its type. *)
LEMMA UnchangedType ==
    /\ ChatTypeOK /\ UNCHANGED chatVars => ChatTypeOK'
    /\ WorkerTypeOK /\ UNCHANGED workerVars => WorkerTypeOK'
    /\ RegistryTypeOK /\ UNCHANGED registryVars => RegistryTypeOK'
<1>1. ChatTypeOK /\ UNCHANGED chatVars => ChatTypeOK'
  BY DEF ChatTypeOK, chatVars
<1>2. WorkerTypeOK /\ UNCHANGED workerVars => WorkerTypeOK'
  BY DEF WorkerTypeOK, workerVars, pollVars, uploadVars
<1>3. RegistryTypeOK /\ UNCHANGED registryVars => RegistryTypeOK'
  BY DEF RegistryTypeOK, registryVars, queueVars, permitVars, counterVars, jobVars
<1>. QED  BY <1>1, <1>2, <1>3

(* The steps of Next, by the side that takes them. *)
ChatAction(j) ==
    \/ Arrive(j) \/ Enqueue(j) \/ PutTimeout(j) \/ Reject(j) \/ SeeHangup(j)
    \/ DeadlineAtTop(j) \/ Await(j) \/ TakeGone(j) \/ TakeChunk(j) \/ TakeEnd(j)
    \/ GetTimeout(j) \/ WriteDone(j) \/ LastWriteDone(j) \/ Cancelled(j) \/ Close(j)
    \/ WatchHangup(j) \/ WatchFails(j) \/ Expire(j) \/ HangUp(j)

PollAction(p) ==
    \/ PollStart(p) \/ PollGet(p) \/ PollGiveUp(p)
    \/ Assign(p) \/ AcquiredForDead(p) \/ AcquireTimeout(p)

UploadAction(j) ==
    \/ Open(j) \/ PutDone(j) \/ PutDrop(j) \/ Eof(j) \/ Abort(j) \/ FailPut(j)
    \/ \E e \in NextEnvelopes(j) : Receive(j, e)

(* Next is made of these steps. *)
LEMMA NextActions ==
    Next <=> \/ \E j \in Jobs : ChatAction(j) /\ UNCHANGED workerVars
             \/ \E p \in Polls : PollAction(p) /\ UNCHANGED chatVars
             \/ \E j \in Jobs : UploadAction(j) /\ UNCHANGED chatVars
BY Zenon DEF Next, ChatAction, PollAction, UploadAction

(* Each step of a client's request keeps the types of registry and handler. *)
LEMMA ArriveType ==
    ASSUME TypeOK, NEW j \in Jobs, Arrive(j)
    PROVE  RegistryTypeOK' /\ ChatTypeOK'
<1>. DEFINE m == ModelOf[j]
            q == queues[m]
<1>1. m \in Models /\ q \in Seq(Jobs)
  BY RegistryAssumption DEF TypeOK, RegistryTypeOK
<1>2. Dead(q) \subseteq Jobs /\ \A k \in Dead(q) : ~ Live(k)
  BY <1>1, DeadType
<1>3. Kept(q) \in Seq(Jobs)
  BY <1>1, KeptFacts
<1>4. DropAll(Dead(q), in_flight \cup {j})
  BY DEF Arrive
<1>5. /\ in_flight' \subseteq Jobs
      /\ final_reason' \in [Jobs -> FinalReasons \cup {"none"}]
      /\ finalized_counts' \in [FinalReasons -> Nat]
      /\ sem' \in [Workers -> Nat]
      /\ holding' \subseteq Jobs
      /\ drop_counts' \in [DropReasons -> Nat]
  <2>1. in_flight \cup {j} \subseteq Jobs /\ IsFiniteSet(Dead(q))
    BY <1>2, JobSetsFinite DEF TypeOK, RegistryTypeOK
  <2>. QED  BY <1>2, <1>4, <2>1, DropAllType DEF TypeOK
<1>6. queues' \in [Models -> Seq(Jobs)]
  <2>1. Append(Kept(q), j) \in Seq(Jobs)
    BY <1>3
  <2>2. queues' = [queues EXCEPT ![m] = Kept(q)]
        \/ queues' = [queues EXCEPT ![m] = Append(Kept(q), j)]
    BY DEF Arrive
  <2>. QED  BY <1>1, <1>3, <2>1, <2>2 DEF TypeOK, RegistryTypeOK
<1>7. RegistryTypeOK'
  BY <1>5, <1>6 DEF Arrive, TypeOK, RegistryTypeOK
<1>8. ChatTypeOK'
  BY DEF Arrive, Goto, TypeOK, ChatTypeOK, ChatStates
<1>. QED  BY <1>7, <1>8

(* Each other step of a request keeps those types too. *)
LEMMA ChatType ==
    ASSUME TypeOK, NEW j \in Jobs
    PROVE  /\ Enqueue(j) \/ PutTimeout(j) \/ Reject(j) \/ SeeHangup(j)
              => RegistryTypeOK' /\ ChatTypeOK'
           /\ DeadlineAtTop(j) \/ Await(j) \/ TakeGone(j) \/ TakeChunk(j)
              => RegistryTypeOK' /\ ChatTypeOK'
           /\ TakeEnd(j) \/ GetTimeout(j) \/ WriteDone(j) \/ LastWriteDone(j)
              => RegistryTypeOK' /\ ChatTypeOK'
           /\ Cancelled(j) \/ Close(j) \/ WatchHangup(j) \/ WatchFails(j)
              => RegistryTypeOK' /\ ChatTypeOK'
           /\ Expire(j) \/ HangUp(j) => RegistryTypeOK' /\ ChatTypeOK'
<1>. RegistryTypeOK /\ ChatTypeOK
  BY DEF TypeOK
<1>. USE DEF ChatStates, Replies, Goto, Conclude
<1>1. CASE Enqueue(j)
  <2>1. ModelOf[j] \in Models
    BY RegistryAssumption
  <2>2. queues' \in [Models -> Seq(Jobs)]
    BY <1>1, <2>1 DEF Enqueue, RegistryTypeOK
  <2>. QED  BY <1>1, <2>2 DEF Enqueue, RegistryTypeOK, ChatTypeOK, permitVars,
                             counterVars, jobVars
<1>2. CASE PutTimeout(j)
  BY <1>2, UnchangedType DEF PutTimeout, ChatTypeOK
<1>3. CASE Reject(j)
  <2>1. "queue_rejected" \in FinalReasons
    BY DEF FinalReasons
  <2>. QED  BY <1>3, <2>1, FinalizeType DEF Reject, RegistryTypeOK, ChatTypeOK
<1>4. CASE SeeHangup(j)
  BY <1>4 DEF SeeHangup, RegistryTypeOK, ChatTypeOK, queueVars, permitVars, counterVars
<1>5. UserTimeout(j) => RegistryTypeOK' /\ ChatTypeOK'
  <2>1. "user_timeout" \in FinalReasons
    BY DEF FinalReasons
  <2>2. CASE j \in Streaming
    BY <2>2, UnchangedType DEF UserTimeout, ChatTypeOK
  <2>3. CASE j \notin Streaming
    BY <2>1, <2>3, FinalizeType DEF UserTimeout, RegistryTypeOK, ChatTypeOK
  <2>. QED  BY <2>2, <2>3
<1>6. CASE DeadlineAtTop(j)
  BY <1>5, <1>6 DEF DeadlineAtTop
<1>7. CASE Await(j)
  BY <1>7, UnchangedType DEF Await, ChatTypeOK
<1>8. Gets(j) => /\ out_queue' \in [Jobs -> Seq(Envelopes)]
                 /\ Head(out_queue[j]) \in Envelopes
  <2>1. out_queue[j] \in Seq(Envelopes)
    BY DEF RegistryTypeOK
  <2>2. Gets(j) => Tail(out_queue[j]) \in Seq(Envelopes) /\ Head(out_queue[j]) \in Envelopes
    BY <2>1 DEF Gets
  <2>. QED  BY <2>2 DEF Gets, RegistryTypeOK
<1>9. CASE TakeGone(j)
  <2>1. "client_disconnected" \in FinalReasons
    BY DEF FinalReasons, DropReasons
  <2>. QED  BY <1>8, <1>9, <2>1, FinalizeType DEF TakeGone, RegistryTypeOK, ChatTypeOK
<1>10. CASE TakeChunk(j)
  <2>1. Head(out_queue[j]).n \in 0..MaxChunks
    BY <1>8, <1>10 DEF TakeChunk, Envelopes
  <2>2. got' \in [Jobs -> Seq(0..MaxChunks)]
    BY <1>10, <2>1 DEF TakeChunk, ChatTypeOK
  <2>3. ChatTypeOK'
    BY <1>10, <2>2 DEF TakeChunk, ChatTypeOK
  <2>. QED  BY <1>8, <1>10, <2>3 DEF TakeChunk, RegistryTypeOK, queueVars,
                                    permitVars, counterVars
<1>11. CASE TakeEnd(j)
  BY <1>8, <1>11 DEF TakeEnd, RegistryTypeOK, ChatTypeOK, queueVars, permitVars,
                     counterVars
<1>12. CASE GetTimeout(j)
  BY <1>5, <1>12, UnchangedType DEF GetTimeout, ChatTypeOK
<1>13. CASE WriteDone(j)
  BY <1>13, UnchangedType DEF WriteDone, ChatTypeOK
<1>14. CASE LastWriteDone(j)
  BY <1>14, UnchangedType DEF LastWriteDone, ChatTypeOK
<1>15. CASE Cancelled(j)
  BY <1>15, UnchangedType DEF Cancelled, ChatTypeOK
<1>16. CASE Close(j)
  <2>. DEFINE r == IF j \in Streaming THEN "client_stream_closed"
                                       ELSE "client_response_closed"
  <2>1. r \in FinalReasons
    BY DEF FinalReasons
  <2>2. finalize(j, r)
    BY <1>16 DEF Close
  <2>. QED  BY <1>16, <2>1, <2>2, FinalizeType DEF Close, RegistryTypeOK, ChatTypeOK
<1>17. CASE WatchHangup(j)
  BY <1>17 DEF WatchHangup, RegistryTypeOK, ChatTypeOK, queueVars, permitVars, counterVars
<1>18. CASE WatchFails(j)
  BY <1>18, UnchangedType DEF WatchFails, ChatTypeOK
<1>19. CASE Expire(j)
  BY <1>19, UnchangedType DEF Expire, RegistryTypeOK, queueVars, permitVars, counterVars
<1>20. CASE HangUp(j)
  BY <1>20, UnchangedType DEF HangUp, ChatTypeOK
<1>. QED  BY <1>1, <1>2, <1>3, <1>4, <1>6, <1>7, <1>9, <1>10, <1>11, <1>12,
             <1>13, <1>14, <1>15, <1>16, <1>17, <1>18, <1>19, <1>20

(* The head of the poll's loop, with a dead job in the handler's hands or none. *)
LEMMA PruneAndGetType ==
    ASSUME TypeOK, NEW p \in Polls, NEW D, NEW q \in Seq(Jobs), IsFiniteSet(D),
           \A j \in D : ~ Live(j),
           PruneAndGet(p, D, q)
    PROVE  RegistryTypeOK' /\ WorkerTypeOK'
<1>1. PollModel[p] \in Models
  BY WorkerAssumption
<1>2. Dead(q) \subseteq Jobs /\ \A k \in Dead(q) : ~ Live(k)
  BY DeadType
<1>3. IsFiniteSet(D \cup Dead(q)) /\ \A k \in D \cup Dead(q) : ~ Live(k)
  BY <1>2, JobSetsFinite, FS_Union
<1>4. /\ in_flight' \subseteq Jobs
      /\ final_reason' \in [Jobs -> FinalReasons \cup {"none"}]
      /\ finalized_counts' \in [FinalReasons -> Nat]
      /\ sem' \in [Workers -> Nat]
      /\ holding' \subseteq Jobs
      /\ drop_counts' \in [DropReasons -> Nat]
  BY <1>3, DropAllType DEF PruneAndGet, TypeOK, RegistryTypeOK
<1>5. queues' \in [Models -> Seq(Jobs)]
  BY <1>1, KeptFacts DEF PruneAndGet, TypeOK, RegistryTypeOK
<1>6. RegistryTypeOK'
  BY <1>4, <1>5 DEF PruneAndGet, TypeOK, RegistryTypeOK
<1>7. WorkerTypeOK'
  BY DEF PruneAndGet, TypeOK, WorkerTypeOK, uploadVars
<1>. QED  BY <1>6, <1>7

(* Each step of a poll keeps the types of the registry and of the routes. *)
LEMMA PollType ==
    ASSUME TypeOK, NEW p \in Polls
    PROVE  /\ PollStart(p) \/ PollGet(p) \/ PollGiveUp(p)
              => RegistryTypeOK' /\ WorkerTypeOK'
           /\ Assign(p) \/ AcquiredForDead(p) \/ AcquireTimeout(p)
              => RegistryTypeOK' /\ WorkerTypeOK'
<1>. RegistryTypeOK /\ WorkerTypeOK
  BY DEF TypeOK
<1>. DEFINE m == PollModel[p]
<1>1. m \in Models /\ queues[m] \in Seq(Jobs)
  BY WorkerAssumption DEF RegistryTypeOK
<1>2. CASE PollStart(p)
  BY <1>1, <1>2, PruneAndGetType, FS_EmptySet DEF PollStart
<1>3. CASE PollGet(p)
  <2>. DEFINE j == Head(queues[m])
  <2>1. j \in Jobs /\ Tail(queues[m]) \in Seq(Jobs)
    BY <1>1, <1>3 DEF PollGet
  <2>2. CASE Live(j)
    BY <1>1, <1>3, <2>1, <2>2 DEF PollGet, RegistryTypeOK, WorkerTypeOK,
       permitVars, counterVars, jobVars, uploadVars
  <2>3. CASE ~ Live(j)
    <3>. DEFINE D == {j}
                r == Tail(queues[m])
    <3>1. PruneAndGet(p, D, r)
      BY <1>3, <2>3 DEF PollGet
    <3>2. IsFiniteSet(D) /\ \A k \in D : ~ Live(k)
      BY <2>3, FS_Singleton
    <3>. HIDE DEF D, r
    <3>. QED  BY <2>1, <3>1, <3>2, PruneAndGetType DEF r
  <2>. QED  BY <2>2, <2>3
<1>4. CASE PollGiveUp(p)
  BY <1>4, UnchangedType DEF PollGiveUp, WorkerTypeOK, uploadVars
<1>5. CASE Assign(p)
  <2>. DEFINE w == PollWorker[p]
              j == hand[p]
  <2>1. w \in Workers /\ sem[w] \in Nat /\ sem[w] > 0
    BY <1>5, WorkerAssumption DEF Assign, RegistryTypeOK
  <2>2. j \in Jobs
    BY <1>5, SkipReasonType DEF Assign, RegistryTypeOK
  <2>3. sem' \in [Workers -> Nat]
    BY <1>5, <2>1 DEF Assign, Handover, RegistryTypeOK
  <2>4. RegistryTypeOK'
    BY <1>5, <2>1, <2>2, <2>3 DEF Assign, Handover, RegistryTypeOK, queueVars,
       counterVars, jobVars
  <2>5. WorkerTypeOK'
    BY <1>5 DEF Assign, Handover, WorkerTypeOK, uploadVars
  <2>. QED  BY <2>4, <2>5
<1>6. CASE AcquiredForDead(p)
  <2>. DEFINE D == {hand[p]}
  <2>1. PruneAndGet(p, D, queues[m])
    BY <1>6 DEF AcquiredForDead
  <2>2. IsFiniteSet(D) /\ \A k \in D : ~ Live(k)
    BY <1>6, FS_Singleton DEF AcquiredForDead
  <2>. HIDE DEF D
  <2>. QED  BY <1>1, <2>1, <2>2, PruneAndGetType
<1>7. CASE AcquireTimeout(p)
  <2>. DEFINE j == hand[p]
  <2>1. WorkerTypeOK'
    BY <1>7 DEF AcquireTimeout, WorkerTypeOK, uploadVars
  <2>2. RegistryTypeOK'
    <3>1. CASE ~ Live(j)
      BY <1>7, <3>1 DEF AcquireTimeout, RegistryTypeOK, queueVars
    <3>2. CASE Live(j) /\ QueueFull(queues[m])
      <4>1. finalize(j, "capacity_requeue_failed") /\ UNCHANGED queues
        BY <1>7, <3>2 DEF AcquireTimeout
      <4>2. "capacity_requeue_failed" \in FinalReasons
        BY DEF FinalReasons
      <4>. QED  BY <1>7, <4>1, <4>2, FinalizeType DEF AcquireTimeout, RegistryTypeOK
    <3>3. CASE Live(j) /\ ~ QueueFull(queues[m])
      <4>1. j \in Jobs
        BY <3>3, SkipReasonType DEF RegistryTypeOK
      <4>2. queues' = [queues EXCEPT ![m] = Append(@, j)]
        BY <1>7, <3>3 DEF AcquireTimeout
      <4>3. queues' \in [Models -> Seq(Jobs)]
        BY <1>1, <4>1, <4>2 DEF RegistryTypeOK
      <4>. QED  BY <1>7, <3>3, <4>3 DEF AcquireTimeout, RegistryTypeOK
    <3>. QED  BY <3>1, <3>2, <3>3
  <2>. QED  BY <2>1, <2>2
<1>. QED  BY <1>2, <1>3, <1>4, <1>5, <1>6, <1>7

(* Each step of an upload keeps the types of the registry and of the routes. *)
LEMMA UploadType ==
    ASSUME TypeOK, NEW j \in Jobs
    PROVE  /\ Open(j) => RegistryTypeOK' /\ WorkerTypeOK'
           /\ \A e \in NextEnvelopes(j) : Receive(j, e) => RegistryTypeOK' /\ WorkerTypeOK'
           /\ PutDone(j) \/ PutDrop(j) => RegistryTypeOK' /\ WorkerTypeOK'
           /\ Eof(j) \/ Abort(j) \/ FailPut(j) => RegistryTypeOK' /\ WorkerTypeOK'
<1>. RegistryTypeOK /\ WorkerTypeOK
  BY DEF TypeOK
<1>1. CASE Open(j)
  <2>1. RegistryTypeOK'
    BY <1>1 DEF Open, RegistryTypeOK, queueVars, permitVars, jobVars
  <2>2. WorkerTypeOK'
    BY <1>1 DEF Open, WorkerTypeOK, pollVars
  <2>. QED  BY <2>1, <2>2
<1>2. Error \in Envelopes
  BY RegistryAssumption DEF Error, Envelopes
<1>3. \A e \in Envelopes : Append(out_queue[j], e) \in Seq(Envelopes)
  BY DEF RegistryTypeOK
<1>4. \A e \in Envelopes :
         /\ Noted(j, e) \in [Jobs -> UploadReasons \cup {"none"}]
         /\ \A k \in Jobs \ {j} : Noted(j, e)[k] = terminal[k]
  BY DEF Noted, Terminal, WorkerTypeOK, UploadReasons
<1>5. ASSUME NEW e \in NextEnvelopes(j), Receive(j, e)
      PROVE  RegistryTypeOK' /\ WorkerTypeOK'
  <2>1. e \in Envelopes /\ (e.type = "chunk" => sent[j] + 1 \in 0..MaxChunks)
    BY <1>5, RegistryAssumption DEF NextEnvelopes, Envelopes, Done, Error, Chunk
  <2>2. out_queue' \in [Jobs -> Seq(Envelopes)]
    BY <1>3, <1>5, <2>1 DEF Receive, RegistryTypeOK
  <2>3. RegistryTypeOK'
    BY <1>5, <2>2 DEF Receive, RegistryTypeOK, queueVars, permitVars, counterVars
  <2>4. sent' \in [Jobs -> 0..MaxChunks]
    BY <1>5, <2>1 DEF Receive, WorkerTypeOK
  <2>5. terminal' \in [Jobs -> UploadReasons \cup {"none"}]
    BY <1>4, <1>5, <2>1 DEF Receive, WorkerTypeOK
  <2>6. \A k \in Jobs : up'[k] = "failing" => terminal'[k] # "none"
    <3>1. \A k \in Jobs \ {j} : terminal'[k] = terminal[k] /\ up'[k] = up[k]
      BY <1>4, <1>5, <2>1 DEF Receive, WorkerTypeOK
    <3>2. up'[j] # "failing"
      BY <1>5 DEF Receive, WorkerTypeOK
    <3>. QED  BY <3>1, <3>2 DEF WorkerTypeOK
  <2>7. WorkerTypeOK'
    BY <1>5, <2>1, <2>4, <2>5, <2>6 DEF Receive, WorkerTypeOK, pollVars
  <2>. QED  BY <2>3, <2>7
<1>6. CASE PutDone(j)
  <2>1. env[j] \in Envelopes
    BY DEF WorkerTypeOK
  <2>2. RegistryTypeOK'
    BY <1>3, <1>6, <2>1 DEF PutDone, RegistryTypeOK, queueVars, permitVars, counterVars
  <2>3. \A k \in Jobs : up'[k] = "failing" => terminal'[k] # "none"
    <3>1. \A k \in Jobs \ {j} : terminal'[k] = terminal[k] /\ up'[k] = up[k]
      BY <1>4, <1>6, <2>1 DEF PutDone, WorkerTypeOK
    <3>2. up'[j] # "failing"
      BY <1>6 DEF PutDone, WorkerTypeOK
    <3>. QED  BY <3>1, <3>2 DEF WorkerTypeOK
  <2>4. WorkerTypeOK'
    BY <1>4, <1>6, <2>1, <2>3 DEF PutDone, WorkerTypeOK, pollVars
  <2>. QED  BY <2>2, <2>4
<1>7. CASE PutDrop(j)
  <2>1. env[j] \in Envelopes
    BY DEF WorkerTypeOK
  <2>2. RegistryTypeOK'
    BY <1>7, UnchangedType DEF PutDrop
  <2>3. \A k \in Jobs : up'[k] = "failing" => terminal'[k] # "none"
    <3>1. \A k \in Jobs \ {j} : terminal'[k] = terminal[k] /\ up'[k] = up[k]
      BY <1>4, <1>7, <2>1 DEF PutDrop, WorkerTypeOK
    <3>2. up'[j] # "failing"
      BY <1>7 DEF PutDrop, WorkerTypeOK
    <3>. QED  BY <3>1, <3>2 DEF WorkerTypeOK
  <2>4. WorkerTypeOK'
    BY <1>4, <1>7, <2>1, <2>3 DEF PutDrop, WorkerTypeOK, pollVars
  <2>. QED  BY <2>2, <2>4
<1>8. ASSUME NEW r \in UploadReasons, Conclusion(j, r),
             out_queue' \in [Jobs -> Seq(Envelopes)],
             terminal' \in [Jobs -> UploadReasons \cup {"none"}],
             \A k \in Jobs \ {j} : terminal'[k] = terminal[k]
      PROVE  RegistryTypeOK' /\ WorkerTypeOK'
  <2>1. r \in FinalReasons
    BY DEF UploadReasons, FinalReasons
  <2>2. RegistryTypeOK'
    BY <1>8, <2>1, FinalizeType DEF Conclusion, RegistryTypeOK
  <2>3. WorkerTypeOK'
    BY <1>8 DEF Conclusion, WorkerTypeOK, pollVars
  <2>. QED  BY <2>2, <2>3
<1>9. [out_queue EXCEPT ![j] = Append(@, Error)] \in [Jobs -> Seq(Envelopes)]
  BY <1>2, <1>3 DEF RegistryTypeOK
<1>10. ASSUME NEW r \in UploadReasons, Fail(j, r)
       PROVE  RegistryTypeOK' /\ WorkerTypeOK'
  <2>1. terminal' \in [Jobs -> UploadReasons \cup {"none"}]
    BY <1>10 DEF Fail, WorkerTypeOK
  <2>4. \A k \in Jobs \ {j} : terminal'[k] = terminal[k]
    BY <1>10 DEF Fail, WorkerTypeOK
  <2>5. terminal'[j] # "none"
    BY <1>10 DEF Fail, WorkerTypeOK, UploadReasons
  <2>2. CASE Finalized(j) \/ ~ OutFull(j)
    <3>1. Conclusion(j, r) /\ out_queue' \in [Jobs -> Seq(Envelopes)]
      BY <1>9, <1>10, <2>2 DEF Fail, RegistryTypeOK
    <3>. QED  BY <1>8, <2>1, <2>4, <3>1
  <2>3. CASE ~ Finalized(j) /\ OutFull(j)
    BY <1>10, <2>1, <2>3, <2>4, <2>5, UnchangedType DEF Fail, WorkerTypeOK, pollVars
  <2>. QED  BY <2>2, <2>3
<1>11. CASE Eof(j)
  <2>1. CASE terminal[j] = "none"
    BY <1>10, <1>11, <2>1 DEF Eof, UploadReasons
  <2>2. CASE terminal[j] # "none"
    <3>1. terminal[j] \in UploadReasons
      BY <2>2 DEF WorkerTypeOK
    <3>2. Conclusion(j, terminal[j]) /\ UNCHANGED <<out_queue, terminal>>
      BY <1>11, <2>2 DEF Eof
    <3>. QED  BY <1>8, <3>1, <3>2 DEF RegistryTypeOK, WorkerTypeOK
  <2>. QED  BY <2>1, <2>2
<1>12. CASE Abort(j)
  BY <1>10, <1>12 DEF Abort, UploadReasons
<1>13. CASE FailPut(j)
  <2>1. terminal[j] \in UploadReasons
    BY <1>13 DEF FailPut, WorkerTypeOK
  <2>2. /\ out_queue' \in [Jobs -> Seq(Envelopes)]
        /\ terminal' \in [Jobs -> UploadReasons \cup {"none"}]
        /\ \A k \in Jobs \ {j} : terminal'[k] = terminal[k]
        /\ Conclusion(j, terminal[j])
    BY <1>9, <1>13 DEF FailPut, WorkerTypeOK
  <2>. QED  BY <1>8, <2>1, <2>2
<1>. QED  BY <1>1, <1>5, <1>6, <1>7, <1>11, <1>12, <1>13

(* Every step of the master keeps the types. *)
LEMMA StepType == TypeOK /\ [Next]_vars => TypeOK'
<1>1. SUFFICES ASSUME TypeOK, [Next]_vars
               PROVE  TypeOK'
  OBVIOUS
<1>. RegistryTypeOK /\ ChatTypeOK /\ WorkerTypeOK
  BY <1>1 DEF TypeOK
<1>2. CASE UNCHANGED vars
  BY <1>2, UnchangedType DEF vars, TypeOK
<1>3. ASSUME NEW j \in Jobs, ChatAction(j), UNCHANGED workerVars
      PROVE  TypeOK'
  BY <1>1, <1>3, ArriveType, ChatType, UnchangedType DEF ChatAction, TypeOK
<1>4. ASSUME NEW p \in Polls, PollAction(p), UNCHANGED chatVars
      PROVE  TypeOK'
  BY <1>1, <1>4, PollType, UnchangedType DEF PollAction, TypeOK
<1>5. ASSUME NEW j \in Jobs, UploadAction(j), UNCHANGED chatVars
      PROVE  TypeOK'
  BY <1>1, <1>5, UploadType, UnchangedType DEF UploadAction, TypeOK
<1>. QED  BY <1>1, <1>2, <1>3, <1>4, <1>5, NextActions

(* In every reachable state of the master each variable of the registry, of  *)
(* the requests and of the routes of the workers has its type: no method of  *)
(* the registry ever meets a job, a counter or an envelope of another kind.  *)
THEOREM TypeCorrect == Spec => []TypeOK
BY InitType, StepType, PTL DEF Spec

-----------------------------------------------------------------------------
(* Where a job may be, and who holds a permit. *)

Early == {"new", "putting", "rejecting"}

\* The inductive invariant, place by place.
QueueOK(m) ==
    /\ \A i \in 1..Len(queues[m]) :
           /\ ModelOf[queues[m][i]] = m
           /\ chat[queues[m][i]] \notin Early
           /\ ~InHand(queues[m][i])
           /\ ~Assigned(queues[m][i])
    /\ \A i, k \in 1..Len(queues[m]) : queues[m][i] = queues[m][k] => i = k

HandOK(p) ==
    /\ hand[p] \in Jobs <=> poll[p] = "acquiring"
    /\ hand[p] \in Jobs => /\ ModelOf[hand[p]] = PollModel[p]
                           /\ chat[hand[p]] \notin Early
                           /\ ~Assigned(hand[p])
    /\ \A r \in Polls : hand[p] \in Jobs /\ hand[r] = hand[p] => p = r

PlacesOK ==
    /\ \A m \in Models : QueueOK(m)
    /\ \A p \in Polls : HandOK(p)
    /\ \A j \in Jobs : Assigned(j) => chat[j] \notin Early

HoldingOK == holding = {j \in in_flight : Assigned(j)}

IInv == TypeOK /\ PlacesOK /\ HoldingOK /\ PermitsConserved

(* The invariant holds the properties that the runs check. *)
LEMMA PlacesSuffice == IInv => OneCustodian /\ Placement
<1>1. SUFFICES ASSUME IInv PROVE OneCustodian /\ Placement
  OBVIOUS
<1>. PlacesOK /\ TypeOK
  BY <1>1 DEF IInv
<1>2. ASSUME NEW j \in Jobs, NEW m \in Models, NEW n \in Models,
             NEW i \in Positions(m, j), NEW k \in Positions(n, j)
      PROVE  m = n /\ i = k
  <2>1. i \in 1..Len(queues[m]) /\ queues[m][i] = j
    BY <1>2 DEF Positions
  <2>2. k \in 1..Len(queues[n]) /\ queues[n][k] = j
    BY <1>2 DEF Positions
  <2>3. m = n
    BY <2>1, <2>2 DEF PlacesOK, QueueOK
  <2>. QED  BY <2>1, <2>2, <2>3 DEF PlacesOK, QueueOK
<1>3. ASSUME NEW j \in Jobs, Queued(j)
      PROVE  ~InHand(j) /\ ~Assigned(j)
  <2>1. PICK m \in Models : Positions(m, j) # {}
    BY <1>3 DEF Queued
  <2>2. PICK i \in 1..Len(queues[m]) : queues[m][i] = j
    BY <2>1 DEF Positions
  <2>. QED  BY <2>2 DEF PlacesOK, QueueOK
<1>4. ASSUME NEW j \in Jobs, InHand(j)
      PROVE  ~Assigned(j) /\ \A p, r \in Polls : hand[p] = j /\ hand[r] = j => p = r
  BY <1>4 DEF PlacesOK, HandOK, InHand
<1>5. OneCustodian
  BY <1>2, <1>3, <1>4, Zenon DEF OneCustodian, InHand
<1>6. Placement
  BY <1>1 DEF IInv, HoldingOK, PlacesOK, QueueOK, HandOK, Placement, Early
<1>. QED  BY <1>5, <1>6

-----------------------------------------------------------------------------
(* Permits: what a finalization does to them, whoever asks for it. *)
LEMMA FinalizeAllPermits ==
    ASSUME TypeOK, HoldingOK, PermitsConserved, NEW D, NEW reason, NEW known,
           in_flight \subseteq known, known \subseteq Jobs,
           \A k \in known \ in_flight : ~Assigned(k),
           FinalizeAll(D, reason, known),
           UNCHANGED assigned_worker
    PROVE  HoldingOK' /\ PermitsConserved'
<1>. DEFINE popped == D \cap known
            freed == Freed(popped)
<1>1. /\ in_flight' = known \ popped
      /\ sem' = [w \in Workers |->
             sem[w] + Cardinality({j \in freed : assigned_worker[j] = w})]
      /\ holding' = holding \ freed
  BY DEF FinalizeAll
<1>2. HoldingOK'
  BY <1>1 DEF HoldingOK, Assigned, Freed
<1>3. ASSUME NEW w \in Workers
      PROVE  sem'[w] + Cardinality(Running(w)') = MaxConcurrent
  <2>. DEFINE R == Running(w)
              F == {j \in freed : assigned_worker[j] = w}
  <2>1. R \subseteq Jobs /\ F \subseteq R
    BY RegistryAssumption DEF Running, Freed, HoldingOK, Assigned, TypeOK, RegistryTypeOK
  <2>2. Running(w)' = R \ F
    BY <1>1, RegistryAssumption DEF Running, Freed, HoldingOK, Assigned
  <2>3. IsFiniteSet(R) /\ IsFiniteSet(F) /\ Cardinality(F) \in Nat /\ Cardinality(R) \in Nat
    BY <2>1, JobSetsFinite
  <2>4. Cardinality(R \ F) = Cardinality(R) - Cardinality(F)
    <3>1. Cardinality(R \ F) = Cardinality(R) - Cardinality(R \cap F)
      BY <2>3, FS_Difference
    <3>2. R \cap F = F
      BY <2>1
    <3>. QED  BY <3>1, <3>2
  <2>5. sem[w] \in Nat /\ sem[w] + Cardinality(R) = MaxConcurrent
    BY DEF PermitsConserved, TypeOK, RegistryTypeOK
  <2>6. sem'[w] = sem[w] + Cardinality(F)
    BY <1>1
  <2>. HIDE DEF R, F
  <2>. QED  BY <2>2, <2>3, <2>4, <2>5, <2>6
<1>4. PermitsConserved'
  BY <1>3 DEF PermitsConserved
<1>. QED  BY <1>2, <1>4

\* What every step but Arrive and Assign does to permits.
PermitStep ==
    /\ UNCHANGED assigned_worker
    /\ \/ UNCHANGED <<in_flight, sem, holding>>
       \/ \E D, reason : FinalizeAll(D, reason, in_flight)

(* Such a step conserves the permits. *)
LEMMA PermitStepOK ==
    ASSUME TypeOK, HoldingOK, PermitsConserved, PermitStep
    PROVE  HoldingOK' /\ PermitsConserved'
<1>1. CASE UNCHANGED <<in_flight, sem, holding>>
  BY <1>1 DEF PermitStep, HoldingOK, PermitsConserved, Running, Assigned
<1>2. CASE \E D, reason : FinalizeAll(D, reason, in_flight)
  BY <1>2, FinalizeAllPermits DEF PermitStep, TypeOK, RegistryTypeOK
<1>. QED  BY <1>1, <1>2 DEF PermitStep

(* One finalize is such a step. *)
LEMMA FinalizeIsPermitStep ==
    ASSUME NEW j, NEW r, finalize(j, r), UNCHANGED assigned_worker
    PROVE  PermitStep
BY DEF finalize, PermitStep

-----------------------------------------------------------------------------
(* Initially every queue, hand and worker is empty. *)
LEMMA InitIInv == Init => IInv
<1>1. SUFFICES ASSUME Init PROVE IInv
  OBVIOUS
<1>2. TypeOK
  BY <1>1, InitType
<1>3. PlacesOK
  BY <1>1, WorkerAssumption
  DEF Init, RegistryInit, WorkerInit, PlacesOK, QueueOK, HandOK, Assigned
<1>4. HoldingOK
  BY <1>1 DEF Init, RegistryInit, HoldingOK
<1>5. PermitsConserved
  <2>1. \A w \in Workers : Running(w) = {}
    BY <1>1 DEF Init, RegistryInit, Running
  <2>2. Cardinality({}) = 0
    BY FS_EmptySet
  <2>3. \A w \in Workers : sem[w] = MaxConcurrent
    BY <1>1 DEF Init, RegistryInit
  <2>4. MaxConcurrent + 0 = MaxConcurrent
    BY RegistryAssumption
  <2>. QED  BY <2>1, <2>2, <2>3, <2>4, Zenon DEF PermitsConserved
<1>. QED  BY <1>2, <1>3, <1>4, <1>5 DEF IInv

(* A step that moves no job, and takes no handler back to where its job is  *)
(* not yet placed, keeps every place as it was.                             *)
LEMMA QuietPlaces ==
    ASSUME TypeOK, PlacesOK, UNCHANGED <<queues, hand, poll, assigned_worker>>,
           \A k \in Jobs : chat[k] \notin Early => chat'[k] \notin Early
    PROVE  PlacesOK'
<1>1. ASSUME NEW m \in Models PROVE QueueOK(m)'
  <2>1. queues[m] \in Seq(Jobs)
    BY DEF TypeOK, RegistryTypeOK
  <2>2. QueueOK(m)
    BY DEF PlacesOK
  <2>. QED  BY <2>1, <2>2 DEF QueueOK, InHand, Assigned
<1>2. ASSUME NEW p \in Polls PROVE HandOK(p)'
  <2>1. HandOK(p)
    BY DEF PlacesOK
  <2>. QED  BY <2>1 DEF HandOK, Assigned
<1>3. \A j \in Jobs : Assigned(j)' => chat'[j] \notin Early
  BY DEF PlacesOK, Assigned
<1>. QED  BY <1>1, <1>2, <1>3 DEF PlacesOK

(* The steps of a request, but the two that place its job, move no job and  *)
(* settle permits by finalize only.                                         *)
LEMMA RequestIsQuiet ==
    ASSUME TypeOK, NEW j \in Jobs, ChatAction(j), ~Arrive(j), ~Enqueue(j)
    PROVE  /\ UNCHANGED <<queues, assigned_worker>>
           /\ \A k \in Jobs : chat[k] \notin Early => chat'[k] \notin Early
           /\ PermitStep
<1>. DEFINE Quiet == /\ UNCHANGED <<queues, assigned_worker>>
                     /\ \A k \in Jobs : chat[k] \notin Early => chat'[k] \notin Early
                     /\ PermitStep
<1>. chat \in [Jobs -> ChatStates]
  BY DEF TypeOK, ChatTypeOK
<1>. USE DEF Early, Goto, Conclude, registryVars, queueVars, permitVars
<1>1. CASE PutTimeout(j)
  BY <1>1 DEF PutTimeout, PermitStep
<1>2. CASE Reject(j)
  BY <1>2, FinalizeIsPermitStep DEF Reject
<1>3. CASE SeeHangup(j)
  BY <1>3 DEF SeeHangup, PermitStep
<1>4. UserTimeout(j) => Quiet
  <2>1. CASE j \in Streaming
    BY <2>1 DEF UserTimeout, PermitStep
  <2>2. CASE j \notin Streaming
    BY <2>2, FinalizeIsPermitStep DEF UserTimeout
  <2>. QED  BY <2>1, <2>2
<1>5. CASE DeadlineAtTop(j)
  BY <1>4, <1>5 DEF DeadlineAtTop
<1>6. CASE Await(j)
  BY <1>6 DEF Await, PermitStep
<1>7. CASE TakeGone(j)
  BY <1>7, FinalizeIsPermitStep DEF TakeGone
<1>8. CASE TakeChunk(j)
  BY <1>8 DEF TakeChunk, PermitStep
<1>9. CASE TakeEnd(j)
  BY <1>9 DEF TakeEnd, PermitStep
<1>10. CASE GetTimeout(j)
  <2>1. CASE j \in Streaming
    BY <1>10, <2>1 DEF GetTimeout, PermitStep
  <2>2. CASE j \notin Streaming
    BY <1>4, <1>10, <2>2 DEF GetTimeout
  <2>. QED  BY <2>1, <2>2
<1>11. CASE WriteDone(j) \/ LastWriteDone(j)
  BY <1>11 DEF WriteDone, LastWriteDone, PermitStep
<1>12. CASE Cancelled(j)
  BY <1>12 DEF Cancelled, PermitStep
<1>13. CASE Close(j)
  BY <1>13, FinalizeIsPermitStep DEF Close
<1>14. CASE WatchHangup(j) \/ WatchFails(j) \/ Expire(j) \/ HangUp(j)
  BY <1>14 DEF WatchHangup, WatchFails, Expire, HangUp, PermitStep, chatVars
<1>. QED  BY <1>1, <1>2, <1>3, <1>5, <1>6, <1>7, <1>8, <1>9, <1>10, <1>11,
             <1>12, <1>13, <1>14 DEF ChatAction

(* So do the steps of an upload. *)
LEMMA UploadIsQuiet ==
    ASSUME NEW j \in Jobs, UploadAction(j)
    PROVE  UNCHANGED <<queues, assigned_worker, hand, poll>> /\ PermitStep
<1>. DEFINE Quiet == UNCHANGED <<queues, assigned_worker, hand, poll>> /\ PermitStep
<1>. USE DEF registryVars, queueVars, permitVars, pollVars
<1>1. CASE Open(j)
  BY <1>1 DEF Open, PermitStep
<1>2. CASE PutDone(j) \/ PutDrop(j)
  BY <1>2 DEF PutDone, PutDrop, PermitStep
<1>3. ASSUME NEW e \in NextEnvelopes(j), Receive(j, e) PROVE Quiet
  BY <1>3 DEF Receive, PermitStep
<1>4. ASSUME NEW r, Conclusion(j, r) PROVE Quiet
  BY <1>4, FinalizeIsPermitStep DEF Conclusion
<1>5. ASSUME NEW r, Fail(j, r) PROVE Quiet
  <2>1. CASE Conclusion(j, r)
    BY <1>4, <2>1
  <2>2. CASE UNCHANGED <<registryVars, pollVars, env, sent, lost>>
    BY <2>2 DEF PermitStep
  <2>. QED  BY <1>5, <2>1, <2>2 DEF Fail
<1>6. CASE Eof(j)
  BY <1>4, <1>5, <1>6 DEF Eof
<1>7. CASE Abort(j)
  BY <1>5, <1>7 DEF Abort
<1>8. CASE FailPut(j)
  BY <1>4, <1>8 DEF FailPut
<1>. QED  BY <1>1, <1>2, <1>3, <1>6, <1>7, <1>8 DEF UploadAction

-----------------------------------------------------------------------------
(* A job is only in queues of its slug: a queue that gets new contents, each *)
(* job once and none of them elsewhere, leaves the other queues in order.    *)
LEMMA NewQueue ==
    ASSUME TypeOK, PlacesOK, NEW m \in Models, NEW q \in Seq(Jobs),
           queues' = [queues EXCEPT ![m] = q],
           \A a \in 1..Len(q) :
               /\ ModelOf[q[a]] = m
               /\ chat'[q[a]] \notin Early
               /\ \A p \in Polls : hand'[p] # q[a]
               /\ assigned_worker'[q[a]] = NoWorker,
           \A a, b \in 1..Len(q) : q[a] = q[b] => a = b,
           \A k \in Jobs :
               /\ ModelOf[k] # m
               /\ chat[k] \notin Early
               /\ \A p \in Polls : hand[p] # k
               /\ assigned_worker[k] = NoWorker
               => /\ chat'[k] \notin Early
                  /\ \A p \in Polls : hand'[p] # k
                  /\ assigned_worker'[k] = NoWorker
    PROVE  \A n \in Models : QueueOK(n)'
<1>. queues \in [Models -> Seq(Jobs)]
  BY DEF TypeOK, RegistryTypeOK
<1>1. SUFFICES ASSUME NEW n \in Models PROVE QueueOK(n)'
  OBVIOUS
<1>2. CASE n = m
  <2>1. queues'[n] = q
    BY <1>2
  <2>. QED  BY <1>2, <2>1 DEF QueueOK, InHand, Assigned
<1>3. CASE n # m
  <2>1. queues'[n] = queues[n]
    BY <1>3
  <2>2. QueueOK(n)
    BY DEF PlacesOK
  <2>3. \A i \in 1..Len(queues[n]) : queues[n][i] \in Jobs
    OBVIOUS
  <2>. QED  BY <1>3, <2>1, <2>2, <2>3 DEF QueueOK, InHand, Assigned
<1>. QED  BY <1>2, <1>3

(* What is left of the queue of m when jobs are taken from it, in the state  *)
(* before the step.                                                          *)
Part(q, m) ==
    /\ q \in Seq(Jobs)
    /\ \A a \in 1..Len(q) : \E i \in 1..Len(queues[m]) : q[a] = queues[m][i]
    /\ \A a, b \in 1..Len(q) : q[a] = q[b] => a = b

(* The whole queue, its tail and what is kept of either are such parts.      *)
LEMMA PartFacts ==
    ASSUME TypeOK, PlacesOK, NEW m \in Models
    PROVE  /\ Part(queues[m], m)
           /\ Part(Kept(queues[m]), m)
           /\ queues[m] # <<>> =>
                  /\ Head(queues[m]) \in Jobs
                  /\ \E i \in 1..Len(queues[m]) : Head(queues[m]) = queues[m][i]
                  /\ Part(Tail(queues[m]), m)
                  /\ Part(Kept(Tail(queues[m])), m)
                  /\ \A a \in 1..Len(Tail(queues[m])) :
                         Tail(queues[m])[a] # Head(queues[m])
<1>. DEFINE q == queues[m]
<1>1. q \in Seq(Jobs)
  BY DEF TypeOK, RegistryTypeOK
<1>2. \A i, k \in 1..Len(q) : q[i] = q[k] => i = k
  BY DEF PlacesOK, QueueOK
<1>3. Part(q, m)
  BY <1>1, <1>2 DEF Part
<1>4. ASSUME NEW r, Part(r, m) PROVE Part(Kept(r), m)
  <2>1. r \in Seq(Jobs) /\ \A a, b \in 1..Len(r) : r[a] = r[b] => a = b
    BY <1>4 DEF Part
  <2>2. Kept(r) \in Seq(Jobs)
    BY <2>1, KeptFacts
  <2>3. \A a \in 1..Len(Kept(r)) : \E k \in 1..Len(r) : Kept(r)[a] = r[k]
    BY <2>1, KeptFacts
  <2>4. \A a, b \in 1..Len(Kept(r)) : Kept(r)[a] = Kept(r)[b] => a = b
    BY <2>1, KeptFacts
  <2>5. ASSUME NEW a \in 1..Len(Kept(r))
        PROVE  \E i \in 1..Len(queues[m]) : Kept(r)[a] = queues[m][i]
    <3>1. PICK k \in 1..Len(r) : Kept(r)[a] = r[k]
      BY <2>3
    <3>. QED  BY <1>4, <3>1 DEF Part
  <2>. QED  BY <2>2, <2>4, <2>5 DEF Part
<1>5. ASSUME q # <<>>
      PROVE  /\ Head(q) \in Jobs
             /\ \E i \in 1..Len(q) : Head(q) = q[i]
             /\ Part(Tail(q), m)
             /\ \A a \in 1..Len(Tail(q)) : Tail(q)[a] # Head(q)
  <2>. DEFINE t == Tail(q)
  <2>1. Len(q) \in Nat /\ Len(q) >= 1 /\ Head(q) = q[1] /\ q[1] \in Jobs
    BY <1>1, <1>5
  <2>2. t \in Seq(Jobs) /\ Len(t) = Len(q) - 1
    BY <1>1, <1>5
  <2>3. \A a \in 1..Len(t) : t[a] = q[a + 1] /\ a + 1 \in 1..Len(q) /\ a + 1 # 1
    BY <1>1, <1>5, <2>1, <2>2
  <2>. HIDE DEF t, q
  <2>4. \A a, b \in 1..Len(t) : t[a] = t[b] => a = b
    BY <1>2, <2>2, <2>3
  <2>5. \A a \in 1..Len(t) : t[a] # q[1]
    BY <1>2, <2>1, <2>3
  <2>6. Part(t, m)
    BY <2>2, <2>3, <2>4 DEF Part, q
  <2>. QED  BY <2>1, <2>5, <2>6 DEF t
<1>. QED  BY <1>3, <1>4, <1>5

(* The jobs of a part are as the invariant says of those of the queue.       *)
LEMMA PartPlaces ==
    ASSUME PlacesOK, NEW m \in Models, NEW q, Part(q, m), NEW a \in 1..Len(q)
    PROVE  /\ q[a] \in Jobs /\ ModelOf[q[a]] = m /\ chat[q[a]] \notin Early
           /\ \A p \in Polls : hand[p] # q[a]
           /\ assigned_worker[q[a]] = NoWorker
<1>1. PICK i \in 1..Len(queues[m]) : q[a] = queues[m][i]
  BY DEF Part
<1>2. QueueOK(m)
  BY DEF PlacesOK
<1>3. q[a] \in Jobs
  BY DEF Part
<1>. QED  BY <1>1, <1>2, <1>3 DEF QueueOK, InHand, Assigned

-----------------------------------------------------------------------------
(* The steps that place jobs. *)

(* A part of the queue of m, and at its end perhaps a job that is nowhere    *)
(* else, is a queue.                                                         *)
LEMMA AppendPart ==
    ASSUME PlacesOK, NEW m \in Models, NEW q, Part(q, m), NEW j \in Jobs,
           \A i \in 1..Len(queues[m]) : queues[m][i] # j
    PROVE  /\ Append(q, j) \in Seq(Jobs)
           /\ \A a \in 1..Len(Append(q, j)) :
                  (a \in 1..Len(q) /\ Append(q, j)[a] = q[a]) \/ Append(q, j)[a] = j
           /\ \A a, b \in 1..Len(Append(q, j)) :
                  Append(q, j)[a] = Append(q, j)[b] => a = b
<1>. DEFINE t == Append(q, j)
<1>1. q \in Seq(Jobs) /\ \A a, b \in 1..Len(q) : q[a] = q[b] => a = b
  BY DEF Part
<1>2. \A a \in 1..Len(q) : q[a] # j
  BY DEF Part
<1>3. /\ t \in Seq(Jobs) /\ Len(t) = Len(q) + 1 /\ t[Len(q) + 1] = j
      /\ \A a \in 1..Len(q) : t[a] = q[a]
  BY <1>1
<1>. HIDE DEF t
<1>4. \A a \in 1..Len(t) : a \in 1..Len(q) \/ a = Len(q) + 1
  BY <1>1, <1>3
<1>5. \A a, b \in 1..Len(t) : t[a] = t[b] => a = b
  BY <1>1, <1>2, <1>3, <1>4
<1>6. \A a \in 1..Len(t) : (a \in 1..Len(q) /\ t[a] = q[a]) \/ t[a] = j
  BY <1>3, <1>4
<1>. QED  BY <1>3, <1>5, <1>6 DEF t

(* A new request: its job joins its queue, or waits to.                      *)
LEMMA ArrivePlaces ==
    ASSUME TypeOK, PlacesOK, NEW j \in Jobs, Arrive(j) \/ Enqueue(j),
           UNCHANGED workerVars
    PROVE  PlacesOK'
<1>. DEFINE m == ModelOf[j]
            q == IF chat[j] = "new" THEN Kept(queues[m]) ELSE queues[m]
<1>1. m \in Models /\ chat \in [Jobs -> ChatStates]
  BY RegistryAssumption DEF TypeOK, ChatTypeOK
<1>2. Part(q, m)
  BY <1>1, PartFacts
<1>3. /\ chat[j] \in {"new", "putting"}
      /\ UNCHANGED <<hand, poll, assigned_worker>>
      /\ \A k \in Jobs \ {j} : chat'[k] = chat[k]
      /\ \/ queues' = [queues EXCEPT ![m] = q]
         \/ queues' = [queues EXCEPT ![m] = Append(q, j)] /\ chat'[j] \notin Early
  BY <1>1 DEF Arrive, Enqueue, Goto, Early, permitVars, workerVars, pollVars
<1>. HIDE DEF q
<1>4. /\ \A i \in 1..Len(queues[m]) : queues[m][i] # j
      /\ \A p \in Polls : hand[p] # j
      /\ assigned_worker[j] = NoWorker
  BY <1>1, <1>3 DEF PlacesOK, QueueOK, HandOK, Assigned, Early
<1>5. ASSUME NEW a \in 1..Len(q)
      PROVE  /\ q[a] # j /\ ModelOf[q[a]] = m /\ chat'[q[a]] \notin Early
             /\ \A p \in Polls : hand'[p] # q[a]
             /\ assigned_worker'[q[a]] = NoWorker
  <2>1. /\ q[a] \in Jobs /\ ModelOf[q[a]] = m /\ chat[q[a]] \notin Early
        /\ \A p \in Polls : hand[p] # q[a]
        /\ assigned_worker[q[a]] = NoWorker
    BY <1>1, <1>2, PartPlaces
  <2>2. q[a] # j
    BY <1>3, <2>1 DEF Early
  <2>. QED  BY <1>3, <2>1, <2>2
<1>6. \A k \in Jobs : chat[k] \notin Early => chat'[k] \notin Early
  BY <1>3 DEF Early
<1>7. \A n \in Models : QueueOK(n)'
  <2>1. CASE queues' = [queues EXCEPT ![m] = q]
    BY <1>1, <1>2, <1>3, <1>5, <1>6, <2>1, NewQueue DEF Part
  <2>2. CASE queues' = [queues EXCEPT ![m] = Append(q, j)] /\ chat'[j] \notin Early
    <3>. DEFINE t == Append(q, j)
    <3>1. /\ t \in Seq(Jobs)
          /\ \A a \in 1..Len(t) : (a \in 1..Len(q) /\ t[a] = q[a]) \/ t[a] = j
          /\ \A a, b \in 1..Len(t) : t[a] = t[b] => a = b
      BY <1>1, <1>2, <1>4, AppendPart
    <3>2. queues' = [queues EXCEPT ![m] = t]
      BY <2>2
    <3>. HIDE DEF t
    <3>3. \A a \in 1..Len(t) :
              /\ ModelOf[t[a]] = m
              /\ chat'[t[a]] \notin Early
              /\ \A p \in Polls : hand'[p] # t[a]
              /\ assigned_worker'[t[a]] = NoWorker
      BY <1>3, <1>4, <1>5, <2>2, <3>1
    <3>. QED  BY <1>1, <1>3, <1>6, <3>1, <3>2, <3>3, NewQueue
  <2>. QED  BY <1>3, <2>1, <2>2
<1>8. \A p \in Polls : HandOK(p)'
  BY <1>3, <1>6 DEF PlacesOK, HandOK, Assigned
<1>9. \A k \in Jobs : Assigned(k)' => chat'[k] \notin Early
  BY <1>3, <1>6 DEF PlacesOK, Assigned
<1>. QED  BY <1>7, <1>8, <1>9 DEF PlacesOK

(* The registration of a new job, which holds no permit, among the others.   *)
LEMMA ArrivePermits ==
    ASSUME IInv, NEW j \in Jobs, Arrive(j)
    PROVE  HoldingOK' /\ PermitsConserved'
<1>. TypeOK /\ PlacesOK /\ HoldingOK /\ PermitsConserved
  BY DEF IInv
<1>1. ~Assigned(j)
  BY DEF Arrive, PlacesOK, Early
<1>. DEFINE D == Dead(queues[ModelOf[j]])
            r == [k \in Jobs |-> skip_reason(k)]
            known == in_flight \cup {j}
<1>2. FinalizeAll(D, r, known) /\ UNCHANGED assigned_worker
  BY DEF Arrive, DropAll
<1>3. /\ in_flight \subseteq known /\ known \subseteq Jobs
      /\ \A k \in known \ in_flight : ~Assigned(k)
  BY <1>1 DEF TypeOK, RegistryTypeOK
<1>. HIDE DEF D, r, known
<1>. QED  BY <1>2, <1>3, FinalizeAllPermits

-----------------------------------------------------------------------------
(* The steps of a poll. *)

(* A poll that has nothing in its hands any more leaves the hands in order.  *)
LEMMA EmptyHand ==
    ASSUME TypeOK, PlacesOK, NEW p \in Polls, NEW s,
           s # "acquiring",
           hand' = [hand EXCEPT ![p] = NoJob],
           poll' = [poll EXCEPT ![p] = s],
           UNCHANGED <<assigned_worker, chat>>
    PROVE  \A r \in Polls : HandOK(r)'
<1>1. hand \in [Polls -> Jobs \cup {NoJob}] /\ DOMAIN poll = Polls /\ NoJob \notin Jobs
  BY WorkerAssumption DEF TypeOK, WorkerTypeOK
<1>2. ASSUME NEW r \in Polls PROVE HandOK(r)'
  <2>1. CASE r = p
    <3>1. hand'[r] \notin Jobs /\ poll'[r] # "acquiring"
      BY <1>1, <2>1
    <3>. QED  BY <3>1 DEF HandOK
  <2>2. CASE r # p
    <3>1. hand'[r] = hand[r] /\ poll'[r] = poll[r]
      BY <1>1, <2>2
    <3>2. \A x \in Polls : hand'[x] \in Jobs => hand'[x] = hand[x]
      BY <1>1
    <3>3. HandOK(r)
      BY DEF PlacesOK
    <3>. QED  BY <3>1, <3>2, <3>3 DEF HandOK, Assigned
  <2>. QED  BY <2>1, <2>2
<1>. QED  BY <1>2

(* Pruning the queue, with the job the poll drops already out of it.         *)
LEMMA PruneAndGetPlaces ==
    ASSUME TypeOK, PlacesOK, NEW p \in Polls, NEW D, NEW q,
           Part(Kept(q), PollModel[p]), PruneAndGet(p, D, q), UNCHANGED chatVars
    PROVE  PlacesOK' /\ PermitStep
<1>. DEFINE m == PollModel[p]
            k == Kept(q)
<1>1. m \in Models /\ NoJob \notin Jobs
  BY WorkerAssumption
<1>2. /\ queues' = [queues EXCEPT ![m] = k]
      /\ hand' = [hand EXCEPT ![p] = NoJob]
      /\ poll' = [poll EXCEPT ![p] = "getting"]
      /\ UNCHANGED <<assigned_worker, chat>>
      /\ DropAll(D \cup Dead(q), in_flight)
  BY DEF PruneAndGet, chatVars
<1>3. \A r \in Polls, j \in Jobs : hand'[r] = j => hand[r] = j
  BY <1>1, <1>2 DEF TypeOK, WorkerTypeOK
<1>4. Part(k, m)
  OBVIOUS
<1>. HIDE DEF k
<1>5. \A n \in Models : QueueOK(n)'
  <2>1. k \in Seq(Jobs) /\ \A a, b \in 1..Len(k) : k[a] = k[b] => a = b
    BY <1>4 DEF Part
  <2>2. \A a \in 1..Len(k) :
            /\ ModelOf[k[a]] = m
            /\ chat'[k[a]] \notin Early
            /\ \A r \in Polls : hand'[r] # k[a]
            /\ assigned_worker'[k[a]] = NoWorker
    BY <1>1, <1>2, <1>3, <1>4, PartPlaces
  <2>3. \A x \in Jobs :
            /\ ModelOf[x] # m
            /\ chat[x] \notin Early
            /\ \A r \in Polls : hand[r] # x
            /\ assigned_worker[x] = NoWorker
            => /\ chat'[x] \notin Early
               /\ \A r \in Polls : hand'[r] # x
               /\ assigned_worker'[x] = NoWorker
    BY <1>2, <1>3
  <2>. QED  BY <1>1, <1>2, <2>1, <2>2, <2>3, NewQueue
<1>6. \A r \in Polls : HandOK(r)'
  BY <1>2, EmptyHand
<1>7. \A j \in Jobs : Assigned(j)' => chat'[j] \notin Early
  BY <1>2 DEF PlacesOK, Assigned
<1>8. PermitStep
  BY <1>2 DEF DropAll, PermitStep
<1>. QED  BY <1>5, <1>6, <1>7, <1>8 DEF PlacesOK

(* The job at the head of the queue passes into the hands of a poll.         *)
LEMMA TakePlaces ==
    ASSUME TypeOK, PlacesOK, NEW p \in Polls, PollGet(p), UNCHANGED chatVars,
           Live(Head(queues[PollModel[p]]))
    PROVE  PlacesOK' /\ PermitStep
<1>. DEFINE m == PollModel[p]
            j == Head(queues[m])
            t == Tail(queues[m])
<1>1. m \in Models /\ hand \in [Polls -> Jobs \cup {NoJob}] /\ DOMAIN poll = Polls
  BY WorkerAssumption DEF TypeOK, WorkerTypeOK
<1>2. /\ queues[m] # <<>>
      /\ queues' = [queues EXCEPT ![m] = t]
      /\ poll[p] = "getting"
      /\ poll' = [poll EXCEPT ![p] = "acquiring"]
      /\ hand' = [hand EXCEPT ![p] = j]
      /\ UNCHANGED <<in_flight, sem, assigned_worker, holding, chat>>
  <2>1. queues \in [Models -> Seq(Jobs)]
    BY DEF TypeOK, RegistryTypeOK
  <2>. QED  BY <1>1, <2>1 DEF PollGet, permitVars, chatVars
<1>3. /\ j \in Jobs /\ Part(t, m)
      /\ \E i \in 1..Len(queues[m]) : j = queues[m][i]
      /\ \A a \in 1..Len(t) : t[a] # j
  BY <1>1, <1>2, PartFacts
<1>4. /\ ModelOf[j] = m /\ chat[j] \notin Early
      /\ \A r \in Polls : hand[r] # j
      /\ assigned_worker[j] = NoWorker
  BY <1>1, <1>3 DEF PlacesOK, QueueOK, InHand, Assigned
<1>. HIDE DEF t, j
<1>5. \A n \in Models : QueueOK(n)'
  <2>1. t \in Seq(Jobs) /\ \A a, b \in 1..Len(t) : t[a] = t[b] => a = b
    BY <1>3 DEF Part
  <2>2. \A a \in 1..Len(t) :
            /\ ModelOf[t[a]] = m
            /\ chat'[t[a]] \notin Early
            /\ \A r \in Polls : hand'[r] # t[a]
            /\ assigned_worker'[t[a]] = NoWorker
    BY <1>1, <1>2, <1>3, PartPlaces
  <2>3. \A x \in Jobs :
            /\ ModelOf[x] # m
            /\ chat[x] \notin Early
            /\ \A r \in Polls : hand[r] # x
            /\ assigned_worker[x] = NoWorker
            => /\ chat'[x] \notin Early
               /\ \A r \in Polls : hand'[r] # x
               /\ assigned_worker'[x] = NoWorker
    BY <1>1, <1>2, <1>4
  <2>. QED  BY <1>1, <1>2, <2>1, <2>2, <2>3, NewQueue
<1>6. ASSUME NEW r \in Polls PROVE HandOK(r)'
  <2>1. CASE r = p
    BY <1>1, <1>2, <1>3, <1>4, <2>1 DEF HandOK, Assigned
  <2>2. CASE r # p
    <3>1. HandOK(r)
      BY DEF PlacesOK
    <3>. QED  BY <1>1, <1>2, <1>4, <2>2, <3>1 DEF HandOK, Assigned
  <2>. QED  BY <2>1, <2>2
<1>7. \A k \in Jobs : Assigned(k)' => chat'[k] \notin Early
  BY <1>2 DEF PlacesOK, Assigned
<1>8. PermitStep
  BY <1>2 DEF PermitStep
<1>. QED  BY <1>5, <1>6, <1>7, <1>8 DEF PlacesOK

(* The job passes from the poll to its worker, with one of its permits.      *)
LEMMA AssignPlaces ==
    ASSUME IInv, NEW p \in Polls, Assign(p), UNCHANGED chatVars
    PROVE  PlacesOK' /\ HoldingOK' /\ PermitsConserved'
<1>. TypeOK /\ PlacesOK /\ HoldingOK /\ PermitsConserved
  BY DEF IInv
<1>. DEFINE v == PollWorker[p]
            j == hand[p]
<1>1. /\ v \in Workers /\ v # NoWorker /\ NoJob \notin Jobs
      /\ hand \in [Polls -> Jobs \cup {NoJob}]
      /\ sem \in [Workers -> Nat]
      /\ assigned_worker \in [Jobs -> Workers \cup {NoWorker}]
      /\ in_flight \subseteq Jobs
  BY RegistryAssumption, WorkerAssumption DEF TypeOK, WorkerTypeOK, RegistryTypeOK
<1>2. /\ j \in in_flight /\ sem[v] > 0
      /\ sem' = [sem EXCEPT ![v] = @ - 1]
      /\ assigned_worker' = [assigned_worker EXCEPT ![j] = v]
      /\ holding' = holding \cup {j}
      /\ poll' = [poll EXCEPT ![p] = "idle"]
      /\ hand' = [hand EXCEPT ![p] = NoJob]
      /\ UNCHANGED <<queues, in_flight, chat>>
  BY SkipReasonType DEF Assign, Handover, queueVars, chatVars
<1>3. /\ j \in Jobs /\ chat[j] \notin Early /\ ~Assigned(j)
      /\ \A r \in Polls : hand[r] = j => r = p
  <2>1. HandOK(p) /\ j \in Jobs
    BY <1>1, <1>2 DEF PlacesOK
  <2>. QED  BY <2>1 DEF HandOK
<1>4. \A m \in Models : \A i \in 1..Len(queues[m]) :
          queues[m][i] \in Jobs /\ queues[m][i] # j
  <2>1. \A m \in Models : queues[m] \in Seq(Jobs)
    BY DEF TypeOK, RegistryTypeOK
  <2>. QED  BY <2>1 DEF PlacesOK, QueueOK, InHand
<1>5. \A r \in Polls : hand'[r] \in Jobs => hand'[r] = hand[r] /\ hand[r] # j
  BY <1>1, <1>2, <1>3
<1>6. /\ \A k \in Jobs \ {j} : assigned_worker'[k] = assigned_worker[k]
      /\ assigned_worker'[j] = v
  BY <1>1, <1>2, <1>3
<1>. HIDE DEF j, v
<1>7. ASSUME NEW m \in Models PROVE QueueOK(m)'
  <2>1. QueueOK(m)
    BY DEF PlacesOK
  <2>2. ASSUME NEW i \in 1..Len(queues[m])
        PROVE  ~InHand(queues[m][i])' /\ ~Assigned(queues[m][i])'
    BY <1>2, <1>4, <1>5, <1>6, <2>1 DEF QueueOK, InHand, Assigned
  <2>. QED  BY <1>2, <2>1, <2>2 DEF QueueOK
<1>8. ASSUME NEW r \in Polls PROVE HandOK(r)'
  <2>1. HandOK(r)
    BY DEF PlacesOK
  <2>2. DOMAIN poll = Polls
    BY DEF TypeOK, WorkerTypeOK
  <2>3. CASE r = p
    BY <1>1, <1>2, <2>2, <2>3 DEF HandOK
  <2>4. CASE r # p
    <3>1. poll'[r] = poll[r] /\ hand'[r] = hand[r]
      BY <1>1, <1>2, <2>2, <2>4
    <3>. QED  BY <1>2, <1>5, <1>6, <2>1, <3>1 DEF HandOK, Assigned
  <2>. QED  BY <2>3, <2>4
<1>9. \A k \in Jobs : Assigned(k)' => chat'[k] \notin Early
  BY <1>2, <1>3, <1>6 DEF PlacesOK, Assigned
<1>10. HoldingOK'
  BY <1>1, <1>2, <1>3, <1>6 DEF HoldingOK, Assigned
<1>11. ASSUME NEW w \in Workers
       PROVE  sem'[w] + Cardinality(Running(w)') = MaxConcurrent
  <2>. DEFINE R == Running(w)
  <2>1. R \subseteq Jobs /\ IsFiniteSet(R) /\ Cardinality(R) \in Nat
    BY <1>1, JobSetsFinite DEF Running
  <2>2. sem[w] \in Nat /\ sem[w] + Cardinality(R) = MaxConcurrent
    BY <1>1 DEF PermitsConserved
  <2>3. CASE w = v
    <3>1. Running(w)' = R \cup {j} /\ j \notin R
      BY <1>1, <1>2, <1>3, <1>6, <2>3 DEF Running, Assigned
    <3>2. Cardinality(R \cup {j}) = Cardinality(R) + 1
      BY <2>1, <3>1, FS_AddElement
    <3>3. sem'[w] = sem[w] - 1
      BY <1>1, <1>2, <2>3
    <3>. HIDE DEF R
    <3>. QED  BY <2>1, <2>2, <3>1, <3>2, <3>3
  <2>4. CASE w # v
    <3>1. Running(w)' = R
      BY <1>1, <1>2, <1>3, <1>6, <2>4, RegistryAssumption DEF Running, Assigned
    <3>2. sem'[w] = sem[w]
      BY <1>1, <1>2, <2>4
    <3>. HIDE DEF R
    <3>. QED  BY <2>2, <3>1, <3>2
  <2>. QED  BY <2>3, <2>4
<1>12. PermitsConserved'
  BY <1>11 DEF PermitsConserved
<1>. QED  BY <1>7, <1>8, <1>9, <1>10, <1>12 DEF PlacesOK

(* No permit came: the job goes back to the tail of its queue, or is left to *)
(* its client, or is finalized.                                              *)
LEMMA AcquireTimeoutPlaces ==
    ASSUME TypeOK, PlacesOK, NEW p \in Polls, AcquireTimeout(p), UNCHANGED chatVars
    PROVE  PlacesOK' /\ PermitStep
<1>. DEFINE m == PollModel[p]
            j == hand[p]
<1>1. /\ m \in Models /\ NoJob \notin Jobs
      /\ hand \in [Polls -> Jobs \cup {NoJob}]
      /\ queues \in [Models -> Seq(Jobs)]
  BY WorkerAssumption DEF TypeOK, WorkerTypeOK, RegistryTypeOK
<1>2. /\ hand' = [hand EXCEPT ![p] = NoJob]
      /\ poll' = [poll EXCEPT ![p] = "idle"]
      /\ UNCHANGED <<assigned_worker, chat>>
      /\ \/ UNCHANGED queues
         \/ queues' = [queues EXCEPT ![m] = Append(queues[m], j)]
  BY DEF AcquireTimeout, chatVars, queueVars
<1>3. PermitStep
  BY FinalizeIsPermitStep DEF AcquireTimeout, PermitStep, queueVars
<1>4. /\ j \in Jobs /\ ModelOf[j] = m /\ chat[j] \notin Early
      /\ assigned_worker[j] = NoWorker
      /\ \A r \in Polls : hand[r] = j => r = p
  <2>1. HandOK(p) /\ poll[p] = "acquiring"
    BY DEF PlacesOK, AcquireTimeout
  <2>. QED  BY <2>1 DEF HandOK, Assigned
<1>5. \A r \in Polls, x \in Jobs : hand'[r] = x => hand[r] = x /\ x # j
  BY <1>1, <1>2, <1>4
<1>6. \A i \in 1..Len(queues[m]) : queues[m][i] # j
  BY <1>1, <1>4 DEF PlacesOK, QueueOK, InHand
<1>. HIDE DEF j
<1>7. \A n \in Models : QueueOK(n)'
  <2>1. Part(queues[m], m)
    BY <1>1, PartFacts
  <2>2. \A a \in 1..Len(queues[m]) :
            /\ ModelOf[queues[m][a]] = m
            /\ chat'[queues[m][a]] \notin Early
            /\ \A r \in Polls : hand'[r] # queues[m][a]
            /\ assigned_worker'[queues[m][a]] = NoWorker
    BY <1>1, <1>2, <1>5, <2>1, PartPlaces
  <2>3. \A x \in Jobs :
            /\ ModelOf[x] # m
            /\ chat[x] \notin Early
            /\ \A r \in Polls : hand[r] # x
            /\ assigned_worker[x] = NoWorker
            => /\ chat'[x] \notin Early
               /\ \A r \in Polls : hand'[r] # x
               /\ assigned_worker'[x] = NoWorker
    BY <1>2, <1>5
  <2>4. CASE UNCHANGED queues
    <3>. DEFINE q == queues[m]
    <3>1. q \in Seq(Jobs) /\ \A a, b \in 1..Len(q) : q[a] = q[b] => a = b
      BY <2>1 DEF Part
    <3>2. queues' = [queues EXCEPT ![m] = q]
      BY <1>1, <2>4
    <3>3. \A a \in 1..Len(q) :
            /\ ModelOf[q[a]] = m
            /\ chat'[q[a]] \notin Early
            /\ \A r \in Polls : hand'[r] # q[a]
            /\ assigned_worker'[q[a]] = NoWorker
      BY <2>2
    <3>. HIDE DEF q
    <3>. QED  BY <1>1, <2>3, <3>1, <3>2, <3>3, NewQueue
  <2>5. CASE queues' = [queues EXCEPT ![m] = Append(queues[m], j)]
    <3>. DEFINE t == Append(queues[m], j)
    <3>1. /\ t \in Seq(Jobs)
          /\ \A a \in 1..Len(t) :
                 (a \in 1..Len(queues[m]) /\ t[a] = queues[m][a]) \/ t[a] = j
          /\ \A a, b \in 1..Len(t) : t[a] = t[b] => a = b
      BY <1>1, <1>4, <1>6, <2>1, AppendPart
    <3>2. queues' = [queues EXCEPT ![m] = t]
      BY <2>5
    <3>. HIDE DEF t
    <3>3. \A a \in 1..Len(t) :
              /\ ModelOf[t[a]] = m
              /\ chat'[t[a]] \notin Early
              /\ \A r \in Polls : hand'[r] # t[a]
              /\ assigned_worker'[t[a]] = NoWorker
      BY <1>2, <1>4, <1>5, <2>2, <3>1
    <3>. QED  BY <1>1, <2>3, <3>1, <3>2, <3>3, NewQueue
  <2>. QED  BY <1>2, <2>4, <2>5
<1>8. \A r \in Polls : HandOK(r)'
  BY <1>2, EmptyHand
<1>9. \A k \in Jobs : Assigned(k)' => chat'[k] \notin Early
  BY <1>2 DEF PlacesOK, Assigned
<1>. QED  BY <1>3, <1>7, <1>8, <1>9 DEF PlacesOK

-----------------------------------------------------------------------------
(* Every step of the master keeps the invariant. *)
LEMMA StepIInv == IInv /\ [Next]_vars => IInv'
<1>1. SUFFICES ASSUME IInv, [Next]_vars
               PROVE  PlacesOK' /\ HoldingOK' /\ PermitsConserved'
  BY StepType DEF IInv
<1>. TypeOK /\ PlacesOK /\ HoldingOK /\ PermitsConserved
  BY <1>1 DEF IInv
<1>. USE DEF workerVars, pollVars, chatVars
<1>2. CASE UNCHANGED vars
  <2>1. PermitStep
    BY <1>2 DEF vars, registryVars, queueVars, permitVars, PermitStep
  <2>. QED
    BY <1>2, <2>1, PermitStepOK, QuietPlaces
       DEF vars, registryVars, queueVars, permitVars
<1>3. ASSUME NEW j \in Jobs, ChatAction(j), UNCHANGED workerVars
      PROVE  PlacesOK' /\ HoldingOK' /\ PermitsConserved'
  <2>1. CASE Arrive(j)
    BY <1>1, <1>3, <2>1, ArrivePlaces, ArrivePermits
  <2>2. CASE Enqueue(j)
    <3>1. PermitStep
      BY <2>2 DEF Enqueue, permitVars, PermitStep
    <3>. QED  BY <1>3, <2>2, <3>1, ArrivePlaces, PermitStepOK
  <2>3. CASE ~Arrive(j) /\ ~Enqueue(j)
    BY <1>3, <2>3, RequestIsQuiet, QuietPlaces, PermitStepOK
  <2>. QED  BY <2>1, <2>2, <2>3
<1>4. ASSUME NEW p \in Polls, PollAction(p), UNCHANGED chatVars
      PROVE  PlacesOK' /\ HoldingOK' /\ PermitsConserved'
  <2>. DEFINE q == queues[PollModel[p]]
  <2>1. /\ Part(Kept(q), PollModel[p])
        /\ q # <<>> => Part(Kept(Tail(q)), PollModel[p])
    BY WorkerAssumption, PartFacts
  <2>2. CASE PollStart(p)
    BY <1>4, <2>1, <2>2, PruneAndGetPlaces, PermitStepOK DEF PollStart
  <2>3. CASE PollGet(p)
    <3>1. CASE Live(Head(q))
      BY <1>4, <2>3, <3>1, TakePlaces, PermitStepOK
    <3>2. CASE ~Live(Head(q))
      BY <1>4, <2>1, <2>3, <3>2, PruneAndGetPlaces, PermitStepOK DEF PollGet
    <3>. QED  BY <3>1, <3>2
  <2>4. CASE PollGiveUp(p)
    <3>1. /\ UNCHANGED <<queues, hand, assigned_worker, chat>> /\ PermitStep
          /\ poll[p] = "getting" /\ poll' = [poll EXCEPT ![p] = "idle"]
      BY <1>4, <2>4 DEF PollGiveUp, registryVars, queueVars, permitVars, PermitStep
    <3>2. ASSUME NEW r \in Polls
          PROVE  poll'[r] = "acquiring" <=> poll[r] = "acquiring"
      BY <3>1 DEF TypeOK, WorkerTypeOK
    <3>3. \A r \in Polls : HandOK(r)'
      BY <3>1, <3>2 DEF PlacesOK, HandOK, Assigned
    <3>4. \A m \in Models : QueueOK(m)'
      BY <3>1 DEF PlacesOK, QueueOK, InHand, Assigned
    <3>5. \A j \in Jobs : Assigned(j)' => chat'[j] \notin Early
      BY <3>1 DEF PlacesOK, Assigned
    <3>. QED  BY <3>1, <3>3, <3>4, <3>5, PermitStepOK DEF PlacesOK
  <2>5. CASE Assign(p)
    BY <1>1, <1>4, <2>5, AssignPlaces
  <2>6. CASE AcquiredForDead(p)
    BY <1>4, <2>1, <2>6, PruneAndGetPlaces, PermitStepOK DEF AcquiredForDead
  <2>7. CASE AcquireTimeout(p)
    BY <1>4, <2>7, AcquireTimeoutPlaces, PermitStepOK
  <2>. QED  BY <1>4, <2>2, <2>3, <2>4, <2>5, <2>6, <2>7 DEF PollAction
<1>5. ASSUME NEW j \in Jobs, UploadAction(j), UNCHANGED chatVars
      PROVE  PlacesOK' /\ HoldingOK' /\ PermitsConserved'
  BY <1>5, UploadIsQuiet, QuietPlaces, PermitStepOK
<1>. QED  BY <1>1, <1>2, <1>3, <1>4, <1>5, NextActions

(* Every job is where the inductive invariant says, and every permit too, in *)
(* every reachable state of the master.                                      *)
THEOREM Invariance == Spec => []IInv
BY InitIInv, StepIInv, PTL DEF Spec

(* No permit is lost and none is made, whoever finalizes a job and however   *)
(* often: the free permits of a worker and the jobs in flight it was given   *)
(* always add up to max_concurrent_per_worker (queue.py:92-106).             *)
THEOREM PermitsAreConserved == Spec => []PermitsConserved
<1>1. IInv => PermitsConserved
  BY DEF IInv
<1>. QED  BY <1>1, Invariance, PTL

(* A job is in one place of one queue, in the hands of one poll or with one  *)
(* worker, whatever polls requeue and drop (internal.py:51): no job is ever  *)
(* handed out twice.                                                         *)
THEOREM CustodyIsSingle == Spec => []OneCustodian
<1>1. IInv => OneCustodian
  BY PlacesSuffice
<1>. QED  BY <1>1, Invariance, PTL

(* A job stands only in the queue of its slug and only from the moment its   *)
(* request has put it there, and holding are the assigned jobs in flight.    *)
THEOREM PlacementHolds == Spec => []Placement
<1>1. IInv => Placement
  BY PlacesSuffice
<1>. QED  BY <1>1, Invariance, PTL
=============================================================================
