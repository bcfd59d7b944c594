---------------------------- MODULE CauseProofs -----------------------------
(***************************************************************************)
(* How jobs end, in every reachable state of the master: each once, with a  *)
(* reason counted once, and none is handed to a worker when it is over; and *)
(* why a client hears what it hears: no waiting job is forgotten, no answer *)
(* comes without its cause, and no reader is left without one but in the    *)
(* cases that are named.                                                    *)
(***************************************************************************)
EXTENDS MasterProofs

\* A job is in flight from its registration to its finalization.
Membership ==
    \A j \in Jobs : IF chat[j] = "new" THEN j \notin in_flight /\ ~Finalized(j)
                                       ELSE j \in in_flight <=> ~Finalized(j)

Counted ==
    \A r \in FinalReasons :
        finalized_counts[r] = Cardinality({j \in Jobs : final_reason[j] = r})

DropsCounted ==
    /\ drop_counts["expired"] = finalized_counts["expired"]
    /\ drop_counts["client_disconnected"] <= finalized_counts["client_disconnected"]

\* The inductive invariant.  IInv is part of it since a new job must not be in
\* the queue that its own arrival prunes.
SInv == IInv /\ Membership /\ Counted /\ DropsCounted /\ AnsweredIsReleased

(* It holds the properties that the runs check. *)
LEMMA SettleSuffices == SInv => FinalizedOnce /\ AnsweredIsReleased
BY DEF SInv, Membership, Counted, DropsCounted, FinalizedOnce

(* Initially no job is in flight and nothing is counted. *)
LEMMA InitSInv == Init => SInv
<1>1. SUFFICES ASSUME Init PROVE SInv
  OBVIOUS
<1>2. Membership /\ AnsweredIsReleased
  BY <1>1 DEF Init, RegistryInit, ChatInit, Membership, AnsweredIsReleased, Finalized
<1>3. Counted
  <2>1. \A r \in FinalReasons : finalized_counts[r] = 0 /\ r # "none"
    BY <1>1 DEF Init, RegistryInit, FinalReasons, DropReasons
  <2>2. \A r \in FinalReasons : {j \in Jobs : final_reason[j] = r} = {}
    BY <1>1, <2>1 DEF Init, RegistryInit
  <2>3. Cardinality({}) = 0
    BY FS_EmptySet
  <2>. QED  BY <2>1, <2>2, <2>3 DEF Counted
<1>4. DropsCounted
  BY <1>1 DEF Init, RegistryInit, DropsCounted, FinalReasons, DropReasons
<1>. QED  BY <1>1, <1>2, <1>3, <1>4, InitIInv DEF SInv

-----------------------------------------------------------------------------
(* What a finalization does to the reasons and their counts: every job that  *)
(* it pops, and no other, gets its reason and is counted under it.           *)
LEMMA FinalizeAllSettles ==
    ASSUME TypeOK, Counted, NEW D, NEW reason, NEW known, known \subseteq Jobs,
           \A j \in known : ~Finalized(j),
           \A j \in D \cap known : reason[j] \in FinalReasons,
           FinalizeAll(D, reason, known)
    PROVE  /\ in_flight' = known \ D
           /\ \A j \in Jobs : Finalized(j)' <=> Finalized(j) \/ j \in D \cap known
           /\ Counted'
           /\ \A r \in FinalReasons : finalized_counts'[r] =
                  finalized_counts[r] + Cardinality({j \in D \cap known : reason[j] = r})
<1>. DEFINE popped == D \cap known
            S(r) == {j \in Jobs : final_reason[j] = r}
            T(r) == {j \in popped : reason[j] = r}
<1>1. {j \in popped : ~Finalized(j)} = popped
  OBVIOUS
<1>2. /\ in_flight' = known \ popped
      /\ final_reason' = [j \in Jobs |-> IF j \in popped THEN reason[j]
                                                         ELSE final_reason[j]]
      /\ finalized_counts' = [r \in FinalReasons |->
                                 finalized_counts[r] + Cardinality(T(r))]
  BY <1>1, Zenon DEF FinalizeAll
<1>3. "none" \notin FinalReasons
  BY DEF FinalReasons, DropReasons
<1>4. \A j \in popped : final_reason[j] = "none" /\ j \in Jobs
  BY DEF Finalized
<1>5. \A j \in Jobs : final_reason'[j] = IF j \in popped THEN reason[j]
                                                        ELSE final_reason[j]
  BY <1>2
<1>6. ASSUME NEW j \in Jobs
      PROVE  Finalized(j)' <=> Finalized(j) \/ j \in popped
  BY <1>3, <1>5 DEF Finalized
<1>7. ASSUME NEW r \in FinalReasons
      PROVE  /\ finalized_counts'[r] = finalized_counts[r] + Cardinality(T(r))
             /\ finalized_counts'[r] = Cardinality({j \in Jobs : final_reason'[j] = r})
  <2>1. finalized_counts'[r] = finalized_counts[r] + Cardinality(T(r))
    BY <1>2
  <2>2. S(r) \cap T(r) = {}
    BY <1>3, <1>4
  <2>3. {j \in Jobs : final_reason'[j] = r} = S(r) \cup T(r)
    BY <1>3, <1>4, <1>5
  <2>4. S(r) \subseteq Jobs /\ T(r) \subseteq Jobs
    OBVIOUS
  <2>5. /\ IsFiniteSet(S(r)) /\ Cardinality(S(r)) \in Nat
        /\ IsFiniteSet(T(r)) /\ Cardinality(T(r)) \in Nat
    BY <2>4, JobSetsFinite
  <2>6. finalized_counts[r] = Cardinality(S(r))
    BY DEF Counted
  <2>. HIDE DEF S, T
  <2>7. Cardinality(S(r) \cup T(r)) = Cardinality(S(r)) + Cardinality(T(r))
    <3>1. Cardinality(S(r) \cup T(r)) =
              Cardinality(S(r)) + Cardinality(T(r)) - Cardinality(S(r) \cap T(r))
      BY <2>5, FS_Union
    <3>2. Cardinality(S(r) \cap T(r)) = 0
      BY <2>2, FS_EmptySet
    <3>. QED  BY <2>5, <3>1, <3>2
  <2>. QED  BY <2>1, <2>3, <2>6, <2>7
<1>8. in_flight' = known \ D
  BY <1>2
<1>9. Counted'
  BY <1>7 DEF Counted
<1>. QED  BY <1>6, <1>7, <1>8, <1>9

(* The drops of a pruning are counted twice over, as drops and as reasons:   *)
(* under "expired" and "client_disconnected" by the same number.             *)
LEMMA DropAllSettles ==
    ASSUME TypeOK, Counted, DropsCounted, NEW D, NEW known,
           in_flight \subseteq known, known \subseteq Jobs,
           \A j \in known : ~Finalized(j),
           D \cap known \subseteq in_flight, \A j \in D : ~Live(j),
           DropAll(D, known)
    PROVE  /\ in_flight' = known \ D
           /\ \A j \in Jobs : Finalized(j)' <=> Finalized(j) \/ j \in D \cap known
           /\ Counted' /\ DropsCounted'
<1>. DEFINE reason == [j \in Jobs |-> skip_reason(j)]
            T(r) == {j \in D \cap known : reason[j] = r}
            U(r) == {j \in D : skip_reason(j) = r}
<1>1. FinalizeAll(D, reason, known)
  BY DEF DropAll
<1>2. \A j \in D \cap known : reason[j] \in FinalReasons
  BY SkipReasonType DEF FinalReasons
<1>3. U("expired") = T("expired") /\ U("client_disconnected") = T("client_disconnected")
  <2>1. \A j \in D : skip_reason(j) # "stale" => j \in in_flight
    BY DEF skip_reason
  <2>. QED  BY <2>1
<1>. HIDE DEF reason
<1>4. /\ in_flight' = known \ D
      /\ \A j \in Jobs : Finalized(j)' <=> Finalized(j) \/ j \in D \cap known
      /\ Counted'
      /\ \A r \in FinalReasons : finalized_counts'[r] =
             finalized_counts[r] + Cardinality(T(r))
  BY <1>1, <1>2, FinalizeAllSettles
<1>5. drop_counts' = [r \in DropReasons |-> drop_counts[r] + Cardinality(U(r))]
  BY DEF DropAll
<1>6. \A r : Cardinality(T(r)) \in Nat
  <2>1. \A r : T(r) \subseteq Jobs
    OBVIOUS
  <2>. QED  BY <2>1, JobSetsFinite
<1>. HIDE DEF T, U
<1>7. DropsCounted'
  <2>1. {"expired", "client_disconnected"} \subseteq DropReasons \cap FinalReasons
    BY DEF DropReasons, FinalReasons
  <2>2. \A r \in {"expired", "client_disconnected"} :
            /\ drop_counts[r] \in Nat /\ finalized_counts[r] \in Nat
            /\ drop_counts'[r] = drop_counts[r] + Cardinality(T(r))
            /\ finalized_counts'[r] = finalized_counts[r] + Cardinality(T(r))
    BY <1>3, <1>4, <1>5, <2>1 DEF TypeOK, RegistryTypeOK
  <2>. QED  BY <1>6, <2>2 DEF DropsCounted
<1>. QED  BY <1>4, <1>7

-----------------------------------------------------------------------------
\* What every step but an arrival does to the jobs in flight.
SettleStep ==
    \/ UNCHANGED <<in_flight, final_reason, finalized_counts, drop_counts>>
    \/ /\ \E j \in Jobs, r \in FinalReasons \ {"expired"} : finalize(j, r)
       /\ UNCHANGED drop_counts
    \/ \E D : (\A j \in D : ~Live(j)) /\ DropAll(D, in_flight)

\* What it does to the requests: it makes none new, and one that it answers
\* is in flight no more.
RequestStep ==
    \A k \in Jobs :
        /\ chat'[k] = "new" <=> chat[k] = "new"
        /\ chat'[k] = "answered" => chat[k] = "answered" \/ k \notin in_flight'

(* Such steps keep the invariant. *)
LEMMA SettleStepOK ==
    ASSUME SInv, SettleStep, RequestStep
    PROVE  Membership' /\ Counted' /\ DropsCounted' /\ AnsweredIsReleased'
<1>. TypeOK /\ Membership /\ Counted /\ DropsCounted /\ AnsweredIsReleased
  BY DEF SInv, IInv
<1>1. in_flight \subseteq Jobs /\ \A j \in in_flight : ~Finalized(j)
  BY DEF TypeOK, RegistryTypeOK, Membership
<1>2. \E D : /\ in_flight' = in_flight \ D
             /\ \A j \in Jobs : Finalized(j)' <=> Finalized(j) \/ j \in D \cap in_flight
             /\ Counted' /\ DropsCounted'
  <2>1. CASE UNCHANGED <<in_flight, final_reason, finalized_counts, drop_counts>>
    <3>. DEFINE D == {}
    <3>1. in_flight' = in_flight \ D
      BY <2>1
    <3>2. \A j \in Jobs : Finalized(j)' <=> Finalized(j) \/ j \in D \cap in_flight
      BY <2>1 DEF Finalized
    <3>3. Counted' /\ DropsCounted'
      BY <2>1 DEF Counted, DropsCounted
    <3>. QED  BY <3>1, <3>2, <3>3
  <2>2. CASE /\ \E j \in Jobs, r \in FinalReasons \ {"expired"} : finalize(j, r)
             /\ UNCHANGED drop_counts
    <3>1. PICK j \in Jobs, r \in FinalReasons \ {"expired"} : finalize(j, r)
      BY <2>2
    <3>. DEFINE D == {j}
                reason == [k \in Jobs |-> r]
                T(x) == {k \in D \cap in_flight : reason[k] = x}
    <3>2. FinalizeAll(D, reason, in_flight)
      BY <3>1 DEF finalize
    <3>3. \A k \in D \cap in_flight : reason[k] \in FinalReasons
      BY <1>1
    <3>4. T("expired") = {} /\ Cardinality({}) = 0
      BY <1>1, FS_EmptySet
    <3>5. Cardinality(T("client_disconnected")) \in Nat
      <4>1. T("client_disconnected") \subseteq Jobs
        BY <1>1
      <4>. QED  BY <4>1, JobSetsFinite
    <3>. HIDE DEF D, reason
    <3>6. /\ in_flight' = in_flight \ D
          /\ \A k \in Jobs : Finalized(k)' <=> Finalized(k) \/ k \in D \cap in_flight
          /\ Counted'
          /\ \A x \in FinalReasons : finalized_counts'[x] =
                 finalized_counts[x] + Cardinality(T(x))
      BY <1>1, <3>2, <3>3, FinalizeAllSettles
    <3>. HIDE DEF T
    <3>7. DropsCounted'
      <4>1. {"expired", "client_disconnected"} \subseteq DropReasons \cap FinalReasons
        BY DEF DropReasons, FinalReasons
      <4>2. \A x \in {"expired", "client_disconnected"} :
                drop_counts[x] \in Nat /\ finalized_counts[x] \in Nat
        BY <4>1 DEF TypeOK, RegistryTypeOK
      <4>. DEFINE c == Cardinality(T("client_disconnected"))
      <4>3. finalized_counts'["client_disconnected"] =
                finalized_counts["client_disconnected"] + c
        BY <3>6, <4>1
      <4>4. finalized_counts'["expired"] = finalized_counts["expired"] + 0
        BY <3>4, <3>6, <4>1
      <4>5. c \in Nat
        BY <3>5
      <4>. HIDE DEF c
      <4>. QED  BY <2>2, <4>2, <4>3, <4>4, <4>5 DEF DropsCounted
    <3>. QED  BY <3>6, <3>7
  <2>3. CASE \E D : (\A j \in D : ~Live(j)) /\ DropAll(D, in_flight)
    <3>1. PICK D : (\A j \in D : ~Live(j)) /\ DropAll(D, in_flight)
      BY <2>3
    <3>. QED  BY <1>1, <3>1, DropAllSettles
  <2>. QED  BY <2>1, <2>2, <2>3 DEF SettleStep
<1>3. Membership'
  BY <1>1, <1>2 DEF Membership, RequestStep
<1>4. AnsweredIsReleased'
  BY <1>2 DEF AnsweredIsReleased, RequestStep
<1>. QED  BY <1>2, <1>3, <1>4

(* A new job is in flight and not over.  The pruning of its queue, where it  *)
(* is not yet, does not touch it.                                            *)
LEMMA ArriveSettles ==
    ASSUME SInv, NEW j \in Jobs, Arrive(j)
    PROVE  Membership' /\ Counted' /\ DropsCounted' /\ AnsweredIsReleased'
<1>. TypeOK /\ PlacesOK /\ Membership /\ Counted /\ DropsCounted /\ AnsweredIsReleased
  BY DEF SInv, IInv
<1>. DEFINE q == queues[ModelOf[j]]
            D == Dead(q)
            known == in_flight \cup {j}
<1>1. /\ in_flight \subseteq Jobs /\ chat \in [Jobs -> ChatStates]
      /\ ModelOf[j] \in Models /\ q \in Seq(Jobs)
  BY RegistryAssumption DEF TypeOK, RegistryTypeOK, ChatTypeOK
<1>2. /\ chat[j] = "new" /\ DropAll(D, known)
      /\ \A k \in Jobs \ {j} : chat'[k] = chat[k]
      /\ chat'[j] \in {"putting", "top"}
  BY <1>1 DEF Arrive, Goto
<1>3. j \notin D
  BY <1>1, <1>2 DEF Dead, PlacesOK, QueueOK, Early
<1>4. \A k \in D : ~Live(k)
  BY DEF Dead
<1>5. j \notin in_flight /\ ~Finalized(j) /\ \A k \in in_flight : ~Finalized(k)
  BY <1>1, <1>2 DEF Membership
<1>. HIDE DEF D
<1>6. /\ in_flight' = known \ D
      /\ \A k \in Jobs : Finalized(k)' <=> Finalized(k) \/ k \in D \cap known
      /\ Counted' /\ DropsCounted'
  BY <1>1, <1>2, <1>3, <1>4, <1>5, DropAllSettles
<1>7. Membership'
  BY <1>2, <1>3, <1>5, <1>6 DEF Membership
<1>8. AnsweredIsReleased'
  BY <1>2, <1>6 DEF AnsweredIsReleased
<1>. QED  BY <1>6, <1>7, <1>8

(* A finalization with a reason of its own is such a step. *)
LEMMA FinalizeIsSettleStep ==
    ASSUME NEW j \in Jobs, NEW r \in FinalReasons \ {"expired"}, finalize(j, r),
           UNCHANGED drop_counts
    PROVE  SettleStep /\ j \notin in_flight'
BY DEF SettleStep, finalize, FinalizeAll

(* The steps of a request settle its job in one of those ways. *)
LEMMA RequestSettles ==
    ASSUME TypeOK, NEW j \in Jobs, ChatAction(j), ~Arrive(j)
    PROVE  SettleStep /\ RequestStep
<1>. DEFINE Goal == SettleStep /\ RequestStep
<1>. chat \in [Jobs -> ChatStates]
  BY DEF TypeOK, ChatTypeOK
<1>1. {"queue_rejected", "user_timeout", "client_disconnected",
       "client_stream_closed", "client_response_closed"} \subseteq FinalReasons \ {"expired"}
  BY DEF FinalReasons, DropReasons
<1>. USE DEF Goto, Conclude, registryVars, queueVars, counterVars, jobVars
<1>2. CASE Enqueue(j)
  BY <1>2 DEF Enqueue, SettleStep, RequestStep
<1>3. CASE PutTimeout(j)
  BY <1>3 DEF PutTimeout, SettleStep, RequestStep
<1>4. CASE Reject(j)
  <2>1. SettleStep /\ j \notin in_flight'
    BY <1>1, <1>4, FinalizeIsSettleStep DEF Reject
  <2>. QED  BY <1>4, <2>1 DEF Reject, RequestStep
<1>5. CASE SeeHangup(j)
  BY <1>5 DEF SeeHangup, SettleStep, RequestStep
<1>6. UserTimeout(j) /\ chat[j] \in {"top", "waiting"} => Goal
  <2>1. CASE j \in Streaming
    BY <2>1 DEF UserTimeout, SettleStep, RequestStep
  <2>2. CASE j \notin Streaming
    <3>1. UserTimeout(j) => SettleStep
      BY <1>1, <2>2, FinalizeIsSettleStep DEF UserTimeout
    <3>. QED  BY <2>2, <3>1 DEF UserTimeout, RequestStep
  <2>. QED  BY <2>1, <2>2
<1>7. CASE DeadlineAtTop(j)
  BY <1>6, <1>7 DEF DeadlineAtTop
<1>8. CASE Await(j)
  BY <1>8 DEF Await, SettleStep, RequestStep
<1>9. CASE TakeGone(j)
  <2>1. SettleStep
    BY <1>1, <1>9, FinalizeIsSettleStep DEF TakeGone
  <2>. QED  BY <1>9, <2>1 DEF TakeGone, Gets, RequestStep
<1>10. CASE TakeChunk(j)
  BY <1>10 DEF TakeChunk, Gets, SettleStep, RequestStep
<1>11. CASE TakeEnd(j)
  BY <1>11 DEF TakeEnd, Gets, SettleStep, RequestStep
<1>12. CASE GetTimeout(j)
  <2>1. CASE j \in Streaming
    BY <1>12, <2>1 DEF GetTimeout, SettleStep, RequestStep
  <2>2. CASE j \notin Streaming
    BY <1>6, <1>12, <2>2 DEF GetTimeout
  <2>. QED  BY <2>1, <2>2
<1>13. CASE WriteDone(j) \/ LastWriteDone(j)
  BY <1>13 DEF WriteDone, LastWriteDone, SettleStep, RequestStep
<1>14. CASE Cancelled(j)
  BY <1>14 DEF Cancelled, SettleStep, RequestStep
<1>15. CASE Close(j)
  <2>. DEFINE r == IF j \in Streaming THEN "client_stream_closed"
                                       ELSE "client_response_closed"
  <2>1. r \in FinalReasons \ {"expired"} /\ finalize(j, r)
    BY <1>1, <1>15 DEF Close
  <2>. HIDE DEF r
  <2>2. SettleStep /\ j \notin in_flight'
    BY <1>15, <2>1, FinalizeIsSettleStep DEF Close
  <2>. QED  BY <1>15, <2>2 DEF Close, RequestStep
<1>16. CASE WatchHangup(j) \/ WatchFails(j) \/ Expire(j) \/ HangUp(j)
  BY <1>16 DEF WatchHangup, WatchFails, Expire, HangUp, SettleStep, RequestStep, chatVars
<1>. QED  BY <1>2, <1>3, <1>4, <1>5, <1>7, <1>8, <1>9, <1>10, <1>11, <1>12,
             <1>13, <1>14, <1>15, <1>16 DEF ChatAction

(* So do those of an upload. *)
LEMMA UploadSettles ==
    ASSUME TypeOK, NEW j \in Jobs, UploadAction(j)
    PROVE  SettleStep
<1>1. UploadReasons \subseteq FinalReasons \ {"expired"}
  BY DEF UploadReasons, FinalReasons, DropReasons
<1>. USE DEF registryVars, queueVars, counterVars, jobVars
<1>2. CASE Open(j)
  BY <1>2 DEF Open, SettleStep
<1>3. CASE PutDone(j) \/ PutDrop(j)
  BY <1>3 DEF PutDone, PutDrop, SettleStep
<1>4. ASSUME NEW e \in NextEnvelopes(j), Receive(j, e) PROVE SettleStep
  BY <1>4 DEF Receive, SettleStep
<1>5. ASSUME NEW r \in UploadReasons, Conclusion(j, r) PROVE SettleStep
  BY <1>1, <1>5, FinalizeIsSettleStep DEF Conclusion
<1>6. ASSUME NEW r \in UploadReasons, Fail(j, r) PROVE SettleStep
  <2>1. CASE Conclusion(j, r)
    BY <1>5, <2>1
  <2>2. CASE UNCHANGED <<registryVars, pollVars, env, sent, lost>>
    BY <2>2 DEF SettleStep
  <2>. QED  BY <1>6, <2>1, <2>2 DEF Fail
<1>7. CASE Eof(j)
  <2>1. CASE terminal[j] = "none"
    BY <1>6, <1>7, <2>1 DEF Eof, UploadReasons
  <2>2. CASE terminal[j] # "none"
    <3>1. terminal[j] \in UploadReasons
      BY <2>2 DEF TypeOK, WorkerTypeOK
    <3>. QED  BY <1>5, <1>7, <2>2, <3>1 DEF Eof
  <2>. QED  BY <2>1, <2>2
<1>8. CASE Abort(j)
  BY <1>6, <1>8 DEF Abort, UploadReasons
<1>9. CASE FailPut(j)
  <2>1. terminal[j] \in UploadReasons
    BY <1>9 DEF FailPut, TypeOK, WorkerTypeOK
  <2>. QED  BY <1>5, <1>9, <2>1 DEF FailPut
<1>. QED  BY <1>2, <1>3, <1>4, <1>7, <1>8, <1>9 DEF UploadAction

(* And those of a poll. *)
LEMMA PollSettles ==
    ASSUME TypeOK, PlacesOK, NEW p \in Polls, PollAction(p)
    PROVE  SettleStep
<1>. USE DEF registryVars, queueVars, counterVars, jobVars
<1>1. ASSUME NEW D, NEW q, \A j \in D : ~Live(j), PruneAndGet(p, D, q)
      PROVE  SettleStep
  <2>1. \A j \in D \cup Dead(q) : ~Live(j)
    BY <1>1 DEF Dead
  <2>. QED  BY <1>1, <2>1 DEF PruneAndGet, SettleStep
<1>2. CASE PollStart(p)
  BY <1>1, <1>2 DEF PollStart
<1>3. CASE PollGet(p)
  <2>. DEFINE j == Head(queues[PollModel[p]])
              D == {j}
  <2>1. CASE Live(j)
    BY <1>3, <2>1 DEF PollGet, SettleStep
  <2>2. CASE ~Live(j)
    <3>1. (\A k \in D : ~Live(k)) /\ PruneAndGet(p, D, Tail(queues[PollModel[p]]))
      BY <1>3, <2>2 DEF PollGet
    <3>. HIDE DEF D
    <3>. QED  BY <1>1, <3>1
  <2>. QED  BY <2>1, <2>2
<1>4. CASE PollGiveUp(p)
  BY <1>4 DEF PollGiveUp, SettleStep
<1>5. CASE Assign(p)
  BY <1>5 DEF Assign, Handover, SettleStep
<1>6. CASE AcquiredForDead(p)
  <2>. DEFINE D == {hand[p]}
  <2>1. (\A k \in D : ~Live(k)) /\ PruneAndGet(p, D, queues[PollModel[p]])
    BY <1>6 DEF AcquiredForDead
  <2>. HIDE DEF D
  <2>. QED  BY <1>1, <2>1
<1>7. CASE AcquireTimeout(p)
  <2>1. hand[p] \in Jobs
    BY <1>7 DEF AcquireTimeout, PlacesOK, HandOK
  <2>2. "capacity_requeue_failed" \in FinalReasons \ {"expired"}
    BY DEF FinalReasons, DropReasons
  <2>3. CASE finalize(hand[p], "capacity_requeue_failed")
    BY <1>7, <2>1, <2>2, <2>3, FinalizeIsSettleStep DEF AcquireTimeout
  <2>4. CASE UNCHANGED <<in_flight, final_reason, finalized_counts>>
    BY <1>7, <2>4 DEF AcquireTimeout, SettleStep
  <2>. QED  BY <1>7, <2>3, <2>4 DEF AcquireTimeout
<1>. QED  BY <1>2, <1>3, <1>4, <1>5, <1>6, <1>7 DEF PollAction

-----------------------------------------------------------------------------
(* Every step of the master keeps the invariant. *)
LEMMA StepSInv == SInv /\ [Next]_vars => SInv'
<1>. DEFINE Goal == Membership' /\ Counted' /\ DropsCounted' /\ AnsweredIsReleased'
<1>1. SUFFICES ASSUME SInv, [Next]_vars PROVE Goal
  BY StepIInv DEF SInv
<1>. TypeOK /\ PlacesOK
  BY <1>1 DEF SInv, IInv
<1>2. UNCHANGED chat => RequestStep
  BY <1>1 DEF RequestStep, SInv, AnsweredIsReleased
<1>3. CASE UNCHANGED vars
  <2>1. SettleStep /\ UNCHANGED chat
    BY <1>3 DEF vars, chatVars, registryVars, queueVars, counterVars, jobVars, SettleStep
  <2>. QED  BY <1>1, <1>2, <2>1, SettleStepOK
<1>4. ASSUME NEW j \in Jobs, ChatAction(j) PROVE Goal
  BY <1>1, <1>4, ArriveSettles, RequestSettles, SettleStepOK
<1>5. ASSUME NEW p \in Polls, PollAction(p), UNCHANGED chatVars PROVE Goal
  BY <1>1, <1>2, <1>5, PollSettles, SettleStepOK DEF chatVars
<1>6. ASSUME NEW j \in Jobs, UploadAction(j), UNCHANGED chatVars PROVE Goal
  BY <1>1, <1>2, <1>6, UploadSettles, SettleStepOK DEF chatVars
<1>. QED  BY <1>1, <1>3, <1>4, <1>5, <1>6, NextActions

(* The invariant holds in every reachable state of the master. *)
THEOREM Settlement == Spec => []SInv
BY InitSInv, StepSInv, PTL DEF Spec

(* Racing finalizers (client, watcher, poll, upload; queue.py:92-106) settle *)
(* a job exactly once: it is in flight until it has a reason, and the counts *)
(* of /internal/status are those of the reasons.                             *)
THEOREM FinalizedExactlyOnce == Spec => []FinalizedOnce
<1>1. SInv => FinalizedOnce
  BY SettleSuffices
<1>. QED  BY <1>1, Settlement, PTL

(* in_flight does not leak: whatever way the handler of a request ends       *)
(* (openai.py, streaming.py), its job has been finalized.                    *)
THEOREM NothingLeaks == Spec => []AnsweredIsReleased
<1>1. SInv => AnsweredIsReleased
  BY SettleSuffices
<1>. QED  BY <1>1, Settlement, PTL

(* Only Assign changes who a job is assigned to, and only for a live job. *)
LEMMA DispatchStep ==
    ASSUME SInv, [Next]_vars
    PROVE  \A j \in Jobs : assigned_worker'[j] # assigned_worker[j] =>
               /\ j \in in_flight /\ ~Finalized(j)
               /\ j \notin user_disconnected \cup expired
<1>. TypeOK /\ Membership
  BY DEF SInv, IInv
<1>1. CASE UNCHANGED assigned_worker
  BY <1>1
<1>2. CASE UNCHANGED vars
  BY <1>1, <1>2 DEF vars, registryVars, permitVars
<1>3. ASSUME NEW k \in Jobs, ChatAction(k) PROVE UNCHANGED assigned_worker
  BY <1>3, RequestIsQuiet DEF Arrive, Enqueue, permitVars
<1>4. ASSUME NEW k \in Jobs, UploadAction(k) PROVE UNCHANGED assigned_worker
  BY <1>4, UploadIsQuiet
<1>5. ASSUME NEW p \in Polls, PollAction(p), ~Assign(p) PROVE UNCHANGED assigned_worker
  BY <1>5 DEF PollAction, PollStart, PollGet, PollGiveUp, AcquiredForDead,
              AcquireTimeout, PruneAndGet, registryVars, permitVars
<1>6. ASSUME NEW p \in Polls, Assign(p)
      PROVE  \A j \in Jobs : assigned_worker'[j] # assigned_worker[j] =>
                 /\ j \in in_flight /\ ~Finalized(j)
                 /\ j \notin user_disconnected \cup expired
  <2>1. \A j \in Jobs : assigned_worker'[j] # assigned_worker[j] => j = hand[p]
    BY <1>6 DEF Assign, Handover, TypeOK, RegistryTypeOK
  <2>2. hand[p] \in in_flight /\ hand[p] \notin user_disconnected \cup expired
    BY <1>6, SkipReasonType DEF Assign
  <2>3. ~Finalized(hand[p])
    BY <2>2 DEF Membership, TypeOK, RegistryTypeOK
  <2>. QED  BY <2>1, <2>2, <2>3
<1>. QED  BY <1>1, <1>2, <1>3, <1>4, <1>5, <1>6, NextActions

(* A worker is never handed a job whose client is known to have left, whose  *)
(* deadline has passed or that is finalized, even when that happened while   *)
(* the poll waited for its permit (internal.py:56).                          *)
THEOREM DeadIsNeverDispatched == Spec => NeverDispatchDead
<1>1. SInv /\ [Next]_vars =>
          [\A j \in Jobs : assigned_worker'[j] # assigned_worker[j] =>
              /\ j \in in_flight /\ ~Finalized(j)
              /\ j \notin user_disconnected \cup expired]_vars
  BY DispatchStep
<1>. QED  BY <1>1, Settlement, PTL DEF Spec, NeverDispatchDead

-----------------------------------------------------------------------------
(* Why a client hears what it hears. *)

Reads == {"top", "waiting", "writing"}

BrokenReasons == {"worker_upload_failed", "worker_disconnected"}

\* The reasons under which a job may end while its client still reads and
\* finds nothing more in its queue.
SilentReasons == {"client_disconnected", "expired", "capacity_requeue_failed"}

Placed(j) == Queued(j) \/ InHand(j) \/ Assigned(j)

\* What Membership says of a job that is not answered yet.
MemberOK(j) ==
    /\ j \in in_flight => ~Finalized(j) /\ chat[j] # "new"
    /\ chat[j] = "new" => ~Finalized(j)
    /\ chat[j] \notin {"new", "answered"} => j \in in_flight \/ Finalized(j)

\* The inductive invariant, for one job.  Nothing has come of an upload that is
\* not open; one that is open has settled on how to go on, and only its own end
\* finalizes a job whose client is not yet answered.
UploadOK(j) ==
    /\ up[j] = "none" => /\ terminal[j] = "none" /\ out_queue[j] = <<>>
                         /\ sent[j] = 0 /\ lost[j] = {}
    /\ up[j] # "none" => Assigned(j)
    /\ up[j] = "putting" =>
           /\ terminal[j] = "none"
           /\ env[j] \in {Done, Error} \/ (sent[j] > 0 /\ env[j] = Chunk(sent[j]))
    /\ up[j] = "failing" => terminal[j] \in BrokenReasons
    /\ terminal[j] \in BrokenReasons => up[j] \in {"failing", "ended"}
    /\ up[j] \in {"reading", "putting", "failing"} /\ reply[j] = "none" => ~Finalized(j)

\* What ends an answer is in the queue only if the upload has noted it.
EndsOK(j) ==
    \A i \in 1..Len(out_queue[j]) :
        /\ out_queue[j][i].type = "done" =>
               terminal[j] \in {"worker_done", "worker_upload_failed"}
        /\ out_queue[j][i].type = "error" => terminal[j] \in UploadReasons \ {"worker_done"}

\* The answer is decided when the handler has left its loop, not before, and no
\* job is finalized that is not yet in its queue.
ReplyOK(j) ==
    /\ reply[j] # "none" <=> chat[j] \in {"last_write", "closing", "answered"}
    /\ Finalized(j) => chat[j] \notin Early

\* Between the end of an answer and the end of its upload, the end is in the
\* queue of a client that still reads, or was dropped.
HeardOK(j) ==
    /\ terminal[j] \in {"worker_done", "worker_error"}
    /\ up[j] = "reading"
    /\ chat[j] \in Reads
    => HasEnd(out_queue[j]) \/ lost[j] \cap {Done, Error} # {}

SilentOK(j) ==
    /\ Finalized(j)
    /\ chat[j] \in Reads
    /\ ~HasEnd(out_queue[j])
    => final_reason[j] \in SilentReasons \/ lost[j] \cap {Done, Error} # {}

CauseOK(j) ==
    /\ reply[j] = "done" => terminal[j] \in {"worker_done", "worker_upload_failed"}
    /\ reply[j] = "error" => terminal[j] \in UploadReasons \ {"worker_done"}
    /\ reply[j] = "timeout" => j \in expired
    /\ reply[j] = "gone" => j \in hung_up
    /\ reply[j] = "rejected" => ~Placed(j)

JobOK(j) ==
    UploadOK(j) /\ EndsOK(j) /\ ReplyOK(j) /\ HeardOK(j) /\ SilentOK(j) /\ CauseOK(j)

CInv ==
    /\ SInv /\ NoneForgotten
    /\ user_disconnected \subseteq hung_up
    /\ \A j \in Jobs : JobOK(j)

(* It holds the properties that the runs check. *)
LEMMA CauseSuffices == CInv => NoneForgotten /\ AnswerHasCause /\ SilentOnlyIf
BY DEF CInv, JobOK, CauseOK, SilentOK, AnswerHasCause, SilentOnlyIf, Placed, Reads,
       SilentReasons

(* Between its registration and its answer a job is in flight or finalized.  *)
LEMMA MembersOK == SInv => \A j \in Jobs : MemberOK(j)
BY DEF SInv, Membership, MemberOK

(* Initially nothing has happened to any job. *)
LEMMA InitCInv == Init => CInv
<1>1. SUFFICES ASSUME Init PROVE CInv
  OBVIOUS
<1>2. SInv
  BY <1>1, InitSInv
<1>3. NoneForgotten /\ user_disconnected \subseteq hung_up
  BY <1>1 DEF Init, RegistryInit, ChatInit, NoneForgotten
<1>4. ASSUME NEW j \in Jobs PROVE JobOK(j)
  <2>1. /\ up[j] = "none" /\ terminal[j] = "none" /\ out_queue[j] = <<>>
        /\ sent[j] = 0 /\ lost[j] = {} /\ chat[j] = "new" /\ reply[j] = "none"
        /\ final_reason[j] = "none"
    BY <1>1 DEF Init, RegistryInit, ChatInit, WorkerInit
  <2>2. UploadOK(j)
    BY <2>1 DEF UploadOK, BrokenReasons
  <2>3. EndsOK(j)
    BY <2>1 DEF EndsOK
  <2>4. ReplyOK(j) /\ HeardOK(j) /\ SilentOK(j) /\ CauseOK(j)
    BY <2>1 DEF ReplyOK, HeardOK, SilentOK, CauseOK, Finalized
  <2>. QED  BY <2>2, <2>3, <2>4 DEF JobOK
<1>. QED  BY <1>2, <1>3, <1>4 DEF CInv

-----------------------------------------------------------------------------
(* What a step does to a job that it is not about: at most, it finalizes it  *)
(* while it waits in a queue or in the hands of a poll, or moves it from one *)
(* place to another.                                                         *)
SameStream(k) ==
    /\ up'[k] = up[k] /\ env'[k] = env[k] /\ terminal'[k] = terminal[k]
    /\ sent'[k] = sent[k] /\ lost'[k] = lost[k]

SameClient(k) ==
    chat'[k] = chat[k] /\ reply'[k] = reply[k] /\ got'[k] = got[k]

Bystander(k) ==
    /\ SameStream(k) /\ SameClient(k) /\ out_queue'[k] = out_queue[k]
    /\ expired \subseteq expired' /\ hung_up \subseteq hung_up'
    /\ Assigned(k) => Assigned(k)'
    /\ Placed(k)' => Placed(k)
    /\ \/ final_reason'[k] = final_reason[k]
       \/ /\ final_reason'[k] \in SilentReasons
          /\ ~Finalized(k) /\ ~Assigned(k) /\ chat[k] \notin Early

(* Such a step keeps the invariant of that job. *)
LEMMA BystanderOK ==
    ASSUME NEW k \in Jobs, JobOK(k), Bystander(k)
    PROVE  JobOK(k)'
<1>. /\ UploadOK(k) /\ EndsOK(k) /\ ReplyOK(k) /\ HeardOK(k) /\ SilentOK(k) /\ CauseOK(k)
     /\ SameStream(k) /\ SameClient(k) /\ out_queue'[k] = out_queue[k]
  BY DEF JobOK, Bystander
<1>1. UploadOK(k)'
  BY DEF UploadOK, Bystander, SameStream, SameClient, Finalized
<1>2. EndsOK(k)'
  BY DEF EndsOK, SameStream
<1>3. ReplyOK(k)'
  BY DEF ReplyOK, Bystander, SameClient, Finalized
<1>4. HeardOK(k)'
  BY DEF HeardOK, SameStream, SameClient
<1>5. SilentOK(k)'
  BY DEF SilentOK, Bystander, SameStream, SameClient, Finalized
<1>6. CauseOK(k)'
  BY DEF CauseOK, Bystander, SameStream, SameClient
<1>. QED  BY <1>1, <1>2, <1>3, <1>4, <1>5, <1>6 DEF JobOK

-----------------------------------------------------------------------------
(* Where a job is queued, without the set of its positions. *)
LEMMA QueuedAt ==
    ASSUME NEW j
    PROVE  /\ Queued(j) <=> \E m \in Models : \E i \in 1..Len(queues[m]) : queues[m][i] = j
           /\ Queued(j)' <=> \E m \in Models : \E i \in 1..Len(queues'[m]) : queues'[m][i] = j
BY DEF Queued, Positions

(* Jobs that are dropped are finalized because of their client or their      *)
(* deadline.                                                                 *)
LEMMA DropReason ==
    ASSUME TypeOK, NEW D, NEW known, DropAll(D, known), \A j \in D : ~Live(j),
           NEW k \in Jobs, k \in D \cap known => k \in in_flight
    PROVE  \/ final_reason'[k] = final_reason[k]
           \/ k \in D /\ ~Finalized(k) /\ final_reason'[k] \in SilentReasons
<1>1. final_reason'[k] = IF k \in D \cap known /\ ~Finalized(k)
                         THEN skip_reason(k) ELSE final_reason[k]
  BY DEF DropAll, FinalizeAll
<1>2. k \in D /\ k \in in_flight => skip_reason(k) \in SilentReasons
  BY DEF Live, skip_reason, SilentReasons
<1>. QED  BY <1>1, <1>2

\* What a step of a poll does to a job.
PollEffect(k) ==
    /\ Assigned(k) => Assigned(k)'
    /\ Placed(k)' => Placed(k)
    /\ Placed(k) /\ k \in in_flight' => Placed(k)' \/ k \in user_disconnected \cup expired
    /\ \/ final_reason'[k] = final_reason[k]
       \/ /\ final_reason'[k] \in SilentReasons
          /\ ~Finalized(k) /\ ~Assigned(k) /\ chat[k] \notin Early

(* The head of the poll's loop: what it takes from the queue and does not    *)
(* keep is finalized.                                                        *)
LEMMA PruneAndGetEffect ==
    ASSUME TypeOK, PlacesOK, NEW p \in Polls, NEW D, NEW q,
           Part(q, PollModel[p]), PruneAndGet(p, D, q),
           \A j \in D : ~Live(j) /\ ~Assigned(j) /\ chat[j] \notin Early,
           \A i \in 1..Len(queues[PollModel[p]]) :
               \/ queues[PollModel[p]][i] \in D
               \/ \E a \in 1..Len(q) : queues[PollModel[p]][i] = q[a],
           hand[p] \in Jobs => hand[p] \in D,
           NEW k \in Jobs
    PROVE  PollEffect(k)
<1>. DEFINE m == PollModel[p]
            B == D \cup Dead(q)
<1>1. /\ Part(q, m) /\ m \in Models /\ q \in Seq(Jobs) /\ queues \in [Models -> Seq(Jobs)]
      /\ hand \in [Polls -> Jobs \cup {NoJob}] /\ NoJob \notin Jobs
      /\ in_flight \subseteq Jobs
  BY WorkerAssumption DEF Part, TypeOK, RegistryTypeOK, WorkerTypeOK
<1>2. /\ DropAll(B, in_flight)
      /\ queues' = [queues EXCEPT ![m] = Kept(q)]
      /\ hand' = [hand EXCEPT ![p] = NoJob]
      /\ UNCHANGED assigned_worker
  BY DEF PruneAndGet
<1>3. \A a \in 1..Len(q) : /\ chat[q[a]] \notin Early /\ ~Assigned(q[a])
                           /\ \E i \in 1..Len(queues[m]) : q[a] = queues[m][i]
  <2>1. ASSUME NEW a \in 1..Len(q)
        PROVE  chat[q[a]] \notin Early /\ assigned_worker[q[a]] = NoWorker
    BY <1>1, PartPlaces
  <2>2. \A a \in 1..Len(q) : \E i \in 1..Len(queues[m]) : q[a] = queues[m][i]
    BY <1>1 DEF Part
  <2>. QED  BY <2>1, <2>2 DEF Assigned
<1>4. \A j \in B : ~Live(j) /\ ~Assigned(j) /\ chat[j] \notin Early
  BY <1>3 DEF Dead
<1>5. in_flight' = in_flight \ B
  BY <1>2 DEF DropAll, FinalizeAll
<1>6. \A i \in 1..Len(q) : q[i] \in Dead(q) \/ \E a \in 1..Len(Kept(q)) : Kept(q)[a] = q[i]
  BY <1>1, KeptFacts DEF Dead
<1>7. \A a \in 1..Len(Kept(q)) : \E i \in 1..Len(q) : Kept(q)[a] = q[i]
  <2>1. \A a \in 1..Len(Kept(q)) : \E i \in 1..Len(q) : Kept(q)[a] = q[i] /\ Live(q[i])
    BY <1>1, KeptFacts
  <2>. QED  BY <2>1
<1>8. /\ queues'[m] = Kept(q)
      /\ \A n \in Models \ {m} : queues'[n] = queues[n]
      /\ hand'[p] = NoJob /\ \A r \in Polls \ {p} : hand'[r] = hand[r]
  <2>. DEFINE t == Kept(q)
  <2>1. queues' = [queues EXCEPT ![m] = t]
    BY <1>2
  <2>. HIDE DEF t, m
  <2>2. queues'[m] = t /\ \A n \in Models \ {m} : queues'[n] = queues[n]
    BY <1>1, <2>1
  <2>3. hand'[p] = NoJob /\ \A r \in Polls \ {p} : hand'[r] = hand[r]
    BY <1>1, <1>2
  <2>. QED  BY <2>2, <2>3 DEF t
<1>. HIDE DEF B, m
<1>9. Placed(k)' => Placed(k)
  <2>1. Queued(k)' => Queued(k)
    <3>1. SUFFICES ASSUME NEW n \in Models, NEW i \in 1..Len(queues'[n]),
                          queues'[n][i] = k
                   PROVE  Queued(k)
      BY QueuedAt
    <3>2. CASE n = m
      <4>1. PICK a \in 1..Len(q) : k = q[a]
        BY <1>7, <1>8, <3>1, <3>2
      <4>2. PICK b \in 1..Len(queues[m]) : k = queues[m][b]
        BY <1>3, <4>1
      <4>. QED  BY <1>1, <4>2, QueuedAt
    <3>3. CASE n # m
      BY <1>8, <3>1, <3>3, QueuedAt
    <3>. QED  BY <3>2, <3>3
  <2>2. InHand(k)' => InHand(k)
    BY <1>1, <1>8 DEF InHand
  <2>3. Assigned(k)' => Assigned(k)
    BY <1>2 DEF Assigned
  <2>. QED  BY <2>1, <2>2, <2>3 DEF Placed
<1>10. ASSUME Placed(k), k \in in_flight' PROVE Placed(k)'
  <2>0. k \notin D /\ k \notin Dead(q)
    BY <1>5, <1>10 DEF B
  <2>1. CASE Queued(k)
    <3>0. PICK n \in Models : \E i \in 1..Len(queues[n]) : queues[n][i] = k
      BY <2>1, QueuedAt
    <3>1. PICK i \in 1..Len(queues[n]) : queues[n][i] = k
      BY <3>0
    <3>2. \E l \in Models : \E b \in 1..Len(queues'[l]) : queues'[l][b] = k
      <4>1. CASE n = m
        <5>1. PICK a \in 1..Len(q) : k = q[a]
          BY <2>0, <3>1, <4>1 DEF m
        <5>2. PICK b \in 1..Len(Kept(q)) : Kept(q)[b] = q[a]
          BY <1>6, <2>0, <5>1
        <5>. QED  BY <1>1, <1>8, <5>1, <5>2
      <4>2. CASE n # m
        BY <1>8, <3>1, <4>2
      <4>. QED  BY <4>1, <4>2
    <3>3. Queued(k)'
      BY <3>2, QueuedAt
    <3>. QED  BY <3>3 DEF Placed
  <2>2. CASE InHand(k)
    <3>1. PICK r \in Polls : hand[r] = k
      BY <2>2 DEF InHand
    <3>2. r # p
      BY <2>0, <3>1
    <3>. QED  BY <1>8, <3>1, <3>2 DEF InHand, Placed
  <2>3. CASE Assigned(k)
    BY <1>2, <2>3 DEF Assigned, Placed
  <2>. QED  BY <1>10, <2>1, <2>2, <2>3 DEF Placed
<1>11. \/ final_reason'[k] = final_reason[k]
       \/ k \in B /\ ~Finalized(k) /\ final_reason'[k] \in SilentReasons
  BY <1>2, <1>4, DropReason
<1>. QED  BY <1>2, <1>4, <1>9, <1>10, <1>11 DEF PollEffect, Assigned

(* The same of the other steps of a poll. *)
LEMMA PollEffects ==
    ASSUME TypeOK, PlacesOK, NEW p \in Polls, PollAction(p), NEW k \in Jobs
    PROVE  PollEffect(k)
<1>. DEFINE m == PollModel[p]
            h == hand[p]
<1>1. /\ m \in Models /\ queues \in [Models -> Seq(Jobs)]
      /\ hand \in [Polls -> Jobs \cup {NoJob}] /\ NoJob \notin Jobs
      /\ in_flight \subseteq Jobs /\ DOMAIN poll = Polls
      /\ assigned_worker \in [Jobs -> Workers \cup {NoWorker}]
  BY WorkerAssumption DEF TypeOK, RegistryTypeOK, WorkerTypeOK
<1>2. /\ Part(queues[m], m)
      /\ queues[m] # <<>> => Part(Tail(queues[m]), m)
  BY <1>1, PartFacts
<1>3. /\ h \in Jobs <=> poll[p] = "acquiring"
      /\ h \in Jobs => chat[h] \notin Early /\ ~Assigned(h)
  BY DEF PlacesOK, HandOK
<1>. USE DEF registryVars, queueVars, permitVars, jobVars
<1>. HIDE DEF m, h
<1>4. CASE PollStart(p)
  <2>. DEFINE q == queues[m]
  <2>1. Part(q, m) /\ PruneAndGet(p, {}, q) /\ h \notin Jobs
    BY <1>2, <1>3, <1>4 DEF PollStart, m
  <2>2. \A i \in 1..Len(queues[m]) : \E a \in 1..Len(q) : queues[m][i] = q[a]
    OBVIOUS
  <2>. HIDE DEF q
  <2>. QED  BY <2>1, <2>2, PruneAndGetEffect DEF m, h
<1>5. CASE PollGet(p) /\ ~Live(Head(queues[m]))
  <2>. DEFINE q == Tail(queues[m])
              D == {Head(queues[m])}
  <2>1. /\ queues[m] # <<>> /\ Part(q, m) /\ PruneAndGet(p, D, q) /\ h \notin Jobs
    BY <1>2, <1>3, <1>5 DEF PollGet, m
  <2>2. \A j \in D : ~Live(j) /\ ~Assigned(j) /\ chat[j] \notin Early
    <3>1. \E i \in 1..Len(queues[m]) : Head(queues[m]) = queues[m][i]
      BY <1>1, <2>1, PartFacts
    <3>2. QueueOK(m)
      BY <1>1 DEF PlacesOK
    <3>. QED  BY <1>5, <3>1, <3>2 DEF QueueOK
  <2>3. ASSUME NEW i \in 1..Len(queues[m])
        PROVE  queues[m][i] \in D \/ \E a \in 1..Len(q) : queues[m][i] = q[a]
    <3>1. CASE i = 1
      BY <1>1, <2>1, <3>1
    <3>2. CASE i # 1
      <4>1. i - 1 \in 1..Len(q) /\ q[i - 1] = queues[m][i]
        BY <1>1, <2>1, <3>2
      <4>. QED  BY <4>1
    <3>. QED  BY <3>1, <3>2
  <2>. HIDE DEF q, D
  <2>. QED  BY <2>1, <2>2, <2>3, PruneAndGetEffect DEF m, h
<1>6. CASE PollGet(p) /\ Live(Head(queues[m]))
  <2>. DEFINE j == Head(queues[m])
              t == Tail(queues[m])
  <2>1. /\ queues[m] # <<>> /\ h \notin Jobs
        /\ queues' = [queues EXCEPT ![m] = t]
        /\ hand' = [hand EXCEPT ![p] = j]
        /\ UNCHANGED <<assigned_worker, final_reason>>
    BY <1>1, <1>3, <1>6 DEF PollGet, m
  <2>2. j = queues[m][1] /\ 1 \in 1..Len(queues[m]) /\ j \in Jobs
    BY <1>1, <2>1
  <2>3. /\ \A a \in 1..Len(t) : a + 1 \in 1..Len(queues[m]) /\ t[a] = queues[m][a + 1]
        /\ \A i \in 2..Len(queues[m]) : i - 1 \in 1..Len(t) /\ t[i - 1] = queues[m][i]
    BY <1>1, <2>1
  <2>. HIDE DEF j, t
  <2>4. /\ queues'[m] = t /\ \A n \in Models \ {m} : queues'[n] = queues[n]
        /\ hand'[p] = j /\ \A r \in Polls \ {p} : hand'[r] = hand[r]
    BY <1>1, <2>1
  <2>5. Queued(k)' => Queued(k)
    <3>1. SUFFICES ASSUME NEW n \in Models, NEW i \in 1..Len(queues'[n]),
                          queues'[n][i] = k
                   PROVE  Queued(k)
      BY QueuedAt
    <3>2. CASE n # m
      BY <2>4, <3>1, <3>2, QueuedAt
    <3>3. CASE n = m
      <4>1. i + 1 \in 1..Len(queues[m]) /\ queues[m][i + 1] = k
        BY <2>3, <2>4, <3>1, <3>3
      <4>. QED  BY <1>1, <4>1, QueuedAt
    <3>. QED  BY <3>2, <3>3
  <2>6. Queued(k) => Queued(k)' \/ InHand(k)'
    <3>1. SUFFICES ASSUME NEW n \in Models, NEW i \in 1..Len(queues[n]), queues[n][i] = k
                   PROVE  Queued(k)' \/ InHand(k)'
      BY QueuedAt
    <3>2. CASE n # m
      BY <2>4, <3>1, <3>2, QueuedAt
    <3>3. CASE n = m /\ i = 1
      BY <2>2, <2>4, <3>1, <3>3 DEF InHand
    <3>4. CASE n = m /\ i # 1
      <4>1. i - 1 \in 1..Len(t) /\ t[i - 1] = k
        BY <2>3, <3>1, <3>4
      <4>. QED  BY <1>1, <2>4, <4>1, QueuedAt
    <3>. QED  BY <3>2, <3>3, <3>4
  <2>7. InHand(k)' => InHand(k) \/ Queued(k)
    BY <1>1, <2>2, <2>4, QueuedAt DEF InHand
  <2>8. InHand(k) => InHand(k)'
    BY <2>1, <2>4 DEF InHand, h
  <2>. QED  BY <2>1, <2>5, <2>6, <2>7, <2>8 DEF PollEffect, Placed, Assigned
<1>7. CASE PollGiveUp(p)
  BY <1>7 DEF PollGiveUp, PollEffect, Placed, Assigned, InHand, Queued, Positions
<1>8. CASE Assign(p)
  <2>1. /\ h \in Jobs /\ UNCHANGED <<queues, final_reason>>
        /\ assigned_worker' = [assigned_worker EXCEPT ![h] = PollWorker[p]]
        /\ hand' = [hand EXCEPT ![p] = NoJob]
    BY <1>3, <1>8 DEF Assign, Handover, h
  <2>2. PollWorker[p] # NoWorker
    BY RegistryAssumption, WorkerAssumption
  <2>3. /\ k = h => Assigned(k)'
        /\ k # h => (Assigned(k)' <=> Assigned(k))
    <3>1. /\ assigned_worker'[h] = PollWorker[p]
          /\ k # h => assigned_worker'[k] = assigned_worker[k]
      BY <1>1, <2>1
    <3>. QED  BY <2>2, <3>1 DEF Assigned
  <2>4. Queued(k)' <=> Queued(k)
    BY <2>1 DEF Queued, Positions
  <2>5. /\ InHand(k)' => InHand(k)
        /\ InHand(k) => InHand(k)' \/ k = h
        /\ k = h => InHand(k)
    BY <1>1, <2>1 DEF InHand, h
  <2>. QED  BY <2>1, <2>3, <2>4, <2>5 DEF PollEffect, Placed
<1>9. CASE AcquiredForDead(p)
  <2>. DEFINE q == queues[m]
              D == {h}
  <2>1. Part(q, m) /\ PruneAndGet(p, D, q)
    BY <1>2, <1>9 DEF AcquiredForDead, m, h
  <2>2. \A j \in D : ~Live(j) /\ ~Assigned(j) /\ chat[j] \notin Early
    BY <1>3, <1>9 DEF AcquiredForDead, h
  <2>3. /\ \A i \in 1..Len(queues[m]) : \E a \in 1..Len(q) : queues[m][i] = q[a]
        /\ h \in D
    OBVIOUS
  <2>. HIDE DEF q, D
  <2>. QED  BY <2>1, <2>2, <2>3, PruneAndGetEffect DEF m, h
<1>10. CASE AcquireTimeout(p)
  <2>1. /\ h \in Jobs /\ chat[h] \notin Early /\ ~Assigned(h)
        /\ hand' = [hand EXCEPT ![p] = NoJob]
        /\ UNCHANGED assigned_worker
    BY <1>3, <1>10 DEF AcquireTimeout, h
  <2>2. /\ InHand(k)' => InHand(k)
        /\ InHand(k) => InHand(k)' \/ k = h
        /\ k = h => InHand(k)
        /\ Assigned(k)' <=> Assigned(k)
    BY <1>1, <2>1 DEF InHand, Assigned, h
  <2>3. CASE ~Live(h)
    <3>1. UNCHANGED <<queues, in_flight, final_reason>>
      BY <1>10, <2>3 DEF AcquireTimeout, h
    <3>2. h \in in_flight => h \in user_disconnected \cup expired
      BY <2>3 DEF Live, skip_reason
    <3>3. Queued(k)' <=> Queued(k)
      BY <3>1 DEF Queued, Positions
    <3>. QED  BY <2>1, <2>2, <3>1, <3>2, <3>3 DEF PollEffect, Placed
  <2>4. CASE Live(h) /\ QueueFull(queues[m])
    <3>1. finalize(h, "capacity_requeue_failed") /\ UNCHANGED queues
      BY <1>10, <2>4 DEF AcquireTimeout, h, m
    <3>2. /\ in_flight' = in_flight \ {h}
          /\ final_reason'[k] = IF k = h /\ k \in in_flight /\ ~Finalized(k)
                                THEN "capacity_requeue_failed" ELSE final_reason[k]
      BY <3>1 DEF finalize, FinalizeAll
    <3>3. Queued(k)' <=> Queued(k)
      BY <3>1 DEF Queued, Positions
    <3>4. \/ final_reason'[k] = final_reason[k]
          \/ /\ final_reason'[k] \in SilentReasons
             /\ ~Finalized(k) /\ ~Assigned(k) /\ chat[k] \notin Early
      BY <2>1, <3>2 DEF SilentReasons
    <3>. QED  BY <2>2, <3>2, <3>3, <3>4 DEF PollEffect, Placed
  <2>5. CASE Live(h) /\ ~QueueFull(queues[m])
    <3>. DEFINE t == Append(queues[m], h)
    <3>1. queues' = [queues EXCEPT ![m] = t] /\ UNCHANGED final_reason
      BY <1>10, <2>5 DEF AcquireTimeout, h, m
    <3>2. /\ Len(t) \in 1..Len(t) /\ t[Len(t)] = h
          /\ \A i \in 1..Len(queues[m]) : i \in 1..Len(t) /\ t[i] = queues[m][i]
          /\ \A a \in 1..Len(t) : a \in 1..Len(queues[m]) \/ t[a] = h
      BY <1>1, <2>1
    <3>. HIDE DEF t
    <3>3. queues'[m] = t /\ \A n \in Models \ {m} : queues'[n] = queues[n]
      BY <1>1, <3>1
    <3>4. k = h => Queued(k)'
      BY <1>1, <3>2, <3>3, QueuedAt
    <3>5. ASSUME NEW n \in Models
          PROVE  /\ \A i \in 1..Len(queues[n]) : queues[n][i] = k =>
                        \E a \in 1..Len(queues'[n]) : queues'[n][a] = k
                 /\ \A a \in 1..Len(queues'[n]) : queues'[n][a] = k =>
                        k = h \/ \E i \in 1..Len(queues[n]) : queues[n][i] = k
      <4>1. CASE n # m
        BY <3>3, <4>1
      <4>2. CASE n = m
        <5>1. \A i \in 1..Len(queues[m]) : queues[m][i] = k =>
                  \E a \in 1..Len(t) : t[a] = k
          BY <3>2
        <5>2. \A a \in 1..Len(t) : t[a] = k =>
                  k = h \/ \E i \in 1..Len(queues[m]) : queues[m][i] = k
          BY <3>2
        <5>. QED  BY <3>3, <4>2, <5>1, <5>2
      <4>. QED  BY <4>1, <4>2
    <3>6. (Queued(k) => Queued(k)') /\ (Queued(k)' => Queued(k) \/ k = h)
      BY <3>5, QueuedAt
    <3>. QED  BY <2>2, <3>1, <3>4, <3>6 DEF PollEffect, Placed
  <2>. QED  BY <2>3, <2>4, <2>5
<1>. QED  BY <1>4, <1>5, <1>6, <1>7, <1>8, <1>9, <1>10 DEF PollAction

(* To any job the steps of a poll are those of a bystander. *)
LEMMA PollsStandBy ==
    ASSUME TypeOK, PlacesOK, NEW p \in Polls, PollAction(p), UNCHANGED chatVars,
           NEW k \in Jobs
    PROVE  Bystander(k)
<1>1. UNCHANGED <<uploadVars, out_queue, user_disconnected, expired>>
  BY DEF PollAction, PollStart, PollGet, PollGiveUp, Assign, Handover, AcquiredForDead,
         AcquireTimeout, PruneAndGet, registryVars, jobVars
<1>2. PollEffect(k)
  BY PollEffects
<1>. QED  BY <1>1, <1>2 DEF Bystander, PollEffect, SameStream, SameClient, uploadVars, chatVars

-----------------------------------------------------------------------------
(* What a step of its upload does to a job, one field at a time. *)
SameEnvelopes(j) == env'[j] = env[j] /\ sent'[j] = sent[j] /\ lost'[j] = lost[j]
SameReason(j)    == final_reason'[j] = final_reason[j]
After(j, e)      == IF Terminal(e) = "none" THEN terminal[j] ELSE Terminal(e)
Counts(j, e)     == sent'[j] = IF e.type = "chunk" THEN sent[j] + 1 ELSE sent[j]

\* A break is noted over what was noted before; a missing end only where
\* nothing was.
Broken(j) ==
    \/ terminal'[j] = "worker_upload_failed"
    \/ terminal[j] = "none" /\ terminal'[j] = "worker_disconnected"

Opens(j) ==
    /\ up[j] = "none" /\ Assigned(j)
    /\ up'[j] \in {"reading", "ended"}
    /\ up'[j] = "reading" => j \in in_flight
    /\ SameEnvelopes(j) /\ SameReason(j)
    /\ terminal'[j] = terminal[j] /\ out_queue'[j] = out_queue[j]

Ignores(j) ==
    /\ up[j] = "reading" /\ terminal[j] = "none" /\ Finalized(j)
    /\ up'[j] = up[j] /\ env'[j] = env[j] /\ lost'[j] = lost[j]
    /\ sent'[j] \in {sent[j], sent[j] + 1}
    /\ SameReason(j)
    /\ terminal'[j] = terminal[j] /\ out_queue'[j] = out_queue[j]

Blocks(j, e) ==
    /\ up[j] = "reading" /\ ~Finalized(j) /\ e \in NextEnvelopes(j)
    /\ up'[j] = "putting" /\ env'[j] = e /\ Counts(j, e)
    /\ lost'[j] = lost[j] /\ SameReason(j)
    /\ terminal'[j] = terminal[j] /\ out_queue'[j] = out_queue[j]

Accepts(j, e) ==
    /\ \/ up[j] = "reading" /\ ~Finalized(j) /\ e \in NextEnvelopes(j) /\ Counts(j, e)
       \/ up[j] = "putting" /\ e = env[j] /\ sent'[j] = sent[j]
    /\ up'[j] = "reading" /\ env'[j] = env[j] /\ lost'[j] = lost[j] /\ SameReason(j)
    /\ terminal'[j] = After(j, e) /\ out_queue'[j] = Append(out_queue[j], e)

Drops(j) ==
    /\ up[j] = "putting"
    /\ up'[j] = "reading" /\ env'[j] = env[j] /\ sent'[j] = sent[j]
    /\ lost'[j] = lost[j] \cup {env[j]} /\ SameReason(j)
    /\ terminal'[j] = After(j, env[j]) /\ out_queue'[j] = out_queue[j]

Breaks(j) ==
    /\ up[j] = "reading" /\ ~Finalized(j)
    /\ up'[j] = "failing" /\ Broken(j)
    /\ SameEnvelopes(j) /\ SameReason(j) /\ out_queue'[j] = out_queue[j]

\* The upload ends with what it has told the client, unheard, or by telling it.
Ends(j) ==
    /\ up'[j] = "ended" /\ SameEnvelopes(j)
    /\ \/ /\ up[j] = "reading" /\ terminal[j] # "none"
          /\ terminal'[j] = terminal[j] /\ out_queue'[j] = out_queue[j]
       \/ /\ up[j] = "reading" /\ Finalized(j) /\ SameReason(j)
          /\ Broken(j) /\ out_queue'[j] = out_queue[j]
       \/ /\ \/ up[j] = "reading" /\ Broken(j)
             \/ up[j] = "failing" /\ terminal'[j] = terminal[j]
          /\ out_queue'[j] = Append(out_queue[j], Error)

UploadShape(j) ==
    \/ Opens(j) \/ Ignores(j) \/ Drops(j) \/ Breaks(j) \/ Ends(j)
    \/ \E e : Blocks(j, e) \/ Accepts(j, e)

(* Finalizing one job leaves the others as they are, and one that is         *)
(* finalized already.                                                        *)
LEMMA FinalizeOne ==
    ASSUME TypeOK, NEW j \in Jobs, NEW r, finalize(j, r), NEW k \in Jobs
    PROVE  k # j \/ Finalized(k) => final_reason'[k] = final_reason[k]
BY DEF finalize, FinalizeAll

(* Whatever is done to a job that has been finalized, it stays so. *)
LEMMA FinalizedStays ==
    ASSUME TypeOK, PlacesOK, NEW j \in Jobs, ChatAction(j) \/ UploadAction(j)
    PROVE  Finalized(j) => Finalized(j)'
<1>1. ASSUME NEW D, NEW r, NEW known, FinalizeAll(D, r, known)
      PROVE  Finalized(j) => Finalized(j)'
  BY <1>1 DEF FinalizeAll, Finalized
<1>2. CASE Arrive(j)
  BY <1>1, <1>2 DEF Arrive, DropAll
<1>3. CASE ~Arrive(j)
  <2>1. SettleStep
    BY <1>3, RequestSettles, UploadSettles
  <2>. QED  BY <1>1, <2>1 DEF SettleStep, DropAll, finalize, Finalized
<1>. QED  BY <1>2, <1>3

(* The steps of an upload have these shapes and change nothing else of any   *)
(* job but the late uploads' count and permits.                              *)
LEMMA UploadShapes ==
    ASSUME TypeOK, NEW j \in Jobs, UploadOK(j), UploadAction(j)
    PROVE  /\ UploadShape(j)
           /\ UNCHANGED <<user_disconnected, expired>>
           /\ \A k \in Jobs \ {j} :
                  SameStream(k) /\ SameReason(k) /\ out_queue'[k] = out_queue[k]
<1>. DEFINE Frame == /\ UNCHANGED <<user_disconnected, expired>>
                     /\ \A k \in Jobs \ {j} :
                          SameStream(k) /\ SameReason(k) /\ out_queue'[k] = out_queue[k]
            Goal  == UploadShape(j) /\ Frame
<1>1. /\ DOMAIN up = Jobs /\ DOMAIN env = Jobs /\ DOMAIN terminal = Jobs
      /\ DOMAIN sent = Jobs /\ DOMAIN lost = Jobs /\ DOMAIN out_queue = Jobs
      /\ DOMAIN final_reason = Jobs
  BY DEF TypeOK, WorkerTypeOK, RegistryTypeOK
<1>2. ASSUME NEW e
      PROVE  Noted(j, e)[j] = After(j, e) /\ \A k \in Jobs \ {j} : Noted(j, e)[k] = terminal[k]
  BY <1>1 DEF Noted, After
<1>. USE DEF registryVars, queueVars, jobVars, pollVars
<1>3. CASE Open(j)
  <2>1. Opens(j)
    BY <1>1, <1>3 DEF Open, Opens, SameEnvelopes, SameReason, Assigned
  <2>. QED  BY <1>1, <1>3, <2>1 DEF Open, UploadShape, SameStream, SameReason
<1>4. ASSUME NEW e \in NextEnvelopes(j), Receive(j, e) PROVE Goal
  <2>1. Counts(j, e) /\ \A k \in Jobs \ {j} : sent'[k] = sent[k]
    BY <1>1, <1>4 DEF Receive, Counts
  <2>2. terminal[j] = "none" /\ UNCHANGED <<final_reason, lost, user_disconnected, expired>>
    BY <1>4 DEF Receive, NextEnvelopes
  <2>3. CASE Finalized(j)
    <3>1. UNCHANGED <<out_queue, up, env, terminal>> /\ up[j] = "reading"
      BY <1>4, <2>3 DEF Receive
    <3>2. Ignores(j)
      BY <2>1, <2>2, <2>3, <3>1 DEF Ignores, SameReason, Counts
    <3>. QED  BY <2>1, <2>2, <3>1, <3>2 DEF UploadShape, SameStream, SameReason
  <2>4. CASE ~Finalized(j) /\ OutFull(j)
    <3>1. /\ up[j] = "reading" /\ UNCHANGED <<out_queue, terminal>>
          /\ up' = [up EXCEPT ![j] = "putting"] /\ env' = [env EXCEPT ![j] = e]
      BY <1>4, <2>4 DEF Receive
    <3>2. Blocks(j, e)
      BY <1>1, <1>4, <2>1, <2>2, <2>4, <3>1 DEF Blocks, SameReason
    <3>. QED  BY <1>1, <2>1, <2>2, <3>1, <3>2 DEF UploadShape, SameStream, SameReason
  <2>5. CASE ~Finalized(j) /\ ~OutFull(j)
    <3>1. /\ up[j] = "reading" /\ UNCHANGED <<up, env>> /\ terminal' = Noted(j, e)
          /\ out_queue' = [out_queue EXCEPT ![j] = Append(@, e)]
      BY <1>4, <2>5 DEF Receive
    <3>2. Accepts(j, e)
      BY <1>1, <1>2, <1>4, <2>1, <2>2, <2>5, <3>1 DEF Accepts, SameReason
    <3>. QED  BY <1>1, <1>2, <2>1, <2>2, <3>1, <3>2 DEF UploadShape, SameStream, SameReason
  <2>. QED  BY <2>3, <2>4, <2>5
<1>5. CASE PutDone(j)
  <2>. DEFINE e == env[j]
  <2>1. /\ up[j] = "putting" /\ up' = [up EXCEPT ![j] = "reading"] /\ terminal' = Noted(j, e)
        /\ out_queue' = [out_queue EXCEPT ![j] = Append(@, e)]
        /\ UNCHANGED <<env, sent, lost, final_reason, user_disconnected, expired>>
    BY <1>5 DEF PutDone
  <2>. HIDE DEF e
  <2>2. Accepts(j, e)
    <3>1. e = env[j]
      BY DEF e
    <3>. QED  BY <1>1, <1>2, <2>1, <3>1 DEF Accepts, SameReason
  <2>. QED  BY <1>1, <1>2, <2>1, <2>2 DEF UploadShape, SameStream, SameReason
<1>6. CASE PutDrop(j)
  <2>1. /\ up[j] = "putting" /\ up' = [up EXCEPT ![j] = "reading"]
        /\ terminal' = Noted(j, env[j])
        /\ lost' = [lost EXCEPT ![j] = @ \cup {env[j]}]
        /\ UNCHANGED <<env, sent, out_queue, final_reason, user_disconnected, expired>>
    BY <1>6 DEF PutDrop
  <2>2. Drops(j)
    BY <1>1, <1>2, <2>1 DEF Drops, SameReason
  <2>. QED  BY <1>1, <1>2, <2>1, <2>2 DEF UploadShape, SameStream, SameReason
<1>7. ASSUME NEW r, Conclusion(j, r)
      PROVE  /\ up'[j] = "ended" /\ SameEnvelopes(j)
             /\ Finalized(j) => SameReason(j)
             /\ UNCHANGED <<user_disconnected, expired>>
             /\ \A k \in Jobs \ {j} : /\ up'[k] = up[k] /\ env'[k] = env[k]
                                      /\ sent'[k] = sent[k] /\ lost'[k] = lost[k]
                                      /\ SameReason(k)
  <2>1. \A k \in Jobs : k # j \/ Finalized(k) => final_reason'[k] = final_reason[k]
    BY <1>7, FinalizeOne DEF Conclusion
  <2>. QED  BY <1>1, <1>7, <2>1 DEF Conclusion, SameEnvelopes, SameReason
<1>8. ASSUME NEW r, Fail(j, r), up[j] = "reading",
             \/ r = "worker_upload_failed"
             \/ terminal[j] = "none" /\ r = "worker_disconnected"
      PROVE  Goal
  <2>1. /\ terminal'[j] = r /\ \A k \in Jobs \ {j} : terminal'[k] = terminal[k]
        /\ Broken(j)
    BY <1>1, <1>8 DEF Fail, Broken
  <2>2. CASE Finalized(j)
    <3>1. Conclusion(j, r) /\ UNCHANGED out_queue
      BY <1>8, <2>2 DEF Fail
    <3>2. Ends(j)
      BY <1>7, <1>8, <2>1, <2>2, <3>1 DEF Ends
    <3>. QED  BY <1>7, <2>1, <3>1, <3>2 DEF UploadShape, SameStream
  <2>3. CASE ~Finalized(j) /\ OutFull(j)
    <3>1. /\ up' = [up EXCEPT ![j] = "failing"]
          /\ UNCHANGED <<out_queue, final_reason, user_disconnected, expired, env, sent, lost>>
      BY <1>8, <2>3 DEF Fail
    <3>2. Breaks(j)
      BY <1>1, <1>8, <2>1, <2>3, <3>1 DEF Breaks, SameEnvelopes, SameReason
    <3>. QED  BY <1>1, <2>1, <3>1, <3>2 DEF UploadShape, SameStream, SameReason
  <2>4. CASE ~Finalized(j) /\ ~OutFull(j)
    <3>1. Conclusion(j, r) /\ out_queue' = [out_queue EXCEPT ![j] = Append(@, Error)]
      BY <1>8, <2>4 DEF Fail
    <3>2. Ends(j)
      BY <1>1, <1>7, <1>8, <2>1, <3>1 DEF Ends
    <3>. QED  BY <1>1, <1>7, <2>1, <3>1, <3>2 DEF UploadShape, SameStream
  <2>. QED  BY <2>2, <2>3, <2>4
<1>9. CASE Eof(j)
  <2>1. CASE terminal[j] = "none"
    BY <1>8, <1>9, <2>1 DEF Eof
  <2>2. CASE terminal[j] # "none"
    <3>1. Conclusion(j, terminal[j]) /\ UNCHANGED <<out_queue, terminal>> /\ up[j] = "reading"
      BY <1>9, <2>2 DEF Eof
    <3>2. Ends(j)
      BY <1>7, <2>2, <3>1 DEF Ends
    <3>. QED  BY <1>7, <3>1, <3>2 DEF UploadShape, SameStream
  <2>. QED  BY <2>1, <2>2
<1>10. CASE Abort(j)
  BY <1>8, <1>10 DEF Abort
<1>11. CASE FailPut(j)
  <2>1. /\ Conclusion(j, terminal[j]) /\ UNCHANGED terminal /\ up[j] = "failing"
        /\ out_queue' = [out_queue EXCEPT ![j] = Append(@, Error)]
    BY <1>11 DEF FailPut
  <2>3. Ends(j)
    BY <1>1, <1>7, <2>1 DEF Ends
  <2>. QED  BY <1>1, <1>7, <2>1, <2>3 DEF UploadShape, SameStream
<1>. QED  BY <1>3, <1>4, <1>5, <1>6, <1>9, <1>10, <1>11 DEF UploadAction

(* An envelope at the end of a queue. *)
LEMMA AppendEnvelope ==
    ASSUME NEW s \in Seq(Envelopes), NEW e \in Envelopes
    PROVE  /\ \A i \in 1..Len(Append(s, e)) :
                  (i \in 1..Len(s) /\ Append(s, e)[i] = s[i]) \/ Append(s, e)[i] = e
           /\ HasEnd(Append(s, e)) <=> HasEnd(s) \/ e.type \in {"done", "error"}
<1>. DEFINE t == Append(s, e)
<1>1. /\ \A i \in 1..Len(t) : (i \in 1..Len(s) /\ t[i] = s[i]) \/ t[i] = e
      /\ \A i \in 1..Len(s) : i \in 1..Len(t) /\ t[i] = s[i]
      /\ Len(t) \in 1..Len(t) /\ t[Len(t)] = e
  OBVIOUS
<1>. HIDE DEF t
<1>2. HasEnd(t) <=> HasEnd(s) \/ e.type \in {"done", "error"}
  BY <1>1 DEF HasEnd
<1>. QED  BY <1>1, <1>2 DEF t

(* The envelopes a worker may send, and the one that waits, are envelopes. *)
LEMMA EnvelopeKinds ==
    ASSUME TypeOK, NEW j \in Jobs
    PROVE  /\ NextEnvelopes(j) \subseteq Envelopes
           /\ env[j] \in Envelopes /\ Error \in Envelopes
           /\ \A e \in NextEnvelopes(j) :
                  /\ terminal[j] = "none"
                  /\ e \in {Done, Error} \/ e = Chunk(sent[j] + 1)
           /\ \A e \in Envelopes :
                  \/ e.type = "chunk" /\ Terminal(e) = "none"
                  \/ e = Done /\ Terminal(e) = "worker_done"
                  \/ e = Error /\ Terminal(e) = "worker_error"
                  \/ e.n # 0 /\ e.type \in {"done", "error"}
<1>1. sent[j] \in 0..MaxChunks /\ MaxChunks \in Nat /\ env[j] \in Envelopes
  BY RegistryAssumption DEF TypeOK, WorkerTypeOK
<1>2. Error \in Envelopes /\ Done \in Envelopes
  BY <1>1 DEF Error, Done, Envelopes
<1>3. \A n \in 1..MaxChunks : Chunk(n) \in Envelopes
  BY <1>1 DEF Chunk, Envelopes
<1>4. ASSUME NEW e \in NextEnvelopes(j)
      PROVE  /\ terminal[j] = "none" /\ e \in Envelopes
             /\ e \in {Done, Error} \/ e = Chunk(sent[j] + 1)
  BY <1>2, <1>3 DEF NextEnvelopes
<1>5. ASSUME NEW e \in Envelopes
      PROVE  \/ e.type = "chunk" /\ Terminal(e) = "none"
             \/ e = Done /\ Terminal(e) = "worker_done"
             \/ e = Error /\ Terminal(e) = "worker_error"
             \/ e.n # 0 /\ e.type \in {"done", "error"}
  BY DEF Envelopes, Done, Error, Terminal
<1>. QED  BY <1>1, <1>2, <1>4, <1>5

(* The steps of its upload keep the invariant of a job. *)
LEMMA UploadKeepsJob ==
    ASSUME TypeOK, PlacesOK, NEW j \in Jobs, MemberOK(j), JobOK(j), UploadAction(j),
           UNCHANGED chatVars
    PROVE  JobOK(j)'
<1>. /\ UploadOK(j) /\ EndsOK(j) /\ ReplyOK(j) /\ HeardOK(j) /\ SilentOK(j) /\ CauseOK(j)
  BY DEF JobOK
<1>1. /\ UploadShape(j) /\ UNCHANGED <<chat, reply, hung_up, expired>>
      /\ UNCHANGED <<queues, assigned_worker, hand>>
  BY UploadShapes, UploadIsQuiet DEF chatVars
<1>2. /\ up[j] \in {"none", "reading", "putting", "failing", "ended"}
      /\ terminal[j] \in UploadReasons \cup {"none"}
      /\ out_queue[j] \in Seq(Envelopes)
  BY DEF TypeOK, WorkerTypeOK, RegistryTypeOK
<1>3. Assigned(j) /\ chat[j] \notin Early
  <2>1. Assigned(j)
    BY <1>1 DEF UploadShape, Opens, Ignores, Blocks, Accepts, Drops, Breaks, Ends, UploadOK
  <2>. QED  BY <2>1 DEF PlacesOK
<1>4. (Assigned(j)' <=> Assigned(j)) /\ (Placed(j)' <=> Placed(j))
  BY <1>1 DEF Placed, Queued, InHand, Assigned, Positions
<1>5. CASE Opens(j)
  <2>1. j \in in_flight => ~Finalized(j)
    BY DEF MemberOK
  <2>2. /\ terminal'[j] = "none" /\ out_queue'[j] = <<>> /\ up'[j] \in {"reading", "ended"}
        /\ lost'[j] = lost[j] /\ final_reason'[j] = final_reason[j]
        /\ up'[j] = "reading" => ~Finalized(j)
        /\ terminal[j] = "none" /\ out_queue[j] = <<>>
    BY <1>5, <2>1 DEF Opens, UploadOK, SameEnvelopes, SameReason
  <2>3. UploadOK(j)'
    BY <1>3, <1>4, <2>2 DEF UploadOK, BrokenReasons, Finalized
  <2>4. EndsOK(j)' /\ HeardOK(j)'
    BY <2>2 DEF EndsOK, HeardOK
  <2>5. ReplyOK(j)' /\ SilentOK(j)' /\ CauseOK(j)'
    BY <1>1, <1>4, <2>2 DEF ReplyOK, SilentOK, CauseOK, Finalized
  <2>. QED  BY <2>3, <2>4, <2>5 DEF JobOK
<1>6. CASE Ignores(j)
  <2>1. UploadOK(j)'
    BY <1>1, <1>4, <1>6 DEF Ignores, UploadOK, SameReason, Finalized
  <2>2. EndsOK(j)' /\ HeardOK(j)'
    BY <1>1, <1>6 DEF Ignores, EndsOK, HeardOK
  <2>3. ReplyOK(j)' /\ SilentOK(j)' /\ CauseOK(j)'
    BY <1>1, <1>4, <1>6 DEF Ignores, SameReason, ReplyOK, SilentOK, CauseOK, Finalized
  <2>. QED  BY <2>1, <2>2, <2>3 DEF JobOK
<1>7. ASSUME NEW e, Blocks(j, e) PROVE JobOK(j)'
  <2>1. e \in {Done, Error} \/ (e = Chunk(sent[j] + 1) /\ sent'[j] = sent[j] + 1)
    BY <1>7, EnvelopeKinds DEF Blocks, Counts, Chunk
  <2>2. terminal[j] = "none" /\ sent[j] \in Nat
    BY <1>7, EnvelopeKinds DEF Blocks, TypeOK, WorkerTypeOK
  <2>3. UploadOK(j)'
    BY <1>1, <1>4, <1>7, <2>1, <2>2 DEF Blocks, UploadOK, SameReason, Finalized, BrokenReasons
  <2>4. EndsOK(j)' /\ HeardOK(j)'
    BY <1>1, <1>7 DEF Blocks, EndsOK, HeardOK
  <2>5. ReplyOK(j)' /\ SilentOK(j)' /\ CauseOK(j)'
    BY <1>1, <1>4, <1>7 DEF Blocks, SameReason, ReplyOK, SilentOK, CauseOK, Finalized
  <2>. QED  BY <2>3, <2>4, <2>5 DEF JobOK
<1>8. \A e : After(j, e) \in UploadReasons \cup {"none"}
             /\ (After(j, e) \in BrokenReasons => terminal[j] \in BrokenReasons)
  BY <1>2 DEF After, Terminal, UploadReasons, BrokenReasons
<1>9. ASSUME NEW e, Accepts(j, e) PROVE JobOK(j)'
  <2>1. e \in Envelopes /\ terminal[j] = "none"
    BY <1>9, EnvelopeKinds DEF Accepts, UploadOK
  <2>2. /\ e.type = "done" => terminal'[j] = "worker_done"
        /\ e.type = "error" => terminal'[j] = "worker_error"
        /\ terminal'[j] \notin BrokenReasons
        /\ terminal'[j] \in {"worker_done", "worker_error"} => e.type \in {"done", "error"}
    BY <1>9, <2>1 DEF Accepts, After, Terminal, BrokenReasons
  <2>3. /\ up'[j] = "reading" /\ out_queue'[j] = Append(out_queue[j], e)
        /\ lost'[j] = lost[j] /\ final_reason'[j] = final_reason[j]
        /\ up[j] \in {"reading", "putting"}
    BY <1>9 DEF Accepts, SameReason
  <2>4. UploadOK(j)'
    BY <1>1, <1>3, <1>4, <2>2, <2>3 DEF UploadOK, Finalized
  <2>5. EndsOK(j)'
    <3>1. ASSUME NEW i \in 1..Len(out_queue'[j])
          PROVE  \/ i \in 1..Len(out_queue[j]) /\ out_queue'[j][i] = out_queue[j][i]
                 \/ out_queue'[j][i] = e
      BY <1>2, <2>1, <2>3, AppendEnvelope
    <3>2. \A i \in 1..Len(out_queue[j]) : out_queue[j][i].type \notin {"done", "error"}
      BY <2>1 DEF EndsOK, UploadReasons
    <3>. QED  BY <2>2, <3>1, <3>2 DEF EndsOK, UploadReasons
  <2>6. HasEnd(out_queue'[j]) <=> HasEnd(out_queue[j]) \/ e.type \in {"done", "error"}
    BY <1>2, <2>1, <2>3, AppendEnvelope
  <2>7. HeardOK(j)' /\ SilentOK(j)'
    BY <1>1, <2>2, <2>3, <2>6 DEF HeardOK, SilentOK, Finalized
  <2>8. ReplyOK(j)' /\ CauseOK(j)'
    BY <1>1, <1>4, <2>1, <2>3 DEF ReplyOK, CauseOK, Finalized, UploadReasons
  <2>. QED  BY <2>4, <2>5, <2>7, <2>8 DEF JobOK
<1>10. CASE Drops(j)
  <2>1. /\ terminal[j] = "none" /\ up[j] = "putting"
        /\ env[j] \in {Done, Error} \/ env[j] = Chunk(sent[j])
    BY <1>10 DEF Drops, UploadOK
  <2>2. /\ terminal'[j] \notin BrokenReasons
        /\ terminal'[j] \in {"worker_done", "worker_error"} => env[j] \in {Done, Error}
    BY <1>10, <2>1 DEF Drops, After, Terminal, BrokenReasons, Chunk
  <2>3. /\ up'[j] = "reading" /\ out_queue'[j] = out_queue[j]
        /\ lost'[j] = lost[j] \cup {env[j]} /\ final_reason'[j] = final_reason[j]
    BY <1>10 DEF Drops, SameReason
  <2>4. UploadOK(j)'
    BY <1>1, <1>3, <1>4, <2>1, <2>2, <2>3 DEF UploadOK, Finalized
  <2>5. EndsOK(j)'
    BY <2>1, <2>3 DEF EndsOK, UploadReasons
  <2>6. HeardOK(j)' /\ SilentOK(j)'
    BY <1>1, <2>2, <2>3 DEF HeardOK, SilentOK, Finalized
  <2>7. ReplyOK(j)' /\ CauseOK(j)'
    BY <1>1, <1>4, <2>1, <2>3 DEF ReplyOK, CauseOK, Finalized, UploadReasons
  <2>. QED  BY <2>4, <2>5, <2>6, <2>7 DEF JobOK
<1>11. Broken(j) =>
           /\ terminal'[j] \in BrokenReasons
           /\ BrokenReasons \subseteq UploadReasons \ {"worker_done"}
           /\ terminal[j] \in {"worker_done", "worker_upload_failed"}
                  => terminal'[j] \in {"worker_done", "worker_upload_failed"}
  BY DEF Broken, BrokenReasons, UploadReasons
<1>12. CASE Breaks(j)
  <2>1. /\ up[j] = "reading" /\ ~Finalized(j) /\ up'[j] = "failing" /\ Broken(j)
        /\ out_queue'[j] = out_queue[j] /\ lost'[j] = lost[j]
        /\ final_reason'[j] = final_reason[j]
    BY <1>12 DEF Breaks, SameEnvelopes, SameReason
  <2>2. UploadOK(j)'
    BY <1>3, <1>4, <1>11, <2>1 DEF UploadOK, Finalized
  <2>3. EndsOK(j)'
    BY <1>11, <2>1 DEF EndsOK
  <2>4. HeardOK(j)' /\ SilentOK(j)'
    BY <2>1 DEF HeardOK, SilentOK, Finalized
  <2>5. ReplyOK(j)' /\ CauseOK(j)'
    BY <1>1, <1>4, <1>11, <2>1 DEF ReplyOK, CauseOK, Finalized
  <2>. QED  BY <2>2, <2>3, <2>4, <2>5 DEF JobOK
<1>13. CASE Ends(j)
  <2>1. /\ up'[j] = "ended" /\ lost'[j] = lost[j]
        /\ terminal'[j] = terminal[j] \/ Broken(j)
    BY <1>13 DEF Ends, SameEnvelopes
  <2>2. UploadOK(j)'
    BY <1>3, <1>4, <2>1 DEF UploadOK
  <2>3. HeardOK(j)'
    BY <2>1 DEF HeardOK
  <2>4. ReplyOK(j)' /\ CauseOK(j)'
    BY <1>1, <1>3, <1>4, <1>11, <2>1 DEF ReplyOK, CauseOK
  <2>5. CASE out_queue'[j] = out_queue[j]
    <3>1. EndsOK(j)'
      BY <1>11, <2>1, <2>5 DEF EndsOK
    <3>2. SilentOK(j)'
      BY <1>1, <1>2, <1>13, <2>1, <2>5 DEF Ends, SilentOK, HeardOK, UploadOK, UploadReasons,
         BrokenReasons, SameReason, Finalized
    <3>. QED  BY <2>2, <2>3, <2>4, <3>1, <3>2 DEF JobOK
  <2>6. CASE out_queue'[j] = Append(out_queue[j], Error)
    <3>1. Error \in Envelopes /\ Error.type = "error"
      BY EnvelopeKinds DEF Error
    <3>. DEFINE e == Error
    <3>2. e \in Envelopes /\ e.type = "error" /\ out_queue'[j] = Append(out_queue[j], e)
      BY <2>6, <3>1
    <3>. HIDE DEF e
    <3>3. HasEnd(out_queue'[j])
      BY <1>2, <3>2, AppendEnvelope
    <3>4. terminal'[j] \in UploadReasons \ {"worker_done"}
      <4>1. up[j] = "failing" => terminal[j] \in BrokenReasons
        BY DEF UploadOK
      <4>2. BrokenReasons \subseteq UploadReasons \ {"worker_done"}
        BY DEF BrokenReasons, UploadReasons
      <4>3. Broken(j) \/ (up[j] = "failing" /\ terminal'[j] = terminal[j])
        <5>1. out_queue'[j] # out_queue[j]
          BY <1>2, <3>2
        <5>. QED  BY <1>13, <5>1 DEF Ends
      <4>. QED  BY <1>11, <4>1, <4>2, <4>3
    <3>5. ASSUME NEW i \in 1..Len(out_queue'[j])
          PROVE  \/ i \in 1..Len(out_queue[j]) /\ out_queue'[j][i] = out_queue[j][i]
                 \/ out_queue'[j][i] = e
      BY <1>2, <3>2, AppendEnvelope
    <3>6. EndsOK(j)'
      BY <1>11, <2>1, <3>2, <3>4, <3>5 DEF EndsOK
    <3>7. SilentOK(j)'
      BY <3>3 DEF SilentOK
    <3>. QED  BY <2>2, <2>3, <2>4, <3>6, <3>7 DEF JobOK
  <2>. QED  BY <1>13, <2>5, <2>6 DEF Ends
<1>. QED  BY <1>1, <1>5, <1>6, <1>7, <1>9, <1>10, <1>12, <1>13 DEF UploadShape

-----------------------------------------------------------------------------
(* What a step of its request does to a job. *)
SameOutput(j) == out_queue'[j] = out_queue[j] /\ got'[j] = got[j]

Pops(j) == out_queue[j] # <<>> /\ out_queue'[j] = Tail(out_queue[j])

Enters(j) ==
    /\ chat[j] \in Early /\ chat'[j] \in {"putting", "rejecting", "top"}
    /\ reply'[j] = reply[j] /\ SameOutput(j) /\ SameReason(j)

Rejects(j) ==
    /\ chat[j] = "rejecting" /\ chat'[j] = "answered"
    /\ reply'[j] = "rejected" /\ SameOutput(j)

Idles(j) ==
    /\ chat'[j] = chat[j] \/ {chat[j], chat'[j]} \subseteq Reads
    /\ reply'[j] = reply[j] /\ SameOutput(j) /\ SameReason(j)

Takes(j) ==
    /\ {chat[j], chat'[j]} \subseteq Reads
    /\ Pops(j) /\ Head(out_queue[j]).type = "chunk"
    /\ got'[j] = Append(got[j], Head(out_queue[j]).n)
    /\ reply'[j] = reply[j] /\ SameReason(j)

Hears(j) ==
    /\ chat[j] \in Reads /\ chat'[j] \in {"last_write", "closing"}
    /\ Pops(j) /\ Head(out_queue[j]).type \in {"done", "error"}
    /\ reply'[j] = Head(out_queue[j]).type
    /\ got'[j] = got[j] /\ SameReason(j)

\* A handler that leaves because of the flag has taken an envelope for it.
Leaves(j) ==
    /\ chat[j] \in Reads /\ chat'[j] \in {"last_write", "closing"}
    /\ \/ reply'[j] = "gone" /\ j \in hung_up
       \/ reply'[j] = "timeout" /\ j \in expired
    /\ \/ SameOutput(j)
       \/ Pops(j) /\ got'[j] = got[j] /\ Finalized(j)'

Closes(j) ==
    /\ chat[j] \in {"last_write", "closing"} /\ chat'[j] \in {"closing", "answered"}
    /\ reply'[j] = reply[j] /\ SameOutput(j)

ChatShape(j) ==
    \/ Enters(j) \/ Rejects(j) \/ Idles(j) \/ Takes(j) \/ Hears(j) \/ Leaves(j) \/ Closes(j)

(* A job that has not come to its queue yet is in no place. *)
LEMMA EarlyUnplaced ==
    ASSUME TypeOK, PlacesOK, NEW j \in Jobs, chat[j] \in Early
    PROVE  ~Placed(j) /\ \A m \in Models : j \notin Dead(queues[m])
<1>1. \A m \in Models : \A i \in 1..Len(queues[m]) : queues[m][i] # j
  BY DEF PlacesOK, QueueOK
<1>2. ~Queued(j)
  BY <1>1, QueuedAt
<1>3. ~InHand(j) /\ ~Assigned(j)
  BY DEF PlacesOK, HandOK, InHand
<1>. QED  BY <1>1, <1>2, <1>3 DEF Placed, Dead

(* The steps of a request have these shapes. *)
LEMMA ChatShapes ==
    ASSUME TypeOK, PlacesOK, user_disconnected \subseteq hung_up, NEW j \in Jobs,
           MemberOK(j), ReplyOK(j), ChatAction(j), UNCHANGED workerVars
    PROVE  /\ ChatShape(j)
           /\ user_disconnected' \subseteq hung_up'
           /\ expired \subseteq expired' /\ hung_up \subseteq hung_up'
           /\ \A k \in Jobs \ {j} : SameClient(k) /\ out_queue'[k] = out_queue[k]
<1>. DEFINE Rest == /\ user_disconnected' \subseteq hung_up'
                    /\ expired \subseteq expired' /\ hung_up \subseteq hung_up'
                    /\ \A k \in Jobs \ {j} : SameClient(k) /\ out_queue'[k] = out_queue[k]
            Goal == ChatShape(j) /\ Rest
<1>1. /\ DOMAIN chat = Jobs /\ DOMAIN reply = Jobs /\ DOMAIN got = Jobs
      /\ DOMAIN out_queue = Jobs /\ DOMAIN final_reason = Jobs
      /\ chat[j] \in ChatStates /\ in_flight \subseteq Jobs
  BY DEF TypeOK, ChatTypeOK, RegistryTypeOK
<1>. USE DEF registryVars, queueVars, jobVars, Goto, Conclude
<1>2. CASE Arrive(j)
  <2>1. /\ chat[j] = "new" /\ chat'[j] \in {"putting", "top"}
        /\ \A k \in Jobs \ {j} : chat'[k] = chat[k]
        /\ UNCHANGED <<user_disconnected, expired, out_queue, reply, got, hung_up>>
    BY <1>1, <1>2 DEF Arrive
  <2>2. SameReason(j)
    <3>. DEFINE D == Dead(queues[ModelOf[j]])
    <3>1. DropAll(D, in_flight \cup {j})
      BY <1>2 DEF Arrive
    <3>2. j \notin D
      BY <2>1, EarlyUnplaced, RegistryAssumption DEF Early
    <3>. HIDE DEF D
    <3>. QED  BY <3>1, <3>2 DEF DropAll, FinalizeAll, SameReason
  <2>3. Enters(j)
    BY <2>1, <2>2 DEF Enters, Early, SameOutput
  <2>. QED  BY <2>1, <2>3 DEF ChatShape, SameClient
<1>3. CASE Enqueue(j) \/ PutTimeout(j)
  BY <1>1, <1>3 DEF Enqueue, PutTimeout, ChatShape, Enters, Early, SameOutput, SameReason,
     SameClient
<1>4. CASE Reject(j)
  BY <1>1, <1>4 DEF Reject, ChatShape, Rejects, SameOutput, SameClient
<1>5. CASE SeeHangup(j)
  BY <1>1, <1>5 DEF SeeHangup, ChatShape, Leaves, Reads, SameOutput, SameClient
<1>6. UserTimeout(j) /\ chat[j] \in {"top", "waiting"} /\ j \in expired => Goal
  <2>1. CASE j \in Streaming
    BY <1>1, <2>1 DEF UserTimeout, ChatShape, Leaves, Reads, SameOutput, SameClient
  <2>2. CASE j \notin Streaming
    BY <1>1, <2>2 DEF UserTimeout, ChatShape, Leaves, Reads, SameOutput, SameClient
  <2>. QED  BY <2>1, <2>2
<1>7. CASE DeadlineAtTop(j)
  BY <1>6, <1>7 DEF DeadlineAtTop
<1>8. CASE Await(j) \/ WriteDone(j)
  BY <1>1, <1>8 DEF Await, WriteDone, ChatShape, Idles, Reads, SameOutput, SameReason, SameClient
<1>9. Gets(j) => /\ chat[j] \in Reads /\ Pops(j)
                 /\ \A k \in Jobs \ {j} : out_queue'[k] = out_queue[k]
  BY <1>1 DEF Gets, Pops, Reads
<1>10. CASE TakeGone(j)
  <2>1. Finalized(j)'
    <3>1. final_reason'[j] = IF j \in in_flight /\ ~Finalized(j)
                             THEN "client_disconnected" ELSE final_reason[j]
      BY <1>10 DEF TakeGone, finalize, FinalizeAll
    <3>2. j \in in_flight \/ Finalized(j)
      BY <1>9, <1>10 DEF TakeGone, MemberOK, Reads
    <3>. QED  BY <3>1, <3>2 DEF Finalized
  <2>2. j \in hung_up
    BY <1>10 DEF TakeGone, SeesFlag
  <2>3. Leaves(j)
    BY <1>1, <1>9, <1>10, <2>1, <2>2 DEF TakeGone, Leaves
  <2>. QED  BY <1>1, <1>9, <1>10, <2>3 DEF TakeGone, ChatShape, SameClient
<1>11. CASE TakeChunk(j)
  <2>1. Takes(j)
    BY <1>1, <1>9, <1>11 DEF TakeChunk, Takes, SameReason, Reads
  <2>. QED  BY <1>1, <1>9, <1>11, <2>1 DEF TakeChunk, ChatShape, SameClient
<1>12. CASE TakeEnd(j)
  <2>1. Hears(j)
    BY <1>1, <1>9, <1>12 DEF TakeEnd, Hears, SameReason
  <2>. QED  BY <1>1, <1>9, <1>12, <2>1 DEF TakeEnd, ChatShape, SameClient
<1>13. CASE GetTimeout(j)
  <2>1. CASE j \in Streaming
    BY <1>1, <1>13, <2>1 DEF GetTimeout, ChatShape, Idles, Reads, SameOutput, SameReason, SameClient
  <2>2. CASE j \notin Streaming
    BY <1>6, <1>13, <2>2 DEF GetTimeout
  <2>. QED  BY <2>1, <2>2
<1>14. CASE LastWriteDone(j) \/ Close(j)
  BY <1>1, <1>14 DEF LastWriteDone, Close, ChatShape, Closes, SameOutput, SameClient
<1>15. CASE Cancelled(j)
  <2>1. /\ j \in hung_up /\ UNCHANGED <<out_queue, got, hung_up, expired, user_disconnected>>
        /\ chat[j] \in Reads \cup {"last_write"} /\ chat'[j] = "closing"
        /\ reply'[j] = IF reply[j] = "none" THEN "gone" ELSE reply[j]
        /\ \A k \in Jobs \ {j} : chat'[k] = chat[k] /\ reply'[k] = reply[k]
    BY <1>1, <1>15 DEF Cancelled, Reads
  <2>2. CASE chat[j] \in Reads
    <3>1. reply[j] = "none"
      BY <2>2 DEF ReplyOK, Reads
    <3>. QED  BY <2>1, <2>2, <3>1 DEF ChatShape, Leaves, SameOutput, SameClient
  <2>3. CASE chat[j] = "last_write"
    <3>1. reply[j] # "none"
      BY <2>3 DEF ReplyOK
    <3>. QED  BY <2>1, <2>3, <3>1 DEF ChatShape, Closes, SameOutput, SameClient
  <2>. QED  BY <2>1, <2>2, <2>3
<1>16. CASE WatchHangup(j) \/ WatchFails(j) \/ Expire(j) \/ HangUp(j)
  BY <1>1, <1>16 DEF WatchHangup, WatchFails, Expire, HangUp, ChatShape, Idles, SameOutput,
     SameReason, SameClient, chatVars
<1>. QED  BY <1>2, <1>3, <1>4, <1>5, <1>7, <1>8, <1>10, <1>11, <1>12, <1>13,
             <1>14, <1>15, <1>16 DEF ChatAction

(* A request places its own job only, and drops only jobs that are dead.     *)
LEMMA RequestPlaces ==
    ASSUME TypeOK, PlacesOK, NEW j \in Jobs, ChatAction(j), UNCHANGED workerVars,
           NEW k \in Jobs
    PROVE  /\ UNCHANGED <<hand, assigned_worker>>
           /\ k # j \/ ~(Arrive(j) \/ Enqueue(j)) => (Placed(k)' => Placed(k))
           /\ k \in in_flight' /\ Placed(k) => Placed(k)'
           /\ k = j /\ (Arrive(j) \/ Enqueue(j)) => Placed(k)' \/ chat'[k] = "putting"
           /\ \/ final_reason'[k] = final_reason[k]
              \/ k = j
              \/ /\ final_reason'[k] \in SilentReasons
                 /\ ~Finalized(k) /\ ~Assigned(k) /\ chat[k] \notin Early
<1>. DEFINE m == ModelOf[j]
            q == IF chat[j] = "new" THEN Kept(queues[m]) ELSE queues[m]
            D == Dead(queues[m])
<1>1. /\ m \in Models /\ queues \in [Models -> Seq(Jobs)] /\ DOMAIN chat = Jobs
      /\ queues[m] \in Seq(Jobs) /\ in_flight \subseteq Jobs
  BY RegistryAssumption DEF TypeOK, RegistryTypeOK, ChatTypeOK
<1>2. CASE ~(Arrive(j) \/ Enqueue(j))
  <2>1. UNCHANGED <<queues, assigned_worker, hand>>
    BY <1>2, RequestIsQuiet DEF workerVars, pollVars
  <2>2. Placed(k)' <=> Placed(k)
    BY <2>1 DEF Placed, Queued, InHand, Assigned, Positions
  <2>3. k # j => final_reason'[k] = final_reason[k]
    <3>1. ASSUME NEW r, finalize(j, r) PROVE k # j => final_reason'[k] = final_reason[k]
      BY <3>1, FinalizeOne
    <3>2. UserTimeout(j) => (k # j => final_reason'[k] = final_reason[k])
      BY <3>1 DEF UserTimeout, registryVars, jobVars
    <3>. QED  BY <1>2, <3>1, <3>2 DEF ChatAction, PutTimeout, Reject, SeeHangup, DeadlineAtTop,
             Await, TakeGone, TakeChunk, TakeEnd, GetTimeout, WriteDone, LastWriteDone,
             Cancelled, Close, WatchHangup, WatchFails, Expire, HangUp, registryVars, jobVars
  <2>. QED  BY <1>2, <2>1, <2>2, <2>3
<1>3. CASE Arrive(j) \/ Enqueue(j)
  <2>1. /\ chat[j] \in {"new", "putting"}
        /\ UNCHANGED <<hand, assigned_worker>>
        /\ \/ queues' = [queues EXCEPT ![m] = q] /\ chat'[j] = "putting"
           \/ queues' = [queues EXCEPT ![m] = Append(q, j)]
        /\ \/ chat[j] = "new" /\ DropAll(D, in_flight \cup {j})
           \/ chat[j] = "putting" /\ UNCHANGED <<in_flight, final_reason>>
    BY <1>1, <1>3 DEF Arrive, Enqueue, Goto, permitVars, jobVars, workerVars, pollVars
  <2>2. Kept(queues[m]) \in Seq(Jobs) /\ q \in Seq(Jobs)
    BY <1>1, KeptFacts
  <2>3. \A a \in 1..Len(q) : \E i \in 1..Len(queues[m]) : q[a] = queues[m][i]
    <3>1. \A a \in 1..Len(Kept(queues[m])) : \E i \in 1..Len(queues[m]) :
              Kept(queues[m])[a] = queues[m][i] /\ Live(queues[m][i])
      BY <1>1, KeptFacts
    <3>. QED  BY <3>1
  <2>4. /\ ~Placed(j) /\ j \notin D
        /\ \A l \in D : ~Live(l) /\ chat[l] \notin Early /\ ~Assigned(l)
    <3>1. ~Placed(j) /\ j \notin D
      BY <1>1, <2>1, EarlyUnplaced DEF Early
    <3>2. \A l \in D : ~Live(l) /\ chat[l] \notin Early /\ ~Assigned(l)
      BY <1>1 DEF Dead, PlacesOK, QueueOK
    <3>. QED  BY <3>1, <3>2
  <2>5. k \in in_flight' /\ k # j => k \notin D \/ chat[j] = "putting"
    BY <2>1 DEF DropAll, FinalizeAll
  <2>6. ASSUME NEW i \in 1..Len(queues[m]), queues[m][i] = k
        PROVE  (\E a \in 1..Len(q) : q[a] = k) \/ (k \in D /\ chat[j] = "new")
    <3>1. CASE chat[j] # "new"
      BY <2>6, <3>1
    <3>2. CASE chat[j] = "new" /\ ~Live(k)
      BY <2>6, <3>2 DEF Dead
    <3>3. CASE chat[j] = "new" /\ Live(k)
      <4>1. \A l \in 1..Len(queues[m]) : Live(queues[m][l]) =>
                \E a \in 1..Len(Kept(queues[m])) : Kept(queues[m])[a] = queues[m][l]
        BY <1>1, KeptFacts
      <4>. QED  BY <2>6, <3>3, <4>1
    <3>. QED  BY <3>1, <3>2, <3>3
  <2>7. \/ final_reason'[k] = final_reason[k]
        \/ /\ final_reason'[k] \in SilentReasons
           /\ ~Finalized(k) /\ ~Assigned(k) /\ chat[k] \notin Early
    <3>1. CASE UNCHANGED final_reason
      BY <3>1
    <3>2. CASE DropAll(D, in_flight \cup {j})
      <4>. HIDE DEF D
      <4>. QED  BY <2>4, <3>2, DropReason
    <3>. QED  BY <2>1, <3>1, <3>2
  <2>. HIDE DEF q, D, m
  <2>8. /\ (InHand(k)' <=> InHand(k)) /\ (Assigned(k)' <=> Assigned(k))
    BY <2>1 DEF InHand, Assigned
  <2>9. /\ (\E a \in 1..Len(q) : q[a] = k) => Queued(k)'
        /\ Queued(k)' => \/ k = j
                         \/ \E a \in 1..Len(q) : q[a] = k
                         \/ \E n \in Models \ {m} : \E i \in 1..Len(queues[n]) : queues[n][i] = k
        /\ (\E n \in Models \ {m} : \E i \in 1..Len(queues[n]) : queues[n][i] = k)
               => Queued(k)'
        /\ k = j /\ queues' = [queues EXCEPT ![m] = Append(q, j)] => Queued(k)'
    <3>. DEFINE t == Append(q, j)
    <3>1. /\ \A i \in 1..Len(t) : (i \in 1..Len(q) /\ t[i] = q[i]) \/ t[i] = j
          /\ \A i \in 1..Len(q) : i \in 1..Len(t) /\ t[i] = q[i]
          /\ Len(t) \in 1..Len(t) /\ t[Len(t)] = j
      BY <2>2
    <3>. HIDE DEF t
    <3>2. /\ \A n \in Models \ {m} : queues'[n] = queues[n]
          /\ queues'[m] = q \/ queues'[m] = t
          /\ queues' = [queues EXCEPT ![m] = Append(q, j)] => queues'[m] = t
      BY <1>1, <2>1 DEF t
    <3>3. (\E a \in 1..Len(q) : q[a] = k) => \E i \in 1..Len(queues'[m]) : queues'[m][i] = k
      BY <3>1, <3>2
    <3>4. (\E i \in 1..Len(queues'[m]) : queues'[m][i] = k)
          => k = j \/ \E a \in 1..Len(q) : q[a] = k
      BY <3>1, <3>2
    <3>5. k = j /\ queues' = [queues EXCEPT ![m] = Append(q, j)]
          => \E i \in 1..Len(queues'[m]) : queues'[m][i] = k
      BY <3>1, <3>2
    <3>6. Queued(k)' <=> \E n \in Models : \E i \in 1..Len(queues'[n]) : queues'[n][i] = k
      BY QueuedAt
    <3>. QED  BY <1>1, <3>2, <3>3, <3>4, <3>5, <3>6
  <2>10. Queued(k)' => Queued(k) \/ k = j
    BY <1>1, <2>3, <2>9, QueuedAt
  <2>11. Queued(k) /\ k \in in_flight' => Queued(k)'
    <3>1. SUFFICES ASSUME k \in in_flight', NEW n \in Models, NEW i \in 1..Len(queues[n]),
                          queues[n][i] = k
                   PROVE  Queued(k)'
      BY QueuedAt
    <3>2. CASE n # m
      BY <2>9, <3>1, <3>2
    <3>3. CASE n = m
      <4>1. Queued(k)
        BY <3>1, QueuedAt
      <4>2. k # j
        BY <2>4, <4>1 DEF Placed
      <4>. QED  BY <2>1, <2>5, <2>6, <2>9, <3>1, <3>3, <4>2
    <3>. QED  BY <3>2, <3>3
  <2>12. k = j => Queued(k)' \/ chat'[k] = "putting"
    BY <2>1, <2>9
  <2>. QED  BY <1>3, <2>1, <2>7, <2>8, <2>10, <2>11, <2>12 DEF Placed
<1>. QED  BY <1>2, <1>3

(* What a queue holds without its head. *)
LEMMA TailEnvelopes ==
    ASSUME NEW s \in Seq(Envelopes), s # <<>>
    PROVE  /\ 1 \in 1..Len(s) /\ Head(s) = s[1] /\ Head(s) \in Envelopes
           /\ Tail(s) \in Seq(Envelopes)
           /\ \A i \in 1..Len(Tail(s)) : i + 1 \in 1..Len(s) /\ Tail(s)[i] = s[i + 1]
           /\ \A i \in 1..Len(s) : i = 1 \/ (i - 1 \in 1..Len(Tail(s)) /\ Tail(s)[i - 1] = s[i])
OBVIOUS

(* The steps of its request keep the invariant of a job. *)
LEMMA RequestKeepsJob ==
    ASSUME TypeOK, PlacesOK, user_disconnected \subseteq hung_up, NEW j \in Jobs,
           MemberOK(j), JobOK(j), ChatAction(j), UNCHANGED workerVars
    PROVE  JobOK(j)'
<1>. UploadOK(j) /\ EndsOK(j) /\ ReplyOK(j) /\ HeardOK(j) /\ SilentOK(j) /\ CauseOK(j)
  BY DEF JobOK
<1>. DEFINE s == out_queue[j]
<1>1. /\ ChatShape(j)
      /\ expired \subseteq expired' /\ hung_up \subseteq hung_up'
      /\ UNCHANGED <<up, env, terminal, sent, lost, hand, assigned_worker>>
  BY ChatShapes, RequestPlaces DEF workerVars, uploadVars
<1>2. Assigned(j)' <=> Assigned(j)
  BY <1>1 DEF Assigned
<1>3. s \in Seq(Envelopes) /\ (up[j] = "none" => s = <<>>)
  BY DEF TypeOK, RegistryTypeOK, UploadOK
<1>4. chat[j] \in Early => /\ ~Placed(j) /\ up[j] = "none" /\ terminal[j] = "none"
                           /\ reply[j] = "none" /\ ~Finalized(j)
  BY EarlyUnplaced DEF Placed, UploadOK, ReplyOK, Early
<1>5. chat[j] \notin {"new", "putting"} => (Placed(j)' => Placed(j))
  BY RequestPlaces DEF Arrive, Enqueue
<1>6. SameReason(j) => (Finalized(j)' <=> Finalized(j)) /\ final_reason'[j] = final_reason[j]
  BY DEF SameReason, Finalized
<1>7. SameOutput(j) => out_queue'[j] = out_queue[j]
  BY DEF SameOutput
<1>8. Pops(j) => /\ s # <<>> /\ Head(s) = s[1] /\ 1 \in 1..Len(s)
                 /\ \A i \in 1..Len(out_queue'[j]) :
                        i + 1 \in 1..Len(s) /\ out_queue'[j][i] = s[i + 1]
                 /\ \A i \in 1..Len(s) : i = 1 \/ (i - 1 \in 1..Len(out_queue'[j])
                                                   /\ out_queue'[j][i - 1] = s[i])
  <2>1. SUFFICES ASSUME s # <<>>, out_queue'[j] = Tail(s)
                 PROVE  /\ Head(s) = s[1] /\ 1 \in 1..Len(s)
                        /\ \A i \in 1..Len(Tail(s)) :
                               i + 1 \in 1..Len(s) /\ Tail(s)[i] = s[i + 1]
                        /\ \A i \in 1..Len(s) : i = 1 \/ (i - 1 \in 1..Len(Tail(s))
                                                          /\ Tail(s)[i - 1] = s[i])
    BY DEF Pops
  <2>. HIDE DEF s
  <2>. QED  BY <1>3, <2>1, TailEnvelopes
<1>9. Pops(j) => up[j] # "none"
  BY <1>3, <1>8
<1>10. ASSUME SameOutput(j) \/ Pops(j) PROVE EndsOK(j)'
  <2>1. ASSUME NEW i \in 1..Len(out_queue'[j])
        PROVE  \E k \in 1..Len(s) : out_queue'[j][i] = s[k]
    <3>1. CASE SameOutput(j)
      BY <1>7, <3>1
    <3>2. CASE Pops(j)
      BY <1>8, <3>2
    <3>. QED  BY <1>10, <3>1, <3>2
  <2>. QED  BY <1>1, <2>1 DEF EndsOK
<1>11. ASSUME SameOutput(j) \/ Pops(j),
              \/ SameReason(j) /\ reply'[j] = reply[j]
              \/ reply'[j] # "none"
       PROVE  UploadOK(j)'
  BY <1>1, <1>2, <1>6, <1>7, <1>9, <1>11 DEF UploadOK
<1>12. CASE Enters(j)
  <2>. chat[j] \in Early /\ chat'[j] \in {"putting", "rejecting", "top"} /\ SameReason(j)
       /\ SameOutput(j) /\ reply'[j] = "none"
    BY <1>4, <1>12 DEF Enters
  <2>1. ReplyOK(j)'
    BY <1>4, <1>6 DEF ReplyOK
  <2>2. HeardOK(j)' /\ SilentOK(j)'
    BY <1>1, <1>4, <1>6 DEF HeardOK, SilentOK
  <2>3. CauseOK(j)'
    BY DEF CauseOK
  <2>. QED  BY <1>4, <1>10, <1>11, <2>1, <2>2, <2>3 DEF JobOK
<1>13. CASE Rejects(j)
  <2>. chat[j] = "rejecting" /\ chat'[j] = "answered" /\ reply'[j] = "rejected" /\ SameOutput(j)
    BY <1>13 DEF Rejects
  <2>1. ~Placed(j)'
    BY <1>4, <1>5 DEF Early
  <2>2. ReplyOK(j)' /\ HeardOK(j)' /\ SilentOK(j)'
    BY DEF ReplyOK, HeardOK, SilentOK, Reads, Early
  <2>3. CauseOK(j)'
    BY <2>1 DEF CauseOK
  <2>. QED  BY <1>10, <1>11, <2>2, <2>3 DEF JobOK
<1>14. CASE Idles(j)
  <2>. /\ chat'[j] = chat[j] \/ {chat[j], chat'[j]} \subseteq Reads
       /\ reply'[j] = reply[j] /\ SameOutput(j) /\ SameReason(j)
    BY <1>14 DEF Idles
  <2>1. chat'[j] \in Reads => chat[j] \in Reads
    BY DEF Reads
  <2>2. ReplyOK(j)'
    BY <1>6 DEF ReplyOK, Reads, Early
  <2>3. HeardOK(j)' /\ SilentOK(j)'
    BY <1>1, <1>6, <1>7, <2>1 DEF HeardOK, SilentOK
  <2>4. reply[j] = "rejected" => ~Placed(j)'
    <3>1. reply[j] = "rejected" => chat[j] \notin {"new", "putting"}
      BY DEF ReplyOK
    <3>. QED  BY <1>5, <3>1 DEF CauseOK
  <2>5. CauseOK(j)'
    BY <1>1, <2>4 DEF CauseOK
  <2>. QED  BY <1>10, <1>11, <2>2, <2>3, <2>5 DEF JobOK
<1>15. CASE Takes(j)
  <2>. /\ chat[j] \in Reads /\ chat'[j] \in Reads
       /\ Pops(j) /\ Head(s).type = "chunk" /\ reply'[j] = reply[j] /\ SameReason(j)
    BY <1>15 DEF Takes
  <2>1. ReplyOK(j)' /\ reply[j] = "none"
    BY <1>6 DEF ReplyOK, Reads, Early
  <2>2. HasEnd(out_queue[j]) => HasEnd(out_queue'[j])
    BY <1>8 DEF HasEnd
  <2>3. HeardOK(j)' /\ SilentOK(j)'
    BY <1>1, <1>6, <2>2 DEF HeardOK, SilentOK
  <2>4. CauseOK(j)'
    BY <2>1 DEF CauseOK
  <2>. QED  BY <1>10, <1>11, <2>1, <2>3, <2>4 DEF JobOK
<1>16. CASE Hears(j)
  <2>. /\ chat[j] \in Reads /\ chat'[j] \in {"last_write", "closing"}
       /\ Pops(j) /\ Head(s).type \in {"done", "error"}
       /\ reply'[j] = Head(s).type /\ SameReason(j)
    BY <1>16 DEF Hears
  <2>1. ReplyOK(j)' /\ HeardOK(j)' /\ SilentOK(j)'
    BY DEF ReplyOK, HeardOK, SilentOK, Reads, Early
  <2>2. CauseOK(j)'
    <3>1. /\ reply'[j] = "done" => terminal[j] \in {"worker_done", "worker_upload_failed"}
          /\ reply'[j] = "error" => terminal[j] \in UploadReasons \ {"worker_done"}
          /\ reply'[j] \in {"done", "error"}
      BY <1>8 DEF EndsOK
    <3>. QED  BY <1>1, <3>1 DEF CauseOK
  <2>. QED  BY <1>10, <1>11, <2>1, <2>2 DEF JobOK
<1>17. CASE Leaves(j)
  <2>. /\ chat[j] \in Reads /\ chat'[j] \in {"last_write", "closing"}
       /\ SameOutput(j) \/ Pops(j)
       /\ \/ reply'[j] = "gone" /\ j \in hung_up
          \/ reply'[j] = "timeout" /\ j \in expired
    BY <1>17 DEF Leaves
  <2>1. ReplyOK(j)' /\ HeardOK(j)' /\ SilentOK(j)'
    BY DEF ReplyOK, HeardOK, SilentOK, Reads, Early
  <2>2. CauseOK(j)'
    BY <1>1 DEF CauseOK
  <2>. QED  BY <1>10, <1>11, <2>1, <2>2 DEF JobOK
<1>18. CASE Closes(j)
  <2>. /\ chat[j] \in {"last_write", "closing"} /\ chat'[j] \in {"closing", "answered"}
       /\ reply'[j] = reply[j] /\ SameOutput(j)
    BY <1>18 DEF Closes
  <2>1. ReplyOK(j)' /\ HeardOK(j)' /\ SilentOK(j)' /\ reply[j] # "none"
    BY DEF ReplyOK, HeardOK, SilentOK, Reads, Early
  <2>2. CauseOK(j)'
    BY <1>1, <1>5 DEF CauseOK
  <2>. QED  BY <1>10, <1>11, <2>1, <2>2 DEF JobOK
<1>. QED  BY <1>1, <1>12, <1>13, <1>14, <1>15, <1>16, <1>17, <1>18 DEF ChatShape

-----------------------------------------------------------------------------
(* To any other job a step of a request, or of an upload, is one of a        *)
(* bystander.                                                                *)
LEMMA RequestsStandBy ==
    ASSUME TypeOK, PlacesOK, user_disconnected \subseteq hung_up, NEW j \in Jobs,
           MemberOK(j), ReplyOK(j), ChatAction(j), UNCHANGED workerVars,
           NEW k \in Jobs \ {j}
    PROVE  Bystander(k)
<1>1. /\ SameClient(k) /\ out_queue'[k] = out_queue[k]
      /\ expired \subseteq expired' /\ hung_up \subseteq hung_up'
  BY ChatShapes
<1>2. SameStream(k) /\ (Assigned(k)' <=> Assigned(k))
  BY RequestPlaces DEF workerVars, uploadVars, SameStream, Assigned
<1>3. /\ Placed(k)' => Placed(k)
      /\ \/ final_reason'[k] = final_reason[k]
         \/ /\ final_reason'[k] \in SilentReasons
            /\ ~Finalized(k) /\ ~Assigned(k) /\ chat[k] \notin Early
  BY RequestPlaces
<1>. QED  BY <1>1, <1>2, <1>3 DEF Bystander

LEMMA UploadsStandBy ==
    ASSUME TypeOK, NEW j \in Jobs, UploadOK(j), UploadAction(j), UNCHANGED chatVars,
           NEW k \in Jobs \ {j}
    PROVE  Bystander(k)
<1>1. /\ UNCHANGED <<expired, queues, assigned_worker, hand>>
      /\ SameStream(k) /\ SameReason(k) /\ out_queue'[k] = out_queue[k]
  BY UploadShapes, UploadIsQuiet
<1>2. (Assigned(k)' <=> Assigned(k)) /\ (Placed(k)' <=> Placed(k))
  BY <1>1 DEF Placed, Queued, InHand, Assigned, Positions
<1>. QED  BY <1>1, <1>2 DEF Bystander, SameClient, SameReason, chatVars

-----------------------------------------------------------------------------
(* Who may be registered after a step. *)
LEMMA WhoIsInFlight ==
    ASSUME TypeOK
    PROVE  /\ \A p \in Polls : PollAction(p) => in_flight' \subseteq in_flight
           /\ \A j \in Jobs : UploadAction(j) => in_flight' \subseteq in_flight
           /\ \A j \in Jobs : ChatAction(j) =>
                  \/ in_flight' \subseteq in_flight
                  \/ Arrive(j) /\ in_flight' \subseteq in_flight \cup {j}
<1>. USE DEF registryVars, queueVars
<1>1. ASSUME NEW j, NEW r, finalize(j, r) PROVE in_flight' \subseteq in_flight
  BY <1>1 DEF finalize, FinalizeAll
<1>2. ASSUME NEW D, NEW known, DropAll(D, known) PROVE in_flight' \subseteq known
  BY <1>2 DEF DropAll, FinalizeAll
<1>3. ASSUME NEW p \in Polls, PollAction(p) PROVE in_flight' \subseteq in_flight
  <2>1. ASSUME NEW D, NEW q, PruneAndGet(p, D, q) PROVE in_flight' \subseteq in_flight
    BY <1>2, <2>1 DEF PruneAndGet
  <2>. QED  BY <1>1, <1>3, <2>1 DEF PollAction, PollStart, PollGet, PollGiveUp, Assign,
           Handover, AcquiredForDead, AcquireTimeout
<1>4. ASSUME NEW j \in Jobs, UploadAction(j) PROVE in_flight' \subseteq in_flight
  <2>1. ASSUME NEW r, Conclusion(j, r) PROVE in_flight' \subseteq in_flight
    BY <1>1, <2>1 DEF Conclusion
  <2>2. ASSUME NEW r, Fail(j, r) PROVE in_flight' \subseteq in_flight
    BY <2>1, <2>2 DEF Fail
  <2>. QED  BY <1>4, <2>1, <2>2 DEF UploadAction, Open, Receive, PutDone, PutDrop, Eof,
           Abort, FailPut
<1>5. ASSUME NEW j \in Jobs, ChatAction(j)
      PROVE  \/ in_flight' \subseteq in_flight
             \/ Arrive(j) /\ in_flight' \subseteq in_flight \cup {j}
  <2>1. CASE Arrive(j)
    BY <1>2, <2>1 DEF Arrive
  <2>. QED  BY <1>1, <1>5, <2>1 DEF ChatAction, Enqueue, PutTimeout, Reject, SeeHangup,
           DeadlineAtTop, UserTimeout, Await, Gets, TakeGone, TakeChunk, TakeEnd, GetTimeout,
           WriteDone, LastWriteDone, Cancelled, Close, WatchHangup, WatchFails, Expire, HangUp
<1>. QED  BY <1>3, <1>4, <1>5

Remembered(k) ==
    Placed(k) \/ chat[k] \in {"putting", "rejecting"} \/ k \in user_disconnected \cup expired

LEMMA RequestsForgetNone ==
    ASSUME TypeOK, PlacesOK, NoneForgotten, user_disconnected \subseteq hung_up,
           NEW j \in Jobs, MemberOK(j), ReplyOK(j), ChatAction(j), UNCHANGED workerVars
    PROVE  NoneForgotten'
<1>1. SUFFICES ASSUME NEW k \in in_flight' PROVE Remembered(k)'
  BY DEF NoneForgotten, Remembered, Placed
<1>2. k \in Jobs /\ (k = j \/ k \in in_flight)
  BY WhoIsInFlight DEF TypeOK, RegistryTypeOK
<1>3. user_disconnected \subseteq user_disconnected' /\ expired \subseteq expired'
  BY DEF ChatAction, Arrive, Enqueue, PutTimeout, Reject, SeeHangup,
     DeadlineAtTop, UserTimeout, Await, Gets, TakeGone, TakeChunk, TakeEnd, GetTimeout,
     WriteDone, LastWriteDone, Cancelled, Close, WatchHangup, WatchFails, Expire, HangUp,
     registryVars, jobVars
<1>4. Placed(k) => Placed(k)'
  BY <1>2, RequestPlaces
<1>5. CASE k # j
  <2>1. chat'[k] = chat[k]
    BY <1>2, <1>5, ChatShapes DEF SameClient
  <2>. QED  BY <1>2, <1>3, <1>4, <1>5, <2>1 DEF NoneForgotten, Remembered, Placed
<1>6. CASE k = j /\ (Arrive(j) \/ Enqueue(j))
  BY <1>2, <1>6, RequestPlaces DEF Remembered
<1>7. CASE k = j /\ ~(Arrive(j) \/ Enqueue(j))
  <2>1. chat[j] \in {"putting", "rejecting"} =>
            chat'[j] \in {"putting", "rejecting"} \/ Reject(j)
    BY <1>7 DEF TypeOK, ChatTypeOK, ChatAction, PutTimeout, Reject, SeeHangup, Goto, Conclude,
     DeadlineAtTop, UserTimeout, Await, Gets, TakeGone, TakeChunk, TakeEnd, GetTimeout,
     WriteDone, LastWriteDone, Cancelled, Close, WatchHangup, WatchFails, Expire, HangUp,
     chatVars
  <2>2. k \in in_flight
    BY <1>1, <1>7, WhoIsInFlight
  <2>3. Reject(j) => j \notin in_flight'
    BY DEF Reject, finalize, FinalizeAll
  <2>. QED  BY <1>1, <1>2, <1>3, <1>4, <1>7, <2>1, <2>2, <2>3 DEF NoneForgotten, Remembered, Placed
<1>. QED  BY <1>5, <1>6, <1>7

LEMMA WorkersForgetNone ==
    ASSUME TypeOK, PlacesOK, NoneForgotten, UNCHANGED chatVars, \A k \in Jobs : UploadOK(k),
           \/ \E p \in Polls : PollAction(p)
           \/ \E j \in Jobs : UploadAction(j)
    PROVE  NoneForgotten'
<1>1. SUFFICES ASSUME NEW k \in in_flight' PROVE Remembered(k)'
  BY DEF NoneForgotten, Remembered, Placed
<1>2. k \in in_flight /\ k \in Jobs /\ Remembered(k)
  BY WhoIsInFlight DEF TypeOK, RegistryTypeOK, NoneForgotten, Remembered, Placed
<1>3. ASSUME NEW p \in Polls, PollAction(p) PROVE Remembered(k)'
  <2>1. UNCHANGED <<user_disconnected, expired, chat>>
    BY <1>3 DEF PollAction, PollStart, PollGet, PollGiveUp, Assign, Handover, AcquiredForDead,
         AcquireTimeout, PruneAndGet, registryVars, jobVars, chatVars
  <2>2. Placed(k) => Placed(k)' \/ k \in user_disconnected \cup expired
    BY <1>1, <1>2, <1>3, PollEffects DEF PollEffect
  <2>. QED  BY <1>2, <2>1, <2>2 DEF Remembered
<1>4. ASSUME NEW j \in Jobs, UploadAction(j) PROVE Remembered(k)'
  <2>1. /\ UNCHANGED <<user_disconnected, expired, chat>>
        /\ UNCHANGED <<queues, assigned_worker, hand>>
    BY <1>4, UploadShapes, UploadIsQuiet DEF chatVars
  <2>. QED  BY <1>2, <2>1 DEF Remembered, Placed, Queued, InHand, Assigned, Positions
<1>. QED  BY <1>3, <1>4

-----------------------------------------------------------------------------
(* Nor does it mean anything to a job when nothing happens. *)
LEMMA UnchangedIsBystander ==
    ASSUME UNCHANGED vars, NEW k \in Jobs
    PROVE  Bystander(k)
<1>. USE DEF vars, registryVars, queueVars, permitVars, jobVars, chatVars, workerVars,
             pollVars, uploadVars
<1>1. SameStream(k) /\ SameClient(k) /\ out_queue'[k] = out_queue[k]
  BY DEF SameStream, SameClient
<1>2. (Assigned(k)' <=> Assigned(k)) /\ (Placed(k)' <=> Placed(k))
  BY DEF Placed, Queued, InHand, Assigned, Positions
<1>. QED  BY <1>1, <1>2 DEF Bystander

(* Every step of the master keeps the invariant. *)
LEMMA StepCInv == CInv /\ [Next]_vars => CInv'
<1>. DEFINE Goal == /\ NoneForgotten' /\ (user_disconnected \subseteq hung_up)'
                    /\ \A k \in Jobs : JobOK(k)'
<1>1. SUFFICES ASSUME CInv, [Next]_vars PROVE Goal
  BY StepSInv DEF CInv
<1>. /\ SInv /\ NoneForgotten /\ user_disconnected \subseteq hung_up
     /\ \A k \in Jobs : JobOK(k) /\ UploadOK(k) /\ ReplyOK(k) /\ MemberOK(k)
     /\ TypeOK /\ PlacesOK
  BY <1>1, MembersOK DEF CInv, JobOK, SInv, IInv
<1>2. CASE UNCHANGED vars
  <2>1. NoneForgotten' /\ (user_disconnected \subseteq hung_up)'
    BY <1>2 DEF vars, registryVars, queueVars, permitVars, jobVars, chatVars, workerVars,
       pollVars, NoneForgotten, Queued, InHand, Assigned, Positions
  <2>. QED  BY <1>2, <2>1, UnchangedIsBystander, BystanderOK
<1>3. ASSUME NEW j \in Jobs, ChatAction(j), UNCHANGED workerVars PROVE Goal
  <2>1. NoneForgotten' /\ (user_disconnected \subseteq hung_up)'
    BY <1>3, RequestsForgetNone, ChatShapes
  <2>2. ASSUME NEW k \in Jobs PROVE JobOK(k)'
    <3>1. CASE k = j
      BY <1>3, <3>1, RequestKeepsJob
    <3>2. CASE k # j
      BY <1>3, <3>2, RequestsStandBy, BystanderOK
    <3>. QED  BY <3>1, <3>2
  <2>. QED  BY <2>1, <2>2
<1>4. ASSUME NEW p \in Polls, PollAction(p), UNCHANGED chatVars PROVE Goal
  <2>1. NoneForgotten'
    BY <1>4, WorkersForgetNone
  <2>2. (user_disconnected \subseteq hung_up)'
    BY <1>4 DEF PollAction, PollStart, PollGet, PollGiveUp, Assign, Handover, AcquiredForDead,
         AcquireTimeout, PruneAndGet, registryVars, jobVars, chatVars
  <2>. QED  BY <1>4, <2>1, <2>2, PollsStandBy, BystanderOK
<1>5. ASSUME NEW j \in Jobs, UploadAction(j), UNCHANGED chatVars PROVE Goal
  <2>1. NoneForgotten'
    BY <1>5, WorkersForgetNone
  <2>2. (user_disconnected \subseteq hung_up)'
    BY <1>5, UploadShapes DEF chatVars
  <2>3. ASSUME NEW k \in Jobs PROVE JobOK(k)'
    <3>1. CASE k = j
      BY <1>5, <3>1, UploadKeepsJob
    <3>2. CASE k # j
      BY <1>5, <3>2, UploadsStandBy, BystanderOK
    <3>. QED  BY <3>1, <3>2
  <2>. QED  BY <2>1, <2>2, <2>3
<1>. QED  BY <1>1, <1>2, <1>3, <1>4, <1>5, NextActions

(* The invariant holds in every reachable state of the master. *)
THEOREM Causes == Spec => []CInv
BY InitCInv, StepCInv, PTL DEF Spec

(* A job that is in flight is in a queue, in the hands of a poll, with a     *)
(* worker, or known to be doomed: no requeue, prune or race of polls         *)
(* (internal.py:43-66) ever loses a request that still waits.                *)
THEOREM NoJobIsForgotten == Spec => []NoneForgotten
<1>1. CInv => NoneForgotten
  BY CauseSuffices
<1>. QED  BY <1>1, Causes, PTL

(* What a client is told is true: "done" and "error" come from the worker or *)
(* the end of its upload, the timeout from the deadline, "gone" from a       *)
(* hang-up, and 503 of a job that no queue, poll or worker has.              *)
THEOREM AnswersHaveCauses == Spec => []AnswerHasCause
<1>1. CInv => AnswerHasCause
  BY CauseSuffices
<1>. QED  BY <1>1, Causes, PTL

(* A job that is finalized under a client that still reads left the end of   *)
(* its answer in the queue, except where the flag or the deadline was seen   *)
(* first, the requeue of internal.py:53 failed, or the end was dropped.      *)
THEOREM ReadersAreTold == Spec => []SilentOnlyIf
<1>1. CInv => SilentOnlyIf
  BY CauseSuffices
<1>. QED  BY <1>1, Causes, PTL
=============================================================================
