--------------------------- MODULE ServiceProofs ----------------------------
(***************************************************************************)
(* What a client gets, in every reachable state of the master: the chunks   *)
(* the worker sent, in order and without a gap but for those dropped on a   *)
(* full queue, and all of them before it is told "done"; and that it does   *)
(* to a job only what JobService allows, step by step.                      *)
(***************************************************************************)
EXTENDS CauseProofs

Increasing(s) == \A i, k \in 1..Len(s) : i < k => s[i] < s[k]
Ordered(q)    == \A i, k \in ChunksAt(q) : i < k => q[i].n < q[k].n
Before(g, q)  == \A m \in Elements(g), n \in Numbers(q) : m < n

Seen(j) == Elements(got[j]) \cup Numbers(out_queue[j])
Put(j)  == {n \in Arrived(j) : up[j] = "putting" => env[j] # Chunk(n)}

\* The inductive invariant, for one job: InOrder and DoneIsComplete, of dropped
\* chunks that they were sent and wait no more, and of a done that waits in the
\* queue that it comes after every chunk, when no chunk is missing any more.
OrderOK(j) ==
    /\ Increasing(got[j]) /\ Ordered(out_queue[j]) /\ Before(got[j], out_queue[j])
    /\ Seen(j) \subseteq Put(j)
    /\ ~Finalized(j) => Seen(j) = Put(j)

LostOK(j) ==
    \A n \in 1..MaxChunks : Chunk(n) \in lost[j] =>
        /\ n <= sent[j]
        /\ up[j] = "putting" => env[j] # Chunk(n)

LastOK(j) ==
    \A i \in 1..Len(out_queue[j]) : out_queue[j][i].type = "done" /\ reply[j] = "none" =>
        /\ \A k \in ChunksAt(out_queue[j]) : k < i
        /\ Seen(j) = Arrived(j)

WholeOK(j) == reply[j] = "done" => Elements(got[j]) = Arrived(j)

StreamOK(j) == OrderOK(j) /\ LostOK(j) /\ LastOK(j) /\ WholeOK(j)

OInv == CInv /\ \A j \in Jobs : StreamOK(j)

(* It holds the properties that the runs check. *)
LEMMA OrderSuffices == OInv => InOrder /\ DoneIsComplete
<1>1. (\A j \in Jobs : OrderOK(j)) => InOrder
  BY DEF OrderOK, InOrder, Increasing, Ordered, Before, Seen, Put
<1>. QED  BY <1>1 DEF OInv, StreamOK, WholeOK, DoneIsComplete

(* Initially nothing has been sent. *)
LEMMA InitOInv == Init => OInv
<1>1. SUFFICES ASSUME Init, NEW j \in Jobs PROVE StreamOK(j)
  BY InitCInv DEF OInv
<1>2. /\ got[j] = <<>> /\ out_queue[j] = <<>> /\ sent[j] = 0 /\ lost[j] = {}
      /\ reply[j] = "none"
  BY <1>1 DEF Init, RegistryInit, ChatInit, WorkerInit
<1>3. Elements(got[j]) = {} /\ ChunksAt(out_queue[j]) = {} /\ Numbers(out_queue[j]) = {}
  BY <1>2 DEF Elements, ChunksAt, Numbers
<1>4. Arrived(j) = {} /\ Put(j) = {} /\ Seen(j) = {}
  BY <1>2, <1>3 DEF Arrived, Put, Seen
<1>5. OrderOK(j)
  BY <1>2, <1>3, <1>4 DEF OrderOK, Increasing, Ordered, Before
<1>6. LostOK(j) /\ LastOK(j) /\ WholeOK(j)
  BY <1>2, <1>3, <1>4 DEF LostOK, LastOK, WholeOK
<1>. QED  BY <1>5, <1>6 DEF StreamOK

-----------------------------------------------------------------------------
(* What an envelope at the end of a queue, or one less at its head, does to  *)
(* the chunks in it.                                                         *)
LEMMA ChunkFields ==
    /\ \A m, n : Chunk(m) = Chunk(n) <=> m = n
    /\ \A n : Chunk(n).n = n /\ Chunk(n).type = "chunk" /\ Chunk(n) # Done /\ Chunk(n) # Error
    /\ Done.type = "done" /\ Error.type = "error"
BY DEF Chunk, Done, Error

LEMMA AppendChunk ==
    ASSUME NEW s \in Seq(Envelopes), NEW e \in Envelopes
    PROVE  LET t == Append(s, e)
           IN  /\ e.type # "chunk" => ChunksAt(t) = ChunksAt(s) /\ Numbers(t) = Numbers(s)
               /\ e.type = "chunk" => Numbers(t) = Numbers(s) \cup {e.n}
               /\ /\ Ordered(s)
                  /\ e.type = "chunk" => \A n \in Numbers(s) : n < e.n
                  => Ordered(t)
               /\ ChunksAt(s) \subseteq 1..Len(s)
               /\ Len(t) = Len(s) + 1
<1>. DEFINE t == Append(s, e)
<1>1. /\ \A i \in 1..Len(t) : (i \in 1..Len(s) /\ t[i] = s[i]) \/ (i = Len(s) + 1 /\ t[i] = e)
      /\ \A i \in 1..Len(s) : i \in 1..Len(t) /\ t[i] = s[i]
      /\ Len(t) = Len(s) + 1 /\ Len(t) \in 1..Len(t) /\ t[Len(t)] = e
  OBVIOUS
<1>. HIDE DEF t
<1>2. /\ \A i \in ChunksAt(t) : i \in ChunksAt(s) \/ (e.type = "chunk" /\ i = Len(t))
      /\ \A i \in ChunksAt(s) : i \in ChunksAt(t)
      /\ e.type = "chunk" => Len(t) \in ChunksAt(t)
      /\ ChunksAt(s) \subseteq 1..Len(s)
  BY <1>1 DEF ChunksAt
<1>3. \A i \in ChunksAt(s) : t[i] = s[i] /\ i < Len(t) /\ i \in Nat
  BY <1>1, <1>2
<1>4. e.type # "chunk" => ChunksAt(t) = ChunksAt(s) /\ Numbers(t) = Numbers(s)
  <2>1. e.type # "chunk" => ChunksAt(t) = ChunksAt(s)
    BY <1>2
  <2>. QED  BY <1>3, <2>1 DEF Numbers
<1>5. e.type = "chunk" => Numbers(t) = Numbers(s) \cup {e.n}
  <2>1. \A n \in Numbers(t) : n \in Numbers(s) \/ (e.type = "chunk" /\ n = e.n)
    BY <1>1, <1>2, <1>3 DEF Numbers
  <2>2. \A n \in Numbers(s) : n \in Numbers(t)
    BY <1>2, <1>3 DEF Numbers
  <2>3. e.type = "chunk" => e.n \in Numbers(t)
    BY <1>1, <1>2 DEF Numbers
  <2>. QED  BY <2>1, <2>2, <2>3
<1>6. ASSUME Ordered(s), e.type = "chunk" => \A n \in Numbers(s) : n < e.n PROVE Ordered(t)
  <2>1. SUFFICES ASSUME NEW i \in ChunksAt(t), NEW k \in ChunksAt(t), i < k
                 PROVE  t[i].n < t[k].n
    BY DEF Ordered
  <2>2. i \in ChunksAt(s)
    <3>1. Len(t) \in Nat /\ k <= Len(t) /\ k \in Nat
      BY <1>1, <1>2, <1>3
    <3>. QED  BY <1>2, <2>1, <3>1
  <2>3. CASE k \in ChunksAt(s)
    BY <1>3, <1>6, <2>1, <2>2, <2>3 DEF Ordered
  <2>4. CASE e.type = "chunk" /\ k = Len(t)
    BY <1>1, <1>3, <1>6, <2>2, <2>4 DEF Numbers
  <2>. QED  BY <1>2, <2>3, <2>4
<1>. QED  BY <1>1, <1>2, <1>4, <1>5, <1>6 DEF t

LEMMA TailChunk ==
    ASSUME NEW s \in Seq(Envelopes), s # <<>>, Ordered(s)
    PROVE  /\ Ordered(Tail(s))
           /\ Head(s).type # "chunk" => Numbers(Tail(s)) = Numbers(s)
           /\ Head(s).type = "chunk" =>
                  /\ Numbers(s) = Numbers(Tail(s)) \cup {Head(s).n}
                  /\ \A n \in Numbers(Tail(s)) : Head(s).n < n
           /\ \A i \in ChunksAt(Tail(s)) : i + 1 \in ChunksAt(s)
<1>. DEFINE t == Tail(s)
<1>1. /\ 1 \in 1..Len(s) /\ Head(s) = s[1]
      /\ \A i \in 1..Len(t) : i + 1 \in 1..Len(s) /\ t[i] = s[i + 1]
      /\ \A i \in 1..Len(s) : i = 1 \/ (i - 1 \in 1..Len(t) /\ t[i - 1] = s[i])
  BY TailEnvelopes
<1>. HIDE DEF t
<1>2. \A i \in ChunksAt(t) : i + 1 \in ChunksAt(s) /\ i \in Nat \ {0} /\ t[i] = s[i + 1]
  BY <1>1 DEF ChunksAt
<1>3. \A i \in ChunksAt(s) : \/ i = 1 /\ Head(s).type = "chunk"
                             \/ i - 1 \in ChunksAt(t) /\ t[i - 1] = s[i]
  BY <1>1 DEF ChunksAt
<1>4. Head(s).type = "chunk" => 1 \in ChunksAt(s)
  BY <1>1 DEF ChunksAt
<1>5. Ordered(t)
  <2>1. SUFFICES ASSUME NEW i \in ChunksAt(t), NEW k \in ChunksAt(t), i < k
                 PROVE  t[i].n < t[k].n
    BY DEF Ordered
  <2>2. /\ i + 1 \in ChunksAt(s) /\ k + 1 \in ChunksAt(s) /\ i + 1 < k + 1
        /\ t[i] = s[i + 1] /\ t[k] = s[k + 1]
    BY <1>2, <2>1
  <2>. QED  BY <2>2 DEF Ordered
<1>6. /\ \A n \in Numbers(t) : n \in Numbers(s)
      /\ \A n \in Numbers(s) : n \in Numbers(t) \/ (Head(s).type = "chunk" /\ n = Head(s).n)
  BY <1>1, <1>2, <1>3 DEF Numbers
<1>7. Head(s).type = "chunk" => Head(s).n \in Numbers(s)
  BY <1>1, <1>4 DEF Numbers
<1>8. Head(s).type = "chunk" => \A n \in Numbers(t) : Head(s).n < n
  <2>1. SUFFICES ASSUME Head(s).type = "chunk", NEW i \in ChunksAt(t)
                 PROVE  Head(s).n < t[i].n
    BY DEF Numbers
  <2>2. 1 \in ChunksAt(s) /\ i + 1 \in ChunksAt(s) /\ 1 < i + 1 /\ t[i] = s[i + 1]
    BY <1>2, <1>4, <2>1
  <2>. QED  BY <1>1, <2>2 DEF Ordered
<1>. QED  BY <1>2, <1>5, <1>6, <1>7, <1>8 DEF t

LEMMA AppendNumber ==
    ASSUME NEW g \in Seq(Nat), NEW n \in Nat
    PROVE  /\ Elements(Append(g, n)) = Elements(g) \cup {n}
           /\ Increasing(g) /\ (\A m \in Elements(g) : m < n) => Increasing(Append(g, n))
<1>. DEFINE h == Append(g, n)
<1>1. /\ \A i \in 1..Len(h) : (i \in 1..Len(g) /\ h[i] = g[i]) \/ (i = Len(g) + 1 /\ h[i] = n)
      /\ \A i \in 1..Len(g) : i \in 1..Len(h) /\ h[i] = g[i]
      /\ Len(g) + 1 \in 1..Len(h) /\ h[Len(g) + 1] = n /\ Len(g) \in Nat
  OBVIOUS
<1>. HIDE DEF h
<1>2. Elements(h) = Elements(g) \cup {n}
  <2>1. \A x \in Elements(h) : x \in Elements(g) \/ x = n
    BY <1>1 DEF Elements
  <2>2. (\A x \in Elements(g) : x \in Elements(h)) /\ n \in Elements(h)
    BY <1>1 DEF Elements
  <2>. QED  BY <2>1, <2>2
<1>3. ASSUME Increasing(g), \A m \in Elements(g) : m < n PROVE Increasing(h)
  <2>1. SUFFICES ASSUME NEW i \in 1..Len(h), NEW k \in 1..Len(h), i < k PROVE h[i] < h[k]
    BY DEF Increasing
  <2>2. i \in 1..Len(g) /\ h[i] = g[i]
    BY <1>1, <2>1
  <2>3. CASE k \in 1..Len(g) /\ h[k] = g[k]
    BY <1>3, <2>1, <2>2, <2>3 DEF Increasing
  <2>4. CASE h[k] = n
    BY <1>3, <2>2, <2>4 DEF Elements
  <2>. QED  BY <1>1, <2>3, <2>4
<1>. QED  BY <1>2, <1>3 DEF h

-----------------------------------------------------------------------------
(* What a step must leave as it is for the chunks of a job to stay in order: *)
(* when it does not touch the queue,                                         *)
LEMMA SameQueue ==
    ASSUME NEW j \in Jobs, StreamOK(j), JobOK(j),
           got'[j] = got[j], out_queue'[j] = out_queue[j],
           Put(j) \subseteq Put(j)', Finalized(j) => Finalized(j)',
           ~Finalized(j) => Put(j)' = Put(j),
           terminal[j] # "none" => Arrived(j)' = Arrived(j),
           reply'[j] = "none" => reply[j] = "none",
           reply'[j] = "done" => reply[j] = "done",
           LostOK(j)'
    PROVE  StreamOK(j)'
<1>. OrderOK(j) /\ LastOK(j) /\ WholeOK(j) /\ EndsOK(j) /\ CauseOK(j)
  BY DEF StreamOK, JobOK
<1>1. Seen(j)' = Seen(j)
  BY DEF Seen
<1>2. OrderOK(j)'
  BY <1>1 DEF OrderOK
<1>3. LastOK(j)'
  <2>1. SUFFICES ASSUME NEW i \in 1..Len(out_queue[j]), out_queue[j][i].type = "done",
                        reply[j] = "none"
                 PROVE  /\ \A k \in ChunksAt(out_queue[j]) : k < i
                        /\ Seen(j) = Arrived(j)'
    BY <1>1 DEF LastOK
  <2>2. terminal[j] # "none"
    BY <2>1 DEF EndsOK
  <2>. QED  BY <2>1, <2>2 DEF LastOK
<1>4. WholeOK(j)'
  BY DEF WholeOK, CauseOK
<1>. QED  BY <1>2, <1>3, <1>4 DEF StreamOK

(* and when it puts an envelope at its end. *)
LEMMA LongerQueue ==
    ASSUME NEW j \in Jobs, StreamOK(j), JobOK(j), NEW e \in Envelopes,
           out_queue[j] \in Seq(Envelopes),
           got'[j] = got[j], out_queue'[j] = Append(out_queue[j], e),
           reply'[j] = reply[j], Finalized(j) => Finalized(j)',
           e.type = "chunk" => /\ Put(j)' = Put(j) \cup {e.n}
                               /\ \A n \in Put(j) : n < e.n,
           e.type # "chunk" => Put(j)' = Put(j),
           terminal[j] # "none" => Arrived(j)' = Arrived(j) /\ e.type = "error",
           e.type = "done" /\ reply[j] = "none" => ~Finalized(j) /\ Put(j) = Arrived(j)',
           LostOK(j)'
    PROVE  StreamOK(j)'
<1>. /\ OrderOK(j) /\ LastOK(j) /\ WholeOK(j) /\ EndsOK(j) /\ CauseOK(j)
     /\ Increasing(got[j]) /\ Ordered(out_queue[j]) /\ Before(got[j], out_queue[j])
     /\ Seen(j) \subseteq Put(j) /\ (~Finalized(j) => Seen(j) = Put(j))
  BY DEF StreamOK, JobOK, OrderOK
<1>. DEFINE q == out_queue[j]
            t == Append(q, e)
<1>1. /\ e.type # "chunk" => ChunksAt(t) = ChunksAt(q) /\ Numbers(t) = Numbers(q)
      /\ e.type = "chunk" => Numbers(t) = Numbers(q) \cup {e.n}
      /\ (e.type = "chunk" => \A n \in Numbers(q) : n < e.n) => Ordered(t)
      /\ ChunksAt(q) \subseteq 1..Len(q) /\ Len(t) = Len(q) + 1
  BY AppendChunk
<1>2. /\ e.type = "chunk" => Seen(j)' = Seen(j) \cup {e.n}
      /\ e.type # "chunk" => Seen(j)' = Seen(j)
  BY <1>1 DEF Seen
<1>3. Elements(got[j]) \subseteq Put(j) /\ Numbers(q) \subseteq Put(j)
  BY DEF Seen
<1>4. OrderOK(j)'
  <2>1. Ordered(t)
    BY <1>1, <1>3
  <2>2. Before(got[j], t)
    BY <1>1, <1>3 DEF Before
  <2>3. Seen(j)' \subseteq Put(j)' /\ (~Finalized(j)' => Seen(j)' = Put(j)')
    BY <1>2
  <2>. QED  BY <2>1, <2>2, <2>3 DEF OrderOK
<1>5. LastOK(j)'
  <2>1. SUFFICES ASSUME NEW i \in 1..Len(t), t[i].type = "done", reply[j] = "none"
                 PROVE  (\A k \in ChunksAt(t) : k < i) /\ Seen(j)' = Arrived(j)'
    BY DEF LastOK
  <2>2. \/ i \in 1..Len(q) /\ t[i] = q[i]
        \/ i = Len(q) + 1 /\ t[i] = e /\ Len(q) \in Nat
    OBVIOUS
  <2>. HIDE DEF t
  <2>3. CASE i \in 1..Len(q) /\ t[i] = q[i]
    <3>1. terminal[j] # "none"
      BY <2>1, <2>3 DEF EndsOK
    <3>. QED  BY <1>1, <1>2, <2>1, <2>3, <3>1 DEF LastOK
  <2>4. CASE i = Len(q) + 1 /\ t[i] = e /\ Len(q) \in Nat
    <3>1. ChunksAt(t) \subseteq 1..Len(q)
      BY <1>1, <2>1, <2>4
    <3>2. \A k \in 1..Len(q) : k < i
      BY <2>4
    <3>. QED  BY <1>2, <2>1, <2>4, <3>1, <3>2
  <2>. QED  BY <2>2, <2>3, <2>4
<1>6. WholeOK(j)'
  BY DEF WholeOK, CauseOK
<1>. QED  BY <1>4, <1>5, <1>6 DEF StreamOK

-----------------------------------------------------------------------------
(* The steps of its upload keep the chunks of a job in order. *)
LEMMA UploadKeepsStream ==
    ASSUME TypeOK, PlacesOK, NEW j \in Jobs, JobOK(j), StreamOK(j), UploadAction(j),
           UNCHANGED chatVars
    PROVE  StreamOK(j)'
<1>. UploadOK(j) /\ LostOK(j) /\ CauseOK(j) /\ EndsOK(j)
  BY DEF JobOK, StreamOK
<1>1. /\ UploadShape(j) /\ got'[j] = got[j] /\ reply'[j] = reply[j]
      /\ Finalized(j) => Finalized(j)'
  BY UploadShapes, FinalizedStays DEF chatVars
<1>2. /\ up[j] \in {"none", "reading", "putting", "failing", "ended"}
      /\ out_queue[j] \in Seq(Envelopes) /\ sent[j] \in 0..MaxChunks /\ MaxChunks \in Nat
      /\ env[j] \in Envelopes
  BY RegistryAssumption DEF TypeOK, WorkerTypeOK, RegistryTypeOK
<1>3. SameReason(j) => (Finalized(j)' <=> Finalized(j))
  BY DEF SameReason, Finalized
<1>4. up[j] # "putting" => Put(j) = Arrived(j)
  BY DEF Put
<1>5. up'[j] # "putting" => Put(j)' = Arrived(j)'
  BY DEF Put
<1>6. sent'[j] = sent[j] /\ lost'[j] = lost[j] => Arrived(j)' = Arrived(j)
  BY DEF Arrived
<1>7. sent'[j] = sent[j] /\ lost'[j] = lost[j] /\ up'[j] # "putting" => LostOK(j)'
  BY DEF LostOK
<1>8. ASSUME sent'[j] = sent[j] + 1, lost'[j] = lost[j], sent[j] + 1 \in 1..MaxChunks
      PROVE  Arrived(j)' = Arrived(j) \cup {sent[j] + 1}
  <2>1. Chunk(sent[j] + 1) \notin lost[j]
    BY <1>2, <1>8 DEF LostOK
  <2>2. \A n : n \in 1..sent'[j] <=> n \in 1..sent[j] \/ n = sent[j] + 1
    BY <1>2, <1>8
  <2>. QED  BY <1>8, <2>1, <2>2 DEF Arrived
<1>9. \A n \in Arrived(j) : n \in 1..sent[j] /\ n < sent[j] + 1 /\ Chunk(n) \notin lost[j]
  BY <1>2 DEF Arrived
<1>10. ASSUME NEW e \in NextEnvelopes(j)
       PROVE  /\ terminal[j] = "none" /\ e \in Envelopes
              /\ \/ e.type \in {"done", "error"}
                 \/ e = Chunk(sent[j] + 1) /\ sent[j] + 1 \in 1..MaxChunks
  <2>1. terminal[j] = "none" /\ e \in Envelopes /\ (e \in {Done, Error} \/ e = Chunk(sent[j] + 1))
    BY EnvelopeKinds
  <2>2. e = Chunk(sent[j] + 1) => sent[j] + 1 \in 1..MaxChunks
    BY <1>2, <2>1 DEF Chunk, Envelopes
  <2>. QED  BY <2>1, <2>2, ChunkFields
<1>11. CASE Opens(j)
  <2>. up[j] = "none" /\ up'[j] # "putting" /\ SameEnvelopes(j) /\ SameReason(j)
       /\ out_queue'[j] = out_queue[j]
    BY <1>11 DEF Opens
  <2>1. LostOK(j)' /\ Put(j)' = Put(j) /\ Arrived(j)' = Arrived(j)
    BY <1>4, <1>5, <1>6, <1>7 DEF SameEnvelopes
  <2>. QED  BY <1>1, <2>1, SameQueue
<1>12. CASE Ignores(j)
  <2>. /\ up[j] = "reading" /\ up'[j] = "reading" /\ terminal[j] = "none" /\ Finalized(j)
       /\ lost'[j] = lost[j] /\ sent'[j] \in {sent[j], sent[j] + 1}
       /\ out_queue'[j] = out_queue[j]
    BY <1>12 DEF Ignores
  <2>1. Arrived(j) \subseteq Arrived(j)'
    BY <1>2 DEF Arrived
  <2>2. LostOK(j)'
    BY <1>2 DEF LostOK
  <2>. QED  BY <1>1, <1>4, <1>5, <2>1, <2>2, SameQueue
<1>13. CASE \E e : Blocks(j, e)
  <2>1. PICK e : Blocks(j, e)
    BY <1>13
  <2>. /\ up[j] = "reading" /\ e \in NextEnvelopes(j) /\ up'[j] = "putting" /\ env'[j] = e
       /\ Counts(j, e) /\ lost'[j] = lost[j] /\ SameReason(j) /\ out_queue'[j] = out_queue[j]
    BY <2>1 DEF Blocks
  <2>2. CASE e.type \in {"done", "error"}
    <3>1. \A n : e # Chunk(n)
      BY <2>2, ChunkFields
    <3>2. sent'[j] = sent[j] /\ Put(j)' = Arrived(j)'
      BY <2>2, <3>1 DEF Counts, Put
    <3>3. LostOK(j)'
      BY <3>1, <3>2 DEF LostOK
    <3>. QED  BY <1>1, <1>4, <1>6, <3>2, <3>3, SameQueue
  <2>3. CASE e = Chunk(sent[j] + 1) /\ sent[j] + 1 \in 1..MaxChunks
    <3>1. sent'[j] = sent[j] + 1
      BY <2>3, ChunkFields DEF Counts
    <3>2. Arrived(j)' = Arrived(j) \cup {sent[j] + 1}
      BY <1>8, <2>3, <3>1
    <3>3. Put(j)' = {n \in Arrived(j)' : n # sent[j] + 1}
      BY <2>3, ChunkFields DEF Put
    <3>4. Put(j)' = Put(j)
      BY <1>4, <1>9, <3>2, <3>3
    <3>5. LostOK(j)'
      <4>1. SUFFICES ASSUME NEW n \in 1..MaxChunks, Chunk(n) \in lost[j]
                     PROVE  n <= sent[j] + 1 /\ e # Chunk(n)
        BY <3>1 DEF LostOK
      <4>2. n <= sent[j]
        BY <4>1 DEF LostOK
      <4>. QED  BY <1>2, <2>3, <4>2, ChunkFields
    <3>. QED  BY <1>1, <1>10, <3>4, <3>5, SameQueue
  <2>. QED  BY <1>10, <2>2, <2>3
<1>14. CASE Drops(j)
  <2>. /\ up[j] = "putting" /\ up'[j] = "reading" /\ sent'[j] = sent[j]
       /\ lost'[j] = lost[j] \cup {env[j]} /\ SameReason(j) /\ out_queue'[j] = out_queue[j]
       /\ terminal[j] = "none"
    BY <1>14 DEF Drops, UploadOK
  <2>1. Put(j)' = Put(j)
    <3>1. Put(j)' = {n \in 1..sent[j] : Chunk(n) \notin lost[j] \cup {env[j]}}
      BY <1>5 DEF Arrived
    <3>2. Put(j) = {n \in 1..sent[j] : Chunk(n) \notin lost[j] /\ env[j] # Chunk(n)}
      BY DEF Put, Arrived
    <3>. QED  BY <3>1, <3>2
  <2>2. LostOK(j)'
    <3>1. SUFFICES ASSUME NEW n \in 1..MaxChunks, Chunk(n) \in lost[j] \/ Chunk(n) = env[j]
                   PROVE  n <= sent[j]
      BY DEF LostOK
    <3>2. CASE Chunk(n) \in lost[j]
      BY <3>2 DEF LostOK
    <3>3. CASE Chunk(n) = env[j]
      <4>1. n = sent[j]
        BY <3>3, ChunkFields DEF UploadOK
      <4>. QED  BY <1>2, <4>1
    <3>. QED  BY <3>1, <3>2, <3>3
  <2>. QED  BY <1>1, <2>1, <2>2, SameQueue
<1>15. CASE Breaks(j)
  <2>. up[j] = "reading" /\ up'[j] = "failing" /\ SameEnvelopes(j) /\ SameReason(j)
       /\ out_queue'[j] = out_queue[j]
    BY <1>15 DEF Breaks
  <2>1. LostOK(j)' /\ Put(j)' = Put(j) /\ Arrived(j)' = Arrived(j)
    BY <1>4, <1>5, <1>6, <1>7 DEF SameEnvelopes
  <2>. QED  BY <1>1, <2>1, SameQueue
<1>16. CASE Ends(j)
  <2>. up[j] \in {"reading", "failing"} /\ up'[j] = "ended" /\ SameEnvelopes(j)
    BY <1>16 DEF Ends
  <2>1. LostOK(j)' /\ Put(j)' = Put(j) /\ Arrived(j)' = Arrived(j) /\ Put(j) = Arrived(j)
    BY <1>4, <1>5, <1>6, <1>7 DEF SameEnvelopes
  <2>2. CASE out_queue'[j] = out_queue[j]
    BY <1>1, <2>1, <2>2, SameQueue
  <2>3. CASE out_queue'[j] = Append(out_queue[j], Error)
    <3>1. Error \in Envelopes /\ Error.type = "error"
      BY EnvelopeKinds, ChunkFields
    <3>. QED  BY <1>1, <1>2, <2>1, <2>3, <3>1, LongerQueue
  <2>. QED  BY <1>16, <2>2, <2>3 DEF Ends
<1>17. CASE \E e : Accepts(j, e)
  <2>1. PICK e : Accepts(j, e)
    BY <1>17
  <2>. /\ up'[j] = "reading" /\ lost'[j] = lost[j] /\ SameReason(j)
       /\ out_queue'[j] = Append(out_queue[j], e)
    BY <2>1 DEF Accepts
  <2>2. Put(j)' = Arrived(j)'
    BY <1>5
  <2>3. CASE up[j] = "reading"
    <3>. ~Finalized(j) /\ e \in NextEnvelopes(j) /\ Counts(j, e)
      BY <2>1, <2>3 DEF Accepts
    <3>1. terminal[j] = "none" /\ e \in Envelopes
      BY <1>10
    <3>2. CASE e.type \in {"done", "error"}
      <4>1. sent'[j] = sent[j] /\ e.type # "chunk"
        BY <3>2 DEF Counts
      <4>2. LostOK(j)' /\ Put(j)' = Put(j) /\ Put(j) = Arrived(j)'
        BY <1>4, <1>6, <1>7, <2>2, <2>3, <4>1
      <4>. QED  BY <1>1, <1>2, <3>1, <4>1, <4>2, LongerQueue
    <3>3. CASE e = Chunk(sent[j] + 1) /\ sent[j] + 1 \in 1..MaxChunks
      <4>1. e.type = "chunk" /\ e.n = sent[j] + 1 /\ sent'[j] = sent[j] + 1
        BY <3>3, ChunkFields DEF Counts
      <4>2. Put(j)' = Put(j) \cup {e.n} /\ \A n \in Put(j) : n < e.n
        BY <1>4, <1>8, <1>9, <2>2, <2>3, <3>3, <4>1
      <4>3. LostOK(j)'
        BY <1>2, <4>1 DEF LostOK
      <4>. QED  BY <1>1, <1>2, <3>1, <4>1, <4>2, <4>3, LongerQueue
    <3>. QED  BY <1>10, <3>2, <3>3
  <2>4. CASE up[j] = "putting"
    <3>. e = env[j] /\ sent'[j] = sent[j] /\ terminal[j] = "none"
      BY <2>1, <2>4 DEF Accepts, UploadOK
    <3>1. LostOK(j)' /\ Arrived(j)' = Arrived(j)
      BY <1>6, <1>7
    <3>2. reply[j] = "none" => ~Finalized(j)
      BY <2>4 DEF UploadOK
    <3>3. CASE e \in {Done, Error}
      <4>1. e.type # "chunk" /\ \A n : e # Chunk(n)
        BY <3>3, ChunkFields
      <4>2. Put(j) = Arrived(j)
        BY <4>1 DEF Put
      <4>. QED  BY <1>1, <1>2, <2>2, <3>1, <3>2, <4>1, <4>2, LongerQueue
    <3>4. CASE sent[j] > 0 /\ e = Chunk(sent[j])
      <4>1. e.type = "chunk" /\ e.n = sent[j]
        BY <3>4, ChunkFields
      <4>2. sent[j] \in 1..MaxChunks /\ sent[j] \in 1..sent[j]
        BY <1>2, <3>4
      <4>3. Chunk(sent[j]) \notin lost[j]
        BY <2>4, <3>4, <4>2 DEF LostOK
      <4>4. sent[j] \in Arrived(j)
        BY <4>2, <4>3 DEF Arrived
      <4>5. Put(j) = {n \in Arrived(j) : n # sent[j]}
        BY <2>4, <3>4, ChunkFields DEF Put
      <4>6. Put(j)' = Put(j) \cup {e.n} /\ \A n \in Put(j) : n < e.n
        BY <1>2, <1>9, <2>2, <3>1, <4>1, <4>4, <4>5
      <4>. QED  BY <1>1, <1>2, <3>1, <4>1, <4>6, LongerQueue
    <3>. QED  BY <2>4, <3>3, <3>4 DEF UploadOK
  <2>. QED  BY <2>1, <2>3, <2>4 DEF Accepts
<1>. QED  BY <1>1, <1>11, <1>12, <1>13, <1>14, <1>15, <1>16, <1>17 DEF UploadShape

(* So do the steps of its request. *)
LEMMA RequestKeepsStream ==
    ASSUME TypeOK, PlacesOK, user_disconnected \subseteq hung_up, NEW j \in Jobs,
           MemberOK(j), JobOK(j), StreamOK(j), ChatAction(j), UNCHANGED workerVars
    PROVE  StreamOK(j)'
<1>. /\ OrderOK(j) /\ LostOK(j) /\ LastOK(j) /\ WholeOK(j) /\ ReplyOK(j)
     /\ Increasing(got[j]) /\ Ordered(out_queue[j]) /\ Before(got[j], out_queue[j])
     /\ Seen(j) \subseteq Put(j) /\ (~Finalized(j) => Seen(j) = Put(j))
  BY DEF JobOK, StreamOK, OrderOK
<1>. DEFINE q == out_queue[j]
            t == Tail(q)
<1>1. ChatShape(j) /\ (Finalized(j) => Finalized(j)')
  BY ChatShapes, FinalizedStays
<1>2. Put(j)' = Put(j) /\ Arrived(j)' = Arrived(j) /\ LostOK(j)'
  BY DEF workerVars, uploadVars, Put, Arrived, LostOK
<1>3. q \in Seq(Envelopes) /\ got[j] \in Seq(Nat)
  <2>1. got[j] \in Seq(0..MaxChunks) /\ MaxChunks \in Nat
    BY RegistryAssumption DEF TypeOK, ChatTypeOK
  <2>2. got[j] \in Seq(Nat)
    BY <2>1
  <2>. QED  BY <2>2 DEF TypeOK, RegistryTypeOK
<1>4. ASSUME SameOutput(j),
             reply'[j] = "none" => reply[j] = "none",
             reply'[j] = "done" => reply[j] = "done"
      PROVE  StreamOK(j)'
  BY <1>1, <1>2, <1>4, SameQueue DEF SameOutput
<1>5. CASE Enters(j) \/ Rejects(j) \/ Idles(j) \/ Closes(j) \/ (Leaves(j) /\ SameOutput(j))
  BY <1>4, <1>5 DEF Enters, Rejects, Idles, Closes, Leaves
<1>6. ASSUME Pops(j)
      PROVE  /\ q # <<>> /\ out_queue'[j] = t
             /\ Ordered(t)
             /\ Head(q).type # "chunk" => Numbers(t) = Numbers(q)
             /\ Head(q).type = "chunk" =>
                    /\ Numbers(q) = Numbers(t) \cup {Head(q).n}
                    /\ \A n \in Numbers(t) : Head(q).n < n
             /\ \A i \in ChunksAt(t) : i + 1 \in ChunksAt(q)
             /\ Head(q) = q[1] /\ 1 \in 1..Len(q) /\ Head(q).n \in Nat
             /\ \A i \in 1..Len(t) : i + 1 \in 1..Len(q) /\ t[i] = q[i + 1]
  <2>1. q # <<>> /\ out_queue'[j] = t
    BY <1>6 DEF Pops
  <2>2. MaxChunks \in Nat /\ Head(q) \in Envelopes
    BY <1>3, <2>1, TailEnvelopes, RegistryAssumption
  <2>3. Head(q).n \in Nat
    BY <2>2 DEF Envelopes
  <2>4. /\ Head(q) = q[1] /\ 1 \in 1..Len(q)
        /\ \A i \in 1..Len(t) : i + 1 \in 1..Len(q) /\ t[i] = q[i + 1]
    BY <1>3, <2>1, TailEnvelopes
  <2>. HIDE DEF q
  <2>5. /\ Ordered(t)
        /\ Head(q).type # "chunk" => Numbers(t) = Numbers(q)
        /\ Head(q).type = "chunk" =>
               /\ Numbers(q) = Numbers(t) \cup {Head(q).n}
               /\ \A n \in Numbers(t) : Head(q).n < n
        /\ \A i \in ChunksAt(t) : i + 1 \in ChunksAt(q)
    <3>1. Ordered(q)
      BY DEF q
    <3>. QED  BY <1>3, <2>1, <3>1, TailChunk
  <2>. QED  BY <2>1, <2>3, <2>4, <2>5
<1>. HIDE DEF t
<1>7. Elements(got[j]) \subseteq Seen(j) /\ Numbers(q) \subseteq Seen(j)
  BY DEF Seen
<1>8. CASE Takes(j)
  <2>. /\ Pops(j) /\ Head(q).type = "chunk" /\ got'[j] = Append(got[j], Head(q).n)
       /\ reply'[j] = reply[j] /\ SameReason(j) /\ chat[j] \in Reads
    BY <1>8 DEF Takes
  <2>. DEFINE n == Head(q).n
  <2>1. /\ Ordered(t) /\ out_queue'[j] = t /\ n \in Nat
        /\ Numbers(q) = Numbers(t) \cup {n} /\ \A k \in Numbers(t) : n < k
    BY <1>6
  <2>. HIDE DEF n
  <2>2. /\ Elements(got'[j]) = Elements(got[j]) \cup {n}
        /\ (\A m \in Elements(got[j]) : m < n) => Increasing(got'[j])
    BY <1>3, <2>1, AppendNumber DEF n
  <2>3. Seen(j)' = Seen(j)
    BY <2>1, <2>2 DEF Seen
  <2>4. Increasing(got'[j])
    BY <2>1, <2>2 DEF Before
  <2>5. Before(got'[j], t)
    BY <2>1, <2>2 DEF Before
  <2>6. OrderOK(j)'
    BY <1>1, <1>2, <2>1, <2>3, <2>4, <2>5 DEF OrderOK
  <2>7. LastOK(j)'
    <3>1. SUFFICES ASSUME NEW i \in 1..Len(t), t[i].type = "done", reply[j] = "none"
                   PROVE  (\A k \in ChunksAt(t) : k < i) /\ Seen(j) = Arrived(j)
      BY <1>2, <2>1, <2>3 DEF LastOK
    <3>2. i + 1 \in 1..Len(q) /\ q[i + 1].type = "done"
      BY <1>6, <3>1
    <3>3. (\A k \in ChunksAt(q) : k < i + 1) /\ Seen(j) = Arrived(j)
      BY <3>1, <3>2 DEF LastOK
    <3>4. ASSUME NEW k \in ChunksAt(t) PROVE k < i
      <4>1. k + 1 < i + 1 /\ k \in 1..Len(t)
        BY <1>6, <3>3 DEF ChunksAt
      <4>. QED  BY <4>1
    <3>. QED  BY <3>3, <3>4
  <2>8. WholeOK(j)'
    BY DEF WholeOK, ReplyOK, Reads
  <2>. QED  BY <1>2, <2>6, <2>7, <2>8 DEF StreamOK
<1>9. ASSUME Pops(j), got'[j] = got[j], reply'[j] # "none",
             Seen(j)' = Seen(j) \/ Finalized(j)',
             reply'[j] = "done" => Elements(got[j]) = Arrived(j)
      PROVE  StreamOK(j)'
  <2>1. Ordered(t) /\ out_queue'[j] = t /\ Numbers(t) \subseteq Numbers(q)
    BY <1>6, <1>9
  <2>2. Before(got[j], t)
    BY <2>1 DEF Before
  <2>3. Seen(j)' \subseteq Seen(j)
    BY <1>9, <2>1 DEF Seen
  <2>4. OrderOK(j)'
    BY <1>1, <1>2, <1>9, <2>1, <2>2, <2>3 DEF OrderOK
  <2>5. LastOK(j)' /\ WholeOK(j)'
    BY <1>2, <1>9 DEF LastOK, WholeOK
  <2>. QED  BY <1>2, <2>4, <2>5 DEF StreamOK
<1>10. CASE Hears(j)
  <2>. /\ Pops(j) /\ Head(q).type \in {"done", "error"} /\ got'[j] = got[j]
       /\ reply'[j] = Head(q).type /\ chat[j] \in Reads
    BY <1>10 DEF Hears
  <2>1. Seen(j)' = Seen(j)
    BY <1>6 DEF Seen
  <2>2. ASSUME reply'[j] = "done" PROVE Elements(got[j]) = Arrived(j)
    <3>1. reply[j] = "none"
      BY DEF ReplyOK, Reads
    <3>2. (\A k \in ChunksAt(q) : k < 1) /\ Seen(j) = Arrived(j)
      BY <1>6, <2>2, <3>1 DEF LastOK
    <3>3. ChunksAt(q) \subseteq Nat \ {0}
      BY <1>3 DEF ChunksAt
    <3>4. ChunksAt(q) = {}
      BY <3>2, <3>3
    <3>. QED  BY <3>2, <3>4 DEF Seen, Numbers
  <2>. QED  BY <1>9, <2>1, <2>2
<1>11. CASE Leaves(j) /\ ~SameOutput(j)
  BY <1>9, <1>11 DEF Leaves
<1>. QED  BY <1>1, <1>5, <1>8, <1>10, <1>11 DEF ChatShape

(* A bystander's chunks stay as they are. *)
LEMMA BystanderStream ==
    ASSUME NEW k \in Jobs, StreamOK(k), JobOK(k), Bystander(k)
    PROVE  StreamOK(k)'
<1>. SameStream(k) /\ SameClient(k) /\ out_queue'[k] = out_queue[k]
  BY DEF Bystander
<1>1. Finalized(k) => Finalized(k)'
  BY DEF Bystander, Finalized
<1>2. Put(k)' = Put(k) /\ Arrived(k)' = Arrived(k) /\ LostOK(k)'
  BY DEF SameStream, Put, Arrived, LostOK, StreamOK
<1>. QED  BY <1>1, <1>2, SameQueue DEF SameClient

-----------------------------------------------------------------------------
(* Every step of the master keeps the invariant. *)
LEMMA StepOInv == OInv /\ [Next]_vars => OInv'
<1>1. SUFFICES ASSUME OInv, [Next]_vars, NEW k \in Jobs PROVE StreamOK(k)'
  BY StepCInv DEF OInv
<1>. /\ user_disconnected \subseteq hung_up /\ TypeOK /\ PlacesOK
     /\ \A j \in Jobs : JobOK(j) /\ StreamOK(j) /\ UploadOK(j) /\ ReplyOK(j) /\ MemberOK(j)
  BY <1>1, MembersOK DEF OInv, CInv, JobOK, SInv, IInv
<1>2. CASE UNCHANGED vars
  BY <1>2, UnchangedIsBystander, BystanderStream
<1>3. ASSUME NEW j \in Jobs, ChatAction(j), UNCHANGED workerVars PROVE StreamOK(k)'
  <2>1. CASE k = j
    BY <1>3, <2>1, RequestKeepsStream
  <2>2. CASE k # j
    BY <1>3, <2>2, RequestsStandBy, BystanderStream
  <2>. QED  BY <2>1, <2>2
<1>4. ASSUME NEW p \in Polls, PollAction(p), UNCHANGED chatVars PROVE StreamOK(k)'
  BY <1>4, PollsStandBy, BystanderStream
<1>5. ASSUME NEW j \in Jobs, UploadAction(j), UNCHANGED chatVars PROVE StreamOK(k)'
  <2>1. CASE k = j
    BY <1>5, <2>1, UploadKeepsStream
  <2>2. CASE k # j
    BY <1>5, <2>2, UploadsStandBy, BystanderStream
  <2>. QED  BY <2>1, <2>2
<1>. QED  BY <1>1, <1>2, <1>3, <1>4, <1>5, NextActions

(* The invariant holds in every reachable state of the master. *)
THEOREM Ordering == Spec => []OInv
BY InitOInv, StepOInv, PTL DEF Spec

(* Between on_envelope (internal.py:81-104) and the client's handler no      *)
(* chunk is lost, repeated or overtaken, but for those dropped on a full     *)
(* queue: not by the wait for room, the timers of the get(), nor the race    *)
(* of finalizers.                                                            *)
THEOREM ChunksKeepOrder == Spec => []InOrder
<1>1. OInv => InOrder
  BY OrderSuffices
<1>. QED  BY <1>1, Ordering, PTL

(* A client that is told "done" got every chunk the worker sent before it,   *)
(* except those dropped on a full queue.                                     *)
THEOREM DoneMeansComplete == Spec => []DoneIsComplete
<1>1. OInv => DoneIsComplete
  BY OrderSuffices
<1>. QED  BY <1>1, Ordering, PTL

-----------------------------------------------------------------------------
(* The steps of JobService. *)

(* Where a job is in its life, from its request and its reason. *)
LEMMA Phases ==
    ASSUME NEW k \in Jobs
    PROVE  /\ Membership =>
                  PhaseOf[k] = IF chat[k] = "new" THEN "new"
                               ELSE IF Finalized(k) THEN "closed" ELSE "open"
           /\ Membership' =>
                  PhaseOf'[k] = IF chat'[k] = "new" THEN "new"
                                ELSE IF Finalized(k)' THEN "closed" ELSE "open"
           /\ Membership /\ chat[k] = "new" => ~Finalized(k)
           /\ AnswerOf[k] = IF chat[k] = "answered" THEN reply[k] ELSE "none"
           /\ AnswerOf'[k] = IF chat'[k] = "answered" THEN reply'[k] ELSE "none"
BY DEF PhaseOf, AnswerOf, Membership

LEMMA InitService == Init => Service!ServiceInit
<1>1. SUFFICES ASSUME Init PROVE Service!ServiceInit
  OBVIOUS
<1>2. /\ \A k \in Jobs : chat[k] = "new"
      /\ assigned_worker = [j \in Jobs |-> NoWorker]
  BY <1>1 DEF Init, RegistryInit, ChatInit
<1>3. PhaseOf = [j \in Jobs |-> "new"] /\ AnswerOf = [j \in Jobs |-> "none"]
  BY <1>2 DEF PhaseOf, AnswerOf
<1>. QED  BY <1>2, <1>3 DEF Service!ServiceInit

-----------------------------------------------------------------------------
(* A step that is a bystander's to every job starts and answers none; it may *)
(* discard jobs that have not been started.                                  *)
LEMMA StandingByIsService ==
    ASSUME CInv, CInv', UNCHANGED assigned_worker, \A k \in Jobs : Bystander(k)
    PROVE  [Service!ServiceNext]_(Service!serviceVars)
<1>. Membership /\ Membership'
  BY DEF CInv, SInv
<1>. DEFINE D == {k \in Jobs : PhaseOf'[k] # PhaseOf[k]}
<1>1. ASSUME NEW k \in Jobs
      PROVE  /\ AnswerOf'[k] = AnswerOf[k]
             /\ k \in D => /\ PhaseOf[k] = "open" /\ PhaseOf'[k] = "closed"
                           /\ assigned_worker[k] = NoWorker
  <2>1. chat'[k] = chat[k] /\ reply'[k] = reply[k]
    BY DEF Bystander, SameClient
  <2>2. \/ Finalized(k)' <=> Finalized(k)
        \/ Finalized(k)' /\ ~Finalized(k) /\ ~Assigned(k) /\ chat[k] \notin Early
    BY DEF Bystander, Finalized, SilentReasons
  <2>. QED  BY <2>1, <2>2, Phases DEF Early, Assigned
<1>2. AnswerOf' = AnswerOf
  BY <1>1 DEF AnswerOf
<1>3. PhaseOf' = [k \in Jobs |-> IF k \in D THEN "closed" ELSE PhaseOf[k]]
  <2>1. DOMAIN PhaseOf' = Jobs /\ PhaseOf' = [k \in Jobs |-> PhaseOf'[k]]
    BY DEF PhaseOf
  <2>. QED  BY <1>1, <2>1
<1>4. D \in SUBSET Jobs /\ D \subseteq Service!Unstarted
  BY <1>1 DEF Service!Unstarted
<1>5. CASE D = {}
  <2>1. PhaseOf' = PhaseOf
    BY <1>3, <1>5 DEF PhaseOf
  <2>. QED  BY <1>2, <2>1 DEF Service!serviceVars
<1>6. CASE D # {}
  <2>. HIDE DEF D
  <2>1. Service!Discard(D)
    BY <1>2, <1>3, <1>4, <1>6 DEF Service!Discard
  <2>. QED  BY <1>4, <2>1 DEF Service!ServiceNext
<1>. QED  BY <1>5, <1>6

(* An assignment starts its job, within the capacity of the worker. *)
LEMMA AssignStarts ==
    ASSUME CInv, NEW p \in Polls, Assign(p), UNCHANGED chatVars
    PROVE  Service!ServiceNext
<1>. /\ TypeOK /\ PlacesOK /\ HoldingOK /\ PermitsConserved /\ Membership
  BY DEF CInv, SInv, IInv
<1>. DEFINE h == hand[p]
            w == PollWorker[p]
<1>1. /\ h \in Jobs /\ w \in Workers /\ h \in in_flight /\ sem[w] \in Nat /\ sem[w] > 0
      /\ chat[h] \notin Early /\ ~Assigned(h)
  BY WorkerAssumption, SkipReasonType DEF TypeOK, RegistryTypeOK, Assign, PlacesOK, HandOK
<1>2. /\ assigned_worker' = [assigned_worker EXCEPT ![h] = w]
      /\ UNCHANGED <<in_flight, chat, reply>>
  BY DEF Assign, Handover, queueVars, chatVars
<1>3. PhaseOf' = PhaseOf /\ AnswerOf' = AnswerOf
  BY <1>2 DEF PhaseOf, AnswerOf
<1>4. h \in Service!Unstarted
  BY <1>1 DEF Service!Unstarted, PhaseOf, Early, Assigned
<1>5. Service!Busy(w) = Running(w)
  BY <1>1, WorkerAssumption, RegistryAssumption
  DEF Service!Busy, Running, PhaseOf, PlacesOK, Assigned, Early, TypeOK, RegistryTypeOK
<1>6. Cardinality(Running(w)) < MaxConcurrent
  <2>1. IsFiniteSet(Running(w))
    BY JobSetsFinite DEF Running, TypeOK, RegistryTypeOK
  <2>2. Cardinality(Running(w)) \in Nat
    BY <2>1, FS_CardinalityType
  <2>3. sem[w] + Cardinality(Running(w)) = MaxConcurrent
    BY <1>1 DEF PermitsConserved
  <2>. QED  BY <1>1, <2>2, <2>3
<1>7. Service!Cardinality(Running(w)) = Cardinality(Running(w))
  BY DEF Service!Cardinality, Cardinality
<1>8. Service!Start(h, w)
  BY <1>2, <1>3, <1>4, <1>5, <1>6, <1>7 DEF Service!Start
<1>. QED  BY <1>1, <1>8 DEF Service!ServiceNext

(* What a poll does otherwise. *)
LEMMA PollsServe ==
    ASSUME CInv, CInv', NEW p \in Polls, PollAction(p), UNCHANGED chatVars
    PROVE  [Service!ServiceNext]_(Service!serviceVars)
<1>. TypeOK /\ PlacesOK
  BY DEF CInv, SInv, IInv
<1>1. CASE Assign(p)
  BY <1>1, AssignStarts
<1>2. CASE ~Assign(p)
  <2>1. UNCHANGED assigned_worker
    BY <1>2 DEF PollAction, PollStart, PollGet, PollGiveUp, AcquiredForDead,
                AcquireTimeout, PruneAndGet, registryVars, permitVars
  <2>. QED  BY <2>1, PollsStandBy, StandingByIsService
<1>. QED  BY <1>1, <1>2

(* A step that finalizes at most one job, and tells no client, finishes it. *)
LEMMA FinishOne ==
    ASSUME UNCHANGED assigned_worker, NEW j \in Jobs, AnswerOf' = AnswerOf,
           \A k \in Jobs \ {j} : PhaseOf'[k] = PhaseOf[k],
           PhaseOf'[j] = PhaseOf[j] \/ (PhaseOf[j] = "open" /\ PhaseOf'[j] = "closed")
    PROVE  [Service!ServiceNext]_(Service!serviceVars)
<1>1. PhaseOf' = [k \in Jobs |-> PhaseOf'[k]] /\ PhaseOf = [k \in Jobs |-> PhaseOf[k]]
  BY DEF PhaseOf
<1>2. CASE PhaseOf'[j] = PhaseOf[j]
  <2>1. PhaseOf' = PhaseOf
    BY <1>1, <1>2
  <2>. QED  BY <2>1 DEF Service!serviceVars
<1>3. CASE PhaseOf[j] = "open" /\ PhaseOf'[j] = "closed"
  <2>1. PhaseOf' = [PhaseOf EXCEPT ![j] = "closed"]
    BY <1>1, <1>3
  <2>2. Service!Finish(j)
    BY <1>3, <2>1 DEF Service!Finish
  <2>. QED  BY <2>2 DEF Service!ServiceNext
<1>. QED  BY <1>2, <1>3

(* An upload finishes its job or does nothing to it. *)
LEMMA UploadsServe ==
    ASSUME CInv, CInv', NEW j \in Jobs, UploadAction(j), UNCHANGED chatVars
    PROVE  [Service!ServiceNext]_(Service!serviceVars)
<1>. TypeOK /\ PlacesOK /\ Membership /\ Membership' /\ UploadOK(j)
  BY DEF CInv, SInv, IInv, JobOK
<1>1. UNCHANGED <<assigned_worker, chat, reply>>
  BY UploadIsQuiet DEF chatVars
<1>2. AnswerOf' = AnswerOf
  BY <1>1 DEF AnswerOf
<1>3. \A k \in Jobs \ {j} : PhaseOf'[k] = PhaseOf[k]
  <2>1. \A k \in Jobs \ {j} : Finalized(k)' <=> Finalized(k)
    BY UploadShapes DEF SameReason, Finalized
  <2>. QED  BY <1>1, <2>1, Phases
<1>4. PhaseOf'[j] = PhaseOf[j] \/ (PhaseOf[j] = "open" /\ PhaseOf'[j] = "closed")
  <2>1. Finalized(j) => Finalized(j)'
    BY FinalizedStays
  <2>2. Membership' /\ chat'[j] = "new" => ~Finalized(j)'
    BY DEF Membership
  <2>. QED  BY <1>1, <2>1, <2>2, Phases
<1>. QED  BY <1>1, <1>2, <1>3, <1>4, FinishOne

-----------------------------------------------------------------------------
(* A request submits its job, *)
LEMMA ArriveSubmits ==
    ASSUME CInv, CInv', NEW j \in Jobs, Arrive(j), UNCHANGED workerVars
    PROVE  Service!ServiceNext
<1>. /\ TypeOK /\ PlacesOK /\ Membership /\ Membership' /\ MemberOK(j) /\ ReplyOK(j)
     /\ user_disconnected \subseteq hung_up /\ ChatAction(j)
  BY MembersOK DEF CInv, SInv, IInv, JobOK, ChatAction
<1>. DEFINE D == {k \in Jobs \ {j} : PhaseOf'[k] # PhaseOf[k]}
<1>1. UNCHANGED assigned_worker
  BY RequestPlaces
<1>2. chat[j] = "new" /\ chat'[j] \in {"putting", "top"} /\ SameReason(j)
  <2>1. chat[j] = "new" /\ chat'[j] \in {"putting", "top"}
    BY DEF Arrive, Goto, TypeOK, ChatTypeOK
  <2>. QED  BY <2>1, ChatShapes DEF ChatShape, Enters, Rejects, Idles, Takes, Hears, Leaves,
                Closes, Reads
<1>3. PhaseOf[j] = "new" /\ PhaseOf'[j] = "open" /\ AnswerOf'[j] = AnswerOf[j]
  <2>1. ~Finalized(j)'
    BY <1>2 DEF SameReason, Finalized, Membership
  <2>. QED  BY <1>2, <2>1, Phases
<1>4. ASSUME NEW k \in Jobs \ {j}
      PROVE  /\ AnswerOf'[k] = AnswerOf[k]
             /\ k \in D => /\ PhaseOf[k] = "open" /\ PhaseOf'[k] = "closed"
                           /\ assigned_worker[k] = NoWorker
  <2>1. chat'[k] = chat[k] /\ reply'[k] = reply[k]
    BY ChatShapes DEF SameClient
  <2>2. \/ Finalized(k)' <=> Finalized(k)
        \/ Finalized(k)' /\ ~Finalized(k) /\ ~Assigned(k) /\ chat[k] \notin Early
    BY RequestPlaces DEF Finalized, SilentReasons
  <2>. QED  BY <2>1, <2>2, Phases DEF Early, Assigned
<1>5. AnswerOf' = AnswerOf
  BY <1>3, <1>4 DEF AnswerOf
<1>6. PhaseOf' = [k \in Jobs |-> IF k = j THEN "open"
                                 ELSE IF k \in D THEN "closed" ELSE PhaseOf[k]]
  <2>1. PhaseOf' = [k \in Jobs |-> PhaseOf'[k]]
    BY DEF PhaseOf
  <2>. QED  BY <1>3, <1>4, <2>1
<1>7. D \in SUBSET Jobs /\ D \subseteq Service!Unstarted
  BY <1>4 DEF Service!Unstarted
<1>. HIDE DEF D
<1>8. Service!Submit(j, D)
  BY <1>1, <1>3, <1>5, <1>6, <1>7 DEF Service!Submit
<1>. QED  BY <1>7, <1>8 DEF Service!ServiceNext

(* and what it does later, to no job but its own, finishes or answers it.    *)
LEMMA OthersKeepReason ==
    ASSUME TypeOK, NEW j \in Jobs, ChatAction(j), ~Arrive(j), NEW k \in Jobs \ {j}
    PROVE  final_reason'[k] = final_reason[k]
<1>1. ASSUME NEW r, finalize(j, r) PROVE final_reason'[k] = final_reason[k]
  BY <1>1, FinalizeOne
<1>2. UserTimeout(j) => final_reason'[k] = final_reason[k]
  BY <1>1 DEF UserTimeout, registryVars, jobVars
<1>. QED  BY <1>1, <1>2 DEF ChatAction, Enqueue, PutTimeout, Reject, SeeHangup, DeadlineAtTop,
     Await, TakeGone, TakeChunk, TakeEnd, GetTimeout, WriteDone, LastWriteDone, Cancelled,
     Close, WatchHangup, WatchFails, Expire, HangUp, registryVars, jobVars

LEMMA RequestsServe ==
    ASSUME CInv, CInv', NEW j \in Jobs, ChatAction(j), ~Arrive(j), UNCHANGED workerVars
    PROVE  [Service!ServiceNext]_(Service!serviceVars)
<1>. /\ TypeOK /\ PlacesOK /\ Membership /\ Membership' /\ MemberOK(j) /\ ReplyOK(j)
     /\ user_disconnected \subseteq hung_up
  BY MembersOK DEF CInv, SInv, IInv, JobOK
<1>1. UNCHANGED assigned_worker /\ ChatShape(j)
  BY RequestPlaces, ChatShapes
<1>2. \A k \in Jobs \ {j} : PhaseOf'[k] = PhaseOf[k] /\ AnswerOf'[k] = AnswerOf[k]
  <2>1. ASSUME NEW k \in Jobs \ {j}
        PROVE  (Finalized(k)' <=> Finalized(k)) /\ SameClient(k)
    BY OthersKeepReason, ChatShapes DEF Finalized
  <2>. QED  BY <2>1, Phases DEF SameClient
<1>3. chat'[j] = "new" <=> chat[j] = "new"
  BY RequestSettles DEF RequestStep
<1>4. PhaseOf'[j] = PhaseOf[j] \/ (PhaseOf[j] = "open" /\ PhaseOf'[j] = "closed")
  <2>1. Finalized(j) => Finalized(j)'
    BY FinalizedStays
  <2>. QED  BY <1>3, <2>1, Phases
<1>5. CASE chat'[j] # "answered" \/ chat[j] = "answered"
  <2>1. AnswerOf'[j] = AnswerOf[j]
    <3>1. chat[j] = "answered" => chat'[j] = "answered" /\ reply'[j] = reply[j]
      BY <1>1 DEF ChatShape, Enters, Rejects, Idles, Takes, Hears, Leaves, Closes, Reads, Early
    <3>. QED  BY <1>5, <3>1, Phases
  <2>2. AnswerOf' = AnswerOf
    BY <1>2, <2>1 DEF AnswerOf
  <2>. QED  BY <1>1, <1>2, <1>4, <2>2, FinishOne
<1>6. CASE chat'[j] = "answered" /\ chat[j] # "answered"
  <2>1. AnswerOf[j] = "none" /\ AnswerOf'[j] = reply'[j]
    BY <1>6, Phases
  <2>2. PhaseOf'[j] = "closed" /\ PhaseOf[j] \in {"open", "closed"}
    <3>1. j \notin in_flight'
      BY <1>6 DEF CInv, SInv, AnsweredIsReleased
    <3>2. PhaseOf'[j] = "closed"
      BY <1>6, <3>1 DEF PhaseOf
    <3>. QED  BY <1>4, <3>2
  <2>3. /\ reply'[j] \in Service!Answers
        /\ reply'[j] \in {"done", "error"} => assigned_worker[j] # NoWorker
        /\ reply'[j] = "rejected" => assigned_worker[j] = NoWorker
    <3>. ReplyOK(j)' /\ CauseOK(j)' /\ UploadOK(j) /\ TypeOK'
      BY DEF CInv, JobOK, SInv, IInv
    <3>1. reply'[j] \in Service!Answers
      BY <1>6 DEF ReplyOK, Service!Answers, TypeOK, ChatTypeOK, Replies
    <3>2. reply'[j] \in {"done", "error"} => terminal[j] # "none"
      BY DEF CauseOK, UploadReasons, workerVars, uploadVars
    <3>3. reply'[j] = "rejected" => assigned_worker[j] = NoWorker
      BY <1>1 DEF CauseOK, Placed, Assigned
    <3>. QED  BY <3>1, <3>2, <3>3 DEF UploadOK, Assigned
  <2>4. /\ PhaseOf' = [PhaseOf EXCEPT ![j] = "closed"]
        /\ AnswerOf' = [AnswerOf EXCEPT ![j] = reply'[j]]
    <3>1. /\ PhaseOf' = [k \in Jobs |-> PhaseOf'[k]] /\ PhaseOf = [k \in Jobs |-> PhaseOf[k]]
          /\ AnswerOf' = [k \in Jobs |-> AnswerOf'[k]] /\ AnswerOf = [k \in Jobs |-> AnswerOf[k]]
      BY DEF PhaseOf, AnswerOf
    <3>2. PhaseOf' = [PhaseOf EXCEPT ![j] = "closed"]
      BY <1>2, <2>2, <3>1
    <3>3. AnswerOf' = [AnswerOf EXCEPT ![j] = reply'[j]]
      BY <1>2, <2>1, <3>1
    <3>. QED  BY <3>2, <3>3
  <2>5. Service!Answer(j, reply'[j])
    BY <1>1, <2>1, <2>2, <2>3, <2>4 DEF Service!Answer
  <2>. QED  BY <2>3, <2>5 DEF Service!ServiceNext
<1>. QED  BY <1>5, <1>6

-----------------------------------------------------------------------------
(* Every step of the master is a step of the service, or none. *)
LEMMA StepService ==
    CInv /\ CInv' /\ [Next]_vars => [Service!ServiceNext]_(Service!serviceVars)
<1>1. SUFFICES ASSUME CInv, CInv', [Next]_vars
               PROVE  [Service!ServiceNext]_(Service!serviceVars)
  OBVIOUS
<1>2. CASE UNCHANGED vars
  <2>1. UNCHANGED assigned_worker
    BY <1>2 DEF vars, registryVars, permitVars
  <2>. QED  BY <1>1, <1>2, <2>1, UnchangedIsBystander, StandingByIsService
<1>3. ASSUME NEW j \in Jobs, ChatAction(j), UNCHANGED workerVars
      PROVE  [Service!ServiceNext]_(Service!serviceVars)
  BY <1>1, <1>3, ArriveSubmits, RequestsServe
<1>4. ASSUME NEW p \in Polls, PollAction(p), UNCHANGED chatVars
      PROVE  [Service!ServiceNext]_(Service!serviceVars)
  BY <1>1, <1>4, PollsServe
<1>5. ASSUME NEW j \in Jobs, UploadAction(j), UNCHANGED chatVars
      PROVE  [Service!ServiceNext]_(Service!serviceVars)
  BY <1>1, <1>5, UploadsServe
<1>. QED  BY <1>1, <1>2, <1>3, <1>4, <1>5, NextActions

(* ImplementsService: with all its queues, semaphores, timers and races, the *)
(* master gives a job to at most one worker, within that worker's capacity,  *)
(* closes it once, answers it once it is closed, and says "done" only of a   *)
(* job a worker had.                                                         *)
THEOREM MasterKeepsTheService == Spec => ImplementsService
<1>1. Spec => Service!ServiceInit /\ [][Service!ServiceNext]_(Service!serviceVars)
  BY Causes, InitService, StepService, PTL DEF Spec
<1>. QED  BY <1>1 DEF ImplementsService, Service!ServiceSpec
=============================================================================
