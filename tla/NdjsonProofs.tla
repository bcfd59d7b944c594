---------------------------- MODULE NdjsonProofs ----------------------------
(***************************************************************************)
(* The upload parser, proved for bodies of any length, cut in any way: what *)
(* it has given out are the JSON lines of what has arrived.                 *)
(***************************************************************************)
EXTENDS Ndjson, SelectionProofs

\* How many bytes of the body have been made into lines.
Read == Len(arrived) - Len(buf)

\* The envelopes of the lines of s that end by position n.
JsonEnds(s, n)  == {i \in Ends(s) : i <= n /\ IsJson(LineAt(s, i))}
Envelopes(s, n) == Select(LinesOf(s), JsonEnds(s, n))

\* No newline from a to b.
Unbroken(s, a, b) == \A k \in a..b : s[k] # "nl"

\* The inductive invariant: the buffer is the end of what has arrived, cut off
\* after a newline, and the lines before it have been given out.
ParserTypeOK ==
    /\ arrived \in Seq(Bytes) /\ rest \in Seq(Bytes) /\ buf \in Seq(Bytes)
    /\ pc \in {"reading", "splitting", "ended", "broken"}

BufferOK ==
    /\ Read \in Nat
    /\ \A i \in 1..Len(buf) : buf[i] = arrived[Read + i]
    /\ Read > 0 => arrived[Read] = "nl"
    /\ pc \in {"reading", "broken"} => Unbroken(buf, 1, Len(buf))

OutOK == out = Envelopes(arrived, IF pc = "ended" THEN Len(arrived) + 1 ELSE Read)

ParserInv == ParserTypeOK /\ BufferOK /\ OutOK

-----------------------------------------------------------------------------
(* Before every position there is a last newline, or none. *)
LEMMA LastNewline ==
    ASSUME NEW s
    PROVE  \A i \in Nat : \E n \in 0..i : (n > 0 => s[n] = "nl") /\ Unbroken(s, n + 1, i)
<1>. DEFINE Ok(i) == \E n \in 0..i : (n > 0 => s[n] = "nl") /\ Unbroken(s, n + 1, i)
            S == {i \in Nat : Ok(i)}
<1>1. 0 \in S
  BY DEF Unbroken
<1>2. ASSUME NEW i \in Nat, i \in S  PROVE i + 1 \in S
  <2>1. CASE s[i + 1] = "nl"
    BY <2>1 DEF Unbroken
  <2>2. CASE s[i + 1] # "nl"
    <3>1. PICK n \in 0..i : (n > 0 => s[n] = "nl") /\ Unbroken(s, n + 1, i)
      BY <1>2
    <3>2. n \in 0..(i + 1) /\ Unbroken(s, n + 1, i + 1)
      BY <2>2, <3>1 DEF Unbroken
    <3>. QED  BY <3>1, <3>2
  <2>. QED  BY <2>1, <2>2
<1>. HIDE DEF Ok
<1>3. Nat \subseteq S
  BY <1>1, <1>2, NatSetInduction
<1>. QED  BY <1>3 DEF Ok

(* The line that ends before i starts after the last newline before i. *)
LEMMA LineFrom ==
    ASSUME NEW s \in Seq(Bytes), NEW i \in 1..(Len(s) + 1), NEW n \in 0..(i - 1),
           n > 0 => s[n] = "nl", Unbroken(s, n + 1, i - 1)
    PROVE  LineAt(s, i) = Strip(SubSeq(s, n + 1, i - 1))
<1>. DEFINE before == {k \in Indices(s, "nl") : k < i}
<1>1. \A k \in before : k \in 1..n
  BY DEF Indices, Unbroken
<1>2. CASE n = 0
  <2>1. before = {}
    BY <1>1, <1>2
  <2>. QED  BY <1>2, <2>1 DEF LineAt
<1>3. CASE n > 0
  <2>1. n \in before
    BY <1>3 DEF Indices
  <2>2. (CHOOSE k \in before : \A l \in before : l <= k) = n
    <3>1. \A l \in before : l <= n
      BY <1>1
    <3>2. \A k \in before : (\A l \in before : l <= k) => k = n
      BY <1>1, <2>1
    <3>. HIDE DEF before
    <3>. QED  BY <2>1, <3>1, <3>2
  <2>3. before # {} /\ 1 + n = n + 1
    BY <2>1
  <2>. QED  BY <2>2, <2>3 DEF LineAt
<1>. QED  BY <1>2, <1>3

(* A line depends on nothing that comes after it. *)
LEMMA LinesStay ==
    ASSUME NEW s \in Seq(Bytes), NEW t \in Seq(Bytes), Len(s) <= Len(t),
           \A k \in 1..Len(s) : s[k] = t[k], NEW i \in 1..(Len(s) + 1)
    PROVE  LineAt(s, i) = LineAt(t, i)
<1>1. i - 1 \in Nat /\ \A k \in 1..(i - 1) : k \in 1..Len(s) /\ s[k] = t[k]
  OBVIOUS
<1>2. PICK n \in 0..(i - 1) : (n > 0 => s[n] = "nl") /\ Unbroken(s, n + 1, i - 1)
  BY <1>1, LastNewline
<1>3. (n > 0 => t[n] = "nl") /\ Unbroken(t, n + 1, i - 1) /\ i \in 1..(Len(t) + 1)
  BY <1>1, <1>2 DEF Unbroken
<1>4. SubSeq(s, n + 1, i - 1) = SubSeq(t, n + 1, i - 1)
  <2>1. \A k \in (n + 1)..(i - 1) : s[k] = t[k] /\ s[k] \in Bytes /\ t[k] \in Bytes
    BY <1>1
  <2>. QED  BY <1>1, <2>1, SubSeqProperties, SeqEqual
<1>. QED  BY <1>2, <1>3, <1>4, LineFrom

(* Nor do the envelopes of the lines that are complete. *)
LEMMA EnvelopesStay ==
    ASSUME NEW s \in Seq(Bytes), NEW t \in Seq(Bytes), Len(s) <= Len(t),
           \A k \in 1..Len(s) : s[k] = t[k], NEW n \in 0..Len(s)
    PROVE  Envelopes(s, n) = Envelopes(t, n)
<1>1. ASSUME NEW i \in 1..n
      PROVE  (i \in Ends(s) <=> i \in Ends(t)) /\ LineAt(s, i) = LineAt(t, i)
  BY LinesStay DEF Ends, Indices
<1>2. \A i \in Ends(s) \cup Ends(t) : i \in Nat \ {0}
  BY DEF Ends, Indices
<1>3. JsonEnds(s, n) = JsonEnds(t, n)
  BY <1>1, <1>2 DEF JsonEnds
<1>4. JsonEnds(s, n) \in SUBSET (1..n)
  BY <1>2 DEF JsonEnds
<1>5. \A i \in JsonEnds(s, n) : LinesOf(s)[i] = LinesOf(t)[i]
  BY <1>1, <1>3, <1>4 DEF LinesOf, JsonEnds
<1>6. n \in Nat
  OBVIOUS
<1>7. Select(LinesOf(s), JsonEnds(s, n)) = Select(LinesOf(t), JsonEnds(s, n))
  BY <1>4, <1>5, <1>6, SelectSame
<1>. QED  BY <1>3, <1>7 DEF Envelopes

(* The next line adds its envelope, if it is one. *)
LEMMA OneLine ==
    ASSUME NEW s \in Seq(Bytes), NEW m \in Ends(s), NEW n \in 0..(m - 1),
           n > 0 => s[n] = "nl", Unbroken(s, n + 1, m - 1)
    PROVE  LET line == Strip(SubSeq(s, n + 1, m - 1))
           IN  Envelopes(s, m) = IF IsJson(line) THEN Append(Envelopes(s, n), line)
                                 ELSE Envelopes(s, n)
<1>1. m \in 1..(Len(s) + 1) /\ \A i \in Ends(s) : i \in 1..(Len(s) + 1)
  BY DEF Ends, Indices
<1>2. LineAt(s, m) = Strip(SubSeq(s, n + 1, m - 1))
  BY <1>1, LineFrom
<1>3. \A i \in Ends(s) : i <= m <=> i <= n \/ i = m
  BY <1>1 DEF Ends, Indices, Unbroken
<1>n. n \in Nat /\ m \in Nat /\ n < m
  BY <1>1
<1>4. JsonEnds(s, n) \in SUBSET (1..n) /\ \A i \in JsonEnds(s, n) : i < m
  <2>1. ASSUME NEW i \in JsonEnds(s, n)  PROVE i \in 1..n /\ i < m
    <3>1. i \in 1..(Len(s) + 1) /\ i <= n
      BY <1>1 DEF JsonEnds
    <3>. QED  BY <1>n, <3>1
  <2>. QED  BY <2>1
<1>5. CASE IsJson(LineAt(s, m))
  <2>1. JsonEnds(s, m) = JsonEnds(s, n) \cup {m}
    BY <1>1, <1>3, <1>5 DEF JsonEnds
  <2>2. Envelopes(s, m) = Append(Envelopes(s, n), LinesOf(s)[m])
    BY <1>4, <1>n, <2>1, SelectLast DEF Envelopes
  <2>. QED  BY <1>2, <1>5, <2>2 DEF LinesOf
<1>6. CASE ~ IsJson(LineAt(s, m))
  <2>1. JsonEnds(s, m) = JsonEnds(s, n)
    BY <1>1, <1>3, <1>6 DEF JsonEnds
  <2>. QED  BY <1>2, <1>6, <2>1 DEF Envelopes
<1>. QED  BY <1>5, <1>6

(* All lines end by the end. *)
LEMMA AllEnvelopes ==
    ASSUME NEW s \in Seq(Bytes)
    PROVE  EnvelopesOf(s) = Envelopes(s, Len(s) + 1)
<1>1. \A i \in Ends(s) : i <= Len(s) + 1 /\ LinesOf(s)[i] = LineAt(s, i)
  BY DEF Ends, Indices, LinesOf
<1>2. {i \in DOMAIN LinesOf(s) : IsJson(LinesOf(s)[i])} = JsonEnds(s, Len(s) + 1)
  BY <1>1 DEF LinesOf, JsonEnds
<1>. QED  BY <1>2 DEF EnvelopesOf, Filter, Envelopes

(* What is complete ends with an empty line, which is no envelope. *)
LEMMA CompleteEnvelopes ==
    ASSUME NEW s \in Seq(Bytes), Len(s) > 0 => s[Len(s)] = "nl"
    PROVE  EnvelopesOf(s) = Envelopes(s, Len(s))
<1>1. Strip(SubSeq(s, Len(s) + 1, Len(s))) = <<>>
  <2>1. SubSeq(s, Len(s) + 1, Len(s)) = <<>>
    BY SubSeqEmpty
  <2>. QED  BY <2>1 DEF Strip
<1>2. ~ IsJson(<<>>)
  BY DEF IsJson
<1>3. /\ Len(s) + 1 \in Ends(s) /\ Len(s) \in 0..((Len(s) + 1) - 1)
      /\ (Len(s) + 1) - 1 = Len(s) /\ Unbroken(s, Len(s) + 1, Len(s))
  BY DEF Ends, Unbroken
<1>4. Envelopes(s, Len(s) + 1) = Envelopes(s, Len(s))
  BY <1>1, <1>2, <1>3, OneLine
<1>. QED  BY <1>4, AllEnvelopes

(* The next line of the buffer, or what is left in it, adds its envelope. *)
LEMMA BufferLine ==
    ASSUME ParserTypeOK, BufferOK, NEW f \in 1..(Len(buf) + 1), Unbroken(buf, 1, f - 1),
           f <= Len(buf) => buf[f] = "nl", out = Envelopes(arrived, Read)
    PROVE  Deliver(SubSeq(buf, 1, f - 1)) = Envelopes(arrived, Read + f)
<1>. DEFINE m == Read + f
            line == Strip(SubSeq(buf, 1, f - 1))
<1>1. Read \in Nat /\ Len(arrived) \in Nat /\ Len(buf) \in Nat /\ Read + Len(buf) = Len(arrived)
  BY DEF ParserTypeOK, BufferOK, Read
<1>2. m \in Ends(arrived) /\ Read \in 0..(m - 1)
  <2>1. CASE f <= Len(buf)
    <3>1. arrived[m] = "nl" /\ m \in 1..Len(arrived)
      BY <1>1, <2>1 DEF BufferOK
    <3>. QED  BY <1>1, <3>1 DEF Ends, Indices
  <2>2. CASE f = Len(buf) + 1
    BY <1>1, <2>2 DEF Ends
  <2>. QED  BY <1>1, <2>1, <2>2
<1>3. \A k \in (Read + 1)..(m - 1) : k - Read \in 1..(f - 1) /\ arrived[k] = buf[k - Read]
  <2>1. ASSUME NEW k \in (Read + 1)..(m - 1)
        PROVE  k - Read \in 1..(f - 1) /\ arrived[k] = buf[k - Read]
    <3>1. k - Read \in 1..(f - 1) /\ k - Read \in 1..Len(buf) /\ Read + (k - Read) = k
      BY <1>1
    <3>. QED  BY <3>1 DEF BufferOK
  <2>. QED  BY <2>1
<1>4. Unbroken(arrived, Read + 1, m - 1)
  BY <1>3 DEF Unbroken
<1>5. SubSeq(buf, 1, f - 1) = SubSeq(arrived, Read + 1, m - 1)
  <2>1. /\ \A k \in (Read + 1)..(m - 1) : arrived[k] \in Bytes
        /\ \A k \in 1..(f - 1) : buf[k] \in Bytes
    BY <1>1 DEF ParserTypeOK
  <2>. DEFINE u == SubSeq(buf, 1, f - 1)
              v == SubSeq(arrived, Read + 1, m - 1)
  <2>2. /\ u \in Seq(Bytes) /\ Len(u) = f - 1 /\ \A k \in 1..(f - 1) : u[k] = buf[k]
    BY <1>1, <2>1, SubSeqProperties
  <2>3. /\ v \in Seq(Bytes) /\ Len(v) = f - 1
        /\ \A k \in 1..(f - 1) : v[k] = arrived[Read + k]
    BY <1>1, <2>1, SubSeqProperties
  <2>4. \A k \in 1..(f - 1) : buf[k] = arrived[Read + k]
    BY <1>1 DEF BufferOK
  <2>. HIDE DEF u, v
  <2>5. u = v
    BY <2>2, <2>3, <2>4, SeqEqual
  <2>. QED  BY <2>5 DEF u, v
<1>6. Envelopes(arrived, m) = IF IsJson(line) THEN Append(Envelopes(arrived, Read), line)
                              ELSE Envelopes(arrived, Read)
  <2>1. arrived \in Seq(Bytes) /\ Read > 0 => arrived[Read] = "nl"
    BY DEF BufferOK
  <2>2. arrived \in Seq(Bytes)
    BY DEF ParserTypeOK
  <2>. HIDE DEF m
  <2>. QED  BY <1>2, <1>4, <1>5, <2>1, <2>2, OneLine
<1>. QED  BY <1>6 DEF Deliver

(* The first newline of the buffer. *)
LEMMA FindFirst ==
    ASSUME NEW s \in Seq(Bytes)
    PROVE  /\ Find(s) = 0 => Unbroken(s, 1, Len(s))
           /\ Find(s) > 0 => /\ Find(s) \in 1..Len(s) /\ s[Find(s)] = "nl"
                             /\ Unbroken(s, 1, Find(s) - 1)
<1>1. CASE Indices(s, "nl") = {}
  BY <1>1 DEF Find, Indices, Unbroken
<1>2. CASE Indices(s, "nl") # {}
  <2>. DEFINE I == Indices(s, "nl")
  <2>1. \E i \in I : \A k \in I : i <= k
    <3>1. I \subseteq Nat /\ I # {}
      BY <1>2 DEF Indices
    <3>2. PICK x \in I : \A y \in I : ~ (<<y, x>> \in OpToRel(<, Nat))
      <4>. HIDE DEF I
      <4>. QED  BY <3>1, NatLessThanWellFounded, WFMin, Zenon
    <3>3. ASSUME NEW y \in I  PROVE x <= y
      <4>1. x \in Nat /\ y \in Nat
        BY <3>1, <3>2
      <4>2. ~ (y < x)
        BY <3>2, <3>3, <4>1 DEF OpToRel
      <4>. QED  BY <4>1, <4>2
    <3>. QED  BY <3>2, <3>3
  <2>2. Find(s) \in I /\ \A k \in I : Find(s) <= k
    BY <1>2, <2>1 DEF Find
  <2>. QED  BY <2>2 DEF Indices, Unbroken
<1>. QED  BY <1>1, <1>2

-----------------------------------------------------------------------------
(* At the beginning nothing has arrived. *)
LEMMA InitParser == Init => ParserInv
<1>1. SUFFICES ASSUME Init PROVE ParserInv
  OBVIOUS
<1>2. arrived = <<>> /\ buf = <<>> /\ out = <<>> /\ pc = "reading" /\ Read = 0
  BY <1>1 DEF Init, Read
<1>3. rest \in Seq(Bytes)
  <2>1. PICK n \in 0..MaxLen : rest \in [1..n -> Bytes]
    BY <1>1 DEF Init, Bodies
  <2>2. n \in Nat
    BY MaxLenAssumption
  <2>. QED  BY <2>1, <2>2
<1>4. Envelopes(<<>>, 0) = <<>>
  <2>1. JsonEnds(<<>>, 0) = {}
    BY DEF JsonEnds, Ends, Indices
  <2>. QED  BY <2>1, SelectNone DEF Envelopes
<1>. QED  BY <1>2, <1>3, <1>4 DEF ParserInv, ParserTypeOK, BufferOK, OutOK, Unbroken

(* A chunk is put at the end of the buffer; the lines before it stay. *)
LEMMA ChunkParser ==
    ASSUME ParserInv, NEW n \in 1..Len(rest), Chunk(n)
    PROVE  ParserInv'
<1>. DEFINE c == SubSeq(rest, 1, n)
<1>1. c \in Seq(Bytes) /\ Len(c) = n
  BY SubSeqProperties DEF ParserInv, ParserTypeOK
<1>2. SubSeq(rest, n + 1, Len(rest)) \in Seq(Bytes)
  BY SubSeqProperties DEF ParserInv, ParserTypeOK
<1>3. arrived' = arrived \o c /\ buf' = buf \o c /\ pc' = "splitting" /\ out' = out
      /\ pc = "reading" /\ rest' = SubSeq(rest, n + 1, Len(rest))
  BY DEF Chunk
<1>. HIDE DEF c
<1>4. ParserTypeOK'
  BY <1>1, <1>2, <1>3 DEF ParserInv, ParserTypeOK
<1>5. /\ Len(arrived') = Len(arrived) + n /\ Len(buf') = Len(buf) + n
      /\ \A i \in 1..Len(arrived) : arrived'[i] = arrived[i]
      /\ \A i \in 1..(Len(buf) + n) : buf'[i] = IF i <= Len(buf) THEN buf[i] ELSE c[i - Len(buf)]
      /\ \A i \in 1..(Len(arrived) + n) :
            arrived'[i] = IF i <= Len(arrived) THEN arrived[i] ELSE c[i - Len(arrived)]
  <2>1. arrived \in Seq(Bytes) /\ buf \in Seq(Bytes) /\ n \in Nat
        /\ Len(arrived) \in Nat /\ Len(buf) \in Nat
    BY DEF ParserInv, ParserTypeOK
  <2>2. Len(buf') = Len(buf) + n
        /\ \A i \in 1..(Len(buf) + n) :
               buf'[i] = IF i <= Len(buf) THEN buf[i] ELSE c[i - Len(buf)]
    BY <1>1, <1>3, <2>1, ConcatProperties
  <2>3. Len(arrived') = Len(arrived) + n
        /\ \A i \in 1..(Len(arrived) + n) :
               arrived'[i] = IF i <= Len(arrived) THEN arrived[i] ELSE c[i - Len(arrived)]
    BY <1>1, <1>3, <2>1, ConcatProperties
  <2>4. \A i \in 1..Len(arrived) : i \in 1..(Len(arrived) + n) /\ i <= Len(arrived)
    BY <2>1
  <2>. QED  BY <2>2, <2>3, <2>4
<1>6. Len(arrived) \in Nat /\ Len(buf) \in Nat /\ Read' = Read /\ Read \in 0..Len(arrived)
      /\ Read + Len(buf) = Len(arrived)
  BY <1>5 DEF ParserInv, ParserTypeOK, BufferOK, Read
<1>7. BufferOK'
  <2>1. ASSUME NEW i \in 1..Len(buf')  PROVE buf'[i] = arrived'[Read' + i]
    <3>0. i \in 1..(Len(buf) + n) /\ Read + i \in 1..(Len(arrived) + n) /\ Read' + i = Read + i
      BY <1>5, <1>6
    <3>1. CASE i \in 1..Len(buf)
      <4>1. buf[i] = arrived[Read + i] /\ Read + i \in 1..Len(arrived)
        BY <1>6, <3>1 DEF ParserInv, BufferOK
      <4>. QED  BY <1>5, <3>0, <3>1, <4>1
    <3>2. CASE i > Len(buf)
      <4>1. ~ (i <= Len(buf)) /\ ~ (Read + i <= Len(arrived))
            /\ (Read + i) - Len(arrived) = i - Len(buf)
        BY <1>6, <3>0, <3>2
      <4>. QED  BY <1>5, <3>0, <4>1
    <3>. QED  BY <1>5, <1>6, <3>1, <3>2
  <2>2. Read' > 0 => arrived'[Read'] = "nl"
    BY <1>5, <1>6 DEF ParserInv, BufferOK
  <2>. QED  BY <1>3, <1>6, <2>1, <2>2 DEF BufferOK
<1>8. Envelopes(arrived, Read) = Envelopes(arrived', Read)
  <2>1. arrived \in Seq(Bytes) /\ arrived' \in Seq(Bytes)
    BY <1>4 DEF ParserInv, ParserTypeOK
  <2>2. Len(arrived) <= Len(arrived') /\ \A k \in 1..Len(arrived) : arrived[k] = arrived'[k]
    BY <1>5, <1>6
  <2>. QED  BY <1>6, <2>1, <2>2, EnvelopesStay
<1>9. OutOK'
  BY <1>3, <1>6, <1>8 DEF ParserInv, OutOK
<1>. QED  BY <1>4, <1>7, <1>9 DEF ParserInv

(* A line leaves the buffer with its newline. *)
LEMMA LineParser ==
    ASSUME ParserInv, Line
    PROVE  ParserInv'
<1>. DEFINE f == Find(buf)
<1>1. /\ f > 0 /\ arrived' = arrived /\ rest' = rest /\ pc' = pc /\ pc = "splitting"
      /\ out' = Deliver(SubSeq(buf, 1, f - 1)) /\ buf' = SubSeq(buf, f + 1, Len(buf))
  BY DEF Line
<1>2. arrived \in Seq(Bytes) /\ buf \in Seq(Bytes) /\ Len(buf) \in Nat
  BY DEF ParserInv, ParserTypeOK
<1>3. f \in 1..Len(buf) /\ buf[f] = "nl" /\ Unbroken(buf, 1, f - 1)
  BY <1>1, <1>2, FindFirst
<1>. HIDE DEF f
<1>4. /\ buf' \in Seq(Bytes) /\ Len(buf') = Len(buf) - f
      /\ \A i \in 1..(Len(buf) - f) : buf'[i] = buf[f + i]
  <2>1. \A i \in (f + 1)..Len(buf) : buf[i] \in Bytes
    BY <1>2, <1>3
  <2>. QED  BY <1>1, <1>2, <1>3, <2>1, SubSeqProperties
<1>5. Read \in Nat /\ Len(arrived) \in Nat /\ Read' = Read + f
  <2>1. Read \in Nat /\ Len(arrived) \in Nat
    BY <1>2 DEF ParserInv, BufferOK
  <2>2. Read = Len(arrived) - Len(buf) /\ Read' = Len(arrived') - Len(buf')
    BY DEF Read
  <2>. QED  BY <1>1, <1>2, <1>3, <1>4, <2>1, <2>2
<1>6. BufferOK'
  <2>1. ASSUME NEW i \in 1..Len(buf')  PROVE buf'[i] = arrived'[Read' + i]
    <3>1. f + i \in 1..Len(buf) /\ buf'[i] = buf[f + i] /\ Read + (f + i) = (Read + f) + i
      BY <1>3, <1>4, <1>5
    <3>. QED  BY <1>1, <1>5, <3>1 DEF ParserInv, BufferOK
  <2>2. arrived'[Read'] = "nl"
    BY <1>1, <1>3, <1>5 DEF ParserInv, BufferOK
  <2>3. Read' \in Nat
    BY <1>3, <1>5
  <2>. QED  BY <1>1, <2>1, <2>2, <2>3 DEF BufferOK
<1>7. OutOK'
  <2>1. out = Envelopes(arrived, Read)
    BY <1>1 DEF ParserInv, OutOK
  <2>2. f \in 1..(Len(buf) + 1)
    BY <1>2, <1>3
  <2>3. Deliver(SubSeq(buf, 1, f - 1)) = Envelopes(arrived, Read + f)
    BY <1>3, <2>1, <2>2, BufferLine DEF ParserInv
  <2>. QED  BY <1>1, <1>5, <2>3 DEF OutOK
<1>. QED  BY <1>1, <1>4, <1>6, <1>7 DEF ParserInv, ParserTypeOK

(* The end of the body gives out what is left in the buffer. *)
LEMMA EndParser ==
    ASSUME ParserInv, End
    PROVE  ParserInv'
<1>1. /\ arrived' = arrived /\ rest' = rest /\ buf' = buf /\ pc = "reading" /\ pc' = "ended"
      /\ out' = Deliver(buf) /\ Read' = Read
  BY DEF End, Read
<1>2. buf \in Seq(Bytes) /\ Len(buf) \in Nat /\ Len(arrived) \in Nat /\ Read \in Nat
  BY DEF ParserInv, ParserTypeOK, BufferOK
<1>3. SubSeq(buf, 1, (Len(buf) + 1) - 1) = buf /\ Read + (Len(buf) + 1) = Len(arrived) + 1
  BY <1>2, SubSeqFull DEF Read
<1>4. Deliver(SubSeq(buf, 1, (Len(buf) + 1) - 1)) = Envelopes(arrived, Read + (Len(buf) + 1))
  <2>1. out = Envelopes(arrived, Read)
    BY <1>1 DEF ParserInv, OutOK
  <2>2. /\ Len(buf) + 1 \in 1..(Len(buf) + 1) /\ ~ (Len(buf) + 1 <= Len(buf))
        /\ Unbroken(buf, 1, (Len(buf) + 1) - 1)
    BY <1>1, <1>2 DEF ParserInv, BufferOK, Unbroken
  <2>. QED  BY <2>1, <2>2, BufferLine DEF ParserInv
<1>5. OutOK'
  BY <1>1, <1>3, <1>4 DEF OutOK
<1>6. BufferOK' /\ ParserTypeOK'
  BY <1>1 DEF ParserInv, BufferOK, ParserTypeOK, Unbroken
<1>. QED  BY <1>5, <1>6 DEF ParserInv

(* Each step of the parser preserves the invariant. *)
LEMMA StepParser == ParserInv /\ [Next]_vars => ParserInv'
<1>. SUFFICES ASSUME ParserInv, [Next]_vars PROVE ParserInv'
  OBVIOUS
<1>1. ASSUME NEW n \in 1..Len(rest), Chunk(n)  PROVE ParserInv'
  BY <1>1, ChunkParser
<1>2. CASE Line
  BY <1>2, LineParser
<1>3. CASE NoLine
  <2>1. Unbroken(buf, 1, Len(buf))
    BY <1>3, FindFirst DEF NoLine, ParserInv, ParserTypeOK
  <2>. QED  BY <1>3, <2>1
            DEF NoLine, ParserInv, ParserTypeOK, BufferOK, OutOK, Read, Unbroken
<1>4. CASE End
  BY <1>4, EndParser
<1>5. CASE Break
  BY <1>5 DEF Break, ParserInv, ParserTypeOK, BufferOK, OutOK, Read, Unbroken
<1>6. CASE UNCHANGED vars
  BY <1>6 DEF vars, ParserInv, ParserTypeOK, BufferOK, OutOK, Read, Unbroken
<1>. QED  BY <1>1, <1>2, <1>3, <1>4, <1>5, <1>6 DEF Next

(* The invariant holds the properties that the run checks. *)
LEMMA ParserSuffices == ParserInv => LinesNotLate /\ WholeBody
<1>. SUFFICES ASSUME ParserInv PROVE LinesNotLate /\ WholeBody
  OBVIOUS
<1>1. arrived \in Seq(Bytes) /\ buf \in Seq(Bytes) /\ Len(arrived) \in Nat
      /\ Len(buf) \in Nat /\ Read \in 0..Len(arrived) /\ Read + Len(buf) = Len(arrived)
  BY DEF ParserInv, ParserTypeOK, BufferOK, Read
<1>2. WholeBody
  BY <1>1, AllEnvelopes DEF ParserInv, OutOK, WholeBody
<1>3. ASSUME pc \in {"reading", "broken"}
      PROVE  out = EnvelopesOf(Complete(arrived))
  <2>. DEFINE s == SubSeq(arrived, 1, Read)
  <2>1. /\ s \in Seq(Bytes) /\ Len(s) = Read
        /\ \A i \in 1..Read : s[i] = arrived[i]
    BY <1>1, SubSeqProperties
  <2>2. \A i \in Indices(arrived, "nl") : i <= Read
    <3>1. ASSUME NEW i \in 1..Len(arrived), i > Read  PROVE arrived[i] # "nl"
      <4>1. i - Read \in 1..Len(buf) /\ Read + (i - Read) = i
        BY <1>1, <3>1
      <4>. QED  BY <1>3, <4>1 DEF ParserInv, BufferOK, Unbroken
    <3>. QED  BY <1>1, <3>1 DEF Indices
  <2>3. Complete(arrived) = s
    <3>1. CASE Read = 0
      <4>1. Indices(arrived, "nl") = {}
        BY <2>2, <3>1 DEF Indices
      <4>. QED  BY <3>1, <4>1 DEF Complete
    <3>2. CASE Read > 0
      <4>1. Read \in Indices(arrived, "nl")
        BY <1>1, <3>2 DEF ParserInv, BufferOK, Indices
      <4>2. (CHOOSE i \in Indices(arrived, "nl") : \A k \in Indices(arrived, "nl") : i >= k) = Read
        <5>1. \A i \in Indices(arrived, "nl") : i \in Nat
          BY DEF Indices
        <5>2. Read \in Nat
          BY <1>1
        <5>3. \A k \in Indices(arrived, "nl") : Read >= k
          BY <2>2, <5>1, <5>2
        <5>4. \A i \in Indices(arrived, "nl") :
                 (\A k \in Indices(arrived, "nl") : i >= k) => i = Read
          BY <2>2, <4>1, <5>1, <5>2
        <5>. QED  BY <4>1, <5>3, <5>4
      <4>. QED  BY <4>1, <4>2 DEF Complete
    <3>. QED  BY <1>1, <3>1, <3>2
  <2>4. Read > 0 => s[Len(s)] = "nl"
    BY <1>1, <2>1 DEF ParserInv, BufferOK
  <2>. HIDE DEF s
  <2>5. EnvelopesOf(s) = Envelopes(s, Read)
    BY <2>1, <2>4, CompleteEnvelopes
  <2>6. Envelopes(s, Read) = Envelopes(arrived, Read)
    BY <1>1, <2>1, EnvelopesStay
  <2>7. out = Envelopes(arrived, Read)
    BY <1>3 DEF ParserInv, OutOK
  <2>. QED  BY <2>3, <2>5, <2>6, <2>7
<1>. QED  BY <1>2, <1>3 DEF LinesNotLate

LEMMA ParserInvariance == Spec => []ParserInv
BY InitParser, StepParser, PTL DEF Spec

(* However the network cuts the body of an upload, each of its JSON lines is  *)
(* given out once, in order, as soon as its newline is there.                 *)
THEOREM LinesAreNotLate == Spec => []LinesNotLate
BY ParserInvariance, ParserSuffices, PTL

(* A body that ends in good order gives out all its JSON lines, the last of   *)
(* which may lack its newline.                                                *)
THEOREM BodyIsWhole == Spec => []WholeBody
BY ParserInvariance, ParserSuffices, PTL
=============================================================================
