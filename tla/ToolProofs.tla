----------------------------- MODULE ToolProofs ------------------------------
(***************************************************************************)
(* What is proved of the calls that are read out of texts and of the        *)
(* conversations with tools.                                                *)
(***************************************************************************)
EXTENDS ToolTurn, SelectionProofs

-----------------------------------------------------------------------------
(* Least and greatest numbers, and functions defined step by step. *)

LEMMA MinFacts ==
    ASSUME NEW I \in SUBSET Nat, I # {}
    PROVE  Min(I) \in I /\ \A i \in I : Min(I) <= i
<1>1. PICK x \in I : \A y \in I : ~ (<<y, x>> \in OpToRel(<, Nat))
  BY NatLessThanWellFounded, WFMin, Zenon
<1>2. \A y \in I : x <= y
  <2>1. ASSUME NEW y \in I  PROVE x <= y
    <3>1. ~ (y < x)
      BY <1>1 DEF OpToRel
    <3>. QED  BY <3>1
  <2>. QED  BY <2>1
<1>. QED  BY <1>1, <1>2 DEF Min

LEMMA MaxFacts ==
    ASSUME NEW N \in Nat, NEW I \in SUBSET (1..N), I # {}
    PROVE  Max(I) \in I /\ \A i \in I : i <= Max(I)
<1>. DEFINE D == {N - i : i \in I}
<1>1. D \in SUBSET Nat /\ D # {}
  <2>1. \A i \in I : N - i \in Nat
    OBVIOUS
  <2>2. \E i \in I : N - i \in D
    OBVIOUS
  <2>. QED  BY <2>1, <2>2
<1>2. PICK d \in D : \A e \in D : d <= e
  BY <1>1, MinFacts
<1>3. PICK x \in I : d = N - x
  OBVIOUS
<1>4. \A i \in I : i <= x
  <2>1. ASSUME NEW i \in I  PROVE i <= x
    <3>1. N - x <= N - i
      BY <1>2, <1>3
    <3>2. i \in Nat /\ x \in Nat
      OBVIOUS
    <3>. QED  BY <3>1, <3>2
  <2>. QED  BY <2>1
<1>. QED  BY <1>3, <1>4 DEF Max

\* Each of the n values of f is what G makes of its place and the one before.
Iterated(f, n, V, z, G) ==
    /\ f \in [0..n -> V]
    /\ f[0] = z
    /\ \A i \in 1..n : f[i] = G[<<i, f[i - 1]>>]

(* A function whose values are made one from the other exists. *)
LEMMA Iterates ==
    ASSUME NEW V, NEW z \in V, NEW G \in [Nat \X V -> V], NEW n \in Nat
    PROVE  \E f : Iterated(f, n, V, z, G)
<1>. DEFINE Ok(f, m) == Iterated(f, m, V, z, G)
            S == {m \in Nat : \E f : Ok(f, m)}
<1>1. 0 \in S
  <2>1. Ok([i \in 0..0 |-> z], 0)
    BY DEF Iterated
  <2>. HIDE DEF Ok
  <2>. QED  BY <2>1
<1>2. ASSUME NEW m \in Nat, m \in S  PROVE m + 1 \in S
  <2>1. PICK f : Ok(f, m)
    BY <1>2
  <2>2. PICK k \in Nat : k = m + 1
    OBVIOUS
  <2>. DEFINE g == [i \in 0..k |-> IF i = k THEN G[<<k, f[m]>>] ELSE f[i]]
  <2>3. \A i \in 0..k : i = k \/ i \in 0..m
    BY <2>2
  <2>4. /\ \A i \in 0..m : g[i] = f[i] /\ f[i] \in V
        /\ g[k] = G[<<k, f[m]>>] /\ g[k] \in V
    BY <2>1, <2>2 DEF Iterated
  <2>5. g \in [0..k -> V]
    BY <2>3, <2>4
  <2>. HIDE DEF g
  <2>6. g[0] = z
    BY <2>1, <2>4 DEF Iterated
  <2>7. ASSUME NEW i \in 1..k  PROVE g[i] = G[<<i, g[i - 1]>>]
    <3>1. CASE i = k
      <4>1. i - 1 = m /\ m \in 0..m
        BY <2>2, <3>1
      <4>. QED  BY <2>4, <3>1, <4>1
    <3>2. CASE i # k
      <4>1. i \in 1..m /\ i \in 0..m /\ i - 1 \in 0..m
        BY <2>2, <3>2
      <4>. QED  BY <2>1, <2>4, <4>1 DEF Iterated
    <3>. QED  BY <3>1, <3>2
  <2>8. Ok(g, k)
    BY <2>5, <2>6, <2>7 DEF Iterated
  <2>. HIDE DEF Ok
  <2>. QED  BY <2>2, <2>8
<1>. HIDE DEF Ok
<1>3. Nat \subseteq S
  <2>. HIDE DEF S
  <2>. QED  BY <1>1, <1>2, NatSetInduction
<1>. QED  BY <1>3 DEF Ok

-----------------------------------------------------------------------------
(* Joined sequences. *)

\* f[i] is what the first i sequences of ss give.
Joins(f, ss, T) ==
    /\ f \in [0..Len(ss) -> Seq(T)]
    /\ f[0] = <<>>
    /\ \A i \in 1..Len(ss) : f[i] = f[i - 1] \o ss[i]

LEMMA JoinsExists ==
    ASSUME NEW T, NEW ss \in Seq(Seq(T))
    PROVE  \E f : Joins(f, ss, T)
<1>. DEFINE part(i) == IF i \in 1..Len(ss) THEN ss[i] ELSE <<>>
            G == [p \in Nat \X Seq(T) |-> p[2] \o part(p[1])]
<1>1. ASSUME NEW p \in Nat \X Seq(T)  PROVE p[2] \o part(p[1]) \in Seq(T)
  <2>1. p[2] \in Seq(T) /\ part(p[1]) \in Seq(T)
    OBVIOUS
  <2>. HIDE DEF part
  <2>. QED  BY <2>1, ConcatProperties
<1>2. G \in [Nat \X Seq(T) -> Seq(T)]
  BY <1>1
<1>3. ASSUME NEW i \in Nat, NEW t \in Seq(T)  PROVE G[<<i, t>>] = t \o part(i)
  OBVIOUS
<1>. HIDE DEF G, part
<1>4. Len(ss) \in Nat /\ <<>> \in Seq(T)
  OBVIOUS
<1>n. PICK n \in Nat : n = Len(ss)
  BY <1>4
<1>. DEFINE V == Seq(T)
<1>v. <<>> \in V /\ G \in [Nat \X V -> V]
  BY <1>2, <1>4
<1>5. PICK f : Iterated(f, Len(ss), Seq(T), <<>>, G)
  <2>. HIDE DEF V
  <2>1. \E f : Iterated(f, n, V, <<>>, G)
    BY <1>v, Iterates
  <2>. QED  BY <1>n, <2>1 DEF V
<1>6. ASSUME NEW i \in 1..Len(ss)  PROVE f[i] = f[i - 1] \o ss[i]
  <2>1. i \in Nat /\ i - 1 \in 0..Len(ss)
    BY <1>4
  <2>2. f[i - 1] \in Seq(T)
    BY <1>5, <2>1 DEF Iterated
  <2>3. G[<<i, f[i - 1]>>] = f[i - 1] \o part(i)
    BY <1>3, <2>1, <2>2
  <2>. QED  BY <1>5, <2>3 DEF part, Iterated
<1>. QED  BY <1>5, <1>6 DEF Joins, Iterated

\* The recursion of FlattenSeq.
Flattens(g, ss) == g = [i \in 1..Len(ss) |-> IF i = 1 THEN ss[i] ELSE g[i - 1] \o ss[i]]

(* FlattenSeq gives the last of them. *)
LEMMA FlattenIsJoin ==
    ASSUME NEW T, NEW ss \in Seq(Seq(T)), NEW f, Joins(f, ss, T)
    PROVE  FlattenSeq(ss) = f[Len(ss)]
<1>1. CASE Len(ss) = 0
  <2>1. ss = <<>>
    BY <1>1
  <2>. QED  BY <1>1, <2>1 DEF Joins, FlattenSeq
<1>2. CASE Len(ss) # 0
  <2>. DEFINE h == CHOOSE g : Flattens(g, ss)
              e == [i \in 1..Len(ss) |-> f[i]]
  <2>1. FlattenSeq(ss) = h[Len(ss)]
    BY <1>2 DEF FlattenSeq, Flattens
  <2>2. Flattens(e, ss)
    <3>1. ASSUME NEW i \in 1..Len(ss)
          PROVE  f[i] = IF i = 1 THEN ss[i] ELSE e[i - 1] \o ss[i]
      <4>1. ss[i] \in Seq(T)
        OBVIOUS
      <4>2. CASE i = 1
        <5>1. 1 \in 1..Len(ss) /\ 1 - 1 = 0
          BY <4>2
        <5>2. f[1] = f[0] \o ss[1]
          BY <5>1 DEF Joins
        <5>3. f[1] = <<>> \o ss[1]
          BY <5>2 DEF Joins
        <5>. QED  BY <4>1, <4>2, <5>3
      <4>3. CASE i # 1
        <5>1. i - 1 \in 1..Len(ss)
          BY <4>3
        <5>2. e[i - 1] = f[i - 1]
          BY <5>1
        <5>. QED  BY <4>3, <5>2 DEF Joins
      <4>. QED  BY <4>2, <4>3
    <3>. QED  BY <3>1 DEF Flattens
  <2>3. Flattens(h, ss)
    <3>. HIDE DEF e
    <3>. QED  BY <2>2
  <2>. HIDE DEF h, e
  <2>4. \A i \in 1..Len(ss) : h[i] = IF i = 1 THEN ss[i] ELSE h[i - 1] \o ss[i]
    BY <2>3 DEF Flattens
  <2>. DEFINE S == {n \in Nat : n + 1 <= Len(ss) => h[n + 1] = f[n + 1]}
  <2>5. 0 \in S
    <3>1. 1 \in 1..Len(ss)
      BY <1>2
    <3>0. 1 - 1 = 0 /\ ss[1] \in Seq(T)
      BY <3>1
    <3>a. f[1] = f[0] \o ss[1] /\ ss[1] \in Seq(T)
      <4>. HIDE DEF S
      <4>. QED  BY <3>0, <3>1 DEF Joins
    <3>2. f[1] = <<>> \o ss[1] /\ ss[1] \in Seq(T)
      BY <3>a DEF Joins
    <3>3. h[1] = ss[1]
      BY <2>4, <3>1
    <3>. QED  BY <3>2, <3>3
  <2>6. ASSUME NEW n \in Nat, n \in S  PROVE n + 1 \in S
    <3>1. SUFFICES ASSUME (n + 1) + 1 <= Len(ss)  PROVE h[(n + 1) + 1] = f[(n + 1) + 1]
      BY <2>6
    <3>2. PICK k \in Nat : k = (n + 1) + 1
      OBVIOUS
    <3>3. k \in 1..Len(ss) /\ k # 1 /\ k - 1 = n + 1 /\ n + 1 <= Len(ss)
      BY <3>1, <3>2
    <3>4. h[k - 1] = f[k - 1]
      BY <2>6, <3>3
    <3>5. h[k] = h[k - 1] \o ss[k] /\ f[k] = f[k - 1] \o ss[k]
      BY <2>4, <3>3 DEF Joins
    <3>6. h[k] = f[k]
      BY <3>4, <3>5
    <3>. HIDE DEF h
    <3>. QED  BY <3>2, <3>6
  <2>7. Nat \subseteq S
    <3>. HIDE DEF S
    <3>. QED  BY <2>5, <2>6, NatSetInduction
  <2>8. Len(ss) - 1 \in S
    BY <1>2, <2>7
  <2>9. h[Len(ss)] = f[Len(ss)]
    BY <2>8
  <2>. QED  BY <2>1, <2>9
<1>. QED  BY <1>1, <1>2

LEMMA FlattenType ==
    ASSUME NEW T, NEW ss \in Seq(Seq(T))
    PROVE  FlattenSeq(ss) \in Seq(T)
<1>1. PICK f : Joins(f, ss, T)
  BY JoinsExists
<1>2. FlattenSeq(ss) = f[Len(ss)]
  BY <1>1, FlattenIsJoin
<1>. QED  BY <1>1, <1>2 DEF Joins

LEMMA FlattenNone == FlattenSeq(<<>>) = <<>>
BY DEF FlattenSeq

LEMMA FlattenAppend ==
    ASSUME NEW T, NEW ss \in Seq(Seq(T)), NEW t \in Seq(T)
    PROVE  FlattenSeq(Append(ss, t)) = FlattenSeq(ss) \o t
<1>1. PICK f : Joins(f, Append(ss, t), T)
  <2>1. Append(ss, t) \in Seq(Seq(T))
    OBVIOUS
  <2>. QED  BY <2>1, JoinsExists
<1>2. PICK m \in Nat : m = Len(ss)
  OBVIOUS
<1>3. PICK k \in Nat : k = m + 1
  OBVIOUS
<1>4. /\ Append(ss, t) \in Seq(Seq(T)) /\ Len(Append(ss, t)) = k
      /\ Append(ss, t)[k] = t /\ \A i \in 1..m : Append(ss, t)[i] = ss[i]
  BY <1>2, <1>3, AppendProperties
<1>5. /\ f \in [0..k -> Seq(T)] /\ f[0] = <<>>
      /\ \A i \in 1..k : f[i] = f[i - 1] \o Append(ss, t)[i]
  BY <1>1, <1>4 DEF Joins
<1>6. f[k] = f[m] \o t
  <2>1. k \in 1..k /\ k - 1 = m
    BY <1>3
  <2>. QED  BY <1>4, <1>5, <2>1
<1>. DEFINE e == [i \in 0..m |-> f[i]]
<1>7. Joins(e, ss, T)
  <2>1. \A i \in 0..m : i \in 0..k /\ e[i] = f[i] /\ f[i] \in Seq(T)
    BY <1>3, <1>5
  <2>2. ASSUME NEW i \in 1..m  PROVE e[i] = e[i - 1] \o ss[i]
    <3>1. i \in 1..k /\ i \in 0..m /\ i - 1 \in 0..m
      BY <1>3
    <3>. QED  BY <1>4, <1>5, <2>1, <3>1
  <2>3. e \in [0..m -> Seq(T)]
    BY <2>1
  <2>4. e[0] = <<>>
    BY <1>5, <2>1
  <2>. HIDE DEF e
  <2>. QED  BY <1>2, <2>2, <2>3, <2>4 DEF Joins
<1>8. FlattenSeq(ss) = e[m]
  BY <1>2, <1>7, FlattenIsJoin
<1>9. FlattenSeq(Append(ss, t)) = f[k]
  BY <1>1, <1>4, FlattenIsJoin
<1>10. e[m] = f[m]
  OBVIOUS
<1>. QED  BY <1>6, <1>8, <1>9, <1>10

-----------------------------------------------------------------------------
(* The matches of a pattern. *)

LEMMA ClosersFacts ==
    ASSUME NEW T, NEW s \in Seq(T), NEW ends, NEW i \in DOMAIN s, Opens(s, ends, i)
    PROVE  LET j == Min(Closers(s, ends, i))
           IN  /\ j \in i + 1..Len(s) /\ s[j].k = ends[s[i].k]
               /\ \A l \in Closers(s, ends, i) : j <= l
<1>1. Closers(s, ends, i) \in SUBSET Nat /\ Closers(s, ends, i) # {}
  BY DEF Opens, Closers
<1>2. /\ Min(Closers(s, ends, i)) \in Closers(s, ends, i)
      /\ \A l \in Closers(s, ends, i) : Min(Closers(s, ends, i)) <= l
  BY <1>1, MinFacts
<1>. QED  BY <1>2 DEF Closers

\* What Covered says of i, given what it says of the position before.
CoverStep(s, ends, i, before) ==
    IF before < i /\ Opens(s, ends, i) THEN Min(Closers(s, ends, i)) ELSE before

Covers(f, s, ends) ==
    f = [i \in 0..Len(s) |-> IF i = 0 THEN 0 ELSE CoverStep(s, ends, i, f[i - 1])]

(* Covered is defined, by its recursion. *)
LEMMA CoveredFacts ==
    ASSUME NEW T, NEW s \in Seq(T), NEW ends
    PROVE  LET c == Covered(s, ends)
           IN  /\ c \in [0..Len(s) -> 0..Len(s)]
               /\ c[0] = 0
               /\ \A i \in 1..Len(s) : c[i] = CoverStep(s, ends, i, c[i - 1])
<1>. DEFINE V == 0..Len(s)
            G == [p \in Nat \X V |-> IF p[1] \in DOMAIN s THEN CoverStep(s, ends, p[1], p[2])
                                                           ELSE p[2]]
            c == Covered(s, ends)
<1>n. PICK n \in Nat : n = Len(s)
  OBVIOUS
<1>1. ASSUME NEW i \in DOMAIN s, NEW b \in V  PROVE CoverStep(s, ends, i, b) \in V
  <2>1. CASE b < i /\ Opens(s, ends, i)
    <3>1. Min(Closers(s, ends, i)) \in i + 1..Len(s)
      BY <2>1, ClosersFacts
    <3>. QED  BY <2>1, <3>1 DEF CoverStep
  <2>2. CASE ~ (b < i /\ Opens(s, ends, i))
    BY <2>2 DEF CoverStep
  <2>. QED  BY <2>1, <2>2
<1>2. G \in [Nat \X V -> V]
  <2>1. ASSUME NEW p \in Nat \X V
        PROVE  (IF p[1] \in DOMAIN s THEN CoverStep(s, ends, p[1], p[2]) ELSE p[2]) \in V
    <3>1. p[2] \in V
      OBVIOUS
    <3>. HIDE DEF V
    <3>. QED  BY <1>1, <3>1
  <2>. QED  BY <2>1
<1>3. ASSUME NEW i \in DOMAIN s, NEW b \in V  PROVE G[<<i, b>>] = CoverStep(s, ends, i, b)
  <2>1. i \in Nat
    OBVIOUS
  <2>. QED  BY <2>1
<1>. HIDE DEF G
<1>4. PICK f : Iterated(f, n, V, 0, G)
  <2>1. 0 \in V
    BY <1>n
  <2>. HIDE DEF V
  <2>. QED  BY <1>2, <2>1, Iterates
<1>5. Covers(f, s, ends)
  <2>1. f \in [0..Len(s) -> V]
    BY <1>4, <1>n DEF Iterated
  <2>2. ASSUME NEW i \in 0..Len(s)
        PROVE  f[i] = IF i = 0 THEN 0 ELSE CoverStep(s, ends, i, f[i - 1])
    <3>1. CASE i = 0
      BY <1>4, <3>1 DEF Iterated
    <3>2. CASE i # 0
      <4>1. i \in 1..n /\ i \in DOMAIN s /\ i - 1 \in 0..Len(s)
        BY <1>n, <3>2
      <4>2. f[i] = G[<<i, f[i - 1]>>]
        BY <1>4, <4>1 DEF Iterated
      <4>3. f[i - 1] \in V
        BY <2>1, <4>1
      <4>4. G[<<i, f[i - 1]>>] = CoverStep(s, ends, i, f[i - 1])
        BY <1>3, <4>1, <4>3
      <4>. QED  BY <3>2, <4>2, <4>4
    <3>. QED  BY <3>1, <3>2
  <2>3. f = [i \in 0..Len(s) |-> f[i]]
    BY <2>1
  <2>. HIDE DEF V
  <2>. QED  BY <2>2, <2>3 DEF Covers
<1>6. c = CHOOSE g : Covers(g, s, ends)
  BY DEF Covered, Covers, CoverStep
<1>7. Covers(c, s, ends)
  <2>. HIDE DEF c
  <2>. QED  BY <1>5, <1>6
<1>. HIDE DEF c
<1>8. c = [i \in 0..Len(s) |-> IF i = 0 THEN 0 ELSE CoverStep(s, ends, i, c[i - 1])]
  BY <1>7 DEF Covers
<1>9. c[0] = 0 /\ \A i \in 1..Len(s) : c[i] = CoverStep(s, ends, i, c[i - 1])
  <2>1. 0 \in 0..Len(s) /\ \A i \in 1..Len(s) : i \in 0..Len(s) /\ i # 0
    BY <1>n
  <2>. QED  BY <1>8, <2>1, Zenon
<1>10. ASSUME NEW i \in 0..Len(s)  PROVE c[i] \in V
  <2>. DEFINE S == {m \in Nat : m <= n => c[m] \in V}
  <2>1. 0 \in S
    BY <1>9, <1>n
  <2>2. ASSUME NEW m \in Nat, m \in S  PROVE m + 1 \in S
    <3>1. PICK k \in Nat : k = m + 1
      OBVIOUS
    <3>2. SUFFICES ASSUME k <= n  PROVE c[k] \in V
      BY <3>1
    <3>3. k \in DOMAIN s /\ k \in 1..Len(s) /\ k - 1 = m /\ m <= n
      BY <1>n, <3>1, <3>2
    <3>4. c[m] \in V /\ c[k] = CoverStep(s, ends, k, c[m])
      BY <1>9, <2>2, <3>3
    <3>. HIDE DEF V
    <3>. QED  BY <1>1, <3>3, <3>4
  <2>3. Nat \subseteq S
    <3>. HIDE DEF S
    <3>. QED  BY <2>1, <2>2, NatSetInduction
  <2>4. i \in Nat /\ i <= n
    BY <1>n
  <2>. QED  BY <2>3, <2>4
<1>11. c \in [0..Len(s) -> V]
  BY <1>8, <1>10
<1>. USE DEF c
<1>. QED  BY <1>9, <1>11

(* Each match goes from an opening tag to one that closes it. *)
LEMMA SpansFacts ==
    ASSUME NEW T, NEW s \in Seq(T), NEW ends
    PROVE  LET sp == Spans(s, ends)
           IN  /\ DOMAIN sp \in SUBSET (1..Len(s))
               /\ \A i \in DOMAIN sp :
                    /\ s[i].k \in DOMAIN ends
                    /\ sp[i] \in i + 1..Len(s)
                    /\ s[sp[i]].k = ends[s[i].k]
               /\ \A i, j \in DOMAIN sp : i < j => sp[i] < j
<1>. DEFINE c == Covered(s, ends)
            D == {i \in DOMAIN s : c[i - 1] < i /\ Opens(s, ends, i)}
            sp == Spans(s, ends)
<1>1. sp = [i \in D |-> c[i]]
  BY DEF Spans
<1>2. /\ c \in [0..Len(s) -> 0..Len(s)]
      /\ \A i \in 1..Len(s) : c[i] = CoverStep(s, ends, i, c[i - 1])
  BY CoveredFacts
<1>. HIDE DEF c, sp
<1>3. ASSUME NEW i \in D
      PROVE  /\ c[i] \in i + 1..Len(s) /\ s[c[i]].k = ends[s[i].k]
             /\ s[i].k \in DOMAIN ends
  <2>1. c[i] = Min(Closers(s, ends, i))
    BY <1>2 DEF CoverStep
  <2>. QED  BY <2>1, ClosersFacts DEF Opens
<1>4. ASSUME NEW i \in 1..Len(s)  PROVE c[i - 1] <= c[i]
  <2>1. i \in 0..Len(s) /\ i - 1 \in 0..Len(s)
    OBVIOUS
  <2>2. c[i - 1] \in 0..Len(s) /\ c[i] \in 0..Len(s)
    BY <1>2, <2>1
  <2>3. CASE i \in D
    BY <1>3, <2>2, <2>3
  <2>4. CASE i \notin D
    <3>1. c[i] = c[i - 1]
      BY <1>2, <2>4 DEF CoverStep
    <3>. QED  BY <2>2, <3>1
  <2>. QED  BY <2>3, <2>4
<1>5. ASSUME NEW i \in 1..Len(s)
      PROVE  \A m \in Nat : i + m <= Len(s) => c[i] <= c[i + m]
  <2>. DEFINE S == {m \in Nat : i + m <= Len(s) => c[i] <= c[i + m]}
  <2>0. i \in 0..Len(s) /\ c[i] \in Nat
    BY <1>2
  <2>1. 0 \in S
    <3>1. i + 0 = i
      OBVIOUS
    <3>. QED  BY <2>0, <3>1
  <2>2. ASSUME NEW m \in Nat, m \in S  PROVE m + 1 \in S
    <3>1. SUFFICES ASSUME i + (m + 1) <= Len(s)  PROVE c[i] <= c[i + (m + 1)]
      BY <2>2
    <3>2. PICK k \in Nat : k = i + (m + 1)
      OBVIOUS
    <3>3. k \in 1..Len(s) /\ k - 1 = i + m /\ i + m <= Len(s) /\ k \in 0..Len(s)
          /\ k - 1 \in 0..Len(s)
      BY <3>1, <3>2
    <3>4. c[i] <= c[k - 1]
      BY <2>2, <3>3
    <3>5. c[k - 1] <= c[k]
      BY <1>4, <3>3
    <3>6. c[k - 1] \in Nat /\ c[k] \in Nat
      BY <1>2, <3>3
    <3>. QED  BY <2>0, <3>2, <3>4, <3>5, <3>6
  <2>. HIDE DEF S
  <2>3. Nat \subseteq S
    BY <2>1, <2>2, NatSetInduction
  <2>. USE DEF S
  <2>. QED  BY <2>3
<1>6. ASSUME NEW i \in D, NEW j \in D, i < j  PROVE c[i] < j
  <2>1. PICK m \in Nat : m = (j - 1) - i
    BY <1>6
  <2>2. i + m = j - 1 /\ i + m <= Len(s)
    BY <2>1
  <2>3. c[i] <= c[j - 1]
    BY <1>5, <2>2
  <2>4. c[j - 1] < j
    OBVIOUS
  <2>5. i \in 0..Len(s) /\ j - 1 \in 0..Len(s)
    BY <1>6
  <2>6. c[i] \in Nat /\ c[j - 1] \in Nat
    BY <1>2, <2>5
  <2>. QED  BY <2>3, <2>4, <2>6
<1>7. DOMAIN sp = D /\ \A i \in D : sp[i] = c[i]
  BY <1>1
<1>8. D \in SUBSET (1..Len(s))
  OBVIOUS
<1>. HIDE DEF D
<1>9. /\ DOMAIN sp \in SUBSET (1..Len(s))
      /\ \A i \in DOMAIN sp :
           s[i].k \in DOMAIN ends /\ sp[i] \in i + 1..Len(s) /\ s[sp[i]].k = ends[s[i].k]
      /\ \A i, j \in DOMAIN sp : i < j => sp[i] < j
  BY <1>3, <1>6, <1>7, <1>8
<1>. QED  BY <1>9 DEF sp

(* Text without opening tags has no match. *)
LEMMA NoSpans ==
    ASSUME NEW T, NEW s \in Seq(T), NEW ends, \A i \in DOMAIN s : s[i].k \notin DOMAIN ends
    PROVE  DOMAIN Spans(s, ends) = {}
<1>1. /\ DOMAIN Spans(s, ends) \in SUBSET (1..Len(s))
      /\ \A i \in DOMAIN Spans(s, ends) : s[i].k \in DOMAIN ends
  BY SpansFacts
<1>2. ASSUME NEW i \in DOMAIN Spans(s, ends)  PROVE FALSE
  <2>1. i \in DOMAIN s
    BY <1>1
  <2>. QED  BY <1>1, <2>1
<1>. QED  BY <1>2

-----------------------------------------------------------------------------
(* What is read out of a text. *)

(* All of a sequence is the sequence. *)
LEMMA SelectAll ==
    ASSUME NEW T, NEW s \in Seq(T)
    PROVE  Select(s, DOMAIN s) = s
<1>n. PICK n \in Nat : n = Len(s)
  OBVIOUS
<1>1. DOMAIN s = 1..n /\ DOMAIN s \in SUBSET Nat
  BY <1>n
<1>. DEFINE h == [a \in 1..n |-> a]
<1>2. Enumerates(h, n, DOMAIN s)
  BY <1>1 DEF Enumerates
<1>3. Select(s, DOMAIN s) = Along(s, h, n)
  <2>. HIDE DEF h
  <2>. QED  BY <1>1, <1>2, SelectBy
<1>4. Along(s, h, n) = [a \in 1..n |-> s[a]]
  BY DEF Along
<1>. QED  BY <1>1, <1>3, <1>4

LEMMA SpansKept ==
    ASSUME NEW s \in Seq(Pieces), NEW spans
    PROVE  strip_spans(s, spans) \in Seq(Pieces)
<1>. DEFINE I == {i \in DOMAIN s : \A j \in DOMAIN spans : i \notin j..spans[j]}
<1>1. Len(s) \in Nat /\ I \in SUBSET (1..Len(s)) /\ \A i \in I : s[i] \in Pieces
  OBVIOUS
<1>2. strip_spans(s, spans) = Select(s, I)
  BY DEF strip_spans
<1>. HIDE DEF I
<1>. QED  BY <1>1, <1>2, SelectType

(* The user never sees a tag. *)
LEMMA NoTagIsShown ==
    ASSUME NEW s \in Seq(Pieces)
    PROVE  /\ strip_leaked_markup(s) \in Seq(Pieces)
           /\ \A i \in DOMAIN strip_leaked_markup(s) : IsText(strip_leaked_markup(s)[i])
<1>. DEFINE t == strip_spans(s, Spans(s, LeakedSpan))
            I == {i \in DOMAIN t : IsText(t[i])}
            T == {p \in Pieces : IsText(p)}
<1>1. t \in Seq(Pieces)
  BY SpansKept
<1>2. strip_leaked_markup(s) = Select(t, I)
  BY DEF strip_leaked_markup, Filter
<1>. HIDE DEF t
<1>3. Len(t) \in Nat /\ I \in SUBSET (1..Len(t)) /\ \A i \in I : t[i] \in T
  BY <1>1
<1>. DEFINE u == Select(t, I)
<1>4. u \in Seq(T)
  <2>. HIDE DEF I, T
  <2>. QED  BY <1>3, SelectType
<1>. HIDE DEF u
<1>5. u \in Seq(Pieces) /\ \A i \in DOMAIN u : IsText(u[i])
  BY <1>4
<1>. QED  BY <1>2, <1>5 DEF u

\* What a client gets of a call, without its id.
ToolCalls == [name : Names, args : {"dict", "_raw", "_value"}]

LEMMA PieceFacts ==
    ASSUME NEW p \in Pieces
    PROVE  /\ p.name \in Names \cup {NoName} /\ p.args \in ArgShapes
           /\ p.k = "expr" => p.name \in Names
           /\ p.k \notin {"json", "expr"} => p.name = NoName
BY DEF Pieces, Piece, Json, PythonCall, ArgShapes, NotGiven, Tags

LEMMA CallType ==
    ASSUME NEW p \in Pieces, p.name # NoName
    PROVE  coerce_call(p) \in ToolCalls /\ coerce_call(p).name = p.name
<1>1. p.name \in Names /\ p.args \in ArgShapes
  BY PieceFacts
<1>2. coerce_args(p.args) \in {"dict", "_raw", "_value"}
  BY <1>1 DEF coerce_args, ArgShapes, NotGiven
<1>. QED  BY <1>1, <1>2 DEF coerce_call, ToolCalls

LEMMA FoundBy ==
    ASSUME NEW s
    PROVE  /\ Found(s, CallSpan) = Callable(s)
           /\ Found(s, PythonSpan) = PythonCalls(s)
           /\ Found(s, FenceSpan) = Explicit(s)
<1>1. /\ DOMAIN CallSpan = {"tool_call"} /\ DOMAIN PythonSpan = {"python_start"}
      /\ DOMAIN FenceSpan = {"fence"}
  BY DEF CallSpan, PythonSpan, FenceSpan
<1>2. CallSpan # PythonSpan /\ CallSpan # FenceSpan /\ PythonSpan # FenceSpan
  BY <1>1
<1>. QED  BY <1>2 DEF Found

(* What is found in a span is in it and can be called. *)
LEMMA FoundFacts ==
    ASSUME NEW s \in Seq(Pieces), NEW ends \in {CallSpan, PythonSpan, FenceSpan}
    PROVE  Found(s, ends) \in Seq({s[i] : i \in {i \in DOMAIN s : s[i].name # NoName}})
<1>. DEFINE T == {s[i] : i \in {i \in DOMAIN s : s[i].name # NoName}}
<1>1. Len(s) \in Nat
  OBVIOUS
<1>2. Callable(s) \in Seq(T)
  <2>. DEFINE I == {i \in DOMAIN s : IsCall(s[i])}
  <2>1. I \in SUBSET (1..Len(s)) /\ \A i \in I : s[i] \in T
    BY DEF IsCall
  <2>2. Callable(s) = Select(s, I)
    BY DEF Callable, Filter
  <2>. HIDE DEF I, T
  <2>. QED  BY <1>1, <2>1, <2>2, SelectType
<1>3. Explicit(s) \in Seq(T)
  <2>. DEFINE I == {i \in DOMAIN s : IsExplicit(s[i])}
  <2>1. I \in SUBSET (1..Len(s)) /\ \A i \in I : s[i] \in T
    BY DEF IsExplicit, IsCall
  <2>2. Explicit(s) = Select(s, I)
    BY DEF Explicit, Filter
  <2>. HIDE DEF I, T
  <2>. QED  BY <1>1, <2>1, <2>2, SelectType
<1>4. PythonCalls(s) \in Seq(T)
  <2>1. CASE Callable(s) = <<>> /\ Len(s) = 1 /\ s[1].k = "expr"
    <3>1. s[1] \in Pieces /\ 1 \in DOMAIN s
      BY <2>1
    <3>2. s[1].name \in Names
      BY <2>1, <3>1, PieceFacts
    <3>3. \A i \in DOMAIN s : s[i] \in T
      BY <2>1, <3>2, NoNameIsNone
    <3>4. PythonCalls(s) = s
      BY <2>1 DEF PythonCalls
    <3>. HIDE DEF T
    <3>. QED  BY <3>3, <3>4
  <2>2. CASE ~ (Callable(s) = <<>> /\ Len(s) = 1 /\ s[1].k = "expr")
    <3>1. PythonCalls(s) = Callable(s) \/ PythonCalls(s) = <<>>
      BY <2>2 DEF PythonCalls
    <3>. HIDE DEF T
    <3>2. <<>> \in Seq(T)
      OBVIOUS
    <3>. QED  BY <1>2, <3>1, <3>2
  <2>. QED  BY <2>1, <2>2
<1>. HIDE DEF T
<1>6. Found(s, ends) \in {Callable(s), PythonCalls(s), Explicit(s)}
  BY FoundBy
<1>7. Found(s, ends) \in Seq(T)
  BY <1>2, <1>3, <1>4, <1>6
<1>. QED  BY <1>7 DEF T

\* The spans that give a call, and the place in each where it is written.
Reads(s, ends, hits, at, call) ==
    /\ hits \in SUBSET DOMAIN Spans(s, ends)
    /\ at \in [hits -> 1..Len(s)] /\ call \in [hits -> ToolCalls]
    /\ \A i \in hits : /\ at[i] \in i..Spans(s, ends)[i]
                       /\ call[i] = coerce_call(s[at[i]])
                       /\ s[at[i]].name # NoName
    /\ FromSpans(s, ends).text = strip_spans(s, Restrict(Spans(s, ends), hits))
    /\ FromSpans(s, ends).calls = Select(call, hits)

LEMMA FromSpansFacts ==
    ASSUME NEW s \in Seq(Pieces), NEW ends \in {CallSpan, PythonSpan, FenceSpan}
    PROVE  \E hits, at, call : Reads(s, ends, hits, at, call)
<1>. DEFINE sp == Spans(s, ends)
            found == [i \in DOMAIN sp |-> Found(SubSeq(s, i + 1, sp[i] - 1), ends)]
            hits == {i \in DOMAIN sp : found[i] # <<>>}
            call == [i \in hits |-> coerce_call(found[i][1])]
<1>1. /\ FromSpans(s, ends).text = strip_spans(s, Restrict(sp, hits))
      /\ FromSpans(s, ends).calls = Select(call, hits)
  BY DEF FromSpans
<1>2. /\ DOMAIN sp \in SUBSET (1..Len(s))
      /\ \A i \in DOMAIN sp : sp[i] \in i + 1..Len(s)
  BY SpansFacts
<1>. HIDE DEF sp
<1>3. ASSUME NEW i \in hits
      PROVE  \E l \in 1..Len(s) : /\ l \in i..sp[i] /\ s[l].name # NoName
                                  /\ found[i][1] = s[l]
  <2>. DEFINE t == SubSeq(s, i + 1, sp[i] - 1)
              T == {t[j] : j \in {j \in DOMAIN t : t[j].name # NoName}}
  <2>1. i \in 1..Len(s) /\ sp[i] \in i + 1..Len(s)
    BY <1>2
  <2>2. /\ t \in Seq(Pieces)
        /\ \A j \in DOMAIN t : i + j \in i..sp[i] /\ i + j \in 1..Len(s) /\ t[j] = s[i + j]
    BY <2>1
  <2>3. found[i] = Found(t, ends)
    OBVIOUS
  <2>. HIDE DEF t
  <2>4. found[i] \in Seq(T) /\ found[i] # <<>>
    BY <2>2, <2>3, FoundFacts
  <2>5. found[i][1] \in T
    <3>. HIDE DEF T, found
    <3>. QED  BY <2>4
  <2>6. PICK j \in DOMAIN t : t[j].name # NoName /\ found[i][1] = t[j]
    BY <2>5
  <2>. HIDE DEF found
  <2>7. s[i + j].name # NoName /\ found[i][1] = s[i + j]
    BY <2>2, <2>6
  <2>. QED  BY <2>2, <2>7
<1>. DEFINE at == [i \in hits |-> CHOOSE l \in 1..Len(s) :
                       /\ l \in i..sp[i] /\ s[l].name # NoName /\ found[i][1] = s[l]]
<1>4. ASSUME NEW i \in hits
      PROVE  /\ at[i] \in 1..Len(s) /\ at[i] \in i..sp[i] /\ s[at[i]].name # NoName
             /\ found[i][1] = s[at[i]]
  BY <1>3
<1>5. ASSUME NEW i \in hits
      PROVE  call[i] = coerce_call(s[at[i]]) /\ call[i] \in ToolCalls
  <2>1. call[i] = coerce_call(found[i][1])
    OBVIOUS
  <2>. HIDE DEF at, call, found
  <2>2. s[at[i]] \in Pieces
    BY <1>4
  <2>. QED  BY <1>4, <2>1, <2>2, CallType
<1>6. at \in [hits -> 1..Len(s)] /\ call \in [hits -> ToolCalls]
  BY <1>4, <1>5
<1>7. hits \in SUBSET DOMAIN sp
  OBVIOUS
<1>. HIDE DEF at, call, hits
<1>8. Reads(s, ends, hits, at, call)
  BY <1>1, <1>4, <1>5, <1>6, <1>7 DEF sp, Reads
<1>. QED  BY <1>8

\* What Unclosed gives if there is a call at l, after the tag at i.
Cut(s, i, l) == [text |-> SubSeq(s, 1, i - 1), calls |-> <<coerce_call(s[l])>>]

LEMMA UnclosedFacts ==
    ASSUME NEW s \in Seq(Pieces)
    PROVE  \/ Unclosed(s) = [text |-> s, calls |-> <<>>]
           \/ \E i \in 1..Len(s) : \E l \in i..Len(s) :
                  s[i].k = "tool_call" /\ s[l].name # NoName /\ Unclosed(s) = Cut(s, i, l)
<1>. DEFINE I == {i \in 1..Len(s) : IsOpening(s[i])}
            at == SelectInSeq(s, IsOpening)
            t == SubSeq(s, at + 1, Len(s))
            T == {t[j] : j \in {j \in DOMAIN t : t[j].name # NoName}}
<1>1. at = IF I # {} THEN Min(I) ELSE 0
  BY DEF SelectInSeq
<1>2. Unclosed(s) = IF at = 0 \/ Callable(t) = <<>> THEN [text |-> s, calls |-> <<>>]
                    ELSE [text |-> SubSeq(s, 1, at - 1), calls |-> <<coerce_call(Callable(t)[1])>>]
  BY DEF Unclosed
<1>3. at = 0 \/ at \in I
  <2>1. I \in SUBSET Nat
    OBVIOUS
  <2>. QED  BY <1>1, <2>1, MinFacts
<1>. HIDE DEF at
<1>4. CASE at = 0 \/ Callable(t) = <<>>
  <2>. HIDE DEF t
  <2>. QED  BY <1>2, <1>4
<1>5. CASE at # 0 /\ Callable(t) # <<>>
  <2>1. at \in 1..Len(s) /\ s[at].k = "tool_call"
    BY <1>3, <1>5 DEF IsOpening
  <2>2. /\ t \in Seq(Pieces)
        /\ \A j \in DOMAIN t : at + j \in at..Len(s) /\ t[j] = s[at + j]
    BY <2>1
  <2>. HIDE DEF t
  <2>3. Callable(t) \in Seq(T)
    BY <2>2, FoundBy, FoundFacts
  <2>4. Callable(t)[1] \in T
    <3>. HIDE DEF T
    <3>. QED  BY <1>5, <2>3
  <2>5. PICK j \in DOMAIN t : t[j].name # NoName /\ Callable(t)[1] = t[j]
    BY <2>4
  <2>6. PICK l \in at..Len(s) : l = at + j
    BY <2>2
  <2>7. Unclosed(s) = Cut(s, at, l) /\ s[l].name # NoName
    BY <1>2, <1>5, <2>2, <2>5, <2>6 DEF Cut
  <2>. QED  BY <2>1, <2>7
<1>. QED  BY <1>4, <1>5

LEMMA BareFacts ==
    ASSUME NEW s \in Seq(Pieces)
    PROVE  /\ Bare(s).text = s /\ Bare(s).calls \in Seq(ToolCalls)
           /\ (\A i \in DOMAIN s : ~ IsExplicit(s[i])) => Bare(s).calls = <<>>
<1>. DEFINE T == {s[i] : i \in {i \in DOMAIN s : s[i].name # NoName}}
            e == Explicit(s)
<1>1. Bare(s).text = s /\ Bare(s).calls = [n \in DOMAIN e |-> coerce_call(e[n])]
  BY DEF Bare
<1>2. e \in Seq(T)
  BY FoundBy, FoundFacts
<1>3. \A p \in T : coerce_call(p) \in ToolCalls
  <2>1. ASSUME NEW i \in DOMAIN s, s[i].name # NoName  PROVE coerce_call(s[i]) \in ToolCalls
    <3>1. s[i] \in Pieces
      OBVIOUS
    <3>. QED  BY <2>1, <3>1, CallType
  <2>. QED  BY <2>1
<1>4. (\A i \in DOMAIN s : ~ IsExplicit(s[i])) => e = <<>>
  <2>1. SUFFICES ASSUME \A i \in DOMAIN s : ~ IsExplicit(s[i])  PROVE e = <<>>
    OBVIOUS
  <2>2. {i \in DOMAIN s : IsExplicit(s[i])} = {}
    BY <2>1
  <2>. QED  BY <2>2, SelectNone DEF Explicit, Filter
<1>. HIDE DEF e, T
<1>5. Len(e) \in Nat /\ DOMAIN e = 1..Len(e) /\ \A n \in DOMAIN e : e[n] \in T
  BY <1>2
<1>6. \A n \in 1..Len(e) : coerce_call(e[n]) \in ToolCalls
  BY <1>3, <1>5
<1>7. Bare(s).calls \in Seq(ToolCalls)
  BY <1>1, <1>5, <1>6
<1>8. e = <<>> => Bare(s).calls = <<>>
  BY <1>1
<1>. QED  BY <1>1, <1>4, <1>7, <1>8

(* The first layer that finds a call gives the result. *)
LEMMA ParseCases ==
    ASSUME NEW s
    PROVE  LET M == Marked(s)
           IN  \/ (\A n \in 1..4 : M[n].calls = <<>>) /\ parse_tool_calls(s) = Bare(s)
               \/ \E n \in 1..4 : /\ M[n].calls # <<>> /\ parse_tool_calls(s) = M[n]
                                  /\ \A m \in 1..n - 1 : M[m].calls = <<>>
<1>. DEFINE M == Marked(s)
            I == {n \in 1..4 : HasCalls(M[n])}
            hit == SelectInSeq(M, HasCalls)
<1>1. Len(M) = 4
  BY DEF Marked
<1>2. hit = IF I # {} THEN Min(I) ELSE 0
  BY <1>1 DEF SelectInSeq
<1>3. parse_tool_calls(s) = IF hit = 0 THEN Bare(s) ELSE M[hit]
  BY DEF parse_tool_calls
<1>. HIDE DEF M, hit
<1>4. CASE I = {}
  BY <1>2, <1>3, <1>4 DEF HasCalls, M
<1>5. CASE I # {}
  <2>1. I \in SUBSET Nat
    OBVIOUS
  <2>2. hit \in I /\ \A n \in I : hit <= n
    BY <1>2, <1>5, <2>1, MinFacts
  <2>3. hit \in 1..4 /\ hit # 0 /\ M[hit].calls # <<>>
    BY <2>2 DEF HasCalls
  <2>4. \A m \in 1..hit - 1 : M[m].calls = <<>>
    BY <2>2 DEF HasCalls
  <2>5. parse_tool_calls(s) = M[hit]
    BY <1>3, <2>3
  <2>. QED  BY <2>3, <2>4, <2>5 DEF M
<1>. QED  BY <1>4, <1>5

LEMMA MarkedLayers ==
    ASSUME NEW s
    PROVE  /\ Marked(s)[1] = FromSpans(s, CallSpan) /\ Marked(s)[2] = Unclosed(s)
           /\ Marked(s)[3] = FromSpans(s, PythonSpan) /\ Marked(s)[4] = FromSpans(s, FenceSpan)
BY DEF Marked

(* Calls have a name and a dict; the text is what is left of the text. *)
LEMMA ParseType ==
    ASSUME NEW s \in Seq(Pieces)
    PROVE  /\ parse_tool_calls(s).text \in Seq(Pieces)
           /\ parse_tool_calls(s).calls \in Seq(ToolCalls)
<1>. DEFINE Ok(r) == r.text \in Seq(Pieces) /\ r.calls \in Seq(ToolCalls)
<1>1. ASSUME NEW ends \in {CallSpan, PythonSpan, FenceSpan}
      PROVE  Ok(FromSpans(s, ends))
  <2>1. PICK hits, at, call : Reads(s, ends, hits, at, call)
    BY FromSpansFacts
  <2>2. FromSpans(s, ends).text \in Seq(Pieces)
    BY <2>1, SpansKept DEF Reads
  <2>3. Len(s) \in Nat /\ hits \in SUBSET (1..Len(s))
    BY <2>1, SpansFacts DEF Reads
  <2>4. \A i \in hits : call[i] \in ToolCalls
    BY <2>1 DEF Reads
  <2>5. Select(call, hits) \in Seq(ToolCalls)
    BY <2>3, <2>4, SelectType
  <2>. QED  BY <2>1, <2>2, <2>5 DEF Reads
<1>2. Ok(Unclosed(s))
  <2>1. CASE Unclosed(s) = [text |-> s, calls |-> <<>>]
    BY <2>1
  <2>2. ASSUME NEW i \in 1..Len(s), NEW l \in i..Len(s), s[l].name # NoName,
               Unclosed(s) = Cut(s, i, l)
        PROVE  Ok(Unclosed(s))
    <3>1. s[l] \in Pieces
      OBVIOUS
    <3>2. coerce_call(s[l]) \in ToolCalls
      BY <2>2, <3>1, CallType
    <3>3. SubSeq(s, 1, i - 1) \in Seq(Pieces)
      OBVIOUS
    <3>. QED  BY <2>2, <3>2, <3>3 DEF Cut
  <2>. QED  BY <2>1, <2>2, UnclosedFacts
<1>3. Ok(Bare(s))
  BY BareFacts
<1>4. Ok(parse_tool_calls(s))
  <2>. HIDE DEF Ok
  <2>1. \A n \in 1..4 : Ok(Marked(s)[n])
    <3>1. \A n \in 1..4 : n = 1 \/ n = 2 \/ n = 3 \/ n = 4
      OBVIOUS
    <3>. QED  BY <1>1, <1>2, <3>1, MarkedLayers
  <2>. QED  BY <1>3, <2>1, ParseCases
<1>. QED  BY <1>4

-----------------------------------------------------------------------------
(* The invariant of a conversation. *)

ChunkRecords == [content : Seq(Pieces), finish : {"none", "stop", "length"}]

ClientCalls == [id : Int, name : Names, args : {"dict", "_raw", "_value"}]

\* An answer that went back into the history has calls with the ids of their
\* places, and then no tag in its text.
IsAnswer(m) ==
    /\ \E calls \in Seq(ToolCalls) : m.calls = to_openai_tool_calls(calls)
    /\ \A i \in DOMAIN m.content : IsText(m.content[i])

Messages ==
    {m \in [role : {"system", "user", "assistant", "tool"}, content : Seq(Pieces),
            calls : Seq(ClientCalls)] :
         m.calls # <<>> => m.role = "assistant" /\ IsAnswer(m)}

HistoryOK == history \in Seq(Messages) /\ history # <<>>

\* What the stream has collected is what the other path will make of the chunks.
ChunksOK ==
    /\ chunks \in Seq(ChunkRecords)
    /\ buf \in Seq(Pieces)
    /\ buf = joined(chunks)
    /\ finish_reason = last_finish_reason(chunks)

PromptOK == phase # "asking" => prompt = apply_tool_formatting(request, history)

AnswerOK ==
    /\ phase = "generating" => whole = NoAnswer
    /\ phase = "answered" =>
         /\ whole = assistant_message(tool_mode(request), buf, finish_reason)
         /\ streamed = IF tool_mode(request) THEN tool_stream_chunks(buf, finish_reason)
                       ELSE Answer(buf, <<>>, finish_reason)

TurnInv ==
    /\ phase \in {"asking", "generating", "answered"}
    /\ request \in Requests
    /\ HistoryOK
    /\ ChunksOK
    /\ PromptOK
    /\ AnswerOK

LEMMA ProseType == Prose \in Seq(Pieces) /\ Len(Prose) = 1 /\ Prose[1] = Piece("prose")
<1>1. Piece("prose") \in Pieces
  BY DEF Pieces
<1>. QED  BY <1>1 DEF Prose

(* The text of one more chunk. *)
LEMMA JoinedAppend ==
    ASSUME NEW cs \in Seq(ChunkRecords), NEW c \in ChunkRecords
    PROVE  joined(Append(cs, c)) = joined(cs) \o c.content
<1>. DEFINE texts == [i \in DOMAIN cs |-> cs[i].content]
            more == [i \in DOMAIN Append(cs, c) |-> Append(cs, c)[i].content]
<1>0. \A x \in ChunkRecords : x.content \in Seq(Pieces)
  BY DEF ChunkRecords
<1>1. \A i \in DOMAIN cs : cs[i].content \in Seq(Pieces)
  BY <1>0
<1>2. texts \in Seq(Seq(Pieces)) /\ Len(texts) = Len(cs) /\ c.content \in Seq(Pieces)
  BY <1>0, <1>1
<1>3. PICK k \in Nat : k = Len(cs) + 1
  OBVIOUS
<1>4. /\ Append(cs, c) \in Seq(ChunkRecords) /\ Len(Append(cs, c)) = k /\ Append(cs, c)[k] = c
      /\ \A i \in DOMAIN cs : Append(cs, c)[i] = cs[i]
  BY <1>3, AppendProperties
<1>5. /\ DOMAIN Append(cs, c) = 1..k
      /\ \A i \in DOMAIN Append(cs, c) : Append(cs, c)[i].content \in Seq(Pieces)
  <2>1. DOMAIN Append(cs, c) = 1..k
    BY <1>4
  <2>2. \A i \in DOMAIN Append(cs, c) : Append(cs, c)[i] \in ChunkRecords
    BY <1>4
  <2>. QED  BY <1>0, <2>1, <2>2
<1>6. /\ more \in Seq(Seq(Pieces)) /\ Len(more) = k /\ more[k] = c.content
      /\ \A i \in DOMAIN cs : more[i] = texts[i]
  BY <1>3, <1>4, <1>5
<1>7. /\ joined(Append(cs, c)) = FlattenSeq(more)
      /\ joined(cs) = FlattenSeq(texts)
  BY DEF joined
<1>. HIDE DEF more, texts
<1>8. /\ Append(texts, c.content) \in Seq(Seq(Pieces)) /\ Len(Append(texts, c.content)) = k
      /\ Append(texts, c.content)[k] = c.content
      /\ \A i \in DOMAIN cs : Append(texts, c.content)[i] = texts[i]
  <2>1. \A i \in DOMAIN cs : i \in 1..Len(texts)
    BY <1>2
  <2>. QED  BY <1>2, <1>3, <2>1, AppendProperties
<1>9. \A i \in 1..k : i = k \/ i \in DOMAIN cs
  BY <1>3
<1>10. more = Append(texts, c.content)
  BY <1>6, <1>8, <1>9, SeqEqual
<1>. QED  BY <1>2, <1>7, <1>10, FlattenAppend

(* Its finish_reason, if it brings one. *)
LEMMA LastFinishReason ==
    ASSUME NEW cs \in Seq(ChunkRecords), NEW c \in ChunkRecords
    PROVE  last_finish_reason(Append(cs, c)) = chunk_finish_reason(last_finish_reason(cs), c)
<1>. DEFINE G(u) == {i \in DOMAIN u : u[i].finish # "none"}
<1>1. PICK k \in Nat : k = Len(cs) + 1
  OBVIOUS
<1>2. PICK d \in Seq(ChunkRecords) : d = Append(cs, c)
  <2>1. Append(cs, c) \in Seq(ChunkRecords)
    BY AppendProperties
  <2>. QED  BY <2>1
<1>3. /\ DOMAIN d = 1..k /\ d[k] = c /\ DOMAIN cs = 1..k - 1
      /\ \A i \in DOMAIN cs : d[i] = cs[i]
  BY <1>1, <1>2, AppendProperties
<1>4. G(cs) \in SUBSET (1..k) /\ G(d) \in SUBSET (1..k)
  BY <1>3
<1>5. /\ last_finish_reason(d) = IF G(d) = {} THEN "none" ELSE d[Max(G(d))].finish
      /\ last_finish_reason(cs) = IF G(cs) = {} THEN "none" ELSE cs[Max(G(cs))].finish
  BY DEF last_finish_reason
<1>6. CASE c.finish = "none"
  <2>1. \A i \in 1..k : i = k \/ i \in DOMAIN cs
    BY <1>3
  <2>2. G(d) = G(cs)
    BY <1>3, <1>6, <2>1
  <2>3. G(cs) # {} => Max(G(cs)) \in DOMAIN cs
    <3>1. G(cs) # {} => Max(G(cs)) \in G(cs)
      <4>. HIDE DEF G
      <4>. QED  BY <1>4, MaxFacts
    <3>. QED  BY <3>1
  <2>. HIDE DEF G
  <2>4. G(cs) # {} => d[Max(G(cs))] = cs[Max(G(cs))]
    BY <1>3, <2>3
  <2>5. last_finish_reason(d) = last_finish_reason(cs)
    BY <1>5, <2>2, <2>4
  <2>. QED  BY <1>2, <1>6, <2>5 DEF chunk_finish_reason
<1>7. CASE c.finish # "none"
  <2>1. k \in G(d) /\ \A i \in G(d) : i <= k
    BY <1>1, <1>3, <1>7
  <2>. HIDE DEF G
  <2>2. Max(G(d)) \in G(d) /\ k <= Max(G(d)) /\ Max(G(d)) <= k
    BY <1>4, <2>1, MaxFacts
  <2>3. Max(G(d)) = k
    BY <1>4, <2>2
  <2>4. last_finish_reason(d) = c.finish
    BY <1>3, <1>5, <2>1, <2>3
  <2>. QED  BY <1>2, <1>7, <2>4 DEF chunk_finish_reason
<1>. QED  BY <1>6, <1>7

LEMMA OpenAIType ==
    ASSUME NEW calls \in Seq(ToolCalls)
    PROVE  to_openai_tool_calls(calls) \in Seq(ClientCalls)
<1>1. /\ Len(calls) \in Nat /\ DOMAIN calls = 1..Len(calls)
      /\ \A i \in 1..Len(calls) : calls[i] \in ToolCalls
  OBVIOUS
<1>2. ASSUME NEW i \in 1..Len(calls)
      PROVE  [id |-> i - 1, name |-> calls[i].name, args |-> calls[i].args] \in ClientCalls
  <2>1. calls[i] \in ToolCalls
    OBVIOUS
  <2>. QED  BY <2>1 DEF ToolCalls, ClientCalls
<1>. QED  BY <1>1, <1>2 DEF to_openai_tool_calls

(* What the master answers can go back into the history. *)
LEMMA AnswerIsMessage ==
    ASSUME NEW mode \in BOOLEAN, NEW text \in Seq(Pieces), NEW fr
    PROVE  LET a == assistant_message(mode, text, fr)
           IN  /\ Message("assistant", a.content, a.calls) \in Messages
               /\ a.calls \in Seq(ClientCalls)
               /\ ~ mode => a.calls = <<>>
<1>. DEFINE r == parse_tool_calls(text)
            clean == strip_leaked_markup(r.text)
            a == assistant_message(mode, text, fr)
<1>1. r.text \in Seq(Pieces) /\ r.calls \in Seq(ToolCalls)
  BY ParseType
<1>2. clean \in Seq(Pieces) /\ \A i \in DOMAIN clean : IsText(clean[i])
  <2>. HIDE DEF r
  <2>. QED  BY <1>1, NoTagIsShown
<1>3. a = IF ~ mode THEN Answer(text, <<>>, OrStop(fr))
          ELSE IF r.calls # <<>>
          THEN Answer(clean, to_openai_tool_calls(r.calls), "tool_calls")
          ELSE Answer(clean, <<>>, OrStop(fr))
  BY DEF assistant_message
<1>. HIDE DEF r, clean, a
<1>4. CASE mode /\ r.calls # <<>>
  <2>1. a.content = clean /\ a.calls = to_openai_tool_calls(r.calls)
    BY <1>3, <1>4 DEF Answer
  <2>2. a.calls \in Seq(ClientCalls)
    BY <1>1, <2>1, OpenAIType
  <2>3. Message("assistant", a.content, a.calls) \in Messages
    BY <1>1, <1>2, <2>1, <2>2 DEF Message, Messages, IsAnswer
  <2>. QED  BY <1>4, <2>2, <2>3 DEF a
<1>5. CASE ~ (mode /\ r.calls # <<>>)
  <2>1. a.content \in Seq(Pieces) /\ a.calls = <<>>
    BY <1>2, <1>3, <1>5 DEF Answer
  <2>2. a.calls \in Seq(ClientCalls)
    BY <2>1
  <2>3. Message("assistant", a.content, a.calls) \in Messages
    BY <2>1, <2>2 DEF Message, Messages
  <2>. QED  BY <2>1, <2>2, <2>3 DEF a
<1>. QED  BY <1>4, <1>5

LEMMA QuestionType == Question \in Messages
BY ProseType DEF Question, Message, Messages

LEMMA BeginningsType == \A h \in Beginnings : h \in Seq(Messages) /\ h # <<>>
<1>1. Message("system", Prose, <<>>) \in Messages
  BY ProseType DEF Message, Messages
<1>2. Question \in Messages
  BY QuestionType
<1>. DEFINE s == Message("system", Prose, <<>>)
<1>. HIDE DEF s
<1>3. <<Question>> \in Seq(Messages) /\ <<s, Question>> \in Seq(Messages)
  BY <1>1, <1>2 DEF s
<1>4. <<Question>> # <<>> /\ <<s, Question>> # <<>>
  OBVIOUS
<1>. QED  BY <1>3, <1>4 DEF Beginnings, s

LEMMA NothingJoined == joined(<<>>) = <<>> /\ last_finish_reason(<<>>) = "none"
<1>1. [i \in DOMAIN <<>> |-> <<>>[i].content] = <<>>
  OBVIOUS
<1>. QED  BY <1>1, FlattenNone DEF joined, last_finish_reason

LEMMA ModeIsBoolean == ASSUME NEW r PROVE tool_mode(r) \in BOOLEAN
BY DEF tool_mode, wants_tools

(* TurnInv holds initially. *)
LEMMA TurnInit == Init => TurnInv
<1>1. SUFFICES ASSUME Init PROVE TurnInv
  OBVIOUS
<1>2. HistoryOK
  BY <1>1, BeginningsType DEF Init, HistoryOK
<1>3. ChunksOK
  BY <1>1, NothingJoined DEF Init, ChunksOK
<1>. QED  BY <1>1, <1>2, <1>3 DEF Init, TurnInv, PromptOK, AnswerOK

(* Every step preserves it. *)
LEMMA TurnNext == TurnInv /\ [Next]_vars => TurnInv'
<1>1. SUFFICES ASSUME TurnInv, [Next]_vars PROVE TurnInv'
  OBVIOUS
<1>2. CASE Ask
  <2>1. HistoryOK' /\ request' \in Requests
    BY <1>1, <1>2 DEF TurnInv, Ask, HistoryOK
  <2>2. ChunksOK'
    BY <1>2, NothingJoined DEF Ask, ChunksOK
  <2>3. PromptOK'
    BY <1>2 DEF Ask, PromptOK
  <2>4. AnswerOK'
    BY <1>2 DEF Ask, AnswerOK
  <2>. QED  BY <1>2, <2>1, <2>2, <2>3, <2>4 DEF TurnInv, Ask
<1>3. ASSUME NEW text \in Seq(Pieces), NEW finish \in {"none", "stop", "length"},
             Chunk(text, finish)
      PROVE  TurnInv'
  <2>. DEFINE c == [content |-> text, finish |-> finish]
  <2>1. c \in ChunkRecords /\ c.content = text
    BY DEF ChunkRecords
  <2>2. /\ chunks' = Append(chunks, c) /\ buf' = buf \o c.content
        /\ finish_reason' = chunk_finish_reason(finish_reason, c)
        /\ phase = "generating"
        /\ UNCHANGED <<phase, history, request, prompt, whole, streamed>>
    BY <1>3 DEF Chunk, accumulate
  <2>3. chunks \in Seq(ChunkRecords) /\ buf \in Seq(Pieces)
    BY <1>1 DEF TurnInv, ChunksOK
  <2>. HIDE DEF c
  <2>4. chunks' \in Seq(ChunkRecords) /\ buf' \in Seq(Pieces)
    BY <2>1, <2>2, <2>3
  <2>5. buf' = joined(chunks') /\ finish_reason' = last_finish_reason(chunks')
    BY <1>1, <2>1, <2>2, <2>3, JoinedAppend, LastFinishReason DEF TurnInv, ChunksOK
  <2>6. ChunksOK'
    BY <2>4, <2>5 DEF ChunksOK
  <2>7. HistoryOK' /\ PromptOK' /\ AnswerOK'
    BY <1>1, <2>2 DEF TurnInv, HistoryOK, PromptOK, AnswerOK
  <2>. QED  BY <1>1, <2>2, <2>6, <2>7 DEF TurnInv
<1>4. CASE Done
  <2>1. HistoryOK' /\ request' \in Requests /\ PromptOK' /\ phase' = "answered"
    BY <1>1, <1>4 DEF TurnInv, Done, HistoryOK, PromptOK
  <2>2. ChunksOK'
    BY <1>1, <1>4 DEF TurnInv, Done, ChunksOK
  <2>3. AnswerOK'
    BY <1>1, <1>4 DEF TurnInv, Done, ChunksOK, AnswerOK, aggregate_chat_completion
  <2>. QED  BY <2>1, <2>2, <2>3 DEF TurnInv
<1>5. CASE FollowUp
  <2>. DEFINE m == Message("assistant", whole.content, whole.calls)
              results == [i \in DOMAIN whole.calls |->
                             Message("tool", <<Json(whole.calls[i].name, "absent")>>, <<>>)]
              more == IF whole.calls = <<>> THEN <<Question>> ELSE results
  <2>1. m \in Messages /\ whole.calls \in Seq(ClientCalls)
    <3>1. whole = assistant_message(tool_mode(request), buf, finish_reason) /\ buf \in Seq(Pieces)
      BY <1>1, <1>5 DEF FollowUp, TurnInv, AnswerOK, ChunksOK
    <3>. QED  BY <3>1, ModeIsBoolean, AnswerIsMessage
  <2>2. results \in Seq(Messages)
    <3>1. /\ Len(whole.calls) \in Nat /\ DOMAIN whole.calls = 1..Len(whole.calls)
          /\ \A i \in DOMAIN whole.calls : whole.calls[i] \in ClientCalls
      BY <2>1
    <3>2. ASSUME NEW c \in ClientCalls
          PROVE  Message("tool", <<Json(c.name, "absent")>>, <<>>) \in Messages
      <4>1. Json(c.name, "absent") \in Pieces
        BY DEF ClientCalls, Pieces, ArgShapes, NotGiven
      <4>2. <<Json(c.name, "absent")>> \in Seq(Pieces)
        BY <4>1
      <4>. QED  BY <4>2 DEF Message, Messages
    <3>. QED  BY <3>1, <3>2
  <2>3. history' = history \o <<m>> \o more
    BY <1>5 DEF FollowUp
  <2>4. more \in Seq(Messages) /\ <<m>> \in Seq(Messages)
    BY <2>1, <2>2, QuestionType
  <2>. HIDE DEF m, more
  <2>5. history \in Seq(Messages)
    BY <1>1 DEF TurnInv, HistoryOK
  <2>6. /\ (history \o <<m>>) \o more \in Seq(Messages)
        /\ Len((history \o <<m>>) \o more) = Len(history) + 1 + Len(more)
    BY <2>4, <2>5
  <2>7. HistoryOK'
    <3>1. history' \in Seq(Messages) /\ Len(history') # 0
      BY <2>3, <2>4, <2>5, <2>6
    <3>. QED  BY <3>1 DEF HistoryOK
  <2>8. ChunksOK' /\ PromptOK' /\ AnswerOK' /\ request' \in Requests /\ phase' = "asking"
    BY <1>1, <1>5 DEF FollowUp, TurnInv, ChunksOK, PromptOK, AnswerOK
  <2>. QED  BY <2>7, <2>8 DEF TurnInv
<1>6. CASE UNCHANGED vars
  BY <1>1, <1>6 DEF TurnInv, vars, HistoryOK, ChunksOK, PromptOK, AnswerOK
<1>7. \A text \in Fragments : text \in Seq(Pieces)
  BY FragmentsAreText
<1>8. <<>> \in Seq(Pieces)
  OBVIOUS
<1>. QED  BY <1>1, <1>2, <1>3, <1>4, <1>5, <1>6, <1>7, <1>8 DEF Next

(* TurnInv: the history is one a client can have, what a stream has collected *)
(* is the text and the finish_reason of all chunks, the prompt is written     *)
(* from the history, and both answers are shaped from the same text.          *)
THEOREM TurnInvariant == Spec => []TurnInv
<1>. QED  BY TurnInit, TurnNext, PTL DEF Spec

(* Whether a client streams does not matter, for any text in any number of   *)
(* chunks: the two pieces of code that shape the answer agree on its text,    *)
(* its calls and its finish_reason (streaming.py:113-161 and 176-200).        *)
THEOREM SameAnswerAlways == Spec => []SameAnswer
<1>1. TurnInv => SameAnswer
  <2>1. SUFFICES ASSUME TurnInv, phase = "answered" PROVE SameAnswer
    BY DEF SameAnswer
  <2>2. whole = assistant_message(tool_mode(request), buf, finish_reason)
    BY <2>1 DEF TurnInv, AnswerOK
  <2>3. CASE tool_mode(request)
    <3>1. streamed = tool_stream_chunks(buf, finish_reason)
      BY <2>1, <2>3 DEF TurnInv, AnswerOK
    <3>2. whole = streamed
      BY <2>2, <2>3, <3>1 DEF assistant_message, tool_stream_chunks
    <3>. QED  BY <3>2 DEF SameAnswer
  <2>4. CASE ~ tool_mode(request)
    <3>1. streamed = Answer(buf, <<>>, finish_reason)
      BY <2>1, <2>4 DEF TurnInv, AnswerOK
    <3>2. whole = Answer(buf, <<>>, OrStop(finish_reason))
      BY <2>2, <2>4 DEF assistant_message
    <3>. QED  BY <2>4, <3>1, <3>2 DEF SameAnswer, OrStop, Answer
  <2>. QED  BY <2>3, <2>4
<1>. QED  BY <1>1, TurnInvariant, PTL

-----------------------------------------------------------------------------
(* The prompt. *)

(* A selection of something. *)
LEMMA SelectSome ==
    ASSUME NEW N \in Nat, NEW I \in SUBSET (1..N), I # {}, NEW s
    PROVE  Select(s, I) # <<>>
<1>1. PICK n \in Nat : \E h : Enumerates(h, n, I) /\ Len(Select(s, I)) = n
  BY SelectFacts
<1>2. PICK h : Enumerates(h, n, I)
  BY <1>1
<1>3. n # 0
  <2>1. PICK i \in I : TRUE
    OBVIOUS
  <2>2. PICK a \in 1..n : h[a] = i
    BY <1>2, <2>1 DEF Enumerates
  <2>. QED  BY <2>2
<1>. QED  BY <1>1, <1>3

LEMMA FunctionsType ==
    ASSUME NEW r \in Requests
    PROVE  functions_from_request(r) \in Seq(Names)
<1>. DEFINE I == {i \in DOMAIN r.tools : IsFunction(r.tools[i])}
            J == {i \in DOMAIN r.functions : IsBare(r.functions[i])}
            T == {e \in Entries : e.name # NoName}
            found == Select(r.tools, I) \o Select(r.functions, J)
<1>1. r.tools \in Seq(Entries) /\ r.functions \in Seq(Entries)
  BY RequestsAreRequests
<1>2. Select(r.tools, I) \in Seq(T)
  <2>1. /\ Len(r.tools) \in Nat /\ I \in SUBSET (1..Len(r.tools))
        /\ \A i \in I : r.tools[i] \in T
    BY <1>1 DEF IsFunction
  <2>. HIDE DEF I, T
  <2>. QED  BY <2>1, SelectType
<1>3. Select(r.functions, J) \in Seq(T)
  <2>1. /\ Len(r.functions) \in Nat /\ J \in SUBSET (1..Len(r.functions))
        /\ \A i \in J : r.functions[i] \in T
    BY <1>1 DEF IsBare
  <2>. HIDE DEF J, T
  <2>. QED  BY <2>1, SelectType
<1>4. functions_from_request(r) = [i \in DOMAIN found |-> found[i].name]
  BY DEF functions_from_request, Filter
<1>5. \A e \in T : e.name \in Names
  BY DEF Entries
<1>. HIDE DEF I, J, T
<1>6. found \in Seq(T)
  BY <1>2, <1>3
<1>. HIDE DEF found
<1>7. Len(found) \in Nat /\ DOMAIN found = 1..Len(found) /\ \A i \in 1..Len(found) : found[i].name \in Names
  BY <1>5, <1>6
<1>. QED  BY <1>4, <1>7

\* The messages of a prompt, but the first.
PromptTexts == Seq(Pieces \cup {Json(ExampleName, "dict"), Json(ExampleName, "absent")})
PromptMessages ==
    [role : {"system", "user", "assistant"}, content : PromptTexts, calls : {<<>>}]

\* Whether a text tells the model of tools.
TellsOfTools(t) == \E n \in DOMAIN t : t[n].k = "tools"

(* Only the tool prompt does. *)
LEMMA NoToolsInPieces ==
    /\ \A t \in Seq(Pieces) : ~ TellsOfTools(t)
    /\ \A m \in PromptMessages : ~ TellsOfTools(m.content)
<1>1. \A p \in Pieces : p.k # "tools"
  BY DEF Pieces, Piece, Json, PythonCall, Tags
<1>2. \A p \in {Json(ExampleName, "dict"), Json(ExampleName, "absent")} : p.k # "tools"
  BY DEF Json
<1>3. \A t \in PromptTexts : ~ TellsOfTools(t)
  BY <1>1, <1>2 DEF PromptTexts, TellsOfTools
<1>. QED  BY <1>1, <1>3 DEF PromptMessages, TellsOfTools

LEMMA TaggedType ==
    ASSUME NEW c, c.name \in Names, c.args \in ArgShapes
    PROVE  Tagged(c) \in Seq(Pieces) /\ Len(Tagged(c)) = 3
<1>1. Piece("tool_call") \in Pieces /\ Piece("/tool_call") \in Pieces
  BY DEF Pieces, Tags
<1>2. Json(c.name, c.args) \in Pieces
  BY DEF Pieces
<1>. QED  BY <1>1, <1>2 DEF Tagged

(* The history of the prompt: as many messages, of the two roles it may have. *)
LEMMA RenderType ==
    ASSUME NEW m \in Messages
    PROVE  render_history_message(m) \in PromptMessages
<1>1. /\ m.role \in {"system", "user", "assistant", "tool"} /\ m.content \in Seq(Pieces)
      /\ m.calls \in Seq(ClientCalls)
      /\ m.calls # <<>> => m.role = "assistant"
      /\ m = [role |-> m.role, content |-> m.content, calls |-> m.calls]
  BY DEF Messages
<1>2. Seq(Pieces) \subseteq PromptTexts
  BY DEF PromptTexts
<1>a. \A t \in Seq(Pieces), role \in {"user", "assistant"} :
          Message(role, t, <<>>) \in PromptMessages
  BY <1>2 DEF Message, PromptMessages
<1>3. CASE m.role = "tool"
  <2>1. Piece("tool_response") \in Pieces /\ Piece("/tool_response") \in Pieces
    BY DEF Pieces, Tags
  <2>2. <<Piece("tool_response")>> \o m.content \o <<Piece("/tool_response")>> \in Seq(Pieces)
    BY <1>1, <2>1
  <2>. QED  BY <1>3, <1>a, <2>2 DEF render_history_message
<1>4. CASE m.role = "assistant" /\ m.calls # <<>>
  <2>. DEFINE tagged == [i \in DOMAIN m.calls |-> Tagged(m.calls[i])]
  <2>1. /\ Len(m.calls) \in Nat /\ DOMAIN m.calls = 1..Len(m.calls)
        /\ \A i \in DOMAIN m.calls : m.calls[i] \in ClientCalls
    BY <1>1
  <2>2. \A c \in ClientCalls : Tagged(c) \in Seq(Pieces)
    <3>1. \A c \in ClientCalls : c.name \in Names /\ c.args \in ArgShapes
      BY DEF ClientCalls, ArgShapes
    <3>. QED  BY <3>1, TaggedType
  <2>3. tagged \in Seq(Seq(Pieces))
    BY <2>1, <2>2
  <2>. HIDE DEF tagged
  <2>4. m.content \o FlattenSeq(tagged) \in Seq(Pieces)
    <3>1. FlattenSeq(tagged) \in Seq(Pieces)
      BY <2>3, FlattenType
    <3>. QED  BY <1>1, <3>1
  <2>5. render_history_message(m) = Message("assistant", m.content \o FlattenSeq(tagged), <<>>)
    BY <1>4 DEF render_history_message, tagged
  <2>. QED  BY <1>a, <2>4, <2>5
<1>5. CASE m.role # "tool" /\ ~ (m.role = "assistant" /\ m.calls # <<>>)
  <2>1. /\ render_history_message(m) = m /\ m.calls = <<>>
        /\ m.role \in {"system", "user", "assistant"}
    BY <1>1, <1>5 DEF render_history_message
  <2>. QED  BY <1>1, <1>2, <2>1 DEF PromptMessages
<1>. QED  BY <1>3, <1>4, <1>5

(* The example of a call: its last message is the call. *)
LEMMA ExemplarType ==
    ASSUME NEW n \in Names
    PROVE  /\ Exemplar(n) \in Seq(PromptMessages) /\ Len(Exemplar(n)) = 2
           /\ Exemplar(n)[2].content = Tagged([name |-> n, args |-> "dict"])
<1>1. Tagged([name |-> n, args |-> "dict"]) \in Seq(Pieces)
  BY TaggedType DEF ArgShapes
<1>2. Seq(Pieces) \subseteq PromptTexts
  BY DEF PromptTexts
<1>3. /\ Message("user", Prose, <<>>) \in PromptMessages
      /\ Message("assistant", Tagged([name |-> n, args |-> "dict"]), <<>>) \in PromptMessages
  BY <1>1, <1>2, ProseType DEF PromptMessages, Message
<1>. QED  BY <1>3 DEF Exemplar, Message

LEMMA TwoAndTwo ==
    ASSUME NEW T, NEW a \in Seq(T), NEW b \in Seq(T), Len(a) = 2, Len(b) = 2
    PROVE  a \o b \in Seq(T) /\ Len(a \o b) = 4 /\ (a \o b)[4] = b[2]
<1>1. a \o b \in Seq(T) /\ Len(a \o b) = 2 + 2
  BY ConcatProperties
<1>2. 4 \in 1..4 /\ 4 > 2 /\ 4 - 2 = 2 /\ 2 + 2 = 4
  OBVIOUS
<1>3. (a \o b)[4] = b[4 - 2]
  BY <1>1, <1>2, ConcatProperties
<1>. QED  BY <1>1, <1>2, <1>3

(* The few-shot examples end with a call. *)
LEMMA FewshotFacts ==
    ASSUME NEW fns \in Seq(Names), fns # <<>>
    PROVE  /\ synthesize_fewshot(fns) \in Seq(PromptMessages)
           /\ Len(synthesize_fewshot(fns)) # 0
           /\ \E n \in Names : Last(synthesize_fewshot(fns)).content
                                   = Tagged([name |-> n, args |-> "dict"])
<1>. DEFINE P == PromptMessages
            few == synthesize_fewshot(fns)
<1>1. 1 \in DOMAIN fns /\ fns[1] \in Names /\ Exemplar(fns[1]) \in Seq(P)
      /\ Len(Exemplar(fns[1])) = 2
      /\ Exemplar(fns[1])[2].content = Tagged([name |-> fns[1], args |-> "dict"])
  BY ExemplarType
<1>2. FlattenSeq(<<Exemplar(fns[1])>>) = Exemplar(fns[1])
  <2>1. <<>> \in Seq(Seq(P)) /\ Append(<<>>, Exemplar(fns[1])) = <<Exemplar(fns[1])>>
    OBVIOUS
  <2>2. FlattenSeq(Append(<<>>, Exemplar(fns[1]))) = FlattenSeq(<<>>) \o Exemplar(fns[1])
    BY <1>1, <2>1, FlattenAppend
  <2>3. <<>> \o Exemplar(fns[1]) = Exemplar(fns[1])
    BY <1>1
  <2>. QED  BY <2>1, <2>2, <2>3, FlattenNone
<1>3. CASE Len(fns) < 2
  <2>1. Len(fns) = 1
    <3>1. Len(fns) \in Nat /\ Len(fns) # 0
      BY <1>1
    <3>2. PICK l \in Nat : l = Len(fns)
      BY <3>1
    <3>3. l # 0 /\ l < 2
      BY <1>3, <3>1, <3>2
    <3>4. l = 1
      BY <3>3
    <3>. QED  BY <3>2, <3>4
  <2>2. [i \in 1..1 |-> Exemplar(fns[i])] = <<Exemplar(fns[1])>>
    OBVIOUS
  <2>3. few = Exemplar(fns[1])
    BY <1>2, <1>3, <2>1, <2>2 DEF synthesize_fewshot
  <2>. QED  BY <1>1, <2>3 DEF Last
<1>4. CASE ~ (Len(fns) < 2)
  <2>1. 2 \in DOMAIN fns /\ fns[2] \in Names
    BY <1>4
  <2>2. /\ Exemplar(fns[2]) \in Seq(P) /\ Len(Exemplar(fns[2])) = 2
        /\ Exemplar(fns[2])[2].content = Tagged([name |-> fns[2], args |-> "dict"])
    BY <2>1, ExemplarType
  <2>3. [i \in 1..2 |-> Exemplar(fns[i])] = Append(<<Exemplar(fns[1])>>, Exemplar(fns[2]))
    <3>1. \A x, y : [i \in 1..2 |-> IF i = 1 THEN x ELSE y] = Append(<<x>>, y)
      OBVIOUS
    <3>2. [i \in 1..2 |-> Exemplar(fns[i])]
              = [i \in 1..2 |-> IF i = 1 THEN Exemplar(fns[1]) ELSE Exemplar(fns[2])]
      OBVIOUS
    <3>. QED  BY <3>1, <3>2
  <2>4. few = FlattenSeq([i \in 1..2 |-> Exemplar(fns[i])])
    BY <1>4 DEF synthesize_fewshot
  <2>5. few = Exemplar(fns[1]) \o Exemplar(fns[2])
    <3>1. <<Exemplar(fns[1])>> \in Seq(Seq(P))
      BY <1>1
    <3>. QED  BY <1>2, <2>2, <2>3, <2>4, <3>1, FlattenAppend
  <2>6. /\ few \in Seq(P) /\ Len(few) = 4 /\ few[4] = Exemplar(fns[2])[2]
    <3>. HIDE DEF few, P
    <3>. QED  BY <1>1, <2>2, <2>5, TwoAndTwo
  <2>. QED  BY <2>1, <2>2, <2>6 DEF Last
<1>. QED  BY <1>3, <1>4

(* The example of an answer ends with prose. *)
LEMMA AnswerExemplarFacts ==
    /\ answer_exemplar(ExampleName) \in Seq(PromptMessages)
    /\ Len(answer_exemplar(ExampleName)) = 4
    /\ answer_exemplar(ExampleName)[4].content = Prose
<1>. DEFINE n == ExampleName
            m(role, t) == Message(role, t, <<>>)
            a == m("user", Prose)
            b == m("assistant", Tagged([name |-> n, args |-> "dict"]))
            c == m("user", <<Piece("tool_response"), Json(n, "absent"), Piece("/tool_response")>>)
            d == m("assistant", Prose)
<1>1. \A t \in PromptTexts, role \in {"user", "assistant"} : m(role, t) \in PromptMessages
  BY DEF Message, PromptMessages
<1>2. /\ Prose \in PromptTexts
      /\ Tagged([name |-> n, args |-> "dict"]) \in PromptTexts
      /\ <<Piece("tool_response"), Json(n, "absent"), Piece("/tool_response")>> \in PromptTexts
  <2>1. /\ Piece("tool_call") \in Pieces /\ Piece("/tool_call") \in Pieces
        /\ Piece("tool_response") \in Pieces /\ Piece("/tool_response") \in Pieces
        /\ Piece("prose") \in Pieces
    BY DEF Pieces, Tags
  <2>. QED  BY <2>1 DEF PromptTexts, Prose, Tagged
<1>3. a \in PromptMessages /\ b \in PromptMessages /\ c \in PromptMessages /\ d \in PromptMessages
  <2>. HIDE DEF m
  <2>. QED  BY <1>1, <1>2
<1>4. d.content = Prose
  BY DEF Message
<1>5. answer_exemplar(ExampleName) = <<a, b>> \o <<c, d>>
  BY DEF answer_exemplar, Exemplar
<1>. HIDE DEF a, b, c, d
<1>. DEFINE left2 == <<a, b>>  right2 == <<c, d>>
<1>6. /\ left2 \in Seq(PromptMessages) /\ Len(left2) = 2
      /\ right2 \in Seq(PromptMessages) /\ Len(right2) = 2 /\ right2[2] = d
  BY <1>3
<1>7. answer_exemplar(ExampleName) = left2 \o right2
  BY <1>5
<1>. HIDE DEF left2, right2
<1>. QED  BY <1>4, <1>6, <1>7, TwoAndTwo

\* The examples of a prompt.
Examples(r, messages) ==
    IF needs_answer(messages) THEN answer_exemplar(ExampleName)
    ELSE synthesize_fewshot(functions_from_request(r))

(* A prompt with tools: the system's message, examples, the history. *)
LEMMA PromptParts ==
    ASSUME NEW r \in Requests, tool_mode(r), NEW messages \in Seq(Messages), messages # <<>>
    PROVE  LET p == apply_tool_formatting(r, messages)
               few == Examples(r, messages)
               sys == tool_system_prompt(functions_from_request(r))
           IN  /\ few \in Seq(PromptMessages) /\ Len(few) # 0
               /\ p \in Seq(PromptMessages \cup {sys})
               /\ Len(p) = 1 + Len(few) + Len(messages)
               /\ p[1] = sys
               /\ \A i \in 1..Len(few) : p[1 + i] = few[i]
               /\ \A i \in 1..Len(messages) :
                      p[1 + Len(few) + i] = render_history_message(messages[i])
<1>. DEFINE fns == functions_from_request(r)
            few == Examples(r, messages)
            sys == tool_system_prompt(fns)
            own == [i \in DOMAIN messages |-> render_history_message(messages[i])]
            S == PromptMessages \cup {sys}
            p == apply_tool_formatting(r, messages)
<1>1. fns \in Seq(Names) /\ fns # <<>>
  BY FunctionsType DEF tool_mode
<1>2. few \in Seq(PromptMessages) /\ Len(few) # 0
  <2>. HIDE DEF fns
  <2>1. CASE needs_answer(messages)
    <3>1. few = answer_exemplar(ExampleName)
      BY <2>1 DEF Examples
    <3>. QED  BY <3>1, AnswerExemplarFacts
  <2>2. CASE ~ needs_answer(messages)
    <3>1. few = synthesize_fewshot(fns)
      BY <2>2 DEF Examples, fns
    <3>. QED  BY <1>1, <3>1, FewshotFacts
  <2>. QED  BY <2>1, <2>2
<1>3. own \in Seq(PromptMessages) /\ Len(own) = Len(messages)
  <2>1. /\ Len(messages) \in Nat /\ DOMAIN messages = 1..Len(messages)
        /\ \A i \in DOMAIN messages : messages[i] \in Messages
    OBVIOUS
  <2>2. \A i \in DOMAIN messages : render_history_message(messages[i]) \in PromptMessages
    BY <2>1, RenderType
  <2>. QED  BY <2>1, <2>2
<1>4. \A i \in 1..Len(messages) : own[i] = render_history_message(messages[i])
  OBVIOUS
<1>5. p = (<<sys>> \o few) \o own
  BY DEF apply_tool_formatting, render_messages_with_tools, Examples
<1>. HIDE DEF fns, few, sys, own, p
<1>6. Seq(PromptMessages) \subseteq Seq(S) /\ <<sys>> \in Seq(S)
  OBVIOUS
<1>. HIDE DEF S
<1>7. few \in Seq(S) /\ own \in Seq(S)
  BY <1>2, <1>3, <1>6
<1>8. /\ <<sys>> \o few \in Seq(S) /\ Len(<<sys>> \o few) = 1 + Len(few)
      /\ (<<sys>> \o few)[1] = sys
      /\ \A i \in 1..Len(few) : (<<sys>> \o few)[1 + i] = few[i]
  BY <1>6, <1>7
<1>. DEFINE head == <<sys>> \o few
<1>9. /\ p = head \o own /\ head \in Seq(S)
      /\ Len(head) = 1 + Len(few) /\ head[1] = sys
      /\ \A i \in 1..Len(few) : head[1 + i] = few[i]
  BY <1>5, <1>8
<1>. HIDE DEF head
<1>10. p \in Seq(S) /\ Len(p) = 1 + Len(few) + Len(messages)
  <2>1. head \o own \in Seq(S) /\ Len(head \o own) = Len(head) + Len(own)
    BY <1>7, <1>9, ConcatProperties
  <2>. QED  BY <1>3, <1>9, <2>1
<1>11. /\ \A i \in 1..Len(head) : p[i] = head[i]
       /\ \A i \in 1..Len(own) : p[Len(head) + i] = own[i]
  BY <1>7, <1>9
<1>12. /\ p[1] = sys
       /\ \A i \in 1..Len(few) : p[1 + i] = few[i]
       /\ \A i \in 1..Len(messages) : p[1 + Len(few) + i] = own[i]
  <2>1. Len(few) \in Nat
    BY <1>2
  <2>2. 1 \in 1..Len(head) /\ \A i \in 1..Len(few) : 1 + i \in 1..Len(head)
    BY <1>9, <2>1
  <2>. QED  BY <1>3, <1>9, <1>11, <2>2
<1>. QED  BY <1>2, <1>4, <1>10, <1>12 DEF S, sys, few, p, fns

(* The prompt lists a function. *)
LEMMA SystemPromptFacts ==
    ASSUME NEW fns \in Seq(Names), fns # <<>>
    PROVE  LET sys == tool_system_prompt(fns)
           IN  /\ sys.role = "system" /\ sys.calls = <<>>
               /\ json_objects(sys.content) # <<>>
               /\ TellsOfTools(sys.content)
<1>. DEFINE entries == [i \in DOMAIN fns |-> Json(fns[i], "absent")]
            T == {entries[i] : i \in DOMAIN fns} \cup {Piece("tools"), Piece("/tools")}
            text == (<<Piece("tools")>> \o entries) \o <<Piece("/tools")>>
            I == {i \in DOMAIN text : IsObject(text[i])}
<1>1. /\ Len(fns) \in Nat /\ DOMAIN fns = 1..Len(fns) /\ 1 \in DOMAIN fns
  OBVIOUS
<1>2. /\ entries \in Seq(T) /\ Len(entries) = Len(fns) /\ entries[1].k = "json"
      /\ <<Piece("tools")>> \in Seq(T) /\ <<Piece("/tools")>> \in Seq(T)
  <2>1. entries[1].k = "json"
    BY <1>1 DEF Json
  <2>. QED  BY <1>1, <2>1
<1>. HIDE DEF entries, T
<1>. DEFINE head == <<Piece("tools")>> \o entries
<1>3. head \in Seq(T) /\ Len(head) = 1 + Len(fns) /\ head[2] = entries[1]
  BY <1>1, <1>2
<1>4. text = head \o <<Piece("/tools")>>
  OBVIOUS
<1>. HIDE DEF head
<1>5. /\ text \in Seq(T) /\ Len(text) = Len(fns) + 2 /\ text[2] = entries[1]
      /\ text[1] = Piece("tools")
  <2>1. head[1] = Piece("tools")
    BY <1>2, <1>3 DEF head
  <2>. QED  BY <1>1, <1>2, <1>3, <1>4, <2>1
<1>6. tool_system_prompt(fns) = Message("system", text, <<>>)
  BY DEF tool_system_prompt, entries
<1>. HIDE DEF text
<1>7. Len(text) \in Nat /\ I \in SUBSET (1..Len(text)) /\ 2 \in I
  BY <1>1, <1>2, <1>5 DEF IsObject
<1>8. json_objects(text) # <<>>
  <2>1. json_objects(text) = Select(text, I)
    BY DEF json_objects, Filter
  <2>. HIDE DEF I
  <2>. QED  BY <1>7, <2>1, SelectSome
<1>9. TellsOfTools(text)
  <2>1. 1 \in DOMAIN text /\ text[1].k = "tools"
    BY <1>1, <1>5 DEF Piece
  <2>. QED  BY <2>1 DEF TellsOfTools
<1>. QED  BY <1>6, <1>8, <1>9 DEF Message

(* The answer is searched for calls exactly if the prompt has told the model  *)
(* of tools, for any list of tools, and no role or field is in the prompt that *)
(* the chat template does not know (tool_calling.py:263-282, queue.py's        *)
(* tool_mode, streaming.py:99).                                               *)
THEOREM ModeIsPromptedAlways == Spec => []ModeIsPrompted
<1>1. TurnInv => ModeIsPrompted
  <2>1. SUFFICES ASSUME TurnInv, phase # "asking" PROVE ModeIsPrompted
    BY DEF ModeIsPrompted
  <2>2. /\ prompt = apply_tool_formatting(request, history) /\ request \in Requests
        /\ history \in Seq(Messages) /\ history # <<>>
    BY <2>1 DEF TurnInv, PromptOK, HistoryOK
  <2>3. CASE tool_mode(request)
    <3>. DEFINE few == Examples(request, history)
                fns == functions_from_request(request)
                sys == tool_system_prompt(fns)
    <3>1. /\ few \in Seq(PromptMessages)
          /\ Len(prompt) = 1 + Len(few) + Len(history) /\ prompt[1] = sys
          /\ \A i \in 1..Len(few) : prompt[1 + i] = few[i]
          /\ \A i \in 1..Len(history) :
                 prompt[1 + Len(few) + i] = render_history_message(history[i])
          /\ DOMAIN prompt = 1..Len(prompt)
      <4>1. prompt \in Seq(PromptMessages \cup {sys})
        BY <2>2, <2>3, PromptParts
      <4>. QED  BY <2>2, <2>3, <4>1, PromptParts
    <3>2. /\ sys.role = "system" /\ sys.calls = <<>> /\ json_objects(sys.content) # <<>>
          /\ TellsOfTools(sys.content)
      <4>1. fns \in Seq(Names) /\ fns # <<>>
        BY <2>2, <2>3, FunctionsType DEF tool_mode
      <4>. HIDE DEF fns
      <4>. QED  BY <4>1, SystemPromptFacts
    <3>. HIDE DEF few, fns, sys
    <3>3. ASSUME NEW i \in DOMAIN prompt, i # 1
          PROVE  /\ prompt[i].role # "tool" /\ prompt[i].calls = <<>>
                 /\ ~ TellsOfTools(prompt[i].content)
      <4>1. prompt[i] \in PromptMessages
        <5>1. Len(few) \in Nat /\ Len(history) \in Nat
          BY <2>2, <3>1
        <5>2. CASE i <= 1 + Len(few)
          <6>1. PICK j \in 1..Len(few) : i = 1 + j
            <7>1. i - 1 \in 1..Len(few) /\ i = 1 + (i - 1)
              BY <3>1, <3>3, <5>1, <5>2
            <7>. QED  BY <7>1
          <6>2. few[j] \in PromptMessages
            BY <3>1
          <6>. QED  BY <3>1, <6>1, <6>2
        <5>3. CASE i > 1 + Len(few)
          <6>1. PICK j \in 1..Len(history) : i = 1 + Len(few) + j
            <7>1. i - (1 + Len(few)) \in 1..Len(history)
                  /\ i = 1 + Len(few) + (i - (1 + Len(few)))
              BY <3>1, <3>3, <5>1, <5>3
            <7>. QED  BY <7>1
          <6>2. history[j] \in Messages
            BY <2>2
          <6>. QED  BY <3>1, <6>1, <6>2, RenderType
        <5>. QED  BY <3>1, <5>1, <5>2, <5>3
      <4>. QED  BY <4>1, NoToolsInPieces DEF PromptMessages
    <3>4. 1 \in DOMAIN prompt
      <4>1. Len(few) \in Nat /\ Len(history) \in Nat
        BY <2>2, <3>1
      <4>. QED  BY <3>1, <4>1
    <3>5. {i \in DOMAIN prompt : TellsOfTools(prompt[i].content)} = {1}
      BY <3>1, <3>2, <3>3, <3>4
    <3>6. \A i \in DOMAIN prompt : prompt[i].role # "tool" /\ prompt[i].calls = <<>>
      BY <3>1, <3>2, <3>3
    <3>. QED  BY <2>3, <3>1, <3>2, <3>5, <3>6 DEF ModeIsPrompted, TellsOfTools
  <2>4. CASE ~ tool_mode(request)
    <3>1. prompt = history
      BY <2>2, <2>4 DEF apply_tool_formatting
    <3>2. \A i \in DOMAIN history : ~ TellsOfTools(history[i].content)
      <4>1. \A m \in Messages : m.content \in Seq(Pieces)
        BY DEF Messages
      <4>. QED  BY <2>2, <4>1, NoToolsInPieces
    <3>3. whole.calls = <<>>
      <4>1. CASE phase = "generating"
        BY <2>1, <4>1 DEF TurnInv, AnswerOK, NoAnswer, Answer
      <4>2. CASE phase = "answered"
        <5>1. whole = assistant_message(tool_mode(request), buf, finish_reason)
          BY <2>1, <4>2 DEF TurnInv, AnswerOK
        <5>. QED  BY <2>4, <5>1 DEF assistant_message, Answer
      <4>. QED  BY <2>1, <4>1, <4>2 DEF TurnInv
    <3>. QED  BY <2>4, <3>1, <3>2, <3>3 DEF ModeIsPrompted, TellsOfTools
  <2>. QED  BY <2>3, <2>4
<1>. QED  BY <1>1, TurnInvariant, PTL

-----------------------------------------------------------------------------
(* Text with complete calls. *)

Openings(s) == {i \in DOMAIN s : s[i].k = "tool_call"}

\* Every opening tag begins a call that is all there.
WellTagged(s) ==
    \A i \in Openings(s) :
        i + 2 \in DOMAIN s /\ IsCall(s[i + 1]) /\ s[i + 2].k = "/tool_call"

(* The pattern matches each of these calls, from tag to tag. *)
LEMMA TaggedSpans ==
    ASSUME NEW s \in Seq(Pieces), WellTagged(s)
    PROVE  /\ DOMAIN Spans(s, CallSpan) = Openings(s)
           /\ \A i \in Openings(s) : Spans(s, CallSpan)[i] = i + 2
<1>. DEFINE c == Covered(s, CallSpan)
            O == Openings(s)
<1>n. PICK n \in Nat : n = Len(s)
  OBVIOUS
<1>1. /\ c \in [0..n -> 0..n] /\ c[0] = 0
      /\ \A i \in 1..n : c[i] = CoverStep(s, CallSpan, i, c[i - 1])
  BY <1>n, CoveredFacts
<1>s. Spans(s, CallSpan) = [i \in {i \in DOMAIN s : c[i - 1] < i /\ Opens(s, CallSpan, i)} |-> c[i]]
  BY DEF Spans
<1>. HIDE DEF c
<1>2. ASSUME NEW i \in DOMAIN s, i \notin O  PROVE ~ Opens(s, CallSpan, i)
  BY <1>2 DEF Opens, CallSpan, Openings
<1>3. ASSUME NEW i \in O
      PROVE  /\ Opens(s, CallSpan, i) /\ Min(Closers(s, CallSpan, i)) = i + 2
             /\ i \in 1..n /\ i + 1 \notin O /\ i + 2 \notin O /\ i + 2 <= n
  <2>1. /\ i \in 1..n /\ i + 2 \in 1..n /\ s[i].k = "tool_call"
        /\ s[i + 1].k = "json" /\ s[i + 2].k = "/tool_call"
    BY <1>n DEF WellTagged, Openings, IsCall, IsObject
  <2>2. Closers(s, CallSpan, i) = {j \in i + 1..Len(s) : s[j].k = "/tool_call"}
    BY <2>1 DEF Closers, CallSpan
  <2>3. i + 2 \in Closers(s, CallSpan, i)
    BY <1>n, <2>1, <2>2
  <2>4. Opens(s, CallSpan, i)
    BY <2>1, <2>3 DEF Opens, CallSpan
  <2>5. PICK m : m = Min(Closers(s, CallSpan, i))
    OBVIOUS
  <2>6. m \in Closers(s, CallSpan, i) /\ m <= i + 2
    <3>1. Closers(s, CallSpan, i) \in SUBSET Nat /\ Closers(s, CallSpan, i) # {}
      BY <2>1, <2>2, <2>3
    <3>. QED  BY <2>3, <2>5, <3>1, MinFacts
  <2>7. m # i + 1 /\ m \in i + 1..n
    BY <1>n, <2>1, <2>2, <2>6
  <2>8. m = i + 2
    BY <2>1, <2>6, <2>7
  <2>. QED  BY <2>1, <2>4, <2>5, <2>8 DEF Openings
<1>. DEFINE Far(i) == \/ c[i] <= i
                      \/ i \in O /\ c[i] = i + 2
                      \/ i - 1 \in O /\ c[i] = i + 1
            S == {i \in Nat : i <= n => Far(i)}
<1>4. ASSUME NEW i \in O, Far(i - 1)  PROVE c[i - 1] < i
  <2>1. i \in 1..n /\ i - 1 \in 0..n /\ i - 1 \notin O /\ i - 2 \notin O
    <3>1. i \in 1..n
      BY <1>3
    <3>2. i - 1 \notin O
      <4>1. i - 1 \in O => (i - 1) + 1 \notin O
        BY <1>3
      <4>. QED  BY <3>1, <4>1
    <3>3. i - 2 \notin O
      <4>1. i - 2 \in O => (i - 2) + 2 \notin O
        BY <1>3
      <4>. QED  BY <3>1, <4>1
    <3>. QED  BY <3>1, <3>2, <3>3
  <2>2. c[i - 1] <= i - 1
    <3>1. (i - 1) - 1 = i - 2
      BY <2>1
    <3>. QED  BY <1>4, <2>1, <3>1
  <2>3. c[i - 1] \in 0..n
    BY <1>1, <2>1
  <2>. QED  BY <2>1, <2>2, <2>3
<1>5. 0 \in S
  BY <1>1
<1>6. ASSUME NEW m \in Nat, m \in S  PROVE m + 1 \in S
  <2>1. PICK i \in Nat : i = m + 1
    OBVIOUS
  <2>2. SUFFICES ASSUME i <= n  PROVE Far(i)
    BY <2>1
  <2>3. i \in 1..n /\ i - 1 = m /\ m \in 0..n /\ i \in DOMAIN s
    BY <1>n, <2>1, <2>2
  <2>4. Far(i - 1)
    BY <1>6, <2>3
  <2>5. c[i] = CoverStep(s, CallSpan, i, c[i - 1]) /\ c[i - 1] \in 0..n
    BY <1>1, <2>3
  <2>6. CASE i \in O
    <3>1. c[i - 1] < i
      BY <1>4, <2>4, <2>6
    <3>2. c[i] = i + 2
      BY <1>3, <2>5, <2>6, <3>1 DEF CoverStep
    <3>. QED  BY <2>6, <3>2
  <2>7. CASE i \notin O
    <3>1. c[i] = c[i - 1]
      BY <1>2, <2>3, <2>5, <2>7 DEF CoverStep
    <3>2. c[i - 1] <= i - 1 \/ (i - 1 \in O /\ c[i - 1] = i + 1) \/ c[i - 1] = i
      BY <2>3, <2>4
    <3>. QED  BY <2>3, <2>5, <3>1, <3>2
  <2>. QED  BY <2>6, <2>7
<1>7. Nat \subseteq S
  <2>. HIDE DEF S
  <2>. QED  BY <1>5, <1>6, NatSetInduction
<1>8. ASSUME NEW i \in O  PROVE c[i - 1] < i /\ c[i] = i + 2
  <2>0. i \in 1..n
    BY <1>3
  <2>1. i - 1 \in Nat /\ i - 1 <= n
    BY <2>0
  <2>2. Far(i - 1)
    BY <1>7, <2>1
  <2>3. c[i - 1] < i
    BY <1>4, <2>2
  <2>4. c[i] = i + 2
    BY <1>1, <1>3, <2>0, <2>3 DEF CoverStep
  <2>. QED  BY <2>3, <2>4
<1>9. {i \in DOMAIN s : c[i - 1] < i /\ Opens(s, CallSpan, i)} = O
  <2>1. O \subseteq DOMAIN s
    BY DEF Openings
  <2>. HIDE DEF O
  <2>. QED  BY <1>2, <1>3, <1>8, <2>1
<1>. HIDE DEF O
<1>10. Spans(s, CallSpan) = [i \in O |-> c[i]]
  BY <1>9, <1>s
<1>11. DOMAIN Spans(s, CallSpan) = O /\ \A i \in O : Spans(s, CallSpan)[i] = i + 2
  BY <1>8, <1>10
<1>. QED  BY <1>11 DEF O

LEMMA CallableOne ==
    ASSUME NEW p, IsCall(p)
    PROVE  Callable(<<p>>) = <<p>>
<1>1. {i \in DOMAIN <<p>> : IsCall(<<p>>[i])} = DOMAIN <<p>>
  OBVIOUS
<1>2. <<p>> \in Seq({p})
  OBVIOUS
<1>. QED  BY <1>1, <1>2, SelectAll DEF Callable, Filter

\* What is outside the calls.
Outside(s) == {i \in DOMAIN s : \A j \in Openings(s) : i \notin j..j + 2}

(* Each complete call is read, in order, and the rest is left. *)
LEMMA TaggedRead ==
    ASSUME NEW s \in Seq(Pieces), WellTagged(s), Openings(s) # {}
    PROVE  /\ parse_tool_calls(s).calls =
                  Select([i \in Openings(s) |-> coerce_call(s[i + 1])], Openings(s))
           /\ parse_tool_calls(s).text = Select(s, Outside(s))
<1>. DEFINE sp == Spans(s, CallSpan)
            O == Openings(s)
            found == [i \in DOMAIN sp |-> Found(SubSeq(s, i + 1, sp[i] - 1), CallSpan)]
            hits == {i \in DOMAIN sp : found[i] # <<>>}
            given == [i \in hits |-> coerce_call(found[i][1])]
            wanted == [i \in O |-> coerce_call(s[i + 1])]
            F == FromSpans(s, CallSpan)
<1>1. DOMAIN sp = O /\ \A i \in O : sp[i] = i + 2
  BY TaggedSpans
<1>2. F.text = strip_spans(s, Restrict(sp, hits)) /\ F.calls = Select(given, hits)
  BY DEF FromSpans
<1>. HIDE DEF sp
<1>3. ASSUME NEW i \in O  PROVE found[i] = <<s[i + 1]>>
  <2>1. i \in 1..Len(s) /\ i + 2 \in 1..Len(s) /\ IsCall(s[i + 1])
    BY DEF WellTagged, Openings
  <2>2. SubSeq(s, i + 1, (i + 2) - 1) = <<s[i + 1]>>
    <3>1. (i + 2) - 1 = i + 1 /\ i + 1 \in 1..Len(s)
      BY <2>1
    <3>2. PICK k \in 1..Len(s) : k = i + 1
      BY <3>1
    <3>3. SubSeq(s, k, k) = <<s[k]>>
      <4>1. /\ SubSeq(s, k, k) \in Seq(Pieces) /\ Len(SubSeq(s, k, k)) = 1
            /\ SubSeq(s, k, k)[1] = s[k]
        OBVIOUS
      <4>. HIDE DEF O
      <4>2. /\ <<s[k]>> \in Seq(Pieces) /\ Len(<<s[k]>>) = 1 /\ <<s[k]>>[1] = s[k]
        OBVIOUS
      <4>3. \A j \in 1..1 : j = 1
        OBVIOUS
      <4>. QED  BY <4>1, <4>2, <4>3, SeqEqual
    <3>. QED  BY <3>1, <3>2, <3>3
  <2>3. found[i] = Callable(<<s[i + 1]>>)
    BY <1>1, <2>2, FoundBy
  <2>. QED  BY <2>1, <2>3, CallableOne
<1>4. hits = O
  BY <1>1, <1>3
<1>5. \A i \in O : given[i] = wanted[i]
  <2>1. \A i \in O : given[i] = coerce_call(found[i][1])
    BY <1>4
  <2>. HIDE DEF given, found, hits
  <2>2. \A i \in O : found[i][1] = s[i + 1]
    BY <1>3
  <2>. QED  BY <2>1, <2>2
<1>6. Len(s) \in Nat /\ O \in SUBSET (1..Len(s))
  BY DEF Openings
<1>. HIDE DEF given, wanted, found, O
<1>7. F.calls = Select(wanted, O)
  <2>. HIDE DEF F, hits
  <2>1. Select(given, O) = Select(wanted, O)
    BY <1>5, <1>6, SelectSame
  <2>. QED  BY <1>2, <1>4, <2>1
<1>8. F.text = Select(s, Outside(s))
  <2>1. /\ DOMAIN Restrict(sp, hits) = O
        /\ \A j \in O : Restrict(sp, hits)[j] = j + 2
    BY <1>1, <1>4 DEF Restrict
  <2>. HIDE DEF F, hits
  <2>2. {i \in DOMAIN s : \A j \in DOMAIN Restrict(sp, hits) : i \notin j..Restrict(sp, hits)[j]}
            = Outside(s)
    BY <2>1 DEF Outside, O
  <2>. QED  BY <1>2, <2>2 DEF strip_spans
<1>9. F.calls # <<>>
  <2>1. O # {}
    BY DEF O
  <2>. HIDE DEF F
  <2>. QED  BY <1>6, <1>7, <2>1, SelectSome
<1>10. parse_tool_calls(s) = F
  <2>. HIDE DEF F
  <2>1. Marked(s)[1] = F
    BY MarkedLayers DEF F
  <2>2. 1 \in 1..4 /\ \A n \in 1..4 : n = 1 \/ 1 \in 1..n - 1
    OBVIOUS
  <2>. QED  BY <1>9, <2>1, <2>2, ParseCases
<1>. QED  BY <1>7, <1>8, <1>10 DEF wanted, O

(* Text in which nothing begins a call is left as it is. *)
LEMMA PlainRead ==
    ASSUME NEW s \in Seq(Pieces),
           \A i \in DOMAIN s : s[i].k \notin {"tool_call", "python_start", "fence", "json"}
    PROVE  parse_tool_calls(s).text = s /\ parse_tool_calls(s).calls = <<>>
<1>1. ASSUME NEW ends \in {CallSpan, PythonSpan, FenceSpan}
      PROVE  FromSpans(s, ends).calls = <<>>
  <2>1. PICK hits, at, call : Reads(s, ends, hits, at, call)
    BY FromSpansFacts
  <2>2. \A i \in DOMAIN s : s[i].k \notin DOMAIN ends
    BY DEF CallSpan, PythonSpan, FenceSpan
  <2>3. hits = {}
    BY <2>1, <2>2, NoSpans DEF Reads
  <2>. QED  BY <2>1, <2>3, SelectNone DEF Reads
<1>2. Unclosed(s).calls = <<>>
  <2>1. \A i \in 1..Len(s) : s[i].k # "tool_call"
    OBVIOUS
  <2>. QED  BY <2>1, UnclosedFacts
<1>3. Bare(s).text = s /\ Bare(s).calls = <<>>
  BY BareFacts DEF IsExplicit, IsCall, IsObject
<1>4. \A n \in 1..4 : Marked(s)[n].calls = <<>>
  <2>1. \A n \in 1..4 : n = 1 \/ n = 2 \/ n = 3 \/ n = 4
    OBVIOUS
  <2>. QED  BY <1>1, <1>2, <2>1, MarkedLayers
<1>. QED  BY <1>3, <1>4, ParseCases

LEMMA TaggedIsRead ==
    ASSUME NEW c, c.name \in Names, c.args \in ArgShapes
    PROVE  parse_tool_calls(Tagged(c)).calls # <<>>
<1>. DEFINE t == Tagged(c)
<1>1. /\ t \in Seq(Pieces) /\ DOMAIN t = 1..3
      /\ t[1].k = "tool_call" /\ IsCall(t[2]) /\ t[3].k = "/tool_call"
  <2>1. t \in Seq(Pieces) /\ Len(t) = 3
    BY TaggedType
  <2>2. t[1] = Piece("tool_call") /\ t[2] = Json(c.name, c.args) /\ t[3] = Piece("/tool_call")
    BY DEF Tagged
  <2>. HIDE DEF t
  <2>3. IsCall(t[2])
    BY <2>2, NoNameIsNone DEF IsCall, IsObject, Json
  <2>. QED  BY <2>1, <2>2, <2>3 DEF Piece
<1>. HIDE DEF t
<1>2. Openings(t) = {1}
  <2>1. \A i \in 1..3 : i = 1 \/ i = 2 \/ i = 3
    OBVIOUS
  <2>2. t[2].k # "tool_call"
    BY <1>1 DEF IsCall, IsObject
  <2>3. ASSUME NEW i \in DOMAIN t  PROVE t[i].k = "tool_call" <=> i = 1
    BY <1>1, <2>1, <2>2, <2>3
  <2>. QED  BY <1>1, <2>3 DEF Openings
<1>3. WellTagged(t)
  <2>1. 1 + 2 = 3 /\ 1 + 1 = 2 /\ 3 \in DOMAIN t
    BY <1>1
  <2>. QED  BY <1>1, <1>2, <2>1 DEF WellTagged
<1>4. parse_tool_calls(t).calls = Select([i \in {1} |-> coerce_call(t[i + 1])], {1})
  BY <1>1, <1>2, <1>3, TaggedRead
<1>5. 1 \in Nat /\ {1} \in SUBSET (1..1) /\ {1} # {}
  OBVIOUS
<1>6. Select([i \in {1} |-> coerce_call(t[i + 1])], {1}) # <<>>
  BY <1>5, SelectSome
<1>. QED  BY <1>4, <1>6 DEF t

(* Where the examples end and the history begins. *)
LEMMA PromptEnds ==
    ASSUME TurnInv, phase = "generating", tool_mode(request)
    PROVE  LET few == Examples(request, history)
               k == Len(prompt) - Len(history)
           IN  /\ prompt[k] = Last(few)
               /\ \A i \in DOMAIN history :
                      /\ i \in 1..Len(SubSeq(prompt, k + 1, Len(prompt)))
                      /\ SubSeq(prompt, k + 1, Len(prompt))[i] = render_history_message(history[i])
<1>. DEFINE few == Examples(request, history)
            sys == tool_system_prompt(functions_from_request(request))
            T == PromptMessages \cup {sys}
<1>1. /\ prompt = apply_tool_formatting(request, history) /\ request \in Requests
      /\ history \in Seq(Messages) /\ history # <<>>
  BY DEF TurnInv, PromptOK, HistoryOK
<1>2. /\ few \in Seq(PromptMessages) /\ Len(few) # 0
      /\ prompt \in Seq(T)
      /\ Len(prompt) = 1 + Len(few) + Len(history)
      /\ \A i \in 1..Len(few) : prompt[1 + i] = few[i]
      /\ \A i \in 1..Len(history) :
             prompt[1 + Len(few) + i] = render_history_message(history[i])
  BY <1>1, PromptParts
<1>. HIDE DEF few, T
<1>3. PICK k \in Nat : k = 1 + Len(few)
  BY <1>2
<1>4. Len(history) \in Nat /\ Len(prompt) = k + Len(history) /\ Len(prompt) - Len(history) = k
      /\ DOMAIN history = 1..Len(history)
  BY <1>1, <1>2, <1>3
<1>5. prompt[k] = Last(few)
  <2>1. Len(few) \in 1..Len(few)
    BY <1>2
  <2>. QED  BY <1>2, <1>3, <2>1 DEF Last
<1>6. ASSUME NEW i \in 1..Len(history)
      PROVE  /\ i \in 1..Len(SubSeq(prompt, k + 1, Len(prompt)))
             /\ SubSeq(prompt, k + 1, Len(prompt))[i] = prompt[k + i]
  <2>1. k + 1 \in 1..Len(prompt) + 1 /\ Len(prompt) \in Nat
    BY <1>2, <1>4
  <2>. QED  BY <1>2, <1>4, <2>1
<1>. QED  BY <1>2, <1>3, <1>4, <1>5, <1>6 DEF few

(* The last example is an answer exactly if the conversation ends with a       *)
(* tool's result, and else a call that would be read as one, for any tools     *)
(* and any conversation (tool_calling.py:221-245).                            *)
THEOREM ExampleFitsAlways == Spec => []ExampleFits
<1>1. TurnInv => ExampleFits
  <2>1. SUFFICES ASSUME TurnInv, phase = "generating", tool_mode(request)
                 PROVE  ExampleFits
    BY DEF ExampleFits
  <2>. DEFINE few == Examples(request, history)
              fns == functions_from_request(request)
  <2>2. prompt[Len(prompt) - Len(history)] = Last(few)
    BY <2>1, PromptEnds
  <2>3. history # <<>> /\ request \in Requests
    BY <2>1 DEF TurnInv, HistoryOK
  <2>4. CASE Last(history).role = "tool"
    <3>1. Last(few).content = Prose
      <4>1. few = answer_exemplar(ExampleName)
        BY <2>3, <2>4 DEF Examples, needs_answer
      <4>. QED  BY <4>1, AnswerExemplarFacts DEF Last
    <3>2. parse_tool_calls(Prose).calls = <<>>
      <4>1. \A i \in DOMAIN Prose : Prose[i].k = "prose"
        <5>1. DOMAIN Prose = {1}
          BY ProseType
        <5>. QED  BY <5>1, ProseType DEF Piece
      <4>. QED  BY <4>1, ProseType, PlainRead
    <3>. QED  BY <2>2, <2>4, <3>1, <3>2 DEF ExampleFits
  <2>5. CASE Last(history).role # "tool"
    <3>1. fns \in Seq(Names) /\ fns # <<>>
      BY <2>1, <2>3, FunctionsType DEF tool_mode
    <3>2. few = synthesize_fewshot(fns)
      BY <2>5 DEF Examples, needs_answer
    <3>. HIDE DEF few, fns
    <3>3. PICK n \in Names : Last(few).content = Tagged([name |-> n, args |-> "dict"])
      BY <3>1, <3>2, FewshotFacts
    <3>4. parse_tool_calls(Tagged([name |-> n, args |-> "dict"])).calls # <<>>
      BY TaggedIsRead DEF ArgShapes
    <3>. QED  BY <2>2, <2>5, <3>3, <3>4 DEF ExampleFits
  <2>. QED  BY <2>4, <2>5
<1>. QED  BY <1>1, TurnInvariant, PTL

-----------------------------------------------------------------------------
(* Calls written into the history. *)

(* Two sequences, one after the other. *)
LEMMA OneAfterOther ==
    ASSUME NEW T, NEW u \in Seq(T), NEW v \in Seq(T),
           NEW l \in Nat, l = Len(u), NEW k \in Nat, k = Len(v)
    PROVE  /\ u \o v \in Seq(T) /\ Len(u \o v) = l + k
           /\ \A i \in 1..l : (u \o v)[i] = u[i]
           /\ \A i \in 1..k : (u \o v)[l + i] = v[i]
<1>. DEFINE s == u \o v
<1>1. s \in Seq(T) /\ Len(s) = l + k
  OBVIOUS
<1>2. \A i \in 1..Len(u) + Len(v) : s[i] = IF i <= Len(u) THEN u[i] ELSE v[i - Len(u)]
  OBVIOUS
<1>3. \A i \in 1..l + k : s[i] = IF i <= l THEN u[i] ELSE v[i - l]
  BY <1>2
<1>. HIDE DEF s
<1>4. ASSUME NEW i \in 1..l  PROVE s[i] = u[i]
  BY <1>3
<1>5. ASSUME NEW i \in 1..k  PROVE s[l + i] = v[i]
  <2>1. PICK x \in 1..l + k : x = l + i
    OBVIOUS
  <2>2. ~ (x <= l) /\ x - l = i
    BY <2>1
  <2>3. s[x] = v[x - l]
    BY <1>3, <2>2
  <2>. QED  BY <2>1, <2>2, <2>3
<1>. QED  BY <1>1, <1>4, <1>5 DEF s

(* Sequences of three, joined. *)
LEMMA FlattenTriples ==
    ASSUME NEW T, NEW ss \in Seq(Seq(T)), \A i \in DOMAIN ss : Len(ss[i]) = 3
    PROVE  /\ FlattenSeq(ss) \in Seq(T)
           /\ Len(FlattenSeq(ss)) = 3 * Len(ss)
           /\ \A i \in 1..Len(ss) : \A b \in 1..3 : FlattenSeq(ss)[3 * (i - 1) + b] = ss[i][b]
<1>1. PICK f : Joins(f, ss, T)
  BY JoinsExists
<1>n. PICK n \in Nat : n = Len(ss)
  OBVIOUS
<1>2. FlattenSeq(ss) = f[n]
  BY <1>1, <1>n, FlattenIsJoin
<1>3. /\ \A m \in 0..n : f[m] \in Seq(T)
      /\ f[0] = <<>> /\ \A i \in 1..n : f[i] = f[i - 1] \o ss[i]
  BY <1>1, <1>n DEF Joins
<1>. DEFINE Ok(m) == /\ Len(f[m]) = 3 * m
                     /\ \A i \in 1..m : \A b \in 1..3 : f[m][3 * (i - 1) + b] = ss[i][b]
            S == {m \in Nat : m <= n => Ok(m)}
<1>4. 0 \in S
  BY <1>3
<1>5. ASSUME NEW m \in Nat, m \in S  PROVE m + 1 \in S
  <2>1. PICK k \in Nat : k = m + 1
    OBVIOUS
  <2>2. SUFFICES ASSUME k <= n  PROVE Ok(k)
    BY <2>1
  <2>3. /\ k \in 1..n /\ k - 1 = m /\ m \in 0..n /\ k \in DOMAIN ss
    BY <1>n, <2>1, <2>2
  <2>4. /\ f[k] = f[m] \o ss[k] /\ f[m] \in Seq(T) /\ ss[k] \in Seq(T) /\ Len(ss[k]) = 3
        /\ Ok(m)
    <3>1. Ok(m)
      <4>. HIDE DEF Ok
      <4>. QED  BY <1>5, <2>3
    <3>2. ss[k] \in Seq(T) /\ Len(ss[k]) = 3
      BY <2>3
    <3>3. f[k] = f[k - 1] \o ss[k] /\ f[m] \in Seq(T)
      <4>. HIDE DEF Ok
      <4>. QED  BY <1>3, <2>3
    <3>4. f[k - 1] = f[m]
      BY <2>3
    <3>. HIDE DEF Ok
    <3>. QED  BY <3>1, <3>2, <3>3, <3>4
  <2>6. Len(f[m]) = 3 * m /\ 3 * m \in Nat
    BY <2>4
  <2>5. /\ Len(f[k]) = 3 * m + 3
        /\ \A i \in 1..3 * m : f[k][i] = f[m][i]
        /\ \A b \in 1..3 : f[k][3 * m + b] = ss[k][b]
    <3>. HIDE DEF Ok
    <3>1. PICK l \in Nat : l = 3 * m
      BY <2>6
    <3>2. /\ Len(f[m] \o ss[k]) = l + 3
          /\ \A i \in 1..l : (f[m] \o ss[k])[i] = f[m][i]
          /\ \A b \in 1..3 : (f[m] \o ss[k])[l + b] = ss[k][b]
      <4>1. PICK u \in Seq(T) : u = f[m] /\ l = Len(u)
        BY <2>4, <2>6, <3>1
      <4>2. PICK v \in Seq(T), three \in Nat : v = ss[k] /\ three = Len(v) /\ three = 3
        BY <2>4
      <4>3. /\ Len(u \o v) = l + three
            /\ \A i \in 1..l : (u \o v)[i] = u[i]
            /\ \A b \in 1..three : (u \o v)[l + b] = v[b]
        <5>1. l = Len(u) /\ three = Len(v)
          BY <4>1, <4>2
        <5>. QED  BY <5>1, OneAfterOther
      <4>. QED  BY <4>1, <4>2, <4>3
    <3>. QED  BY <2>4, <3>1, <3>2
  <2>7. ASSUME NEW i \in 1..k, NEW b \in 1..3
        PROVE  f[k][3 * (i - 1) + b] = ss[i][b]
    <3>1. PICK x \in Int : x = 3 * (i - 1) + b
      OBVIOUS
    <3>2. CASE i = k
      <4>1. x = 3 * m + b
        BY <2>1, <3>1, <3>2
      <4>2. f[k][x] = ss[k][b]
        BY <2>5, <4>1
      <4>. QED  BY <3>1, <3>2, <4>1, <4>2
    <3>3. CASE i # k
      <4>1. i \in 1..m /\ x \in 1..3 * m
        BY <2>1, <3>1, <3>3
      <4>2. f[k][x] = f[m][x]
        BY <2>5, <4>1
      <4>3. f[m][x] = ss[i][b]
        BY <2>4, <3>1, <4>1
      <4>. QED  BY <3>1, <4>2, <4>3
    <3>. QED  BY <3>2, <3>3
  <2>8. Len(f[k]) = 3 * k
    BY <2>1, <2>5, <2>6
  <2>. QED  BY <2>7, <2>8
<1>6. Ok(n)
  <2>1. Nat \subseteq S
    <3>. HIDE DEF S, Ok
    <3>1. 0 \in S /\ \A m \in Nat : m \in S => m + 1 \in S
      BY <1>4, <1>5
    <3>. QED  BY <3>1, NatSetInduction
  <2>. HIDE DEF Ok
  <2>. QED  BY <2>1
<1>7. n \in 0..n
  OBVIOUS
<1>. QED  BY <1>2, <1>3, <1>6, <1>7, <1>n

LEMMA OutOfThree ==
    ASSUME NEW n \in Nat, NEW j \in 1..3 * n
    PROVE  \E i \in 1..n : \E b \in 1..3 : j = 3 * (i - 1) + b
<1>. DEFINE i == ((j - 1) \div 3) + 1
            b == ((j - 1) % 3) + 1
<1>1. i \in 1..n /\ b \in 1..3 /\ j = 3 * (i - 1) + b
  OBVIOUS
<1>. QED  BY <1>1

(* The text that render_history_message makes of an answer with calls is read *)
(* as the very calls.                                                         *)
LEMMA RenderedIsRead ==
    ASSUME NEW m \in Messages, m.calls # <<>>
    PROVE  m.calls = to_openai_tool_calls(parse_tool_calls(render_history_message(m).content).calls)
<1>1. /\ m.role = "assistant" /\ m.content \in Seq(Pieces)
      /\ \A i \in DOMAIN m.content : m.content[i].k \notin Tags
  BY DEF Messages, IsAnswer, IsText
<1>2. PICK calls \in Seq(ToolCalls) : m.calls = to_openai_tool_calls(calls)
  BY DEF Messages, IsAnswer
<1>n. PICK n \in Nat : n = Len(calls)
  OBVIOUS
<1>3. /\ DOMAIN m.calls = 1..n
      /\ \A i \in 1..n : m.calls[i].name = calls[i].name /\ m.calls[i].args = calls[i].args
  BY <1>2, <1>n DEF to_openai_tool_calls
<1>c. \A i \in 1..n : /\ calls[i] \in ToolCalls /\ calls[i].name \in Names
                      /\ calls[i].args \in {"dict", "_raw", "_value"}
                      /\ calls[i] = [name |-> calls[i].name, args |-> calls[i].args]
  <2>1. \A i \in 1..n : calls[i] \in ToolCalls
    BY <1>n
  <2>2. \A c \in ToolCalls : /\ c.name \in Names /\ c.args \in {"dict", "_raw", "_value"}
                             /\ c = [name |-> c.name, args |-> c.args]
    BY DEF ToolCalls
  <2>. QED  BY <2>1, <2>2
<1>4. n # 0
  BY <1>2, <1>3, <1>n DEF to_openai_tool_calls
<1>. DEFINE ss == [i \in DOMAIN m.calls |-> Tagged(m.calls[i])]
            tail == FlattenSeq(ss)
            s == m.content \o tail
<1>5. /\ ss \in Seq(Seq(Pieces)) /\ Len(ss) = n
      /\ \A i \in DOMAIN ss : Len(ss[i]) = 3
      /\ \A i \in 1..n : ss[i] = Tagged(m.calls[i])
  <2>1. ASSUME NEW i \in 1..n  PROVE Tagged(m.calls[i]) \in Seq(Pieces) /\ Len(Tagged(m.calls[i])) = 3
    BY <1>3, <1>c, TaggedType DEF ArgShapes
  <2>. QED  BY <1>3, <2>1
<1>6. ASSUME NEW i \in 1..n
      PROVE  /\ ss[i][1].k = "tool_call" /\ ss[i][3].k = "/tool_call"
             /\ ss[i][2] = Json(calls[i].name, calls[i].args)
  <2>1. ss[i] = <<Piece("tool_call"), Json(calls[i].name, calls[i].args), Piece("/tool_call")>>
    BY <1>3, <1>5 DEF Tagged
  <2>. HIDE DEF ss
  <2>2. ss[i][1] = Piece("tool_call") /\ ss[i][2] = Json(calls[i].name, calls[i].args)
        /\ ss[i][3] = Piece("/tool_call")
    BY <2>1
  <2>. QED  BY <2>2 DEF Piece
<1>7. render_history_message(m).content = s
  BY <1>1 DEF render_history_message, Message
<1>. HIDE DEF ss
<1>8. /\ tail \in Seq(Pieces) /\ Len(tail) = 3 * n
      /\ \A i \in 1..n : \A b \in 1..3 : tail[3 * (i - 1) + b] = ss[i][b]
  <2>1. ss \in Seq(Seq(Pieces)) /\ \A i \in DOMAIN ss : Len(ss[i]) = 3
    BY <1>5
  <2>2. /\ FlattenSeq(ss) \in Seq(Pieces)
        /\ Len(FlattenSeq(ss)) = 3 * Len(ss)
        /\ \A i \in 1..Len(ss) : \A b \in 1..3 : FlattenSeq(ss)[3 * (i - 1) + b] = ss[i][b]
    BY <2>1, FlattenTriples
  <2>. HIDE DEF tail
  <2>3. tail = FlattenSeq(ss) /\ Len(ss) = n
    BY <1>5 DEF tail
  <2>. QED  BY <2>2, <2>3
<1>. HIDE DEF tail
<1>9. PICK l \in Nat : l = Len(m.content)
  BY <1>1
<1>10. /\ s \in Seq(Pieces) /\ Len(s) = l + 3 * n /\ DOMAIN s = 1..l + 3 * n
       /\ \A j \in 1..l : s[j] = m.content[j]
       /\ \A j \in 1..3 * n : s[l + j] = tail[j]
  <2>1. PICK c \in Seq(Pieces) : c = m.content
    BY <1>1
  <2>2. PICK k \in Nat : k = 3 * n
    OBVIOUS
  <2>3. /\ c \o tail \in Seq(Pieces) /\ Len(c \o tail) = l + k
        /\ \A i \in 1..l : (c \o tail)[i] = c[i]
        /\ \A i \in 1..k : (c \o tail)[l + i] = tail[i]
    <3>1. tail \in Seq(Pieces) /\ l = Len(c) /\ k = Len(tail)
      BY <1>8, <1>9, <2>1, <2>2
    <3>. QED  BY <3>1, OneAfterOther
  <2>4. s = c \o tail
    BY <2>1
  <2>. HIDE DEF s
  <2>5. s \in Seq(Pieces) /\ Len(s) = l + k /\ DOMAIN s = 1..l + k
    BY <2>3, <2>4
  <2>. QED  BY <2>1, <2>2, <2>3, <2>4, <2>5
<1>. HIDE DEF s
<1>. DEFINE h == [a \in 1..n |-> l + 3 * (a - 1) + 1]
            O == Openings(s)
<1>11. ASSUME NEW i \in 1..n, NEW b \in 1..3
       PROVE  l + 3 * (i - 1) + b \in DOMAIN s /\ s[l + 3 * (i - 1) + b] = ss[i][b]
  <2>1. PICK j \in 1..3 * n : j = 3 * (i - 1) + b
    OBVIOUS
  <2>2. /\ s[l + j] = tail[j] /\ l + j \in DOMAIN s
        /\ tail[j] = ss[i][b]
    <3>1. l + j \in DOMAIN s /\ s[l + j] = tail[j]
      BY <1>10
    <3>2. tail[j] = ss[i][b]
      BY <1>8, <2>1
    <3>. QED  BY <3>1, <3>2
  <2>3. l + 3 * (i - 1) + b = l + j
    BY <2>1
  <2>. QED  BY <2>2, <2>3
<1>12. \A a \in 1..n : /\ h[a] \in Nat /\ h[a] \in O
                       /\ h[a] + 2 \in DOMAIN s
                       /\ s[h[a] + 1] = Json(calls[a].name, calls[a].args)
                       /\ s[h[a] + 2].k = "/tool_call"
  <2>1. ASSUME NEW a \in 1..n
        PROVE  /\ h[a] \in Nat /\ h[a] = l + 3 * (a - 1) + 1
               /\ h[a] + 1 = l + 3 * (a - 1) + 2 /\ h[a] + 2 = l + 3 * (a - 1) + 3
    OBVIOUS
  <2>. HIDE DEF h
  <2>2. ASSUME NEW a \in 1..n
        PROVE  /\ h[a] \in DOMAIN s /\ s[h[a]] = ss[a][1]
               /\ s[h[a] + 1] = ss[a][2]
               /\ h[a] + 2 \in DOMAIN s /\ s[h[a] + 2] = ss[a][3]
    <3>1. 1 \in 1..3 /\ 2 \in 1..3 /\ 3 \in 1..3
      OBVIOUS
    <3>. QED  BY <1>11, <2>1, <3>1
  <2>. QED  BY <1>6, <2>1, <2>2 DEF Openings
<1>13. ASSUME NEW j \in O  PROVE \E a \in 1..n : h[a] = j
  <2>1. j \in 1..l + 3 * n /\ s[j].k = "tool_call"
    BY <1>10 DEF Openings
  <2>2. ~ (j <= l)
    <3>1. SUFFICES ASSUME j <= l PROVE FALSE
      OBVIOUS
    <3>2. j \in 1..l /\ j \in DOMAIN m.content
      BY <1>1, <1>9, <2>1, <3>1
    <3>3. m.content[j].k \notin Tags
      BY <1>1, <3>2
    <3>. QED  BY <1>10, <2>1, <3>2, <3>3 DEF Tags
  <2>3. PICK x \in 1..3 * n : j = l + x
    <3>1. j - l \in 1..3 * n /\ j = l + (j - l)
      BY <2>1, <2>2
    <3>. QED  BY <3>1
  <2>4. PICK i \in 1..n, b \in 1..3 : x = 3 * (i - 1) + b
    BY OutOfThree
  <2>5. s[j] = ss[i][b]
    <3>1. j = l + 3 * (i - 1) + b
      BY <2>3, <2>4
    <3>. QED  BY <1>11, <3>1
  <2>6. b = 1
    <3>1. b = 1 \/ b = 2 \/ b = 3
      OBVIOUS
    <3>2. ss[i][2].k = "json" /\ ss[i][3].k = "/tool_call"
      <4>1. ss[i][2] = Json(calls[i].name, calls[i].args) /\ ss[i][3].k = "/tool_call"
        BY <1>6
      <4>2. Json(calls[i].name, calls[i].args).k = "json"
        BY DEF Json
      <4>. QED  BY <4>1, <4>2
    <3>3. ss[i][b].k = "tool_call"
      BY <2>1, <2>5
    <3>. QED  BY <3>1, <3>2, <3>3
  <2>7. h[i] = j
    BY <2>3, <2>4, <2>6
  <2>. QED  BY <2>7
<1>14. Enumerates(h, n, O)
  <2>1. h \in [1..n -> O]
    BY <1>12
  <2>2. \A a, b \in 1..n : a < b => h[a] < h[b]
    OBVIOUS
  <2>. QED  BY <1>13, <2>1, <2>2 DEF Enumerates
<1>. HIDE DEF h
<1>15. WellTagged(s)
  <2>1. ASSUME NEW j \in O
        PROVE  j + 2 \in DOMAIN s /\ IsCall(s[j + 1]) /\ s[j + 2].k = "/tool_call"
    <3>1. PICK a \in 1..n : h[a] = j
      BY <1>13
    <3>2. IsCall(Json(calls[a].name, calls[a].args))
      BY <1>c, NoNameIsNone DEF IsCall, IsObject, Json
    <3>. QED  BY <1>12, <3>1, <3>2
  <2>. QED  BY <2>1 DEF WellTagged
<1>16. O # {}
  <2>1. 1 \in 1..n
    BY <1>4
  <2>. QED  BY <1>12, <2>1
<1>. DEFINE w == [i \in O |-> coerce_call(s[i + 1])]
            r == parse_tool_calls(s)
<1>17. r.calls = Along(w, h, n)
  <2>1. r.calls = Select(w, O)
    BY <1>10, <1>15, <1>16, TaggedRead
  <2>2. O \in SUBSET Nat
    BY <1>10 DEF Openings
  <2>. HIDE DEF r, w, O
  <2>. QED  BY <1>14, <2>1, <2>2, SelectBy
<1>18. \A a \in 1..n : w[h[a]] = calls[a]
  <2>1. ASSUME NEW a \in 1..n  PROVE w[h[a]] = calls[a]
    <3>1. w[h[a]] = coerce_call(s[h[a] + 1])
      BY <1>12
    <3>. HIDE DEF w
    <3>2. coerce_call(Json(calls[a].name, calls[a].args))
              = [name |-> calls[a].name, args |-> calls[a].args]
      BY <1>c DEF coerce_call, coerce_args, Json
    <3>. QED  BY <1>12, <1>c, <3>1, <3>2
  <2>. QED  BY <2>1
<1>. HIDE DEF w, O, r
<1>19. r.calls = calls
  <2>1. Along(w, h, n) = [a \in 1..n |-> calls[a]]
    BY <1>18 DEF Along
  <2>2. calls = [a \in 1..n |-> calls[a]]
    BY <1>n
  <2>. QED  BY <1>17, <2>1, <2>2
<1>. QED  BY <1>2, <1>7, <1>19 DEF r

(* An answer with calls that comes back in the history, in any turn, is in the *)
(* prompt as text that is read as the calls the client was given, with their    *)
(* ids (tool_calling.py:171-197 against 351-421).                              *)
THEOREM HistoryRoundTripAlways == Spec => []HistoryRoundTrip
<1>1. TurnInv => HistoryRoundTrip
  <2>1. SUFFICES ASSUME TurnInv, phase = "generating", tool_mode(request)
                 PROVE  HistoryRoundTrip
    BY DEF HistoryRoundTrip
  <2>. DEFINE own == SubSeq(prompt, Len(prompt) - Len(history) + 1, Len(prompt))
  <2>2. \A i \in DOMAIN history : own[i] = render_history_message(history[i])
    BY <2>1, PromptEnds
  <2>. HIDE DEF own
  <2>3. ASSUME NEW i \in DOMAIN history, history[i].calls # <<>>
        PROVE  history[i].calls
                   = to_openai_tool_calls(parse_tool_calls(own[i].content).calls)
    <3>1. history[i] \in Messages
      BY <2>1 DEF TurnInv, HistoryOK
    <3>2. own[i] = render_history_message(history[i])
      BY <2>2
    <3>. QED  BY <2>3, <3>1, <3>2, RenderedIsRead
  <2>. QED  BY <2>3 DEF HistoryRoundTrip, own
<1>. QED  BY <1>1, TurnInvariant, PTL

-----------------------------------------------------------------------------
(* Text as the model is asked for it. *)

(* Prose is shown as it is. *)
LEMMA ProseStays ==
    ASSUME NEW t \in Seq(Pieces), \A i \in DOMAIN t : IsProse(t[i])
    PROVE  strip_leaked_markup(t) = t
<1>. DEFINE sp == Spans(t, LeakedSpan)
<1>1. DOMAIN sp = {}
  <2>1. \A i \in DOMAIN t : t[i].k \notin DOMAIN LeakedSpan
    BY DEF LeakedSpan, IsProse
  <2>. QED  BY <2>1, NoSpans
<1>. HIDE DEF sp
<1>2. strip_spans(t, sp) = t
  <2>1. {i \in DOMAIN t : \A j \in DOMAIN sp : i \notin j..sp[j]} = DOMAIN t
    BY <1>1
  <2>. QED  BY <2>1, SelectAll DEF strip_spans
<1>3. {i \in DOMAIN t : IsText(t[i])} = DOMAIN t
  BY DEF IsProse, IsText, Tags
<1>. QED  BY <1>2, <1>3, SelectAll DEF strip_leaked_markup, Filter, sp

\* Where the objects are, and where the prose.
Objects(s) == {i \in DOMAIN s : IsObject(s[i])}
ProseIn(s) == {i \in DOMAIN s : IsProse(s[i])}

LEMMA WellFormedFacts ==
    ASSUME NEW s \in Seq(Pieces), WellFormed(s)
    PROVE  /\ WellTagged(s)
           /\ Objects(s) = {i + 1 : i \in Openings(s)}
           /\ Outside(s) = ProseIn(s)
<1>n. PICK n \in Nat : n = Len(s)
  OBVIOUS
<1>1. /\ DOMAIN s = 1..n
      /\ \A i \in 1..n : s[i].k \in {"prose", "tool_call", "json", "/tool_call"}
      /\ \A i \in 1..n : s[i].k = "tool_call" =>
             i + 2 <= n /\ s[i + 1].k = "json" /\ IsCall(s[i + 1]) /\ s[i + 2].k = "/tool_call"
      /\ \A i \in 1..n : s[i].k = "json" => i - 1 \in 1..n /\ s[i - 1].k = "tool_call"
      /\ \A i \in 1..n : s[i].k = "/tool_call" => i - 1 \in 1..n /\ s[i - 1].k = "json"
  <2>1. DOMAIN s = 1..n
    BY <1>n
  <2>2. ASSUME NEW i \in 1..n
        PROVE  /\ s[i].k \in {"prose", "tool_call", "json", "/tool_call"}
               /\ s[i].k = "tool_call" => /\ i + 2 <= Len(s)
                                          /\ s[i + 1].k = "json" /\ IsCall(s[i + 1])
                                          /\ s[i + 2].k = "/tool_call"
               /\ s[i].k \in {"json", "/tool_call"} => i > 1
               /\ s[i].k = "json" => s[i - 1].k = "tool_call"
               /\ s[i].k = "/tool_call" => s[i - 1].k = "json"
    BY <2>1 DEF WellFormed
  <2>3. ASSUME NEW i \in 1..n, i > 1  PROVE i - 1 \in 1..n
    BY <2>3
  <2>. QED  BY <1>n, <2>1, <2>2, <2>3
<1>2. Openings(s) = {i \in 1..n : s[i].k = "tool_call"}
  BY <1>1 DEF Openings
<1>3. WellTagged(s)
  <2>1. ASSUME NEW i \in 1..n, s[i].k = "tool_call"  PROVE i + 2 \in 1..n
    BY <1>1, <2>1
  <2>. QED  BY <1>1, <1>2, <2>1 DEF WellTagged
<1>4. Objects(s) = {i + 1 : i \in Openings(s)}
  <2>1. ASSUME NEW i \in Openings(s)  PROVE i + 1 \in Objects(s)
    <3>1. i \in 1..n /\ i + 1 \in 1..n /\ s[i + 1].k = "json"
      BY <1>1, <1>2
    <3>. QED  BY <1>1, <3>1 DEF Objects, IsObject
  <2>2. ASSUME NEW j \in Objects(s)  PROVE \E i \in Openings(s) : j = i + 1
    <3>1. j \in 1..n /\ s[j].k = "json"
      BY <1>1 DEF Objects, IsObject
    <3>2. j - 1 \in Openings(s) /\ j = (j - 1) + 1
      BY <1>1, <1>2, <3>1
    <3>. QED  BY <3>2
  <2>. QED  BY <2>1, <2>2
<1>5. ASSUME NEW i \in ProseIn(s)  PROVE i \in Outside(s)
  <2>1. i \in 1..n /\ i \in DOMAIN s /\ s[i].k = "prose"
    BY <1>1 DEF ProseIn, IsProse
  <2>2. ASSUME NEW j \in Openings(s), i \in j..j + 2  PROVE FALSE
    <3>1. j \in 1..n /\ s[j].k = "tool_call" /\ s[j + 1].k = "json" /\ s[j + 2].k = "/tool_call"
      BY <1>1, <1>2
    <3>2. i = j \/ i = j + 1 \/ i = j + 2
      BY <2>1, <2>2, <3>1
    <3>. QED  BY <2>1, <3>1, <3>2
  <2>. QED  BY <2>1, <2>2 DEF Outside
<1>6. ASSUME NEW i \in Outside(s)  PROVE i \in ProseIn(s)
  <2>1. /\ i \in 1..n /\ i \in DOMAIN s
        /\ \A j \in Openings(s) : i \notin j..j + 2
    BY <1>1 DEF Outside
  <2>2. ASSUME NEW j \in 1..n, j \in Openings(s)  PROVE i # j /\ i # j + 1 /\ i # j + 2
    BY <2>1, <2>2
  <2>3. s[i].k # "tool_call"
    BY <1>2, <2>1, <2>2
  <2>4. s[i].k # "json"
    <3>1. s[i].k = "json" => i - 1 \in Openings(s) /\ i = (i - 1) + 1 /\ i - 1 \in 1..n
      BY <1>1, <1>2, <2>1
    <3>. QED  BY <2>2, <3>1
  <2>5. s[i].k # "/tool_call"
    <3>1. SUFFICES ASSUME s[i].k = "/tool_call"  PROVE FALSE
      OBVIOUS
    <3>2. i - 1 \in 1..n /\ s[i - 1].k = "json"
      BY <1>1, <2>1, <3>1
    <3>3. PICK l \in 1..n : l = i - 1
      BY <3>2
    <3>4. l - 1 \in 1..n /\ s[l - 1].k = "tool_call"
      BY <1>1, <3>2, <3>3
    <3>5. l - 1 \in Openings(s) /\ i = (l - 1) + 2
      BY <1>2, <2>1, <3>3, <3>4
    <3>. QED  BY <2>2, <3>4, <3>5
  <2>6. s[i].k = "prose"
    BY <1>1, <2>1, <2>3, <2>4, <2>5
  <2>. QED  BY <2>1, <2>6 DEF ProseIn, IsProse
<1>. QED  BY <1>3, <1>4, <1>5, <1>6

(* The next position of each enumerates the next positions. *)
LEMMA EnumeratesNext ==
    ASSUME NEW n \in Nat, NEW I \in SUBSET Nat, NEW h, Enumerates(h, n, I)
    PROVE  Enumerates([a \in 1..n |-> h[a] + 1], n, {i + 1 : i \in I})
<1>. DEFINE g == [a \in 1..n |-> h[a] + 1]
            J == {i + 1 : i \in I}
<1>1. \A a \in 1..n : h[a] \in I /\ h[a] \in Nat
  BY DEF Enumerates
<1>2. g \in [1..n -> J]
  BY <1>1
<1>3. \A a, b \in 1..n : a < b => g[a] < g[b]
  BY <1>1 DEF Enumerates
<1>4. ASSUME NEW j \in J  PROVE \E a \in 1..n : g[a] = j
  <2>1. PICK i \in I : j = i + 1
    OBVIOUS
  <2>2. PICK a \in 1..n : h[a] = i
    BY DEF Enumerates
  <2>. QED  BY <2>1, <2>2
<1>. HIDE DEF g, J
<1>5. Enumerates(g, n, J)
  BY <1>2, <1>3, <1>4 DEF Enumerates
<1>. QED  BY <1>5 DEF g, J

(* Of such a text the calls are the objects, in order, and the text is the    *)
(* prose.                                                                     *)
LEMMA WellFormedRead ==
    ASSUME NEW s \in Seq(Pieces), WellFormed(s)
    PROVE  /\ strip_leaked_markup(parse_tool_calls(s).text) = Filter(s, IsProse)
           /\ parse_tool_calls(s).calls =
                  [i \in DOMAIN json_objects(s) |-> coerce_call(json_objects(s)[i])]
<1>. DEFINE O == Openings(s)
            J == Objects(s)
            w == [i \in O |-> coerce_call(s[i + 1])]
            r == parse_tool_calls(s)
            prose == Select(s, ProseIn(s))
<1>1. /\ Len(s) \in Nat /\ O \in SUBSET (1..Len(s)) /\ J \in SUBSET (1..Len(s))
      /\ ProseIn(s) \in SUBSET (1..Len(s))
  BY DEF Openings, Objects, ProseIn
<1>2. WellTagged(s) /\ J = {i + 1 : i \in O} /\ Outside(s) = ProseIn(s)
  BY WellFormedFacts
<1>3. json_objects(s) = Select(s, J) /\ Filter(s, IsProse) = prose
  BY DEF json_objects, Filter, Objects, ProseIn
<1>4. strip_leaked_markup(prose) = prose
  <2>1. prose \in Seq({s[i] : i \in ProseIn(s)})
    BY <1>1, SelectFacts
  <2>2. {s[i] : i \in ProseIn(s)} \subseteq Pieces /\ \A p \in {s[i] : i \in ProseIn(s)} : IsProse(p)
    BY DEF ProseIn
  <2>. HIDE DEF prose
  <2>3. prose \in Seq(Pieces) /\ \A i \in DOMAIN prose : IsProse(prose[i])
    BY <2>1, <2>2
  <2>. QED  BY <2>3, ProseStays
<1>5. r.text = prose /\ r.calls = Select(w, O)
  <2>1. CASE O # {}
    BY <1>2, <2>1, TaggedRead
  <2>2. CASE O = {}
    <3>1. Outside(s) = DOMAIN s
      BY <2>2 DEF Outside
    <3>2. \A i \in DOMAIN s : s[i].k = "prose"
      BY <1>2, <3>1 DEF ProseIn, IsProse
    <3>3. r.text = s /\ r.calls = <<>>
      BY <3>2, PlainRead
    <3>4. prose = s
      BY <1>2, <3>1, SelectAll
    <3>. QED  BY <2>2, <3>3, <3>4, SelectNone
  <2>. QED  BY <2>1, <2>2
<1>. HIDE DEF r, prose, O, J
<1>e. PICK n \in Nat : \E h : Enumerates(h, n, O)
  BY <1>1, Enumerable
<1>6. PICK h : Enumerates(h, n, O)
  BY <1>e
<1>7. O \in SUBSET Nat /\ J \in SUBSET Nat
  BY <1>1, PositionsAreNat
<1>. DEFINE g == [a \in 1..n |-> h[a] + 1]
<1>8. Enumerates(g, n, J)
  BY <1>2, <1>6, <1>7, EnumeratesNext
<1>9. \A a \in 1..n : h[a] \in O /\ g[a] = h[a] + 1
  BY <1>6 DEF Enumerates
<1>. HIDE DEF g
<1>10. Select(s, J) = [a \in 1..n |-> s[g[a]]]
  <2>1. Select(s, J) = Along(s, g, n)
    BY <1>7, <1>8, SelectBy
  <2>. QED  BY <2>1 DEF Along
<1>11. Select(w, O) = [a \in 1..n |-> w[h[a]]]
  <2>. HIDE DEF w
  <2>1. Select(w, O) = Along(w, h, n)
    BY <1>6, <1>7, SelectBy
  <2>. QED  BY <2>1 DEF Along
<1>12. \A a \in 1..n : w[h[a]] = coerce_call(s[g[a]])
  BY <1>9
<1>. HIDE DEF w
<1>13. Select(w, O) = [i \in DOMAIN Select(s, J) |-> coerce_call(Select(s, J)[i])]
  <2>1. DOMAIN Select(s, J) = 1..n /\ \A a \in 1..n : Select(s, J)[a] = s[g[a]]
    BY <1>10
  <2>. QED  BY <1>11, <1>12, <2>1
<1>. QED  BY <1>3, <1>4, <1>5, <1>13 DEF r

(* An answer in tool mode is what the text is read as. *)
LEMMA ToolAnswer ==
    ASSUME TurnInv, Answered
    PROVE  /\ whole.content = strip_leaked_markup(parse_tool_calls(buf).text)
           /\ whole.calls = to_openai_tool_calls(parse_tool_calls(buf).calls)
           /\ buf \in Seq(Pieces)
<1>. DEFINE r == parse_tool_calls(buf)
<1>1. whole = assistant_message(TRUE, buf, finish_reason) /\ buf \in Seq(Pieces)
  <2>1. tool_mode(request) = TRUE /\ phase = "answered"
    BY ModeIsBoolean DEF Answered
  <2>. QED  BY <2>1 DEF TurnInv, AnswerOK, ChunksOK
<1>2. CASE r.calls # <<>>
  BY <1>1, <1>2 DEF assistant_message, Answer
<1>3. CASE r.calls = <<>>
  <2>1. whole.content = strip_leaked_markup(r.text) /\ whole.calls = <<>>
    BY <1>1, <1>3 DEF assistant_message, Answer
  <2>2. to_openai_tool_calls(<<>>) = <<>>
    BY DEF to_openai_tool_calls
  <2>. QED  BY <1>1, <1>3, <2>1, <2>2
<1>. QED  BY <1>2, <1>3

(* Text in the form the model is asked for is understood: the client gets    *)
(* every call in it, once and in order, and the prose around them, all of    *)
(* it, whatever the chunks were and however often the tags recur.            *)
THEOREM WellFormedIsReadAlways == Spec => []WellFormedIsRead
<1>1. TurnInv => WellFormedIsRead
  <2>1. SUFFICES ASSUME TurnInv, Answered, WellFormed(buf)
                 PROVE  /\ whole.content = Filter(buf, IsProse)
                        /\ whole.calls = to_openai_tool_calls(
                              [i \in DOMAIN json_objects(buf) |-> coerce_call(json_objects(buf)[i])])
    BY DEF WellFormedIsRead
  <2>2. /\ whole.content = strip_leaked_markup(parse_tool_calls(buf).text)
        /\ whole.calls = to_openai_tool_calls(parse_tool_calls(buf).calls)
        /\ buf \in Seq(Pieces)
    BY <2>1, ToolAnswer
  <2>3. /\ strip_leaked_markup(parse_tool_calls(buf).text) = Filter(buf, IsProse)
        /\ parse_tool_calls(buf).calls =
               [i \in DOMAIN json_objects(buf) |-> coerce_call(json_objects(buf)[i])]
    BY <2>1, <2>2, WellFormedRead
  <2>. QED  BY <2>2, <2>3
<1>. QED  BY <1>1, TurnInvariant, PTL

-----------------------------------------------------------------------------
(* What is taken from where in a text. *)

\* Each element of t has the name of an element of s, one at a place in I, and
\* no two have the same.
DrawnBy(g, t, s, I) ==
    /\ g \in [DOMAIN t -> I]
    /\ \A a, b \in DOMAIN t : g[a] = g[b] => a = b
    /\ \A a \in DOMAIN t : t[a].name = s[g[a]].name

Drawn(t, s, I) == \E g : DrawnBy(g, t, s, I)

(* What is selected is drawn from where it is selected. *)
LEMMA SelectDrawn ==
    ASSUME NEW N \in Nat, NEW I \in SUBSET (1..N), NEW s
    PROVE  Drawn(Select(s, I), s, I)
<1>1. PICK n \in Nat : \E h : Enumerates(h, n, I)
  BY Enumerable
<1>2. PICK h : Enumerates(h, n, I)
  BY <1>1
<1>3. I \in SUBSET Nat
  BY PositionsAreNat
<1>4. Select(s, I) = Along(s, h, n)
  BY <1>2, <1>3, SelectBy
<1>5. /\ h \in [1..n -> I]
      /\ \A a, b \in 1..n : a < b => h[a] < h[b]
      /\ \A a \in 1..n : h[a] \in Nat
  BY <1>2, <1>3 DEF Enumerates
<1>6. DOMAIN Along(s, h, n) = 1..n /\ \A a \in 1..n : Along(s, h, n)[a] = s[h[a]]
  BY DEF Along
<1>7. ASSUME NEW a \in 1..n, NEW b \in 1..n, h[a] = h[b]  PROVE a = b
  <2>1. a \in Nat /\ b \in Nat /\ ~ (h[a] < h[b]) /\ ~ (h[b] < h[a])
    BY <1>5, <1>7
  <2>. QED  BY <1>5, <2>1
<1>8. DrawnBy(h, Along(s, h, n), s, I)
  BY <1>5, <1>6, <1>7 DEF DrawnBy
<1>. QED  BY <1>4, <1>8 DEF Drawn

(* What is drawn from what is drawn. *)
LEMMA DrawnAgain ==
    ASSUME NEW t, NEW u, NEW s, NEW I, Drawn(t, u, DOMAIN u), Drawn(u, s, I)
    PROVE  Drawn(t, s, I)
<1>1. PICK g : DrawnBy(g, t, u, DOMAIN u)
  BY DEF Drawn
<1>2. PICK h : DrawnBy(h, u, s, I)
  BY DEF Drawn
<1>. DEFINE f == [a \in DOMAIN t |-> h[g[a]]]
<1>3. \A a \in DOMAIN t : g[a] \in DOMAIN u /\ f[a] = h[g[a]] /\ h[g[a]] \in I
  BY <1>1, <1>2 DEF DrawnBy
<1>4. f \in [DOMAIN t -> I]
  BY <1>3
<1>. HIDE DEF f
<1>5. DrawnBy(f, t, s, I)
  BY <1>1, <1>2, <1>3, <1>4 DEF DrawnBy
<1>. QED  BY <1>5 DEF Drawn

LEMMA DrawnFromMore ==
    ASSUME NEW t, NEW s, NEW I, NEW J, I \subseteq J, Drawn(t, s, I)
    PROVE  Drawn(t, s, J)
<1>1. PICK g : DrawnBy(g, t, s, I)
  BY DEF Drawn
<1>2. g \in [DOMAIN t -> J]
  BY <1>1 DEF DrawnBy
<1>3. DrawnBy(g, t, s, J)
  BY <1>1, <1>2 DEF DrawnBy
<1>. QED  BY <1>3 DEF Drawn

\* The places in I that name x.
Named(s, I, x) == {i \in I : s[i].name = x}

LEMMA MentionsNamed ==
    ASSUME NEW t, NEW x
    PROVE  Mentions(t, x) = Cardinality(Named(t, DOMAIN t, x))
BY DEF Mentions, Named

(* A name is not drawn more often than it is there. *)
LEMMA DrawnCount ==
    ASSUME NEW N \in Nat, NEW I \in SUBSET (1..N), NEW s, NEW t, Drawn(t, s, I), NEW x
    PROVE  /\ IsFiniteSet(Named(s, I, x))
           /\ IsFiniteSet(Named(t, DOMAIN t, x))
           /\ Mentions(t, x) <= Cardinality(Named(s, I, x))
<1>1. PICK g : DrawnBy(g, t, s, I)
  BY DEF Drawn
<1>. DEFINE A == {a \in DOMAIN t : t[a].name = x}
            B == {i \in I : s[i].name = x}
            f == [a \in A |-> g[a]]
<1>2. IsFiniteSet(B)
  <2>1. IsFiniteSet(1..N)
    BY FS_Interval
  <2>2. B \in SUBSET (1..N)
    OBVIOUS
  <2>. HIDE DEF B
  <2>. QED  BY <2>1, <2>2, FS_Subset
<1>3. \A a \in A : g[a] \in B
  BY <1>1 DEF DrawnBy
<1>4. \A a, b \in A : g[a] = g[b] => a = b
  BY <1>1 DEF DrawnBy
<1>. HIDE DEF A, B
<1>5. f \in [A -> B]
  BY <1>3
<1>6. f \in Injection(A, B)
  BY <1>4, <1>5 DEF Injection, IsInjective
<1>7. IsFiniteSet(A) /\ Cardinality(A) <= Cardinality(B)
  <2>. HIDE DEF f
  <2>. QED  BY <1>2, <1>6, FS_Injection
<1>. QED  BY <1>2, <1>7, MentionsNamed DEF A, B, Named

\* Calls and text that are drawn from different places.
Parted(r, s) ==
    \E C, T \in SUBSET (DOMAIN s) :
        C \cap T = {} /\ Drawn(r.calls, s, C) /\ Drawn(r.text, s, T)

(* Spans do not overlap, and a span that gave a call is taken out. *)
LEMMA SpansPart ==
    ASSUME NEW s \in Seq(Pieces), NEW ends \in {CallSpan, PythonSpan, FenceSpan}
    PROVE  Parted(FromSpans(s, ends), s)
<1>. DEFINE sp == Spans(s, ends)
            r == FromSpans(s, ends)
<1>1. PICK hits, at, call : Reads(s, ends, hits, at, call)
  BY FromSpansFacts
<1>2. PICK N \in Nat : N = Len(s) /\ DOMAIN s = 1..N
  OBVIOUS
<1>3. /\ DOMAIN sp \in SUBSET (1..N)
      /\ \A i \in DOMAIN sp : sp[i] \in i + 1..N
      /\ \A i, j \in DOMAIN sp : i < j => sp[i] < j
  BY <1>2, SpansFacts
<1>4. /\ hits \in SUBSET DOMAIN sp
      /\ at \in [hits -> 1..N]
      /\ \A i \in hits : /\ at[i] \in i..sp[i]
                         /\ call[i] = coerce_call(s[at[i]])
      /\ r.text = strip_spans(s, Restrict(sp, hits))
      /\ r.calls = Select(call, hits)
  BY <1>1, <1>2 DEF Reads
<1>. HIDE DEF sp, r
<1>. DEFINE C == {at[i] : i \in hits}
            T == {i \in DOMAIN s : \A j \in hits : i \notin j..sp[j]}
<1>5. C \in SUBSET DOMAIN s /\ T \in SUBSET (1..N) /\ hits \in SUBSET (1..N)
  BY <1>2, <1>3, <1>4
<1>6. C \cap T = {}
  BY <1>4
<1>7. Drawn(r.text, s, T)
  <2>1. DOMAIN Restrict(sp, hits) = hits /\ \A j \in hits : Restrict(sp, hits)[j] = sp[j]
    BY DEF Restrict
  <2>2. {i \in DOMAIN s : \A j \in DOMAIN Restrict(sp, hits) : i \notin j..Restrict(sp, hits)[j]} = T
    BY <2>1
  <2>3. r.text = Select(s, T)
    BY <1>4, <2>2 DEF strip_spans
  <2>. HIDE DEF T
  <2>. QED  BY <1>5, <2>3, SelectDrawn
<1>8. Drawn(r.calls, s, C)
  <2>1. PICK g : DrawnBy(g, Select(call, hits), call, hits)
    BY <1>5, SelectDrawn DEF Drawn
  <2>. DEFINE t == Select(call, hits)
              f == [a \in DOMAIN t |-> at[g[a]]]
  <2>. HIDE DEF t
  <2>2. \A a \in DOMAIN t : g[a] \in hits /\ t[a].name = call[g[a]].name
    BY <2>1 DEF DrawnBy, t
  <2>3. f \in [DOMAIN t -> C]
    BY <2>2
  <2>4. ASSUME NEW i \in hits, NEW j \in hits, at[i] = at[j]  PROVE i = j
    <3>1. /\ i \in 1..N /\ j \in 1..N /\ at[i] \in i..sp[i] /\ at[j] \in j..sp[j]
          /\ i < j => sp[i] < j
          /\ j < i => sp[j] < i
          /\ sp[i] \in Int /\ sp[j] \in Int
      BY <1>3, <1>4, <1>5
    <3>. QED  BY <2>4, <3>1
  <2>5. \A i \in hits : call[i].name = s[at[i]].name
    <3>1. \A p : coerce_call(p).name = p.name
      BY DEF coerce_call
    <3>2. \A i \in hits : call[i] = coerce_call(s[at[i]])
      BY <1>4
    <3>. HIDE DEF t, f, C, T
    <3>. QED  BY <3>1, <3>2
  <2>6. \A a \in DOMAIN t : f[a] = at[g[a]]
    OBVIOUS
  <2>. HIDE DEF f, C
  <2>7. DrawnBy(f, t, s, C)
    <3>1. ASSUME NEW a \in DOMAIN t, NEW b \in DOMAIN t, f[a] = f[b]  PROVE a = b
      <4>1. g[a] = g[b]
        BY <2>2, <2>4, <2>6, <3>1
      <4>. QED  BY <2>1, <4>1 DEF DrawnBy, t
    <3>. QED  BY <2>2, <2>3, <2>5, <2>6, <3>1 DEF DrawnBy
  <2>. QED  BY <1>4, <2>7 DEF Drawn, t
<1>. HIDE DEF C, T
<1>. QED  BY <1>2, <1>5, <1>6, <1>7, <1>8 DEF Parted, r

(* An opening tag that nothing closes: the text before it, and the object in  *)
(* what follows.                                                              *)
LEMMA CutParts ==
    ASSUME NEW s \in Seq(Pieces), NEW i \in 1..Len(s), NEW l \in i..Len(s)
    PROVE  Parted(Cut(s, i, l), s)
<1>. DEFINE c == <<coerce_call(s[l])>>
            t == SubSeq(s, 1, i - 1)
<1>1. {l} \in SUBSET DOMAIN s /\ 1..i - 1 \in SUBSET DOMAIN s /\ {l} \cap (1..i - 1) = {}
  OBVIOUS
<1>2. Drawn(c, s, {l})
  <2>. DEFINE g == [a \in DOMAIN c |-> l]
  <2>1. DOMAIN c = {1} /\ c[1].name = s[l].name
    BY DEF coerce_call
  <2>2. DrawnBy(g, c, s, {l})
    BY <2>1 DEF DrawnBy
  <2>. QED  BY <2>2 DEF Drawn
<1>3. Drawn(t, s, 1..i - 1)
  <2>. DEFINE g == [a \in 1..i - 1 |-> a]
  <2>1. DOMAIN t = 1..i - 1 /\ \A a \in 1..i - 1 : t[a] = s[a]
    OBVIOUS
  <2>2. DrawnBy(g, t, s, 1..i - 1)
    <3>. HIDE DEF t
    <3>. QED  BY <2>1 DEF DrawnBy
  <2>. QED  BY <2>2 DEF Drawn
<1>4. Cut(s, i, l).calls = c /\ Cut(s, i, l).text = t
  BY DEF Cut
<1>. HIDE DEF c, t
<1>. QED  BY <1>1, <1>2, <1>3, <1>4 DEF Parted

LEMMA LayersPart ==
    ASSUME NEW s \in Seq(Pieces), NEW n \in 1..4, Marked(s)[n].calls # <<>>
    PROVE  Parted(Marked(s)[n], s)
<1>1. n = 1 \/ n = 2 \/ n = 3 \/ n = 4
  OBVIOUS
<1>2. CASE n # 2
  <2>1. \E ends \in {CallSpan, PythonSpan, FenceSpan} : Marked(s)[n] = FromSpans(s, ends)
    BY <1>1, <1>2, MarkedLayers
  <2>. QED  BY <2>1, SpansPart
<1>3. CASE n = 2
  <2>1. Marked(s)[n] = Unclosed(s)
    BY <1>3, MarkedLayers
  <2>2. PICK i \in 1..Len(s) : \E l \in i..Len(s) : Unclosed(s) = Cut(s, i, l)
    BY <2>1, UnclosedFacts
  <2>3. PICK l \in i..Len(s) : Unclosed(s) = Cut(s, i, l)
    BY <2>2
  <2>. QED  BY <2>1, <2>3, CutParts
<1>. QED  BY <1>2, <1>3

(* The client gets them with their names, and no more of the text than that.  *)
LEMMA CallsDrawn ==
    ASSUME NEW calls
    PROVE  Drawn(to_openai_tool_calls(calls), calls, DOMAIN calls)
<1>. DEFINE t == to_openai_tool_calls(calls)
            g == [a \in DOMAIN calls |-> a]
<1>1. DOMAIN t = DOMAIN calls /\ \A a \in DOMAIN t : t[a].name = calls[a].name
  BY DEF to_openai_tool_calls
<1>. HIDE DEF t
<1>2. DrawnBy(g, t, calls, DOMAIN calls)
  BY <1>1 DEF DrawnBy
<1>. QED  BY <1>2 DEF Drawn, t

LEMMA CleanDrawn ==
    ASSUME NEW t \in Seq(Pieces)
    PROVE  Drawn(strip_leaked_markup(t), t, DOMAIN t)
<1>. DEFINE sp == Spans(t, LeakedSpan)
            I == {i \in DOMAIN t : \A j \in DOMAIN sp : i \notin j..sp[j]}
            u == strip_spans(t, sp)
            K == {i \in DOMAIN u : IsText(u[i])}
<1>1. u \in Seq(Pieces) /\ strip_leaked_markup(t) = Select(u, K)
  BY SpansKept DEF strip_leaked_markup, Filter
<1>2. Len(t) \in Nat /\ I \in SUBSET (1..Len(t)) /\ I \subseteq DOMAIN t
  OBVIOUS
<1>3. u = Select(t, I)
  BY DEF strip_spans
<1>. HIDE DEF I
<1>4. Drawn(u, t, DOMAIN t)
  <2>1. Drawn(Select(t, I), t, I)
    BY <1>2, SelectDrawn
  <2>. HIDE DEF u
  <2>. QED  BY <1>2, <1>3, <2>1, DrawnFromMore
<1>. HIDE DEF u
<1>5. Len(u) \in Nat /\ K \in SUBSET (1..Len(u)) /\ K \subseteq DOMAIN u
  BY <1>1
<1>6. Drawn(Select(u, K), u, DOMAIN u)
  <2>. HIDE DEF K
  <2>1. Drawn(Select(u, K), u, K)
    BY <1>5, SelectDrawn
  <2>. QED  BY <1>5, <2>1, DrawnFromMore
<1>. QED  BY <1>1, <1>4, <1>6, DrawnAgain

(* Nothing is reported twice: of the objects of the text that have a name, as *)
(* many are called or shown to the user as there are, at most.  It does not   *)
(* hold of the last layer, which leaves the text alone.                       *)
THEOREM CalledOrShownAlways == Spec => []CalledOrShown
<1>1. TurnInv => CalledOrShown
  <2>1. SUFFICES ASSUME TurnInv, Answered,
                        NEW n \in DOMAIN Marked(buf), Marked(buf)[n].calls # <<>>,
                        NEW x
                 PROVE  Mentions(whole.calls, x) + Mentions(whole.content, x) <= Mentions(buf, x)
    BY DEF CalledOrShown
  <2>. DEFINE r == parse_tool_calls(buf)
  <2>2. /\ whole.content = strip_leaked_markup(r.text)
        /\ whole.calls = to_openai_tool_calls(r.calls)
        /\ buf \in Seq(Pieces)
    BY <2>1, ToolAnswer
  <2>3. n \in 1..4
    BY DEF Marked
  <2>4. PICK m \in 1..4 : Marked(buf)[m].calls # <<>> /\ r = Marked(buf)[m]
    BY <2>1, <2>3, ParseCases
  <2>5. Parted(r, buf)
    BY <2>2, <2>4, LayersPart
  <2>6. r.text \in Seq(Pieces)
    BY <2>2, ParseType
  <2>. HIDE DEF r
  <2>7. PICK C \in SUBSET (DOMAIN buf), T \in SUBSET (DOMAIN buf) :
            C \cap T = {} /\ Drawn(r.calls, buf, C) /\ Drawn(r.text, buf, T)
    BY <2>5 DEF Parted
  <2>8. Drawn(whole.calls, buf, C) /\ Drawn(whole.content, buf, T)
    BY <2>2, <2>6, <2>7, CallsDrawn, CleanDrawn, DrawnAgain
  <2>9. PICK N \in Nat : DOMAIN buf = 1..N
    BY <2>2
  <2>. DEFINE A == Named(buf, C, x)
              B == Named(buf, T, x)
              D == Named(buf, DOMAIN buf, x)
  <2>10. /\ IsFiniteSet(A) /\ Mentions(whole.calls, x) <= Cardinality(A)
         /\ IsFiniteSet(Named(whole.calls, DOMAIN whole.calls, x))
    <3>1. C \in SUBSET (1..N) /\ Drawn(whole.calls, buf, C)
      BY <2>7, <2>8, <2>9
    <3>. QED  BY <3>1, DrawnCount
  <2>11. /\ IsFiniteSet(B) /\ Mentions(whole.content, x) <= Cardinality(B)
         /\ IsFiniteSet(Named(whole.content, DOMAIN whole.content, x))
    <3>1. T \in SUBSET (1..N) /\ Drawn(whole.content, buf, T)
      BY <2>7, <2>8, <2>9
    <3>. QED  BY <3>1, DrawnCount
  <2>12. IsFiniteSet(D)
    <3>1. IsFiniteSet(1..N) /\ D \in SUBSET (1..N)
      BY <2>9, FS_Interval DEF Named
    <3>. QED  BY <3>1, FS_Subset
  <2>13. A \cup B \in SUBSET D /\ A \cap B = {}
    BY <2>7 DEF Named
  <2>14. /\ Mentions(whole.calls, x) \in Nat /\ Mentions(whole.content, x) \in Nat
    BY <2>10, <2>11, MentionsNamed, FS_CardinalityType
  <2>15. Mentions(buf, x) = Cardinality(D)
    BY MentionsNamed
  <2>. HIDE DEF A, B, D
  <2>16. Cardinality(A) + Cardinality(B) <= Cardinality(D)
    <3>1. Cardinality(A \cup B) <= Cardinality(D)
      BY <2>12, <2>13, FS_Subset
    <3>2. Cardinality(A \cup B) = Cardinality(A) + Cardinality(B) - Cardinality(A \cap B)
      BY <2>10, <2>11, FS_Union
    <3>3. Cardinality(A \cap B) = 0
      BY <2>13, FS_EmptySet
    <3>4. Cardinality(A) \in Nat /\ Cardinality(B) \in Nat
      BY <2>10, <2>11, FS_CardinalityType
    <3>. QED  BY <3>1, <3>2, <3>3, <3>4
  <2>17. Cardinality(A) \in Nat /\ Cardinality(B) \in Nat /\ Cardinality(D) \in Nat
    BY <2>10, <2>11, <2>12, FS_CardinalityType
  <2>. QED  BY <2>10, <2>11, <2>14, <2>15, <2>16, <2>17
<1>. QED  BY <1>1, TurnInvariant, PTL
=============================================================================
