--------------------------- MODULE SelectionProofs ---------------------------
(***************************************************************************)
(* What Select gives, for sequences of any length.                          *)
(***************************************************************************)
EXTENDS Selection, FiniteSetTheorems, SequenceTheorems, WellFoundedInduction, TLAPS

(* Induction over the naturals, stated for a set. *)
LEMMA NatSetInduction ==
    ASSUME NEW S, 0 \in S, \A n \in Nat : n \in S => n + 1 \in S
    PROVE  Nat \subseteq S
<1>. DEFINE T == Nat \ S
<1>1. SUFFICES ASSUME T # {} PROVE FALSE
  OBVIOUS
<1>2. PICK x \in T : \A y \in T : ~ (<<y, x>> \in OpToRel(<, Nat))
  <2>1. T \subseteq Nat
    OBVIOUS
  <2>. QED  BY <1>1, <2>1, NatLessThanWellFounded, WFMin, Zenon
<1>3. x \in Nat /\ x # 0
  OBVIOUS
<1>4. x - 1 \in Nat /\ x - 1 \notin T
  <2>1. x - 1 \in Nat /\ x - 1 < x
    BY <1>3
  <2>2. <<x - 1, x>> \in OpToRel(<, Nat)
    BY <1>3, <2>1 DEF OpToRel
  <2>. QED  BY <1>2, <2>1, <2>2
<1>5. (x - 1) + 1 \in S
  BY <1>4
<1>. QED  BY <1>3, <1>5

\* h goes through I, from its first element to its last.
Enumerates(h, n, I) ==
    /\ h \in [1..n -> I]
    /\ \A a, b \in 1..n : a < b => h[a] < h[b]
    /\ \A i \in I : \E a \in 1..n : h[a] = i

\* The elements of s that h goes through.
Along(s, h, n) == [a \in 1..n |-> s[h[a]]]

(* The elements up to the n-th are n. *)
LEMMA Ranks ==
    ASSUME NEW n \in Nat, NEW I \in SUBSET Nat, NEW h, Enumerates(h, n, I)
    PROVE  /\ IsFiniteSet(I) /\ Cardinality(I) = n
           /\ \A a \in 1..n : Cardinality({k \in I : k <= h[a]}) = a
<1>. DEFINE J(a) == {k \in I : \E b \in 1..a : h[b] = k}
<1>1. ASSUME NEW a \in 0..n
      PROVE  IsFiniteSet(J(a)) /\ Cardinality(J(a)) = a
  <2>. DEFINE f == [b \in 1..a |-> h[b]]
  <2>1. f \in Bijection(1..a, J(a))
    <3>1. \A b \in 1..a : b \in 1..n /\ f[b] = h[b] /\ h[b] \in J(a)
      BY DEF Enumerates
    <3>2. \A b, c \in 1..a : f[b] = f[c] => b = c
      <4>1. ASSUME NEW b \in 1..a, NEW c \in 1..a, b # c  PROVE h[b] # h[c]
        <5>1. b < c \/ c < b
          BY <4>1
        <5>2. h[b] \in Nat /\ h[c] \in Nat
          BY <3>1
        <5>. QED  BY <3>1, <5>1, <5>2 DEF Enumerates
      <4>. QED  BY <3>1, <4>1
    <3>3. \A k \in J(a) : \E b \in 1..a : f[b] = k
      OBVIOUS
    <3>. QED  BY <3>1, <3>2, <3>3
              DEF Bijection, Injection, Surjection, IsInjective
  <2>2. IsFiniteSet(1..a) /\ Cardinality(1..a) = a
    BY FS_Interval
  <2>3. ExistsBijection(1..a, J(a))
    BY <2>1 DEF ExistsBijection
  <2>. HIDE DEF J
  <2>. QED  BY <2>2, <2>3, FS_Bijection
<1>2. J(n) = I
  BY DEF Enumerates
<1>3. ASSUME NEW a \in 1..n
      PROVE  {k \in I : k <= h[a]} = J(a)
  <2>1. \A b \in 1..n : h[b] \in Nat
    BY DEF Enumerates
  <2>2. ASSUME NEW k \in I, k <= h[a]  PROVE \E b \in 1..a : h[b] = k
    <3>1. PICK b \in 1..n : h[b] = k
      BY DEF Enumerates
    <3>2. ~ (a < b)
      BY <2>1, <2>2, <3>1 DEF Enumerates
    <3>. QED  BY <3>1, <3>2
  <2>3. ASSUME NEW b \in 1..a  PROVE h[b] <= h[a]
    <3>1. b \in 1..n /\ (b < a \/ b = a)
      OBVIOUS
    <3>. QED  BY <2>1, <3>1 DEF Enumerates
  <2>. QED  BY <2>2, <2>3
<1>. HIDE DEF J
<1>. QED  BY <1>1, <1>2, <1>3

(* Whatever goes through I gives the selection. *)
LEMMA SelectBy ==
    ASSUME NEW n \in Nat, NEW I \in SUBSET Nat, NEW h, Enumerates(h, n, I), NEW s
    PROVE  Select(s, I) = Along(s, h, n)
<1>1. ASSUME NEW a \in 1..n
      PROVE  (CHOOSE i \in I : Cardinality({k \in I : k <= i}) = a) = h[a]
  <2>1. h[a] \in I /\ Cardinality({k \in I : k <= h[a]}) = a
    BY Ranks DEF Enumerates
  <2>2. ASSUME NEW i \in I, Cardinality({k \in I : k <= i}) = a  PROVE i = h[a]
    <3>1. PICK b \in 1..n : h[b] = i
      BY DEF Enumerates
    <3>2. Cardinality({k \in I : k <= h[b]}) = b
      BY Ranks
    <3>. QED  BY <2>2, <3>1, <3>2
  <2>. QED  BY <2>1, <2>2
<1>2. Cardinality(I) = n
  BY Ranks
<1>. DEFINE nth(a) == CHOOSE i \in I : Cardinality({k \in I : k <= i}) = a
<1>3. Select(s, I) = [a \in 1..Cardinality(I) |-> s[nth(a)]]
  BY DEF Select
<1>4. \A a \in 1..n : nth(a) = h[a]
  BY <1>1
<1>. HIDE DEF nth
<1>. QED  BY <1>2, <1>3, <1>4 DEF Along

(* One more position, after all others. *)
LEMMA EnumeratesMore ==
    ASSUME NEW n \in Nat, NEW I \in SUBSET Nat, NEW h, Enumerates(h, n, I),
           NEW m \in Nat, \A i \in I : i < m
    PROVE  Enumerates([a \in 1..(n + 1) |-> IF a = n + 1 THEN m ELSE h[a]], n + 1, I \cup {m})
<1>. DEFINE g == [a \in 1..(n + 1) |-> IF a = n + 1 THEN m ELSE h[a]]
<1>1. g[n + 1] = m /\ \A a \in 1..n : g[a] = h[a] /\ h[a] \in I
  BY DEF Enumerates
<1>2. \A a \in 1..(n + 1) : a \in 1..n \/ a = n + 1
  OBVIOUS
<1>3. g \in [1..(n + 1) -> I \cup {m}]
  BY <1>1, <1>2
<1>. HIDE DEF g
<1>4. ASSUME NEW a \in 1..(n + 1), NEW b \in 1..(n + 1), a < b  PROVE g[a] < g[b]
  <2>1. a \in 1..n
    BY <1>4
  <2>2. CASE b = n + 1
    BY <1>1, <2>1, <2>2
  <2>3. CASE b \in 1..n
    BY <1>1, <1>4, <2>1, <2>3 DEF Enumerates
  <2>. QED  BY <1>2, <2>2, <2>3
<1>5. ASSUME NEW i \in I \cup {m}  PROVE \E a \in 1..(n + 1) : g[a] = i
  <2>1. CASE i = m
    BY <1>1, <2>1
  <2>2. CASE i \in I
    <3>1. PICK a \in 1..n : h[a] = i
      BY <2>2 DEF Enumerates
    <3>. QED  BY <1>1, <3>1
  <2>. QED  BY <2>1, <2>2
<1>6. Enumerates(g, n + 1, I \cup {m})
  BY <1>3, <1>4, <1>5 DEF Enumerates
<1>. QED  BY <1>6 DEF g

(* Every bounded set of positions can be gone through. *)
LEMMA Enumerable ==
    ASSUME NEW N \in Nat, NEW I \in SUBSET (1..N)
    PROVE  \E n \in Nat : \E h : Enumerates(h, n, I)
<1>. DEFINE Ok(J) == \E n \in Nat : \E h : Enumerates(h, n, J)
            S == {m \in Nat : \A J \in SUBSET (1..m) : Ok(J)}
<1>1. 0 \in S
  <2>1. Enumerates([a \in 1..0 |-> 0], 0, {})
    BY DEF Enumerates
  <2>2. Ok({})
    BY <2>1
  <2>. HIDE DEF Ok
  <2>3. 1..0 = {}
    OBVIOUS
  <2>. QED  BY <2>2, <2>3
<1>2. ASSUME NEW m \in Nat, m \in S  PROVE m + 1 \in S
  <2>1. ASSUME NEW J \in SUBSET (1..(m + 1))  PROVE Ok(J)
    <3>. DEFINE K == J \ {m + 1}
    <3>1. K \in SUBSET (1..m) /\ \A i \in K : i < m + 1
      OBVIOUS
    <3>2. PICK n \in Nat : \E h : Enumerates(h, n, K)
      BY <1>2, <3>1
    <3>h. PICK h : Enumerates(h, n, K)
      BY <3>2
    <3>3. CASE m + 1 \notin J
      <4>1. K = J
        BY <3>3
      <4>. QED  BY <3>2, <4>1
    <3>4. CASE m + 1 \in J
      <4>1. J = K \cup {m + 1} /\ K \in SUBSET Nat /\ m + 1 \in Nat /\ n + 1 \in Nat
        BY <3>1, <3>4
      <4>. HIDE DEF K
      <4>2. \E g : Enumerates(g, n + 1, K \cup {m + 1})
        BY <3>1, <3>h, <4>1, EnumeratesMore
      <4>. QED  BY <4>1, <4>2
    <3>. QED  BY <3>3, <3>4
  <2>. HIDE DEF Ok
  <2>. QED  BY <2>1
<1>. HIDE DEF S
<1>3. N \in S
  BY <1>1, <1>2, NatSetInduction
<1>. QED  BY <1>3 DEF S

(* Such a list is a sequence, of whatever type its elements have. *)
LEMMA AlongIsSeq ==
    ASSUME NEW n \in Nat, NEW h, NEW s, NEW T, \A a \in 1..n : s[h[a]] \in T
    PROVE  /\ Along(s, h, n) \in Seq(T)
           /\ Len(Along(s, h, n)) = n
           /\ \A a \in 1..n : Along(s, h, n)[a] = s[h[a]]
BY DEF Along

(* Positions are numbers. *)
LEMMA PositionsAreNat ==
    ASSUME NEW N \in Nat, NEW I \in SUBSET (1..N)
    PROVE  I \in SUBSET Nat
OBVIOUS

(* The elements of a selection are those at its positions. *)
LEMMA SelectFacts ==
    ASSUME NEW N \in Nat, NEW I \in SUBSET (1..N), NEW s
    PROVE  \E n \in Nat : \E h :
               /\ Enumerates(h, n, I)
               /\ Select(s, I) = Along(s, h, n)
               /\ Select(s, I) \in Seq({s[i] : i \in I})
               /\ Len(Select(s, I)) = n
<1>1. PICK n \in Nat : \E h : Enumerates(h, n, I)
  BY Enumerable
<1>2. PICK h : Enumerates(h, n, I)
  BY <1>1
<1>3. Select(s, I) = Along(s, h, n)
  BY <1>2, PositionsAreNat, SelectBy
<1>4. \A a \in 1..n : s[h[a]] \in {s[i] : i \in I}
  BY <1>2 DEF Enumerates
<1>5. Select(s, I) \in Seq({s[i] : i \in I}) /\ Len(Select(s, I)) = n
  BY <1>3, <1>4 DEF Along
<1>. QED  BY <1>2, <1>3, <1>5

(* The types of a selection. *)
LEMMA SelectType ==
    ASSUME NEW N \in Nat, NEW I \in SUBSET (1..N), NEW T, NEW s,
           \A i \in I : s[i] \in T
    PROVE  Select(s, I) \in Seq(T)
<1>1. {s[i] : i \in I} \subseteq T
  OBVIOUS
<1>2. PICK n \in Nat : \E h :
               /\ Enumerates(h, n, I)
               /\ Select(s, I) = Along(s, h, n)
  BY SelectFacts
<1>3. PICK h : Enumerates(h, n, I) /\ Select(s, I) = Along(s, h, n)
  BY <1>2
<1>4. \A a \in 1..n : s[h[a]] \in T
  BY <1>3 DEF Enumerates
<1>. QED  BY <1>3, <1>4, AlongIsSeq

(* Only the elements at the positions matter. *)
LEMMA SelectSame ==
    ASSUME NEW N \in Nat, NEW I \in SUBSET (1..N), NEW s, NEW t,
           \A i \in I : s[i] = t[i]
    PROVE  Select(s, I) = Select(t, I)
<1>1. PICK n \in Nat : \E h : Enumerates(h, n, I)
  BY Enumerable
<1>2. PICK h : Enumerates(h, n, I)
  BY <1>1
<1>3. Select(s, I) = Along(s, h, n) /\ Select(t, I) = Along(t, h, n)
  BY <1>2, PositionsAreNat, SelectBy
<1>. QED  BY <1>2, <1>3 DEF Enumerates, Along

(* A selection of nothing. *)
LEMMA SelectNone == \A s : Select(s, {}) = <<>>
<1>1. Enumerates([a \in 1..0 |-> 0], 0, {})
  BY DEF Enumerates
<1>2. ASSUME NEW s  PROVE Select(s, {}) = Along(s, [a \in 1..0 |-> 0], 0)
  BY <1>1, SelectBy
<1>. QED  BY <1>2 DEF Along

(* A last position adds its element at the end. *)
LEMMA SelectLast ==
    ASSUME NEW N \in Nat, NEW I \in SUBSET (1..N), NEW m \in Nat, \A i \in I : i < m,
           NEW s
    PROVE  Select(s, I \cup {m}) = Append(Select(s, I), s[m])
<1>1. PICK n \in Nat : \E h : Enumerates(h, n, I)
  BY Enumerable
<1>2. PICK h : Enumerates(h, n, I)
  BY <1>1
<1>. DEFINE g == [a \in 1..(n + 1) |-> IF a = n + 1 THEN m ELSE h[a]]
<1>3. Enumerates(g, n + 1, I \cup {m})
  BY <1>2, EnumeratesMore
<1>4. Select(s, I) = Along(s, h, n)
  BY <1>2, PositionsAreNat, SelectBy
<1>5. Select(s, I \cup {m}) = Along(s, g, n + 1)
  <2>. HIDE DEF g
  <2>1. I \cup {m} \in SUBSET Nat /\ n + 1 \in Nat
    OBVIOUS
  <2>. QED  BY <1>3, <2>1, SelectBy
<1>6. \A a \in 1..(n + 1) : s[g[a]] = IF a = n + 1 THEN s[m] ELSE s[h[a]]
  OBVIOUS
<1>. HIDE DEF g
<1>. DEFINE T == {s[i] : i \in I \cup {m}}
<1>7. (\A a \in 1..n : s[h[a]] \in T) /\ s[m] \in T
  BY <1>2 DEF Enumerates
<1>8. \A a \in 1..(n + 1) : s[g[a]] \in T
  BY <1>6, <1>7
<1>. HIDE DEF T
<1>9. /\ Select(s, I) \in Seq(T) /\ Len(Select(s, I)) = n
      /\ \A a \in 1..n : Select(s, I)[a] = s[h[a]]
  BY <1>4, <1>7, AlongIsSeq
<1>10. PICK k \in Nat : k = n + 1
  OBVIOUS
<1>. DEFINE t == Select(s, I \cup {m})
<1>11. t \in Seq(T) /\ Len(t) = k /\ \A a \in 1..k : t[a] = s[g[a]]
  <2>1. t = Along(s, g, k) /\ \A a \in 1..k : s[g[a]] \in T
    BY <1>5, <1>8, <1>10
  <2>. HIDE DEF t
  <2>2. /\ Along(s, g, k) \in Seq(T) /\ Len(Along(s, g, k)) = k
        /\ \A a \in 1..k : Along(s, g, k)[a] = s[g[a]]
    <3>1. \A a \in 1..k : s[g[a]] \in T
      BY <2>1
    <3>. QED  BY <3>1, AlongIsSeq
  <2>. QED  BY <2>1, <2>2
<1>. HIDE DEF t
<1>. DEFINE u == Append(Select(s, I), s[m])
<1>12. u \in Seq(T) /\ Len(u) = k /\ u[k] = s[m] /\ \A a \in 1..n : u[a] = s[h[a]]
  BY <1>7, <1>9, <1>10, AppendProperties
<1>. HIDE DEF u
<1>13. \A a \in 1..k : t[a] = u[a]
  <2>1. ASSUME NEW a \in 1..k  PROVE t[a] = u[a]
    <3>1. t[a] = IF a = k THEN s[m] ELSE s[h[a]]
      BY <1>6, <1>10, <1>11
    <3>2. a = k \/ a \in 1..n
      BY <1>10
    <3>. QED  BY <1>12, <3>1, <3>2
  <2>. QED  BY <2>1
<1>14. t = u
  BY <1>11, <1>12, <1>13, SeqEqual
<1>. QED  BY <1>14 DEF t, u
=============================================================================
