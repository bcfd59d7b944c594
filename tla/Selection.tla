------------------------------ MODULE Selection ------------------------------
(***************************************************************************)
(* Parts of a sequence, named by their positions.  SelectSeq takes a test,  *)
(* an operator, of which the provers know nothing; a set of positions is a  *)
(* value, and theorems can be stated about it.                              *)
(***************************************************************************)
EXTENDS Integers, Sequences, FiniteSets

\* The elements of s at the positions in I, in order.
Select(s, I) ==
    LET nth(n) == CHOOSE i \in I : Cardinality({k \in I : k <= i}) = n
    IN  [n \in 1..Cardinality(I) |-> s[nth(n)]]

\* The elements that pass a test.
Filter(s, Test(_)) == Select(s, {i \in DOMAIN s : Test(s[i])})
=============================================================================
