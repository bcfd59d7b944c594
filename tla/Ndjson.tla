------------------------------- MODULE Ndjson -------------------------------
(***************************************************************************)
(* parse_ndjson of streaming.py: the body of an upload arrives in pieces    *)
(* that the network cuts anywhere, and must give one envelope per line.     *)
(*                                                                          *)
(* A byte is "nl", "sp" (what strip() removes), or one of two others: a     *)
(* line is JSON unless it holds a "bad" one.                                *)
(***************************************************************************)
EXTENDS Selection

CONSTANT MaxLen  \* bound: the bytes of a body

ASSUME MaxLenAssumption == MaxLen \in Nat

Bytes  == {"nl", "sp", "json", "bad"}
Bodies == UNION {[1..n -> Bytes] : n \in 0..MaxLen}

VARIABLES
    arrived,  \* the bytes the network has delivered so far
    rest,     \* and those it has not
    buf,      \* the bytearray buf
    out,      \* the envelopes given to on_envelope, in order
    pc        \* "reading" between chunks, "splitting" in the inner loop

vars == <<arrived, rest, buf, out, pc>>

Init ==
    /\ arrived = <<>>
    /\ rest \in Bodies
    /\ buf = <<>>
    /\ out = <<>>
    /\ pc = "reading"

Indices(s, b) == {i \in 1..Len(s) : s[i] = b}

\* The first newline of s, 0 when there is none.
Find(s) ==
    IF Indices(s, "nl") = {} THEN 0
    ELSE CHOOSE i \in Indices(s, "nl") : \A k \in Indices(s, "nl") : i <= k

\* strip(): whitespace at both ends, newlines included.
Strip(s) ==
    LET solid == 1..Len(s) \ (Indices(s, "sp") \cup Indices(s, "nl"))
    IN  IF solid = {} THEN <<>>
        ELSE SubSeq(s, CHOOSE i \in solid : \A k \in solid : i <= k,
                       CHOOSE i \in solid : \A k \in solid : i >= k)

IsJson(line) == line # <<>> /\ Indices(line, "bad") = {}

\* What one line adds to the envelopes: blank ones and bad JSON are skipped.
Deliver(line) == IF IsJson(Strip(line)) THEN Append(out, Strip(line)) ELSE out

\* A chunk of n bytes.
Chunk(n) ==
    /\ pc = "reading"
    /\ arrived' = arrived \o SubSeq(rest, 1, n)
    /\ rest' = SubSeq(rest, n + 1, Len(rest))
    /\ buf' = buf \o SubSeq(rest, 1, n)
    /\ pc' = "splitting"
    /\ UNCHANGED out

\* mutant: what is left of the chunk after its first line is thrown away.
LineDroppingRest ==
    /\ pc = "splitting"
    /\ Find(buf) > 0
    /\ out' = Deliver(SubSeq(buf, 1, Find(buf) - 1))
    /\ buf' = <<>>
    /\ UNCHANGED <<arrived, rest, pc>>

Line ==
    /\ pc = "splitting"
    /\ Find(buf) > 0
    /\ out' = Deliver(SubSeq(buf, 1, Find(buf) - 1))
    /\ buf' = SubSeq(buf, Find(buf) + 1, Len(buf))
    /\ UNCHANGED <<arrived, rest, pc>>

NoLine ==
    /\ pc = "splitting"
    /\ Find(buf) = 0
    /\ pc' = "reading"
    /\ UNCHANGED <<arrived, rest, buf, out>>

\* mutant: a last line without a newline is forgotten.
EndWithoutTail ==
    /\ pc = "reading"
    /\ rest = <<>>
    /\ pc' = "ended"
    /\ UNCHANGED <<arrived, rest, buf, out>>

\* The end of the body; what is left in the buffer may be a line.
End ==
    /\ pc = "reading"
    /\ rest = <<>>
    /\ out' = Deliver(buf)
    /\ pc' = "ended"
    /\ UNCHANGED <<arrived, rest, buf>>

\* request.stream() raises: the buffer is lost.
Break ==
    /\ pc = "reading"
    /\ pc' = "broken"
    /\ UNCHANGED <<arrived, rest, buf, out>>

Next == (\E n \in 1..Len(rest) : Chunk(n)) \/ Line \/ NoLine \/ End \/ Break

Spec == Init /\ [][Next]_vars

-----------------------------------------------------------------------------
(* The reference: the lines of a whole body, read off its newlines. *)

\* Where the lines of s end: at its newlines, and the last at its end.
Ends(s) == Indices(s, "nl") \cup {Len(s) + 1}

\* The line that ends before position i, stripped.
LineAt(s, i) ==
    LET before == {k \in Indices(s, "nl") : k < i}
        start  == IF before = {} THEN 1
                  ELSE 1 + CHOOSE k \in before : \A l \in before : l <= k
    IN  Strip(SubSeq(s, start, i - 1))

LinesOf(s) == [i \in Ends(s) |-> LineAt(s, i)]

EnvelopesOf(s) == Filter(LinesOf(s), IsJson)

\* The complete lines of what has arrived.
Complete(s) ==
    SubSeq(s, 1, IF Indices(s, "nl") = {} THEN 0
                 ELSE CHOOSE i \in Indices(s, "nl") : \A k \in Indices(s, "nl") : i >= k)

\* However the network cuts the body, each JSON line is delivered once and in
\* order, and as soon as its newline is there (streaming.py:34-46).
LinesNotLate ==
    pc \in {"reading", "broken"} => out = EnvelopesOf(Complete(arrived))

\* A body that ends in good order gives all its envelopes, the last of which
\* may lack its newline (streaming.py:47-54).
WholeBody == pc = "ended" => out = EnvelopesOf(arrived)
=============================================================================
