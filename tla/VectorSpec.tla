----------------------------- MODULE VectorSpec -----------------------------
(***************************************************************************)
(* What the vectors of the library promise: each is a sequence, whatever   *)
(* memory it lives in, and a moved-from one is empty.                      *)
(***************************************************************************)
EXTENDS Integers, Sequences

CONSTANTS Vec, Value, MaxLen, Junk

VARIABLE seq

Init == seq = [v \in Vec |-> <<>>]

Becomes(v, s) == seq' = [seq EXCEPT ![v] = s]

PushBack(v, x) == Becomes(v, Append(seq[v], x))
PopBack(v) == seq[v] # <<>> /\ Becomes(v, SubSeq(seq[v], 1, Len(seq[v]) - 1))
Erase(v, i) ==
  i \in DOMAIN seq[v]
    /\ Becomes(v, SubSeq(seq[v], 1, i - 1) \o SubSeq(seq[v], i + 1, Len(seq[v])))
Resize(v, n) == Becomes(v, [i \in 1 .. n |-> IF i <= Len(seq[v]) THEN seq[v][i] ELSE 0])
\* Nothing is known of the elements.
ResizeForOverwrite(v, n) == Becomes(v, [i \in 1 .. n |-> Junk])
CopyAssign(v, w) == Becomes(v, seq[w])
MoveAssign(v, w) == v # w /\ seq' = [seq EXCEPT ![v] = seq[w], ![w] = <<>>]

Next ==
  \E v \in Vec :
    \/ \E x \in Value : PushBack(v, x)
    \/ PopBack(v)
    \/ \E i \in 1 .. MaxLen : Erase(v, i)
    \/ \E n \in 0 .. MaxLen : Resize(v, n) \/ ResizeForOverwrite(v, n)
    \/ \E w \in Vec : CopyAssign(v, w) \/ MoveAssign(v, w)

Spec == Init /\ [][Next]_seq
=============================================================================
