----------------------------- MODULE MCLoopNest -----------------------------
(***************************************************************************)
(* Nests of two loops and of three, with a symbol N.                       *)
(***************************************************************************)
EXTENDS LoopNest

\* Columns: 1, N, i, j.  i < N, i <= 3, 2 i <= N; j < N, j <= 3; j < i, j <= i; j > i, j >= i; i + j <= 3
iBounds == {<<-1, 1, -1, 0>>, <<3, 0, -1, 0>>, <<0, 1, -2, 0>>}
jBounds == {<<-1, 1, 0, -1>>, <<3, 0, 0, -1>>}
both == {<<-1, 0, 1, -1>>, <<0, 0, 1, -1>>, <<-1, 0, -1, 1>>, <<0, 0, -1, 1>>, <<3, 0, -1, -1>>}
doubles == {[A |-> <<a, b, c>>, E |-> <<>>, dyn |-> 2, nonNegative |-> TRUE] : a \in iBounds, b \in jBounds, c \in both}
\* Columns: 1, N, i, j, k
triples ==
  {[A |-> <<<<-1, 1, -1, 0, 0>>, <<-1, 1, 0, -1, 0>>, <<-1, 1, 0, 0, -1>>, c>>, E |-> <<>>, dyn |-> 3, nonNegative |-> TRUE] :
     c \in {<<-1, 0, 0, -1, 1>>, <<-1, 0, -1, 0, 1>>, <<0, 0, -1, 1, -1>>, <<0, 0, 0, 1, -1>>}}
Explicit(p) == [p EXCEPT !.A = @ \o [k \in 1 .. p.dyn |-> Unit(2 + p.dyn, 2 + k)], !.nonNegative = FALSE]

Turns == {<<<<1, 0>>, <<0, 1>>>>, <<<<0, 1>>, <<1, 0>>>>, <<<<1, 0>>, <<-1, 1>>>>}
nestQuestions ==
  {[op |-> "extend", nest |-> p, loop |-> v, lower |-> w] :
     p \in doubles \union {Explicit(p) : p \in {p \in doubles : p.A[2][1] = -1}}, v \in {0}, w \in BOOLEAN}
    \union {[op |-> "extend", nest |-> p, loop |-> v, lower |-> w] : p \in triples, v \in {0, 1}, w \in BOOLEAN}
    \union {[op |-> "rotate", nest |-> p, R |-> R, offsets |-> o] :
              p \in {p \in doubles : p.A[1][3] = -1} , R \in Turns, o \in {<<0, 0>>, <<1, 0>>, <<0, 2>>}}
    \union {[op |-> o, nest |-> p] : o \in {"explicit", "addZero", "removeInner"}, p \in doubles \union {Explicit(p) : p \in doubles}}
steps == -3 .. 9
=============================================================================
