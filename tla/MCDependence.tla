---------------------------- MODULE MCDependence ----------------------------
(***************************************************************************)
(* Pairs of accesses in nests of one and two loops: bounds of a constant   *)
(* or a symbol, in the same loops, in some of them or in none.             *)
(***************************************************************************)
EXTENDS Dependence

Access(syms, A, C, O, omega) == [syms |-> syms, A |-> A, C |-> C, O |-> O, omega |-> omega]

\* for i in 0 .. 3: a[c * i + o]
Line(c, o, omega) == Access(<<>>, <<<<3, -1>>>>, <<<<c>>>>, <<<<o>>>>, omega)
\* for i in 0 .. N: a[c * i + o]
Symbolic(c, o, omega) == Access(<<"N">>, <<<<0, 1, -1>>>>, <<<<c>>>>, <<<<o, 0>>>>, omega)
\* for i in 0 .. 2, for j in 0 .. 2: a[c * i + d * j + o]
Square(c, d, o, omega) == Access(<<>>, <<<<2, -1, 0>>, <<2, 0, -1>>>>, <<<<c>>, <<d>>>>, <<<<o>>>>, omega)
\* for i in 0 .. 2, for j in 0 .. 2: a[i + o][j + u]
Matrix(o, u, omega) == Access(<<>>, <<<<2, -1, 0>>, <<2, 0, -1>>>>, <<<<1, 0>>, <<0, 1>>>>, <<<<o>>, <<u>>>>, omega)

lines ==
  {<<Line(c, o, <<0, 0>>), Line(d, u, w), FALSE>> : c \in 1 .. 2, d \in 0 .. 2, o, u \in 0 .. 1, w \in {<<0, 1>>, <<1, 0>>}}
symbolic ==
  {<<Symbolic(1, o, <<0, 0>>), Symbolic(d, 0, w), FALSE>> : d \in {-1, 1}, o \in -1 .. 1, w \in {<<0, 1>>, <<1, 0>>}}
squares ==
  {<<Square(c[1], c[2], o, <<0, 0, 0>>), Square(c[1], c[2], 0, w), FALSE>> :
     c \in {<<1, 0>>, <<0, 1>>, <<1, 1>>}, o \in 0 .. 1, w \in {<<0, 0, 1>>, <<0, 1, 0>>}}
    \union {<<Matrix(o, u, <<0, 0, 0>>), Matrix(0, 0, <<0, 0, 1>>), FALSE>> : o, u \in 0 .. 1}
mixed ==
  {<<Line(1, o, <<0, 0>>), Square(c[1], c[2], 0, w), FALSE>> :
     c \in {<<1, 0>>, <<0, 1>>}, o \in 0 .. 1, w \in {<<0, 1, 0>>, <<1, 0, 0>>}}
reloads == {<<z, z, TRUE>> : z \in {Line(1, 1, <<0, 0>>), Symbolic(1, 0, <<0, 0>>), Matrix(0, 0, <<0, 0, 0>>)}}

\* Each bound is strict somewhere, or no two iterations meet.
Strictly(p) ==
  LET within == {y \in Points(p) : Within(p, y)}
  IN  within = {} \/ \A i \in DOMAIN p.A : \E y \in within : Dot(p.A[i], <<1>> \o y \o Zero(Len(p.nullStep))) > 0
pairs == {p \in lines \union symbolic \union squares \union mixed : Strictly(dependence(p[1], p[2]))} \union reloads

scheduleRows ==
  {[omega |-> <<0, w>>, phi |-> <<<<i>>, <<j>>>>] : w \in 0 .. 1, i, j \in 0 .. 1}
    \union {[omega |-> <<0, 0>>, phi |-> <<f, f>>] : f \in {<<1, 0>>, <<0, 1>>}}
    \union {[omega |-> <<0, 0>>, phi |-> <<<<1>>, f>>] : f \in {<<1, 0>>, <<0, 1>>}}
shifts == {<<0, 0>>, <<0, 1>>, <<0, 0, 0, 0>>, <<0, 1, 0>>}
values == 0 .. 4
slack == 3

\* Two loops one after the other, as they are scheduled in the source.
fusions == {<<Line(1, 0, <<0, 0>>), Line(1, o, <<1, 0>>), FALSE>> : o \in 0 .. 2}
identity == {[omega |-> <<0, 0>>, phi |-> <<<<1>>, <<1>>>>]}
none == {}

MCSpec == DepInit /\ [][DepNext]_depVars
=============================================================================
