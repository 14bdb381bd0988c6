---------------------------- MODULE MCAlgorithms ----------------------------
(***************************************************************************)
(* The algorithms on numbers and matrices, each on its own: part says      *)
(* which one runs, and the others stay at a problem of one number.         *)
(***************************************************************************)
EXTENDS Numbers, NormalForm, MCSimplex, MCDependence, MCLoopNest, MCStronglyConnected

VARIABLE part

operands == {<<0, 1>>, <<1, 1>>, <<-2, 1>>, <<3, 2>>, <<-5, 3>>, <<7, 4>>, <<-1, 7>>}
coefs == {-6, -3, 0, 4, 5}
equations == (-4 .. 4) \X ((coefs \X coefs \X coefs) \union (coefs \X coefs) \union {<<c>> : c \in coefs})

Matrices(m, n, S) == [1 .. m -> [1 .. n -> S]]
matrices ==
  Matrices(2, 3, {-2, 0, 3}) \union Matrices(3, 2, {-2, 0, 3}) \union Matrices(2, 2, {-3, -2, 0, 1, 4})
    \union {W \in Matrices(3, 3, {-1, 0, 2}) : W[3][1] = 2 /\ W[1][2] = -1 /\ W[2][3] = 0}
problems == {"hermite", "solve", "orthogonalize"} \X matrices

P(A, E, dyn, nonNegative) == [A |-> A, E |-> E, dyn |-> dyn, nonNegative |-> nonNegative]
\* Bounds of two loops; of two loops and a symbol; on two variables of a dependence.
rows == ({-2, 0, 3} \X (-1 .. 0 \union {2}) \X (-1 .. 1)) \ {<<0, 0, 0>>, <<-2, 0, 0>>, <<3, 0, 0>>}
few == {<<3, -1, 0>>, <<2, 0, -1>>, <<0, 1, -1>>, <<-1, 0, 1>>, <<4, -1, -1>>, <<-1, 1, 0>>}
sym == {<<-1, 1, -1, 0>>, <<-1, 1, 0, -1>>, <<0, 0, -1, 1>>, <<-1, 1, 0, 0>>, <<-2, 1, -1, -1>>}
\* A dependence keeps the lower bounds of its variables as rows.
positive == <<<<0, 0, 1, 0>>, <<0, 0, 0, 1>>>>
eqs == {<<1, 0, 1, -1>>, <<0, 0, 1, -2>>}
candidates ==
  {P(A, <<>>, 2, TRUE) : A \in rows \X few}
    \union {P(A, <<>>, 2, nn) : A \in few \X few \X {<<3, -1, 0>>, <<0, 1, -1>>, <<-1, 0, 1>>}, nn \in BOOLEAN}
    \union {P(A, <<>>, 2, TRUE) : A \in sym \X sym \X {<<-1, 1, -1, 0>>, <<0, 0, -1, 1>>, <<-1, 1, 0, 0>>}}
    \union {P(<<u, w>> \o positive, <<e>>, 2, FALSE) : u \in sym, w \in sym, e \in eqs}
\* In halves: a point strictly within, or no point at all.
Strict(p, y) ==
  LET x == <<2>> \o y
  IN  /\ \A i \in DOMAIN p.A : Dot(p.A[i], x) > 0
      /\ \A i \in DOMAIN p.E : Dot(p.E[i], x) = 0
      /\ p.nonNegative => \A k \in Len(x) - 1 .. Len(x) : x[k] > 0
Loose(p, y) ==
  LET x == <<2>> \o y
  IN  /\ \A i \in DOMAIN p.A : Dot(p.A[i], x) >= 0
      /\ \A i \in DOMAIN p.E : Dot(p.E[i], x) = 0
      /\ p.nonNegative => \A k \in Len(x) - 1 .. Len(x) : x[k] >= 0
Width(p) == Len(p.A[1]) - 1
polyhedra ==
  {p \in candidates : \/ \E y \in [1 .. Width(p) -> -1 .. 7] : Strict(p, y)
                      \/ ~\E y \in [1 .. Width(p) -> -3 .. 9] : Loose(p, y)}
reach == -1 .. 3
halves == -24 .. 24

vars == <<part, numVars, formVars, simVars, depVars, nestVars, sccVars>>

Init ==
  /\ part \in {"Numbers", "NormalForm", "Simplex", "Polyhedra", "Dependence", "LoopNest",
              "StronglyConnected"}
  /\ NumInit
  /\ IF part = "NormalForm" THEN FormInit ELSE FormStart(<<"hermite", <<<<1>>>>>>)
  /\ IF part = "Simplex" THEN SimInit ELSE CreateTableau(<<<<1, 1>>>>, <<>>)
  /\ IF part = "Dependence" THEN DepInit ELSE NoPair
  /\ IF part = "LoopNest" THEN NestInit ELSE NestIdle
  /\ IF part = "StronglyConnected" THEN SccInit ELSE SccStart([v \in Node |-> {}], {})
  /\ part # "Dependence" /\ part # "LoopNest" =>
       IF part = "Polyhedra" THEN PolyInit ELSE PolyStart(P(<<<<1, 1>>>>, <<>>, 1, TRUE))

Next ==
  /\ UNCHANGED part
  /\ \/ /\ part = "Numbers" /\ NumNext
        /\ UNCHANGED <<formVars, simVars, depVars, nestVars, sccVars>>
     \/ /\ part = "NormalForm" /\ FormNext
        /\ UNCHANGED <<numVars, simVars, depVars, nestVars, sccVars>>
     \/ /\ part = "Simplex" /\ SimNext
        /\ UNCHANGED <<numVars, formVars, depVars, nestVars, sccVars>>
     \/ /\ part = "Polyhedra" /\ PolyNext
        /\ UNCHANGED <<numVars, formVars, simVars, depOnlyVars, nestVars, sccVars>>
     \/ /\ part = "Dependence" /\ DepNext
        /\ UNCHANGED <<numVars, formVars, simVars, nestVars, sccVars>>
     \/ /\ part = "LoopNest" /\ NestNext
        /\ UNCHANGED <<numVars, formVars, simVars, depOnlyVars, sccVars>>
     \/ /\ part = "StronglyConnected" /\ SccNext
        /\ UNCHANGED <<numVars, formVars, simVars, depVars, nestVars>>

\* The search goes on until it returns.
Spec == Init /\ [][Next]_vars /\ WF_vars(part = "StronglyConnected" /\ Next)
=============================================================================
