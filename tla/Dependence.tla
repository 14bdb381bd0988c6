----------------------------- MODULE Dependence -----------------------------
(***************************************************************************)
(* DependencyPolyhedra.hpp and Dependence.hpp: two accesses to one array   *)
(* become a polyhedron of the pairs of iterations that meet, that becomes  *)
(* a pair of simplices by Farkas' lemma, and these tell which access comes *)
(* first and which schedules keep the order.  An access is                 *)
(* [syms, A, C, O, omega]: the symbols of its loop nest, the bounds over   *)
(* <<1, symbols, loops>>, its subscripts as loops by dimensions and        *)
(* dimensions by <<1, symbols>>, and its place in the program.             *)
(***************************************************************************)
EXTENDS Polyhedra

CONSTANTS
  Pairs,     \* the pairs of accesses to check, and whether it is a reload
  Rows,      \* a row of a schedule for each of two accesses, [omega, phi]
  Offsets,   \* what shiftOmega moved the loops of both by
  Values,    \* what symbols and loops take in the properties
  Slack      \* the largest distance within a nest of constant bounds

VARIABLES
  pair,      \* the two accesses
  again,     \* whether the second one is a load put behind the first, a store
  deps,      \* the dependences that check returned
  asked      \* the question about one of them and its answer

depOnlyVars == <<pair, again, deps, asked>>
depVars == <<polyVars, depOnlyVars>>

getNumLoops(x) == Len(x.C)

----------------------------------------------------------------------------
(* DependencyPolyhedra.hpp: dependence.                                    *)

\* mergeMap: where the symbols of the second list are in the joint list.
Known(s, v) == \E k \in DOMAIN s : s[k] = v
mergeMap(s0, s1) ==
  [i \in DOMAIN s1 |->
     IF Known(s0, s1[i]) THEN CHOOSE k \in DOMAIN s0 : s0[k] = s1[i]
     ELSE Len(s0) + Cardinality({k \in 1 .. i : ~Known(s0, s1[k])})]
numDynSym(s0, s1) == Len(s0) + Cardinality({k \in DOMAIN s1 : ~Known(s0, s1[k])})

\* The vector of n numbers with those of u in the columns at.
Placed(u, at, n) ==
  [c \in 1 .. n |-> IF \E k \in DOMAIN at : at[k] = c THEN u[CHOOSE k \in DOMAIN at : at[k] = c] ELSE 0]

\* nullSpace: the directions in the common loops in which both stay where they are.
findFirstNonEqual(u, v) ==
  Minimum({k \in 1 .. Len(u) + 1 : k > Len(u) \/ k > Len(v)} \union {k \in DOMAIN u : k \in DOMAIN v /\ u[k] # v[k]}) - 1
NullRows(W, dims, n) == SubSeq(Columns(W, dims + 1, dims + n), numNonZeroRows(W, dims) + 1, n)
orthogonalNullSpace(M, n) ==
  IF n = 0 THEN <<>>
  ELSE orthogonalize(NullRows(solveColumns([i \in 1 .. n |-> M[i] \o Identity(n)[i]], 1, Len(M[1])), Len(M[1]), n))
timeSpace(x, y) ==
  orthogonalNullSpace([i \in 1 .. Least(getNumLoops(x), getNumLoops(y)) |-> x.C[i] \o y.C[i]],
                      findFirstNonEqual(x.omega, y.omega))

\* Columns: one, the symbols of both, the loops of both, time.
Loops(first, k) == [l \in 1 .. k |-> first + l]
subscript(z, i) == z.O[i] \o Column(z.C, i)
Minus(u, v) == Combine(1, u, -1, v)

\* y's symbols are in the columns map; inX and inY are the columns of both.
Laid(x, y, NS, numSym, inX, inY, n) ==
  [A |-> [i \in DOMAIN x.A |-> Placed(x.A[i], inX, n)] \o [i \in DOMAIN y.A |-> Placed(y.A[i], inY, n)]
           \o [k \in 1 .. getNumLoops(x) + getNumLoops(y) |-> Unit(n, numSym + k)],
   E |-> [i \in DOMAIN x.O |-> Minus(Placed(subscript(x, i), inX, n), Placed(subscript(y, i), inY, n))]
           \o [i \in DOMAIN NS |->
                 Combine(1, Minus(Placed(NS[i], Loops(numSym, Len(NS[i])), n),
                                  Placed(NS[i], Loops(numSym + getNumLoops(x), Len(NS[i])), n)),
                         1, Unit(n, n - Len(NS) + i))],
   dyn |-> getNumLoops(x) + getNumLoops(y) + Len(NS), nonNegative |-> FALSE, syms |-> numSym,
   dim0 |-> getNumLoops(x), dim1 |-> getNumLoops(y), nullStep |-> [i \in DOMAIN NS |-> Dot(NS[i], NS[i])]]
Joint(x, y, map, numSym, NS) ==
  Laid(x, y, NS, numSym,
       Loops(0, 1 + Len(x.syms)) \o Loops(numSym, getNumLoops(x)),
       <<1>> \o [k \in DOMAIN map |-> 1 + map[k]] \o Loops(numSym + getNumLoops(x), getNumLoops(y)),
       numSym + getNumLoops(x) + getNumLoops(y) + Len(NS))
dependence(x, y) ==
  Joint(x, y, mergeMap(x.syms, y.syms), 1 + numDynSym(x.syms, y.syms), timeSpace(x, y))

\* A store and the load that reads it again: the subscripts have no offsets.
WithoutOffsets(x) == [x EXCEPT !.O = [i \in DOMAIN x.O |-> Zero(1 + Len(x.syms))]]
self(x) ==
  Joint(WithoutOffsets(x), WithoutOffsets(x), mergeMap(x.syms, x.syms), 1 + Len(x.syms),
        orthogonalNullSpace(x.C, getNumLoops(x)))

----------------------------------------------------------------------------
(* farkasPair: lambda0 + lambda (A x) + mu (E x) = +-(phi_y y - phi_x x)   *)
(* + bounds, one equation per column without time.  Columns: constant,     *)
(* lambdas, two offsets, coefficients of both, bounds.                     *)

NumLambda(p) == 1 + Len(p.A) + 2 * Len(p.E)
NonTime(p) == p.syms + p.dim0 + p.dim1

farkas(p, s) ==
  LET phi(r) == [i \in 1 .. p.dim0 + p.dim1 |-> IF r = p.syms + i THEN (IF i <= p.dim0 THEN s ELSE -s) ELSE 0]
  IN  [r \in 1 .. NonTime(p) |->
         <<0, IF r = 1 THEN 1 ELSE 0>> \o Column(p.A, r) \o Column(p.E, r) \o Scaled(-1, Column(p.E, r))
           \o (IF r = 1 THEN <<s, -s>> ELSE <<0, 0>>) \o phi(r) \o Scaled(-1, Unit(p.syms, r))]

\* Mutant: the bounds of symbols stay too.
truncateNot(S, p) == S

\* truncateVars(1 + numLambda + numScheduleCoefs): the bounds of symbols are
\* dropped, the constant one stays.
truncateVars(S, p) == Columns(S, 1, 2 + NumLambda(p) + 2 + p.dim0 + p.dim1)

----------------------------------------------------------------------------
(* Dependence.hpp: which access comes first.                               *)

Unsatisfiable(sub) == ~Feasible(Augmented[Initiated(sub)].tab)

\* unSatisfiableZeroRem with the two coefficients i and j at one.
ZeroRem(S, lambdas, i, j) ==
  [r \in DOMAIN S |-> <<S[r][1] - (S[r][lambdas + 3 + i] + S[r][lambdas + 3 + j])>> \o SubSeq(S[r], 2, 1 + lambdas)]

\* The direction that both simplices agree on; an assertion stops the program
\* where neither is possible, and there is no level without an answer.
checkDirection(fxy, fyx, x, y, lambdas) ==
  LET first[i \in 1 .. Len(x.omega)] ==
        IF y.omega[i] # x.omega[i] THEN (IF y.omega[i] > x.omega[i] THEN "forward" ELSE "backward")
        ELSE IF Unsatisfiable(ZeroRem(fxy, lambdas, i, i + getNumLoops(x)))
        THEN (IF Unsatisfiable(ZeroRem(fyx, lambdas, i, i + getNumLoops(x))) THEN "neither" ELSE "backward")
        ELSE IF Unsatisfiable(ZeroRem(fyx, lambdas, i, i + getNumLoops(x))) THEN "forward"
        ELSE first[i + 1]
  IN  first[1]

Made(p, sat, bnd, in, forward) ==
  [poly |-> p, sat |-> truncateVars(sat, p), bnd |-> bnd, in |-> in, forward |-> forward]

Aborted == [ok |-> FALSE, deps |-> <<>>]
Found(list) == [ok |-> TRUE, deps |-> list]

timelessCheck(p, fw, bw, way) ==
  IF way = "neither" THEN Aborted
  ELSE IF way = "forward" THEN Found(<<Made(p, fw, bw, 1, TRUE)>>)
  ELSE Found(<<Made(p, bw, fw, 2, FALSE)>>)

\* The constants once time t has the value -step: of the polyhedron, and of the
\* multipliers that stand in the first equation.
TimeColumn(p, t) == NonTime(p) + t
AtTime(S, p, t, step) ==
  LET a == Scaled(step, Column(p.A, TimeColumn(p, t)))
      e == Scaled(step, Column(p.E, TimeColumn(p, t)))
      moved == <<0, 0>> \o a \o e \o Scaled(-1, e) \o Zero(Len(S[1]) - 1 - NumLambda(p))
  IN  [S EXCEPT ![1] = Combine(1, @, -1, moved)]
PolyAtTime(p, t, step) ==
  LET moved(M) == [i \in DOMAIN M |-> [M[i] EXCEPT ![1] = @ - step * M[i][TimeColumn(p, t)]]]
  IN  [p EXCEPT !.A = moved(@), !.E = moved(@)]

\* Mutant: time always runs forward.
SignedForward(p, t, way) == p.nullStep[t]

\* The other way round, in the direction of time that makes it so: from u to v.
Signed(p, t, way) == IF way = "forward" THEN p.nullStep[t] ELSE -p.nullStep[t]
TimeDirection(p, sat, bnd, u, v) ==
  [t \in DOMAIN p.nullStep |-> checkDirection(AtTime(sat, p, t, p.nullStep[t]), AtTime(bnd, p, t, p.nullStep[t]),
                                              u, v, NumLambda(p))]
InTime(p, back, ways) ==
  LET at[t \in 0 .. Len(ways)] ==
        IF t = 0 THEN back
        ELSE LET was == at[t - 1] IN
             [was EXCEPT !.poly = PolyAtTime(@, t, Signed(p, t, ways[t])),
                         !.sat = AtTime(@, p, t, Signed(p, t, ways[t])),
                         !.bnd = AtTime(@, p, t, Signed(p, t, ways[t]))]
  IN  at[Len(ways)]
WithTime(there, p, back, ways) ==
  IF \E t \in DOMAIN ways : ways[t] = "neither" THEN Aborted ELSE Found(<<there, InTime(p, back, ways)>>)
timeCheck(p, fw, bw, x, y, way) ==
  IF way = "neither" THEN Aborted
  ELSE IF way = "forward"
  THEN WithTime(Made(p, fw, bw, 1, TRUE), p, Made(p, bw, fw, 2, FALSE), TimeDirection(p, bw, fw, y, x))
  ELSE WithTime(Made(p, bw, fw, 2, FALSE), p, Made(p, fw, bw, 1, TRUE), TimeDirection(p, fw, bw, x, y))

Directed(p, fw, bw, x, y, way) ==
  IF p.nullStep = <<>> THEN timelessCheck(p, fw, bw, way) ELSE timeCheck(p, fw, bw, x, y, way)
Checked(p, fw, bw, x, y) == Directed(p, fw, bw, x, y, checkDirection(fw, bw, x, y, NumLambda(p)))

\* check and reload, once the bounds are pruned.  There is no dependence without
\* constraints, and no question which way round a store is loaded again.
Check ==
  /\ plan \in {"pruned", "emptied"} /\ asked.of = "nothing"
  /\ \E found \in {IF poly.A = <<>> THEN Found(<<>>)
                    ELSE IF again THEN timelessCheck(poly, farkas(poly, 1), farkas(poly, -1), "forward")
                    ELSE Checked(poly, farkas(poly, 1), farkas(poly, -1), pair[1], pair[2])} :
       /\ deps' = found.deps
       /\ plan' = IF found.ok THEN "checked" ELSE "aborted"
  /\ UNCHANGED <<original, before, left, poly, cmp, oj, oi, pair, again, asked>>

----------------------------------------------------------------------------
(* Questions of the scheduler.                                             *)

\* isSatisfied with the row d of two schedules, which is nowhere negative.
isSatisfied(D, q) ==
  ~Unsatisfiable(Fixed(D.sat, NumLambda(D.poly), q.omega \o q.phi[1] \o q.phi[2], FALSE))

Suits(q, p) == Len(q.phi[1]) = p.dim0 /\ Len(q.phi[2]) = p.dim1

IsSatisfied(D, q) ==
  /\ plan = "checked" /\ Suits(q, D.poly)
  /\ \E yes \in {isSatisfied(D, q)} : asked' = [of |-> "order", dep |-> D, row |-> q, yes |-> yes]
  /\ plan' = "answered"
  /\ UNCHANGED <<original, before, left, poly, cmp, oj, oi, pair, again, deps>>

\* Mutant: the loops move the other way.
MovedBack(M, off, first) ==
  LET by(u) == LET m[k \in 0 .. Len(off)] == IF k = 0 THEN u[1] ELSE m[k - 1] + off[k] * u[first + k] IN m[Len(off)]
  IN  [i \in DOMAIN M |-> [M[i] EXCEPT ![1] = by(M[i])]]

\* checkSat: iterations that meet and get the same row, with the loops moved.
Moved(M, off, first) ==
  LET by(u) == LET m[k \in 0 .. Len(off)] == IF k = 0 THEN u[1] ELSE m[k - 1] - off[k] * u[first + k] IN m[Len(off)]
  IN  [i \in DOMAIN M |-> [M[i] EXCEPT ![1] = by(M[i])]]
WithEquations(p, B, off, n) ==
  [A |-> Moved(Columns(p.A, 1, n), off, p.syms), E |-> SubSeq(B, 1, numNonZeroRows(B, n)),
   dyn |-> p.dim0 + p.dim1, nonNegative |-> FALSE,
   syms |-> p.syms, dim0 |-> p.dim0, dim1 |-> p.dim1, nullStep |-> <<>>]
WithRow(p, phi, off) ==
  WithEquations(p, simplifyColumns(Append(Moved(Columns(p.E, 1, NonTime(p)), off, p.syms),
                                          Zero(p.syms) \o phi[1] \o Scaled(-1, phi[2])), 1, NonTime(p)),
                off, NonTime(p))

CheckEmptySat(D, q, off) ==
  /\ plan = "checked" /\ Suits(q, D.poly) /\ Len(off) = D.poly.dim0 + D.poly.dim1
  /\ \E made \in {WithRow(D.poly, q.phi, off)} :
       IF Len(made.E) <= Len(D.poly.E)
       THEN /\ asked' = [of |-> "meeting", dep |-> D, row |-> q, off |-> off, yes |-> FALSE]
            /\ plan' = "answered" /\ UNCHANGED poly
       ELSE /\ asked' = [of |-> "meeting", dep |-> D, row |-> q, off |-> off]
            /\ plan' = "new" /\ poly' = made
  /\ UNCHANGED <<original, before, left, cmp, oj, oi, pair, again, deps>>

Answer ==
  /\ plan \in {"pruned", "emptied"} /\ asked.of = "meeting"
  /\ asked' = asked @@ [yes |-> poly.A = <<>>]
  /\ plan' = "answered"
  /\ UNCHANGED <<original, before, left, poly, cmp, oj, oi, pair, again, deps>>

Nothing == [of |-> "nothing"]
NoPair == pair = <<>> /\ again = FALSE /\ deps = <<>> /\ asked = Nothing
DepStart(p) ==
  /\ pair = <<p[1], p[2]>>
  /\ again = p[3]
  /\ PolyStart(IF p[3] THEN self(p[1]) ELSE dependence(p[1], p[2]))
  /\ deps = <<>>
  /\ asked = Nothing

DepInit == \E p \in Pairs : DepStart(p)

DepNext ==
  \/ (pruneBounds \/ Compare \/ CompareVariables) /\ UNCHANGED depOnlyVars
  \/ Check \/ Answer
  \/ \E i \in DOMAIN deps, q \in Rows : IsSatisfied(deps[i], q)
  \/ \E i \in DOMAIN deps, q \in Rows, off \in Offsets : CheckEmptySat(deps[i], q, off)

----------------------------------------------------------------------------
(* Properties.                                                             *)

\* The iterations of two accesses, with the symbols before them.
Points(p) == [1 .. NonTime(p) - 1 -> Values]
Within(p, y) ==
  LET x == <<1>> \o y \o Zero(Len(p.nullStep))
  IN  /\ \A i \in DOMAIN p.A : Dot(p.A[i], x) >= 0
      /\ \A i \in DOMAIN p.E : Dot(p.E[i], x) = 0
Iteration(p, y, a) ==
  IF a = 1 THEN SubSeq(y, p.syms, p.syms - 1 + p.dim0) ELSE SubSeq(y, p.syms + p.dim0, p.syms - 1 + p.dim0 + p.dim1)

\* Where an iteration of an access is in the program.
Placing(z, i) == [k \in 1 .. 2 * Len(i) + 1 |-> IF k % 2 = 1 THEN z.omega[(k + 1) \div 2] ELSE i[k \div 2]]
Precedes(u, v) == \E k \in DOMAIN u : k \in DOMAIN v /\ u[k] < v[k] /\ \A l \in 1 .. k - 1 : u[l] = v[l]

(* The access that a dependence calls its input comes first in the         *)
(* program wherever the two meet in different iterations of their common   *)
(* loops, and in the same one too where they meet in no other.  The second *)
(* one, in time, is for accesses that meet in one iteration.               *)
Pairing(D, y) == <<Iteration(D.poly, y, D.in), Iteration(D.poly, y, 3 - D.in)>>
Meeting(D) == {Pairing(D, y) : y \in {y \in Points(D.poly) : Within(D.poly, y)}}
Apart(m) ==
  LET n == Least(Len(m[1]), findFirstNonEqual(pair[1].omega, pair[2].omega))
  IN  SubSeq(m[1], 1, n) # SubSeq(m[2], 1, n)
Judged(meet) == IF \E m \in meet : Apart(m) THEN {m \in meet : Apart(m)} ELSE meet
Foremost(D, m) ==
  IF again THEN m[1] = m[2] ELSE Precedes(Placing(pair[D.in], m[1]), Placing(pair[3 - D.in], m[2]))
DirectionTruthful ==
  plan = "checked" =>
    \A i \in DOMAIN deps :
      (i = 1 \/ \E m \in Meeting(deps[1]) : ~Apart(m)) => \A m \in Judged(Meeting(deps[i])) : Foremost(deps[i], m)

(* isSatisfied says yes only to rows that put no iteration of the output   *)
(* before the iteration of the input it meets: "dependenceSatisfaction is  *)
(* phi_t - phi_s >= 0".                                                    *)
Distance(D, q, m) ==
  (Dot(q.phi[3 - D.in], m[2]) + q.omega[3 - D.in]) - (Dot(q.phi[D.in], m[1]) + q.omega[D.in])
Respected(slack) ==
  (plan = "answered" /\ asked.of = "order" /\ asked.yes) =>
    \A m \in Meeting(asked.dep) : Distance(asked.dep, asked.row, m) >= -slack
SatisfiedRespects == Respected(0)

(* What holds of it: the distance is bounded below by a constant, however  *)
(* large the symbols are.                                                  *)
SatisfiedUpToConstant == Respected(Slack)

(* checkSat says yes only where no two iterations that meet get the same   *)
(* value of the row.                                                       *)
EmptySatSeparates ==
  (plan = "answered" /\ asked.of = "meeting" /\ asked.yes) =>
    LET p == asked.dep.poly
        moved(m, a) == [k \in DOMAIN m |-> m[k] + asked.off[IF a = 1 THEN k ELSE p.dim0 + k]]
    IN  \A y \in Points(p) :
          Within(p, y) => Dot(asked.row.phi[1], moved(Iteration(p, y, 1), 1))
                            # Dot(asked.row.phi[2], moved(Iteration(p, y, 2), 2))
=============================================================================
