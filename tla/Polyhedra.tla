----------------------------- MODULE Polyhedra -----------------------------
(***************************************************************************)
(* Math/Polyhedra.hpp with Math/Comparators.hpp and Math/Constraints.hpp:  *)
(* inequalities A x >= 0 and equations E x = 0 over x = <<1, symbols,      *)
(* variables>>, where the variables are those of a loop nest or of a       *)
(* dependence.  A loop is eliminated, then bounds are pruned one           *)
(* comparison at a time.                                                   *)
(***************************************************************************)
EXTENDS Tableau, TLC

CONSTANTS
  Polyhedron,  \* to start from: [A, E, dyn, nonNegative]
  Reach,       \* how far points are looked for
  Halves       \* values of the loop that goes, in halves

VARIABLES
  original,    \* history: the polyhedron that came in
  before,   \* history: the one that pruneBounds was given
  left,     \* the loop that removeLoop eliminated, 0 for none
  poly,     \* the one that is worked on
  cmp,      \* its comparator
  oj, oi,   \* the two constraints that pruneBoundsCore is at, from zero
  plan

polyVars == <<original, before, left, poly, cmp, oj, oi, plan>>

----------------------------------------------------------------------------
(* Constraints.hpp.                                                        *)

\* eraseConstraint: the last row takes the place of row i.
eraseConstraint(A, i) == SubSeq([A EXCEPT ![i] = A[Len(A)]], 1, Len(A) - 1)

Without(u, v) == SubSeq(u, 1, v - 1) \o SubSeq(u, v + 1, Len(u))
NonZeroRows(A) == SelectSeq(A, LAMBDA u : ~IsZero(u))
RowsWhere(A, v, Test(_)) == SelectSeq(A, LAMBDA u : Test(u[v]))
Joined(S) == LET j[n \in 0 .. Len(S)] == IF n = 0 THEN <<>> ELSE j[n - 1] \o S[n] IN j[Len(S)]

\* Mutant: without the implicit lower bound.
fourierMotzkinNoZero(A, v, nonNegative) ==
  LET neg  == RowsWhere(A, v, LAMBDA x : x < 0)
      pos  == RowsWhere(A, v, LAMBDA x : x > 0)
      zero == RowsWhere(A, v, LAMBDA x : x = 0)
      both(u, w) == LET d == divgcd(u[v], w[v]) IN Without(Combine(d[2], u, -d[1], w), v)
  IN  NonZeroRows(Joined([i \in DOMAIN neg |-> [j \in DOMAIN pos |-> both(neg[i], pos[j])]])
                    \o [i \in DOMAIN zero |-> Without(zero[i], v)])

\* fourierMotzkinCore: each upper bound meets each lower bound of column v, and
\* zero where variables are not negative; rows that vanish are overwritten.
fourierMotzkin(A, v, nonNegative) ==
  LET neg  == RowsWhere(A, v, LAMBDA x : x < 0)
      pos  == RowsWhere(A, v, LAMBDA x : x > 0)
      zero == RowsWhere(A, v, LAMBDA x : x = 0)
      both(u, w) == LET d == divgcd(u[v], w[v]) IN Without(Combine(d[2], u, -d[1], w), v)
      bounds(u) == (IF nonNegative THEN <<Without(u, v)>> ELSE <<>>) \o [j \in DOMAIN pos |-> both(u, pos[j])]
  IN  NonZeroRows(Joined([i \in DOMAIN neg |-> bounds(neg[i])]) \o [i \in DOMAIN zero |-> Without(zero[i], v)])

\* uniqueConstraint and the erasures of removeRedundantRows, from the last row on.
uniqueConstraint(A, r) == (\A i \in 1 .. r - 1 : A[i] # A[r]) /\ ~IsZero(A[r])
Unique(A) ==
  LET z[r \in 1 .. Len(A) + 1] ==
        IF r > Len(A) THEN A
        ELSE LET B == z[r + 1] IN IF uniqueConstraint(B, r) THEN B ELSE eraseConstraint(B, r)
  IN  z[1]

\* A column of removeRedundantRows: the equations are simplified, and the
\* inequalities above them reduced.
SplitAt(W, n, next) == [A |-> SubSeq(W, 1, n), E |-> SubSeq(W, n + 1, Len(W)), next |-> next]
RedundantAt(s, k, p) ==
  SplitAt(reduceSubDiagonal(s.A \o zeroSupDiagonal(SwapRows(s.E, p, s.next), k, s.next, Len(s.E)),
                            k, Len(s.A) + s.next, 1 .. Len(s.A) + s.next - 1),
          Len(s.A), s.next + 1)
RedundantColumn(s, k) ==
  LET p == IF s.next > Len(s.E) THEN 0 ELSE PivotRow(s.E, k, s.next, Len(s.E))
  IN  IF p = 0 THEN s ELSE RedundantAt(s, k, p)

\* removeRedundantRows: from the second column on, then the first.
NonRedundant(s) == [A |-> Unique(s.A), E |-> SubSeq(s.E, 1, numNonZeroRows(s.E, Len(s.E[1])))]
removeRedundantRows(A, E) ==
  LET z[c \in 1 .. Len(E[1]) + 1] ==
        IF c = 1 THEN [A |-> A, E |-> E, next |-> 1]
        ELSE RedundantColumn(z[c - 1], IF c > Len(E[1]) THEN 1 ELSE c)
  IN  NonRedundant(z[Len(E[1]) + 1])

----------------------------------------------------------------------------
(* Comparators.hpp.                                                        *)

\* init and initNonNegative: the constant one and the variables are not negative.
Unit(n, k) == [i \in 1 .. n |-> IF i = k THEN 1 ELSE 0]
Conditions(p) ==
  LET n == Len(p.A[1])
  IN  <<Unit(n, 1)>> \o p.A \o (IF p.nonNegative THEN [i \in 1 .. p.dyn |-> Unit(n, n - p.dyn + i)] ELSE <<>>)

\* [A' E' 0; -I 0 I]
System0(p) ==
  LET ineq == Conditions(p)
      m == Len(ineq)
      top == [r \in DOMAIN p.A[1] |-> Column(ineq, r) \o Column(p.E, r) \o Zero(m)]
      slack == [k \in 1 .. m |-> Scaled(-1, Unit(m, k)) \o Zero(Len(p.E)) \o Unit(m, k)]
  IN  top \o slack

Transposed(W, n) == [j \in 1 .. n |-> Column(W, j)]

\* Where getV looks for V: behind the rows of U that the rank leaves.
Reread(U, V, R) ==
  LET memory == Joined(U) \o Joined(V)
      width == Len(V[1])
  IN  [i \in 1 .. R |-> SubSeq(memory, R * Len(U) + (i - 1) * width + 1, R * Len(U) + i * width)]

\* The comparator of a full rank, or else V and the diagonal of its system.
Elsewise(U, S, R, n) ==
  [U |-> U, V |-> Transposed(Columns(S, R + 1, R + n), n), d |-> [i \in 1 .. R |-> S[i][i]]]
OfRank(U, H, R, n) ==
  IF R = n THEN [U |-> SubSeq(U, 1, R), V |-> Reread(U, H, R), d |-> <<>>]
  ELSE Elsewise(SubSeq(U, 1, R),
                solveColumns([i \in 1 .. n |-> Column(SubSeq(H, 1, R), i) \o Unit(n, i)], 1, R), R, n)
OfPair(H, U, n) == OfRank(U, H, numNonZeroRows(H, n), n)

\* initCore: the system beside an identity, in Hermite form.
Halved(W, n) == OfPair(Columns(W, 1, n), Columns(W, n + 1, Len(W[1])), n)
OfSystem(B) ==
  Halved(simplifyColumns([i \in DOMAIN B |-> B[i] \o Unit(Len(B), i)], 1, Len(B[1])), Len(B[1]))
Comparator(p) == OfSystem(System0(p)) @@ [equations |-> Len(Conditions(p)) + Len(p.E)]

\* Mutant: the sign of a multiplier is not looked at.
DecidedUnsigned(H, equations) ==
  \A i \in equations + 1 .. Len(H) : H[i][Len(H[i])] = 0 \/ H[i][i] # 0

\* The only multipliers: none of them is negative.
Decided(H, equations) ==
  \A i \in equations + 1 .. Len(H) : LET rhs == H[i][Len(H[i])] IN rhs = 0 \/ (rhs > 0) = (H[i][i] > 0)

\* greaterEqualFullRank.
fullRank(C, b) ==
  Decided(solveColumns([i \in DOMAIN C.V |-> C.V[i] \o <<b[i]>>], 1, Len(C.V[1]) + 1), C.equations)

\* greaterEqualRankDeficient: the simplex looks for such multipliers.
Multiplier(u, c, D, R) ==
  LET free == SubSeq(u, R + 1, Len(u))
  IN  <<Dot(SubSeq(u, 1, R), c)>> \o Scaled(-D, free) \o Scaled(D, free)
Multipliers(C, b, D) ==
  LET c == [i \in DOMAIN b |-> b[i] * Quotient(D, C.d[i])]
  IN  [i \in 1 .. Len(C.V) - C.equations |-> Multiplier(C.V[C.equations + i], c, D, Len(C.d))]
rankDeficient(C, b) == positiveVariables(Multipliers(C, b, lcmOf(C.d)))

Provable(C, b) == IF C.d # <<>> THEN rankDeficient(C, b) ELSE fullRank(C, b)
greaterEqual(C, q) == Provable(C, [i \in DOMAIN C.U |-> Dot(SubSeq(C.U[i], 1, Len(q)), q)])
isEmpty(C) == Provable(C, [i \in DOMAIN C.U |-> -C.U[i][1]])

----------------------------------------------------------------------------
(* removeLoop of AffineLoopNest, then pruneBounds.                         *)

\* Columns are counted from one: the constant, then the symbols.
removeLoop(v) ==
  LET c == Len(poly.A[1]) - poly.dyn + v
  IN  /\ plan = "new" /\ poly.E = <<>> /\ poly.dyn > 1 /\ v <= poly.dyn
      /\ poly' = [poly EXCEPT !.A = fourierMotzkin(@, c, poly.nonNegative), !.dyn = @ - 1]
      /\ left' = c
      /\ plan' = "prune"
      /\ UNCHANGED <<original, before, cmp, oj, oi>>

\* The outer loop goes on below j.
Outer(j) ==
  /\ IF j = 0 THEN plan' = "pruned" ELSE plan' = "compare"
  /\ oj' = j - 1
  /\ oi' = j - 1

Idle == <<>>

\* The equations make rows redundant and are divided by what they have in common.
DividedByGCD(u) == LET g == gcdOf(u) IN [k \in DOMAIN u |-> Quotient(u[k], g)]
WithRows(p, rows) == [p EXCEPT !.A = rows.A, !.E = [i \in DOMAIN rows.E |-> DividedByGCD(rows.E[i])]]
Simplified(p) == IF p.E = <<>> THEN p ELSE WithRows(p, removeRedundantRows(p.A, p.E))

\* pruneBoundsCore up to its loops.
pruneBounds ==
  /\ plan \in {"new", "prune"}
  /\ before' = poly
  /\ UNCHANGED <<original, left>>
  /\ IF poly.A = <<>> THEN plan' = "pruned" /\ UNCHANGED <<poly, cmp, oj, oi>>
     ELSE \E p \in {Simplified(poly)} : \E C \in {Comparator(p)} :
            IF isEmpty(C)
            THEN /\ poly' = [p EXCEPT !.A = <<>>, !.E = <<>>]
                 /\ plan' = "emptied"
                 /\ UNCHANGED <<cmp, oj, oi>>
            ELSE poly' = p /\ cmp' = C /\ Outer(Len(p.A))

\* Constraint i goes, and the comparator is made anew.  With the last one gone
\* nothing is compared any more.
Erase(i) ==
  /\ poly' = [poly EXCEPT !.A = eraseConstraint(@, i + 1)]
  /\ \E C \in {IF Len(poly.A) = 1 THEN cmp ELSE Comparator(poly')} : cmp' = C

Compare ==
  LET i == oi - 1
      diff == Combine(1, poly.A[i + 1], -1, poly.A[oj + 1])
  IN  /\ plan = "compare" /\ oi > 0
      /\ UNCHANGED <<original, before, left>>
      /\ IF Len(poly.A) <= 1 THEN plan' = "pruned" /\ UNCHANGED <<poly, cmp, oj, oi>>
         ELSE IF greaterEqual(cmp, diff)
         THEN Erase(i) /\ oj' = oj - 1 /\ oi' = i /\ UNCHANGED plan
         ELSE IF greaterEqual(cmp, Scaled(-1, diff)) THEN Erase(oj) /\ Outer(oj)
         ELSE oi' = i /\ UNCHANGED <<poly, cmp, oj, plan>>

\* A bound that follows from a variable that is not negative.
CompareVariables ==
  LET u == poly.A[oj + 1]
      implied == \E v \in 1 .. poly.dyn : greaterEqual(cmp, [u EXCEPT ![Len(u) + 1 - v] = @ - 1])
  IN  /\ plan = "compare" /\ oi = 0
      /\ IF poly.nonNegative /\ implied THEN Erase(oj) ELSE UNCHANGED <<poly, cmp>>
      /\ Outer(oj)
      /\ UNCHANGED <<original, before, left>>

PolyStart(p) ==
  /\ poly = p
  /\ original = poly
  /\ before = poly
  /\ left = 0
  /\ cmp = Idle
  /\ oj = 0 /\ oi = 0
  /\ plan = "new"

PolyInit == \E p \in Polyhedron : PolyStart(p)

PolyNext ==
  \/ \E v \in 1 .. 2 : removeLoop(v)
  \/ pruneBounds \/ Compare \/ CompareVariables

----------------------------------------------------------------------------
(* Properties.                                                             *)

Grid(p) == [1 .. Len(original.A[1]) - 1 - (original.dyn - p.dyn) -> Reach]
Holds(p, y) ==
  LET x == <<1>> \o y
  IN  /\ \A i \in DOMAIN p.A : Dot(p.A[i], x) >= 0
      /\ \A i \in DOMAIN p.E : Dot(p.E[i], x) = 0
      /\ p.nonNegative => \A k \in Len(x) - p.dyn + 1 .. Len(x) : x[k] >= 0

(* Pruning a bound never lets a point in that was not there: each bound    *)
(* that goes follows from those that stay.  Polyhedra that say more are    *)
(* those of dependences, with properties of their own.                     *)
PrunedSame ==
  DOMAIN original = {"A", "E", "dyn", "nonNegative"} =>
    IF plan = "emptied" THEN \A y \in Grid(before) : ~Holds(before, y)
    ELSE plan = "pruned" => \A y \in Grid(poly) : Holds(poly, y) = Holds(before, y)

(* removeLoop leaves the bounds of the loops around: a point is within     *)
(* them exactly when some value of the loop that went, a half or a whole   *)
(* number here, is within the nest.                                        *)
Shadow ==
  left # 0 /\ plan = "prune" =>
    LET inserted(y, h) == SubSeq(y, 1, left - 2) \o <<h>> \o SubSeq(y, left - 1, Len(y))
        within(y, h) ==
          LET x == <<2>> \o inserted(Scaled(2, y), h)
          IN  /\ \A i \in DOMAIN original.A : Dot(original.A[i], x) >= 0
              /\ original.nonNegative => \A k \in Len(x) - original.dyn + 1 .. Len(x) : x[k] >= 0
    IN  \A y \in Grid(poly) : Holds(poly, y) = \E h \in Halves : within(y, h)

(* Neither operation on a polyhedron adds or loses a point.                *)
PointsKept == PrunedSame /\ Shadow
=============================================================================
