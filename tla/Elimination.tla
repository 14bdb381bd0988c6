---------------------------- MODULE Elimination ----------------------------
(***************************************************************************)
(* The row operations of Math/NormalForm.hpp.  A pair of matrices that is  *)
(* changed together is one matrix here, the second to the right.           *)
(***************************************************************************)
EXTENDS Gcd

gcdxScale(a, b) == IF constexpr_abs(a) = 1 THEN <<a, 0, a, b>> ELSE Tail(dgcdx(a, b))

\* The first row from r on with something in column c; 0 if there is none.
PivotRow(W, c, r, m) ==
  LET rows == {i \in r .. m : W[i][c] # 0}
  IN  IF rows = {} THEN 0 ELSE CHOOSE i \in rows : \A k \in rows : i <= k

\* Mutant: the row below is not divided by what both have in common.
zeroRowScaledNot(s, V, c, r, j) ==
  [i \in DOMAIN V |->
     IF V[j][c] = 0 \/ i \notin {r, j} THEN V[i]
     ELSE IF i = r THEN Combine(s[1], V[r], s[2], V[j]) ELSE Combine(V[r][c], V[j], -V[j][c], V[r])]

\* Row j is zeroed at column c, which leaves the divisor of both in row r; s
\* is what gcdxScale says of the two.
zeroRow(s, V, c, r, j) ==
  [i \in DOMAIN V |->
     IF V[j][c] = 0 \/ i \notin {r, j} THEN V[i]
     ELSE IF i = r THEN Combine(s[1], V[r], s[2], V[j]) ELSE Combine(s[3], V[j], -s[4], V[r])]

Zeroing(V, c, r, j) == zeroRow(gcdxScale(V[r][c], V[j][c]), V, c, r, j)

\* zeroSupDiagonal: zeroes in the column below row r, up to row m.
zeroSupDiagonal(W, c, r, m) ==
  LET z[j \in r .. m] == IF j = r THEN W ELSE Zeroing(z[j - 1], c, r, j) IN z[m]

Positive(W, c, r) == [i \in DOMAIN W |-> IF i = r /\ W[r][c] < 0 THEN Scaled(-1, W[r]) ELSE W[i]]

\* The quotient that leaves a remainder that is not negative.
FloorQuotient(x, d) == LET q == Quotient(x, d) IN IF x < 0 /\ x # q * d THEN q - 1 ELSE q

\* Mutant: the quotient is rounded towards zero.
reduceTowardsZero(W, c, r, rows) ==
  LET V == Positive(W, c, r)
  IN  [i \in DOMAIN V |->
         IF i \in rows THEN Combine(1, V[i], -Quotient(V[i][c], V[r][c]), V[r]) ELSE V[i]]

\* reduceSubDiagonal, and reduceSubDiagonalStack with rows of another matrix:
\* what is above the pivot becomes smaller than it.
reduceSubDiagonal(W, c, r, rows) ==
  LET V == Positive(W, c, r)
  IN  [i \in DOMAIN V |->
         IF i \in rows THEN Combine(1, V[i], -FloorQuotient(V[i][c], V[r][c]), V[r]) ELSE V[i]]

\* zeroColumn and zeroColumnPair: the rows above the pivot are zeroed by
\* scaling them, those below as in zeroSupDiagonal.
Cancelled(u, w, c, g) == Combine(Quotient(w[c], g), u, -Quotient(u[c], g), w)
zeroColumn(W, c, r) ==
  zeroSupDiagonal(
    [i \in DOMAIN W |->
       IF i < r /\ W[i][c] # 0 THEN Cancelled(W[i], W[r], c, gcd(W[r][c], W[i][c])) ELSE W[i]],
    c, r, Len(W))

numNonZeroRows(W, n) ==
  LET rows == {i \in DOMAIN W : ~IsZero(SubSeq(W[i], 1, n))}
  IN  IF rows = {} THEN 0 ELSE CHOOSE i \in rows : \A k \in rows : k <= i

\* A column of solveSystem, and of simplifySystemsImpl: the matrix and the next row.
solveColumn(W, c, r) ==
  LET p == IF r > Len(W) THEN 0 ELSE PivotRow(W, c, r, Len(W))
  IN  IF p = 0 THEN [matrix |-> W, next |-> r]
      ELSE [matrix |-> zeroColumn(SwapRows(W, p, r), c, r), next |-> r + 1]

simplifyColumn(W, c, r) ==
  LET p == IF r > Len(W) THEN 0 ELSE PivotRow(W, c, r, Len(W))
      V == zeroSupDiagonal(SwapRows(W, p, r), c, r, Len(W))
  IN  IF p = 0 THEN [matrix |-> W, next |-> r]
      ELSE [matrix |-> reduceSubDiagonal(V, c, r, 1 .. r - 1), next |-> r + 1]

solveColumns(W, from, to) ==
  LET z[c \in from - 1 .. to] ==
        IF c = from - 1 THEN [matrix |-> W, next |-> 1]
        ELSE LET before == z[c - 1] IN solveColumn(before.matrix, c, before.next)
      last == z[to]
  IN  last.matrix

simplifyColumns(W, from, to) ==
  LET z[c \in from - 1 .. to] ==
        IF c = from - 1 THEN [matrix |-> W, next |-> 1]
        ELSE LET before == z[c - 1] IN simplifyColumn(before.matrix, c, before.next)
      last == z[to]
  IN  last.matrix

\* zeroWithRowOp on row u with row w: the row, and the factor of its cost.
Divided(v, f, h) ==
  IF h > 1 THEN [row |-> [l \in DOMAIN v |-> Quotient(v[l], h)], factor |-> Quotient(f, h)]
  ELSE [row |-> v, factor |-> f]
Reduced(v, f) == Divided(v, f, gcd(gcdOf(v), f))
Replacing(u, w, k, f, g) == Reduced(Cancelled(u, w, k, g), f * Quotient(w[k], g))
zeroWithRowOp(u, w, k, f) ==
  IF u[k] = 0 THEN [row |-> u, factor |-> f] ELSE Replacing(u, w, k, f, gcd(u[k], w[k]))

\* orthogonalize: each row less its projections on the ones before it, in the
\* smallest integers.  A row that vanishes is met again only with zeroes.
orthogonalize(A) ==
  LET rows[i \in 0 .. Len(A)] ==
        IF i = 0 THEN <<>>
        ELSE LET O == rows[i - 1]
                 norm(j) == LET d == Dot(O[j], O[j]) IN IF d = 0 THEN 1 ELSE d
                 D[j \in 0 .. i - 1] == IF j = 0 THEN 1 ELSE D[j - 1] * norm(j)
                 less[j \in 0 .. i - 1] ==
                   IF j = 0 THEN Scaled(D[i - 1], A[i])
                   ELSE Combine(1, less[j - 1], -Dot(A[i], O[j]) * (D[i - 1] \div norm(j)), O[j])
                 g == gcd(gcdOf(less[i - 1]), D[i - 1])
             IN  Append(O, IF i = 1 THEN normalizeByGCD(A[1])
                           ELSE [k \in DOMAIN A[i] |-> Quotient(less[i - 1][k], g)])
  IN  IF A = <<>> THEN A ELSE IF Len(A[1]) < 2 THEN A ELSE rows[Len(A)]
=============================================================================
