----------------------------- MODULE NormalForm -----------------------------
(***************************************************************************)
(* Math/NormalForm.hpp and Math/Orthogonalize.hpp: integer elimination,    *)
(* column by column.  The second matrix of a pair, which mirrors every row *)
(* operation, is kept to the right of the first one.                       *)
(***************************************************************************)
EXTENDS Elimination, FiniteSets

CONSTANT Problem  \* what is asked, as <<job, matrix>>

VARIABLES
  job,      \* "hermite", "solve" or "orthogonalize"
  given,    \* the matrix that came in
  work,     \* the pair of matrices
  active,   \* the number of columns of the first one, N
  pivot,    \* the next row, r
  col,      \* the next column, c
  kept,     \* the columns that orthogonalizeBang included
  stage     \* "columns", then "done"

formVars == <<job, given, work, active, pivot, col, kept, stage>>

M == Len(given)

ColumnsDone == col > active \/ pivot > M

StepsTo(result) ==
  /\ stage = "columns" /\ ~ColumnsDone
  /\ \E made \in {result} : work' = made.matrix /\ pivot' = made.next
  /\ col' = col + 1
  /\ UNCHANGED <<job, given, active, kept, stage>>

\* simplifySystemImpl and simplifySystemsImpl, which hermite calls.
SimplifyColumn == job = "hermite" /\ StepsTo(simplifyColumn(work, col, pivot))

\* solveSystem.
SolveColumn == job = "solve" /\ StepsTo(solveColumn(work, col, pivot))

\* A column is taken out of the first matrix, the ones behind it move up.
dropCol(W, i) ==
  [m \in DOMAIN W |-> [n \in DOMAIN W[m] |-> IF i <= n /\ n < active THEN W[m][n + 1] ELSE W[m][n]]]

Unimodular(x) == constexpr_abs(x) = 1

\* orthogonalizeBang: as many columns as keep the transform unimodular.  What
\* is in the columns that were dropped does not matter any more.
OrthogonalizeColumn ==
  LET p == PivotRow(work, pivot, pivot, M)
      W == zeroSupDiagonal(SwapRows(work, p, pivot), pivot, pivot, M)
      takes == p # 0 /\ Unimodular(W[pivot][pivot])
      V == Positive(W, pivot, pivot)
  IN  /\ job = "orthogonalize" /\ stage = "columns"
      /\ pivot <= Least(M, active)
      /\ IF takes
         THEN /\ work' = [i \in DOMAIN V |->
                            IF i < pivot THEN Combine(1, V[i], -V[i][pivot], V[pivot]) ELSE V[i]]
              /\ kept' = Append(kept, col)
              /\ pivot' = pivot + 1
              /\ UNCHANGED active
         ELSE /\ work' = dropCol(IF p = 0 THEN work ELSE W, pivot)
              /\ active' = active - 1
              /\ UNCHANGED <<kept, pivot>>
      /\ col' = col + 1
      /\ UNCHANGED <<job, given, stage>>

Done ==
  /\ stage = "columns"
  /\ IF job = "orthogonalize" THEN pivot > Least(M, active) ELSE ColumnsDone
  /\ stage' = "done"
  /\ UNCHANGED <<job, given, work, active, pivot, col, kept>>

Formed == Columns(work, 1, active)
Second == Columns(work, Len(given[1]) + 1, Len(given[1]) + M)

\* nullSpace: the rows of the second matrix whose first part is zero; all of
\* them when no row is left.
nullSpace == SubSeq(Second, numNonZeroRows(work, active) + 1, M)

\* scaledInv: the inverse of a square matrix times the common denominator.
\* Numbers of one are left out of the least common multiple's loop.
Diagonal == [i \in 1 .. M |-> work[i][i]]
scaledInv ==
  LET s == lcmOf(Diagonal) IN <<[i \in 1 .. M |-> Scaled(Quotient(s, work[i][i]), Second[i])], s>>

FormStart(p) ==
  /\ job = p[1]
  /\ given = p[2]
  /\ work = [i \in DOMAIN p[2] |-> p[2][i] \o Identity(Len(p[2]))[i]]
  /\ active = Len(p[2][1])
  /\ pivot = 1 /\ col = 1 /\ kept = <<>> /\ stage = "columns"

FormInit == \E p \in Problem : FormStart(p)

FormNext == SimplifyColumn \/ SolveColumn \/ OrthogonalizeColumn \/ Done

----------------------------------------------------------------------------
(* Properties.                                                             *)

Det[N \in Seq(Seq(Int))] ==
  LET n == Len(N)
      minor(j) == [i \in 1 .. n - 1 |-> [k \in 1 .. n - 1 |-> N[i + 1][IF k < j THEN k ELSE k + 1]]]
      sum[j \in 0 .. n] ==
        IF j = 0 THEN 0 ELSE sum[j - 1] + (IF j % 2 = 1 THEN 1 ELSE -1) * N[1][j] * Det[minor(j)]
  IN  IF n = 0 THEN 1 ELSE sum[n]

\* The columns of the given matrix that the first one stands for now.
Standing ==
  IF job # "orthogonalize" THEN given
  ELSE [i \in DOMAIN given |-> [k \in 1 .. active |->
          IF k <= Len(kept) THEN given[i][kept[k]] ELSE given[i][col + k - Len(kept) - 1]]]

(* The second matrix is at every step the transform that makes the first   *)
(* one out of what was given, and can be undone: by integers for hermite   *)
(* and orthogonalize, whose result the schedule of a loop nest is.         *)
Mirrored ==
  /\ Formed = Times(Second, Standing)
  /\ IF job = "solve" THEN Det[Second] # 0 ELSE constexpr_abs(Det[Second]) = 1

\* The column of the first number of a row.
Leading(W, i) == CHOOSE c \in DOMAIN W[i] : W[i][c] # 0 /\ \A k \in 1 .. c - 1 : W[i][k] = 0

(* What comes out has the shape that its name promises: a staircase with   *)
(* positive pivots and smaller numbers above them for hermite, pivots that *)
(* stand alone in their columns for solve, an identity for orthogonalize;  *)
(* the null space and the scaled inverse read off it are right, and the    *)
(* rows of the orthogonal null space are at right angles.                  *)
Shaped ==
  stage = "done" =>
    LET rows == 1 .. pivot - 1
        lead(i) == Leading(Formed, i)
        null == nullSpace
        orth == orthogonalize(null)
    IN  IF job = "orthogonalize"
        THEN \A i \in 1 .. M, k \in 1 .. Len(kept) : Formed[i][k] = IF i = k THEN 1 ELSE 0
        ELSE /\ \A i \in 1 .. M : (i >= pivot) = IsZero(Formed[i])
             /\ \A i, k \in rows : i < k => lead(i) < lead(k)
             /\ \A i \in rows, k \in 1 .. M : k > i => Formed[k][lead(i)] = 0
             /\ job = "hermite" =>
                  \A i \in rows : /\ Formed[i][lead(i)] > 0
                                  /\ \A k \in 1 .. i - 1 : Formed[k][lead(i)] \in 0 .. Formed[i][lead(i)] - 1
             /\ job = "solve" =>
                  /\ \A i, k \in rows : k < i => Formed[k][lead(i)] = 0
                  /\ \A i \in DOMAIN null : IsZero(Times(null, given)[i])
                  /\ Len(null) = M - Cardinality(rows)
                  /\ \A i, k \in DOMAIN orth : i # k => Dot(orth[i], orth[k]) = 0
                  /\ \A i \in DOMAIN orth : ~IsZero(orth[i]) /\ IsZero(Times(orth, given)[i])
                  /\ (pivot = M + 1 /\ Len(given[1]) = M) =>
                       Times(scaledInv[1], given) = [i \in 1 .. M |-> Scaled(scaledInv[2], Identity(M)[i])]

(* The result has the promised shape and is the transform of what was      *)
(* given.                                                                  *)
FormReached == Mirrored /\ Shaped
=============================================================================
