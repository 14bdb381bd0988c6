------------------------------ MODULE MatrixOps ------------------------------
(***************************************************************************)
(* Resizing and erasing in the matrices of Math/Array.hpp.  The elements   *)
(* lie row by row in one buffer, a stride apart: DenseDims has a stride of *)
(* the number of columns, StridedDims one of its own.  Each operation      *)
(* moves elements within the buffer or into a larger one.                  *)
(***************************************************************************)
EXTENDS Integers

CONSTANTS
  MaxRow, MaxCol,
  Shape,   \* the numbers of rows and columns that are asked for
  NoData   \* what is in memory that nobody wrote

ASSUME MatrixAssumption ==
  MaxRow \in Nat /\ MaxCol \in Nat /\ Shape \subseteq (0 .. MaxRow) \X (0 .. MaxCol)

VARIABLES
  isDense, \* DenseDims or StridedDims
  dims,   \* rows, columns and stride
  buf,    \* the elements, one for each of the capacity
  intact  \* history: no call met a case that the code does not handle

matVars == <<isDense, dims, buf, intact>>

capacity == IF buf = <<>> THEN 0 ELSE 1 + (CHOOSE a \in DOMAIN buf : \A b \in DOMAIN buf : b <= a)
Buf(n, at(_)) == [a \in 0 .. n - 1 |-> at(a)]
Fetch(a) == IF a \in DOMAIN buf THEN buf[a] ELSE NoData
At(r, c) == Fetch(r * dims.x + c)

Smaller(a, b) == IF a < b THEN a ELSE b
Larger(a, b) == IF a > b THEN a ELSE b

\* DenseDims{m, n}, or StridedDims with at least the stride it had.
Dims(m, n) == [m |-> m, n |-> n, x |-> IF isDense THEN n ELSE Larger(dims.x, n)]

\* Which row and column of dimensions d an address holds.
RowOf(a, d) == a \div d.x
ColOf(a, d) == a % d.x

\* Mutant: the rows that were not there before are not cleared.
FilledForwardNot(d, a, base) ==
  LET r == RowOf(a, d)  c == ColOf(a, d)
  IN  IF r >= d.m \/ c >= d.n THEN base ELSE IF c < dims.n THEN At(r, c) ELSE 0

\* Every row is moved, the columns beyond the old ones and the rows beyond the
\* old ones are cleared; the stride gets smaller or the buffer is another one.
FilledForward(d, a, base) ==
  LET r == RowOf(a, d)  c == ColOf(a, d)
  IN  IF r >= d.m \/ c >= d.n THEN base ELSE IF r < dims.m /\ c < dims.n THEN At(r, c) ELSE 0

\* In place with a larger stride, from the last row down: the loop starts one
\* row too far and leaves out rows 1 and 0.
FilledBackward(d, a, base) ==
  LET r == RowOf(a, d)  c == ColOf(a, d)
      kept == Smaller(dims.m, d.m)
  IN  IF c >= d.n THEN base
      ELSE IF dims.m <= r /\ r < d.m THEN 0
      ELSE IF 1 <= r /\ r <= kept /\ c >= dims.n THEN 0
      ELSE IF 2 <= r /\ r <= kept THEN At(r, c)
      ELSE base

\* ReallocView::resize.
ResizeMatrix(m, n) ==
  LET d        == Dims(m, n)
      len      == d.m * d.x
      newAlloc == len > capacity
      forward  == d.x <= dims.x \/ newAlloc
      kept     == Smaller(dims.m, d.m)
      at(a)    == IF forward THEN FilledForward(d, a, IF newAlloc THEN NoData ELSE buf[a])
                  ELSE FilledBackward(d, a, buf[a])
  IN  /\ dims' = d
      /\ buf' = IF len = 0 THEN buf ELSE Buf(IF newAlloc THEN len ELSE capacity, at)
      /\ intact' = (intact /\ (len = 0 \/ forward \/ kept = 0 \/ (kept = 1 /\ d.n <= dims.n)))
      /\ UNCHANGED isDense

\* resizeForOverwrite: the old buffer is freed before the larger one is made.
\* What the elements are then is as good as never written.
OverwriteMatrix(m, n) ==
  LET d == Dims(m, n)
      none(a) == NoData
  IN  /\ dims' = d
      /\ buf' = Buf(IF d.m * d.x > capacity THEN d.m * d.x ELSE capacity, none)
      /\ UNCHANGED <<isDense, intact>>

\* The client writes a number of its own into every element, once.
Assign ==
  /\ \A a \in DOMAIN buf : buf[a] \in {NoData, 0}
  /\ buf' = [a \in DOMAIN buf |->
               IF dims.x > 0 /\ RowOf(a, dims) < dims.m /\ ColOf(a, dims) < dims.n
               THEN 1 + RowOf(a, dims) * MaxCol + ColOf(a, dims) ELSE buf[a]]
  /\ UNCHANGED <<isDense, dims, intact>>

\* reserve copies the whole rows, padding included.
ReserveMatrix(m, n) ==
  LET len == m * Dims(m, n).x
      at(a) == IF a < dims.m * dims.x THEN Fetch(a) ELSE NoData
  IN  /\ len > capacity
      /\ buf' = Buf(len, at)
      /\ UNCHANGED <<isDense, dims, intact>>

\* MutArray::truncate: the rows of a dense matrix move together.
TruncateMatrix(m, n) ==
  LET d == [m |-> m, n |-> n, x |-> IF isDense THEN n ELSE dims.x]
      moves == isDense /\ n > 0 /\ n # dims.n
      at(a) == IF moves /\ RowOf(a, d) < m THEN At(RowOf(a, d), ColOf(a, d)) ELSE buf[a]
  IN  /\ m <= dims.m /\ n <= dims.n
      /\ dims' = d
      /\ buf' = IF buf = <<>> THEN buf ELSE Buf(capacity, at)
      /\ UNCHANGED <<isDense, intact>>

LastMoved(k) == dims.m - 1

\* erase(Row): the elements behind the row move down by a row.
EraseRow(k) ==
  LET at(a) == IF k * dims.x <= a /\ a < LastMoved(k) * dims.x THEN Fetch(a + dims.x) ELSE Fetch(a)
  IN  /\ k < dims.m
      /\ dims' = [dims EXCEPT !.m = @ - 1]
      /\ buf' = IF dims.n = 0 \/ k = dims.m - 1 THEN buf ELSE Buf(capacity, at)
      /\ UNCHANGED <<isDense, intact>>

\* erase(Col): in each row the columns behind it move down by one.  A dense
\* matrix also gets a smaller stride, and only those columns are moved to it;
\* when the last column is erased nothing is moved at all.
EraseCol(k) ==
  LET d == [dims EXCEPT !.n = @ - 1, !.x = IF isDense THEN @ - 1 ELSE @]
      at(a) == IF d.x > 0 /\ RowOf(a, d) < dims.m /\ ColOf(a, d) >= k /\ ColOf(a, d) < d.n
               THEN Fetch(RowOf(a, d) * dims.x + ColOf(a, d) + 1)
               ELSE Fetch(a)
  IN  /\ k < dims.n
      /\ dims' = d
      /\ buf' = IF k = dims.n - 1 \/ dims.m = 0 THEN buf ELSE Buf(capacity, at)
      /\ intact' = (intact /\ (~isDense \/ dims.m <= 1 \/ k = 0))
      /\ UNCHANGED isDense

\* moveLast: column k becomes the last one, the others keep their order.
MoveLast(k) ==
  LET at(a) ==
        LET r == RowOf(a, dims)  c == ColOf(a, dims)
        IN  IF r >= dims.m \/ c >= dims.n \/ c < k THEN Fetch(a)
            ELSE IF c = dims.n - 1 THEN At(r, k) ELSE At(r, c + 1)
  IN  /\ k < dims.n
      /\ buf' = IF buf = <<>> THEN buf ELSE Buf(capacity, at)
      /\ UNCHANGED <<isDense, dims, intact>>

MatInit ==
  /\ isDense \in BOOLEAN
  /\ dims = [m |-> 0, n |-> 0, x |-> 0]
  /\ buf = <<>>
  /\ intact = TRUE

MatNext ==
  \/ \E d \in Shape : ResizeMatrix(d[1], d[2]) \/ OverwriteMatrix(d[1], d[2]) \/ TruncateMatrix(d[1], d[2])
  \/ ReserveMatrix(MaxRow, MaxCol)
  \/ Assign
  \/ \E k \in 0 .. MaxRow - 1 : EraseRow(k)
  \/ \E k \in 0 .. MaxCol - 1 : EraseCol(k) \/ MoveLast(k)

MatSpec == MatInit /\ [][MatNext]_matVars

----------------------------------------------------------------------------
(* Properties.                                                              *)

AbstractGrid ==
  INSTANCE MatrixSpec WITH
    rows <- dims.m, cols <- dims.n, defined <- intact,
    grid <- [p \in (0 .. dims.m - 1) \X (0 .. dims.n - 1) |-> At(p[1], p[2])]

(* A matrix is a grid of numbers: resizing, truncating, erasing and moving   *)
(* columns keep every number at its row and column and show zeroes where the *)
(* grid grew, whatever the stride and whether the buffer is a new one, until *)
(* a matrix is widened in place or a column of a dense one is erased.        *)
IsAGrid == AbstractGrid!Spec
=============================================================================
