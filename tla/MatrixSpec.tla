----------------------------- MODULE MatrixSpec -----------------------------
(***************************************************************************)
(* What the matrices of Math/Array.hpp promise, whatever their layout in   *)
(* memory: a grid of numbers.  "If the new dims are larger in rows or      *)
(* cols, we fill with 0.  If the new dims are smaller in rows or cols, we  *)
(* truncate."  Once a call has left what the class can do, nothing is      *)
(* promised.                                                               *)
(***************************************************************************)
EXTENDS Integers

CONSTANTS MaxRow, MaxCol, NoData

VARIABLES rows, cols, grid, defined

vars == <<rows, cols, grid, defined>>

Init == rows = 0 /\ cols = 0 /\ grid = <<>> /\ defined = TRUE

Becomes(m, n, g) == rows' = m /\ cols' = n /\ grid' = g /\ UNCHANGED defined

Mapped(m, n, at(_, _)) == Becomes(m, n, [p \in (0 .. m - 1) \X (0 .. n - 1) |-> at(p[1], p[2])])

Resize(m, n) == LET at(r, c) == IF r < rows /\ c < cols THEN grid[<<r, c>>] ELSE 0 IN Mapped(m, n, at)

\* Nothing is known of the elements.
Overwrite(m, n) == LET at(r, c) == NoData IN Mapped(m, n, at)

\* The client writes a number of its own into every element.
Assign == LET at(r, c) == 1 + r * MaxCol + c IN Mapped(rows, cols, at)

EraseRow(k) ==
  LET at(r, c) == grid[<<IF r < k THEN r ELSE r + 1, c>>] IN k < rows /\ Mapped(rows - 1, cols, at)

EraseCol(k) ==
  LET at(r, c) == grid[<<r, IF c < k THEN c ELSE c + 1>>] IN k < cols /\ Mapped(rows, cols - 1, at)

MoveLast(k) ==
  LET at(r, c) == grid[<<r, IF c < k THEN c ELSE IF c = cols - 1 THEN k ELSE c + 1>>]
  IN  k < cols /\ Mapped(rows, cols, at)

Next ==
  \/ \E m \in 0 .. MaxRow, n \in 0 .. MaxCol : Resize(m, n) \/ Overwrite(m, n)
  \/ Assign
  \/ \E k \in 0 .. MaxRow - 1 : EraseRow(k)
  \/ \E k \in 0 .. MaxCol - 1 : EraseCol(k) \/ MoveLast(k)
  \/ defined' = FALSE

Spec == Init /\ [][defined => Next]_vars
=============================================================================
