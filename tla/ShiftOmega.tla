----------------------------- MODULE ShiftOmega -----------------------------
(***************************************************************************)
(* LoopBlock.hpp, shiftOmegas: node after node, the constants of the       *)
(* equations that its dependences put on its loops are solved for a shift  *)
(* of the loops, and a shift that is whole is made in every dependence of  *)
(* the node.  A row of equations is the constant, then the loops of the    *)
(* first and of the second nest of the dependence.  What shiftOmega reads  *)
(* are the equations; what it changes are the simplices, of which the      *)
(* constants are kept here.                                                *)
(***************************************************************************)
EXTENDS Elimination, FiniteSets

CONSTANTS
  Nodes,   \* blocks: [loops, memory, edges]
  Shifts   \* values that a shift is looked for in

VARIABLES
  scheduled,    \* the block
  nextNode,
  offsets,      \* per node
  satConstants  \* per dependence, of each row: satL(0, _)

shiftVars == <<scheduled, nextNode, offsets, satConstants>>

Edges == scheduled.edges
NodeOf(mem) == CHOOSE n \in DOMAIN scheduled.memory : \E k \in DOMAIN scheduled.memory[n] : scheduled.memory[n][k] = mem
WithinNode(e) == NodeOf(e.input) = NodeOf(e.output)

\* The loops of one end of a dependence: the nest of the output comes second if
\* the dependence is forward.
InSecond(e, end) == (end = "output") = e.isForward
EndLoops(u, e, end) == IF InSecond(e, end) THEN SubSeq(u, 2 + e.dim0, 1 + e.dim0 + e.dim1) ELSE SubSeq(u, 2, 1 + e.dim0)
InLoops(n, u) == u \o Zero(scheduled.loops[n] - Len(u))

Ends(e, n) == {end \in {"input", "output"} : NodeOf(IF end = "input" THEN e.input ELSE e.output) = n}

\* What an equation says of the loops of node n; both ends move together.
OnLoops(u, e, n) ==
  IF WithinNode(e) THEN Combine(1, InLoops(n, EndLoops(u, e, "input")), 1, InLoops(n, EndLoops(u, e, "output")))
  ELSE InLoops(n, EndLoops(u, e, CHOOSE end \in Ends(e, n) : TRUE))

\* The dependences of a node, in the order of its accesses, the inputs of one first.
Inputs(mem) == SelectSeq([k \in DOMAIN Edges |-> k], LAMBDA k : Edges[k].output = mem)
Outputs(mem) == SelectSeq([k \in DOMAIN Edges |-> k], LAMBDA k : Edges[k].input = mem /\ ~WithinNode(Edges[k]))
EdgesOf(n) ==
  LET at[k \in 0 .. Len(scheduled.memory[n])] ==
        IF k = 0 THEN <<>> ELSE at[k - 1] \o Inputs(scheduled.memory[n][k]) \o Outputs(scheduled.memory[n][k])
  IN  at[Len(scheduled.memory[n])]

\* A row of the system: the innermost loop first, the constant last.
SystemRow(u, e, n) ==
  LET x == OnLoops(u, e, n) IN [k \in DOMAIN x |-> x[Len(x) + 1 - k]] \o <<u[1]>>
SystemOf(n) ==
  LET rows(e) == [d \in DOMAIN e.E |-> SystemRow(e.E[d], e, n)]
      of[k \in 0 .. Len(EdgesOf(n))] == IF k = 0 THEN <<>> ELSE of[k - 1] \o rows(Edges[EdgesOf(n)[k]])
  IN  of[Len(EdgesOf(n))]

----------------------------------------------------------------------------
(* NormalForm::updateForNewRow.                                            *)

\* The first column before the last from c on with something in it.
FirstOf(u, c) ==
  LET cols == {k \in c .. Len(u) - 1 : u[k] # 0} IN IF cols = {} THEN Len(u) ELSE CHOOSE k \in cols : \A l \in cols : k <= l
Clear(u, w, c) == IF u[c] = 0 THEN u ELSE Cancelled(u, w, c, gcd(u[c], w[c]))

\* Mutant: the rows above keep the loop of the new row.
InsertOnly(A, u, j) ==
  LET i == Cardinality({k \in DOMAIN A : FirstOf(A[k], 1) < j}) IN SubSeq(A, 1, i) \o <<u>> \o SubSeq(A, i + 1, Len(A))

\* The new row is reduced by those there are, put where its first loop belongs
\* and taken out of the rows above; it is left if no loop remains.
Insert(A, u, j) ==
  LET above == {k \in DOMAIN A : FirstOf(A[k], 1) < j}
      i == Cardinality(above)
  IN  [k \in 1 .. i |-> Clear(A[k], u, j)] \o <<u>> \o SubSeq(A, i + 1, Len(A))
updateForNewRow(A, x) ==
  LET u[k \in 0 .. Len(A)] == IF k = 0 THEN x ELSE Clear(u[k - 1], A[k], FirstOf(A[k], 1))
      new == u[Len(A)]
  IN  IF FirstOf(new, 1) = Len(x) THEN A ELSE Insert(A, new, FirstOf(new, 1))
ReducedRows(n) ==
  LET X == SystemOf(n)
      A[k \in 0 .. Len(X)] == IF k = 0 THEN <<>> ELSE updateForNewRow(A[k - 1], X[k])
  IN  A[Len(X)]

----------------------------------------------------------------------------
(* shiftOmega.                                                             *)

\* A row with an offset is solved for its first loop if the quotient is whole; c
\* is the next column.
SolveRow(s, row) ==
  LET off == row[Len(row)]
      c == FirstOf(row, s.c)
      x == Quotient(off, row[c])
  IN  IF off = 0 \/ s.stops THEN s
      ELSE IF c = Len(row) THEN [s EXCEPT !.stops = TRUE]
      ELSE IF x * row[c] # off THEN [s EXCEPT !.c = c]
      ELSE [s EXCEPT !.c = c + 1, !.offs = [@ EXCEPT ![Len(row) - c] = x]]
Solution(A, n) ==
  LET s[r \in 0 .. Len(A)] == IF r = 0 THEN [c |-> 1, offs |-> Zero(n), stops |-> FALSE] ELSE SolveRow(s[r - 1], A[r])
  IN  s[Len(A)]

NonZeroOffset(n) == \E k \in DOMAIN SystemOf(n) : LET u == SystemOf(n)[k] IN u[Len(u)] # 0
SolutionOf(n) == Solution(ReducedRows(n), scheduled.loops[n])
CanShift(n) ==
  scheduled.loops[n] > 0 /\ NonZeroOffset(n) /\ ~SolutionOf(n).stops /\ ~IsZero(SolutionOf(n).offs)

\* What a row loses when both its ends in n, or one, shift by offs.
\* Mutant: a dependence within the node shifts at one end only.
LostOnce(u, e, n, offs) ==
  Dot(EndLoops(u, e, IF "output" \in Ends(e, n) THEN "output" ELSE "input"), offs)
Lost(u, e, n, offs) ==
  (IF "input" \in Ends(e, n) THEN Dot(EndLoops(u, e, "input"), offs) ELSE 0)
    + (IF "output" \in Ends(e, n) THEN Dot(EndLoops(u, e, "output"), offs) ELSE 0)

shiftOmega ==
  /\ nextNode <= Len(scheduled.loops) /\ CanShift(nextNode)
  /\ \E offs \in {SolutionOf(nextNode).offs} :
       /\ offsets' = [offsets EXCEPT ![nextNode] = offs]
       /\ satConstants' =
            [k \in DOMAIN Edges |->
               IF \E l \in DOMAIN EdgesOf(nextNode) : EdgesOf(nextNode)[l] = k
               THEN [d \in DOMAIN satConstants[k] |-> satConstants[k][d] - Lost(Edges[k].E[d], Edges[k], nextNode, offs)]
               ELSE satConstants[k]]
  /\ nextNode' = nextNode + 1
  /\ UNCHANGED scheduled

StaysInPlace ==
  /\ nextNode <= Len(scheduled.loops) /\ ~CanShift(nextNode)
  /\ nextNode' = nextNode + 1
  /\ UNCHANGED <<scheduled, offsets, satConstants>>

ShiftStart(b) ==
  /\ scheduled = b
  /\ nextNode = 1
  /\ offsets = [n \in DOMAIN b.loops |-> Zero(b.loops[n])]
  /\ satConstants = [k \in DOMAIN b.edges |-> [d \in DOMAIN b.edges[k].E |-> b.edges[k].E[d][1]]]
ShiftInit == \E b \in Nodes : ShiftStart(b)
ShiftNext == shiftOmega \/ StaysInPlace

----------------------------------------------------------------------------
(* Properties.                                                             *)

\* The constants of row u with its ends shifted by the offsets of their nodes.
ShiftedBy(u, e) ==
  u[1] - Dot(EndLoops(u, e, "input"), offsets[NodeOf(e.input)])
       - Dot(EndLoops(u, e, "output"), offsets[NodeOf(e.output)])
Reversed(offs) == [l \in DOMAIN offs |-> offs[Len(offs) + 1 - l]]
Clears(X, offs, one) == \A k \in DOMAIN X : Dot(SubSeq(X[k], 1, Len(X[k]) - 1), Reversed(offs)) = one * X[k][Len(X[k])]
ShiftsOf(n) == [1 .. scheduled.loops[n] -> Shifts]

(* The simplices always describe the iterations that the nodes' offsets    *)
(* make of the original ones, whichever nodes shifted before and whether a *)
(* dependence is within a node; and where exactly one shift of a node      *)
(* clears every offset of its dependences, that is the one made.  A row    *)
(* with an offset always has a loop left to solve it for, or shiftOmega    *)
(* would leave without its rollback.                                       *)
ShiftsAgree ==
  /\ nextNode <= Len(scheduled.loops) => ~SolutionOf(nextNode).stops
  /\ \A k \in DOMAIN Edges : \A d \in DOMAIN Edges[k].E : satConstants[k][d] = ShiftedBy(Edges[k].E[d], Edges[k])
  /\ \A n \in 1 .. nextNode - 1 : \A X \in {SystemOf(n)} :
       (\A offs \in ShiftsOf(n) : Clears(X, offs, 0) => IsZero(offs)) =>
         \A offs \in ShiftsOf(n) : Clears(X, offs, 1) => offsets[n] = offs
=============================================================================
