---------------------------- MODULE MCShiftOmega ----------------------------
(***************************************************************************)
(* Blocks of one and of two nodes with one and two loops, and dependences  *)
(* within a node, between nodes in either order of the nests, and several  *)
(* on one node.                                                            *)
(***************************************************************************)
EXTENDS ShiftOmega

Dep(input, output, isForward, dim0, dim1, E) ==
  [input |-> input, output |-> output, isForward |-> isForward, dim0 |-> dim0, dim1 |-> dim1, E |-> E]
\* Node 1 has two loops and accesses 1 and 2, node 2 has one loop and access 3.
\* i' = i + a, j' = j + b; a loop read as another; i + j met with twice a loop.
within == {<<<<a, 1, 0, f, 0>>, <<b, 0, 1, 0, f>>>> : a, b \in -1 .. 1, f \in {-1, 1}}
              \union {<<<<a, 1, 1, 0, 1>>>> : a \in -2 .. 1}
between == {<<<<a, p, q, -r>>>> : a \in {-2, 0, 1}, p, q \in -1 .. 1, r \in 1 .. 2}
Turned(E) == [d \in DOMAIN E |-> <<E[d][1]>> \o SubSeq(E[d], 4, 4) \o SubSeq(E[d], 2, 3)]
nodeBlocks ==
  {[loops |-> <<2, 1>>, memory |-> <<<<1, 2>>, <<3>>>>, edges |-> s] :
     s \in {<<Dep(1, 2, f, 2, 2, E)>> : f \in BOOLEAN, E \in within}
       \union {<<Dep(2, 3, TRUE, 2, 1, E), Dep(3, 1, FALSE, 2, 1, F)>> : E \in between, F \in {<<<<a, 1, 0, -1>>>> : a \in -1 .. 1}}
       \union {<<Dep(2, 1, TRUE, 2, 2, <<<<a, 1, 0, -1, 0>>>>), Dep(3, 1, TRUE, 1, 2, Turned(E)), Dep(3, 2, f, IF f THEN 1 ELSE 2, IF f THEN 2 ELSE 1, IF f THEN Turned(F) ELSE F)>> :
                 a \in 0 .. 1, E \in between, F \in {<<<<a2, 0, 1, -1>>>> : a2 \in -1 .. 1}, f \in BOOLEAN}}
NoNodes == [loops |-> <<>>, memory |-> <<>>, edges |-> <<>>]
nodeShifts == -2 .. 2
SSpec == ShiftInit /\ [][ShiftNext]_shiftVars
=============================================================================
