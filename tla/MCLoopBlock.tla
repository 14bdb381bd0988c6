---------------------------- MODULE MCLoopBlock ----------------------------
(* Three nodes and three edges.  The third edge of a shape that needs only two *)
(* repeats one of them, as a time dependence does.                             *)
EXTENDS LoopBlock, TLC

CONSTANTS na, nb, nc,  \* the nodes
          ex, ey, ez   \* the edges

NodeMC == {na, nb, nc}
EdgeMC == {ex, ey, ez}

OnEdges(i, j, k) == ex :> i @@ ey :> j @@ ez :> k
OnNodes(i, j, k) == na :> i @@ nb :> j @@ nc :> k

Deep(loops, s) ==
  [nodeIn |-> OnEdges(s[1][1], s[2][1], s[3][1]), nodeOut |-> OnEdges(s[1][2], s[2][2], s[3][2]),
   edgeLoops |-> OnEdges(loops, loops, loops), nodeLoops |-> OnNodes(loops, loops, loops),
   rank |-> OnNodes(0, 0, 0)]

Chain == <<<<na, nb>>, <<nb, nc>>, <<nc, nc>>>>
Triangle == <<<<na, nb>>, <<nb, nc>>, <<na, nc>>>>
Cycle == <<<<na, nb>>, <<nb, na>>, <<nb, nc>>>>
Reduction == <<<<na, na>>, <<na, nb>>, <<nb, nc>>>>
Star == <<<<na, na>>, <<nb, na>>, <<nc, na>>>>

\* nb, nc and the edges have one loop less than na.
Mixed(loops, s) ==
  [Deep(loops, s) EXCEPT !.nodeLoops = OnNodes(loops, loops - 1, loops - 1),
                         !.edgeLoops = OnEdges(loops - 1, loops - 1, loops - 1)]

\* schedulePhi has fixed the first row of na, which alone has a second loop.
Orthogonal(s) ==
  [Deep(2, s) EXCEPT !.nodeLoops = OnNodes(2, 1, 1), !.edgeLoops = OnEdges(2, 1, 1),
                     !.rank = OnNodes(1, 0, 0)]

BlocksMC ==
  {Deep(2, Chain), Deep(2, Cycle), Deep(3, Triangle), Mixed(2, Cycle), Mixed(3, Triangle),
   Orthogonal(Reduction), Orthogonal(Star)}

\* Enough of them for the liveness check, which looks at every pair of states.
BlocksLive == {Deep(2, Chain), Mixed(2, Cycle), Mixed(3, Triangle), Orthogonal(Reduction)}
=============================================================================
