------------------------- MODULE StronglyConnected -------------------------
(***************************************************************************)
(* stronglyConnectedComponents and strongConnect of include/Graphs.hpp, as *)
(* LinearProgramLoopBlock::breakGraph and LoopTreeSchedule::placeAddr call *)
(* them: Tarjan's depth-first search over in-neighbours, with its call     *)
(* stack.  The index that a recursive call returns is thrown away, so      *)
(* vertices that are not on one search path can get the same index.        *)
(*                                                                         *)
(* A graph is the adjacency of the whole loop block with the subset of its *)
(* vertices that Graph::nodeIds selects; inNeighbors does not look at      *)
(* nodeIds.  The table iLLOS has maxVertexId() entries: at least 64, as a  *)
(* BitSet of two words computes it, so it has room for all of Node here.   *)
(***************************************************************************)
EXTENDS Integers, Sequences, FiniteSetsExt

CONSTANTS
  LastNode,   \* the greatest vertex
  Graphs,     \* the adjacencies to explore
  Portions    \* the sets of vertices that nodeIds may select

Node == 0 .. LastNode

ASSUME NodeAssumption == LastNode \in Nat

ASSUME GraphAssumption ==
  /\ Graphs \subseteq [Node -> SUBSET Node]
  /\ Portions \subseteq SUBSET Node

VARIABLES
  inNeighbors,  \* the adjacency
  nodeIds,      \* the vertices of the graph, what vertexIds() returns
  iLLOS,        \* per vertex: index, lowLink, onStack, visited
  stack,        \* Tarjan's stack
  components,   \* the components emitted so far
  frames,       \* the active calls of strongConnect, outermost first
  index         \* the index of stronglyConnectedComponents

sccVars == <<inNeighbors, nodeIds, iLLOS, stack, components, frames, index>>

----------------------------------------------------------------------------

Depth == Len(frames)
Caller == frames[Depth]

\* The search follows edges backwards.
outNeighbors(v) == {w \in Node : v \in inNeighbors[w]}
Neighbors(v) == inNeighbors[v]

\* The loops over a BitSet take its least member first.
First(set) == Min(set)

\* Where v lies on the stack, and what popping down to v takes off it.
Position(v) == CHOOSE i \in 1 .. Len(stack) : stack[i] = v
\* Mutant: v itself stays on the stack.
PoppedAbove(v) == {stack[i] : i \in Position(v) + 1 .. Len(stack)}
Popped(v) == {stack[i] : i \in Position(v) .. Len(stack)}

\* Mutant: the minimum is not taken.
LowerAlways(table, v, n) == [table EXCEPT ![v].lowLink = n]
Lower(table, v, n) == [table EXCEPT ![v].lowLink = IF n < @ THEN n ELSE @]

\* Mutant: onStack is not looked at.
MayLowerVisited(w) == iLLOS[w].visited

\* Only a vertex that is not in a component yet lowers a lowLink.
MayLower(w) == iLLOS[w].onStack

\* The call strongConnect(v) with the given index, up to its loop.
Enter(v, ind, calls) ==
  /\ iLLOS' = [iLLOS EXCEPT ![v] = [index |-> ind, lowLink |-> ind,
                                    onStack |-> TRUE, visited |-> TRUE]]
  /\ stack' = Append(stack, v)
  /\ frames' = Append(calls, [v |-> v, todo |-> Neighbors(v)])
  /\ UNCHANGED components

Looped(w) == [frames EXCEPT ![Depth].todo = @ \ {w}]

\* The loop of stronglyConnectedComponents calls strongConnect on the next
\* vertex that was not visited.
ConnectRoot ==
  LET left == {v \in nodeIds : ~iLLOS[v].visited}
  IN  /\ frames = <<>>
      /\ left # {}
      /\ Enter(First(left), index, <<>>)
      /\ UNCHANGED <<inNeighbors, nodeIds, index>>

\* strongConnect meets an in-neighbour that was visited before.
MeetVisited ==
  /\ frames # <<>>
  /\ Caller.todo # {}
  /\ LET w == First(Caller.todo)
     IN  /\ iLLOS[w].visited
         /\ iLLOS' = IF MayLower(w) THEN Lower(iLLOS, Caller.v, iLLOS[w].index)
                                   ELSE iLLOS
         /\ frames' = Looped(w)
  /\ UNCHANGED <<inNeighbors, nodeIds, stack, components, index>>

\* strongConnect calls itself; the callee gets the caller's incremented index.
Descend ==
  /\ frames # <<>>
  /\ Caller.todo # {}
  /\ LET w == First(Caller.todo)
     IN  /\ ~iLLOS[w].visited
         /\ Enter(w, iLLOS[Caller.v].index + 1, Looped(w))
  /\ UNCHANGED <<inNeighbors, nodeIds, index>>

\* The call returns: its caller takes over the lowLink, or, when the caller is
\* stronglyConnectedComponents, the index.
Leave(table) ==
  LET v == Caller.v
  IN  /\ frames' = SubSeq(frames, 1, Depth - 1)
      /\ iLLOS' = IF Depth = 1 THEN table
                  ELSE Lower(table, frames[Depth - 1].v, table[v].lowLink)
      /\ index' = IF Depth = 1 THEN table[v].index + 1 ELSE index
      /\ UNCHANGED <<inNeighbors, nodeIds>>

IsRoot(v) == iLLOS[v].index = iLLOS[v].lowLink

LeaveRoot ==
  /\ frames # <<>>
  /\ Caller.todo = {}
  /\ IsRoot(Caller.v)
  /\ LET out == Popped(Caller.v)
     IN  /\ components' = Append(components, out)
         /\ stack' = SubSeq(stack, 1, Position(Caller.v) - 1)
         /\ Leave([w \in Node |-> [iLLOS[w] EXCEPT !.onStack = @ /\ w \notin out]])

LeaveInner ==
  /\ frames # <<>>
  /\ Caller.todo = {}
  /\ ~IsRoot(Caller.v)
  /\ Leave(iLLOS)
  /\ UNCHANGED <<stack, components>>

SccStart(graph, ids) ==
  /\ inNeighbors = graph
  /\ nodeIds = ids
  /\ iLLOS = [v \in Node |-> [index |-> 0, lowLink |-> 0,
                              onStack |-> FALSE, visited |-> FALSE]]
  /\ stack = <<>>
  /\ components = <<>>
  /\ frames = <<>>
  /\ index = 0

SccInit == \E graph \in Graphs, ids \in Portions : SccStart(graph, ids)

SccNext == ConnectRoot \/ MeetVisited \/ Descend \/ LeaveRoot \/ LeaveInner

SccSpec == SccInit /\ [][SccNext]_sccVars

\* The search is a sequential program: it never stops before it returns.
SccFairSpec == SccSpec /\ WF_sccVars(SccNext)

----------------------------------------------------------------------------
(* Properties.                                                             *)

\* v can be reached from u along in-neighbours: it is in every set that holds u
\* and is closed under them.
Reaches(u, v) ==
  \A S \in SUBSET Node :
    u \in S /\ (\A x \in S : inNeighbors[x] \subseteq S) => v \in S

SameSCC(u, v) == Reaches(u, v) /\ Reaches(v, u)

Emitted == UNION {components[i] : i \in 1 .. Len(components)}

\* The types; a lowLink never exceeds the index.
TypeOK ==
  /\ inNeighbors \in [Node -> SUBSET Node]
  /\ nodeIds \in SUBSET Node
  /\ iLLOS \in [Node -> [index : Nat, lowLink : Nat, onStack : BOOLEAN, visited : BOOLEAN]]
  /\ \A v \in Node : iLLOS[v].lowLink <= iLLOS[v].index
  /\ stack \in Seq(Node)
  /\ components \in Seq(SUBSET Node)
  /\ frames \in Seq([v : Node, todo : SUBSET Node])
  /\ index \in Nat

\* A visited vertex is on the stack once or in a component, as its onStack flag
\* says, and the active calls lie on the stack in call order: the do-while loop
\* that pops a component always meets its root.
StackHoldsCalls ==
  /\ \A v \in Node : iLLOS[v].onStack <=> v \in {stack[i] : i \in 1 .. Len(stack)}
  /\ \A i, j \in 1 .. Len(stack) : stack[i] = stack[j] => i = j
  /\ \A v \in Node : iLLOS[v].visited <=> iLLOS[v].onStack \/ v \in Emitted
  /\ \A v \in Node : ~(iLLOS[v].onStack /\ v \in Emitted)
  /\ \A k \in 1 .. Depth : iLLOS[frames[k].v].onStack
  /\ \A k \in 1 .. Depth - 1 : Position(frames[k].v) < Position(frames[k + 1].v)

\* Although vertices share indices, the vertices that one component collects all
\* reach each other: breakGraph never has to order a component's members.
ComponentsWithinSCC ==
  \A i \in 1 .. Len(components) : \A u, v \in components[i] : SameSCC(u, v)

\* An edge only goes from a later component to an earlier one when its two ends
\* lie on a common cycle: across strongly connected components the order that
\* breakGraph and placeAddr build on is topological.
OrderedAcrossSCCs ==
  \A i \in 1 .. Len(components) : \A v \in components[i] : \A w \in inNeighbors[v] :
    w \in UNION {components[j] : j \in 1 .. i} \/ SameSCC(v, w)

\* "components are sorted in topological order" (LoopBlock.hpp:1468).
TopologicalOrder ==
  \A i \in 1 .. Len(components) : \A v \in components[i] :
    inNeighbors[v] \subseteq UNION {components[j] : j \in 1 .. i}

\* The nodeIds of a Graph are "a subset of Nodes" (LoopBlock.hpp:582), so what
\* breakGraph splits a graph into is part of the graph.
ComponentsInGraph == Emitted \subseteq nodeIds

Finished ==
  /\ frames = <<>> /\ stack = <<>>
  /\ nodeIds \subseteq Emitted
  /\ \A i, j \in 1 .. Len(components) : i # j => components[i] \intersect components[j] = {}

\* The search ends, whatever the graph, with every vertex of the graph in exactly
\* one component and nothing left on the stack.
Finishes == <>[]Finished
=============================================================================
