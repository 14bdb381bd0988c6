----------------------------- MODULE LoopBlock -----------------------------
(***************************************************************************)
(* The scheduler of a LinearProgramLoopBlock, include/LoopBlock.hpp: the   *)
(* mutual recursion of optimize, optimizeSatDep and breakGraph over graphs *)
(* passed by value, and the state they share: the schedules and fusion     *)
(* omegas of the nodes, the satisfaction levels of the edges and           *)
(* carriedDeps.                                                            *)
(*                                                                         *)
(* The linear program is an oracle: it may fail, and when it succeeds any  *)
(* active edges may come out satisfied.  What a schedule row does to an    *)
(* edge is its sign there:                                                 *)
(*   "zero"   the row keeps the edge's order weakly,                       *)
(*   "pos"    and its bounding variables are not all zero (deactivated),   *)
(*   "indep"  and nothing is left to order once the rows so far are equal, *)
(*   "bad"    the row may reverse the edge.                                *)
(* stronglyConnectedComponents is taken to return the strongly connected   *)
(* components in a topological order; module StronglyConnected is about    *)
(* when it does.                                                           *)
(***************************************************************************)
EXTENDS Integers, Sequences, FiniteSets

CONSTANTS
  Node, Edge,
  MaxLoops,  \* the deepest loop nest
  SatSlots,  \* entries of satLvl
  Blocks     \* the loop blocks to schedule

Row == 0 .. MaxLoops - 1
Sign == {"zero", "pos", "indep", "bad"}
Unset == 255

BlockType ==
  [nodeIn : [Edge -> Node], nodeOut : [Edge -> Node], edgeLoops : [Edge -> 1 .. MaxLoops],
   nodeLoops : [Node -> 1 .. MaxLoops], rank : [Node -> 0 .. MaxLoops - 1]]

\* setSatLevelLP adds a depth to 128 in eight bits, where 255 stands for no level;
\* a level that is stashed and popped must have a second slot.
ASSUME LoopAssumption == MaxLoops \in 1 .. 127 /\ SatSlots \in Nat \ {0, 1}

ASSUME NodeAssumption == IsFiniteSet(Node) /\ Node # {}

ASSUME BlockAssumption ==
  /\ Blocks \subseteq BlockType
  /\ \A b \in Blocks : \A e \in Edge :
       b.edgeLoops[e] <= b.nodeLoops[b.nodeIn[e]] /\ b.edgeLoops[e] <= b.nodeLoops[b.nodeOut[e]]

VARIABLES
  block,    \* the nodes and edges that fillEdges and buildGraph made
  phi,      \* per node and row: who wrote it last, "lp", "free" or nobody
  sign,     \* per edge and row: what the two schedules do to the edge
  omega,    \* per node: the fusion omegas
  satLvl,   \* per edge: the stack of satisfaction levels, front first
  carried,  \* per node: the depths flagged in carriedDeps
  rank,     \* per node: how many rows schedulePhi has fixed
  frames,   \* the active calls, outermost first
  ret,      \* what the call that just ended returned
  lost,     \* history: <<node, row>> overwritten for another graph
  moved,    \* history: <<node, level>>, the fusion omegas written for another graph
  stray,    \* history: <<edge, level>> apart since an abandoned attempt
  dropped,  \* history: edges that breakGraph was called without
  stale     \* history: edges with the satLvl of another graph or attempt

history == <<lost, moved, stray, dropped, stale>>
vars == <<block, phi, sign, omega, satLvl, carried, rank, frames, ret, history>>

NoRet == [ok |-> FALSE, sat |-> {}, done |-> FALSE]

----------------------------------------------------------------------------
(* Graphs: a subset of the nodes and the edges not deactivated on the way.  *)

In(e) == block.nodeIn[e]
Out(e) == block.nodeOut[e]

missingNode(g, e) == ~(In(e) \in g.nodeIds /\ Out(e) \in g.nodeIds)

isActive(g, e, d) == e \in g.activeEdges /\ d < block.edgeLoops[e] /\ ~missingNode(g, e)

getEdges(g, d) == {e \in Edge : isActive(g, e, d)}

\* hasActiveEdges(g, node): the overload that does not look at the depth.
hasActiveEdges(g, n) == \E e \in g.activeEdges : ~missingNode(g, e) /\ n \in {In(e), Out(e)}

MaxOf(set) == CHOOSE m \in set : \A k \in set : k <= m
calcMaxDepth(g) == MaxOf({block.nodeLoops[n] : n \in g.nodeIds})

\* own is history: the nodes that belonged to every graph this one was split from.
fullGraph == [nodeIds |-> Node, activeEdges |-> Edge, own |-> Node]

subGraph(g, nodes) == [g EXCEPT !.nodeIds = nodes, !.own = g.own \intersect g.nodeIds \intersect nodes]

Merged(g, h) == [nodeIds |-> g.nodeIds \union h.nodeIds,
                 activeEdges |-> g.activeEdges \union h.activeEdges,
                 own |-> g.own \union h.own]

Owned(g) == {e \in Edge : In(e) \in g.own /\ Out(e) \in g.own}

connects(e, g, h) ==
  \/ In(e) \in g.nodeIds /\ Out(e) \in h.nodeIds
  \/ In(e) \in h.nodeIds /\ Out(e) \in g.nodeIds

phiIsScheduled(n, d) == d < rank[n]

\* What a node can be reached from, and the components of that: the in-neighbours
\* that stronglyConnectedComponents follows leave the graph it is given.
Before(nodes) ==
  LET closed == {S \in SUBSET Node : nodes \subseteq S /\ \A e \in Edge : Out(e) \in S => In(e) \in S}
  IN  {n \in Node : \A S \in closed : n \in S}

SCCs(nodes) ==
  LET before == [n \in Before(nodes) |-> Before({n})]
  IN  {{m \in before[n] : n \in before[m]} : n \in DOMAIN before}

stronglyConnectedComponents(g) ==
  LET C == SCCs(g.nodeIds)
  IN  {s \in [1 .. Cardinality(C) -> C] :
         /\ C = {s[k] : k \in DOMAIN s}
         /\ \A i, j \in DOMAIN s :
              /\ s[i] = s[j] => i = j
              /\ i < j => \A e \in Edge : ~(In(e) \in s[j] /\ Out(e) \in s[i])}

----------------------------------------------------------------------------
(* Satisfaction levels.                                                     *)

\* Mutant: the last level is not dropped.
stashSatLevelGrows(s) == <<Unset>> \o s
stashSatLevel(s) == <<Unset>> \o SubSeq(s, 1, SatSlots - 1)
\* Mutant: the level is not restored.
popSatLevelNever(s) == s
popSatLevel(s) == Tail(s) \o <<s[SatSlots]>>
setSatLevelLP(s, d) == [s EXCEPT ![1] = 128 + d]
\* Mutant: the number of rows is off by one.
setSatLevelIndepShort(s, d) == [s EXCEPT ![1] = IF d = 0 THEN Unset ELSE d - 1]
setSatLevelIndep(s, d) == [s EXCEPT ![1] = d]

satLevel(e) == satLvl[e][1] % 128

----------------------------------------------------------------------------
(* solveGraph.                                                              *)

\* The nodes whose row d the linear program sets, and those of the whole block
\* that setDepFreeSchedule sets.
ByProgram(g, d) ==
  LET act == getEdges(g, d)
  IN  {n \in Node : act # {} /\ d < block.nodeLoops[n] /\ hasActiveEdges(g, n)}

DepFree(g, d) ==
  LET act     == getEdges(g, d)
      program == ByProgram(g, d)
  IN  {n \in Node \ program : d < block.nodeLoops[n] /\ (act = {} => ~phiIsScheduled(n, d))}

\* Mutant: satisfyDeps is ignored.
OutcomesAny(g, d, satisfyDeps) ==
  {o \in [deactivated : SUBSET getEdges(g, d), empty : SUBSET getEdges(g, d)] :
     o.deactivated \intersect o.empty = {}}

\* The edges the program deactivates and those that checkEmptySat drops.
Outcomes(g, d, satisfyDeps) ==
  {o \in [deactivated : SUBSET getEdges(g, d), empty : SUBSET getEdges(g, d)] :
     /\ o.deactivated \intersect o.empty = {}
     /\ satisfyDeps => o.deactivated = getEdges(g, d)}

After(g, o) == [g EXCEPT !.activeEdges = @ \ (o.deactivated \union o.empty)]

Solved(g, d, o, levels, flags) ==
  LET act     == getEdges(g, d)
      program == ByProgram(g, d)
      free    == DepFree(g, d)
      \* A dependence-free row only depends on the rows above it.
      new     == program \union {n \in free : phi[n][d] # "free"}
      touched == {e \in Edge : d < block.edgeLoops[e] /\ {In(e), Out(e)} \intersect new # {}}
      solved  == o.deactivated \union o.empty
      row(e)  == IF e \in o.deactivated THEN "pos" ELSE IF e \in o.empty THEN "indep" ELSE "zero"
  IN  /\ phi' = [n \in Node |-> [r \in Row |->
                   IF r = d /\ n \in program THEN "lp"
                   ELSE IF r = d /\ n \in free THEN "free"
                   ELSE IF r > d /\ n \in new /\ phi[n][r] = "free" THEN "none"
                   ELSE phi[n][r]]]
      /\ satLvl' = [e \in Edge |->
                      IF e \in o.deactivated THEN setSatLevelLP(levels[e], d)
                      ELSE IF e \in o.empty THEN setSatLevelIndep(levels[e], d)
                      ELSE levels[e]]
      /\ carried' = [n \in Node |->
                       IF \E e \in o.deactivated : n \in {In(e), Out(e)}
                       THEN flags[n] \union {d} ELSE flags[n]]
      /\ lost' = (lost \ (g.own \X {d})) \union ((new \ g.own) \X {d})
      /\ dropped' = dropped \ (act \intersect Owned(g))
      /\ stale' = (stale \ solved) \union (solved \ Owned(g))
      /\ UNCHANGED <<block, omega, rank, moved, stray>>
      /\ \E any \in [touched \ act -> {"zero", "bad"}] :
           sign' = [e \in Edge |-> [r \in Row |->
                      IF r = d /\ e \in act THEN row(e)
                      ELSE IF r = d /\ e \in touched THEN any[e]
                      ELSE IF r > d /\ e \in touched /\ sign[e][r] = "indep" THEN "zero"
                      ELSE sign[e][r]]]

Unsolved == UNCHANGED <<block, phi, sign, omega, satLvl, carried, rank, history>>

\* The attempt at g fails: what it leaves in the edges still to order.
Abandons(g) ==
  /\ stale' = stale \union {e \in g.activeEdges : satLvl[e][1] # Unset}
  /\ UNCHANGED <<block, phi, sign, omega, satLvl, carried, rank, lost, moved, stray>>

----------------------------------------------------------------------------
(* The call stack.                                                          *)

Top == frames[Len(frames)]

\* The innermost call is one of fn, at the given place of its body.
At(fn, place) ==
  /\ frames # <<>>
  /\ Top.fn = fn
  /\ Top.at = place
  /\ ret.done <=> place = "nested"

Goes(f) == frames' = [frames EXCEPT ![Len(frames)] = f] /\ ret' = NoRet
Calls(f, callee) ==
  frames' = Append([frames EXCEPT ![Len(frames)] = f], callee) /\ ret' = NoRet
Returns(ok, sat) ==
  /\ frames' = SubSeq(frames, 1, Len(frames) - 1)
  /\ ret' = [ok |-> ok, sat |-> sat, done |-> TRUE]

optimize(g, d, maxDepth) ==
  [fn |-> "optimize", at |-> "start", g |-> g, d |-> d, maxDepth |-> maxDepth,
   sat |-> {}, backup |-> g.activeEdges]

optimizeSatDep(g, d, maxDepth, sat, activeEdges) ==
  [fn |-> "optimizeSatDep", at |-> "start", g |-> [g EXCEPT !.activeEdges = activeEdges],
   d |-> d, maxDepth |-> maxDepth, sat |-> sat]

breakGraph(g, d) ==
  [fn |-> "breakGraph", at |-> "start", g |-> g, d |-> d, sat |-> {}]

----------------------------------------------------------------------------
(* optimize.                                                                *)

OptimizeLeaf ==
  /\ At("optimize", "start")
  /\ Top.d >= Top.maxDepth
  /\ Returns(TRUE, {})
  /\ Unsolved

OptimizeSolved ==
  /\ At("optimize", "start")
  /\ Top.d < Top.maxDepth
  /\ \E o \in Outcomes(Top.g, Top.d, FALSE) :
       LET g == After(Top.g, o)
       IN  /\ Solved(Top.g, Top.d, o, satLvl, carried)
           /\ IF Top.d + 1 = Top.maxDepth
              THEN Returns(TRUE, o.deactivated)
              ELSE Calls([Top EXCEPT !.at = "nested", !.g = g, !.sat = o.deactivated],
                         optimize(g, Top.d + 1, Top.maxDepth))

OptimizeUnsolved ==
  /\ At("optimize", "start")
  /\ Top.d < Top.maxDepth
  /\ getEdges(Top.g, Top.d) # {}
  /\ Goes(breakGraph(Top.g, Top.d))
  /\ Abandons(Top.g)
  /\ UNCHANGED dropped

OptimizeNested ==
  /\ At("optimize", "nested")
  /\ ret.ok
  /\ LET sat == Top.sat \union ret.sat
     IN  IF Top.sat = {} \/ ret.sat = {}
         THEN Returns(TRUE, sat)
         ELSE Goes(optimizeSatDep(Top.g, Top.d, Top.maxDepth, sat, Top.backup))
  /\ Unsolved

\* The graph that is broken up has lost the edges its failed schedule satisfied.
OptimizeNestedFailed ==
  /\ At("optimize", "nested")
  /\ ~ret.ok
  /\ Goes(breakGraph(Top.g, Top.d))
  /\ dropped' = dropped \union (Top.backup \ Top.g.activeEdges)
  /\ Abandons(Top.g)

----------------------------------------------------------------------------
(* optimizeSatDep: satisfy at depth d what now takes d and deeper levels.   *)

SatDepSolved ==
  /\ At("optimizeSatDep", "start")
  /\ LET edges == getEdges(Top.g, Top.d)
         levels == [e \in Edge |-> IF e \in edges THEN stashSatLevel(satLvl[e]) ELSE satLvl[e]]
         flags  == [n \in Node |-> {k \in carried[n] : k < Top.d}]
     IN  \E o \in Outcomes(Top.g, Top.d, TRUE) :
           LET g == After(Top.g, o)
           IN  /\ Solved(Top.g, Top.d, o, levels, flags)
               /\ Calls([fn |-> "optimizeSatDep", at |-> "nested", sat |-> o.deactivated],
                        optimize(g, Top.d + 1, Top.maxDepth))

\* The level is stashed and popped again, which costs the bottom of the stack.
SatDepUnsolved ==
  /\ At("optimizeSatDep", "start")
  /\ Returns(TRUE, Top.sat)
  /\ satLvl' = [e \in Edge |-> IF e \in getEdges(Top.g, Top.d)
                               THEN popSatLevel(stashSatLevel(satLvl[e])) ELSE satLvl[e]]
  /\ UNCHANGED <<block, phi, sign, omega, carried, rank, history>>

\* The nested optimize cannot fail: no edge is left to order.  The code after it
\* is never reached (SatDepIsFinal).
SatDepNested ==
  /\ At("optimizeSatDep", "nested")
  /\ ret.ok
  /\ Returns(TRUE, Top.sat \union ret.sat)
  /\ Unsolved

----------------------------------------------------------------------------
(* breakGraph.                                                              *)

\* One strongly connected component or none: nothing to break up.
BreakWhole ==
  /\ At("breakGraph", "start")
  /\ Cardinality(SCCs(Top.g.nodeIds)) <= 1
  /\ Returns(FALSE, {})
  /\ Unsolved

BreakSplit ==
  /\ At("breakGraph", "start")
  /\ Cardinality(SCCs(Top.g.nodeIds)) > 1
  /\ \E s \in stronglyConnectedComponents(Top.g) :
       Goes([fn |-> "breakGraph", at |-> "solve", d |-> Top.d, sat |-> {}, i |-> 1,
             graphs |-> [k \in DOMAIN s |-> subGraph(Top.g, s[k])]])
  /\ Unsolved

Graphs == Top.graphs

\* The loop that solves each component.
BreakSkip ==
  /\ At("breakGraph", "solve")
  /\ Top.i <= Len(Graphs)
  /\ Top.d >= calcMaxDepth(Graphs[Top.i])
  /\ Goes([Top EXCEPT !.i = @ + 1])
  /\ Unsolved

BreakSolved ==
  /\ At("breakGraph", "solve")
  /\ Top.i <= Len(Graphs)
  /\ Top.d < calcMaxDepth(Graphs[Top.i])
  /\ \E o \in Outcomes(Graphs[Top.i], Top.d, FALSE) :
       /\ Solved(Graphs[Top.i], Top.d, o, satLvl, carried)
       /\ Goes([Top EXCEPT !.i = @ + 1, !.sat = @ \union o.deactivated,
                           !.graphs[Top.i] = After(@, o)])

BreakUnsolved ==
  /\ At("breakGraph", "solve")
  /\ Top.i <= Len(Graphs)
  /\ Top.d < calcMaxDepth(Graphs[Top.i])
  /\ getEdges(Graphs[Top.i], Top.d) # {}
  /\ Returns(FALSE, {})
  /\ Unsolved

\* bases lists the graphs that others are fused into.
BreakAllSolved ==
  /\ At("breakGraph", "solve")
  /\ Top.i > Len(Graphs)
  /\ Goes([fn |-> "breakGraph", at |-> "fuse", d |-> Top.d, sat |-> Top.sat,
           graphs |-> Graphs, i |-> 2, bases |-> <<1>>])
  /\ Unsolved

isSatisfied(e, d) == sign[e][d] # "bad"

\* Mutant: the rows are not looked at.
canFuseAnyway(g, h, d) == \A e \in Edge : d < block.edgeLoops[e]

canFuse(g, h, d) ==
  \A e \in Edge : d < block.edgeLoops[e] /\ (connects(e, g, h) => isSatisfied(e, d))

Base == Graphs[Top.bases[Len(Top.bases)]]

\* What an abandoned attempt left in the inner fusion omegas of g's edges.
Leftovers(g, d) ==
  {er \in Owned(g) \X (d + 1 .. MaxLoops) : omega[In(er[1])][er[2]] # omega[Out(er[1])][er[2]]}

\* getFusionOmega(d) of a node with fewer than d loops is one of its offsets.
SetFusionOmega(g, d, o) ==
  LET beyond == {n \in g.nodeIds : d > block.nodeLoops[n]}
      offset(n) == d - block.nodeLoops[n] - 1
  IN  /\ omega' = [n \in Node |-> IF n \in g.nodeIds \ beyond
                                  THEN [omega[n] EXCEPT ![d] = o] ELSE omega[n]]
      /\ sign' = [e \in Edge |-> [r \in Row |->
                    IF \E n \in beyond \intersect {In(e), Out(e)} : offset(n) = r
                    THEN "bad" ELSE sign[e][r]]]
      /\ phi' = [n \in Node |-> IF n \in beyond THEN [phi[n] EXCEPT ![offset(n)] = "none"] ELSE phi[n]]
      /\ lost' = lost \union {<<n, offset(n)>> : n \in beyond}
      /\ moved' = (moved \ (g.own \X {d})) \union ((g.nodeIds \ g.own) \X {d})
      /\ stray' = (stray \ {<<e, d>> : e \in {f \in Edge : {In(f), Out(f)} \intersect g.own # {}}})
                    \union Leftovers(g, d)
      /\ UNCHANGED <<block, satLvl, carried, rank, dropped, stale>>

BreakFuse ==
  /\ At("breakGraph", "fuse")
  /\ Top.i <= Len(Graphs)
  /\ canFuse(Base, Graphs[Top.i], Top.d)
  /\ Goes([Top EXCEPT !.i = @ + 1,
                      !.graphs[Top.bases[Len(Top.bases)]] = Merged(@, Graphs[Top.i])])
  /\ Unsolved

BreakApart ==
  /\ At("breakGraph", "fuse")
  /\ Top.i <= Len(Graphs)
  /\ ~canFuse(Base, Graphs[Top.i], Top.d)
  /\ SetFusionOmega(Base, Top.d, Len(Top.bases) - 1)
  /\ Goes([Top EXCEPT !.i = @ + 1, !.bases = Append(@, Top.i)])

\* The next base graph, or the end of breakGraph.
Nest(sat, graphs, d) ==
  IF graphs = <<>> THEN Returns(TRUE, sat)
  ELSE Calls([fn |-> "breakGraph", at |-> "nested", d |-> d, sat |-> sat, graphs |-> Tail(graphs)],
             optimize(Head(graphs), d, calcMaxDepth(Head(graphs))))

BreakAllFused ==
  /\ At("breakGraph", "fuse")
  /\ Top.i > Len(Graphs)
  /\ SetFusionOmega(Base, Top.d, Len(Top.bases) - 1)
  /\ Nest(Top.sat, [k \in DOMAIN Top.bases |-> Graphs[Top.bases[k]]], Top.d + 1)

BreakNested ==
  /\ At("breakGraph", "nested")
  /\ IF ret.ok THEN Nest(Top.sat \union ret.sat, Graphs, Top.d) ELSE Returns(FALSE, {})
  /\ Unsolved

----------------------------------------------------------------------------
(* optOrth: a second attempt without the rows that schedulePhi has fixed.   *)

\* Mutant: unschedulePhi is forgotten.
RetryScheduled ==
  /\ frames = <<>> /\ ret.done /\ ~ret.ok
  /\ \E n \in Node : rank[n] > 0
  /\ frames' = <<optimize(fullGraph, 0, calcMaxDepth(fullGraph))>>
  /\ ret' = NoRet
  /\ UNCHANGED <<block, phi, sign, omega, satLvl, carried, rank, history>>

Retry ==
  /\ frames = <<>> /\ ret.done /\ ~ret.ok
  /\ \E n \in Node : rank[n] > 0
  /\ rank' = [n \in Node |-> 0]
  /\ phi' = [n \in Node |-> [r \in Row |-> IF phiIsScheduled(n, r) THEN "none" ELSE phi[n][r]]]
  /\ frames' = <<optimize(fullGraph, 0, calcMaxDepth(fullGraph))>>
  /\ ret' = NoRet
  /\ stray' = stray \union Leftovers(fullGraph, -1)
  /\ stale' = stale \union {e \in Edge : satLvl[e][1] # Unset}
  /\ UNCHANGED <<block, sign, omega, satLvl, carried, lost, moved, dropped>>

Init ==
  /\ block \in Blocks
  /\ phi = [n \in Node |-> [r \in Row |-> "none"]]
  /\ sign = [e \in Edge |-> [r \in Row |-> "bad"]]
  /\ omega = [n \in Node |-> [r \in 0 .. MaxLoops |-> 0]]
  /\ satLvl = [e \in Edge |-> [i \in 1 .. SatSlots |-> Unset]]
  /\ carried = [n \in Node |-> {}]
  /\ rank = block.rank
  /\ frames = <<optimize(fullGraph, 0, calcMaxDepth(fullGraph))>>
  /\ ret = NoRet
  /\ lost = {}
  /\ moved = {}
  /\ stray = {}
  /\ dropped = {}
  /\ stale = {}

Optimize == OptimizeLeaf \/ OptimizeSolved \/ OptimizeUnsolved \/ OptimizeNested \/ OptimizeNestedFailed
SatDep == SatDepSolved \/ SatDepUnsolved \/ SatDepNested
Break ==
  \/ BreakWhole \/ BreakSplit \/ BreakSkip \/ BreakSolved \/ BreakUnsolved \/ BreakAllSolved
  \/ BreakFuse \/ BreakApart \/ BreakAllFused \/ BreakNested

Next == Optimize \/ SatDep \/ Break \/ Retry

Spec == Init /\ [][Next]_vars

FairSpec == Spec /\ WF_vars(Next)

----------------------------------------------------------------------------
(* Properties.                                                              *)

Succeeded == frames = <<>> /\ ret.done /\ ret.ok

\* The fusion levels and rows that decide in which order an edge's ends execute.
DifferAt(e, r) == omega[In(e)][r] # omega[Out(e)][r]
Deciding(e) ==
  {r \in 0 .. block.edgeLoops[e] :
     DifferAt(e, r) \/ (r < block.edgeLoops[e] /\ sign[e][r] # "zero")}

\* The first of them puts the input before the output.
Respected(e) ==
  \A r \in Deciding(e) :
    (\A k \in Deciding(e) : r <= k) =>
      IF DifferAt(e, r) THEN omega[In(e)][r] < omega[Out(e)][r] ELSE sign[e][r] # "bad"

\* Nothing that was done for another graph or in an attempt that failed stands in
\* the way of the edge, and breakGraph still saw it.
Intact(e) ==
  /\ e \notin dropped
  /\ \A r \in 0 .. MaxLoops :
       <<e, r>> \notin stray /\ \A n \in {In(e), Out(e)} : <<n, r>> \notin lost \union moved

(* Every variable of the scheduler (ScheduledNode, Dependence::satLvl and    *)
(* carriedDeps) keeps its shape, and no stash makes satLvl grow.             *)
TypeOK ==
  /\ block \in Blocks
  /\ phi \in [Node -> [Row -> {"none", "lp", "free"}]]
  /\ sign \in [Edge -> [Row -> Sign]]
  /\ omega \in [Node -> [0 .. MaxLoops -> Nat]]
  /\ satLvl \in [Edge -> [1 .. SatSlots -> 0 .. 255]]
  /\ carried \in [Node -> SUBSET Row]
  /\ rank \in [Node -> 0 .. MaxLoops]
  /\ lost \subseteq Node \X Row
  /\ moved \subseteq Node \X Row
  /\ stray \subseteq Edge \X (0 .. MaxLoops)
  /\ dropped \subseteq Edge
  /\ stale \subseteq Edge

(* When optimize succeeds, the schedule executes the input of every          *)
(* dependence before its output, unless rows or omegas of it were written    *)
(* for another graph or left by an attempt that failed, or a retry dropped   *)
(* it: rows, fusion omegas, canFuse, the order of the components.            *)
LegalUnlessOverwritten == Succeeded => \A e \in Edge : Intact(e) => Respected(e)

(* satLevel, which LoopTreeSchedule uses to place addresses, never claims a  *)
(* dependence is satisfied further out than the schedule does, unless its    *)
(* rows were overwritten as above or its level is of another graph or of an  *)
(* attempt that was abandoned.                                               *)
SatLevelTruthful ==
  Succeeded => \A e \in Edge : Intact(e) /\ e \notin stale /\ satLvl[e][1] # Unset =>
                 \E r \in Deciding(e) : r <= satLevel(e)

(* Every dependence in the set that optimize returns still has a satLvl,      *)
(* through every stash and pop of optimizeSatDep and every retry.             *)
ReturnedAreSatisfied == Succeeded => \A e \in ret.sat : satLvl[e][1] # Unset

(* Once optimizeSatDep has satisfied everything at depth d, the optimize it   *)
(* calls for the inner loops succeeds: the code that would restore the old    *)
(* schedules, which assigns to a temporary, is never reached.                 *)
SatDepIsFinal == At("optimizeSatDep", "nested") => ret.ok

(* The recursion of optimize, optimizeSatDep and breakGraph ends, on every    *)
(* answer of the linear program, also when optOrth makes a second attempt.    *)
Terminates == <>(frames = <<>> /\ (ret.ok \/ \A n \in Node : rank[n] = 0))

(* A successful optimize respects every dependence.  The comment in breakGraph *)
(* says the components are solved independently and then fused where optimal   *)
(* schedules allow it.                                                         *)
Legal == Succeeded => \A e \in Edge : Respected(e)
=============================================================================
