--------------------------- MODULE LoopBlockProofs ---------------------------
(***************************************************************************)
(* Proofs about LoopBlock for every set of loop blocks: the shape of the   *)
(* state and of the call stack (Typed), that optimizeSatDep never has to   *)
(* go back (FinalInv), what optimize returns (SatInv), and that the        *)
(* schedule it leaves respects every dependence (LegalInv).                *)
(*                                                                         *)
(* LegalInv says, of every call on the stack, what the levels above its    *)
(* depth already decide about the edges of the graphs it has still to      *)
(* schedule (FrameInv), and that an edge no call has still to schedule is  *)
(* decided for good (DoneInv).  Its steps are laid out from the edge       *)
(* outward: what a step leaves as it was (Stable), what a solve and a      *)
(* fusion omega change, what waiting calls keep, how the stack moves, and  *)
(* then one lemma per action.                                              *)
(***************************************************************************)
EXTENDS LoopBlock, FiniteSetTheorems, SequenceTheorems, WellFoundedInduction, TLAPS

----------------------------------------------------------------------------
(* Numbers.                                                                *)

\* Every nonempty set of naturals has a least member.
LEMMA LeastExists ==
  ASSUME NEW S \in SUBSET Nat, S # {}
  PROVE  \E x \in S : \A y \in S : x <= y
<1> DEFINE R == {ss \in Nat \X Nat : ss[1] < ss[2]}
<1>1. IsWellFoundedOn(R, Nat)
  BY NatLessThanWellFounded DEF OpToRel
<1>2. PICK x \in S : \A y \in S : <<y, x>> \notin R
  <2> HIDE DEF R
  <2> QED
    BY <1>1, WFMin
<1>3. ASSUME NEW y \in S
      PROVE  x <= y
  <2>1. x \in Nat /\ y \in Nat /\ ~(y < x)
    BY <1>2
  <2> QED
    BY <2>1
<1> QED
  BY <1>3

\* A nonempty set of naturals up to a bound has a greatest member: MaxOf picks it.
LEMMA MaxOfIn ==
  ASSUME NEW b \in Nat, NEW S \in SUBSET (1 .. b), S # {}
  PROVE  MaxOf(S) \in S /\ \A k \in S : k <= MaxOf(S)
<1> DEFINE D == {b - k : k \in S}
<1>1. D \in SUBSET Nat /\ D # {}
  OBVIOUS
<1>2. PICK x \in D : \A y \in D : x <= y
  <2> HIDE DEF D
  <2> QED
    BY <1>1, LeastExists
<1>3. PICK m \in S : x = b - m
  OBVIOUS
<1>4. ASSUME NEW k \in S PROVE k <= m
  <2>1. b - k \in D
    OBVIOUS
  <2>2. b - m <= b - k
    BY <1>2, <1>3, <2>1
  <2>3. k \in 1 .. b /\ m \in 1 .. b
    OBVIOUS
  <2> QED
    BY <2>2, <2>3
<1>5. \E m2 \in S : \A k \in S : k <= m2
  BY <1>4
<1> QED
  BY <1>5 DEF MaxOf

----------------------------------------------------------------------------
(* The types of graphs, calls and results.                                 *)

GraphType ==
  {g \in [nodeIds : SUBSET Node, activeEdges : SUBSET Edge, own : SUBSET Node] :
     g.nodeIds # {} /\ g.own \subseteq g.nodeIds}

OptStart ==
  [fn : {"optimize"}, at : {"start"}, g : GraphType, d : 0 .. MaxLoops, maxDepth : 1 .. MaxLoops,
   sat : SUBSET Edge, backup : SUBSET Edge]
OptNested ==
  [fn : {"optimize"}, at : {"nested"}, g : GraphType, d : Row, maxDepth : 1 .. MaxLoops,
   sat : SUBSET Edge, backup : SUBSET Edge]
SatStart ==
  [fn : {"optimizeSatDep"}, at : {"start"}, g : GraphType, d : Row, maxDepth : 1 .. MaxLoops,
   sat : SUBSET Edge]
SatNested == [fn : {"optimizeSatDep"}, at : {"nested"}, sat : SUBSET Edge]
BreakStart == [fn : {"breakGraph"}, at : {"start"}, g : GraphType, d : Row, sat : SUBSET Edge]
BreakSolve ==
  {f \in [fn : {"breakGraph"}, at : {"solve"}, d : Row, sat : SUBSET Edge, i : Nat, graphs : Seq(GraphType)] :
     f.i >= 1 /\ Len(f.graphs) >= 1}
BreakFusing ==
  {f \in [fn : {"breakGraph"}, at : {"fuse"}, d : Row, sat : SUBSET Edge, i : Nat, graphs : Seq(GraphType),
          bases : Seq(Nat)] :
     /\ f.i >= 1
     /\ Len(f.bases) >= 1 /\ \A k \in 1 .. Len(f.bases) : f.bases[k] \in 1 .. Len(f.graphs)}
BreakNesting ==
  [fn : {"breakGraph"}, at : {"nested"}, d : 0 .. MaxLoops, sat : SUBSET Edge, graphs : Seq(GraphType)]

FrameType ==
  OptStart \union OptNested \union SatStart \union SatNested
    \union BreakStart \union BreakSolve \union BreakFusing \union BreakNesting

RetType == [ok : BOOLEAN, sat : SUBSET Edge, done : BOOLEAN]

Typed == TypeOK /\ frames \in Seq(FrameType) /\ ret \in RetType

----------------------------------------------------------------------------
(* The call stack.                                                         *)

\* What kind of frame the place of a call says it is.
LEMMA FrameKinds ==
  ASSUME NEW f \in FrameType
  PROVE  /\ f.fn = "optimize" /\ f.at = "start" => f \in OptStart
         /\ f.fn = "optimize" /\ f.at = "nested" => f \in OptNested
         /\ f.fn = "optimizeSatDep" /\ f.at = "start" => f \in SatStart
         /\ f.fn = "optimizeSatDep" /\ f.at = "nested" => f \in SatNested
         /\ f.fn = "breakGraph" /\ f.at = "start" => f \in BreakStart
         /\ f.fn = "breakGraph" /\ f.at = "solve" => f \in BreakSolve
         /\ f.fn = "breakGraph" /\ f.at = "fuse" => f \in BreakFusing
         /\ f.fn = "breakGraph" /\ f.at = "nested" => f \in BreakNesting
  BY DEF FrameType, OptStart, OptNested, SatStart, SatNested, BreakStart, BreakSolve, BreakFusing, BreakNesting

\* The innermost call is a frame at the end of a nonempty stack.
LEMMA TopIsFrame ==
  ASSUME Typed, frames # <<>>
  PROVE  /\ Len(frames) \in Nat \ {0}
         /\ Top \in FrameType
         /\ \A k \in 1 .. Len(frames) : frames[k] \in FrameType
<1>1. frames \in Seq(FrameType)
  BY DEF Typed
<1>2. Len(frames) \in Nat \ {0}
  BY <1>1, EmptySeq
<1>3. \A k \in 1 .. Len(frames) : frames[k] \in FrameType
  BY <1>1, ElementOfSeq
<1>4. Len(frames) \in 1 .. Len(frames)
  BY <1>2
<1> QED
  BY <1>2, <1>3, <1>4 DEF Top

\* A call that goes on changes only its own frame.
LEMMA GoesOn ==
  ASSUME Typed, frames # <<>>, NEW f \in FrameType, Goes(f)
  PROVE  /\ frames' \in Seq(FrameType) /\ Len(frames') = Len(frames)
         /\ \A k \in 1 .. Len(frames) - 1 : frames'[k] = frames[k]
         /\ frames'[Len(frames)] = f
         /\ ret' = NoRet /\ ret' \in RetType
<1>1. frames \in Seq(FrameType) /\ Len(frames) \in Nat \ {0}
  BY TopIsFrame DEF Typed
<1>2. Len(frames) \in 1 .. Len(frames)
  BY <1>1
<1>3. frames' = [frames EXCEPT ![Len(frames)] = f] /\ ret' = NoRet
  BY DEF Goes
<1>4. /\ frames' \in Seq(FrameType) /\ Len(frames') = Len(frames)
      /\ \A j \in 1 .. Len(frames) : frames'[j] = IF j = Len(frames) THEN f ELSE frames[j]
  <2> HIDE DEF FrameType
  <2> QED
    BY <1>1, <1>2, <1>3, ExceptSeq
<1>5. \A k \in 1 .. Len(frames) - 1 : k \in 1 .. Len(frames) /\ k # Len(frames)
  BY <1>1
<1> QED
  BY <1>2, <1>3, <1>4, <1>5 DEF NoRet, RetType

\* A call that calls another changes its own frame and adds one.
LEMMA CallsOn ==
  ASSUME Typed, frames # <<>>, NEW f \in FrameType, NEW c \in FrameType, Calls(f, c)
  PROVE  /\ frames' \in Seq(FrameType) /\ Len(frames') = Len(frames) + 1
         /\ \A k \in 1 .. Len(frames) - 1 : frames'[k] = frames[k]
         /\ frames'[Len(frames)] = f /\ frames'[Len(frames) + 1] = c
         /\ ret' = NoRet /\ ret' \in RetType
<1> DEFINE g == [frames EXCEPT ![Len(frames)] = f]
<1>1. frames \in Seq(FrameType) /\ Len(frames) \in Nat \ {0}
  BY TopIsFrame DEF Typed
<1>2. Len(frames) \in 1 .. Len(frames)
  BY <1>1
<1>3. frames' = Append(g, c) /\ ret' = NoRet
  BY DEF Calls
<1>4. /\ g \in Seq(FrameType) /\ Len(g) = Len(frames)
      /\ \A j \in 1 .. Len(frames) : g[j] = IF j = Len(frames) THEN f ELSE frames[j]
  BY <1>1, <1>2, ExceptSeq
<1>5. \A k \in 1 .. Len(frames) - 1 : k \in 1 .. Len(frames) /\ k # Len(frames)
  BY <1>1
<1> HIDE DEF g
<1>6. /\ frames' \in Seq(FrameType) /\ Len(frames') = Len(g) + 1
      /\ \A k \in 1 .. Len(g) : frames'[k] = g[k]
      /\ frames'[Len(g) + 1] = c
  BY <1>3, <1>4, AppendProperties
<1> QED
  BY <1>2, <1>3, <1>4, <1>5, <1>6 DEF NoRet, RetType

\* The beginning of a sequence.
LEMMA FrontOfSeq ==
  ASSUME NEW S, NEW s \in Seq(S), NEW m \in Nat, m <= Len(s)
  PROVE  /\ SubSeq(s, 1, m) \in Seq(S) /\ Len(SubSeq(s, 1, m)) = m
         /\ \A k \in 1 .. m : SubSeq(s, 1, m)[k] = s[k]
<1>1. Len(s) \in Nat
  OBVIOUS
<1>2. \A k \in 1 .. m : s[k] \in S
  BY <1>1, ElementOfSeq
<1>3. (\A k \in 1 .. m : 1 + k - 1 = k) /\ m - 1 + 1 = m /\ (1 <= m \/ m = 0)
  OBVIOUS
<1>4. /\ SubSeq(s, 1, m) \in Seq(S)
      /\ Len(SubSeq(s, 1, m)) = IF 1 <= m THEN m - 1 + 1 ELSE 0
      /\ \A k \in 1 .. m - 1 + 1 : SubSeq(s, 1, m)[k] = s[1 + k - 1]
  BY <1>2, SubSeqProperties
<1> QED
  BY <1>3, <1>4

\* A call that returns removes its frame.
LEMMA ReturnsOn ==
  ASSUME Typed, frames # <<>>, NEW ok \in BOOLEAN, NEW sat \in SUBSET Edge, Returns(ok, sat)
  PROVE  /\ frames' \in Seq(FrameType) /\ Len(frames') = Len(frames) - 1
         /\ \A k \in 1 .. Len(frames) - 1 : frames'[k] = frames[k]
         /\ ret' = [ok |-> ok, sat |-> sat, done |-> TRUE] /\ ret' \in RetType
<1>1. frames \in Seq(FrameType) /\ Len(frames) \in Nat \ {0}
  BY TopIsFrame DEF Typed
<1>2. frames' = SubSeq(frames, 1, Len(frames) - 1) /\ ret' = [ok |-> ok, sat |-> sat, done |-> TRUE]
  BY DEF Returns
<1>3. /\ frames' \in Seq(FrameType) /\ Len(frames') = Len(frames) - 1
      /\ \A k \in 1 .. Len(frames) - 1 : frames'[k] = frames[k]
  <2> HIDE DEF FrameType
  <2>1. Len(frames) - 1 \in Nat /\ Len(frames) - 1 <= Len(frames)
    BY <1>1
  <2> QED
    BY <1>1, <1>2, <2>1, FrontOfSeq
<1> QED
  BY <1>2, <1>3 DEF RetType

----------------------------------------------------------------------------
(* Blocks, graphs and components.                                          *)

\* What a block is made of.
LEMMA BlockFacts ==
  ASSUME block \in Blocks
  PROVE  /\ \A e \in Edge : /\ In(e) \in Node /\ Out(e) \in Node
                            /\ block.edgeLoops[e] \in 1 .. MaxLoops
                            /\ block.edgeLoops[e] <= block.nodeLoops[In(e)]
                            /\ block.edgeLoops[e] <= block.nodeLoops[Out(e)]
         /\ \A n \in Node : block.nodeLoops[n] \in 1 .. MaxLoops /\ block.rank[n] \in Row
         /\ block.rank \in [Node -> 0 .. MaxLoops]
<1>1. block \in BlockType
  BY BlockAssumption
<1>2. /\ block.nodeIn \in [Edge -> Node] /\ block.nodeOut \in [Edge -> Node]
      /\ block.edgeLoops \in [Edge -> 1 .. MaxLoops] /\ block.nodeLoops \in [Node -> 1 .. MaxLoops]
      /\ block.rank \in [Node -> 0 .. MaxLoops - 1]
  BY <1>1 DEF BlockType
<1>3. \A e \in Edge : /\ block.edgeLoops[e] <= block.nodeLoops[block.nodeIn[e]]
                      /\ block.edgeLoops[e] <= block.nodeLoops[block.nodeOut[e]]
  BY BlockAssumption
<1>4. MaxLoops \in Nat
  BY LoopAssumption
<1>5. block.rank \in [Node -> 0 .. MaxLoops]
  BY <1>2, <1>4
<1> QED
  BY <1>2, <1>3, <1>5 DEF In, Out, Row

\* A graph has a depth.
LEMMA MaxDepthFacts ==
  ASSUME block \in Blocks, NEW g \in GraphType
  PROVE  /\ calcMaxDepth(g) \in 1 .. MaxLoops
         /\ \A n \in g.nodeIds : block.nodeLoops[n] <= calcMaxDepth(g)
<1> DEFINE S == {block.nodeLoops[n] : n \in g.nodeIds}
<1>1. g.nodeIds \in SUBSET Node /\ g.nodeIds # {}
  BY DEF GraphType
<1>2. S \in SUBSET (1 .. MaxLoops) /\ S # {}
  BY <1>1, BlockFacts
<1>3. MaxLoops \in Nat
  BY LoopAssumption
<1>4. MaxOf(S) \in S /\ \A k \in S : k <= MaxOf(S)
  <2> HIDE DEF S
  <2> QED
    BY <1>2, <1>3, MaxOfIn
<1> QED
  BY <1>2, <1>4 DEF calcMaxDepth

\* The graphs that the scheduler makes are graphs.
LEMMA FullGraphType == fullGraph \in GraphType
  BY NodeAssumption DEF fullGraph, GraphType

LEMMA AfterType ==
  ASSUME NEW g \in GraphType, NEW o
  PROVE  After(g, o) \in GraphType /\ After(g, o).nodeIds = g.nodeIds /\ After(g, o).own = g.own
         /\ After(g, o).activeEdges = g.activeEdges \ (o.deactivated \union o.empty)
  BY DEF After, GraphType

LEMMA MergedType ==
  ASSUME NEW g \in GraphType, NEW h \in GraphType
  PROVE  Merged(g, h) \in GraphType
  BY DEF Merged, GraphType

LEMMA EdgesOfGraph ==
  ASSUME NEW g, NEW d
  PROVE  getEdges(g, d) \in SUBSET Edge
  BY DEF getEdges

\* A node comes before itself, and coming before is transitive.
LEMMA BeforeFacts ==
  ASSUME block \in Blocks
  PROVE  /\ \A N \in SUBSET Node : N \subseteq Before(N) /\ Before(N) \subseteq Node
         /\ \A n, m \in Node : m \in Before({n}) => Before({m}) \subseteq Before({n})
         /\ \A N \in SUBSET Node : \A n \in Before(N) : Before({n}) \subseteq Before(N)
         /\ \A N \in SUBSET Node : \A e \in Edge : Out(e) \in Before(N) => In(e) \in Before(N)
<1>1. \A N \in SUBSET Node : N \subseteq Before(N) /\ Before(N) \subseteq Node
  BY DEF Before
<1>2. ASSUME NEW N \in SUBSET Node, NEW n \in Before(N)
      PROVE  Before({n}) \subseteq Before(N)
  <2> SUFFICES ASSUME NEW m \in Before({n}), NEW S \in SUBSET Node, N \subseteq S,
                      \A e \in Edge : Out(e) \in S => In(e) \in S
               PROVE  m \in S
    BY DEF Before
  <2>1. n \in S
    BY <1>2 DEF Before
  <2> QED
    BY <2>1 DEF Before
<1>3. ASSUME NEW N \in SUBSET Node, NEW e \in Edge, Out(e) \in Before(N)
      PROVE  In(e) \in Before(N)
  <2>1. In(e) \in Node
    BY BlockFacts
  <2> SUFFICES ASSUME NEW S \in SUBSET Node, N \subseteq S,
                      \A f \in Edge : Out(f) \in S => In(f) \in S
               PROVE  In(e) \in S
    BY <2>1 DEF Before
  <2>2. Out(e) \in S
    BY <1>3 DEF Before
  <2> QED
    BY <2>2
<1>4. ASSUME NEW n \in Node, NEW m \in Node, m \in Before({n})
      PROVE  Before({m}) \subseteq Before({n})
  <2>1. {n} \in SUBSET Node
    OBVIOUS
  <2> QED
    BY <1>2, <1>4, <2>1
<1> QED
  BY <1>1, <1>2, <1>3, <1>4

\* The components: nonempty sets of nodes, of which no two share a node, that
\* cover the nodes they are of.
LEMMA ComponentFacts ==
  ASSUME block \in Blocks, NEW N \in SUBSET Node
  PROVE  /\ SCCs(N) \in SUBSET SUBSET Node /\ {} \notin SCCs(N)
         /\ \A c1, c2 \in SCCs(N) : c1 \intersect c2 # {} => c1 = c2
         /\ \A n \in N : \E c \in SCCs(N) : n \in c
         /\ IsFiniteSet(SCCs(N)) /\ Cardinality(SCCs(N)) \in Nat
<1> DEFINE B == Before(N)
           comp(n) == {m \in Before({n}) : n \in Before({m})}
<1>1. /\ N \subseteq B /\ B \subseteq Node
      /\ \A n \in Node : n \in Before({n}) /\ Before({n}) \subseteq Node
      /\ \A n, m \in Node : m \in Before({n}) => Before({m}) \subseteq Before({n})
  <2>1. \A n \in Node : {n} \in SUBSET Node
    OBVIOUS
  <2> QED
    BY <2>1, BeforeFacts
<1>2. \A n \in B : Before({n}) \subseteq B
  BY BeforeFacts
<1>3. SCCs(N) = {comp(n) : n \in B}
  <2> HIDE DEF B
  <2>1. \A n \in B : {m \in [k \in B |-> Before({k})][n] : n \in [k \in B |-> Before({k})][m]} = comp(n)
    BY <1>2
  <2>2. DOMAIN [k \in B |-> Before({k})] = B
    OBVIOUS
  <2> QED
    BY <2>1, <2>2 DEF SCCs, B
<1>4. \A n \in B : n \in comp(n) /\ comp(n) \subseteq Node
  BY <1>1
<1>5. ASSUME NEW a \in B, NEW b \in B, NEW m \in comp(a), m \in comp(b)
      PROVE  comp(a) = comp(b)
  <2>1. a \in Node /\ b \in Node /\ m \in Node
    BY <1>1
  <2>2. Before({a}) = Before({m}) /\ Before({b}) = Before({m})
    BY <1>1, <1>5, <2>1
  <2>3. \A k \in Before({m}) : k \in Node
    BY <1>1, <2>1
  <2>4. \A k \in Node : a \in Before({k}) <=> m \in Before({k})
    BY <1>1, <2>1, <2>2
  <2>5. \A k \in Node : b \in Before({k}) <=> m \in Before({k})
    BY <1>1, <2>1, <2>2
  <2> QED
    BY <2>2, <2>3, <2>4, <2>5
<1>6. IsFiniteSet(B)
  <2> HIDE DEF B
  <2> QED
    BY <1>1, NodeAssumption, FS_Subset
<1>7. IsFiniteSet(SCCs(N)) /\ Cardinality(SCCs(N)) \in Nat
  <2>1. SCCs(N) \in SUBSET SUBSET Node
    BY <1>3, <1>4
  <2>2. IsFiniteSet(SUBSET Node)
    BY NodeAssumption, FS_SUBSET
  <2>3. IsFiniteSet(SCCs(N))
    BY <2>1, <2>2, FS_Subset
  <2> QED
    BY <2>3, FS_CardinalityType
<1> HIDE DEF B, comp
<1> QED
  BY <1>1, <1>3, <1>4, <1>5, <1>7

\* A function on 1 .. n is a sequence of length n.
LEMMA FunctionIsSeq ==
  ASSUME NEW S, NEW n \in Nat, NEW f \in [1 .. n -> S]
  PROVE  f \in Seq(S) /\ Len(f) = n
  OBVIOUS

Split(g, s) == [k \in DOMAIN s |-> subGraph(g, s[k])]

\* What breakGraph splits a graph into.
LEMMA SplitType ==
  ASSUME block \in Blocks, NEW g \in GraphType, NEW s \in stronglyConnectedComponents(g)
  PROVE  LET graphs == Split(g, s)
         IN  /\ graphs \in Seq(GraphType) /\ Len(graphs) = Cardinality(SCCs(g.nodeIds))
             /\ DOMAIN s = 1 .. Len(graphs)
             /\ \A k \in 1 .. Len(graphs) :
                  /\ graphs[k].nodeIds = s[k] /\ s[k] \in SCCs(g.nodeIds)
                  /\ graphs[k].own = g.own \intersect s[k]
                  /\ graphs[k].activeEdges = g.activeEdges
<1> DEFINE C == SCCs(g.nodeIds)
           graphs == Split(g, s)
<1>1. g.nodeIds \in SUBSET Node /\ g.own \subseteq g.nodeIds /\ g.activeEdges \in SUBSET Edge
  BY DEF GraphType
<1>2. C \in SUBSET SUBSET Node /\ {} \notin C /\ Cardinality(C) \in Nat
  BY <1>1, ComponentFacts
<1>3. s \in [1 .. Cardinality(C) -> C]
  BY DEF stronglyConnectedComponents
<1> HIDE DEF C
<1>4. ASSUME NEW k \in 1 .. Cardinality(C)
      PROVE  /\ subGraph(g, s[k]) \in GraphType
             /\ subGraph(g, s[k]).nodeIds = s[k] /\ s[k] \in C
             /\ subGraph(g, s[k]).own = g.own \intersect s[k]
             /\ subGraph(g, s[k]).activeEdges = g.activeEdges
  <2>1. s[k] \in C /\ s[k] \in SUBSET Node /\ s[k] # {}
    BY <1>2, <1>3
  <2> QED
    BY <1>1, <2>1 DEF subGraph, GraphType
<1>5. graphs \in [1 .. Cardinality(C) -> GraphType] /\ DOMAIN s = 1 .. Cardinality(C)
  BY <1>3, <1>4 DEF Split
<1>6. graphs \in Seq(GraphType) /\ Len(graphs) = Cardinality(C)
  <2> HIDE DEF graphs
  <2> QED
    BY <1>2, <1>5, FunctionIsSeq
<1> QED
  BY <1>4, <1>5, <1>6 DEF Split, C

----------------------------------------------------------------------------
(* Satisfaction levels.                                                    *)

LevelsType == [Edge -> [1 .. SatSlots -> 0 .. 255]]

\* Stashing and popping keep the number of slots; what is popped right after it
\* was stashed is the level it was.
LEMMA StashFacts ==
  ASSUME NEW s \in [1 .. SatSlots -> 0 .. 255]
  PROVE  /\ stashSatLevel(s) \in [1 .. SatSlots -> 0 .. 255]
         /\ popSatLevel(stashSatLevel(s)) \in [1 .. SatSlots -> 0 .. 255]
         /\ popSatLevel(stashSatLevel(s))[1] = s[1]
<1> DEFINE V == 0 .. 255
           n == SatSlots
           t == stashSatLevel(s)
           u == popSatLevel(t)
<1>1. n \in Nat /\ n >= 2 /\ Unset \in V
  BY LoopAssumption DEF Unset
<1>2. s \in Seq(V) /\ Len(s) = n
  BY <1>1, FunctionIsSeq
<1> HIDE DEF V, n
<1>3. SubSeq(s, 1, n - 1) \in Seq(V) /\ Len(SubSeq(s, 1, n - 1)) = n - 1
      /\ \A k \in 1 .. n - 1 : SubSeq(s, 1, n - 1)[k] = s[k]
  <2>1. n - 1 \in Nat /\ n - 1 <= Len(s)
    BY <1>1, <1>2
  <2> QED
    BY <1>2, <2>1, FrontOfSeq
<1>4. t \in Seq(V) /\ Len(t) = n /\ \A k \in 1 .. n - 1 : t[k + 1] = s[k]
  BY <1>1, <1>3 DEF stashSatLevel, n
<1> HIDE DEF t
<1>5. Tail(t) \in Seq(V) /\ Len(Tail(t)) = n - 1 /\ \A k \in 1 .. n - 1 : Tail(t)[k] = t[k + 1]
  BY <1>1, <1>4
<1>6. u \in Seq(V) /\ Len(u) = n /\ \A k \in 1 .. n - 1 : u[k] = t[k + 1]
  BY <1>1, <1>4, <1>5 DEF popSatLevel, n
<1>7. t \in [1 .. n -> V] /\ u \in [1 .. n -> V]
  <2> HIDE DEF u
  <2> QED
    BY <1>4, <1>6, LenProperties
<1> QED
  BY <1>1, <1>4, <1>6, <1>7 DEF t, u, V, n

\* Setting a level sets one.
LEMMA SetLevelFacts ==
  ASSUME NEW s \in [1 .. SatSlots -> 0 .. 255], NEW d \in Row
  PROVE  /\ setSatLevelLP(s, d) \in [1 .. SatSlots -> 0 .. 255]
         /\ setSatLevelIndep(s, d) \in [1 .. SatSlots -> 0 .. 255]
         /\ setSatLevelLP(s, d)[1] = 128 + d /\ setSatLevelIndep(s, d)[1] = d
         /\ setSatLevelLP(s, d)[1] # Unset /\ setSatLevelIndep(s, d)[1] # Unset
<1>1. d \in Nat /\ d <= 126 /\ 1 \in 1 .. SatSlots
  BY LoopAssumption DEF Row
<1> QED
  BY <1>1 DEF setSatLevelLP, setSatLevelIndep, Unset

----------------------------------------------------------------------------
(* The steps keep the types.                                               *)

OutcomeType == [deactivated : SUBSET Edge, empty : SUBSET Edge]

LEMMA OutcomesType ==
  ASSUME NEW g, NEW d, NEW b, NEW o \in Outcomes(g, d, b)
  PROVE  /\ o \in OutcomeType
         /\ o.deactivated \subseteq getEdges(g, d) /\ o.empty \subseteq getEdges(g, d)
         /\ o.deactivated \intersect o.empty = {}
         /\ b => o.deactivated = getEdges(g, d)
  BY EdgesOfGraph DEF Outcomes, OutcomeType

LEMMA NodesOfSolve ==
  ASSUME NEW g, NEW d
  PROVE  ByProgram(g, d) \subseteq Node /\ DepFree(g, d) \subseteq Node
  BY DEF ByProgram, DepFree

LEMMA SolvedType ==
  ASSUME TypeOK, NEW g \in GraphType, NEW d \in Row, NEW o \in OutcomeType,
         NEW levels \in LevelsType, NEW flags \in [Node -> SUBSET Row],
         Solved(g, d, o, levels, flags)
  PROVE  TypeOK'
<1> DEFINE act     == getEdges(g, d)
           program == ByProgram(g, d)
           free    == DepFree(g, d)
           new     == program \union {n \in free : phi[n][d] # "free"}
           touched == {e \in Edge : d < block.edgeLoops[e] /\ {In(e), Out(e)} \intersect new # {}}
           solved  == o.deactivated \union o.empty
           row(e)  == IF e \in o.deactivated THEN "pos" ELSE IF e \in o.empty THEN "indep" ELSE "zero"
<1>1. act \subseteq Edge /\ new \subseteq Node /\ touched \subseteq Edge /\ solved \subseteq Edge
  BY EdgesOfGraph, NodesOfSolve DEF OutcomeType
<1>2. block' \in Blocks /\ omega' \in [Node -> [0 .. MaxLoops -> Nat]] /\ rank' \in [Node -> 0 .. MaxLoops]
      /\ moved' \subseteq Node \X Row /\ stray' \subseteq Edge \X (0 .. MaxLoops)
  BY DEF Solved, TypeOK
<1>3. phi' \in [Node -> [Row -> {"none", "lp", "free"}]]
  BY DEF Solved, TypeOK
<1>4. satLvl' \in LevelsType
  <2>1. ASSUME NEW e \in Edge PROVE levels[e] \in [1 .. SatSlots -> 0 .. 255]
    BY DEF LevelsType
  <2>2. ASSUME NEW e \in Edge
        PROVE  /\ setSatLevelLP(levels[e], d) \in [1 .. SatSlots -> 0 .. 255]
               /\ setSatLevelIndep(levels[e], d) \in [1 .. SatSlots -> 0 .. 255]
    BY <2>1, SetLevelFacts
  <2> QED
    BY <2>1, <2>2 DEF Solved, LevelsType
<1>5. carried' \in [Node -> SUBSET Row]
  BY DEF Solved
<1>6. lost' \subseteq Node \X Row
  BY <1>1 DEF Solved, TypeOK
<1>7. dropped' \subseteq Edge /\ stale' \subseteq Edge
  BY <1>1 DEF Solved, TypeOK
<1>8. sign' \in [Edge -> [Row -> Sign]]
  <2>1. PICK any \in [touched \ act -> {"zero", "bad"}] :
          sign' = [e \in Edge |-> [r \in Row |->
                     IF r = d /\ e \in act THEN row(e)
                     ELSE IF r = d /\ e \in touched THEN any[e]
                     ELSE IF r > d /\ e \in touched /\ sign[e][r] = "indep" THEN "zero"
                     ELSE sign[e][r]]]
    BY DEF Solved
  <2>2. sign \in [Edge -> [Row -> Sign]]
    BY DEF TypeOK
  <2>3. \A e \in Edge : row(e) \in Sign
    BY DEF Sign
  <2>4. \A e \in touched \ act : any[e] \in Sign
    BY DEF Sign
  <2> HIDE DEF touched, act, row
  <2>5. "zero" \in Sign
    BY DEF Sign
  <2> QED
    BY <2>1, <2>2, <2>3, <2>4, <2>5
<1> QED
  BY <1>2, <1>3, <1>4, <1>5, <1>6, <1>7, <1>8 DEF TypeOK, LevelsType

LEMMA FusionOmegaType ==
  ASSUME TypeOK, NEW g \in GraphType, NEW d \in Row, NEW o \in Nat, SetFusionOmega(g, d, o)
  PROVE  TypeOK'
<1> DEFINE beyond == {n \in g.nodeIds : d > block.nodeLoops[n]}
           offset(n) == d - block.nodeLoops[n] - 1
<1>1. /\ block \in Blocks /\ phi \in [Node -> [Row -> {"none", "lp", "free"}]]
      /\ sign \in [Edge -> [Row -> Sign]] /\ omega \in [Node -> [0 .. MaxLoops -> Nat]]
      /\ lost \subseteq Node \X Row /\ moved \subseteq Node \X Row
      /\ stray \subseteq Edge \X (0 .. MaxLoops)
  BY DEF TypeOK
<1>2. g.nodeIds \subseteq Node /\ g.own \subseteq Node /\ beyond \subseteq Node
  BY DEF GraphType
<1>3. MaxLoops \in Nat /\ d \in 0 .. MaxLoops /\ d \in Int
  BY LoopAssumption DEF Row
<1>4. ASSUME NEW n \in beyond PROVE offset(n) \in Row
  <2>1. n \in Node
    BY <1>2
  <2>2. block.nodeLoops[n] \in 1 .. MaxLoops
    BY <1>1, <2>1, BlockFacts
  <2>3. d > block.nodeLoops[n] /\ d \in 0 .. MaxLoops - 1
    BY <1>4 DEF Row
  <2> QED
    BY <1>3, <2>2, <2>3 DEF Row
<1>5. omega' \in [Node -> [0 .. MaxLoops -> Nat]]
  <2>1. omega' = [n \in Node |-> IF n \in g.nodeIds \ beyond THEN [omega[n] EXCEPT ![d] = o] ELSE omega[n]]
    BY DEF SetFusionOmega
  <2>2. ASSUME NEW n \in Node
        PROVE  /\ omega[n] \in [0 .. MaxLoops -> Nat]
               /\ [omega[n] EXCEPT ![d] = o] \in [0 .. MaxLoops -> Nat]
    BY <1>1, <1>3
  <2> HIDE DEF beyond
  <2> QED
    BY <2>1, <2>2
<1>6. sign' \in [Edge -> [Row -> Sign]]
  <2>1. sign' = [e \in Edge |-> [r \in Row |->
                   IF \E n \in beyond \intersect {In(e), Out(e)} : offset(n) = r THEN "bad" ELSE sign[e][r]]]
    BY DEF SetFusionOmega
  <2>2. "bad" \in Sign
    BY DEF Sign
  <2> HIDE DEF beyond, offset
  <2> QED
    BY <1>1, <2>1, <2>2
<1>7. phi' \in [Node -> [Row -> {"none", "lp", "free"}]]
  <2>1. phi' = [n \in Node |-> IF n \in beyond THEN [phi[n] EXCEPT ![offset(n)] = "none"] ELSE phi[n]]
    BY DEF SetFusionOmega
  <2> HIDE DEF beyond, offset
  <2>2. ASSUME NEW n \in Node
        PROVE  /\ phi[n] \in [Row -> {"none", "lp", "free"}]
               /\ [phi[n] EXCEPT ![offset(n)] = "none"] \in [Row -> {"none", "lp", "free"}]
    BY <1>1
  <2> QED
    BY <2>1, <2>2
<1>8. lost' \subseteq Node \X Row
  <2>1. lost' = lost \union {<<n, offset(n)>> : n \in beyond}
    BY DEF SetFusionOmega
  <2> HIDE DEF beyond, offset
  <2> QED
    BY <1>1, <1>2, <1>4, <2>1
<1>9. moved' \subseteq Node \X Row
  BY <1>1, <1>2 DEF SetFusionOmega
<1>10. stray' \subseteq Edge \X (0 .. MaxLoops)
  <2>1. Leftovers(g, d) \subseteq Edge \X (0 .. MaxLoops)
    BY <1>3 DEF Leftovers, Owned
  <2> QED
    BY <1>1, <2>1 DEF SetFusionOmega
<1> QED
  BY <1>1, <1>5, <1>6, <1>7, <1>8, <1>9, <1>10 DEF SetFusionOmega, TypeOK

\* A call of optimize at a depth that a nest can have.
LEMMA OptimizeType ==
  ASSUME NEW g \in GraphType, NEW d \in 0 .. MaxLoops, NEW m \in 1 .. MaxLoops
  PROVE  optimize(g, d, m) \in OptStart /\ optimize(g, d, m) \in FrameType
  BY DEF optimize, OptStart, FrameType, GraphType

LEMMA BreakGraphType ==
  ASSUME NEW g \in GraphType, NEW d \in Row
  PROVE  breakGraph(g, d) \in FrameType
  BY DEF breakGraph, BreakStart, FrameType

LEMMA UnsolvedType ==
  ASSUME TypeOK, Unsolved
  PROVE  TypeOK'
  BY DEF TypeOK, Unsolved, history

LEMMA AbandonsType ==
  ASSUME TypeOK, NEW g \in GraphType, Abandons(g), dropped' \subseteq Edge
  PROVE  TypeOK'
  BY DEF TypeOK, Abandons, GraphType

LEMMA OptimizeTyped ==
  ASSUME Typed, Optimize
  PROVE  Typed'
<1>1. TypeOK /\ ret \in RetType
  BY DEF Typed
<1>2. block \in Blocks /\ satLvl \in LevelsType /\ carried \in [Node -> SUBSET Row]
  BY <1>1 DEF TypeOK, LevelsType
<1>3. frames # <<>> /\ Top.fn = "optimize"
  BY DEF Optimize, OptimizeLeaf, OptimizeSolved, OptimizeUnsolved, OptimizeNested, OptimizeNestedFailed, At
<1>4. Top \in FrameType
  BY <1>3, TopIsFrame
<1>5. CASE OptimizeLeaf
  <2>1. Returns(TRUE, {}) /\ Unsolved
    BY <1>5 DEF OptimizeLeaf
  <2> QED
    BY <1>1, <1>3, <2>1, ReturnsOn, UnsolvedType DEF Typed
<1>6. CASE OptimizeSolved
  <2>1. Top \in OptStart /\ Top.d < Top.maxDepth
    BY <1>3, <1>4, <1>6, FrameKinds DEF OptimizeSolved, At
  <2>2. Top.g \in GraphType /\ Top.d \in Row /\ Top.maxDepth \in 1 .. MaxLoops
    BY <2>1, LoopAssumption DEF OptStart, Row
  <2>3. PICK o \in Outcomes(Top.g, Top.d, FALSE) :
          /\ Solved(Top.g, Top.d, o, satLvl, carried)
          /\ IF Top.d + 1 = Top.maxDepth
             THEN Returns(TRUE, o.deactivated)
             ELSE Calls([Top EXCEPT !.at = "nested", !.g = After(Top.g, o), !.sat = o.deactivated],
                        optimize(After(Top.g, o), Top.d + 1, Top.maxDepth))
    BY <1>6 DEF OptimizeSolved
  <2>4. o \in OutcomeType /\ o.deactivated \in SUBSET Edge
    <3>1. o \in OutcomeType
      BY <2>3, OutcomesType
    <3> QED
      BY <3>1 DEF OutcomeType
  <2>5. TypeOK'
    BY <1>1, <1>2, <2>2, <2>3, <2>4, SolvedType
  <2>6. CASE Top.d + 1 = Top.maxDepth
    BY <1>3, <2>3, <2>4, <2>5, <2>6, ReturnsOn DEF Typed
  <2>7. CASE Top.d + 1 # Top.maxDepth
    <3>1. After(Top.g, o) \in GraphType
      BY <2>2, AfterType
    <3>2. [Top EXCEPT !.at = "nested", !.g = After(Top.g, o), !.sat = o.deactivated] \in FrameType
      BY <2>1, <2>2, <2>4, <3>1 DEF OptStart, OptNested, FrameType
    <3>3. optimize(After(Top.g, o), Top.d + 1, Top.maxDepth) \in FrameType
      <4>1. Top.d + 1 \in 0 .. MaxLoops
        BY <2>2, LoopAssumption DEF Row
      <4> QED
        BY <2>2, <3>1, <4>1, OptimizeType
    <3> QED
      BY <1>3, <2>3, <2>5, <2>7, <3>2, <3>3, CallsOn DEF Typed
  <2> QED
    BY <2>6, <2>7
<1>7. CASE OptimizeUnsolved
  <2>1. Top \in OptStart /\ Top.d < Top.maxDepth
    BY <1>3, <1>4, <1>7, FrameKinds DEF OptimizeUnsolved, At
  <2>2. Top.g \in GraphType /\ Top.d \in Row
    BY <2>1, LoopAssumption DEF OptStart, Row
  <2>3. breakGraph(Top.g, Top.d) \in FrameType
    BY <2>2, BreakGraphType
  <2>4. TypeOK'
    BY <1>1, <1>7, <2>2, AbandonsType DEF OptimizeUnsolved, TypeOK
  <2> QED
    BY <1>3, <1>7, <2>3, <2>4, GoesOn DEF OptimizeUnsolved, Typed
<1>8. CASE OptimizeNested
  <2>1. Top \in OptNested
    BY <1>3, <1>4, <1>8, FrameKinds DEF OptimizeNested, At
  <2>2. TypeOK'
    BY <1>1, <1>8, UnsolvedType DEF OptimizeNested
  <2>3. Top.sat \union ret.sat \in SUBSET Edge
    BY <1>1, <2>1 DEF OptNested, RetType
  <2>4. CASE Top.sat = {} \/ ret.sat = {}
    <3>1. Returns(TRUE, Top.sat \union ret.sat)
      BY <1>8, <2>4 DEF OptimizeNested
    <3> QED
      BY <1>3, <2>2, <2>3, <3>1, ReturnsOn DEF Typed
  <2>5. CASE ~(Top.sat = {} \/ ret.sat = {})
    <3>1. Goes(optimizeSatDep(Top.g, Top.d, Top.maxDepth, Top.sat \union ret.sat, Top.backup))
      BY <1>8, <2>5 DEF OptimizeNested
    <3>2. optimizeSatDep(Top.g, Top.d, Top.maxDepth, Top.sat \union ret.sat, Top.backup) \in FrameType
      BY <2>1, <2>3 DEF optimizeSatDep, OptNested, SatStart, FrameType, GraphType
    <3> QED
      BY <1>3, <2>2, <3>1, <3>2, GoesOn DEF Typed
  <2> QED
    BY <2>4, <2>5
<1>9. CASE OptimizeNestedFailed
  <2>1. Top \in OptNested
    BY <1>3, <1>4, <1>9, FrameKinds DEF OptimizeNestedFailed, At
  <2>2. Top.g \in GraphType /\ Top.d \in Row /\ Top.backup \in SUBSET Edge
    BY <2>1 DEF OptNested
  <2>3. breakGraph(Top.g, Top.d) \in FrameType
    BY <2>2, BreakGraphType
  <2>4. TypeOK'
    BY <1>1, <1>9, <2>2, AbandonsType DEF OptimizeNestedFailed, TypeOK
  <2> QED
    BY <1>3, <1>9, <2>3, <2>4, GoesOn DEF OptimizeNestedFailed, Typed
<1> QED
  BY <1>5, <1>6, <1>7, <1>8, <1>9 DEF Optimize

LEMMA SatDepTyped ==
  ASSUME Typed, SatDep
  PROVE  Typed'
<1>1. TypeOK /\ ret \in RetType
  BY DEF Typed
<1>2. block \in Blocks /\ satLvl \in LevelsType /\ carried \in [Node -> SUBSET Row]
  BY <1>1 DEF TypeOK, LevelsType
<1>3. frames # <<>> /\ Top.fn = "optimizeSatDep"
  BY DEF SatDep, SatDepSolved, SatDepUnsolved, SatDepNested, At
<1>4. Top \in FrameType
  BY <1>3, TopIsFrame
<1>5. CASE SatDepSolved
  <2> DEFINE edges  == getEdges(Top.g, Top.d)
             levels == [e \in Edge |-> IF e \in edges THEN stashSatLevel(satLvl[e]) ELSE satLvl[e]]
             flags  == [n \in Node |-> {k \in carried[n] : k < Top.d}]
  <2>1. Top \in SatStart
    BY <1>3, <1>4, <1>5, FrameKinds DEF SatDepSolved, At
  <2>2. Top.g \in GraphType /\ Top.d \in Row /\ Top.maxDepth \in 1 .. MaxLoops
    BY <2>1 DEF SatStart
  <2>3. PICK o \in Outcomes(Top.g, Top.d, TRUE) :
          /\ Solved(Top.g, Top.d, o, levels, flags)
          /\ Calls([fn |-> "optimizeSatDep", at |-> "nested", sat |-> o.deactivated],
                   optimize(After(Top.g, o), Top.d + 1, Top.maxDepth))
    BY <1>5 DEF SatDepSolved
  <2>4. o \in OutcomeType
    BY <2>3, OutcomesType
  <2>5. levels \in LevelsType
    <3>1. \A e \in Edge : satLvl[e] \in [1 .. SatSlots -> 0 .. 255]
      BY <1>2 DEF LevelsType
    <3>2. \A e \in Edge : stashSatLevel(satLvl[e]) \in [1 .. SatSlots -> 0 .. 255]
      BY <3>1, StashFacts
    <3> HIDE DEF edges
    <3> QED
      BY <3>1, <3>2 DEF LevelsType
  <2>6. flags \in [Node -> SUBSET Row]
    BY <1>2
  <2> HIDE DEF levels, flags
  <2>7. TypeOK'
    BY <1>1, <2>2, <2>3, <2>4, <2>5, <2>6, SolvedType
  <2>8. [fn |-> "optimizeSatDep", at |-> "nested", sat |-> o.deactivated] \in FrameType
    BY <2>4 DEF OutcomeType, SatNested, FrameType
  <2>9. optimize(After(Top.g, o), Top.d + 1, Top.maxDepth) \in FrameType
    <3>1. Top.d + 1 \in 0 .. MaxLoops
      BY <2>2, LoopAssumption DEF Row
    <3> QED
      BY <2>2, <3>1, AfterType, OptimizeType
  <2> QED
    BY <1>3, <2>3, <2>7, <2>8, <2>9, CallsOn DEF Typed
<1>6. CASE SatDepUnsolved
  <2>1. Top \in SatStart
    BY <1>3, <1>4, <1>6, FrameKinds DEF SatDepUnsolved, At
  <2>2. Returns(TRUE, Top.sat) /\ Top.sat \in SUBSET Edge
    BY <1>6, <2>1 DEF SatDepUnsolved, SatStart
  <2>3. satLvl' \in LevelsType
    <3>1. satLvl' = [e \in Edge |-> IF e \in getEdges(Top.g, Top.d)
                                    THEN popSatLevel(stashSatLevel(satLvl[e])) ELSE satLvl[e]]
      BY <1>6 DEF SatDepUnsolved
    <3>2. \A e \in Edge : satLvl[e] \in [1 .. SatSlots -> 0 .. 255]
      BY <1>2 DEF LevelsType
    <3>3. \A e \in Edge : popSatLevel(stashSatLevel(satLvl[e])) \in [1 .. SatSlots -> 0 .. 255]
      BY <3>2, StashFacts
    <3> QED
      BY <3>1, <3>2, <3>3 DEF LevelsType
  <2>4. TypeOK'
    BY <1>1, <1>6, <2>3 DEF SatDepUnsolved, TypeOK, LevelsType, history
  <2> QED
    BY <1>3, <2>2, <2>4, ReturnsOn DEF Typed
<1>7. CASE SatDepNested
  <2>1. Top \in SatNested
    BY <1>3, <1>4, <1>7, FrameKinds DEF SatDepNested, At
  <2>2. Returns(TRUE, Top.sat \union ret.sat) /\ Top.sat \union ret.sat \in SUBSET Edge
    BY <1>1, <1>7, <2>1 DEF SatDepNested, SatNested, RetType
  <2>3. TypeOK'
    BY <1>1, <1>7, UnsolvedType DEF SatDepNested
  <2> QED
    BY <1>3, <2>2, <2>3, ReturnsOn DEF Typed
<1> QED
  BY <1>5, <1>6, <1>7 DEF SatDep

\* The calls at the end of breakGraph.
LEMMA NestTyped ==
  ASSUME Typed, frames # <<>>, TypeOK', NEW sat \in SUBSET Edge, NEW graphs \in Seq(GraphType),
         NEW d \in 0 .. MaxLoops, Nest(sat, graphs, d)
  PROVE  Typed'
<1>1. CASE graphs = <<>>
  <2>1. Returns(TRUE, sat)
    BY <1>1 DEF Nest
  <2> QED
    BY <2>1, ReturnsOn DEF Typed
<1>2. CASE graphs # <<>>
  <2> DEFINE f == [fn |-> "breakGraph", at |-> "nested", d |-> d, sat |-> sat, graphs |-> Tail(graphs)]
             c == optimize(Head(graphs), d, calcMaxDepth(Head(graphs)))
  <2>1. Calls(f, c)
    BY <1>2 DEF Nest
  <2>2. Head(graphs) \in GraphType /\ Tail(graphs) \in Seq(GraphType)
    BY <1>2, HeadTailProperties
  <2>3. f \in FrameType
    BY <2>2 DEF BreakNesting, FrameType
  <2>4. calcMaxDepth(Head(graphs)) \in 1 .. MaxLoops
    BY <2>2, MaxDepthFacts DEF Typed, TypeOK
  <2>5. c \in FrameType
    BY <2>2, <2>4, OptimizeType
  <2> HIDE DEF f, c
  <2> QED
    BY <2>1, <2>3, <2>5, CallsOn DEF Typed
<1> QED
  BY <1>1, <1>2

\* The frames of breakGraph have the graphs they look at.
LEMMA SolvingFrame ==
  ASSUME NEW f \in BreakSolve
  PROVE  /\ f.d \in Row /\ f.i \in Nat \ {0} /\ f.graphs \in Seq(GraphType) /\ f.sat \in SUBSET Edge
         /\ f.fn = "breakGraph" /\ f.at = "solve" /\ Len(f.graphs) \in Nat \ {0}
         /\ f.i <= Len(f.graphs) => f.i \in 1 .. Len(f.graphs) /\ f.graphs[f.i] \in GraphType
<1>1. f.graphs \in Seq(GraphType) /\ f.i \in Nat \ {0} /\ Len(f.graphs) \in Nat \ {0}
  BY DEF BreakSolve
<1>2. f.i <= Len(f.graphs) => f.i \in 1 .. Len(f.graphs)
  BY <1>1
<1>3. f.i \in 1 .. Len(f.graphs) => f.graphs[f.i] \in GraphType
  BY <1>1, ElementOfSeq
<1> QED
  BY <1>1, <1>2, <1>3 DEF BreakSolve

LEMMA FusingFrame ==
  ASSUME NEW f \in BreakFusing
  PROVE  LET b == f.bases[Len(f.bases)]
         IN  /\ f.d \in Row /\ f.i \in Nat \ {0} /\ f.graphs \in Seq(GraphType) /\ f.sat \in SUBSET Edge
             /\ f.fn = "breakGraph" /\ f.at = "fuse"
             /\ f.bases \in Seq(Nat) /\ Len(f.bases) \in Nat \ {0}
             /\ \A k \in 1 .. Len(f.bases) : f.bases[k] \in 1 .. Len(f.graphs) /\ f.graphs[f.bases[k]] \in GraphType
             /\ b \in 1 .. Len(f.graphs) /\ f.graphs[b] \in GraphType
             /\ f.i <= Len(f.graphs) => f.i \in 1 .. Len(f.graphs) /\ f.graphs[f.i] \in GraphType
<1>1. /\ f.graphs \in Seq(GraphType) /\ f.i \in Nat \ {0} /\ f.bases \in Seq(Nat) /\ Len(f.bases) \in Nat \ {0}
      /\ \A k \in 1 .. Len(f.bases) : f.bases[k] \in 1 .. Len(f.graphs)
  BY DEF BreakFusing
<1>2. f.i <= Len(f.graphs) => f.i \in 1 .. Len(f.graphs)
  BY <1>1
<1>3. \A k \in 1 .. Len(f.graphs) : f.graphs[k] \in GraphType
  BY <1>1, ElementOfSeq
<1>4. Len(f.bases) \in 1 .. Len(f.bases)
  BY <1>1
<1> QED
  BY <1>1, <1>2, <1>3, <1>4 DEF BreakFusing

LEMMA SolvingStep ==
  ASSUME NEW f \in BreakSolve, NEW i \in Nat, i >= 1, NEW sat \in SUBSET Edge, NEW gs \in Seq(GraphType), Len(gs) >= 1
  PROVE  [f EXCEPT !.i = i, !.sat = sat, !.graphs = gs] \in BreakSolve
<1> DEFINE R == [fn : {"breakGraph"}, at : {"solve"}, d : Row, sat : SUBSET Edge, i : Nat, graphs : Seq(GraphType)]
           h == [f EXCEPT !.i = i, !.sat = sat, !.graphs = gs]
<1>1. f \in R
  BY DEF BreakSolve
<1>2. h \in R
  BY <1>1
<1>3. h.i = i /\ h.graphs = gs
  BY <1>1
<1> HIDE DEF h
<1> QED
  BY <1>2, <1>3 DEF BreakSolve, h

LEMMA FusingStep ==
  ASSUME NEW f \in BreakFusing, NEW i \in Nat, i >= 1, NEW gs \in Seq(GraphType), NEW bs \in Seq(Nat), Len(bs) >= 1,
         \A k \in 1 .. Len(bs) : bs[k] \in 1 .. Len(gs)
  PROVE  [f EXCEPT !.i = i, !.graphs = gs, !.bases = bs] \in BreakFusing
<1> DEFINE R == [fn : {"breakGraph"}, at : {"fuse"}, d : Row, sat : SUBSET Edge, i : Nat, graphs : Seq(GraphType), bases : Seq(Nat)]
           h == [f EXCEPT !.i = i, !.graphs = gs, !.bases = bs]
<1>1. f \in R
  BY DEF BreakFusing
<1>2. h \in R
  BY <1>1
<1>3. h.i = i /\ h.graphs = gs /\ h.bases = bs
  BY <1>1
<1> HIDE DEF h
<1> QED
  BY <1>2, <1>3 DEF BreakFusing, h

LEMMA BreakTyped ==
  ASSUME Typed, Break
  PROVE  Typed'
<1>1. TypeOK /\ ret \in RetType
  BY DEF Typed
<1>2. block \in Blocks /\ satLvl \in LevelsType /\ carried \in [Node -> SUBSET Row]
  BY <1>1 DEF TypeOK, LevelsType
<1>3. frames # <<>> /\ Top.fn = "breakGraph"
  BY DEF Break, BreakWhole, BreakSplit, BreakSkip, BreakSolved, BreakUnsolved, BreakAllSolved,
         BreakFuse, BreakApart, BreakAllFused, BreakNested, At
<1>4. Top \in FrameType
  BY <1>3, TopIsFrame
<1>5. ASSUME Returns(FALSE, {}), Unsolved PROVE Typed'
  BY <1>1, <1>3, <1>5, ReturnsOn, UnsolvedType DEF Typed
<1>6. CASE BreakWhole \/ BreakUnsolved
  BY <1>5, <1>6 DEF BreakWhole, BreakUnsolved
<1>7. CASE BreakSplit
  <2>1. Top \in BreakStart
    BY <1>3, <1>4, <1>7, FrameKinds DEF BreakSplit, At
  <2>2. Top.g \in GraphType /\ Top.d \in Row
    BY <2>1 DEF BreakStart
  <2>3. PICK s \in stronglyConnectedComponents(Top.g) :
          Goes([fn |-> "breakGraph", at |-> "solve", d |-> Top.d, sat |-> {}, i |-> 1,
                graphs |-> Split(Top.g, s)])
    BY <1>7 DEF BreakSplit, Split
  <2>4. /\ Split(Top.g, s) \in Seq(GraphType)
        /\ Len(Split(Top.g, s)) = Cardinality(SCCs(Top.g.nodeIds))
    BY <1>2, <2>2, SplitType
  <2>5. Cardinality(SCCs(Top.g.nodeIds)) \in Nat /\ Cardinality(SCCs(Top.g.nodeIds)) > 1
    BY <1>2, <1>7, <2>2, ComponentFacts DEF BreakSplit, GraphType
  <2>6. [fn |-> "breakGraph", at |-> "solve", d |-> Top.d, sat |-> {}, i |-> 1,
         graphs |-> Split(Top.g, s)] \in FrameType
    BY <2>2, <2>4, <2>5 DEF BreakSolve, FrameType
  <2>7. TypeOK'
    BY <1>1, <1>7, UnsolvedType DEF BreakSplit
  <2> QED
    BY <1>3, <2>3, <2>6, <2>7, GoesOn DEF Typed
<1>8. CASE BreakSkip
  <2>1. Top \in BreakSolve
    BY <1>3, <1>4, <1>8, FrameKinds DEF BreakSkip, At
  <2>2. [Top EXCEPT !.i = @ + 1] \in FrameType
    BY <2>1 DEF BreakSolve, FrameType
  <2>3. TypeOK'
    BY <1>1, <1>8, UnsolvedType DEF BreakSkip
  <2> QED
    BY <1>3, <1>8, <2>2, <2>3, GoesOn DEF BreakSkip, Typed
<1>9. CASE BreakSolved
  <2>1. Top \in BreakSolve /\ Top.i <= Len(Top.graphs)
    BY <1>3, <1>4, <1>9, FrameKinds DEF BreakSolved, At, Graphs
  <2>2. /\ Top.d \in Row /\ Top.i \in Nat \ {0} /\ Top.graphs \in Seq(GraphType)
        /\ Top.i \in 1 .. Len(Top.graphs) /\ Top.graphs[Top.i] \in GraphType
        /\ Top.sat \in SUBSET Edge /\ Len(Top.graphs) \in Nat \ {0}
    BY <2>1, SolvingFrame
  <2>3. PICK o \in Outcomes(Graphs[Top.i], Top.d, FALSE) :
          /\ Solved(Graphs[Top.i], Top.d, o, satLvl, carried)
          /\ Goes([Top EXCEPT !.i = @ + 1, !.sat = @ \union o.deactivated, !.graphs[Top.i] = After(@, o)])
    BY <1>9 DEF BreakSolved
  <2>4. o \in OutcomeType
    BY <2>3, OutcomesType
  <2>5. TypeOK'
    BY <1>1, <1>2, <2>2, <2>3, <2>4, SolvedType DEF Graphs
  <2> DEFINE graphs == [Top.graphs EXCEPT ![Top.i] = After(@, o)]
  <2>6. graphs \in Seq(GraphType) /\ Len(graphs) = Len(Top.graphs)
    <3>1. After(Top.graphs[Top.i], o) \in GraphType
      BY <2>2, AfterType
    <3> QED
      BY <2>2, <3>1, ExceptSeq
  <2>7. [Top EXCEPT !.i = @ + 1, !.sat = @ \union o.deactivated, !.graphs = graphs] \in FrameType
    <3> DEFINE sat == Top.sat \union o.deactivated
    <3>1. sat \in SUBSET Edge
      BY <2>2, <2>4 DEF OutcomeType
    <3>0. Top.i + 1 \in Nat /\ Top.i + 1 >= 1 /\ Len(graphs) >= 1
      BY <2>2, <2>6
    <3> HIDE DEF graphs, sat
    <3>2. [Top EXCEPT !.i = @ + 1, !.sat = sat, !.graphs = graphs] \in BreakSolve
      BY <2>1, <2>6, <3>0, <3>1, SolvingStep
    <3> QED
      BY <3>2 DEF FrameType, sat
  <2>8. Goes([Top EXCEPT !.i = @ + 1, !.sat = @ \union o.deactivated, !.graphs = graphs])
    BY <2>3
  <2> HIDE DEF graphs
  <2> QED
    BY <1>3, <2>5, <2>7, <2>8, GoesOn DEF Typed
<1>10. CASE BreakAllSolved
  <2>1. Top \in BreakSolve
    BY <1>3, <1>4, <1>10, FrameKinds DEF BreakAllSolved, At
  <2>2. /\ Top.d \in Row /\ Top.graphs \in Seq(GraphType)
        /\ Top.sat \in SUBSET Edge /\ Len(Top.graphs) \in Nat \ {0}
    BY <2>1, SolvingFrame
  <2>3. <<1>> \in Seq(Nat) /\ Len(<<1>>) = 1 /\ <<1>>[1] = 1
    OBVIOUS
  <2>4. [fn |-> "breakGraph", at |-> "fuse", d |-> Top.d, sat |-> Top.sat,
         graphs |-> Graphs, i |-> 2, bases |-> <<1>>] \in FrameType
    BY <2>2, <2>3 DEF BreakFusing, FrameType, Graphs
  <2>5. TypeOK'
    BY <1>1, <1>10, UnsolvedType DEF BreakAllSolved
  <2> QED
    BY <1>3, <1>10, <2>4, <2>5, GoesOn DEF BreakAllSolved, Typed
<1>11. ASSUME BreakFuse \/ BreakApart \/ BreakAllFused
       PROVE  Top \in BreakFusing
  BY <1>3, <1>4, <1>11, FrameKinds DEF BreakFuse, BreakApart, BreakAllFused, At
<1>12. CASE BreakFuse
  <2> DEFINE b == Top.bases[Len(Top.bases)]
             graphs == [Top.graphs EXCEPT ![b] = Merged(@, Top.graphs[Top.i])]
  <2>1. Top \in BreakFusing /\ Top.i <= Len(Top.graphs)
    BY <1>11, <1>12 DEF BreakFuse, Graphs
  <2>2. /\ Top.i \in Nat \ {0} /\ Top.graphs \in Seq(GraphType) /\ Top.graphs[Top.i] \in GraphType
        /\ b \in 1 .. Len(Top.graphs) /\ Top.graphs[b] \in GraphType
    BY <2>1, FusingFrame
  <2>3. graphs \in Seq(GraphType) /\ Len(graphs) = Len(Top.graphs)
    <3>1. Merged(Top.graphs[b], Top.graphs[Top.i]) \in GraphType
      BY <2>2, MergedType
    <3> HIDE DEF b
    <3> QED
      BY <2>2, <3>1, ExceptSeq
  <2>4. Goes([Top EXCEPT !.i = @ + 1, !.graphs = graphs])
    BY <1>12 DEF BreakFuse, Graphs
  <2> HIDE DEF graphs
  <2>5. [Top EXCEPT !.i = @ + 1, !.graphs = graphs] \in FrameType
    <3> DEFINE bases == Top.bases
    <3>0. /\ Top.i + 1 \in Nat /\ Top.i + 1 >= 1 /\ bases \in Seq(Nat) /\ Len(bases) >= 1
          /\ \A k \in 1 .. Len(bases) : bases[k] \in 1 .. Len(graphs)
      BY <2>1, <2>2, <2>3, FusingFrame
    <3>2. [Top EXCEPT !.i = @ + 1, !.graphs = graphs] = [Top EXCEPT !.i = Top.i + 1, !.graphs = graphs, !.bases = bases]
      BY <2>1 DEF BreakFusing
    <3> HIDE DEF bases
    <3>3. Top \in BreakFusing /\ graphs \in Seq(GraphType)
      BY <2>1, <2>3
    <3>4. [Top EXCEPT !.i = Top.i + 1, !.graphs = graphs, !.bases = bases] \in BreakFusing
      BY <3>0, <3>3, FusingStep
    <3>1. [Top EXCEPT !.i = @ + 1, !.graphs = graphs] \in BreakFusing
      BY <3>2, <3>4
    <3> QED
      BY <3>1 DEF FrameType
  <2>6. TypeOK'
    BY <1>1, <1>12, UnsolvedType DEF BreakFuse
  <2> QED
    BY <1>3, <2>4, <2>5, <2>6, GoesOn DEF Typed
<1>13. CASE BreakApart
  <2>1. Top \in BreakFusing /\ Top.i <= Len(Top.graphs)
    BY <1>11, <1>13 DEF BreakApart, Graphs
  <2>2. /\ Top.d \in Row /\ Base \in GraphType /\ Len(Top.bases) - 1 \in Nat
        /\ Top.i \in 1 .. Len(Top.graphs) /\ Top.bases \in Seq(Nat) /\ Len(Top.bases) \in Nat \ {0}
    BY <2>1, FusingFrame DEF Base, Graphs
  <2>3. SetFusionOmega(Base, Top.d, Len(Top.bases) - 1)
        /\ Goes([Top EXCEPT !.i = @ + 1, !.bases = Append(@, Top.i)])
    BY <1>13 DEF BreakApart
  <2>4. TypeOK'
    BY <1>1, <2>2, <2>3, FusionOmegaType
  <2>5. /\ Append(Top.bases, Top.i) \in Seq(Nat) /\ Len(Append(Top.bases, Top.i)) = Len(Top.bases) + 1
        /\ \A k \in 1 .. Len(Top.bases) : Append(Top.bases, Top.i)[k] = Top.bases[k]
        /\ Append(Top.bases, Top.i)[Len(Top.bases) + 1] = Top.i
    BY <2>2, AppendProperties
  <2>6. [Top EXCEPT !.i = @ + 1, !.bases = Append(@, Top.i)] \in FrameType
    <3> DEFINE bases == Append(Top.bases, Top.i)
    <3>1. \A k \in 1 .. Len(bases) : bases[k] \in 1 .. Len(Top.graphs)
      <4>1. \A k \in 1 .. Len(Top.bases) : Top.bases[k] \in 1 .. Len(Top.graphs)
        BY <2>1, FusingFrame
      <4>2. \A k \in 1 .. Len(bases) : k \in 1 .. Len(Top.bases) \/ k = Len(Top.bases) + 1
        BY <2>2, <2>5
      <4> QED
        BY <2>2, <2>5, <4>1, <4>2
    <3>2. bases \in Seq(Nat) /\ Len(bases) >= 1
      BY <2>2, <2>5
    <3> HIDE DEF bases
    <3> DEFINE gs == Top.graphs
    <3>4. gs \in Seq(GraphType) /\ Top.i + 1 \in Nat /\ Top.i + 1 >= 1
      BY <2>1, FusingFrame
    <3>5. [Top EXCEPT !.i = @ + 1, !.bases = bases] = [Top EXCEPT !.i = Top.i + 1, !.graphs = gs, !.bases = bases]
      BY <2>1 DEF BreakFusing
    <3>6. \A k \in 1 .. Len(bases) : bases[k] \in 1 .. Len(gs)
      BY <3>1
    <3> HIDE DEF gs
    <3>3. [Top EXCEPT !.i = @ + 1, !.bases = bases] \in BreakFusing
      BY <2>1, <3>6, <3>2, <3>4, <3>5, FusingStep
    <3> QED
      BY <3>3 DEF FrameType, bases
  <2> QED
    BY <1>3, <2>3, <2>4, <2>6, GoesOn DEF Typed
<1>14. CASE BreakAllFused
  <2> DEFINE graphs == [k \in DOMAIN Top.bases |-> Graphs[Top.bases[k]]]
  <2>1. Top \in BreakFusing
    BY <1>11, <1>14
  <2>2. /\ Top.d \in Row /\ Base \in GraphType /\ Len(Top.bases) - 1 \in Nat /\ Top.sat \in SUBSET Edge
        /\ \A k \in 1 .. Len(Top.bases) : Top.graphs[Top.bases[k]] \in GraphType
        /\ DOMAIN Top.bases = 1 .. Len(Top.bases) /\ Len(Top.bases) \in Nat
    BY <2>1, FusingFrame, LenProperties DEF Base, Graphs
  <2>3. SetFusionOmega(Base, Top.d, Len(Top.bases) - 1) /\ Nest(Top.sat, graphs, Top.d + 1)
    BY <1>14 DEF BreakAllFused
  <2>4. TypeOK'
    BY <1>1, <2>2, <2>3, FusionOmegaType
  <2>5. graphs \in Seq(GraphType)
    <3>1. graphs \in [1 .. Len(Top.bases) -> GraphType]
      BY <2>2 DEF Graphs
    <3> HIDE DEF graphs
    <3> QED
      BY <2>2, <3>1, FunctionIsSeq
  <2>6. Top.d + 1 \in 0 .. MaxLoops
    <3>1. Top.d \in Row
      BY <2>2
    <3> QED
      BY <3>1, LoopAssumption DEF Row
  <2> HIDE DEF graphs
  <2> QED
    BY <1>3, <2>2, <2>3, <2>4, <2>5, <2>6, NestTyped
<1>15. CASE BreakNested
  <2>1. Top \in BreakNesting
    BY <1>3, <1>4, <1>15, FrameKinds DEF BreakNested, At
  <2>2. /\ Top.d \in 0 .. MaxLoops /\ Top.sat \union ret.sat \in SUBSET Edge /\ Top.graphs \in Seq(GraphType)
    BY <1>1, <2>1 DEF BreakNesting, RetType
  <2>3. TypeOK'
    BY <1>1, <1>15, UnsolvedType DEF BreakNested
  <2>4. CASE ret.ok
    <3>1. Nest(Top.sat \union ret.sat, Graphs, Top.d)
      BY <1>15, <2>4 DEF BreakNested
    <3> QED
      BY <1>3, <2>2, <2>3, <3>1, NestTyped DEF Graphs
  <2>5. CASE ~ret.ok
    BY <1>5, <1>15, <2>5 DEF BreakNested
  <2> QED
    BY <2>4, <2>5
<1> QED
  BY <1>6, <1>7, <1>8, <1>9, <1>10, <1>12, <1>13, <1>14, <1>15 DEF Break

LEMMA FirstCallType ==
  ASSUME block \in Blocks
  PROVE  optimize(fullGraph, 0, calcMaxDepth(fullGraph)) \in FrameType
<1>1. calcMaxDepth(fullGraph) \in 1 .. MaxLoops
  BY FullGraphType, MaxDepthFacts
<1>2. 0 \in 0 .. MaxLoops
  BY LoopAssumption
<1> QED
  BY <1>1, <1>2, FullGraphType, OptimizeType

LEMMA LeftoversType ==
  ASSUME NEW g, NEW d \in Int, d >= -1
  PROVE  Leftovers(g, d) \subseteq Edge \X (0 .. MaxLoops)
<1>1. d + 1 .. MaxLoops \subseteq 0 .. MaxLoops
  BY LoopAssumption
<1> QED
  BY <1>1 DEF Leftovers, Owned

LEMMA RetryTyped ==
  ASSUME Typed, Retry
  PROVE  Typed'
<1>1. TypeOK /\ ret \in RetType
  BY DEF Typed
<1> DEFINE c == optimize(fullGraph, 0, calcMaxDepth(fullGraph))
<1>2. c \in FrameType
  BY <1>1, FirstCallType DEF TypeOK
<1>3. frames' = <<c>> /\ ret' = NoRet
  BY DEF Retry
<1> HIDE DEF c
<1>4. frames' \in Seq(FrameType)
  BY <1>2, <1>3
<1>5. ret' \in RetType
  BY <1>3 DEF NoRet, RetType
<1>6. stray' \subseteq Edge \X (0 .. MaxLoops)
  <2>1. Leftovers(fullGraph, -1) \subseteq Edge \X (0 .. MaxLoops)
    BY LeftoversType
  <2> QED
    BY <1>1, <2>1 DEF Retry, TypeOK
<1>7. rank' \in [Node -> 0 .. MaxLoops]
  BY LoopAssumption DEF Retry
<1>8. phi' \in [Node -> [Row -> {"none", "lp", "free"}]]
  BY <1>1 DEF Retry, TypeOK
<1>9. TypeOK'
  BY <1>1, <1>6, <1>7, <1>8 DEF Retry, TypeOK
<1> QED
  BY <1>4, <1>5, <1>9 DEF Typed

LEMMA InitTyped ==
  ASSUME Init
  PROVE  Typed
<1> DEFINE c == optimize(fullGraph, 0, calcMaxDepth(fullGraph))
<1>1. block \in Blocks
  BY DEF Init
<1>2. c \in FrameType
  BY <1>1, FirstCallType
<1>3. frames = <<c>> /\ ret = NoRet
  BY DEF Init
<1> HIDE DEF c
<1>4. frames \in Seq(FrameType)
  BY <1>2, <1>3
<1>5. ret \in RetType
  BY <1>3 DEF NoRet, RetType
<1>6. rank \in [Node -> 0 .. MaxLoops]
  BY <1>1, BlockFacts DEF Init
<1>7. TypeOK
  BY <1>1, <1>6 DEF Init, TypeOK, Sign, Unset
<1> QED
  BY <1>4, <1>5, <1>7 DEF Typed

LEMMA NextTyped ==
  ASSUME Typed, [Next]_vars
  PROVE  Typed'
<1>1. CASE Optimize
  BY <1>1, OptimizeTyped
<1>2. CASE SatDep
  BY <1>2, SatDepTyped
<1>3. CASE Break
  BY <1>3, BreakTyped
<1>4. CASE Retry
  BY <1>4, RetryTyped
<1>5. CASE UNCHANGED vars
  BY <1>5 DEF vars, history, Typed, TypeOK
<1> QED
  BY <1>1, <1>2, <1>3, <1>4, <1>5 DEF Next

(* The schedules, fusion omegas, satisfaction levels and flags of every loop  *)
(* block keep their shape, and no call of the recursion is ever made with a   *)
(* depth or a graph outside its range (ScheduledNode, Dependence, LoopBlock). *)
THEOREM TypeCorrect == Spec => []TypeOK
<1>1. Init => Typed
  BY InitTyped
<1>2. Typed /\ [Next]_vars => Typed'
  BY NextTyped
<1>3. Typed => TypeOK
  BY DEF Typed
<1> QED
  BY <1>1, <1>2, <1>3, PTL DEF Spec

----------------------------------------------------------------------------
(* optimizeSatDep never has to go back: what it calls has no edge left to    *)
(* order, so it neither fails nor calls anything but optimize.               *)

IsSatNested(f) == f.fn = "optimizeSatDep" /\ f.at = "nested"

Quiet(f) ==
  /\ f.fn = "optimize" /\ f.sat = {}
  /\ \A e \in f.g.activeEdges : missingNode(f.g, e) \/ block.edgeLoops[e] <= f.d

\* An optimizeSatDep waits below the innermost call.
Hemmed == \E k \in 1 .. Len(frames) - 1 : IsSatNested(frames[k])

FinalInv ==
  \A k \in 1 .. Len(frames) :
    IsSatNested(frames[k]) => /\ \A j \in k + 1 .. Len(frames) : Quiet(frames[j])
                              /\ ret.done => ret.ok

LEMMA QuietTop ==
  ASSUME Typed, FinalInv, frames # <<>>, Hemmed
  PROVE  Quiet(Top) /\ (ret.done => ret.ok)
<1>1. Len(frames) \in Nat \ {0}
  BY TopIsFrame
<1>2. PICK k \in 1 .. Len(frames) - 1 : IsSatNested(frames[k])
  BY DEF Hemmed
<1>3. k \in 1 .. Len(frames) /\ Len(frames) \in k + 1 .. Len(frames)
  BY <1>1
<1> QED
  BY <1>2, <1>3 DEF FinalInv, Top

LEMMA FinalGoes ==
  ASSUME Typed, FinalInv, frames # <<>>, block' = block, NEW f \in FrameType, Goes(f), ~IsSatNested(f),
         Hemmed => Quiet(f)
  PROVE  FinalInv'
<1>1. /\ Len(frames) \in Nat \ {0} /\ Len(frames') = Len(frames) /\ frames'[Len(frames)] = f
      /\ \A k \in 1 .. Len(frames) - 1 : frames'[k] = frames[k]
      /\ ret' = NoRet
  BY TopIsFrame, GoesOn
<1> SUFFICES ASSUME NEW k \in 1 .. Len(frames'), IsSatNested(frames'[k])
             PROVE  \A j \in k + 1 .. Len(frames') : Quiet(frames[j])'
  BY <1>1 DEF FinalInv, NoRet, IsSatNested
<1>2. k \in 1 .. Len(frames) - 1 /\ IsSatNested(frames[k])
  BY <1>1 DEF IsSatNested
<1> SUFFICES ASSUME NEW j \in k + 1 .. Len(frames')
             PROVE  Quiet(frames[j])'
  OBVIOUS
<1>3. Quiet(frames'[j])
  <2>1. CASE j = Len(frames)
    BY <1>1, <1>2, <2>1 DEF Hemmed
  <2>2. CASE j # Len(frames)
    BY <1>1, <1>2, <2>2 DEF FinalInv
  <2> QED
    BY <2>1, <2>2
<1> QED
  BY <1>3 DEF Quiet, missingNode, In, Out

LEMMA FinalReturns ==
  ASSUME Typed, FinalInv, frames # <<>>, block' = block, NEW ok \in BOOLEAN, NEW sat \in SUBSET Edge,
         Returns(ok, sat), Hemmed => ok
  PROVE  FinalInv'
<1>1. /\ Len(frames) \in Nat \ {0} /\ Len(frames') = Len(frames) - 1
      /\ \A k \in 1 .. Len(frames) - 1 : frames'[k] = frames[k]
      /\ ret'.ok = ok
  BY TopIsFrame, ReturnsOn
<1> SUFFICES ASSUME NEW k \in 1 .. Len(frames'), IsSatNested(frames'[k])
             PROVE  ret'.ok /\ \A j \in k + 1 .. Len(frames') : Quiet(frames[j])'
  BY DEF FinalInv, IsSatNested
<1>2. k \in 1 .. Len(frames) - 1 /\ IsSatNested(frames[k])
  BY <1>1 DEF IsSatNested
<1>3. ret'.ok
  BY <1>1, <1>2 DEF Hemmed
<1> SUFFICES ASSUME NEW j \in k + 1 .. Len(frames')
             PROVE  Quiet(frames[j])'
  BY <1>3
<1>4. Quiet(frames'[j])
  BY <1>1, <1>2 DEF FinalInv
<1> QED
  BY <1>4 DEF Quiet, missingNode, In, Out

LEMMA FinalCalls ==
  ASSUME Typed, FinalInv, frames # <<>>, block' = block, NEW f \in FrameType, NEW c \in FrameType,
         Calls(f, c), ~IsSatNested(c), Hemmed => Quiet(f) /\ Quiet(c), IsSatNested(f) => Quiet(c)
  PROVE  FinalInv'
<1>1. /\ Len(frames) \in Nat \ {0} /\ Len(frames') = Len(frames) + 1
      /\ frames'[Len(frames)] = f /\ frames'[Len(frames) + 1] = c
      /\ \A k \in 1 .. Len(frames) - 1 : frames'[k] = frames[k]
      /\ ret' = NoRet
  BY TopIsFrame, CallsOn
<1> SUFFICES ASSUME NEW k \in 1 .. Len(frames'), IsSatNested(frames'[k])
             PROVE  \A j \in k + 1 .. Len(frames') : Quiet(frames[j])'
  BY <1>1 DEF FinalInv, NoRet, IsSatNested
<1> SUFFICES ASSUME NEW j \in k + 1 .. Len(frames')
             PROVE  Quiet(frames[j])'
  OBVIOUS
<1>2. Quiet(frames'[j])
  <2>1. CASE k = Len(frames)
    <3>1. j = Len(frames) + 1
      BY <1>1, <2>1
    <3> QED
      BY <1>1, <2>1, <3>1
  <2>2. CASE k < Len(frames)
    <3>1. k \in 1 .. Len(frames) - 1 /\ IsSatNested(frames[k])
      BY <1>1, <2>2
    <3>2. Hemmed
      BY <3>1 DEF Hemmed
    <3>3. CASE j \in {Len(frames), Len(frames) + 1}
      BY <1>1, <3>2, <3>3
    <3>4. CASE j < Len(frames)
      BY <1>1, <3>1, <3>4 DEF FinalInv
    <3> QED
      BY <1>1, <3>3, <3>4
  <2>3. CASE k = Len(frames) + 1
    BY <1>1, <2>3
  <2> QED
    BY <1>1, <2>1, <2>2, <2>3
<1> QED
  BY <1>2 DEF Quiet, missingNode, In, Out

\* A quiet call solves nothing, and hands a quiet graph down.
LEMMA QuietSolve ==
  ASSUME block \in Blocks, NEW f \in OptStart, Quiet(f), f.d \in Row,
         NEW o \in Outcomes(f.g, f.d, FALSE), NEW m
  PROVE  /\ Quiet([f EXCEPT !.at = "nested", !.g = After(f.g, o), !.sat = o.deactivated])
         /\ Quiet(optimize(After(f.g, o), f.d + 1, m))
<1> DEFINE g == After(f.g, o)
           h == [f EXCEPT !.at = "nested", !.g = g, !.sat = o.deactivated]
           c == optimize(g, f.d + 1, m)
<1>1. f.g \in GraphType /\ f.d \in 0 .. MaxLoops /\ f.g.activeEdges \subseteq Edge
  BY DEF OptStart, GraphType
<1>2. getEdges(f.g, f.d) = {}
  <2> SUFFICES ASSUME NEW e \in Edge, isActive(f.g, e, f.d)
               PROVE  FALSE
    BY DEF getEdges
  <2>1. f.d < block.edgeLoops[e] /\ block.edgeLoops[e] <= f.d
    BY DEF Quiet, isActive
  <2>2. block.edgeLoops[e] \in Int /\ f.d \in Int
    BY <1>1, BlockFacts
  <2> QED
    BY <2>1, <2>2
<1>3. o.deactivated = {} /\ o.empty = {}
  BY <1>2, OutcomesType
<1>4. g.activeEdges = f.g.activeEdges /\ g.nodeIds = f.g.nodeIds
  <2>1. g.activeEdges = f.g.activeEdges \ (o.deactivated \union o.empty) /\ g.nodeIds = f.g.nodeIds
    BY <1>1, AfterType
  <2> QED
    BY <1>3, <2>1
<1>5. /\ h.fn = "optimize" /\ h.sat = {} /\ h.g = g /\ h.d = f.d
      /\ c.fn = "optimize" /\ c.sat = {} /\ c.g = g /\ c.d = f.d + 1
  BY <1>3 DEF optimize, OptStart
<1> HIDE DEF h, c, g
<1>6. \A e \in g.activeEdges : missingNode(g, e) \/ block.edgeLoops[e] <= f.d
  BY <1>4 DEF Quiet, missingNode
<1>7. \A e \in g.activeEdges : block.edgeLoops[e] \in Int /\ f.d \in Int
  BY <1>1, <1>4, BlockFacts
<1>8. \A e \in g.activeEdges : missingNode(g, e) \/ block.edgeLoops[e] <= f.d + 1
  BY <1>6, <1>7
<1>9. Quiet(h) /\ Quiet(c)
  BY <1>5, <1>6, <1>8 DEF Quiet
<1> QED
  BY <1>9 DEF h, c, g

LEMMA QuietUnsolved ==
  ASSUME block \in Blocks, NEW f \in OptStart, Quiet(f), f.d \in Row
  PROVE  getEdges(f.g, f.d) = {}
<1>1. f.d \in Int /\ f.g.activeEdges \subseteq Edge
  BY DEF OptStart, GraphType
<1> SUFFICES ASSUME NEW e \in Edge, isActive(f.g, e, f.d)
             PROVE  FALSE
  BY DEF getEdges
<1>2. f.d < block.edgeLoops[e] /\ block.edgeLoops[e] <= f.d
  BY DEF Quiet, isActive
<1>3. block.edgeLoops[e] \in Int
  BY BlockFacts
<1> QED
  BY <1>1, <1>2, <1>3

LEMMA OptimizeFinal ==
  ASSUME Typed, FinalInv, Optimize
  PROVE  FinalInv'
<1>1. block \in Blocks /\ block' = block /\ ret \in RetType
  BY DEF Typed, TypeOK, Optimize, OptimizeLeaf, OptimizeSolved, OptimizeUnsolved, OptimizeNested,
         OptimizeNestedFailed, Unsolved, Solved, Abandons
<1>2. frames # <<>> /\ Top.fn = "optimize"
  BY DEF Optimize, OptimizeLeaf, OptimizeSolved, OptimizeUnsolved, OptimizeNested, OptimizeNestedFailed, At
<1>3. Top \in FrameType
  BY <1>2, TopIsFrame
<1>4. Hemmed => Quiet(Top) /\ (ret.done => ret.ok)
  BY <1>2, QuietTop
<1>5. CASE OptimizeLeaf
  <2>1. Returns(TRUE, {})
    BY <1>5 DEF OptimizeLeaf
  <2> QED
    BY <1>1, <1>2, <2>1, FinalReturns
<1>6. CASE OptimizeSolved
  <2>1. Top \in OptStart /\ Top.d < Top.maxDepth
    BY <1>2, <1>3, <1>6, FrameKinds DEF OptimizeSolved, At
  <2>2. Top.g \in GraphType /\ Top.d \in Row /\ Top.maxDepth \in 1 .. MaxLoops
    BY <2>1, LoopAssumption DEF OptStart, Row
  <2>3. PICK o \in Outcomes(Top.g, Top.d, FALSE) :
          IF Top.d + 1 = Top.maxDepth
          THEN Returns(TRUE, o.deactivated)
          ELSE Calls([Top EXCEPT !.at = "nested", !.g = After(Top.g, o), !.sat = o.deactivated],
                     optimize(After(Top.g, o), Top.d + 1, Top.maxDepth))
    BY <1>6 DEF OptimizeSolved
  <2>4. o \in OutcomeType /\ o.deactivated \in SUBSET Edge
    <3>1. o \in OutcomeType
      BY <2>3, OutcomesType
    <3> QED
      BY <3>1 DEF OutcomeType
  <2>5. CASE Top.d + 1 = Top.maxDepth
    BY <1>1, <1>2, <2>3, <2>4, <2>5, FinalReturns
  <2>6. CASE Top.d + 1 # Top.maxDepth
    <3> DEFINE f == [Top EXCEPT !.at = "nested", !.g = After(Top.g, o), !.sat = o.deactivated]
               c == optimize(After(Top.g, o), Top.d + 1, Top.maxDepth)
    <3>1. After(Top.g, o) \in GraphType
      BY <2>2, AfterType
    <3>2. f \in FrameType /\ f.fn = "optimize"
      BY <2>1, <2>2, <2>4, <3>1 DEF OptStart, OptNested, FrameType
    <3>3. Top.d + 1 \in 0 .. MaxLoops
      BY <2>2, LoopAssumption DEF Row
    <3>4. c \in FrameType /\ c.fn = "optimize"
      BY <2>2, <3>1, <3>3, OptimizeType DEF optimize
    <3>5. Hemmed => Quiet(f) /\ Quiet(c)
      BY <1>1, <1>4, <2>1, <2>2, <2>3, QuietSolve
    <3>6. Calls(f, c)
      BY <2>3, <2>6
    <3> HIDE DEF f, c
    <3> QED
      BY <1>1, <1>2, <3>2, <3>4, <3>5, <3>6, FinalCalls DEF IsSatNested
  <2> QED
    BY <2>5, <2>6
<1>7. CASE OptimizeUnsolved
  <2>1. Top \in OptStart /\ Top.d < Top.maxDepth
    BY <1>2, <1>3, <1>7, FrameKinds DEF OptimizeUnsolved, At
  <2>2. Top.g \in GraphType /\ Top.d \in Row
    BY <2>1, LoopAssumption DEF OptStart, Row
  <2>3. ~Hemmed
    BY <1>1, <1>4, <1>7, <2>1, <2>2, QuietUnsolved DEF OptimizeUnsolved
  <2>4. breakGraph(Top.g, Top.d) \in FrameType /\ ~IsSatNested(breakGraph(Top.g, Top.d))
    BY <2>2, BreakGraphType DEF breakGraph, IsSatNested
  <2> QED
    BY <1>1, <1>2, <1>7, <2>3, <2>4, FinalGoes DEF OptimizeUnsolved
<1>8. CASE OptimizeNested
  <2>1. Top \in OptNested
    BY <1>2, <1>3, <1>8, FrameKinds DEF OptimizeNested, At
  <2>2. Top.sat \union ret.sat \in SUBSET Edge
    BY <1>1, <2>1 DEF OptNested, RetType
  <2>3. CASE Top.sat = {} \/ ret.sat = {}
    <3>1. Returns(TRUE, Top.sat \union ret.sat)
      BY <1>8, <2>3 DEF OptimizeNested
    <3> QED
      BY <1>1, <1>2, <2>2, <3>1, FinalReturns
  <2>4. CASE ~(Top.sat = {} \/ ret.sat = {})
    <3> DEFINE f == optimizeSatDep(Top.g, Top.d, Top.maxDepth, Top.sat \union ret.sat, Top.backup)
    <3>1. Goes(f)
      BY <1>8, <2>4 DEF OptimizeNested
    <3>2. f \in FrameType /\ ~IsSatNested(f)
      BY <2>1, <2>2 DEF optimizeSatDep, OptNested, SatStart, FrameType, GraphType, IsSatNested
    <3>3. ~Hemmed
      BY <1>4, <2>4 DEF Quiet
    <3> HIDE DEF f
    <3> QED
      BY <1>1, <1>2, <3>1, <3>2, <3>3, FinalGoes
  <2> QED
    BY <2>3, <2>4
<1>9. CASE OptimizeNestedFailed
  <2>1. Top \in OptNested
    BY <1>2, <1>3, <1>9, FrameKinds DEF OptimizeNestedFailed, At
  <2>2. ~Hemmed
    BY <1>4, <1>9 DEF OptimizeNestedFailed, At
  <2>3. breakGraph(Top.g, Top.d) \in FrameType /\ ~IsSatNested(breakGraph(Top.g, Top.d))
    BY <2>1, BreakGraphType DEF breakGraph, IsSatNested, OptNested
  <2> QED
    BY <1>1, <1>2, <1>9, <2>2, <2>3, FinalGoes DEF OptimizeNestedFailed
<1> QED
  BY <1>5, <1>6, <1>7, <1>8, <1>9 DEF Optimize

LEMMA SatDepFinal ==
  ASSUME Typed, FinalInv, SatDep
  PROVE  FinalInv'
<1>1. /\ block \in Blocks /\ block' = block /\ ret \in RetType
      /\ satLvl \in LevelsType /\ carried \in [Node -> SUBSET Row]
  BY DEF Typed, TypeOK, LevelsType, SatDep, SatDepSolved, SatDepUnsolved, SatDepNested, Unsolved, Solved
<1>2. frames # <<>> /\ Top.fn = "optimizeSatDep"
  BY DEF SatDep, SatDepSolved, SatDepUnsolved, SatDepNested, At
<1>3. Top \in FrameType
  BY <1>2, TopIsFrame
<1>4. ~Hemmed
  BY <1>2, QuietTop DEF Quiet
<1>5. CASE SatDepSolved
  <2>1. Top \in SatStart
    BY <1>2, <1>3, <1>5, FrameKinds DEF SatDepSolved, At
  <2>2. Top.g \in GraphType /\ Top.d \in Row /\ Top.maxDepth \in 1 .. MaxLoops
    BY <2>1 DEF SatStart
  <2>3. PICK o \in Outcomes(Top.g, Top.d, TRUE) :
          Calls([fn |-> "optimizeSatDep", at |-> "nested", sat |-> o.deactivated],
                optimize(After(Top.g, o), Top.d + 1, Top.maxDepth))
    BY <1>5 DEF SatDepSolved
  <2>4. o \in OutcomeType /\ o.deactivated = getEdges(Top.g, Top.d)
    BY <2>3, OutcomesType
  <2> DEFINE f == [fn |-> "optimizeSatDep", at |-> "nested", sat |-> o.deactivated]
             g == After(Top.g, o)
             c == optimize(g, Top.d + 1, Top.maxDepth)
  <2>5. f \in FrameType
    BY <2>4 DEF OutcomeType, SatNested, FrameType
  <2>6. g \in GraphType /\ g.nodeIds = Top.g.nodeIds
        /\ g.activeEdges = Top.g.activeEdges \ (o.deactivated \union o.empty)
    BY <2>2, AfterType
  <2>7. Top.d + 1 \in 0 .. MaxLoops
    BY <2>2, LoopAssumption DEF Row
  <2>8. c \in FrameType /\ c.fn = "optimize" /\ c.sat = {} /\ c.g = g /\ c.d = Top.d + 1
    BY <2>2, <2>6, <2>7, OptimizeType DEF optimize
  <2>9. \A e \in g.activeEdges : missingNode(g, e) \/ block.edgeLoops[e] <= Top.d + 1
    <3> SUFFICES ASSUME NEW e \in g.activeEdges, ~missingNode(g, e)
                 PROVE  block.edgeLoops[e] <= Top.d + 1
      OBVIOUS
    <3>1. e \in Top.g.activeEdges /\ e \notin getEdges(Top.g, Top.d) /\ ~missingNode(Top.g, e)
      BY <2>4, <2>6 DEF missingNode
    <3>2. e \in Edge
      BY <2>2, <3>1 DEF GraphType
    <3>3. ~(Top.d < block.edgeLoops[e])
      BY <3>1, <3>2 DEF getEdges, isActive
    <3>4. block.edgeLoops[e] \in Int /\ Top.d \in Int
      BY <1>1, <2>2, <3>2, BlockFacts DEF Row
    <3> QED
      BY <3>3, <3>4
  <2>10. Calls(f, c)
    BY <2>3
  <2> HIDE DEF f, g, c
  <2>11. Quiet(c)
    BY <2>8, <2>9 DEF Quiet
  <2> QED
    BY <1>1, <1>2, <1>4, <2>5, <2>8, <2>10, <2>11, FinalCalls DEF IsSatNested
<1>6. CASE SatDepUnsolved
  <2>1. Top \in SatStart
    BY <1>2, <1>3, <1>6, FrameKinds DEF SatDepUnsolved, At
  <2>2. Returns(TRUE, Top.sat) /\ Top.sat \in SUBSET Edge
    BY <1>6, <2>1 DEF SatDepUnsolved, SatStart
  <2> QED
    BY <1>1, <1>2, <2>2, FinalReturns
<1>7. CASE SatDepNested
  <2>1. Top \in SatNested
    BY <1>2, <1>3, <1>7, FrameKinds DEF SatDepNested, At
  <2>2. Returns(TRUE, Top.sat \union ret.sat) /\ Top.sat \union ret.sat \in SUBSET Edge
    BY <1>1, <1>7, <2>1 DEF SatDepNested, SatNested, RetType
  <2> QED
    BY <1>1, <1>2, <2>2, FinalReturns
<1> QED
  BY <1>5, <1>6, <1>7 DEF SatDep

\* Once a step is known to be typed, so are the frames and the result it names.
LEMMA GoesToFrame ==
  ASSUME Typed, Typed', frames # <<>>, NEW f, Goes(f)
  PROVE  f \in FrameType
<1>1. frames \in Seq(FrameType) /\ frames' \in Seq(FrameType) /\ Len(frames) \in Nat \ {0}
  BY TopIsFrame DEF Typed
<1> DEFINE S == FrameType \union {f}
<1>2. frames \in Seq(S) /\ Len(frames) \in 1 .. Len(frames)
  BY <1>1
<1>3. frames' = [frames EXCEPT ![Len(frames)] = f]
  BY DEF Goes
<1> HIDE DEF S
<1>4. Len(frames') = Len(frames) /\ frames'[Len(frames)] = f
  <2>1. f \in S
    BY DEF S
  <2> QED
    BY <1>2, <1>3, <2>1, ExceptSeq
<1>5. frames'[Len(frames)] \in FrameType
  BY <1>1, <1>2, <1>4, ElementOfSeq
<1> QED
  BY <1>4, <1>5

LEMMA CallsOfFrames ==
  ASSUME Typed, Typed', frames # <<>>, NEW f, NEW c, Calls(f, c)
  PROVE  f \in FrameType /\ c \in FrameType
<1>1. frames \in Seq(FrameType) /\ frames' \in Seq(FrameType) /\ Len(frames) \in Nat \ {0}
  BY TopIsFrame DEF Typed
<1> DEFINE S == FrameType \union {f, c}
           s == [frames EXCEPT ![Len(frames)] = f]
<1>2. frames \in Seq(S) /\ Len(frames) \in 1 .. Len(frames) /\ f \in S /\ c \in S
  BY <1>1
<1>3. frames' = Append(s, c)
  BY DEF Calls
<1> HIDE DEF S
<1>4. s \in Seq(S) /\ Len(s) = Len(frames) /\ s[Len(frames)] = f
  BY <1>2, ExceptSeq
<1> HIDE DEF s
<1>5. /\ Len(frames') = Len(frames) + 1 /\ frames'[Len(frames)] = f /\ frames'[Len(frames) + 1] = c
  BY <1>1, <1>2, <1>3, <1>4, AppendProperties
<1>6. frames'[Len(frames)] \in FrameType /\ frames'[Len(frames) + 1] \in FrameType
  <2>1. Len(frames) \in 1 .. Len(frames') /\ Len(frames) + 1 \in 1 .. Len(frames')
    BY <1>1, <1>5
  <2> QED
    BY <1>1, <2>1, ElementOfSeq
<1> QED
  BY <1>5, <1>6

LEMMA ReturnsSets ==
  ASSUME Typed', NEW ok, NEW sat, Returns(ok, sat)
  PROVE  ok \in BOOLEAN /\ sat \in SUBSET Edge
<1>1. ret' \in RetType /\ ret' = [ok |-> ok, sat |-> sat, done |-> TRUE]
  BY DEF Typed, Returns
<1> QED
  BY <1>1 DEF RetType

LEMMA NestFinal ==
  ASSUME Typed, Typed', FinalInv, frames # <<>>, block' = block, ~Hemmed, NEW sat, NEW graphs, NEW d,
         Nest(sat, graphs, d)
  PROVE  FinalInv'
<1>1. CASE graphs = <<>>
  <2>1. Returns(TRUE, sat)
    BY <1>1 DEF Nest
  <2>2. sat \in SUBSET Edge
    BY <2>1, ReturnsSets
  <2> QED
    BY <2>1, <2>2, FinalReturns
<1>2. CASE graphs # <<>>
  <2> DEFINE f == [fn |-> "breakGraph", at |-> "nested", d |-> d, sat |-> sat, graphs |-> Tail(graphs)]
             c == optimize(Head(graphs), d, calcMaxDepth(Head(graphs)))
  <2>1. Calls(f, c)
    BY <1>2 DEF Nest
  <2>2. f.fn = "breakGraph" /\ c.fn = "optimize"
    BY DEF optimize
  <2> HIDE DEF f, c
  <2>3. f \in FrameType /\ c \in FrameType
    BY <2>1, CallsOfFrames
  <2>4. ~IsSatNested(f) /\ ~IsSatNested(c)
    BY <2>2 DEF IsSatNested
  <2> QED
    BY <2>1, <2>3, <2>4, FinalCalls
<1> QED
  BY <1>1, <1>2

LEMMA BreakFinal ==
  ASSUME Typed, FinalInv, Break
  PROVE  FinalInv'
<1>1. block' = block
  BY DEF Break, BreakWhole, BreakSplit, BreakSkip, BreakSolved, BreakUnsolved, BreakAllSolved, BreakFuse,
         BreakApart, BreakAllFused, BreakNested, Unsolved, Solved, SetFusionOmega
<1>2. frames # <<>> /\ Top.fn = "breakGraph"
  BY DEF Break, BreakWhole, BreakSplit, BreakSkip, BreakSolved, BreakUnsolved, BreakAllSolved, BreakFuse,
         BreakApart, BreakAllFused, BreakNested, At
<1>3. ~Hemmed
  BY <1>2, QuietTop DEF Quiet
<1>4. Typed' /\ Top \in FrameType
  BY <1>2, BreakTyped, TopIsFrame
<1>5. ASSUME NEW f, Goes(f), f.fn = "breakGraph" PROVE FinalInv'
  <2>1. f \in FrameType
    BY <1>2, <1>4, <1>5, GoesToFrame
  <2> QED
    BY <1>1, <1>2, <1>3, <1>5, <2>1, FinalGoes DEF IsSatNested
<1>6. ASSUME Returns(FALSE, {}) PROVE FinalInv'
  BY <1>1, <1>2, <1>3, <1>6, FinalReturns
<1>7. CASE BreakWhole \/ BreakUnsolved
  BY <1>6, <1>7 DEF BreakWhole, BreakUnsolved
<1>8. CASE BreakSplit
  BY <1>5, <1>8 DEF BreakSplit
<1>9. CASE BreakSkip
  <2>1. Top \in BreakSolve
    BY <1>2, <1>4, <1>9, FrameKinds DEF BreakSkip, At
  <2> DEFINE f == [Top EXCEPT !.i = @ + 1]
  <2>2. f.fn = "breakGraph" /\ Goes(f)
    BY <1>9, <2>1 DEF BreakSkip, BreakSolve
  <2> QED
    BY <1>5, <2>2
<1>10. CASE BreakSolved
  <2>1. Top \in BreakSolve
    BY <1>2, <1>4, <1>10, FrameKinds DEF BreakSolved, At
  <2>2. PICK o \in Outcomes(Graphs[Top.i], Top.d, FALSE) :
          Goes([Top EXCEPT !.i = @ + 1, !.sat = @ \union o.deactivated, !.graphs[Top.i] = After(@, o)])
    BY <1>10 DEF BreakSolved
  <2> DEFINE gs == [Top.graphs EXCEPT ![Top.i] = After(@, o)]
             sat == Top.sat \union o.deactivated
             f == [Top EXCEPT !.i = @ + 1, !.sat = sat, !.graphs = gs]
  <2> HIDE DEF gs, sat
  <2>3. f.fn = "breakGraph"
    BY <2>1 DEF BreakSolve
  <2> QED
    BY <1>5, <2>2, <2>3 DEF gs, sat
<1>11. CASE BreakAllSolved
  BY <1>5, <1>11 DEF BreakAllSolved
<1>12. CASE BreakFuse
  <2>1. Top \in BreakFusing
    BY <1>2, <1>4, <1>12, FrameKinds DEF BreakFuse, At
  <2> DEFINE gs == [Top.graphs EXCEPT ![Top.bases[Len(Top.bases)]] = Merged(@, Graphs[Top.i])]
             f == [Top EXCEPT !.i = @ + 1, !.graphs = gs]
  <2>2. Goes(f)
    BY <1>12 DEF BreakFuse
  <2> HIDE DEF gs
  <2>3. f.fn = "breakGraph"
    BY <2>1 DEF BreakFusing
  <2> QED
    BY <1>5, <2>2, <2>3
<1>13. CASE BreakApart
  <2>1. Top \in BreakFusing
    BY <1>2, <1>4, <1>13, FrameKinds DEF BreakApart, At
  <2> DEFINE f == [Top EXCEPT !.i = @ + 1, !.bases = Append(@, Top.i)]
  <2>2. Goes(f) /\ f.fn = "breakGraph"
    BY <1>13, <2>1 DEF BreakApart, BreakFusing
  <2> QED
    BY <1>5, <2>2
<1>14. CASE BreakAllFused
  <2>1. Nest(Top.sat, [k \in DOMAIN Top.bases |-> Graphs[Top.bases[k]]], Top.d + 1)
    BY <1>14 DEF BreakAllFused
  <2> QED
    BY <1>1, <1>2, <1>3, <1>4, <2>1, NestFinal
<1>15. CASE BreakNested
  <2>1. CASE ret.ok
    BY <1>1, <1>2, <1>3, <1>4, <1>15, <2>1, NestFinal DEF BreakNested
  <2>2. CASE ~ret.ok
    BY <1>6, <1>15, <2>2 DEF BreakNested
  <2> QED
    BY <2>1, <2>2
<1> QED
  BY <1>7, <1>8, <1>9, <1>10, <1>11, <1>12, <1>13, <1>14, <1>15 DEF Break

LEMMA FinalStep ==
  ASSUME Typed, FinalInv, [Next]_vars
  PROVE  FinalInv'
<1>1. CASE Optimize
  BY <1>1, OptimizeFinal
<1>2. CASE SatDep
  BY <1>2, SatDepFinal
<1>3. CASE Break
  BY <1>3, BreakFinal
<1>4. CASE Retry
  BY <1>4 DEF Retry, FinalInv, optimize, IsSatNested
<1>5. CASE UNCHANGED vars
  BY <1>5 DEF vars, history, FinalInv, Quiet, missingNode, In, Out
<1> QED
  BY <1>1, <1>2, <1>3, <1>4, <1>5 DEF Next

(* Once optimizeSatDep has satisfied everything at depth d, the optimize that  *)
(* it calls for the inner loops succeeds: the restoring code behind that call  *)
(* is never reached, in any loop block (LoopBlock.hpp, optimizeSatDep).        *)
THEOREM SatDepNeverFails == Spec => []SatDepIsFinal
<1>1. Init => Typed /\ FinalInv
  <2>1. Init => FinalInv
    BY DEF Init, FinalInv, optimize, IsSatNested
  <2> QED
    BY <2>1, InitTyped
<1>2. Typed /\ FinalInv /\ [Next]_vars => (Typed /\ FinalInv)'
  BY NextTyped, FinalStep
<1>3. Typed /\ FinalInv => SatDepIsFinal
  <2> SUFFICES ASSUME Typed, FinalInv, At("optimizeSatDep", "nested")
               PROVE  ret.ok
    BY DEF SatDepIsFinal
  <2>1. frames # <<>> /\ IsSatNested(Top) /\ ret.done
    BY DEF At, IsSatNested
  <2>2. Len(frames) \in Nat \ {0} /\ Len(frames) \in 1 .. Len(frames)
    BY <2>1, TopIsFrame
  <2> QED
    BY <2>1, <2>2 DEF FinalInv, Top
<1> QED
  BY <1>1, <1>2, <1>3, PTL DEF Spec

----------------------------------------------------------------------------
(* What optimize returns: a level once given is never taken back.            *)

Levelled == {e \in Edge : satLvl[e][1] # Unset}

SatInv == (\A k \in 1 .. Len(frames) : frames[k].sat \subseteq Levelled) /\ ret.sat \subseteq Levelled

LEMMA SolvedLevels ==
  ASSUME TypeOK, NEW g \in GraphType, NEW d \in Row, NEW o \in OutcomeType,
         NEW levels \in LevelsType, NEW flags, Solved(g, d, o, levels, flags),
         \A e \in Edge : e \in o.deactivated \/ levels[e][1] = satLvl[e][1]
  PROVE  Levelled \subseteq Levelled' /\ o.deactivated \subseteq Levelled'
<1>1. \A e \in Edge : levels[e] \in [1 .. SatSlots -> 0 .. 255]
  BY DEF LevelsType
<1>2. \A e \in Edge :
        satLvl'[e] = IF e \in o.deactivated THEN setSatLevelLP(levels[e], d)
                     ELSE IF e \in o.empty THEN setSatLevelIndep(levels[e], d)
                     ELSE levels[e]
  BY DEF Solved
<1>3. \A e \in Edge : e \in o.deactivated \union o.empty => satLvl'[e][1] # Unset
  <2> SUFFICES ASSUME NEW e \in Edge, e \in o.deactivated \union o.empty
               PROVE  satLvl'[e][1] # Unset
    OBVIOUS
  <2>1. setSatLevelLP(levels[e], d)[1] # Unset /\ setSatLevelIndep(levels[e], d)[1] # Unset
    <3> DEFINE s == levels[e]
    <3>1. s \in [1 .. SatSlots -> 0 .. 255] /\ d \in Row
      BY <1>1
    <3> HIDE DEF s
    <3>2. setSatLevelLP(s, d)[1] # Unset /\ setSatLevelIndep(s, d)[1] # Unset
      BY ONLY <3>1, SetLevelFacts
    <3> QED
      BY <3>2 DEF s
  <2> QED
    BY <1>2, <2>1
<1>4. \A e \in Edge : e \notin o.deactivated \union o.empty => satLvl'[e][1] = satLvl[e][1]
  BY <1>2
<1>5. o.deactivated \in SUBSET Edge
  BY DEF OutcomeType
<1> QED
  BY <1>3, <1>4, <1>5 DEF Levelled

\* The action property: the front of satLvl is never unset again.
LEMMA LevelsStep ==
  ASSUME Typed, [Next]_vars
  PROVE  Levelled \subseteq Levelled'
<1>1. TypeOK /\ satLvl \in LevelsType
  BY DEF Typed, TypeOK, LevelsType
<1>2. ASSUME satLvl' = satLvl PROVE Levelled \subseteq Levelled'
  BY <1>2 DEF Levelled
<1>3. CASE OptimizeSolved
  <2>1. Top \in FrameType
    BY <1>3, TopIsFrame DEF OptimizeSolved, At
  <2>2. Top.g \in GraphType /\ Top.d \in Row
    <3>1. Top \in OptStart /\ Top.d < Top.maxDepth
      BY <1>3, <2>1, FrameKinds DEF OptimizeSolved, At
    <3> QED
      BY <3>1, LoopAssumption DEF OptStart, Row
  <2>3. PICK o \in Outcomes(Top.g, Top.d, FALSE) : Solved(Top.g, Top.d, o, satLvl, carried)
    BY <1>3 DEF OptimizeSolved
  <2>4. o \in OutcomeType
    BY <2>3, OutcomesType
  <2> QED
    BY <1>1, <2>2, <2>3, <2>4, SolvedLevels
<1>4. CASE BreakSolved
  <2>1. Top \in BreakSolve /\ Top.i <= Len(Top.graphs)
    BY <1>4, TopIsFrame, FrameKinds DEF BreakSolved, At, Graphs
  <2>2. Top.graphs[Top.i] \in GraphType /\ Top.d \in Row
    BY <2>1, SolvingFrame
  <2>3. PICK o \in Outcomes(Graphs[Top.i], Top.d, FALSE) : Solved(Graphs[Top.i], Top.d, o, satLvl, carried)
    BY <1>4 DEF BreakSolved
  <2>4. o \in OutcomeType
    BY <2>3, OutcomesType
  <2> QED
    BY <1>1, <2>2, <2>3, <2>4, SolvedLevels DEF Graphs
<1>5. CASE SatDepSolved
  <2>1. Top \in SatStart
    BY <1>5, TopIsFrame, FrameKinds DEF SatDepSolved, At
  <2>2. Top.g \in GraphType /\ Top.d \in Row
    BY <2>1 DEF SatStart
  <2> DEFINE edges  == getEdges(Top.g, Top.d)
             levels == [e \in Edge |-> IF e \in edges THEN stashSatLevel(satLvl[e]) ELSE satLvl[e]]
             flags  == [n \in Node |-> {k \in carried[n] : k < Top.d}]
  <2>3. PICK o \in Outcomes(Top.g, Top.d, TRUE) : Solved(Top.g, Top.d, o, levels, flags)
    BY <1>5 DEF SatDepSolved
  <2>4. o \in OutcomeType /\ o.deactivated = edges
    BY <2>3, OutcomesType
  <2>5. \A e \in Edge : stashSatLevel(satLvl[e]) \in [1 .. SatSlots -> 0 .. 255]
    BY <1>1, StashFacts DEF LevelsType
  <2>6. levels \in LevelsType
    BY <1>1, <2>5 DEF LevelsType
  <2>7. \A e \in Edge : e \in o.deactivated \/ levels[e][1] = satLvl[e][1]
    BY <2>4
  <2> HIDE DEF levels, flags, edges
  <2> QED
    BY <1>1, <2>2, <2>3, <2>4, <2>6, <2>7, SolvedLevels
<1>6. CASE SatDepUnsolved
  <2>1. \A e \in Edge : satLvl[e] \in [1 .. SatSlots -> 0 .. 255]
    BY <1>1 DEF LevelsType
  <2>2. \A e \in Edge : popSatLevel(stashSatLevel(satLvl[e]))[1] = satLvl[e][1]
    BY <2>1, StashFacts
  <2>3. \A e \in Edge : satLvl'[e][1] = satLvl[e][1]
    BY <1>6, <2>2 DEF SatDepUnsolved
  <2> QED
    BY <2>3 DEF Levelled
<1>7. CASE OptimizeLeaf \/ OptimizeUnsolved \/ OptimizeNested \/ OptimizeNestedFailed \/ SatDepNested
  BY <1>2, <1>7 DEF OptimizeLeaf, OptimizeUnsolved, OptimizeNested, OptimizeNestedFailed, SatDepNested,
                    Unsolved, Abandons
<1>8. CASE BreakWhole \/ BreakSplit \/ BreakSkip \/ BreakUnsolved \/ BreakAllSolved
  BY <1>2, <1>8 DEF BreakWhole, BreakSplit, BreakSkip, BreakUnsolved, BreakAllSolved, Unsolved
<1>9. CASE BreakFuse \/ BreakApart \/ BreakAllFused \/ BreakNested
  BY <1>2, <1>9 DEF BreakFuse, BreakApart, BreakAllFused, BreakNested, Unsolved, SetFusionOmega
<1>10. CASE Retry \/ UNCHANGED vars
  BY <1>2, <1>10 DEF Retry, vars
<1> QED
  BY <1>3, <1>4, <1>5, <1>6, <1>7, <1>8, <1>9, <1>10 DEF Next, Optimize, SatDep, Break

(* A dependence that has a satisfaction level keeps one: whatever calls fail,  *)
(* are retried or stash and pop levels, none goes back to unsatisfied          *)
(* (Dependence::satLvl under solveGraph and optimizeSatDep).                   *)
THEOREM LevelsStay == Spec => [][Levelled \subseteq Levelled']_vars
<1>1. Typed /\ [Next]_vars => [Levelled \subseteq Levelled']_vars
  BY LevelsStep
<1> QED
  BY <1>1, InitTyped, NextTyped, PTL DEF Spec

\* How the sets of the calls move on, by the three ways a step changes the stack.
LEMMA SatGoes ==
  ASSUME Typed, Typed', SatInv, frames # <<>>, Levelled \subseteq Levelled',
         NEW f, Goes(f), f.sat \subseteq Levelled'
  PROVE  SatInv'
<1>1. f \in FrameType
  BY GoesToFrame
<1>2. /\ Len(frames) \in Nat \ {0} /\ Len(frames') = Len(frames) /\ frames'[Len(frames)] = f
      /\ \A k \in 1 .. Len(frames) - 1 : frames'[k] = frames[k]
      /\ ret'.sat = {}
  BY <1>1, TopIsFrame, GoesOn DEF NoRet
<1>3. \A k \in 1 .. Len(frames') : k \in 1 .. Len(frames) - 1 \/ k = Len(frames)
  BY <1>2
<1>4. \A k \in 1 .. Len(frames') : frames'[k].sat \subseteq Levelled'
  BY <1>2, <1>3 DEF SatInv
<1> QED
  BY <1>2, <1>4 DEF SatInv

LEMMA SatCalls ==
  ASSUME Typed, Typed', SatInv, frames # <<>>, Levelled \subseteq Levelled',
         NEW f, NEW c, Calls(f, c), f.sat \subseteq Levelled', c.sat \subseteq Levelled'
  PROVE  SatInv'
<1>1. f \in FrameType /\ c \in FrameType
  BY CallsOfFrames
<1>2. /\ Len(frames) \in Nat \ {0} /\ Len(frames') = Len(frames) + 1
      /\ frames'[Len(frames)] = f /\ frames'[Len(frames) + 1] = c
      /\ \A k \in 1 .. Len(frames) - 1 : frames'[k] = frames[k]
      /\ ret'.sat = {}
  BY <1>1, TopIsFrame, CallsOn DEF NoRet
<1>3. \A k \in 1 .. Len(frames') :
        k \in 1 .. Len(frames) - 1 \/ k = Len(frames) \/ k = Len(frames) + 1
  BY <1>2
<1>4. \A k \in 1 .. Len(frames') : frames'[k].sat \subseteq Levelled'
  BY <1>2, <1>3 DEF SatInv
<1> QED
  BY <1>2, <1>4 DEF SatInv

LEMMA SatReturns ==
  ASSUME Typed, Typed', SatInv, frames # <<>>, Levelled \subseteq Levelled',
         NEW ok, NEW sat, Returns(ok, sat), sat \subseteq Levelled'
  PROVE  SatInv'
<1>1. ok \in BOOLEAN /\ sat \in SUBSET Edge
  BY ReturnsSets
<1>2. /\ Len(frames) \in Nat \ {0} /\ Len(frames') = Len(frames) - 1
      /\ \A k \in 1 .. Len(frames) - 1 : frames'[k] = frames[k]
      /\ ret'.sat = sat
  BY <1>1, TopIsFrame, ReturnsOn
<1>3. \A k \in 1 .. Len(frames') : k \in 1 .. Len(frames) /\ frames'[k] = frames[k]
  BY <1>2
<1>4. \A k \in 1 .. Len(frames') : frames'[k].sat \subseteq Levelled'
  BY <1>3 DEF SatInv
<1> QED
  BY <1>2, <1>4 DEF SatInv

LEMMA SatNest ==
  ASSUME Typed, Typed', SatInv, frames # <<>>, Levelled \subseteq Levelled',
         NEW sat, NEW graphs, NEW d, Nest(sat, graphs, d), sat \subseteq Levelled'
  PROVE  SatInv'
<1>1. CASE graphs = <<>>
  BY <1>1, SatReturns DEF Nest
<1>2. CASE graphs # <<>>
  <2> DEFINE f == [fn |-> "breakGraph", at |-> "nested", d |-> d, sat |-> sat, graphs |-> Tail(graphs)]
             c == optimize(Head(graphs), d, calcMaxDepth(Head(graphs)))
  <2>1. Calls(f, c)
    BY <1>2 DEF Nest
  <2>2. f.sat = sat /\ c.sat = {}
    BY DEF optimize
  <2> HIDE DEF f, c
  <2> QED
    BY <2>1, <2>2, SatCalls
<1> QED
  BY <1>1, <1>2

LEMMA SatStep ==
  ASSUME Typed, SatInv, [Next]_vars
  PROVE  SatInv'
<1>1. /\ Typed' /\ Levelled \subseteq Levelled' /\ TypeOK /\ satLvl \in LevelsType
  BY NextTyped, LevelsStep DEF Typed, TypeOK, LevelsType
<1>2. ASSUME frames # <<>> PROVE Top \in FrameType /\ Top.sat \subseteq Levelled' /\ ret.sat \subseteq Levelled'
  <2>1. Len(frames) \in 1 .. Len(frames) /\ Top \in FrameType
    BY <1>2, TopIsFrame
  <2> QED
    BY <1>1, <2>1 DEF SatInv, Top
<1>3. CASE Optimize
  <2>1. frames # <<>>
    BY <1>3 DEF Optimize, OptimizeLeaf, OptimizeSolved, OptimizeUnsolved, OptimizeNested,
                OptimizeNestedFailed, At
  <2>2. Top \in FrameType /\ Top.sat \subseteq Levelled' /\ ret.sat \subseteq Levelled'
    BY <1>2, <2>1
  <2>3. CASE OptimizeLeaf
    <3> DEFINE sat == {}
    <3>1. Returns(TRUE, sat) /\ sat \subseteq Levelled'
      BY <2>3 DEF OptimizeLeaf
    <3> HIDE DEF sat
    <3> QED
      BY <1>1, <2>1, <3>1, SatReturns
  <2>4. CASE OptimizeSolved
    <3>1. Top \in OptStart /\ Top.d < Top.maxDepth
      BY <2>2, <2>4, FrameKinds DEF OptimizeSolved, At
    <3>2. Top.g \in GraphType /\ Top.d \in Row
      BY <3>1, LoopAssumption DEF OptStart, Row
    <3>3. PICK o \in Outcomes(Top.g, Top.d, FALSE) :
            /\ Solved(Top.g, Top.d, o, satLvl, carried)
            /\ IF Top.d + 1 = Top.maxDepth
               THEN Returns(TRUE, o.deactivated)
               ELSE Calls([Top EXCEPT !.at = "nested", !.g = After(Top.g, o), !.sat = o.deactivated],
                          optimize(After(Top.g, o), Top.d + 1, Top.maxDepth))
      BY <2>4 DEF OptimizeSolved
    <3>4. o.deactivated \subseteq Levelled'
      <4>1. o \in OutcomeType
        BY <3>3, OutcomesType
      <4> QED
        BY <1>1, <3>2, <3>3, <4>1, SolvedLevels
    <3>5. CASE Top.d + 1 = Top.maxDepth
      BY <1>1, <2>1, <3>3, <3>4, <3>5, SatReturns
    <3>6. CASE Top.d + 1 # Top.maxDepth
      <4> DEFINE f == [Top EXCEPT !.at = "nested", !.g = After(Top.g, o), !.sat = o.deactivated]
                 c == optimize(After(Top.g, o), Top.d + 1, Top.maxDepth)
      <4>1. Calls(f, c)
        BY <3>3, <3>6
      <4>2. f.sat = o.deactivated /\ c.sat = {}
        BY <3>1 DEF OptStart, optimize
      <4> HIDE DEF f, c
      <4> QED
        BY <1>1, <2>1, <3>4, <4>1, <4>2, SatCalls
    <3> QED
      BY <3>5, <3>6
  <2>5. CASE OptimizeUnsolved \/ OptimizeNestedFailed
    <3>1. Goes(breakGraph(Top.g, Top.d)) /\ breakGraph(Top.g, Top.d).sat = {}
      BY <2>5 DEF OptimizeUnsolved, OptimizeNestedFailed, breakGraph
    <3> QED
      BY <1>1, <2>1, <3>1, SatGoes
  <2>6. CASE OptimizeNested
    <3> DEFINE sat == Top.sat \union ret.sat
               f == optimizeSatDep(Top.g, Top.d, Top.maxDepth, sat, Top.backup)
    <3>1. sat \subseteq Levelled' /\ f.sat = sat
      BY <2>2 DEF optimizeSatDep
    <3>2. Returns(TRUE, sat) \/ Goes(f)
      BY <2>6 DEF OptimizeNested
    <3> HIDE DEF sat, f
    <3> QED
      BY <1>1, <2>1, <3>1, <3>2, SatReturns, SatGoes
  <2> QED
    BY <1>3, <2>3, <2>4, <2>5, <2>6 DEF Optimize
<1>4. CASE SatDep
  <2>1. frames # <<>>
    BY <1>4 DEF SatDep, SatDepSolved, SatDepUnsolved, SatDepNested, At
  <2>2. Top \in FrameType /\ Top.sat \subseteq Levelled' /\ ret.sat \subseteq Levelled'
    BY <1>2, <2>1
  <2>3. CASE SatDepSolved
    <3>1. Top \in SatStart
      BY <2>2, <2>3, FrameKinds DEF SatDepSolved, At
    <3>2. Top.g \in GraphType /\ Top.d \in Row
      BY <3>1 DEF SatStart
    <3> DEFINE edges  == getEdges(Top.g, Top.d)
               levels == [e \in Edge |-> IF e \in edges THEN stashSatLevel(satLvl[e]) ELSE satLvl[e]]
               flags  == [n \in Node |-> {k \in carried[n] : k < Top.d}]
    <3>3. PICK o \in Outcomes(Top.g, Top.d, TRUE) :
            /\ Solved(Top.g, Top.d, o, levels, flags)
            /\ Calls([fn |-> "optimizeSatDep", at |-> "nested", sat |-> o.deactivated],
                     optimize(After(Top.g, o), Top.d + 1, Top.maxDepth))
      BY <2>3 DEF SatDepSolved
    <3>4. o \in OutcomeType /\ o.deactivated = edges
      BY <3>3, OutcomesType
    <3>5. \A e \in Edge : stashSatLevel(satLvl[e]) \in [1 .. SatSlots -> 0 .. 255]
      BY <1>1, StashFacts DEF LevelsType
    <3>6. levels \in LevelsType
      BY <1>1, <3>5 DEF LevelsType
    <3>7. \A e \in Edge : e \in o.deactivated \/ levels[e][1] = satLvl[e][1]
      BY <3>4
    <3> HIDE DEF levels, flags, edges
    <3>8. o.deactivated \subseteq Levelled'
      BY <1>1, <3>2, <3>3, <3>4, <3>6, <3>7, SolvedLevels
    <3> DEFINE f == [fn |-> "optimizeSatDep", at |-> "nested", sat |-> o.deactivated]
               c == optimize(After(Top.g, o), Top.d + 1, Top.maxDepth)
    <3>9. Calls(f, c) /\ f.sat = o.deactivated /\ c.sat = {}
      BY <3>3 DEF optimize
    <3> HIDE DEF f, c
    <3> QED
      BY <1>1, <2>1, <3>8, <3>9, SatCalls
  <2>4. CASE SatDepUnsolved
    BY <1>1, <2>1, <2>2, <2>4, SatReturns DEF SatDepUnsolved
  <2>5. CASE SatDepNested
    <3>1. Returns(TRUE, Top.sat \union ret.sat) /\ Top.sat \union ret.sat \subseteq Levelled'
      BY <2>2, <2>5 DEF SatDepNested
    <3> QED
      BY <1>1, <2>1, <3>1, SatReturns
  <2> QED
    BY <1>4, <2>3, <2>4, <2>5 DEF SatDep
<1>5. CASE Break
  <2>1. frames # <<>>
    BY <1>5 DEF Break, BreakWhole, BreakSplit, BreakSkip, BreakSolved, BreakUnsolved, BreakAllSolved,
                BreakFuse, BreakApart, BreakAllFused, BreakNested, At
  <2>2. Top \in FrameType /\ Top.sat \subseteq Levelled' /\ ret.sat \subseteq Levelled'
    BY <1>2, <2>1
  <2>3. CASE Returns(FALSE, {})
    <3> DEFINE sat == {}
    <3>1. Returns(FALSE, sat) /\ sat \subseteq Levelled'
      BY <2>3
    <3> HIDE DEF sat
    <3> QED
      BY <1>1, <2>1, <3>1, SatReturns
  <2>4. CASE BreakWhole \/ BreakUnsolved
    BY <2>3, <2>4 DEF BreakWhole, BreakUnsolved
  <2>5. CASE BreakSplit
    <3>1. PICK s \in stronglyConnectedComponents(Top.g) :
            Goes([fn |-> "breakGraph", at |-> "solve", d |-> Top.d, sat |-> {}, i |-> 1,
                  graphs |-> [k \in DOMAIN s |-> subGraph(Top.g, s[k])]])
      BY <2>5 DEF BreakSplit
    <3> QED
      BY <1>1, <2>1, <3>1, SatGoes
  <2>6. CASE BreakSkip
    <3>1. Top \in BreakSolve
      BY <2>2, <2>6, FrameKinds DEF BreakSkip, At
    <3> DEFINE f == [Top EXCEPT !.i = @ + 1]
    <3>2. Goes(f) /\ f.sat = Top.sat
      BY <2>6, <3>1 DEF BreakSkip, BreakSolve
    <3> HIDE DEF f
    <3> QED
      BY <1>1, <2>1, <2>2, <3>2, SatGoes
  <2>7. CASE BreakSolved
    <3>1. Top \in BreakSolve /\ Top.i <= Len(Top.graphs)
      BY <2>2, <2>7, FrameKinds DEF BreakSolved, At, Graphs
    <3>2. Top.graphs[Top.i] \in GraphType /\ Top.d \in Row
      BY <3>1, SolvingFrame
    <3>3. PICK o \in Outcomes(Graphs[Top.i], Top.d, FALSE) :
            /\ Solved(Graphs[Top.i], Top.d, o, satLvl, carried)
            /\ Goes([Top EXCEPT !.i = @ + 1, !.sat = @ \union o.deactivated, !.graphs[Top.i] = After(@, o)])
      BY <2>7 DEF BreakSolved
    <3>4. o.deactivated \subseteq Levelled'
      <4>1. o \in OutcomeType
        BY <3>3, OutcomesType
      <4> QED
        BY <1>1, <3>2, <3>3, <4>1, SolvedLevels DEF Graphs
    <3> DEFINE gs == [Top.graphs EXCEPT ![Top.i] = After(@, o)]
               f == [Top EXCEPT !.i = @ + 1, !.sat = Top.sat \union o.deactivated, !.graphs = gs]
    <3>5. Goes(f)
      BY <3>3
    <3> HIDE DEF gs
    <3>6. f.sat = Top.sat \union o.deactivated
      BY <3>1 DEF BreakSolve
    <3> HIDE DEF f
    <3> QED
      BY <1>1, <2>1, <2>2, <3>4, <3>5, <3>6, SatGoes
  <2>8. CASE BreakAllSolved
    <3>1. Goes([fn |-> "breakGraph", at |-> "fuse", d |-> Top.d, sat |-> Top.sat,
                graphs |-> Graphs, i |-> 2, bases |-> <<1>>])
      BY <2>8 DEF BreakAllSolved
    <3> QED
      BY <1>1, <2>1, <2>2, <3>1, SatGoes
  <2>9. ASSUME BreakFuse \/ BreakApart PROVE Top \in BreakFusing
    BY <2>2, <2>9, FrameKinds DEF BreakFuse, BreakApart, At
  <2>10. CASE BreakFuse
    <3> DEFINE gs == [Top.graphs EXCEPT ![Top.bases[Len(Top.bases)]] = Merged(@, Graphs[Top.i])]
               f == [Top EXCEPT !.i = @ + 1, !.graphs = gs]
    <3>1. Goes(f)
      BY <2>10 DEF BreakFuse
    <3> HIDE DEF gs
    <3>2. f.sat = Top.sat
      BY <2>9, <2>10 DEF BreakFusing
    <3> HIDE DEF f
    <3> QED
      BY <1>1, <2>1, <2>2, <3>1, <3>2, SatGoes
  <2>11. CASE BreakApart
    <3> DEFINE f == [Top EXCEPT !.i = @ + 1, !.bases = Append(@, Top.i)]
    <3>1. Goes(f) /\ f.sat = Top.sat
      BY <2>9, <2>11 DEF BreakApart, BreakFusing
    <3> HIDE DEF f
    <3> QED
      BY <1>1, <2>1, <2>2, <3>1, SatGoes
  <2>12. CASE BreakAllFused
    BY <1>1, <2>1, <2>2, <2>12, SatNest DEF BreakAllFused
  <2>13. CASE BreakNested
    <3>1. Top.sat \union ret.sat \subseteq Levelled'
      BY <2>2
    <3>2. Returns(FALSE, {}) \/ Nest(Top.sat \union ret.sat, Graphs, Top.d)
      BY <2>13 DEF BreakNested
    <3> QED
      BY <1>1, <2>1, <2>3, <3>1, <3>2, SatNest
  <2> QED
    BY <1>5, <2>4, <2>5, <2>6, <2>7, <2>8, <2>10, <2>11, <2>12, <2>13 DEF Break
<1>6. CASE Retry
  BY <1>6 DEF Retry, SatInv, optimize, NoRet
<1>7. CASE UNCHANGED vars
  BY <1>7 DEF vars, history, SatInv, Levelled
<1> QED
  BY <1>3, <1>4, <1>5, <1>6, <1>7 DEF Next

(* Every dependence in the set that optimize returns has a satisfaction level  *)
(* when the scheduler is done (optimize, optimizeSatDep, breakGraph).          *)
THEOREM ReturnsSatisfied == Spec => []ReturnedAreSatisfied
<1>1. Init => Typed /\ SatInv
  <2>1. Init => SatInv
    BY DEF Init, SatInv, optimize, NoRet
  <2> QED
    BY <2>1, InitTyped
<1>2. Typed /\ SatInv /\ [Next]_vars => (Typed /\ SatInv)'
  BY NextTyped, SatStep
<1>3. Typed /\ SatInv => ReturnedAreSatisfied
  BY DEF SatInv, ReturnedAreSatisfied, Levelled
<1> QED
  BY <1>1, <1>2, <1>3, PTL DEF Spec

----------------------------------------------------------------------------
(* What the schedule says of an edge at the levels above a depth.          *)

Touches(e, N) == In(e) \in N \/ Out(e) \in N
Within(e, N) == In(e) \in N /\ Out(e) \in N

\* Something was done at a level of the edge for another graph or in an attempt
\* that failed.
Marked(e, r) == <<e, r>> \in stray \/ \E n \in {In(e), Out(e)} : <<n, r>> \in lost \union moved
Clean(e, d) == \A r \in 0 .. MaxLoops : r < d => ~Marked(e, r)

Decides(e, r) == DifferAt(e, r) \/ (r < block.edgeLoops[e] /\ sign[e][r] # "zero")
Right(e, r) == IF DifferAt(e, r) THEN omega[In(e)][r] < omega[Out(e)][r] ELSE sign[e][r] # "bad"

\* If a level above d decides the edge, the first of them puts its input first.
Good(e, d) ==
  \A r \in 0 .. block.edgeLoops[e] :
    r < d /\ Decides(e, r) /\ (\A k \in 0 .. r - 1 : ~Decides(e, k)) => Right(e, r)
Decided(e, d) == \E r \in 0 .. block.edgeLoops[e] : r < d /\ Decides(e, r)

\* satLvl claims no more than the levels above d show.
Truthful(e, d) ==
  \/ e \in stale \/ satLvl[e][1] = Unset
  \/ \E r \in 0 .. block.edgeLoops[e] : r < d /\ r <= satLevel(e) /\ Decides(e, r)

\* An edge that may still have to be ordered, and one that no longer has.
Sound(e, d) == Good(e, d) /\ (block.edgeLoops[e] <= d => Truthful(e, d))
Settled(e, d) == Good(e, d) /\ (Decided(e, d) \/ block.edgeLoops[e] < d) /\ Truthful(e, d)

----------------------------------------------------------------------------
(* What a call can rely on for the graphs it has still to schedule.        *)

Open(g) == Owned(g) \intersect g.activeEdges

\* The graph g is to be scheduled from depth d on.
Pending(g, d) ==
  \A e \in Edge : Touches(e, g.own) /\ Clean(e, d) =>
    IF e \in Open(g) THEN Sound(e, d) ELSE e \in dropped \/ Settled(e, d)
Fresh(g, d) == \A e \in Open(g) : Clean(e, d) => Truthful(e, d)

\* No fusion level in S separates the ends of an open edge.
AgreeAt(e, r) == DifferAt(e, r) => <<e, r>> \in stray \/ \E n \in {In(e), Out(e)} : <<n, r>> \in moved
Agree(g, S) == \A e \in Open(g), r \in S : r <= block.edgeLoops[e] => AgreeAt(e, r)

Ready(g, d) == Pending(g, d) /\ Fresh(g, d) /\ Agree(g, d .. MaxLoops)

Covers(m, g) == \A n \in g.own : block.nodeLoops[n] <= m

\* A graph that the attempt at row d is undone for.
Backup(f) == [f.g EXCEPT !.activeEdges = f.backup]

\* The graphs s[k], k \in K, taken together.
Joint(s, K) == [own |-> UNION {s[k].own : k \in K}, activeEdges |-> UNION {s[k].activeEdges : k \in K}]

\* breakGraph has solved row d of the graph h, one of those whose active edges are A.
RowKept(e, d) == \A n \in {In(e), Out(e)} : <<n, d>> \notin lost
RowSolved(h, A, d) ==
  \A e \in Owned(h) \intersect A :
    /\ e \notin h.activeEdges => d < block.edgeLoops[e]
    /\ d < block.edgeLoops[e] /\ RowKept(e, d) =>
         sign[e][d] # "bad" /\ (e \notin h.activeEdges => sign[e][d] # "zero")
    /\ Clean(e, d) /\ RowKept(e, d) =>
         Truthful(e, d) \/ (d < block.edgeLoops[e] /\ d <= satLevel(e) /\ sign[e][d] # "zero")

\* The graphs that breakGraph has made of one, in the order of the components;
\* those in S are solved.
Parts(s, K, S, d) ==
  LET whole == Joint(s, K)
  IN  /\ \A j, k \in K : j < k => /\ s[j].nodeIds \intersect s[k].nodeIds = {}
                                  /\ \A e \in Edge : ~(In(e) \in s[k].own /\ Out(e) \in s[j].own)
      /\ \A k \in K : \A e \in whole.activeEdges \ s[k].activeEdges : Within(e, s[k].nodeIds)
      /\ Pending(whole, d)
      /\ \A e \in Open(whole) : Clean(e, d) => Truthful(e, d) \/ \E k \in S : e \in Owned(s[k])
      /\ \A k \in S : RowSolved(s[k], whole.activeEdges, d)

\* The fusion omega of a base that no more graphs are fused into.
Closed(h, o, d) ==
  /\ \A n \in h.own : d <= block.nodeLoops[n] => omega[n][d] = o \/ <<n, d>> \in moved
  /\ Agree(h, d + 1 .. MaxLoops)

Unfused(f) == {f.bases[k] : k \in 1 .. Len(f.bases)} \union (f.i .. Len(f.graphs))

FrameInv(f) ==
  /\ f.fn = "optimize" /\ f.at = "start" =>
       Ready(f.g, f.d) /\ Covers(f.maxDepth, f.g) /\ f.backup = f.g.activeEdges
  /\ f.fn = "optimize" /\ f.at = "nested" =>
       /\ Pending(Backup(f), f.d) /\ Agree(Backup(f), {f.d})
       /\ Covers(f.maxDepth, f.g) /\ f.g.activeEdges \subseteq f.backup
  /\ f.fn = "optimizeSatDep" /\ f.at = "start" =>
       Pending(f.g, f.d) /\ Agree(f.g, {f.d}) /\ Covers(f.maxDepth, f.g)
  /\ f.fn = "breakGraph" /\ f.at = "start" => Pending(f.g, f.d) /\ Fresh(f.g, f.d)
  /\ f.fn = "breakGraph" /\ f.at = "solve" =>
       /\ Len(f.graphs) > 1
       /\ Parts(f.graphs, 1 .. Len(f.graphs), (1 .. f.i - 1) \intersect (1 .. Len(f.graphs)), f.d)
       /\ \A k \in f.i .. Len(f.graphs) :
            f.graphs[k].activeEdges = Joint(f.graphs, 1 .. Len(f.graphs)).activeEdges
  /\ f.fn = "breakGraph" /\ f.at = "fuse" =>
       /\ Parts(f.graphs, Unfused(f), Unfused(f), f.d)
       /\ \A j \in 1 .. Len(f.bases) : f.bases[j] < f.i /\ \A k \in 1 .. j - 1 : f.bases[k] < f.bases[j]
       /\ \A j \in 1 .. Len(f.bases) - 1 : Closed(f.graphs[f.bases[j]], j - 1, f.d)
  /\ f.fn = "breakGraph" /\ f.at = "nested" =>
       /\ \A k \in 1 .. Len(f.graphs) : Ready(f.graphs[k], f.d)
       /\ \A j, k \in 1 .. Len(f.graphs) : j # k => f.graphs[j].own \intersect f.graphs[k].own = {}

----------------------------------------------------------------------------
(* The stack, and what is done.                                            *)

GraphsOf(f) ==
  IF f.fn = "breakGraph" /\ f.at = "fuse" THEN {f.graphs[k] : k \in Unfused(f)}
  ELSE IF f.fn = "breakGraph" /\ f.at # "start" THEN {f.graphs[k] : k \in 1 .. Len(f.graphs)}
  ELSE IF f.fn = "optimize" /\ f.at = "nested" THEN {Backup(f)}
  ELSE IF f.fn = "optimizeSatDep" /\ f.at = "nested" THEN {}
  ELSE {f.g}

\* What the call f was made for: the graphs of f are part of the one that c
\* tries to schedule, or apart from those that it has left to do.
Under(f, c) ==
  \A h \in GraphsOf(f) :
    /\ c.fn = "optimize" => h.own \subseteq c.g.own /\ h.activeEdges \subseteq c.backup /\ c.d < f.d
    /\ c.fn = "breakGraph" => c.d <= f.d /\ \A g \in GraphsOf(c) : h.own \intersect g.own = {}

StackInv ==
  /\ \A k \in 1 .. Len(frames) : frames[k].at = "nested" <=> (k < Len(frames) \/ ret.done)
  /\ \A l \in 1 .. Len(frames) : \A k \in 1 .. l - 1 : Under(frames[l], frames[k])
  /\ \A k \in 1 .. Len(frames) : \A f \in {frames[k]} : FrameInv(f)

\* The nodes that a call has still to schedule itself.
Undone(f) ==
  IF f.fn = "optimizeSatDep" \/ (f.fn = "optimize" /\ f.at = "nested")
  THEN {} ELSE UNION {g.own : g \in GraphsOf(f)}

\* The attempt that a failure takes back.
LastAttempt(k) == frames[k].fn = "optimize" /\ \A l \in k + 1 .. Len(frames) : frames[l].fn # "optimize"
Failing == ret.done /\ ~ret.ok

Finished(e) ==
  /\ \A k \in 1 .. Len(frames) : ~Touches(e, Undone(frames[k]))
  /\ Failing => \E k \in 1 .. Len(frames) : LastAttempt(k) /\ ~Touches(e, frames[k].g.own)

DoneInv ==
  \A e \in Edge : Finished(e) /\ Intact(e) => Good(e, MaxLoops + 1) /\ Truthful(e, MaxLoops + 1)

----------------------------------------------------------------------------
(* Edges: what deeper levels add, and what a step leaves as it was.        *)

\* The numbers of an edge.
LEMMA EdgeNumbers ==
  ASSUME block \in Blocks, NEW e \in Edge
  PROVE  /\ MaxLoops \in Nat /\ block.edgeLoops[e] \in 1 .. MaxLoops
         /\ In(e) \in Node /\ Out(e) \in Node
         /\ block.edgeLoops[e] <= block.nodeLoops[In(e)]
         /\ block.edgeLoops[e] <= block.nodeLoops[Out(e)]
  BY BlockFacts, LoopAssumption

LEMMA FewerLevels ==
  ASSUME NEW e, NEW c \in Int, NEW d \in Int, c <= d
  PROVE  Clean(e, d) => Clean(e, c)
<1>1. \A r \in 0 .. MaxLoops : r < c => r < d
  OBVIOUS
<1> QED
  BY <1>1 DEF Clean

LEMMA MoreLevels ==
  ASSUME block \in Blocks, NEW e \in Edge, NEW c \in Int, NEW d \in Int, c <= d
  PROVE  /\ Truthful(e, c) => Truthful(e, d)
         /\ Settled(e, c) => Settled(e, d)
<1> DEFINE L == block.edgeLoops[e]
<1>1. L \in Nat
  BY EdgeNumbers
<1>2. Truthful(e, c) => Truthful(e, d)
  BY <1>1 DEF Truthful
<1>3. ASSUME Settled(e, c) PROVE Settled(e, d)
  <2>1. Good(e, c) /\ (Decided(e, c) \/ L < c) /\ Truthful(e, d)
    BY <1>2, <1>3 DEF Settled
  <2>2. Decided(e, d) \/ L < d
    BY <1>1, <2>1 DEF Decided
  <2>3. ASSUME NEW r \in 0 .. L, Decides(e, r), \A k \in 0 .. r - 1 : ~Decides(e, k)
        PROVE  Right(e, r)
    <3>1. r < c
      <4>1. CASE L < c
        BY <1>1, <4>1
      <4>2. CASE Decided(e, c)
        <5>1. PICK q \in 0 .. L : q < c /\ Decides(e, q)
          BY <4>2 DEF Decided
        <5>2. q \notin 0 .. r - 1
          BY <2>3, <5>1
        <5>3. q >= r
          BY <1>1, <5>2
        <5> QED
          BY <1>1, <5>1, <5>3
      <4> QED
        BY <2>1, <4>1, <4>2
    <3> QED
      BY <2>1, <2>3, <3>1 DEF Good
  <2> QED
    BY <2>1, <2>2, <2>3 DEF Settled, Good
<1> QED
  BY <1>2, <1>3

\* An edge that is settled is in order at every level.
LEMMA SettledIsDone ==
  ASSUME block \in Blocks, NEW e \in Edge, NEW d \in Int, d <= MaxLoops + 1, Settled(e, d)
  PROVE  Good(e, MaxLoops + 1) /\ Truthful(e, MaxLoops + 1)
<1>1. MaxLoops + 1 \in Int
  BY LoopAssumption
<1> QED
  BY <1>1, MoreLevels DEF Settled

SameAt(e, r) == (Decides(e, r)' <=> Decides(e, r)) /\ (Decides(e, r) => (Right(e, r)' <=> Right(e, r)))
SameLevel(e) == e \in stale' \/ (e \notin stale /\ satLvl'[e][1] = satLvl[e][1])

LEMMA EdgeKept ==
  ASSUME block \in Blocks, block' = block, NEW e \in Edge, NEW d \in Int,
         \A r \in 0 .. MaxLoops : r < d => SameAt(e, r)
  PROVE  /\ Good(e, d) => Good(e, d)'
         /\ Decided(e, d) => Decided(e, d)'
         /\ SameLevel(e) => /\ Truthful(e, d) => Truthful(e, d)'
                            /\ Settled(e, d) => Settled(e, d)'
<1> DEFINE L == block.edgeLoops[e]
<1>1. L \in Nat /\ L <= MaxLoops /\ MaxLoops \in Nat /\ block'.edgeLoops[e] = L
  BY EdgeNumbers
<1>2. \A r \in 0 .. L : r < d => (Decides(e, r)' <=> Decides(e, r)) /\ (Decides(e, r) => (Right(e, r)' <=> Right(e, r)))
  BY <1>1 DEF SameAt
<1>3. Good(e, d) => Good(e, d)'
  <2> SUFFICES ASSUME Good(e, d), NEW r \in 0 .. L, r < d, Decides(e, r)',
                      \A k \in 0 .. r - 1 : ~Decides(e, k)'
               PROVE  Right(e, r)'
    BY <1>1 DEF Good
  <2>1. \A k \in 0 .. r - 1 : k \in 0 .. L /\ k < d
    BY <1>1
  <2>2. \A k \in 0 .. r - 1 : ~Decides(e, k)
    BY <1>2, <2>1
  <2> QED
    BY <1>2, <2>2 DEF Good
<1>4. Decided(e, d) => Decided(e, d)'
  BY <1>1, <1>2 DEF Decided
<1>5. ASSUME SameLevel(e), Truthful(e, d) PROVE Truthful(e, d)'
  <2>1. CASE e \in stale'
    BY <2>1 DEF Truthful
  <2>2. CASE e \notin stale /\ satLvl'[e][1] = satLvl[e][1]
    BY <1>1, <1>2, <1>5, <2>2 DEF Truthful, satLevel
  <2> QED
    BY <1>5, <2>1, <2>2 DEF SameLevel
<1>6. ASSUME SameLevel(e), Settled(e, d) PROVE Settled(e, d)'
  BY <1>1, <1>3, <1>4, <1>5, <1>6 DEF Settled
<1> QED
  BY <1>3, <1>4, <1>5, <1>6

----------------------------------------------------------------------------
(* What a step that schedules a graph from depth d on leaves alone.        *)

\* An edge that the step may order: within the nodes N, active and with a row d.
Live(e, N, A, d) == Within(e, N) /\ e \in A /\ d < block.edgeLoops[e]

Stable(N, A, d) ==
  /\ block' = block
  /\ \A e \in Edge, r \in 0 .. MaxLoops : r < d /\ ~Marked(e, r)' => ~Marked(e, r) /\ SameAt(e, r)
  /\ \A e \in Edge : ~Touches(e, N) /\ Clean(e, MaxLoops + 1)' =>
       Clean(e, MaxLoops + 1) /\ \A r \in 0 .. MaxLoops : SameAt(e, r)
  /\ \A e \in Edge, r \in 0 .. MaxLoops : (r < d \/ ~Touches(e, N)) /\ AgreeAt(e, r) => AgreeAt(e, r)'
  /\ \A e \in Edge : e \in dropped => e \in dropped' \/ Live(e, N, A, d)
  /\ \A e \in Edge : Live(e, N, A, d) \/ SameLevel(e)

LEMMA SameEnds ==
  ASSUME block' = block
  PROVE  /\ \A e : In(e)' = In(e) /\ Out(e)' = Out(e)
         /\ \A e, N : (Touches(e, N)' <=> Touches(e, N)) /\ (Within(e, N)' <=> Within(e, N))
         /\ \A g : Owned(g)' = Owned(g) /\ Open(g)' = Open(g)
<1>1. \A e : In(e)' = In(e) /\ Out(e)' = Out(e)
  BY DEF In, Out
<1>2. \A e, N : (Touches(e, N)' <=> Touches(e, N)) /\ (Within(e, N)' <=> Within(e, N))
  BY <1>1 DEF Touches, Within
<1>3. \A g : Owned(g)' = Owned(g)
  BY <1>1 DEF Owned
<1> QED
  BY <1>1, <1>2, <1>3 DEF Open

LEMMA OwnedWithin ==
  ASSUME NEW g, NEW e
  PROVE  e \in Owned(g) <=> e \in Edge /\ Within(e, g.own)
  BY DEF Owned, Within

\* At the levels above, an edge that is clean was clean and is what it was.
LEMMA AboveKept ==
  ASSUME block \in Blocks, NEW N, NEW A, NEW d \in Int, Stable(N, A, d), NEW c \in Int, c <= d,
         NEW e \in Edge, Clean(e, c)'
  PROVE  Clean(e, c) /\ \A r \in 0 .. MaxLoops : r < c => SameAt(e, r)
<1>1. \A r \in 0 .. MaxLoops : r < c => r < d
  OBVIOUS
<1>2. \A r \in 0 .. MaxLoops : r < c => ~Marked(e, r)'
  BY DEF Clean
<1>3. \A r \in 0 .. MaxLoops : r < c => ~Marked(e, r) /\ SameAt(e, r)
  BY <1>1, <1>2 DEF Stable
<1> QED
  BY <1>3 DEF Clean

\* A graph stays pending when what the step orders is open in it, or apart from it.
LEMMA PendingKept ==
  ASSUME block \in Blocks, NEW N, NEW A, NEW d \in Int, Stable(N, A, d), NEW c \in Int, c <= d,
         NEW g, Pending(g, c),
         \A e \in Edge : Live(e, N, A, d) /\ Touches(e, g.own) => e \in Open(g)
  PROVE  Pending(g, c)'
<1>0. block' = block
  BY DEF Stable
<1> SUFFICES ASSUME NEW e \in Edge, Touches(e, g.own), Clean(e, c)'
             PROVE  /\ e \in Open(g) => Sound(e, c)'
                    /\ e \notin Open(g) => e \in dropped' \/ Settled(e, c)'
  BY <1>0, SameEnds DEF Pending
<1>1. Clean(e, c) /\ \A r \in 0 .. MaxLoops : r < c => SameAt(e, r)
  BY AboveKept
<1>2. block.edgeLoops[e] \in Nat
  BY EdgeNumbers
<1>3. CASE e \in Open(g)
  <2>1. Sound(e, c)
    BY <1>1, <1>3 DEF Pending
  <2>2. Good(e, c)'
    BY <1>0, <1>1, <2>1, EdgeKept DEF Sound
  <2>3. ASSUME block.edgeLoops[e] <= c PROVE Truthful(e, c)'
    <3>1. ~Live(e, N, A, d)
      BY <1>2, <2>3 DEF Live
    <3>2. SameLevel(e)
      BY <3>1 DEF Stable
    <3> QED
      BY <1>0, <1>1, <2>1, <2>3, <3>2, EdgeKept DEF Sound
  <2> QED
    BY <1>0, <1>3, <2>2, <2>3 DEF Sound
<1>4. CASE e \notin Open(g)
  <2>1. ~Live(e, N, A, d)
    BY <1>4
  <2>2. e \in dropped \/ Settled(e, c)
    BY <1>1, <1>4 DEF Pending
  <2>3. (e \in dropped => e \in dropped') /\ SameLevel(e)
    BY <2>1 DEF Stable
  <2>4. Settled(e, c) => Settled(e, c)'
    BY <1>0, <1>1, <2>3, EdgeKept
  <2> QED
    BY <1>4, <2>2, <2>3, <2>4
<1> QED
  BY <1>3, <1>4

LEMMA TruthfulKept ==
  ASSUME block \in Blocks, NEW N, NEW A, NEW d \in Int, Stable(N, A, d), NEW c \in Int, c <= d,
         NEW e \in Edge, ~Live(e, N, A, d), Clean(e, c) => Truthful(e, c)
  PROVE  Clean(e, c)' => Truthful(e, c)'
<1> SUFFICES ASSUME Clean(e, c)' PROVE Truthful(e, c)'
  OBVIOUS
<1>1. Clean(e, c) /\ \A r \in 0 .. MaxLoops : r < c => SameAt(e, r)
  BY AboveKept
<1>2. block' = block /\ SameLevel(e)
  BY DEF Stable
<1> QED
  BY <1>1, <1>2, EdgeKept

LEMMA FreshKept ==
  ASSUME block \in Blocks, NEW N, NEW A, NEW d \in Int, Stable(N, A, d), NEW c \in Int, c <= d,
         NEW g, Fresh(g, c), \A e \in Open(g) : ~Live(e, N, A, d)
  PROVE  Fresh(g, c)'
<1>1. Open(g)' = Open(g)
  BY SameEnds DEF Stable
<1> SUFFICES ASSUME NEW e \in Open(g) PROVE Clean(e, c)' => Truthful(e, c)'
  BY <1>1 DEF Fresh
<1>2. e \in Edge
  BY DEF Open, Owned
<1>3. Clean(e, c) => Truthful(e, c)
  BY DEF Fresh
<1> QED
  BY <1>2, <1>3, TruthfulKept

LEMMA AgreeKept ==
  ASSUME block \in Blocks, NEW N, NEW A, NEW d \in Int, Stable(N, A, d),
         NEW g, NEW S \in SUBSET (0 .. MaxLoops), Agree(g, S),
         \A e \in Open(g), r \in S : r < d \/ ~Touches(e, N)
  PROVE  Agree(g, S)'
<1>1. Open(g)' = Open(g) /\ block' = block
  BY SameEnds DEF Stable
<1> SUFFICES ASSUME NEW e \in Open(g), NEW r \in S, r <= block.edgeLoops[e]
             PROVE  AgreeAt(e, r)'
  BY <1>1 DEF Agree
<1>2. e \in Edge /\ r \in 0 .. MaxLoops
  BY DEF Open, Owned
<1>3. AgreeAt(e, r)
  BY DEF Agree
<1> QED
  BY <1>2, <1>3 DEF Stable

\* A graph that shares no node with the step's stays ready.
LEMMA ReadyKept ==
  ASSUME block \in Blocks, NEW N, NEW A, NEW d \in Int, Stable(N, A, d), NEW c \in Nat, c <= d,
         NEW g, Ready(g, c), g.own \intersect N = {}
  PROVE  Ready(g, c)'
<1>1. \A e \in Edge : Touches(e, g.own) => ~Live(e, N, A, d)
  BY DEF Live, Within, Touches
<1>2. \A e \in Open(g) : e \in Edge /\ Within(e, g.own) /\ ~Touches(e, N) /\ ~Live(e, N, A, d)
  BY DEF Open, Owned, Live, Within, Touches
<1>3. Pending(g, c) /\ Fresh(g, c) /\ Agree(g, c .. MaxLoops)
  BY DEF Ready
<1>4. Pending(g, c)' /\ Fresh(g, c)'
  BY <1>1, <1>2, <1>3, PendingKept, FreshKept
<1>5. Agree(g, c .. MaxLoops)'
  <2> DEFINE S == c .. MaxLoops
  <2>1. S \in SUBSET (0 .. MaxLoops)
    OBVIOUS
  <2>2. \A e \in Open(g), r \in S : r < d \/ ~Touches(e, N)
    BY <1>2
  <2>3. Agree(g, S)
    BY <1>3
  <2> HIDE DEF S
  <2>4. Agree(g, S)'
    BY <2>1, <2>2, <2>3, AgreeKept
  <2> QED
    BY <2>4 DEF S
<1> QED
  BY <1>4, <1>5 DEF Ready

\* The frames of the calls that wait keep what they rely on.
LEMMA WaitingKept ==
  ASSUME block \in Blocks, NEW N, NEW A, NEW d \in Int, Stable(N, A, d),
         NEW c \in FrameType, c.at = "nested", FrameInv(c),
         c.fn = "optimize" => N \subseteq c.g.own /\ A \subseteq c.backup /\ c.d < d,
         c.fn = "breakGraph" => c.d <= d /\ \A g \in GraphsOf(c) : N \intersect g.own = {}
  PROVE  FrameInv(c)'
<1>1. block' = block
  BY DEF Stable
<1>2. CASE c.fn = "optimize"
  <2> DEFINE b == Backup(c)
             k == c.d
             S == {k}
  <2>1. c \in OptNested
    BY <1>2, FrameKinds
  <2>2. c.g \in GraphType /\ k \in 0 .. MaxLoops /\ k < d /\ MaxLoops \in Int
    BY <1>2, <2>1, LoopAssumption DEF OptNested, Row
  <2>3. b.own = c.g.own /\ b.activeEdges = c.backup
    BY <2>2 DEF Backup, GraphType
  <2>4. Pending(b, k) /\ Agree(b, S)
    BY <1>2 DEF FrameInv
  <2>5. \A e \in Edge : Live(e, N, A, d) => e \in Open(b)
    BY <1>2, <2>3 DEF Live, Within, Open, Owned
  <2> HIDE DEF b, k, S
  <2>6. Pending(b, k)'
    BY <2>2, <2>4, <2>5, PendingKept
  <2>7. Agree(b, S)'
    <3>1. S \in SUBSET (0 .. MaxLoops) /\ \A r \in S : r < d
      BY <2>2 DEF S
    <3> QED
      BY <2>4, <3>1, AgreeKept
  <2>8. Covers(c.maxDepth, c.g)'
    <3>1. Covers(c.maxDepth, c.g)
      BY <1>2 DEF FrameInv
    <3> QED
      BY <1>1, <3>1 DEF Covers
  <2>9. c.g.activeEdges \subseteq c.backup
    BY <1>2 DEF FrameInv
  <2> QED
    BY <1>2, <2>6, <2>7, <2>8, <2>9 DEF FrameInv, b, k, S
<1>3. CASE c.fn = "breakGraph"
  <2>1. c \in BreakNesting
    BY <1>3, FrameKinds
  <2>2. c.graphs \in Seq(GraphType) /\ c.d \in Nat /\ c.d <= d
    BY <1>3, <2>1, LoopAssumption DEF BreakNesting
  <2>3. GraphsOf(c) = {c.graphs[k] : k \in 1 .. Len(c.graphs)}
    BY <1>3 DEF GraphsOf
  <2>4. ASSUME NEW k \in 1 .. Len(c.graphs) PROVE Ready(c.graphs[k], c.d)'
    <3> DEFINE g == c.graphs[k]
               m == c.d
    <3>1. Ready(g, m) /\ N \intersect g.own = {}
      BY <1>3, <2>3 DEF FrameInv
    <3> HIDE DEF g, m
    <3>2. Ready(g, m)'
      BY <2>2, <3>1, ReadyKept DEF m
    <3> QED
      BY <3>2 DEF g, m
  <2> QED
    BY <1>3, <2>4 DEF FrameInv
<1>4. CASE c.fn = "optimizeSatDep"
  BY <1>4 DEF FrameInv
<1>5. c.fn \in {"optimize", "optimizeSatDep", "breakGraph"}
  BY DEF FrameType, OptStart, OptNested, SatStart, SatNested, BreakStart, BreakSolve, BreakFusing, BreakNesting
<1> QED
  BY <1>2, <1>3, <1>4, <1>5

\* A step in which the schedule stays as it is: edges may only be given up, by
\* breakGraph or because their level is stale.
Still ==
  /\ UNCHANGED <<block, sign, omega, lost, moved, stray>>
  /\ dropped \subseteq dropped' /\ stale \subseteq stale'
  /\ \A e \in Edge : satLvl'[e][1] = satLvl[e][1]

LEMMA StillSame ==
  ASSUME Still
  PROVE  /\ \A e \in Edge : \A r : SameAt(e, r) /\ (Marked(e, r)' <=> Marked(e, r)) /\ (AgreeAt(e, r)' <=> AgreeAt(e, r))
         /\ \A e \in Edge : \A r : (Clean(e, r)' <=> Clean(e, r))
         /\ \A e \in Edge : SameLevel(e)
<1>1. \A e : In(e)' = In(e) /\ Out(e)' = Out(e)
  BY DEF In, Out, Still
<1>2. \A e, r : DifferAt(e, r)' <=> DifferAt(e, r)
  BY <1>1 DEF DifferAt, Still
<1>3. \A e \in Edge : \A r : SameAt(e, r)
  BY <1>1, <1>2 DEF SameAt, Decides, Right, Still
<1>4. \A e, r : (Marked(e, r)' <=> Marked(e, r)) /\ (AgreeAt(e, r)' <=> AgreeAt(e, r))
  BY <1>1, <1>2 DEF Marked, AgreeAt, Still
<1>5. \A e, r : (Clean(e, r)' <=> Clean(e, r))
  BY <1>4 DEF Clean
<1>6. \A e \in Edge : SameLevel(e)
  BY DEF SameLevel, Still
<1> QED
  BY <1>3, <1>4, <1>5, <1>6

LEMMA StillStable ==
  ASSUME Still, NEW N, NEW A, NEW d
  PROVE  Stable(N, A, d)
<1>1. block' = block /\ \A e \in Edge : e \in dropped => e \in dropped'
  BY DEF Still
<1> QED
  BY <1>1, StillSame DEF Stable

LEMMA UnsolvedStill ==
  ASSUME Unsolved
  PROVE  Still
  BY DEF Unsolved, Still, history

LEMMA AbandonsStill ==
  ASSUME NEW g, Abandons(g), dropped \subseteq dropped'
  PROVE  Still
  BY DEF Abandons, Still

----------------------------------------------------------------------------
(* What solveGraph does.                                                   *)

\* The rows that it writes, and the nodes that it writes them for.
LEMMA SolvedRows ==
  ASSUME TypeOK, NEW g \in GraphType, NEW d \in Row, NEW o \in OutcomeType,
         NEW levels, NEW flags, Solved(g, d, o, levels, flags)
  PROVE  \E new \in SUBSET Node :
           /\ lost' = (lost \ (g.own \X {d})) \union ((new \ g.own) \X {d})
           /\ \A e \in Edge, r \in Row : sign'[e][r] # sign[e][r] => r >= d /\ (In(e) \in new \/ Out(e) \in new)
           /\ \A e \in getEdges(g, d) :
                /\ In(e) \in new /\ Out(e) \in new
                /\ sign'[e][d] = IF e \in o.deactivated THEN "pos" ELSE IF e \in o.empty THEN "indep" ELSE "zero"
<1> DEFINE act     == getEdges(g, d)
           program == ByProgram(g, d)
           free    == DepFree(g, d)
           new     == program \union {n \in free : phi[n][d] # "free"}
           touched == {e \in Edge : d < block.edgeLoops[e] /\ {In(e), Out(e)} \intersect new # {}}
           row(e)  == IF e \in o.deactivated THEN "pos" ELSE IF e \in o.empty THEN "indep" ELSE "zero"
<1>1. new \in SUBSET Node /\ act \subseteq Edge /\ d \in Int /\ \A r \in Row : r \in Int
  BY NodesOfSolve, EdgesOfGraph, LoopAssumption DEF Row
<1>2. lost' = (lost \ (g.own \X {d})) \union ((new \ g.own) \X {d})
  BY DEF Solved
<1>3. PICK any \in [touched \ act -> {"zero", "bad"}] :
        sign' = [e \in Edge |-> [r \in Row |->
                   IF r = d /\ e \in act THEN row(e)
                   ELSE IF r = d /\ e \in touched THEN any[e]
                   ELSE IF r > d /\ e \in touched /\ sign[e][r] = "indep" THEN "zero"
                   ELSE sign[e][r]]]
  BY DEF Solved
<1>4. ASSUME NEW e \in act
      PROVE  In(e) \in new /\ Out(e) \in new
  <2>1. e \in g.activeEdges /\ d < block.edgeLoops[e] /\ ~missingNode(g, e) /\ e \in Edge
    BY DEF getEdges, isActive
  <2>2. /\ In(e) \in Node /\ Out(e) \in Node
        /\ d < block.nodeLoops[In(e)] /\ d < block.nodeLoops[Out(e)]
    <3>1. block \in Blocks
      BY DEF TypeOK
    <3>2. \A n \in Node : block.nodeLoops[n] \in Int
      BY <3>1, BlockFacts
    <3> QED
      BY <1>1, <2>1, <3>1, <3>2, EdgeNumbers
  <2>3. hasActiveEdges(g, In(e)) /\ hasActiveEdges(g, Out(e))
    BY <2>1 DEF hasActiveEdges
  <2> QED
    BY <2>2, <2>3 DEF ByProgram
<1>5. act \subseteq touched
  BY <1>1, <1>4 DEF getEdges, isActive
<1>6. \A e \in touched : In(e) \in new \/ Out(e) \in new
  BY DEF touched
<1> HIDE DEF new, act, touched, row
<1>7. \A e \in act : sign'[e][d] = row(e)
  BY <1>1, <1>3
<1>8. \A e \in Edge, r \in Row : sign'[e][r] # sign[e][r] => r >= d /\ e \in touched
  BY <1>1, <1>3, <1>5
<1> QED
  BY <1>1, <1>2, <1>4, <1>6, <1>7, <1>8 DEF row, act

\* The outcome of a solve and the levels it starts from.
Solves(g, d, o, levels, flags) ==
  /\ Solved(g, d, o, levels, flags)
  /\ o.deactivated \subseteq getEdges(g, d) /\ o.empty \subseteq getEdges(g, d)
  /\ o.deactivated \intersect o.empty = {}
  /\ levels \in LevelsType
  /\ \A e \in Edge \ (o.deactivated \union o.empty) : levels[e][1] = satLvl[e][1]

\* The levels that it sets.
LEMMA SolvedSat ==
  ASSUME TypeOK, NEW g \in GraphType, NEW d \in Row, NEW o \in OutcomeType,
         NEW levels, NEW flags, Solves(g, d, o, levels, flags)
  PROVE  /\ block' = block /\ omega' = omega /\ moved' = moved /\ stray' = stray
         /\ dropped' = dropped \ (getEdges(g, d) \intersect Owned(g))
         /\ \A e \in o.deactivated \union o.empty : satLevel(e)' = d /\ (e \in stale' <=> e \notin Owned(g))
         /\ \A e \in Edge \ (o.deactivated \union o.empty) :
              satLvl'[e][1] = satLvl[e][1] /\ (e \in stale' <=> e \in stale)
<1>1. Solved(g, d, o, levels, flags) /\ o.deactivated \intersect o.empty = {}
  BY DEF Solves
<1>2. o.deactivated \subseteq Edge /\ o.empty \subseteq Edge
  BY DEF OutcomeType
<1>3. \A e \in Edge : levels[e] \in [1 .. SatSlots -> 0 .. 255]
  BY DEF Solves, LevelsType
<1>4. /\ satLvl' = [e \in Edge |->
                      IF e \in o.deactivated THEN setSatLevelLP(levels[e], d)
                      ELSE IF e \in o.empty THEN setSatLevelIndep(levels[e], d)
                      ELSE levels[e]]
      /\ stale' = (stale \ (o.deactivated \union o.empty)) \union ((o.deactivated \union o.empty) \ Owned(g))
  BY <1>1 DEF Solved
<1>5. ASSUME NEW e \in o.deactivated \union o.empty
      PROVE  satLevel(e)' = d
  <2>1. e \in Edge
    BY <1>2
  <2>2. setSatLevelLP(levels[e], d)[1] = 128 + d /\ setSatLevelIndep(levels[e], d)[1] = d
    <3> DEFINE s == levels[e]
    <3>1. s \in [1 .. SatSlots -> 0 .. 255]
      BY <1>3, <2>1
    <3> HIDE DEF s
    <3>2. setSatLevelLP(s, d)[1] = 128 + d /\ setSatLevelIndep(s, d)[1] = d
      BY <3>1, SetLevelFacts
    <3> QED
      BY <3>2 DEF s
  <2>3. satLvl'[e][1] = 128 + d \/ satLvl'[e][1] = d
    BY <1>2, <1>4, <2>1, <2>2
  <2>4. d \in 0 .. 126
    BY LoopAssumption DEF Row
  <2> QED
    BY <2>3, <2>4 DEF satLevel
<1>6. \A e \in Edge \ (o.deactivated \union o.empty) : satLvl'[e][1] = satLvl[e][1]
  BY <1>4 DEF Solves
<1> QED
  BY <1>1, <1>4, <1>5, <1>6 DEF Solved

LEMMA SolvedStable ==
  ASSUME TypeOK, NEW g \in GraphType, NEW d \in Row, NEW o \in OutcomeType,
         NEW levels, NEW flags, Solves(g, d, o, levels, flags)
  PROVE  Stable(g.own, g.activeEdges, d)
<1>1. Solved(g, d, o, levels, flags) /\ block \in Blocks
  BY DEF Solves, TypeOK
<1>2. PICK new \in SUBSET Node :
        /\ lost' = (lost \ (g.own \X {d})) \union ((new \ g.own) \X {d})
        /\ \A e \in Edge, r \in Row : sign'[e][r] # sign[e][r] => r >= d /\ (In(e) \in new \/ Out(e) \in new)
        /\ \A e \in getEdges(g, d) : In(e) \in new /\ Out(e) \in new
  <2> HIDE DEF Row
  <2> QED
    BY <1>1, SolvedRows
<1>3. /\ block' = block /\ omega' = omega /\ moved' = moved /\ stray' = stray
      /\ dropped' = dropped \ (getEdges(g, d) \intersect Owned(g))
  BY SolvedSat
<1>4. d \in Int /\ MaxLoops \in Int /\ d <= MaxLoops /\ 0 <= d
  BY LoopAssumption DEF Row
<1>5. \A e : In(e)' = In(e) /\ Out(e)' = Out(e)
  BY <1>3, SameEnds
<1>6. \A e, r : (DifferAt(e, r)' <=> DifferAt(e, r)) /\ (AgreeAt(e, r)' <=> AgreeAt(e, r))
  BY <1>3, <1>5 DEF DifferAt, AgreeAt
<1>7. ASSUME NEW e \in Edge, NEW r \in 0 .. MaxLoops, r \in Row => sign'[e][r] = sign[e][r]
      PROVE  SameAt(e, r)
  <2>1. r < block.edgeLoops[e] => r \in Row
    BY <1>1, <1>4, EdgeNumbers DEF Row
  <2>2. Decides(e, r)' <=> Decides(e, r)
    BY <1>3, <1>6, <1>7, <2>1 DEF Decides
  <2>3. Decides(e, r) => (Right(e, r)' <=> Right(e, r))
    BY <1>3, <1>5, <1>6, <1>7, <2>1 DEF Right, Decides
  <2> QED
    BY <2>2, <2>3 DEF SameAt
<1>8. ASSUME NEW e \in Edge, NEW r \in 0 .. MaxLoops, r < d, ~Marked(e, r)'
      PROVE  ~Marked(e, r) /\ SameAt(e, r)
  <2>1. r \in Row => sign'[e][r] = sign[e][r]
    BY <1>2, <1>4, <1>8
  <2>2. ~Marked(e, r)
    BY <1>2, <1>3, <1>4, <1>5, <1>8 DEF Marked
  <2> QED
    BY <1>7, <2>1, <2>2
<1>9. ASSUME NEW e \in Edge, ~Touches(e, g.own), Clean(e, MaxLoops + 1)'
      PROVE  Clean(e, MaxLoops + 1) /\ \A r \in 0 .. MaxLoops : SameAt(e, r)
  <2>1. \A r \in 0 .. MaxLoops : ~Marked(e, r)'
    BY <1>4, <1>9 DEF Clean
  <2>2. In(e) \notin new /\ Out(e) \notin new
    <3>1. ~Marked(e, d)'
      BY <1>4, <2>1
    <3>2. <<In(e), d>> \notin lost' /\ <<Out(e), d>> \notin lost'
      BY <1>5, <3>1 DEF Marked
    <3> QED
      BY <1>2, <1>9, <3>2 DEF Touches
  <2>3. \A r \in Row : sign'[e][r] = sign[e][r]
    BY <1>2, <2>2
  <2>4. \A r \in 0 .. MaxLoops : SameAt(e, r)
    BY <1>7, <2>3
  <2>5. \A r \in 0 .. MaxLoops : ~Marked(e, r)
    BY <1>2, <1>3, <1>5, <1>9, <2>1 DEF Marked, Touches
  <2> QED
    BY <2>4, <2>5 DEF Clean
<1>10. ASSUME NEW e \in Edge, e \in getEdges(g, d), e \in Owned(g)
       PROVE  Live(e, g.own, g.activeEdges, d)
  BY <1>10, OwnedWithin DEF Live, getEdges, isActive
<1>11. \A e \in Edge : e \in dropped => e \in dropped' \/ Live(e, g.own, g.activeEdges, d)
  BY <1>3, <1>10
<1>12. ASSUME NEW e \in Edge, ~Live(e, g.own, g.activeEdges, d) PROVE SameLevel(e)
  <2>1. CASE e \in o.deactivated \union o.empty
    <3>1. e \in getEdges(g, d)
      BY <2>1 DEF Solves
    <3>2. e \notin Owned(g)
      BY <1>10, <1>12, <3>1
    <3> QED
      BY <2>1, <3>2, SolvedSat DEF SameLevel
  <2>2. CASE e \notin o.deactivated \union o.empty
    <3>1. satLvl'[e][1] = satLvl[e][1] /\ (e \in stale' <=> e \in stale)
      BY <2>2, SolvedSat
    <3> QED
      BY <3>1 DEF SameLevel
  <2> QED
    BY <2>1, <2>2
<1> QED
  BY <1>3, <1>6, <1>8, <1>9, <1>11, <1>12 DEF Stable

----------------------------------------------------------------------------
(* What setFusionOmega does.                                               *)

LEMMA FusionFacts ==
  ASSUME TypeOK, NEW g \in GraphType, NEW d \in Row, NEW o \in Nat, SetFusionOmega(g, d, o)
  PROVE  /\ \A n \in Node, r \in 0 .. MaxLoops :
              omega'[n][r] = IF n \in g.nodeIds /\ d <= block.nodeLoops[n] /\ r = d THEN o ELSE omega[n][r]
         /\ \A e \in Edge, r \in Row :
              sign'[e][r] # sign[e][r] => r < d /\ \E n \in {In(e), Out(e)} : <<n, r>> \in lost'
         /\ lost \subseteq lost' /\ \A n : <<n, d>> \in lost' => <<n, d>> \in lost
         /\ moved' = (moved \ (g.own \X {d})) \union ((g.nodeIds \ g.own) \X {d})
         /\ stray' = (stray \ {<<e, d>> : e \in {f \in Edge : Touches(f, g.own)}}) \union Leftovers(g, d)
         /\ block' = block /\ satLvl' = satLvl /\ dropped' = dropped /\ stale' = stale
<1> DEFINE beyond == {n \in g.nodeIds : d > block.nodeLoops[n]}
           offset(n) == d - block.nodeLoops[n] - 1
<1>1. /\ block' = block /\ satLvl' = satLvl /\ dropped' = dropped /\ stale' = stale
      /\ omega' = [n \in Node |-> IF n \in g.nodeIds \ beyond THEN [omega[n] EXCEPT ![d] = o] ELSE omega[n]]
      /\ sign' = [e \in Edge |-> [r \in Row |->
                    IF \E n \in beyond \intersect {In(e), Out(e)} : offset(n) = r
                    THEN "bad" ELSE sign[e][r]]]
      /\ lost' = lost \union {<<n, offset(n)>> : n \in beyond}
      /\ moved' = (moved \ (g.own \X {d})) \union ((g.nodeIds \ g.own) \X {d})
      /\ stray' = (stray \ {<<e, d>> : e \in {f \in Edge : {In(f), Out(f)} \intersect g.own # {}}})
                    \union Leftovers(g, d)
  BY DEF SetFusionOmega
<1>2. {f \in Edge : {In(f), Out(f)} \intersect g.own # {}} = {f \in Edge : Touches(f, g.own)}
  BY DEF Touches
<1>3. /\ g.nodeIds \subseteq Node /\ d \in Int
      /\ \A n \in Node : block.nodeLoops[n] \in 1 .. MaxLoops /\ omega[n] \in [0 .. MaxLoops -> Nat]
      /\ MaxLoops \in Int
  <2>1. block \in Blocks /\ omega \in [Node -> [0 .. MaxLoops -> Nat]] /\ g.nodeIds \subseteq Node
    BY DEF TypeOK, GraphType
  <2>2. d \in Int /\ MaxLoops \in Int
    BY LoopAssumption DEF Row
  <2> QED
    BY <2>1, <2>2, BlockFacts
<1>4. \A n \in beyond : offset(n) < d
  BY <1>3
<1>5. ASSUME NEW n \in Node, NEW r \in 0 .. MaxLoops
      PROVE  omega'[n][r] = IF n \in g.nodeIds /\ d <= block.nodeLoops[n] /\ r = d THEN o ELSE omega[n][r]
  <2>1. n \in g.nodeIds \ beyond <=> n \in g.nodeIds /\ d <= block.nodeLoops[n]
    BY <1>3
  <2> HIDE DEF beyond
  <2> QED
    BY <1>1, <1>3, <2>1
<1>6. ASSUME NEW e \in Edge, NEW r \in Row, sign'[e][r] # sign[e][r]
      PROVE  r < d /\ \E n \in {In(e), Out(e)} : <<n, r>> \in lost'
  <2>1. PICK n \in beyond \intersect {In(e), Out(e)} : offset(n) = r
    BY <1>1, <1>6
  <2> HIDE DEF beyond, offset
  <2> QED
    BY <1>1, <1>4, <2>1
<1>7. \A n : <<n, d>> \in lost' => <<n, d>> \in lost
  <2> HIDE DEF offset, beyond
  <2>1. \A n \in beyond : offset(n) # d
    BY <1>3, <1>4
  <2> QED
    BY <1>1, <2>1
<1> HIDE DEF beyond, offset
<1> QED
  BY <1>1, <1>2, <1>5, <1>6, <1>7

LEMMA LeftoverLevels ==
  ASSUME NEW g, NEW d \in Int, NEW e, NEW r, <<e, r>> \in Leftovers(g, d)
  PROVE  e \in Owned(g) /\ r \in d + 1 .. MaxLoops
  BY DEF Leftovers

LEMMA FusionStable ==
  ASSUME TypeOK, NEW g \in GraphType, NEW d \in Row, NEW o \in Nat, SetFusionOmega(g, d, o), NEW A
  PROVE  Stable(g.own, A, d)
<1>1. /\ \A n \in Node, r \in 0 .. MaxLoops :
              omega'[n][r] = IF n \in g.nodeIds /\ d <= block.nodeLoops[n] /\ r = d THEN o ELSE omega[n][r]
      /\ \A e \in Edge, r \in Row :
              sign'[e][r] # sign[e][r] => r < d /\ \E n \in {In(e), Out(e)} : <<n, r>> \in lost'
      /\ lost \subseteq lost'
      /\ moved' = (moved \ (g.own \X {d})) \union ((g.nodeIds \ g.own) \X {d})
      /\ stray' = (stray \ {<<e, d>> : e \in {f \in Edge : Touches(f, g.own)}}) \union Leftovers(g, d)
      /\ block' = block /\ satLvl' = satLvl /\ dropped' = dropped /\ stale' = stale
  BY FusionFacts
<1>2. d \in Int /\ MaxLoops \in Int /\ d <= MaxLoops /\ 0 <= d /\ block \in Blocks
  BY LoopAssumption DEF Row, TypeOK
<1>3. \A e : In(e)' = In(e) /\ Out(e)' = Out(e)
  BY <1>1, SameEnds
<1>4. \A e \in Edge : In(e) \in Node /\ Out(e) \in Node /\ block.edgeLoops[e] \in 1 .. MaxLoops
  BY <1>2, EdgeNumbers
<1>5. ASSUME NEW e \in Edge, NEW r \in 0 .. MaxLoops, r # d
      PROVE  /\ omega'[In(e)][r] = omega[In(e)][r] /\ omega'[Out(e)][r] = omega[Out(e)][r]
             /\ <<e, r>> \in stray => <<e, r>> \in stray'
             /\ \A n : <<n, r>> \in moved' <=> <<n, r>> \in moved
  BY <1>1, <1>4, <1>5
<1>6. ASSUME NEW e \in Edge, ~Touches(e, g.own)
      PROVE  /\ <<e, d>> \in stray => <<e, d>> \in stray'
             /\ \A n \in {In(e), Out(e)} : <<n, d>> \in moved => <<n, d>> \in moved'
             /\ \A n \in {In(e), Out(e)} : <<n, d>> \notin moved' => omega'[n][d] = omega[n][d]
  <2>1. <<e, d>> \in stray => <<e, d>> \in stray'
    BY <1>1, <1>6
  <2>2. \A n \in {In(e), Out(e)} : n \in Node /\ n \notin g.own
    BY <1>4, <1>6 DEF Touches
  <2>3. \A n \in {In(e), Out(e)} : <<n, d>> \in moved => <<n, d>> \in moved'
    BY <1>1, <2>2
  <2>4. ASSUME NEW n \in {In(e), Out(e)}, <<n, d>> \notin moved' PROVE omega'[n][d] = omega[n][d]
    <3>1. n \notin g.nodeIds
      BY <1>1, <2>2, <2>4
    <3>2. d \in 0 .. MaxLoops /\ n \in Node
      BY <1>2, <2>2
    <3> QED
      BY <1>1, <3>1, <3>2
  <2> QED
    BY <2>1, <2>3, <2>4
\* A level where no row was lost and no omega changed is what it was.
<1>7. ASSUME NEW e \in Edge, NEW r \in 0 .. MaxLoops, \A n \in {In(e), Out(e)} : <<n, r>> \notin lost',
             omega'[In(e)][r] = omega[In(e)][r], omega'[Out(e)][r] = omega[Out(e)][r]
      PROVE  SameAt(e, r)
  <2>1. r < block.edgeLoops[e] => r \in Row
    BY <1>2, <1>4 DEF Row
  <2>2. r < block.edgeLoops[e] => sign'[e][r] = sign[e][r]
    BY <1>1, <1>7, <2>1
  <2>3. DifferAt(e, r)' <=> DifferAt(e, r)
    BY <1>3, <1>7 DEF DifferAt
  <2>4. Decides(e, r)' <=> Decides(e, r)
    BY <1>1, <2>2, <2>3 DEF Decides
  <2> QED
    BY <1>3, <1>7, <2>2, <2>3, <2>4 DEF SameAt, Decides, Right
<1>8. ASSUME NEW e \in Edge, NEW r \in 0 .. MaxLoops, r < d, ~Marked(e, r)'
      PROVE  ~Marked(e, r) /\ SameAt(e, r)
  <2>1. r # d
    BY <1>8
  <2>2. \A n \in {In(e), Out(e)} : <<n, r>> \notin lost' /\ <<n, r>> \notin moved'
    BY <1>3, <1>8 DEF Marked
  <2>3. ~Marked(e, r)
    BY <1>1, <1>3, <1>5, <1>8, <2>1 DEF Marked
  <2> QED
    BY <1>5, <1>7, <2>1, <2>2, <2>3
<1>9. ASSUME NEW e \in Edge, ~Touches(e, g.own), Clean(e, MaxLoops + 1)'
      PROVE  Clean(e, MaxLoops + 1) /\ \A r \in 0 .. MaxLoops : SameAt(e, r)
  <2>1. \A r \in 0 .. MaxLoops : ~Marked(e, r)'
    BY <1>2, <1>9 DEF Clean
  <2>2. ASSUME NEW r \in 0 .. MaxLoops PROVE ~Marked(e, r) /\ SameAt(e, r)
    <3>1. <<e, r>> \notin stray' /\ \A n \in {In(e), Out(e)} : <<n, r>> \notin lost' /\ <<n, r>> \notin moved'
      BY <1>3, <2>1 DEF Marked
    <3>2. omega'[In(e)][r] = omega[In(e)][r] /\ omega'[Out(e)][r] = omega[Out(e)][r]
      BY <1>5, <1>6, <1>9, <3>1
    <3>3. ~Marked(e, r)
      BY <1>1, <1>5, <1>6, <1>9, <3>1 DEF Marked
    <3> QED
      BY <1>7, <3>1, <3>2, <3>3
  <2> QED
    BY <2>2 DEF Clean
<1>10. ASSUME NEW e \in Edge, NEW r \in 0 .. MaxLoops, r < d \/ ~Touches(e, g.own), AgreeAt(e, r)
       PROVE  AgreeAt(e, r)'
  <2>1. CASE r # d
    BY <1>3, <1>5, <1>10, <2>1 DEF AgreeAt, DifferAt
  <2>2. CASE r = d
    <3>1. ~Touches(e, g.own)
      BY <1>10, <2>2
    <3> QED
      BY <1>3, <1>6, <1>10, <2>2, <3>1 DEF AgreeAt, DifferAt
  <2> QED
    BY <2>1, <2>2
<1>11. \A e \in Edge : SameLevel(e)
  BY <1>1 DEF SameLevel
<1> QED
  BY <1>1, <1>8, <1>9, <1>10, <1>11 DEF Stable

----------------------------------------------------------------------------
(* A graph whose next row is solved is ready one level deeper.             *)

\* More levels take nothing away, now and after a step.
LevelsAdd ==
  block \in Blocks =>
    \A e \in Edge : \A c, d \in Int : c <= d =>
      /\ Truthful(e, c) => Truthful(e, d)
      /\ Settled(e, c) => Settled(e, d)
      /\ d <= MaxLoops + 1 /\ Settled(e, d) => Good(e, MaxLoops + 1) /\ Truthful(e, MaxLoops + 1)

LEMMA LevelsAddNow == LevelsAdd
  BY MoreLevels, SettledIsDone DEF LevelsAdd

LEMMA LevelsAddNext == LevelsAdd'
  BY LevelsAddNow, PTL

\* One level more: the level d decides the edge rightly or not at all.
LEMMA GoodDeeper ==
  ASSUME block \in Blocks, block' = block, NEW e \in Edge, NEW d \in Nat, Good(e, d)',
         d <= block.edgeLoops[e] /\ Decides(e, d)' => Right(e, d)'
  PROVE  Good(e, d + 1)'
<1>1. block.edgeLoops[e] \in Nat
  BY EdgeNumbers
<1> SUFFICES ASSUME NEW r \in 0 .. block.edgeLoops[e], r < d + 1, Decides(e, r)',
                    \A k \in 0 .. r - 1 : ~Decides(e, k)'
             PROVE  Right(e, r)'
  BY DEF Good
<1>2. r < d \/ r = d
  BY <1>1
<1>3. CASE r < d
  BY <1>3 DEF Good
<1>4. CASE r = d
  BY <1>1, <1>4
<1> QED
  BY <1>2, <1>3, <1>4

LEMMA SolvedReady ==
  ASSUME TypeOK, NEW g \in GraphType, NEW d \in Row, NEW o \in OutcomeType,
         NEW levels, NEW flags, Solves(g, d, o, levels, flags),
         Pending(g, d), Agree(g, {d}), Ready(g, d) \/ o.deactivated = getEdges(g, d)
  PROVE  Ready(After(g, o), d + 1)'
<1> DEFINE solved == o.deactivated \union o.empty
           h == After(g, o)
           act == getEdges(g, d)
<1>1. /\ block \in Blocks /\ block' = block /\ omega' = omega /\ moved' = moved /\ stray' = stray
      /\ \A e \in solved : satLevel(e)' = d /\ (e \in stale' <=> e \notin Owned(g))
      /\ \A e \in Edge \ solved : satLvl'[e][1] = satLvl[e][1] /\ (e \in stale' <=> e \in stale)
  BY SolvedSat DEF TypeOK
<1>2. Stable(g.own, g.activeEdges, d)
  BY SolvedStable
<1>3. d \in Nat /\ d \in Int /\ MaxLoops \in Int /\ d \in 0 .. MaxLoops /\ d + 1 \in Int
  BY LoopAssumption DEF Row
<1>4. \A e \in act :
        sign'[e][d] = IF e \in o.deactivated THEN "pos" ELSE IF e \in o.empty THEN "indep" ELSE "zero"
  <2>1. Solved(g, d, o, levels, flags)
    BY DEF Solves
  <2> HIDE DEF Row
  <2> QED
    BY <2>1, SolvedRows
<1>5. h.own = g.own /\ h.activeEdges = g.activeEdges \ solved
  BY AfterType
<1>6. Owned(h) = Owned(g) /\ Open(h) = Open(g) \ solved /\ solved \subseteq act
  BY <1>5 DEF Owned, Open, Solves
<1>7. \A x \in Edge : In(x)' = In(x) /\ Out(x)' = Out(x) /\ \A r : AgreeAt(x, r)' <=> AgreeAt(x, r)
  BY <1>1, SameEnds DEF AgreeAt, DifferAt
<1>8. \A x \in Open(g) : x \in Edge /\ (d < block.edgeLoops[x] <=> x \in act)
  BY DEF Open, Owned, getEdges, isActive, missingNode, GraphType
<1> HIDE DEF solved, h, act
<1>9. ASSUME NEW e \in Edge, Clean(e, d + 1)'
      PROVE  /\ Clean(e, d) /\ \A r \in 0 .. MaxLoops : r < d => SameAt(e, r)
             /\ ~Marked(e, d)' /\ (Truthful(e, d)' => Truthful(e, d + 1)')
             /\ (Settled(e, d)' => Settled(e, d + 1)')
  <2>1. Clean(e, d)' /\ ~Marked(e, d)'
    BY <1>3, <1>9 DEF Clean
  <2>2. Clean(e, d) /\ \A r \in 0 .. MaxLoops : r < d => SameAt(e, r)
    BY <1>1, <1>2, <1>3, <2>1, AboveKept
  <2> QED
    BY <1>1, <1>3, <2>1, <2>2, LevelsAddNext DEF LevelsAdd
\* An edge that was open: in order one level deeper, and satisfied there or as it was.
<1>10. ASSUME NEW e \in Open(g), Clean(e, d + 1)'
       PROVE  /\ Good(e, d + 1)' /\ Truthful(e, d + 1)'
              /\ e \in solved => Decided(e, d + 1)'
  <2>1. e \in Edge /\ Touches(e, g.own) /\ e \in Owned(g)
    BY DEF Open, Owned, Touches
  <2>2. Clean(e, d) /\ ~Marked(e, d)' /\ (Truthful(e, d)' => Truthful(e, d + 1)')
    BY <1>9, <1>10, <2>1
  <2>3. Sound(e, d)
    BY <2>1, <2>2 DEF Pending
  <2>4. Good(e, d)'
    BY <1>1, <1>3, <1>9, <1>10, <2>1, <2>3, EdgeKept DEF Sound
  <2>5. d <= block.edgeLoops[e] => ~DifferAt(e, d)'
    <3>1. ASSUME d <= block.edgeLoops[e] PROVE AgreeAt(e, d)'
      BY <1>7, <2>1, <3>1 DEF Agree
    <3> QED
      BY <1>7, <2>2, <3>1 DEF AgreeAt, Marked
  <2>6. block.edgeLoops[e] \in Nat /\ block.edgeLoops[e] <= MaxLoops
    BY <1>1, <2>1, EdgeNumbers
  <2>7. CASE e \in act
    <3>1. d < block.edgeLoops[e] /\ d \in 0 .. block.edgeLoops[e]
      BY <1>3, <1>8, <2>6, <2>7
    <3>2. sign'[e][d] # "bad" /\ (e \in solved => sign'[e][d] # "zero")
      BY <1>4, <2>7 DEF solved
    <3>3. Right(e, d)' /\ (e \in solved => Decides(e, d)')
      BY <1>1, <2>5, <3>1, <3>2 DEF Right, Decides
    <3>4. Good(e, d + 1)'
      BY <1>1, <1>3, <2>1, <2>4, <3>3, GoodDeeper
    <3>5. CASE e \in solved
      <4>1. satLevel(e)' = d /\ Decides(e, d)'
        BY <1>1, <3>3, <3>5
      <4>2. Decided(e, d + 1)' /\ Truthful(e, d + 1)'
        BY <1>1, <1>3, <3>1, <4>1 DEF Decided, Truthful
      <4> QED
        BY <3>4, <4>2
    <3>6. CASE e \notin solved
      <4>1. Truthful(e, d)
        BY <2>2, <2>7, <3>6 DEF Ready, Fresh, solved, act
      <4>2. SameLevel(e)
        BY <1>1, <2>1, <3>6 DEF SameLevel
      <4>3. Truthful(e, d)'
        BY <1>1, <1>3, <1>9, <1>10, <2>1, <4>1, <4>2, EdgeKept
      <4> QED
        BY <2>2, <3>4, <3>6, <4>3
    <3> QED
      BY <3>5, <3>6
  <2>8. CASE e \notin act
    <3>1. block.edgeLoops[e] <= d /\ e \notin solved
      BY <1>3, <1>6, <1>8, <2>6, <2>8
    <3>2. ~(d <= block.edgeLoops[e] /\ Decides(e, d)')
      BY <1>1, <1>3, <2>5, <2>6, <3>1 DEF Decides
    <3>3. Good(e, d + 1)'
      BY <1>1, <1>3, <2>1, <2>4, <3>2, GoodDeeper
    <3>4. SameLevel(e)
      BY <1>1, <2>1, <3>1 DEF SameLevel
    <3>5. Truthful(e, d)'
      BY <1>1, <1>3, <1>9, <1>10, <2>1, <2>3, <3>1, <3>4, EdgeKept DEF Sound
    <3> QED
      BY <2>2, <3>1, <3>3, <3>5
  <2> QED
    BY <2>7, <2>8
<1>11. Open(h)' = Open(h)
  BY <1>1, SameEnds
<1>12. Fresh(h, d + 1)'
  BY <1>6, <1>10, <1>11 DEF Fresh
<1>13. Pending(h, d + 1)'
  <2> SUFFICES ASSUME NEW e \in Edge, Touches(e, h.own), Clean(e, d + 1)'
               PROVE  /\ e \in Open(h) => Sound(e, d + 1)'
                      /\ e \notin Open(h) => e \in dropped' \/ Settled(e, d + 1)'
    BY <1>1, <1>11, SameEnds DEF Pending
  <2>1. CASE e \in Open(g)
    <3>1. e \in Open(h) => Sound(e, d + 1)'
      BY <1>10, <2>1 DEF Sound
    <3>2. e \notin Open(h) => Settled(e, d + 1)'
      BY <1>6, <1>10, <2>1 DEF Settled
    <3> QED
      BY <3>1, <3>2
  <2>2. CASE e \notin Open(g)
    <3>1. ~Live(e, g.own, g.activeEdges, d)
      BY <2>2 DEF Live, Open, Owned, Within
    <3>2. e \in dropped \/ Settled(e, d)
      BY <1>5, <1>9, <2>2 DEF Pending
    <3>3. (e \in dropped => e \in dropped') /\ SameLevel(e)
      BY <1>2, <3>1 DEF Stable
    <3>4. Settled(e, d) => Settled(e, d)'
      BY <1>1, <1>3, <1>9, <3>3, EdgeKept
    <3> QED
      BY <1>6, <1>9, <2>2, <3>2, <3>3, <3>4
  <2> QED
    BY <2>1, <2>2
<1>14. Agree(h, d + 1 .. MaxLoops)'
  <2> SUFFICES ASSUME NEW e \in Open(h), NEW r \in d + 1 .. MaxLoops, r <= block.edgeLoops[e]
               PROVE  AgreeAt(e, r)'
    BY <1>1, <1>11 DEF Agree
  <2>1. e \in Open(g) /\ e \notin solved /\ e \in Edge
    BY <1>6, <1>8
  <2>2. block.edgeLoops[e] \in Nat
    BY <1>1, <2>1, EdgeNumbers
  <2>3. e \in act
    BY <1>3, <1>8, <2>1, <2>2
  <2>4. Agree(g, d .. MaxLoops)
    BY <2>1, <2>3 DEF Ready, solved, act
  <2>5. AgreeAt(e, r)
    BY <1>3, <2>1, <2>4 DEF Agree
  <2> QED
    BY <1>7, <2>1, <2>5
<1> QED
  BY <1>12, <1>13, <1>14 DEF Ready, h

----------------------------------------------------------------------------
(* The stack of calls.                                                     *)

\* A frame with graphs has a depth.
LEMMA FrameDepth ==
  ASSUME NEW f \in FrameType, f.fn # "optimizeSatDep" \/ f.at # "nested"
  PROVE  f.d \in 0 .. MaxLoops
<1>1. MaxLoops \in Nat
  BY LoopAssumption
<1> QED
  BY <1>1 DEF FrameType, OptStart, OptNested, SatStart, SatNested, BreakStart, BreakSolve, BreakFusing, BreakNesting, Row

LEMMA FrameNames ==
  ASSUME NEW f \in FrameType
  PROVE  /\ f.fn \in {"optimize", "optimizeSatDep", "breakGraph"}
         /\ f.at \in {"start", "nested", "solve", "fuse"}
         /\ f.at \in {"solve", "fuse"} => f.fn = "breakGraph"
  BY DEF FrameType, OptStart, OptNested, SatStart, SatNested, BreakStart, BreakSolve, BreakFusing, BreakNesting

\* What f has to schedule is part of what c had.
Spans(f, c) ==
  /\ GraphsOf(c) # {}
  /\ \A h \in GraphsOf(f) :
       /\ h.own \subseteq UNION {g.own : g \in GraphsOf(c)}
       /\ h.activeEdges \subseteq UNION {g.activeEdges : g \in GraphsOf(c)}
       /\ c.d <= f.d

LEMMA UnderSpans ==
  ASSUME NEW c \in FrameType, NEW t \in FrameType, NEW f \in FrameType, Under(t, c), Spans(f, t)
  PROVE  Under(f, c)
<1> SUFFICES ASSUME NEW h \in GraphsOf(f)
             PROVE  /\ c.fn = "optimize" => h.own \subseteq c.g.own /\ h.activeEdges \subseteq c.backup /\ c.d < f.d
                    /\ c.fn = "breakGraph" => c.d <= f.d /\ \A g \in GraphsOf(c) : h.own \intersect g.own = {}
  BY DEF Under
<1>1. PICK q \in GraphsOf(t) : TRUE
  BY DEF Spans
<1>2. t.d \in 0 .. MaxLoops /\ f.d \in 0 .. MaxLoops /\ t.d <= f.d
  BY <1>1, FrameDepth DEF Spans, GraphsOf
<1>3. /\ h.own \subseteq UNION {g.own : g \in GraphsOf(t)}
      /\ h.activeEdges \subseteq UNION {g.activeEdges : g \in GraphsOf(t)}
  BY DEF Spans
<1>4. CASE c.fn = "optimize"
  <2>1. \A g \in GraphsOf(t) : g.own \subseteq c.g.own /\ g.activeEdges \subseteq c.backup /\ c.d < t.d
    BY <1>4 DEF Under
  <2>2. c.d \in 0 .. MaxLoops
    BY <1>4, FrameDepth
  <2>3. c.d < f.d
    BY <1>1, <1>2, <2>1, <2>2
  <2> QED
    BY <1>3, <1>4, <2>1, <2>3
<1>5. CASE c.fn = "breakGraph"
  <2>1. \A g \in GraphsOf(t) : c.d <= t.d /\ \A k \in GraphsOf(c) : g.own \intersect k.own = {}
    BY <1>5 DEF Under
  <2>2. c.d \in 0 .. MaxLoops
    BY <1>5, FrameDepth
  <2>3. c.d <= f.d
    BY <1>1, <1>2, <2>1, <2>2
  <2> QED
    BY <1>3, <1>5, <2>1, <2>3
<1> QED
  BY <1>4, <1>5

LEMMA SpansItself ==
  ASSUME NEW f \in FrameType, GraphsOf(f) # {}
  PROVE  Spans(f, f)
<1>1. f.d \in 0 .. MaxLoops
  BY FrameDepth DEF GraphsOf
<1> QED
  BY <1>1 DEF Spans

\* The calls that wait keep what they rely on when the innermost one schedules a
\* graph of its own, or when nothing is scheduled.
WaitingInv == \A k \in 1 .. Len(frames) - 1 : \A c \in {frames[k]} : FrameInv(c)'

LEMMA WaitingFrames ==
  ASSUME Typed, StackInv, frames # <<>>
  PROVE  \A k \in 1 .. Len(frames) - 1 :
           /\ k \in 1 .. Len(frames) /\ frames[k] \in FrameType /\ frames[k].at = "nested"
           /\ \A f \in {frames[k]} : FrameInv(f)
           /\ Under(Top, frames[k])
<1>1. Len(frames) \in Nat \ {0}
  BY TopIsFrame
<1> SUFFICES ASSUME NEW k \in 1 .. Len(frames) - 1
             PROVE  /\ k \in 1 .. Len(frames) /\ frames[k] \in FrameType /\ frames[k].at = "nested"
                    /\ \A f \in {frames[k]} : FrameInv(f)
                    /\ Under(Top, frames[k])
  OBVIOUS
<1>2. k \in 1 .. Len(frames) /\ k < Len(frames) /\ Len(frames) \in 1 .. Len(frames)
  BY <1>1
<1>3. frames[k] \in FrameType
  BY <1>2, TopIsFrame
<1>4. Under(frames[Len(frames)], frames[k])
  BY <1>2 DEF StackInv
<1> QED
  BY <1>2, <1>3, <1>4 DEF StackInv, Top

LEMMA WaitingStable ==
  ASSUME Typed, StackInv, frames # <<>>, NEW h \in GraphsOf(Top), NEW N \in SUBSET h.own, NEW A \in SUBSET h.activeEdges,
         NEW d, d = Top.d, Stable(N, A, d)
  PROVE  WaitingInv
<1> SUFFICES ASSUME NEW k \in 1 .. Len(frames) - 1, NEW c \in {frames[k]}
             PROVE  FrameInv(c)'
  BY DEF WaitingInv
<1>1. c \in FrameType /\ c.at = "nested" /\ FrameInv(c) /\ Under(Top, c)
  BY WaitingFrames
<1>2. block \in Blocks
  BY DEF Typed, TypeOK
<1>3. d \in Int
  <2>1. Top \in FrameType
    BY TopIsFrame
  <2>2. Top.d \in 0 .. MaxLoops
    BY <2>1, FrameDepth DEF GraphsOf
  <2> QED
    BY <2>2
<1>4. c.fn = "optimize" => N \subseteq c.g.own /\ A \subseteq c.backup /\ c.d < d
  BY <1>1 DEF Under
<1>5. c.fn = "breakGraph" => c.d <= d /\ \A g \in GraphsOf(c) : N \intersect g.own = {}
  BY <1>1 DEF Under
<1> QED
  BY <1>1, <1>2, <1>3, <1>4, <1>5, WaitingKept

LEMMA WaitingStill ==
  ASSUME Typed, StackInv, frames # <<>>, Still
  PROVE  WaitingInv
<1> SUFFICES ASSUME NEW k \in 1 .. Len(frames) - 1, NEW c \in {frames[k]}
             PROVE  FrameInv(c)'
  BY DEF WaitingInv
<1>1. c \in FrameType /\ c.at = "nested" /\ FrameInv(c)
  BY WaitingFrames
<1> DEFINE d == MaxLoops + 1
           N == {}
<1>2. block \in Blocks /\ d \in Int
  BY LoopAssumption DEF Typed, TypeOK
<1>3. c.fn # "optimizeSatDep" => c.d < d /\ c.d <= d
  <2>1. c.fn # "optimizeSatDep" => c.d \in 0 .. MaxLoops
    BY <1>1, FrameDepth
  <2>2. MaxLoops \in Int
    BY LoopAssumption
  <2>3. ASSUME NEW m \in 0 .. MaxLoops PROVE m < MaxLoops + 1 /\ m <= MaxLoops + 1
    BY <2>2
  <2> QED
    BY <2>1, <2>3
<1>4. \A g \in GraphsOf(c) : N \intersect g.own = {}
  OBVIOUS
<1>5. (c.fn = "optimize" => N \subseteq c.g.own /\ N \subseteq c.backup /\ c.d < d)
  BY <1>3
<1>6. Stable(N, N, d)
  BY StillStable
<1> HIDE DEF d, N
<1> QED
  BY <1>1, <1>2, <1>3, <1>4, <1>5, <1>6, WaitingKept

\* The three ways in which the stack moves.
LEMMA StackGoes ==
  ASSUME Typed, StackInv, frames # <<>>, NEW f \in FrameType, Goes(f), f.at # "nested",
         Spans(f, Top), WaitingInv, FrameInv(f)'
  PROVE  StackInv'
<1>1. /\ Len(frames') = Len(frames) /\ Len(frames) \in Nat \ {0}
      /\ \A k \in 1 .. Len(frames) - 1 : frames'[k] = frames[k]
      /\ frames'[Len(frames)] = f /\ ret' = NoRet
  BY GoesOn, TopIsFrame
<1>2. \A k \in 1 .. Len(frames) : k = Len(frames) \/ (k \in 1 .. Len(frames) - 1 /\ k < Len(frames))
  BY <1>1
<1>3. \A k \in 1 .. Len(frames') : frames'[k].at = "nested" <=> (k < Len(frames') \/ ret'.done)
  BY <1>1, <1>2, WaitingFrames DEF NoRet
<1>4. ASSUME NEW l \in 1 .. Len(frames'), NEW k \in 1 .. l - 1 PROVE Under(frames'[l], frames'[k])
  <2>1. k \in 1 .. Len(frames) - 1
    BY <1>1
  <2>2. CASE l = Len(frames)
    BY <1>1, <2>1, <2>2, UnderSpans, WaitingFrames, TopIsFrame
  <2>3. CASE l # Len(frames)
    BY <1>1, <1>2, <2>1, <2>3 DEF StackInv
  <2> QED
    BY <2>2, <2>3
<1>5. ASSUME NEW k \in 1 .. Len(frames'), NEW c \in {frames'[k]} PROVE FrameInv(c)'
  <2>1. CASE k = Len(frames)
    <3>1. c = f
      BY <1>1, <2>1
    <3> QED
      BY <3>1
  <2>2. CASE k # Len(frames)
    <3>1. k \in 1 .. Len(frames) - 1 /\ c \in {frames[k]}
      BY <1>1, <1>2, <2>2
    <3> QED
      BY <3>1 DEF WaitingInv
  <2> QED
    BY <2>1, <2>2
<1> QED
  BY <1>3, <1>4, <1>5 DEF StackInv

LEMMA StackCalls ==
  ASSUME Typed, StackInv, frames # <<>>, NEW f \in FrameType, NEW c \in FrameType, Calls(f, c),
         f.at = "nested", c.at # "nested", Spans(f, Top), Spans(c, Top), Under(c, f),
         WaitingInv, FrameInv(f)', FrameInv(c)'
  PROVE  StackInv'
<1>1. /\ Len(frames') = Len(frames) + 1 /\ Len(frames) \in Nat \ {0}
      /\ \A k \in 1 .. Len(frames) - 1 : frames'[k] = frames[k]
      /\ frames'[Len(frames)] = f /\ frames'[Len(frames) + 1] = c /\ ret' = NoRet
  BY CallsOn, TopIsFrame
<1>2. \A k \in 1 .. Len(frames) + 1 :
        \/ k = Len(frames) + 1
        \/ k = Len(frames) /\ k < Len(frames) + 1
        \/ k \in 1 .. Len(frames) - 1 /\ k < Len(frames) + 1
  BY <1>1
<1>3. ASSUME NEW k \in 1 .. Len(frames')
      PROVE  frames'[k].at = "nested" <=> (k < Len(frames') \/ ret'.done)
  <2>1. CASE k = Len(frames) + 1
    BY <1>1, <2>1 DEF NoRet
  <2>2. CASE k = Len(frames)
    BY <1>1, <1>2, <2>2
  <2>3. CASE k \in 1 .. Len(frames) - 1
    BY <1>1, <1>2, <2>3, WaitingFrames
  <2> QED
    BY <1>1, <1>2, <2>1, <2>2, <2>3
<1>4. ASSUME NEW l \in 1 .. Len(frames'), NEW k \in 1 .. l - 1 PROVE Under(frames'[l], frames'[k])
  <2>1. k \in 1 .. Len(frames) /\ (k # Len(frames) => k \in 1 .. Len(frames) - 1)
    BY <1>1
  <2>2. CASE k = Len(frames)
    <3>1. l = Len(frames) + 1
      BY <1>1, <2>2
    <3> QED
      BY <1>1, <2>2, <3>1
  <2>3. CASE k # Len(frames)
    <3>1. CASE l = Len(frames) + 1
      BY <1>1, <2>1, <2>3, <3>1, UnderSpans, WaitingFrames, TopIsFrame
    <3>2. CASE l = Len(frames)
      BY <1>1, <2>1, <2>3, <3>2, UnderSpans, WaitingFrames, TopIsFrame
    <3>3. CASE l \in 1 .. Len(frames) - 1
      <4>1. l \in 1 .. Len(frames) /\ frames'[l] = frames[l] /\ frames'[k] = frames[k]
        BY <1>1, <2>1, <2>3, <3>3
      <4> QED
        BY <4>1 DEF StackInv
    <3> QED
      BY <1>1, <1>2, <3>1, <3>2, <3>3
  <2> QED
    BY <2>2, <2>3
<1>5. ASSUME NEW k \in 1 .. Len(frames'), NEW b \in {frames'[k]} PROVE FrameInv(b)'
  <2>1. CASE k = Len(frames) + 1
    <3>1. b = c
      BY <1>1, <2>1
    <3> QED
      BY <3>1
  <2>2. CASE k = Len(frames)
    <3>1. b = f
      BY <1>1, <2>2
    <3> QED
      BY <3>1
  <2>3. CASE k \in 1 .. Len(frames) - 1
    <3>1. b \in {frames[k]}
      BY <1>1, <2>3
    <3> QED
      BY <2>3, <3>1 DEF WaitingInv
  <2> QED
    BY <1>1, <1>2, <2>1, <2>2, <2>3
<1> QED
  BY <1>3, <1>4, <1>5 DEF StackInv

LEMMA StackReturns ==
  ASSUME Typed, StackInv, frames # <<>>, NEW ok \in BOOLEAN, NEW sat \in SUBSET Edge, Returns(ok, sat), WaitingInv
  PROVE  StackInv'
<1>1. /\ Len(frames') = Len(frames) - 1 /\ Len(frames) \in Nat \ {0}
      /\ \A k \in 1 .. Len(frames) - 1 : frames'[k] = frames[k]
      /\ ret'.done
  BY ReturnsOn, TopIsFrame
<1>2. \A k \in 1 .. Len(frames') : frames'[k].at = "nested" <=> (k < Len(frames') \/ ret'.done)
  BY <1>1, WaitingFrames
<1>3. ASSUME NEW l \in 1 .. Len(frames'), NEW k \in 1 .. l - 1 PROVE Under(frames'[l], frames'[k])
  <2>1. k \in 1 .. Len(frames) - 1 /\ l \in 1 .. Len(frames) - 1 /\ l \in 1 .. Len(frames)
    BY <1>1
  <2> QED
    BY <1>1, <2>1 DEF StackInv
<1>4. ASSUME NEW k \in 1 .. Len(frames'), NEW c \in {frames'[k]} PROVE FrameInv(c)'
  <2>1. k \in 1 .. Len(frames) - 1 /\ c \in {frames[k]}
    BY <1>1
  <2> QED
    BY <2>1 DEF WaitingInv
<1> QED
  BY <1>2, <1>3, <1>4 DEF StackInv

----------------------------------------------------------------------------
(* What is done stays done.                                                *)

\* An edge in order: no level is wrong and satLvl claims nothing false.
Ordered(e) == Good(e, MaxLoops + 1) /\ Truthful(e, MaxLoops + 1)

\* A graph that is ready below all its loops is done.
LEMMA LeafDone ==
  ASSUME block \in Blocks, block' = block, NEW g, NEW d \in 0 .. MaxLoops, NEW m \in Int, m <= d,
         Ready(g, d)', Covers(m, g),
         NEW e \in Edge, Touches(e, g.own), Intact(e)'
  PROVE  Ordered(e)'
<1> DEFINE L == block.edgeLoops[e]
<1>1. /\ MaxLoops \in Nat /\ L \in 1 .. MaxLoops /\ d \in Nat /\ d + 1 \in Int /\ d + 1 <= MaxLoops + 1
      /\ L <= block.nodeLoops[In(e)] /\ L <= block.nodeLoops[Out(e)]
      /\ block.nodeLoops[In(e)] \in Int /\ block.nodeLoops[Out(e)] \in Int
  BY BlockFacts, EdgeNumbers
<1>2. L <= d
  <2>1. block.nodeLoops[In(e)] <= m \/ block.nodeLoops[Out(e)] <= m
    BY DEF Touches, Covers
  <2> QED
    BY <1>1, <2>1
<1>3. e \notin dropped' /\ \A r \in 0 .. MaxLoops : ~Marked(e, r)'
  BY DEF Intact, Marked
<1>4. Clean(e, d)'
  BY <1>3 DEF Clean
<1>5. Touches(e, g.own)' /\ Open(g)' = Open(g)
  BY SameEnds
<1>6. Settled(e, d + 1)'
  <2>1. CASE e \in Open(g)
    <3>1. Sound(e, d)'
      BY <1>4, <1>5, <2>1 DEF Ready, Pending
    <3>2. Good(e, d)' /\ Truthful(e, d)'
      BY <1>2, <3>1 DEF Sound
    <3>3. d <= L => ~Decides(e, d)'
      <4>1. ASSUME d <= L PROVE ~DifferAt(e, d)'
        <5>1. d \in d .. MaxLoops /\ d \in 0 .. MaxLoops
          BY <1>1
        <5>2. AgreeAt(e, d)'
          BY <1>5, <2>1, <4>1, <5>1 DEF Ready, Agree
        <5> QED
          BY <1>3, <5>1, <5>2 DEF AgreeAt, Marked
      <4> QED
        BY <1>1, <1>2, <4>1 DEF Decides
    <3>4. Good(e, d + 1)'
      BY <1>1, <3>2, <3>3, GoodDeeper
    <3>5. Truthful(e, d + 1)'
      BY <1>1, <3>2, LevelsAddNext DEF LevelsAdd
    <3>6. L < d + 1
      BY <1>1, <1>2
    <3> QED
      BY <3>4, <3>5, <3>6 DEF Settled
  <2>2. CASE e \notin Open(g)
    <3>1. Settled(e, d)'
      BY <1>3, <1>4, <1>5, <2>2 DEF Ready, Pending
    <3> QED
      BY <1>1, <3>1, LevelsAddNext DEF LevelsAdd
  <2> QED
    BY <2>1, <2>2
<1> QED
  BY <1>1, <1>6, LevelsAddNext DEF LevelsAdd, Ordered

LEMMA DoneKept ==
  ASSUME block \in Blocks, DoneInv, NEW N, NEW A, NEW d, Stable(N, A, d),
         NEW e \in Edge, Finished(e), ~Touches(e, N), Intact(e)'
  PROVE  Ordered(e)'
<1>1. MaxLoops + 1 \in Int
  BY LoopAssumption
<1>2. e \notin dropped' /\ Clean(e, MaxLoops + 1)'
  BY DEF Intact, Clean, Marked
<1>3. Clean(e, MaxLoops + 1) /\ \A r \in 0 .. MaxLoops : SameAt(e, r)
  BY <1>2 DEF Stable
<1>4. ~Live(e, N, A, d)
  BY DEF Live, Touches, Within
<1>5. e \notin dropped /\ SameLevel(e) /\ block' = block
  BY <1>2, <1>4 DEF Stable
<1>6. Intact(e)
  <2>1. \A r \in 0 .. MaxLoops : r < MaxLoops + 1
    BY LoopAssumption
  <2> QED
    BY <1>3, <1>5, <2>1 DEF Intact, Clean, Marked
<1>7. Good(e, MaxLoops + 1) /\ Truthful(e, MaxLoops + 1)
  BY <1>6 DEF DoneInv
<1> QED
  BY <1>1, <1>3, <1>5, <1>7, EdgeKept DEF Ordered

LEMMA DoneStep ==
  ASSUME block \in Blocks, DoneInv, NEW N, NEW A, NEW d, Stable(N, A, d),
         \A e \in Edge : Finished(e)' /\ Intact(e)' => (Finished(e) /\ ~Touches(e, N)) \/ Ordered(e)'
  PROVE  DoneInv'
<1>1. \A e \in Edge : Finished(e)' /\ Intact(e)' => Ordered(e)'
  BY DoneKept
<1> QED
  BY <1>1 DEF DoneInv, Ordered

\* Which edges a step of the stack finishes.
LEMMA FinishedGoes ==
  ASSUME Typed, frames # <<>>, block' = block, NEW f \in FrameType, Goes(f),
         Undone(Top) \subseteq Undone(f),
         Failing => Top.fn = "optimize" /\ Top.g.own \subseteq Undone(f),
         NEW e \in Edge, Finished(e)'
  PROVE  Finished(e) /\ ~Touches(e, Undone(f))
<1>1. /\ Len(frames') = Len(frames) /\ Len(frames) \in Nat \ {0} /\ Len(frames) \in 1 .. Len(frames)
      /\ \A k \in 1 .. Len(frames) - 1 : frames'[k] = frames[k]
      /\ frames'[Len(frames)] = f
  BY GoesOn, TopIsFrame
<1>2. \A k \in 1 .. Len(frames) : k = Len(frames) \/ k \in 1 .. Len(frames) - 1
  BY <1>1
<1>3. \A N : Touches(e, N)' <=> Touches(e, N)
  BY SameEnds
<1>4. \A k \in 1 .. Len(frames) : ~Touches(e, Undone(frames'[k]))
  <2> SUFFICES ASSUME NEW k \in 1 .. Len(frames) PROVE ~Touches(e, Undone(frames'[k]))
    OBVIOUS
  <2>1. PICK c : c = frames'[k]
    OBVIOUS
  <2>2. ~Touches(e, Undone(c))'
    BY <1>1, <2>1 DEF Finished
  <2> QED
    BY <1>3, <2>1, <2>2
<1>5. ~Touches(e, Undone(f))
  BY <1>1, <1>4
<1>6. \A k \in 1 .. Len(frames) : ~Touches(e, Undone(frames[k]))
  BY <1>1, <1>2, <1>4, <1>5 DEF Touches, Top
<1>7. ASSUME Failing PROVE LastAttempt(Len(frames)) /\ ~Touches(e, frames[Len(frames)].g.own)
  BY <1>1, <1>5, <1>7 DEF LastAttempt, Top, Touches
<1> QED
  BY <1>1, <1>5, <1>6, <1>7 DEF Finished

LEMMA FinishedCalls ==
  ASSUME Typed, frames # <<>>, block' = block, NEW f \in FrameType, NEW c \in FrameType, Calls(f, c),
         Undone(Top) \subseteq Undone(f) \union Undone(c), ~Failing,
         NEW e \in Edge, Finished(e)'
  PROVE  Finished(e) /\ ~Touches(e, Undone(f)) /\ ~Touches(e, Undone(c))
<1>1. /\ Len(frames') = Len(frames) + 1 /\ Len(frames) \in Nat \ {0}
      /\ \A k \in 1 .. Len(frames) - 1 : frames'[k] = frames[k]
      /\ frames'[Len(frames)] = f /\ frames'[Len(frames) + 1] = c
  BY CallsOn, TopIsFrame
<1>2. /\ \A k \in 1 .. Len(frames) : k = Len(frames) \/ k \in 1 .. Len(frames) - 1
      /\ \A k \in 1 .. Len(frames) : k \in 1 .. Len(frames) + 1
      /\ Len(frames) \in 1 .. Len(frames) + 1 /\ Len(frames) + 1 \in 1 .. Len(frames) + 1
  BY <1>1
<1>3. \A N : Touches(e, N)' <=> Touches(e, N)
  BY SameEnds
<1>4. \A k \in 1 .. Len(frames) + 1 : ~Touches(e, Undone(frames'[k]))
  <2> SUFFICES ASSUME NEW k \in 1 .. Len(frames) + 1 PROVE ~Touches(e, Undone(frames'[k]))
    OBVIOUS
  <2>1. PICK b : b = frames'[k]
    OBVIOUS
  <2>2. ~Touches(e, Undone(b))'
    BY <1>1, <2>1 DEF Finished
  <2> QED
    BY <1>3, <2>1, <2>2
<1>5. ~Touches(e, Undone(f)) /\ ~Touches(e, Undone(c))
  BY <1>1, <1>2, <1>4
<1>6. \A k \in 1 .. Len(frames) : ~Touches(e, Undone(frames[k]))
  BY <1>1, <1>2, <1>4, <1>5 DEF Touches, Top
<1> QED
  BY <1>5, <1>6 DEF Finished

LEMMA FinishedReturns ==
  ASSUME Typed, StackInv, frames # <<>>, block' = block, NEW ok \in BOOLEAN, NEW sat \in SUBSET Edge, Returns(ok, sat),
         ok => ~Failing, ~ok => Top.fn = "breakGraph",
         NEW e \in Edge, Finished(e)', ok => ~Touches(e, Undone(Top))
  PROVE  Finished(e)
<1>1. /\ Len(frames') = Len(frames) - 1 /\ Len(frames) \in Nat \ {0}
      /\ \A k \in 1 .. Len(frames) - 1 : frames'[k] = frames[k]
      /\ ret'.done /\ ret'.ok = ok
  BY ReturnsOn, TopIsFrame
<1>2. /\ \A k \in 1 .. Len(frames) : k = Len(frames) \/ k \in 1 .. Len(frames) - 1
      /\ \A k \in 1 .. Len(frames) - 1 : k \in 1 .. Len(frames)
  BY <1>1
<1>3. \A N : Touches(e, N)' <=> Touches(e, N)
  BY SameEnds
<1>4. \A k \in 1 .. Len(frames) - 1 : ~Touches(e, Undone(frames[k]))
  <2> SUFFICES ASSUME NEW k \in 1 .. Len(frames) - 1 PROVE ~Touches(e, Undone(frames[k]))
    OBVIOUS
  <2>1. PICK b : b = frames'[k]
    OBVIOUS
  <2>2. ~Touches(e, Undone(b))'
    BY <1>1, <2>1 DEF Finished
  <2> QED
    BY <1>1, <1>3, <2>1, <2>2
<1>5. CASE ok
  BY <1>2, <1>4, <1>5 DEF Finished, Top
<1>6. CASE ~ok
  <2>1. PICK k \in 1 .. Len(frames') : LastAttempt(k)' /\ ~Touches(e, frames[k].g.own)
    <3>1. PICK k \in 1 .. Len(frames') : LastAttempt(k)' /\ ~(In(e)' \in frames'[k].g.own \/ Out(e)' \in frames'[k].g.own)
      BY <1>1, <1>6 DEF Finished, Failing, Touches
    <3> QED
      BY <1>1, <1>3, <3>1, SameEnds DEF Touches
  <2>2. k \in 1 .. Len(frames) - 1 /\ k \in 1 .. Len(frames)
    BY <1>1, <1>2
  <2>3. Top.fn = "breakGraph"
    BY <1>6
  <2>4. LastAttempt(k)
    <3>1. frames'[k].fn = "optimize" /\ \A l \in k + 1 .. Len(frames') : frames'[l].fn # "optimize"
      BY <2>1 DEF LastAttempt
    <3>2. ASSUME NEW l \in k + 1 .. Len(frames) PROVE frames[l].fn # "optimize"
      <4> DEFINE n == Len(frames)
      <4>0. n \in Nat /\ k \in 1 .. n - 1 /\ l \in k + 1 .. n /\ Len(frames') = n - 1
        BY <1>1, <2>2, <3>2
      <4> HIDE DEF n
      <4>3. k \in Nat
        BY <4>0
      <4>4. l = n \/ (l \in 1 .. n - 1 /\ l \in k + 1 .. n - 1)
        BY <4>0, <4>3
      <4>1. l = Len(frames) \/ (l \in 1 .. Len(frames) - 1 /\ l \in k + 1 .. Len(frames'))
        BY <4>0, <4>4 DEF n
      <4> QED
        BY <1>1, <2>3, <3>1, <4>1 DEF Top
    <3> QED
      BY <1>1, <2>2, <3>1, <3>2 DEF LastAttempt
  <2>5. Under(Top, frames[k]) /\ frames[k].fn = "optimize"
    BY <2>2, <2>4, WaitingFrames DEF LastAttempt
  <2>6. Undone(Top) \subseteq frames[k].g.own
    <3>1. \A h \in GraphsOf(Top) : h.own \subseteq frames[k].g.own
      BY <2>5 DEF Under
    <3> QED
      BY <3>1 DEF Undone
  <2>7. ~Touches(e, Undone(Top))
    BY <2>1, <2>6 DEF Touches
  <2> QED
    BY <1>2, <1>4, <2>1, <2>2, <2>4, <2>7 DEF Finished, Top
<1> QED
  BY <1>5, <1>6

----------------------------------------------------------------------------
(* The steps of optimize and optimizeSatDep.                               *)

LegalInv == Typed /\ StackInv /\ DoneInv

LEMMA TopInv ==
  ASSUME Typed, StackInv, frames # <<>>
  PROVE  \A t \in {Top} : FrameInv(t)
<1>1. Len(frames) \in 1 .. Len(frames)
  BY TopIsFrame
<1> QED
  BY <1>1 DEF StackInv, Top

\* Nothing is lost when the schedule stays as it is.
LEMMA StillKept ==
  ASSUME block \in Blocks, Still, NEW g, NEW d \in Nat
  PROVE  /\ Pending(g, d) => Pending(g, d)'
         /\ Fresh(g, d) => Fresh(g, d)'
         /\ Ready(g, d) => Ready(g, d)'
         /\ \A S : Agree(g, S) => Agree(g, S)'
<1> DEFINE N == {}
<1>1. d \in Int /\ Stable(N, N, d) /\ block' = block /\ N \subseteq N
  BY StillStable DEF Still
<1>2. \A e \in Edge : ~Live(e, N, N, d)
  BY DEF Live
<1>3. \A e \in Open(g) : e \in Edge
  BY DEF Open, Owned
<1> HIDE DEF N
<1>4. Pending(g, d) => Pending(g, d)'
  BY <1>1, <1>2, PendingKept
<1>5. Fresh(g, d) => Fresh(g, d)'
  BY <1>1, <1>2, <1>3, FreshKept
<1>6. Open(g)' = Open(g)
  BY <1>1, SameEnds
<1>7. \A S : Agree(g, S) => Agree(g, S)'
  <2> SUFFICES ASSUME NEW S, Agree(g, S), NEW e \in Open(g), NEW r \in S, r <= block.edgeLoops[e]
               PROVE  AgreeAt(e, r)'
    BY <1>1, <1>6 DEF Agree
  <2>1. AgreeAt(e, r) /\ e \in Edge
    BY <1>3 DEF Agree
  <2> QED
    BY <2>1, StillSame
<1>8. Ready(g, d) => Ready(g, d)'
  <2> DEFINE S == d .. MaxLoops
  <2>1. Agree(g, S) => Agree(g, S)'
    BY <1>7
  <2> QED
    BY <1>4, <1>5, <2>1 DEF Ready
<1> QED
  BY <1>4, <1>5, <1>7, <1>8

\* A call that returns without having ordered anything.
LEMMA ReturnsStill ==
  ASSUME Typed, StackInv, DoneInv, frames # <<>>, Still, NEW ok \in BOOLEAN, NEW sat \in SUBSET Edge, Returns(ok, sat),
         ok => ~Failing, ~ok => Top.fn = "breakGraph", ok => Undone(Top) = {}
  PROVE  StackInv' /\ DoneInv'
<1>1. block \in Blocks /\ block' = block
  BY DEF Typed, TypeOK, Still
<1>2. StackInv'
  BY WaitingStill, StackReturns
<1>3. \A e \in Edge : ok => ~Touches(e, Undone(Top))
  BY DEF Touches
<1>4. \A e \in Edge : Finished(e)' => Finished(e)
  BY <1>1, <1>3, FinishedReturns
<1> DEFINE N == {}
           d == 0
<1>5. Stable(N, N, d) /\ \A e \in Edge : ~Touches(e, N)
  BY StillStable DEF Touches
<1> HIDE DEF N, d
<1>6. DoneInv'
  BY <1>1, <1>4, <1>5, DoneStep
<1> QED
  BY <1>2, <1>6

\* A call that goes on without having ordered anything.
LEMMA GoesStill ==
  ASSUME Typed, StackInv, DoneInv, frames # <<>>, Still, NEW f \in FrameType, Goes(f), f.at # "nested",
         Spans(f, Top), FrameInv(f)', Undone(Top) \subseteq Undone(f),
         Failing => Top.fn = "optimize" /\ Top.g.own \subseteq Undone(f)
  PROVE  StackInv' /\ DoneInv'
<1>1. block \in Blocks /\ block' = block
  BY DEF Typed, TypeOK, Still
<1>2. StackInv'
  BY WaitingStill, StackGoes
<1>3. \A e \in Edge : Finished(e)' => Finished(e)
  BY <1>1, FinishedGoes
<1> DEFINE N == {}
           d == 0
<1>4. Stable(N, N, d) /\ \A e \in Edge : ~Touches(e, N)
  BY StillStable DEF Touches
<1> HIDE DEF N, d
<1>5. DoneInv'
  BY <1>1, <1>3, <1>4, DoneStep
<1> QED
  BY <1>2, <1>5

LEMMA OptimizeLeafLegal ==
  ASSUME LegalInv, OptimizeLeaf
  PROVE  StackInv' /\ DoneInv'
<1>1. /\ Typed /\ StackInv /\ DoneInv /\ frames # <<>> /\ Returns(TRUE, {}) /\ Still
      /\ Top.fn = "optimize" /\ Top.at = "start" /\ Top.d >= Top.maxDepth /\ ~Failing
  BY UnsolvedStill DEF LegalInv, OptimizeLeaf, At, Failing
<1>2. block \in Blocks /\ block' = block
  BY <1>1 DEF Typed, TypeOK, Still
<1>3. PICK t : t = Top
  OBVIOUS
<1> DEFINE g == t.g
           d == t.d
           m == t.maxDepth
<1>4. FrameInv(t) /\ t \in OptStart
  BY <1>1, <1>3, TopInv, TopIsFrame, FrameKinds
<1>5. Ready(g, d) /\ Covers(m, g)
  BY <1>1, <1>3, <1>4 DEF FrameInv
<1>6. d \in 0 .. MaxLoops /\ d \in Nat /\ m \in Int /\ m <= d
  BY <1>1, <1>3, <1>4, LoopAssumption DEF OptStart
<1>7. Undone(Top) = g.own
  BY <1>1, <1>3 DEF Undone, GraphsOf
<1> HIDE DEF g, d, m
<1>8. Ready(g, d)'
  BY <1>1, <1>2, <1>5, <1>6, StillKept
<1>9. ASSUME NEW e \in Edge, Finished(e)', Intact(e)' PROVE Finished(e) \/ Ordered(e)'
  <2>1. CASE Touches(e, g.own)
    BY <1>2, <1>5, <1>6, <1>8, <1>9, <2>1, LeafDone
  <2>2. CASE ~Touches(e, g.own)
    BY <1>1, <1>2, <1>7, <1>9, <2>2, FinishedReturns
  <2> QED
    BY <2>1, <2>2
<1> DEFINE N == {}
<1>10. Stable(N, N, d) /\ \A e \in Edge : ~Touches(e, N)
  BY <1>1, StillStable DEF Touches
<1> HIDE DEF N
<1>11. DoneInv'
  BY <1>1, <1>2, <1>9, <1>10, DoneStep
<1> QED
  BY <1>1, <1>11, WaitingStill, StackReturns

\* What is left of the graph's own promise once its row is solved.
LEMMA SolvedPending ==
  ASSUME TypeOK, NEW g \in GraphType, NEW d \in Row, NEW o \in OutcomeType,
         NEW levels, NEW flags, Solves(g, d, o, levels, flags), Pending(g, d), NEW S, Agree(g, S)
  PROVE  Pending(g, d)' /\ Agree(g, S)'
<1>1. block \in Blocks /\ d \in Int /\ Stable(g.own, g.activeEdges, d)
  <2>1. block \in Blocks /\ d \in Int
    BY LoopAssumption DEF TypeOK, Row
  <2> QED
    BY <2>1, SolvedStable
<1>2. block' = block /\ omega' = omega /\ moved' = moved /\ stray' = stray
  BY SolvedSat
<1>3. \A e \in Edge : Live(e, g.own, g.activeEdges, d) => e \in Open(g)
  BY DEF Live, Within, Open, Owned
<1>4. Pending(g, d)'
  BY <1>1, <1>3, PendingKept
<1>5. \A x, r : AgreeAt(x, r)' <=> AgreeAt(x, r)
  BY <1>2, SameEnds DEF AgreeAt, DifferAt
<1>6. Open(g)' = Open(g)
  BY <1>2, SameEnds
<1>7. Agree(g, S)'
  BY <1>2, <1>5, <1>6 DEF Agree
<1> QED
  BY <1>4, <1>7

LEMMA OptimizeSolvedLegal ==
  ASSUME LegalInv, Typed', OptimizeSolved
  PROVE  StackInv' /\ DoneInv'
<1>1. /\ Typed /\ StackInv /\ DoneInv /\ frames # <<>> /\ TypeOK
      /\ Top.fn = "optimize" /\ Top.at = "start" /\ Top.d < Top.maxDepth /\ ~Failing
  BY DEF LegalInv, OptimizeSolved, At, Failing, Typed
<1>2. PICK t : t = Top
  OBVIOUS
<1> DEFINE g == t.g
           d == t.d
           m == t.maxDepth
<1>3. FrameInv(t) /\ t \in OptStart
  BY <1>1, <1>2, TopInv, TopIsFrame, FrameKinds
<1>4. Ready(g, d) /\ Covers(m, g) /\ t.backup = g.activeEdges
  BY <1>1, <1>2, <1>3 DEF FrameInv
<1>5. /\ g \in GraphType /\ m \in 1 .. MaxLoops /\ d \in Row /\ d \in Nat /\ d + 1 \in 0 .. MaxLoops /\ d + 1 \in Nat
      /\ d + 1 <= m /\ d < d + 1 /\ d <= d + 1
  <2>1. g \in GraphType /\ d \in 0 .. MaxLoops /\ m \in 1 .. MaxLoops /\ d < m /\ MaxLoops \in Nat
    BY <1>1, <1>2, <1>3, LoopAssumption DEF OptStart
  <2> QED
    BY <2>1 DEF Row
<1>6. PICK o \in Outcomes(g, d, FALSE) :
        /\ Solved(g, d, o, satLvl, carried)
        /\ IF d + 1 = m
           THEN Returns(TRUE, o.deactivated)
           ELSE Calls([t EXCEPT !.at = "nested", !.g = After(g, o), !.sat = o.deactivated],
                      optimize(After(g, o), d + 1, m))
  BY <1>2 DEF OptimizeSolved
<1> DEFINE h == After(g, o)
           f == [t EXCEPT !.at = "nested", !.g = h, !.sat = o.deactivated]
           c == optimize(h, d + 1, m)
<1>7. /\ Undone(Top) = g.own /\ GraphsOf(t) = {g}
      /\ g \in GraphsOf(Top) /\ d = Top.d /\ GraphsOf(Top) = {g}
  BY <1>1, <1>2 DEF Undone, GraphsOf
<1>8. h.own = g.own /\ h.activeEdges = g.activeEdges \ (o.deactivated \union o.empty) /\ h \in GraphType
  BY <1>5, AfterType
<1>9. /\ f.fn = "optimize" /\ f.at = "nested" /\ f.g = h /\ f.d = d /\ f.maxDepth = m /\ f.backup = g.activeEdges
      /\ Backup(f) = g
  <2>1. f.fn = "optimize" /\ f.at = "nested" /\ f.g = h /\ f.d = d /\ f.maxDepth = m /\ f.backup = g.activeEdges
    BY <1>3, <1>4 DEF OptStart
  <2>2. [h EXCEPT !.activeEdges = g.activeEdges] = g
    BY <1>5 DEF GraphType, After
  <2> QED
    BY <2>1, <2>2 DEF Backup
<1>10. /\ c.fn = "optimize" /\ c.at = "start" /\ c.g = h /\ c.d = d + 1 /\ c.maxDepth = m /\ c.backup = h.activeEdges
  BY DEF optimize
<1>11. o \in OutcomeType /\ Solves(g, d, o, satLvl, carried) /\ o.deactivated \in SUBSET Edge
  <2>1. o \in OutcomeType /\ o.deactivated \subseteq getEdges(g, d) /\ o.empty \subseteq getEdges(g, d)
        /\ o.deactivated \intersect o.empty = {}
    BY OutcomesType
  <2> QED
    BY <1>1, <1>6, <2>1 DEF Solves, TypeOK, LevelsType, OutcomeType
<1> HIDE DEF g, d, m, h, f, c
<1>12. Agree(g, {d})
  <2>1. d \in d .. MaxLoops
    BY <1>5, LoopAssumption DEF Row
  <2> QED
    BY <1>4, <2>1 DEF Ready, Agree
<1>13. Pending(g, d) /\ block \in Blocks
  BY <1>1, <1>4 DEF Ready, TypeOK
<1>14. Ready(h, d + 1)'
  BY <1>1, <1>4, <1>5, <1>11, <1>12, <1>13, SolvedReady DEF h
<1>15. Stable(g.own, g.activeEdges, d) /\ block' = block
  BY <1>1, <1>5, <1>11, SolvedStable, SolvedSat
<1>16. WaitingInv
  BY <1>1, <1>7, <1>15, WaitingStable
<1>17. Covers(m, h) /\ Covers(m, h)'
  BY <1>4, <1>8, <1>15 DEF Covers
<1>18. CASE d + 1 = m
  <2>1. Returns(TRUE, o.deactivated)
    BY <1>6, <1>18 DEF h
  <2>2. StackInv'
    BY <1>1, <1>11, <1>16, <2>1, StackReturns
  <2>3. ASSUME NEW e \in Edge, Finished(e)', Intact(e)' PROVE (Finished(e) /\ ~Touches(e, g.own)) \/ Ordered(e)'
    <3>1. CASE Touches(e, g.own)
      <4> DEFINE k == d + 1
      <4>1. k \in 0 .. MaxLoops /\ m \in Int /\ m <= k /\ Ready(h, k)' /\ Touches(e, h.own)
        BY <1>5, <1>8, <1>14, <1>18, <3>1
      <4> HIDE DEF k
      <4> QED
        BY <1>13, <1>15, <1>17, <2>3, <4>1, LeafDone
    <3>2. CASE ~Touches(e, g.own)
      BY <1>1, <1>7, <1>11, <1>15, <2>1, <2>3, <3>2, FinishedReturns
    <3> QED
      BY <3>1, <3>2
  <2> QED
    BY <1>1, <1>13, <1>15, <2>2, <2>3, DoneStep
<1>19. CASE d + 1 # m
  <2>1. Calls(f, c)
    BY <1>6, <1>19 DEF f, c, h
  <2>2. f \in FrameType /\ c \in FrameType
    BY <1>1, <2>1, CallsOfFrames
  <2>3. FrameInv(f)'
    <3>1. Pending(g, d)' /\ Agree(g, {d})'
      BY <1>1, <1>5, <1>11, <1>12, <1>13, SolvedPending
    <3>2. h.activeEdges \subseteq g.activeEdges
      BY <1>8
    <3> QED
      BY <1>9, <1>17, <3>1, <3>2 DEF FrameInv
  <2>4. FrameInv(c)'
    BY <1>10, <1>14, <1>17 DEF FrameInv
  <2>5. GraphsOf(f) = {g} /\ GraphsOf(c) = {h}
    BY <1>9, <1>10 DEF GraphsOf
  <2>6. Spans(f, Top) /\ Spans(c, Top)
    BY <1>5, <1>7, <1>8, <1>9, <1>10, <2>5 DEF Spans
  <2>7. Under(c, f)
    BY <1>5, <1>8, <1>9, <1>10, <2>5 DEF Under
  <2>8. f.at = "nested" /\ c.at # "nested"
    BY <1>9, <1>10
  <2>9. StackInv'
    BY <1>1, <1>16, <2>1, <2>2, <2>3, <2>4, <2>6, <2>7, <2>8, StackCalls
  <2>10. Undone(f) = {} /\ Undone(c) = g.own
    BY <1>8, <1>9, <1>10, <2>5 DEF Undone
  <2>11. ASSUME NEW e \in Edge, Finished(e)' PROVE Finished(e) /\ ~Touches(e, g.own)
    BY <1>1, <1>7, <1>15, <2>1, <2>2, <2>10, <2>11, FinishedCalls
  <2> QED
    BY <1>1, <1>13, <1>15, <2>9, <2>11, DoneStep
<1> QED
  BY <1>18, <1>19

LEMMA OptimizeUnsolvedLegal ==
  ASSUME LegalInv, Typed', OptimizeUnsolved
  PROVE  StackInv' /\ DoneInv'
<1>1. /\ Typed /\ StackInv /\ DoneInv /\ frames # <<>>
      /\ Top.fn = "optimize" /\ Top.at = "start" /\ ~Failing /\ Top.d < Top.maxDepth
      /\ Goes(breakGraph(Top.g, Top.d)) /\ Abandons(Top.g) /\ dropped' = dropped
  BY DEF LegalInv, OptimizeUnsolved, At, Failing
<1>2. PICK t : t = Top
  OBVIOUS
<1> DEFINE g == t.g
           d == t.d
           f == breakGraph(g, d)
<1>3. FrameInv(t) /\ t \in OptStart /\ t \in FrameType
  BY <1>1, <1>2, TopInv, TopIsFrame, FrameKinds
<1>4. Ready(g, d) /\ d \in Nat
  BY <1>1, <1>2, <1>3, LoopAssumption DEF FrameInv, OptStart
<1>5. GraphsOf(Top) = {g} /\ Undone(Top) = g.own /\ Goes(f) /\ Top.d = d
  BY <1>1, <1>2 DEF GraphsOf, Undone
<1>6. f.fn = "breakGraph" /\ f.at = "start" /\ f.g = g /\ f.d = d
  BY DEF breakGraph
<1>7. Still /\ block \in Blocks
  BY <1>1, AbandonsStill DEF Typed, TypeOK
<1> HIDE DEF g, d, f
<1>8. f \in FrameType
  BY <1>1, <1>5, GoesToFrame
<1>9. FrameInv(f)'
  BY <1>4, <1>6, <1>7, StillKept DEF FrameInv, Ready
<1>10. GraphsOf(f) = {g} /\ Undone(f) = g.own
  BY <1>6 DEF GraphsOf, Undone
<1>11. Spans(f, Top)
  BY <1>4, <1>5, <1>6, <1>10 DEF Spans
<1> QED
  BY <1>1, <1>5, <1>6, <1>7, <1>8, <1>9, <1>10, <1>11, GoesStill

LEMMA OptimizeNestedLegal ==
  ASSUME LegalInv, Typed', OptimizeNested
  PROVE  StackInv' /\ DoneInv'
<1>1. /\ Typed /\ StackInv /\ DoneInv /\ frames # <<>> /\ Still
      /\ Top.fn = "optimize" /\ Top.at = "nested" /\ ~Failing
  BY UnsolvedStill DEF LegalInv, OptimizeNested, At, Failing
<1>2. Undone(Top) = {}
  BY <1>1 DEF Undone
<1>3. CASE Top.sat = {} \/ ret.sat = {}
  <2> DEFINE sat == Top.sat \union ret.sat
  <2>1. Returns(TRUE, sat)
    BY <1>3 DEF OptimizeNested
  <2> HIDE DEF sat
  <2>2. sat \in SUBSET Edge
    BY <2>1, ReturnsSets
  <2> QED
    BY <1>1, <1>2, <2>1, <2>2, ReturnsStill
<1>4. CASE ~(Top.sat = {} \/ ret.sat = {})
  <2>1. PICK t : t = Top
    OBVIOUS
  <2>0. PICK sat : sat = Top.sat \union ret.sat
    OBVIOUS
  <2> DEFINE d == t.d
             m == t.maxDepth
             b == Backup(t)
             f == optimizeSatDep(t.g, d, m, sat, t.backup)
  <2>2. FrameInv(t) /\ t \in OptNested
    BY <1>1, <2>1, TopInv, TopIsFrame, FrameKinds
  <2>3. /\ Pending(b, d) /\ Agree(b, {d}) /\ Covers(m, t.g) /\ d \in Nat
    BY <1>1, <2>1, <2>2, LoopAssumption DEF FrameInv, OptNested, Row
  <2>4. GraphsOf(Top) = {b} /\ Top.d = d /\ Goes(f)
    BY <1>1, <1>4, <2>0, <2>1 DEF GraphsOf, OptimizeNested
  <2>5. f.fn = "optimizeSatDep" /\ f.at = "start" /\ f.g = b /\ f.d = d /\ f.maxDepth = m
    BY DEF optimizeSatDep, Backup
  <2>6. b.own = t.g.own
    BY <2>2 DEF Backup, OptNested, GraphType
  <2>7. block' = block /\ block \in Blocks
    BY <1>1 DEF Still, Typed, TypeOK
  <2> HIDE DEF d, b, f, m
  <2>8. f \in FrameType
    BY <1>1, <2>4, GoesToFrame
  <2>9. Pending(b, d)' /\ Agree(b, {d})'
    BY <1>1, <2>3, <2>7, StillKept
  <2>10. Covers(m, b)'
    BY <2>3, <2>6, <2>7 DEF Covers
  <2>11. FrameInv(f)'
    BY <2>5, <2>9, <2>10 DEF FrameInv
  <2>12. GraphsOf(f) = {b}
    BY <2>5 DEF GraphsOf
  <2>13. Spans(f, Top)
    BY <2>3, <2>4, <2>5, <2>12 DEF Spans
  <2>14. Undone(Top) \subseteq Undone(f) /\ f.at # "nested"
    BY <1>2, <2>5
  <2> QED
    BY <1>1, <2>4, <2>8, <2>11, <2>13, <2>14, GoesStill
<1> QED
  BY <1>3, <1>4

LEMMA OptimizeNestedFailedLegal ==
  ASSUME LegalInv, Typed', OptimizeNestedFailed
  PROVE  StackInv' /\ DoneInv'
<1>1. /\ Typed /\ StackInv /\ DoneInv /\ frames # <<>>
      /\ Top.fn = "optimize" /\ Top.at = "nested"
      /\ Goes(breakGraph(Top.g, Top.d)) /\ Abandons(Top.g)
      /\ dropped' = dropped \union (Top.backup \ Top.g.activeEdges)
  BY DEF LegalInv, OptimizeNestedFailed, At
<1>2. PICK t : t = Top
  OBVIOUS
<1> DEFINE g == t.g
           d == t.d
           b == Backup(t)
           f == breakGraph(g, d)
<1>3. FrameInv(t) /\ t \in OptNested
  BY <1>1, <1>2, TopInv, TopIsFrame, FrameKinds
<1>4. Pending(b, d) /\ g.activeEdges \subseteq t.backup /\ d \in Nat
  BY <1>1, <1>2, <1>3, LoopAssumption DEF FrameInv, OptNested, Row
<1>5. b.own = g.own /\ b.activeEdges = t.backup
  BY <1>3 DEF Backup, OptNested, GraphType
<1>6. /\ GraphsOf(Top) = {b} /\ Undone(Top) = {} /\ Goes(f) /\ Top.d = d /\ Top.g = g
      /\ Abandons(g) /\ dropped' = dropped \union (t.backup \ g.activeEdges)
  BY <1>1, <1>2 DEF GraphsOf, Undone
<1>7. f.fn = "breakGraph" /\ f.at = "start" /\ f.g = g /\ f.d = d
  BY DEF breakGraph
<1>8. Still /\ block \in Blocks /\ block' = block
  BY <1>1, AbandonsStill DEF Typed, TypeOK, Still
<1> HIDE DEF g, d, b, f
<1>9. f \in FrameType
  BY <1>1, <1>6, GoesToFrame
<1>10. Pending(b, d)'
  BY <1>4, <1>8, StillKept
<1>11. Open(g) = Open(b) \intersect g.activeEdges /\ Open(g)' = Open(g) /\ Open(b)' = Open(b)
  BY <1>4, <1>5, <1>8, SameEnds DEF Open, Owned
<1>12. Pending(g, d)'
  <2> SUFFICES ASSUME NEW e \in Edge, Touches(e, g.own)', Clean(e, d)'
               PROVE  /\ e \in Open(g) => Sound(e, d)'
                      /\ e \notin Open(g) => e \in dropped' \/ Settled(e, d)'
    BY <1>11 DEF Pending
  <2>1. Touches(e, b.own)'
    BY <1>5
  <2>2. e \in Open(b) => Sound(e, d)'
    BY <1>10, <1>11, <2>1 DEF Pending
  <2>3. e \notin Open(b) => e \in dropped' \/ Settled(e, d)'
    BY <1>10, <1>11, <2>1 DEF Pending
  <2>4. e \in Open(b) /\ e \notin Open(g) => e \in dropped'
    BY <1>5, <1>6, <1>11 DEF Open
  <2> QED
    BY <1>11, <2>2, <2>3, <2>4
<1>13. Fresh(g, d)'
  <2> SUFFICES ASSUME NEW e \in Open(g) PROVE Truthful(e, d)'
    BY <1>11 DEF Fresh
  <2>1. e \in g.activeEdges
    BY DEF Open
  <2>2. e \in stale' \/ satLvl'[e][1] = Unset
    BY <1>6, <2>1 DEF Abandons
  <2> QED
    BY <2>2 DEF Truthful
<1>14. FrameInv(f)'
  BY <1>7, <1>12, <1>13 DEF FrameInv
<1>15. GraphsOf(f) = {g} /\ Undone(f) = g.own
  BY <1>7 DEF GraphsOf, Undone
<1>16. Spans(f, Top)
  BY <1>4, <1>5, <1>6, <1>7, <1>15 DEF Spans
<1> QED
  BY <1>1, <1>6, <1>7, <1>8, <1>9, <1>14, <1>15, <1>16, GoesStill

LEMMA SatDepSolvedLegal ==
  ASSUME LegalInv, Typed', SatDepSolved
  PROVE  StackInv' /\ DoneInv'
<1>1. /\ Typed /\ StackInv /\ DoneInv /\ frames # <<>> /\ TypeOK
      /\ Top.fn = "optimizeSatDep" /\ Top.at = "start" /\ ~Failing
  BY DEF LegalInv, SatDepSolved, At, Failing, Typed
<1>2. PICK t : t = Top
  OBVIOUS
<1> DEFINE g == t.g
           d == t.d
           m == t.maxDepth
           edges == getEdges(g, d)
           levels == [e \in Edge |-> IF e \in edges THEN stashSatLevel(satLvl[e]) ELSE satLvl[e]]
           flags == [n \in Node |-> {k \in carried[n] : k < d}]
<1>3. FrameInv(t) /\ t \in SatStart
  BY <1>1, <1>2, TopInv, TopIsFrame, FrameKinds
<1>4. Pending(g, d) /\ Agree(g, {d}) /\ Covers(m, g)
  BY <1>1, <1>2, <1>3 DEF FrameInv
<1>5. /\ g \in GraphType /\ d \in Row /\ d \in Nat /\ d <= d + 1
  BY <1>3, LoopAssumption DEF SatStart, Row
<1>6. PICK o \in Outcomes(g, d, TRUE) :
        /\ Solved(g, d, o, levels, flags)
        /\ Calls([fn |-> "optimizeSatDep", at |-> "nested", sat |-> o.deactivated], optimize(After(g, o), d + 1, m))
  BY <1>2 DEF SatDepSolved
<1> DEFINE h == After(g, o)
           f == [fn |-> "optimizeSatDep", at |-> "nested", sat |-> o.deactivated]
           c == optimize(h, d + 1, m)
<1>7. Undone(Top) = {} /\ g \in GraphsOf(Top) /\ d = Top.d /\ GraphsOf(Top) = {g}
  BY <1>1, <1>2 DEF Undone, GraphsOf
<1>8. h.own = g.own /\ h.activeEdges = g.activeEdges \ (o.deactivated \union o.empty)
  BY <1>5, AfterType
<1>9. f.fn = "optimizeSatDep" /\ f.at = "nested"
  OBVIOUS
<1>10. /\ c.fn = "optimize" /\ c.at = "start" /\ c.g = h /\ c.d = d + 1 /\ c.maxDepth = m /\ c.backup = h.activeEdges
  BY DEF optimize
<1>11. o \in OutcomeType /\ o.deactivated = edges /\ o.empty \subseteq edges /\ o.deactivated \intersect o.empty = {}
  BY OutcomesType
<1>12. Solves(g, d, o, levels, flags)
  <2>1. \A e \in Edge : satLvl[e] \in [1 .. SatSlots -> 0 .. 255]
    BY <1>1 DEF TypeOK
  <2>2. \A e \in Edge : stashSatLevel(satLvl[e]) \in [1 .. SatSlots -> 0 .. 255]
    BY <2>1, StashFacts
  <2> HIDE DEF edges
  <2>3. levels \in LevelsType
    BY <2>1, <2>2 DEF LevelsType
  <2>4. \A e \in Edge \ (o.deactivated \union o.empty) : levels[e][1] = satLvl[e][1]
    BY <1>11
  <2> HIDE DEF levels, flags
  <2> QED
    BY <1>6, <1>11, <2>3, <2>4 DEF Solves, edges
<1>13. o.deactivated = getEdges(g, d)
  BY <1>11
<1>14. Calls(f, c)
  BY <1>6
<1> HIDE DEF g, d, m, h, f, c, levels, flags, edges
<1>15. Ready(h, d + 1)'
  <2>1. o \in OutcomeType
    BY <1>11
  <2> QED
    BY <1>1, <1>4, <1>5, <1>12, <1>13, <2>1, SolvedReady DEF h
<1>16. Stable(g.own, g.activeEdges, d) /\ block' = block /\ block \in Blocks
  <2>1. o \in OutcomeType
    BY <1>11
  <2> QED
    BY <1>1, <1>5, <1>12, <2>1, SolvedStable, SolvedSat DEF TypeOK
<1>17. WaitingInv
  BY <1>1, <1>7, <1>16, WaitingStable
<1>18. Covers(m, h)'
  BY <1>4, <1>8, <1>16 DEF Covers
<1>19. f \in FrameType /\ c \in FrameType
  BY <1>1, <1>14, CallsOfFrames
<1>20. FrameInv(f)'
  BY <1>9 DEF FrameInv
<1>21. FrameInv(c)'
  BY <1>10, <1>15, <1>18 DEF FrameInv
<1>22. GraphsOf(f) = {} /\ GraphsOf(c) = {h}
  BY <1>9, <1>10 DEF GraphsOf
<1>23. Spans(f, Top) /\ Spans(c, Top)
  BY <1>5, <1>7, <1>8, <1>9, <1>10, <1>22 DEF Spans
<1>24. Under(c, f)
  BY <1>9 DEF Under
<1>25. StackInv'
  BY <1>1, <1>9, <1>10, <1>14, <1>17, <1>19, <1>20, <1>21, <1>23, <1>24, StackCalls
<1>26. Undone(f) = {} /\ Undone(c) = g.own
  BY <1>8, <1>9, <1>10, <1>22 DEF Undone
<1>27. ASSUME NEW e \in Edge, Finished(e)' PROVE Finished(e) /\ ~Touches(e, g.own)
  BY <1>1, <1>7, <1>14, <1>16, <1>19, <1>26, <1>27, FinishedCalls
<1> QED
  BY <1>1, <1>16, <1>25, <1>27, DoneStep

LEMMA SatDepUnsolvedLegal ==
  ASSUME LegalInv, Typed', SatDepUnsolved
  PROVE  StackInv' /\ DoneInv'
<1>1. /\ Typed /\ StackInv /\ DoneInv /\ frames # <<>> /\ TypeOK
      /\ Top.fn = "optimizeSatDep" /\ ~Failing /\ Returns(TRUE, Top.sat)
  BY DEF LegalInv, SatDepUnsolved, At, Failing, Typed
<1>2. \A e \in Edge : satLvl'[e][1] = satLvl[e][1]
  <2>1. satLvl' = [e \in Edge |-> IF e \in getEdges(Top.g, Top.d)
                                  THEN popSatLevel(stashSatLevel(satLvl[e])) ELSE satLvl[e]]
    BY DEF SatDepUnsolved
  <2>2. \A e \in Edge : satLvl[e] \in [1 .. SatSlots -> 0 .. 255]
    BY <1>1 DEF TypeOK
  <2>3. \A e \in Edge : popSatLevel(stashSatLevel(satLvl[e]))[1] = satLvl[e][1]
    BY <2>2, StashFacts
  <2> QED
    BY <2>1, <2>3
<1>3. Still
  BY <1>2 DEF SatDepUnsolved, Still, history
<1>4. Top.sat \in SUBSET Edge
  BY <1>1, ReturnsSets
<1>5. Undone(Top) = {}
  BY <1>1 DEF Undone
<1> QED
  BY <1>1, <1>3, <1>4, <1>5, ReturnsStill

LEMMA SatDepNestedLegal ==
  ASSUME LegalInv, Typed', SatDepNested
  PROVE  StackInv' /\ DoneInv'
<1> DEFINE sat == Top.sat \union ret.sat
<1>1. /\ Typed /\ StackInv /\ DoneInv /\ frames # <<>> /\ Still
      /\ Top.fn = "optimizeSatDep" /\ ~Failing /\ Returns(TRUE, sat)
  BY UnsolvedStill DEF LegalInv, SatDepNested, At, Failing
<1> HIDE DEF sat
<1>2. sat \in SUBSET Edge
  BY <1>1, ReturnsSets
<1>3. Undone(Top) = {}
  BY <1>1 DEF Undone
<1> QED
  BY <1>1, <1>2, <1>3, ReturnsStill

----------------------------------------------------------------------------
(* The steps of breakGraph.                                                *)

LEMMA BreakReturnsLegal ==
  ASSUME LegalInv, frames # <<>>, Top.fn = "breakGraph", Unsolved, Returns(FALSE, {})
  PROVE  StackInv' /\ DoneInv'
<1> DEFINE sat == {}
           ok == FALSE
<1>1. Typed /\ StackInv /\ DoneInv /\ Still
  BY UnsolvedStill DEF LegalInv
<1>2. Returns(ok, sat) /\ ~ok /\ sat \in SUBSET Edge /\ ok \in BOOLEAN
  OBVIOUS
<1> HIDE DEF sat, ok
<1> QED
  BY <1>1, <1>2, ReturnsStill

\* What is said of a graph is said of its own nodes and its active edges.
LEMMA SameGraph ==
  ASSUME NEW g, NEW h, g.own = h.own, g.activeEdges = h.activeEdges
  PROVE  /\ Owned(g) = Owned(h) /\ Open(g) = Open(h)
         /\ \A d : Pending(g, d) => Pending(h, d)
         /\ \A d : Fresh(g, d) => Fresh(h, d)
<1>1. Owned(g) = Owned(h) /\ Open(g) = Open(h)
  BY DEF Owned, Open
<1> QED
  BY <1>1 DEF Pending, Fresh

LEMMA JointFacts ==
  ASSUME NEW s, NEW K
  PROVE  /\ Joint(s, K).own = UNION {s[k].own : k \in K}
         /\ Joint(s, K).activeEdges = UNION {s[k].activeEdges : k \in K}
         /\ \A k \in K : /\ s[k].own \subseteq Joint(s, K).own
                         /\ s[k].activeEdges \subseteq Joint(s, K).activeEdges
                         /\ Owned(s[k]) \subseteq Owned(Joint(s, K))
                         /\ Open(s[k]) \subseteq Open(Joint(s, K))
<1>1. /\ Joint(s, K).own = UNION {s[k].own : k \in K}
      /\ Joint(s, K).activeEdges = UNION {s[k].activeEdges : k \in K}
  BY DEF Joint
<1>2. \A k \in K : /\ s[k].own \subseteq Joint(s, K).own
                   /\ s[k].activeEdges \subseteq Joint(s, K).activeEdges
  BY <1>1
<1>3. \A k \in K : Owned(s[k]) \subseteq Owned(Joint(s, K))
  BY <1>2 DEF Owned
<1> QED
  BY <1>1, <1>2, <1>3 DEF Open

\* The promise of a row that is solved stays when neither the row nor the levels
\* above it change.
LEMMA RowSolvedKept ==
  ASSUME block \in Blocks, NEW N, NEW B, NEW d \in Row, Stable(N, B, d), NEW h, NEW A, RowSolved(h, A, d),
         \A e \in Owned(h) \intersect A :
           /\ ~Live(e, N, B, d)
           /\ RowKept(e, d)' => RowKept(e, d) /\ (d < block.edgeLoops[e] => sign'[e][d] = sign[e][d])
  PROVE  RowSolved(h, A, d)'
<1>1. block' = block /\ Owned(h)' = Owned(h) /\ d \in Int /\ d <= d
  BY SameEnds, LoopAssumption DEF Stable, Row
<1> SUFFICES ASSUME NEW e \in Owned(h) \intersect A
             PROVE  /\ e \notin h.activeEdges => d < block.edgeLoops[e]
                    /\ d < block.edgeLoops[e] /\ RowKept(e, d)' =>
                         sign'[e][d] # "bad" /\ (e \notin h.activeEdges => sign'[e][d] # "zero")
                    /\ Clean(e, d)' /\ RowKept(e, d)' =>
                         Truthful(e, d)' \/ (d < block.edgeLoops[e] /\ d <= satLevel(e)' /\ sign'[e][d] # "zero")
  BY <1>1 DEF RowSolved
<1>2. /\ ~Live(e, N, B, d) /\ e \in Edge
      /\ RowKept(e, d)' => RowKept(e, d) /\ (d < block.edgeLoops[e] => sign'[e][d] = sign[e][d])
  BY DEF Owned
<1>3. /\ e \notin h.activeEdges => d < block.edgeLoops[e]
      /\ d < block.edgeLoops[e] /\ RowKept(e, d) =>
           sign[e][d] # "bad" /\ (e \notin h.activeEdges => sign[e][d] # "zero")
      /\ Clean(e, d) /\ RowKept(e, d) =>
           Truthful(e, d) \/ (d < block.edgeLoops[e] /\ d <= satLevel(e) /\ sign[e][d] # "zero")
  BY DEF RowSolved
<1>4. ASSUME Clean(e, d)', RowKept(e, d)'
      PROVE  Truthful(e, d)' \/ (d < block.edgeLoops[e] /\ d <= satLevel(e)' /\ sign'[e][d] # "zero")
  <2>1. Clean(e, d) /\ \A r \in 0 .. MaxLoops : r < d => SameAt(e, r)
    BY <1>1, <1>2, <1>4, AboveKept
  <2>2. SameLevel(e)
    BY <1>2 DEF Stable
  <2>3. CASE Truthful(e, d)
    BY <1>1, <1>2, <2>1, <2>2, <2>3, EdgeKept
  <2>4. CASE d < block.edgeLoops[e] /\ d <= satLevel(e) /\ sign[e][d] # "zero"
    <3>1. CASE e \in stale'
      BY <3>1 DEF Truthful
    <3>2. CASE satLvl'[e][1] = satLvl[e][1]
      <4>1. satLevel(e)' = satLevel(e)
        BY <3>2 DEF satLevel
      <4> QED
        BY <1>2, <1>4, <2>4, <4>1
    <3> QED
      BY <2>2, <3>1, <3>2 DEF SameLevel
  <2> QED
    BY <1>2, <1>3, <1>4, <2>1, <2>3, <2>4
<1> QED
  BY <1>2, <1>3, <1>4

\* A step within the graphs of a split; those in S2 are solved after it.
LEMMA PartsKept ==
  ASSUME block \in Blocks, NEW N, NEW A, NEW d \in Row, Stable(N, A, d), NEW s, NEW s2, NEW K, NEW S, NEW S2,
         Parts(s, K, S, d), S \subseteq S2,
         \A k \in K : s2[k].own = s[k].own /\ s2[k].nodeIds = s[k].nodeIds,
         Joint(s2, K).activeEdges = Joint(s, K).activeEdges,
         \A k \in K : \A e \in Joint(s, K).activeEdges \ s2[k].activeEdges : Within(e, s[k].nodeIds),
         \A k \in S : Owned(s2[k]) = Owned(s[k]),
         \A e \in Edge : Live(e, N, A, d) => e \in Open(Joint(s, K)) /\ \E k \in S2 : e \in Owned(s2[k]),
         \A k \in S2 : RowSolved(s2[k], Joint(s, K).activeEdges, d)'
  PROVE  Parts(s2, K, S2, d)'
<1> DEFINE w == Joint(s, K)
           v == Joint(s2, K)
<1>1. block' = block /\ Open(w)' = Open(w) /\ d \in Int /\ d <= d
      /\ (\A e : In(e)' = In(e) /\ Out(e)' = Out(e))
      /\ (\A g : Owned(g)' = Owned(g))
      /\ (\A e, M : Within(e, M)' <=> Within(e, M))
  BY SameEnds, LoopAssumption DEF Stable, Row
<1>2. /\ Pending(w, d)
      /\ \A e \in Open(w) : Clean(e, d) => Truthful(e, d) \/ \E k \in S : e \in Owned(s[k])
      /\ \A j, k \in K : j < k => /\ s[j].nodeIds \intersect s[k].nodeIds = {}
                                  /\ \A e \in Edge : ~(In(e) \in s[k].own /\ Out(e) \in s[j].own)
  BY DEF Parts
<1>3. \A e \in Open(w) : e \in Edge
  BY DEF Open, Owned
<1>0. v.own = w.own /\ v.activeEdges = w.activeEdges /\ v' = v
  BY DEF Joint
<1>10. v = w
  BY <1>0 DEF Joint
<1> HIDE DEF w, v
<1>4. Pending(w, d)'
  BY <1>1, <1>2, PendingKept DEF w
<1>5. ASSUME NEW e \in Open(w), Clean(e, d)' PROVE Truthful(e, d)' \/ \E k \in S2 : e \in Owned(s2[k])
  <2>1. CASE Live(e, N, A, d)
    BY <1>3, <2>1
  <2>2. CASE ~Live(e, N, A, d)
    <3>1. Clean(e, d)
      BY <1>1, <1>3, <1>5, AboveKept
    <3>2. CASE Truthful(e, d)
      BY <1>1, <1>3, <1>5, <2>2, <3>2, TruthfulKept
    <3> QED
      BY <1>2, <3>1, <3>2
  <2> QED
    BY <2>1, <2>2
<1>6. \A k \in K : \A e \in w.activeEdges \ s2[k].activeEdges : Within(e, s2[k].nodeIds)'
  BY <1>1, <1>2 DEF w
<1>7. \A j, k \in K : j < k => /\ s2[j].nodeIds \intersect s2[k].nodeIds = {}
                               /\ \A e \in Edge : ~(In(e)' \in s2[k].own /\ Out(e)' \in s2[j].own)
  BY <1>1, <1>2
<1>8. Joint(s2, K)' = w /\ w' = w
  BY <1>0, <1>10 DEF v
<1>9. \A k \in S2 : RowSolved(s2[k], w.activeEdges, d)'
  BY DEF w
<1> QED
  BY <1>1, <1>4, <1>5, <1>6, <1>7, <1>8, <1>9 DEF Parts

LEMMA PartsStill ==
  ASSUME block \in Blocks, Still, NEW d \in Row, NEW s, NEW K, NEW S, Parts(s, K, S, d)
  PROVE  Parts(s, K, S, d)'
<1> DEFINE N == {}
           w == Joint(s, K)
<1>1. Stable(N, N, d) /\ \A e \in Edge : ~Live(e, N, N, d)
  BY StillStable DEF Live
<1>2. /\ \A k \in K : \A e \in w.activeEdges \ s[k].activeEdges : Within(e, s[k].nodeIds)
      /\ \A k \in S : RowSolved(s[k], w.activeEdges, d)
  BY DEF Parts
<1>3. \A e \in Edge : \A r : (RowKept(e, r)' <=> RowKept(e, r)) /\ sign'[e][r] = sign[e][r]
  BY DEF RowKept, Still, In, Out
<1> HIDE DEF N, w
<1>4. ASSUME NEW k \in S PROVE RowSolved(s[k], w.activeEdges, d)'
  <2> DEFINE h == s[k]
             A == w.activeEdges
  <2>1. RowSolved(h, A, d) /\ \A e \in Owned(h) \intersect A : e \in Edge
    BY <1>2 DEF Owned
  <2> HIDE DEF h, A
  <2>2. RowSolved(h, A, d)'
    BY <1>1, <1>3, <2>1, RowSolvedKept
  <2> QED
    BY <2>2 DEF h, A
<1> QED
  BY <1>1, <1>2, <1>4, PartsKept DEF w

\* The frames of breakGraph that solve and fuse keep what they know.
LEMMA SplitStill ==
  ASSUME block \in Blocks, Still, NEW f \in FrameType, f.at \in {"solve", "fuse"}, FrameInv(f)
  PROVE  FrameInv(f)'
<1>1. block' = block
  BY DEF Still
<1>2. CASE f.at = "solve"
  <2> DEFINE s == f.graphs
             d == f.d
             K == 1 .. Len(s)
             S == (1 .. f.i - 1) \intersect (1 .. Len(s))
  <2>1. f \in BreakSolve
    BY <1>2, FrameNames, FrameKinds
  <2>2. d \in Row
    BY <2>1, SolvingFrame
  <2>3. /\ Len(s) > 1 /\ Parts(s, K, S, d)
        /\ \A k \in f.i .. Len(s) : s[k].activeEdges = Joint(s, K).activeEdges
    BY <1>2, <2>1, SolvingFrame DEF FrameInv
  <2> HIDE DEF s, d, K, S
  <2>4. Parts(s, K, S, d)'
    BY <2>2, <2>3, PartsStill
  <2>5. Joint(s, K)' = Joint(s, K)
    BY DEF Joint
  <2> QED
    BY <1>2, <2>3, <2>4, <2>5 DEF FrameInv, s, d, K, S
<1>3. CASE f.at = "fuse"
  <2> DEFINE s == f.graphs
             d == f.d
             K == Unfused(f)
  <2>1. f \in BreakFusing
    BY <1>3, FrameNames, FrameKinds
  <2>2. d \in Row /\ d \in Nat
    <3>1. d \in Row
      BY <2>1, FusingFrame
    <3> QED
      BY <3>1, LoopAssumption DEF Row
  <2>3. /\ Parts(s, K, K, d)
        /\ \A j \in 1 .. Len(f.bases) : f.bases[j] < f.i /\ \A k \in 1 .. j - 1 : f.bases[k] < f.bases[j]
        /\ \A j \in 1 .. Len(f.bases) - 1 : Closed(s[f.bases[j]], j - 1, d)
    BY <1>3, <2>1, FusingFrame DEF FrameInv
  <2> HIDE DEF s, d, K
  <2>4. Parts(s, K, K, d)'
    BY <2>2, <2>3, PartsStill
  <2>5. ASSUME NEW j \in 1 .. Len(f.bases) - 1 PROVE Closed(s[f.bases[j]], j - 1, d)'
    <3> DEFINE h == s[f.bases[j]]
               o == j - 1
               L == d + 1 .. MaxLoops
    <3>1. Closed(h, o, d)
      BY <2>3
    <3> HIDE DEF h, o
    <3>2. Agree(h, L)'
      <4>1. Agree(h, L)
        BY <3>1 DEF Closed
      <4> HIDE DEF L
      <4> QED
        BY <2>2, <4>1, StillKept
    <3>3. Closed(h, o, d)'
      BY <1>1, <3>1, <3>2 DEF Closed, Still
    <3> QED
      BY <3>3 DEF h, o
  <2>6. Unfused(f)' = K
    BY DEF K, Unfused
  <2> QED
    BY <1>3, <2>3, <2>4, <2>5, <2>6 DEF FrameInv, s, d
<1> QED
  BY <1>2, <1>3

LEMMA BreakSplitLegal ==
  ASSUME LegalInv, Typed', BreakSplit
  PROVE  StackInv' /\ DoneInv'
<1>1. /\ Typed /\ StackInv /\ DoneInv /\ frames # <<>> /\ Still /\ block \in Blocks
      /\ Top.fn = "breakGraph" /\ Top.at = "start" /\ ~Failing
      /\ Cardinality(SCCs(Top.g.nodeIds)) > 1
  BY UnsolvedStill DEF LegalInv, BreakSplit, At, Failing, Typed, TypeOK
<1>2. PICK t : t = Top
  OBVIOUS
<1> DEFINE g == t.g
           d == t.d
<1>3. FrameInv(t) /\ t \in BreakStart
  BY <1>1, <1>2, TopInv, TopIsFrame, FrameKinds
<1>4. Pending(g, d) /\ Fresh(g, d) /\ g \in GraphType /\ d \in Row /\ d <= d
  BY <1>1, <1>2, <1>3, LoopAssumption DEF FrameInv, BreakStart, Row
<1>5. PICK s \in stronglyConnectedComponents(g) :
        Goes([fn |-> "breakGraph", at |-> "solve", d |-> d, sat |-> {}, i |-> 1, graphs |-> Split(g, s)])
  BY <1>2 DEF BreakSplit, Split
<1>6. PICK gs : gs = Split(g, s)
  OBVIOUS
<1> DEFINE n == Len(gs)
           K == 1 .. n
           w == Joint(gs, K)
           f == [fn |-> "breakGraph", at |-> "solve", d |-> d, sat |-> {}, i |-> 1, graphs |-> gs]
           C == SCCs(g.nodeIds)
<1>7. /\ gs \in Seq(GraphType) /\ n = Cardinality(C) /\ n > 1 /\ n \in Nat /\ DOMAIN s = K
      /\ \A k \in K : /\ gs[k].nodeIds = s[k] /\ s[k] \in C
                      /\ gs[k].own = g.own \intersect s[k]
                      /\ gs[k].activeEdges = g.activeEdges
  <2>1. /\ gs \in Seq(GraphType) /\ n = Cardinality(C) /\ DOMAIN s = K
        /\ \A k \in K : /\ gs[k].nodeIds = s[k] /\ s[k] \in C
                        /\ gs[k].own = g.own \intersect s[k]
                        /\ gs[k].activeEdges = g.activeEdges
    BY <1>1, <1>4, <1>6, SplitType
  <2> QED
    BY <1>1, <1>2, <2>1
<1>8. /\ C = {s[k] : k \in DOMAIN s}
      /\ \A i, j \in DOMAIN s : /\ s[i] = s[j] => i = j
                                /\ i < j => \A e \in Edge : ~(In(e) \in s[j] /\ Out(e) \in s[i])
  BY DEF stronglyConnectedComponents
<1>9. /\ \A a, b \in C : a \intersect b # {} => a = b
      /\ \A m \in g.nodeIds : \E a \in C : m \in a
      /\ g.own \subseteq g.nodeIds
  <2>1. g.nodeIds \in SUBSET Node /\ g.own \subseteq g.nodeIds
    BY <1>4 DEF GraphType
  <2> HIDE DEF g
  <2> QED
    BY <1>1, <2>1, ComponentFacts
<1>10. GraphsOf(Top) = {g} /\ Undone(Top) = g.own /\ Goes(f) /\ Top.d = d
  BY <1>1, <1>2, <1>5, <1>6 DEF GraphsOf, Undone
<1>11. f.fn = "breakGraph" /\ f.at = "solve" /\ f.d = d /\ f.i = 1 /\ f.graphs = gs
  OBVIOUS
<1> HIDE DEF g, d, n, K, f, C
<1>12. 1 \in K /\ \A j, k \in K : j < k => j # k
  BY <1>7 DEF K
<1>13. w.own = g.own /\ w.activeEdges = g.activeEdges
  <2>1. \A m \in g.own : \E k \in K : m \in s[k]
    BY <1>7, <1>8, <1>9
  <2>2. UNION {gs[k].own : k \in K} = g.own
    BY <1>7, <2>1
  <2>3. UNION {gs[k].activeEdges : k \in K} = g.activeEdges
    BY <1>7, <1>12
  <2> QED
    BY <2>2, <2>3 DEF Joint
<1>14. \A j, k \in K : j < k => /\ gs[j].nodeIds \intersect gs[k].nodeIds = {}
                                /\ \A e \in Edge : ~(In(e) \in gs[k].own /\ Out(e) \in gs[j].own)
  BY <1>7, <1>8, <1>9, <1>12
<1>15. Parts(gs, K, {}, d)
  <2>1. \A k \in K : w.activeEdges \ gs[k].activeEdges = {}
    BY <1>7, <1>13
  <2> HIDE DEF w
  <2>2. Pending(w, d) /\ Fresh(w, d)
    BY <1>4, <1>13, SameGraph
  <2> QED
    BY <1>14, <2>1, <2>2 DEF Parts, w, Fresh
<1>16. FrameInv(f)
  <2>1. (1 .. f.i - 1) \intersect (1 .. Len(gs)) = {}
    BY <1>11
  <2>2. \A k \in f.i .. Len(f.graphs) : k \in K
    BY <1>7, <1>11 DEF K, n
  <2> QED
    BY <1>7, <1>11, <1>13, <1>15, <2>1, <2>2 DEF FrameInv, K, n
<1>17. f \in FrameType
  BY <1>1, <1>10, GoesToFrame
<1>18. FrameInv(f)'
  BY <1>1, <1>11, <1>16, <1>17, SplitStill
<1>19. GraphsOf(f) = {gs[k] : k \in K}
  BY <1>11 DEF GraphsOf, K, n
<1>20. Undone(f) = w.own
  BY <1>11, <1>19 DEF Undone, Joint
<1>21. Spans(f, Top)
  BY <1>4, <1>7, <1>10, <1>11, <1>19 DEF Spans
<1> QED
  BY <1>1, <1>10, <1>11, <1>13, <1>17, <1>18, <1>20, <1>21, GoesStill

\* The frame of breakGraph that is solving its graphs.
LEMMA SolveTop ==
  ASSUME LegalInv, At("breakGraph", "solve"), NEW t, t = Top
  PROVE  LET s == t.graphs
             n == Len(t.graphs)
             K == 1 .. Len(t.graphs)
             S == (1 .. t.i - 1) \intersect (1 .. Len(t.graphs))
         IN  /\ Typed /\ StackInv /\ DoneInv /\ frames # <<>> /\ block \in Blocks /\ ~Failing
             /\ Top.fn = "breakGraph" /\ Top.at = "solve" /\ t \in BreakSolve /\ t \in FrameType
             /\ t.d \in Row /\ t.d \in Nat /\ t.i \in Nat \ {0} /\ s \in Seq(GraphType) /\ n \in Nat /\ n > 1
             /\ \A k \in K : s[k] \in GraphType
             /\ Parts(s, K, S, t.d)
             /\ \A k \in t.i .. n : s[k].activeEdges = Joint(s, K).activeEdges
             /\ GraphsOf(Top) = {s[k] : k \in K} /\ Undone(Top) = Joint(s, K).own
<1>1. /\ Typed /\ StackInv /\ DoneInv /\ frames # <<>> /\ block \in Blocks /\ ~Failing
      /\ Top.fn = "breakGraph" /\ Top.at = "solve"
  BY DEF LegalInv, At, Failing, Typed, TypeOK
<1>2. FrameInv(t) /\ t \in BreakSolve /\ t \in FrameType
  BY <1>1, TopInv, TopIsFrame, FrameKinds
<1>3. t.d \in Row /\ t.i \in Nat \ {0} /\ t.graphs \in Seq(GraphType) /\ Len(t.graphs) \in Nat
  BY <1>2, SolvingFrame
<1>4. /\ Len(t.graphs) > 1
      /\ Parts(t.graphs, 1 .. Len(t.graphs), (1 .. t.i - 1) \intersect (1 .. Len(t.graphs)), t.d)
      /\ \A k \in t.i .. Len(t.graphs) : t.graphs[k].activeEdges = Joint(t.graphs, 1 .. Len(t.graphs)).activeEdges
  BY <1>1, <1>2 DEF FrameInv
<1>5. GraphsOf(Top) = {t.graphs[k] : k \in 1 .. Len(t.graphs)}
  BY <1>1 DEF GraphsOf
<1>6. Undone(Top) = Joint(t.graphs, 1 .. Len(t.graphs)).own
  BY <1>1, <1>5 DEF Undone, Joint
<1>7. \A k \in 1 .. Len(t.graphs) : t.graphs[k] \in GraphType
  BY <1>3, ElementOfSeq
<1>8. t.d \in Nat
  BY <1>3, LoopAssumption DEF Row
<1> QED
  BY <1>1, <1>2, <1>3, <1>4, <1>5, <1>6, <1>7, <1>8

LEMMA BreakSkipLegal ==
  ASSUME LegalInv, Typed', BreakSkip
  PROVE  StackInv' /\ DoneInv'
<1>1. PICK t : t = Top
  OBVIOUS
<1> DEFINE s == t.graphs
           n == Len(s)
           K == 1 .. n
           i == t.i
           d == t.d
           S == (1 .. i - 1) \intersect K
           w == Joint(s, K)
           f == [t EXCEPT !.i = i + 1]
           S2 == (1 .. f.i - 1) \intersect K
           g == s[i]
<1>2. /\ Typed /\ StackInv /\ DoneInv /\ frames # <<>> /\ block \in Blocks /\ ~Failing
      /\ Top.fn = "breakGraph" /\ Top.at = "solve" /\ t \in BreakSolve /\ t \in FrameType
      /\ d \in Row /\ d \in Nat /\ i \in Nat \ {0} /\ s \in Seq(GraphType) /\ n \in Nat /\ n > 1
      /\ \A k \in K : s[k] \in GraphType
      /\ Parts(s, K, S, d)
      /\ \A k \in i .. n : s[k].activeEdges = w.activeEdges
      /\ GraphsOf(Top) = {s[k] : k \in K} /\ Undone(Top) = w.own
  <2>1. At("breakGraph", "solve")
    BY DEF BreakSkip
  <2> QED
    BY <1>1, <2>1, SolveTop
<1>3. Goes(f) /\ Still /\ i <= n /\ d >= calcMaxDepth(g) /\ i \in K
  BY <1>1, <1>2, UnsolvedStill DEF BreakSkip, Graphs
<1>4. /\ f.fn = "breakGraph" /\ f.at = "solve" /\ f.d = d /\ f.i = i + 1 /\ f.graphs = s
  BY <1>1, <1>2 DEF BreakSolve
<1>5. S2 = S \union {i}
  BY <1>2, <1>3, <1>4
<1>6. \A k \in f.i .. n : k \in i .. n
  BY <1>2, <1>4
<1>7. GraphsOf(f) = {s[k] : k \in K} /\ Undone(f) = w.own
  BY <1>4 DEF GraphsOf, Undone, Joint
<1>8. d <= d /\ s[i] \in GraphsOf(Top) /\ d = Top.d
  BY <1>1, <1>2, <1>3
<1> HIDE DEF s, n, i, d, S, S2, w, f, K, g
<1>9. RowSolved(g, w.activeEdges, d)
  <2> SUFFICES ASSUME NEW e \in Owned(g) \intersect w.activeEdges
               PROVE  /\ e \in g.activeEdges /\ ~(d < block.edgeLoops[e])
                      /\ Clean(e, d) => Truthful(e, d)
    BY DEF RowSolved
  <2>1. e \in g.activeEdges
    <3>1. i \in i .. n
      BY <1>2, <1>3 DEF K
    <3> QED
      BY <1>2, <3>1 DEF g
  <2>2. e \in Edge /\ In(e) \in g.nodeIds /\ block.edgeLoops[e] <= block.nodeLoops[In(e)]
    <3>1. g \in GraphType
      BY <1>2, <1>3 DEF g
    <3> QED
      BY <1>2, <3>1, EdgeNumbers DEF Owned, GraphType
  <2>3. block.edgeLoops[e] <= d
    <3>1. g \in GraphType
      BY <1>2, <1>3 DEF g
    <3>2. block.nodeLoops[In(e)] <= calcMaxDepth(g) /\ calcMaxDepth(g) \in 1 .. MaxLoops
      BY <1>2, <2>2, <3>1, MaxDepthFacts
    <3>3. block.nodeLoops[In(e)] \in Int /\ block.edgeLoops[e] \in Int
      BY <1>2, <2>2, BlockFacts, EdgeNumbers
    <3> QED
      BY <1>2, <1>3, <2>2, <3>2, <3>3
  <2>4. e \in Open(w) /\ Touches(e, w.own)
    BY <1>3, JointFacts DEF g, w, Open, Owned, Touches
  <2>5. Clean(e, d) => Truthful(e, d)
    <3>1. Pending(w, d)
      BY <1>2 DEF Parts, w
    <3> QED
      BY <2>2, <2>3, <2>4, <3>1 DEF Pending, Sound
  <2> QED
    BY <1>2, <2>1, <2>2, <2>3, <2>5, EdgeNumbers
<1>10. Parts(s, K, S2, d)
  <2>1. \A k \in S2 : RowSolved(s[k], w.activeEdges, d)
    BY <1>2, <1>5, <1>9 DEF Parts, w, g
  <2> QED
    BY <1>2, <1>5, <2>1 DEF Parts, w
<1>11. FrameInv(f)
  BY <1>2, <1>4, <1>6, <1>10 DEF FrameInv, S2, K, n, w
<1>12. f \in FrameType
  BY <1>2, <1>3, GoesToFrame
<1>13. FrameInv(f)'
  BY <1>2, <1>3, <1>4, <1>11, <1>12, SplitStill
<1>14. Spans(f, Top)
  BY <1>2, <1>4, <1>7, <1>8 DEF Spans
<1> QED
  BY <1>2, <1>3, <1>4, <1>7, <1>12, <1>13, <1>14, GoesStill

LEMMA BreakAllSolvedLegal ==
  ASSUME LegalInv, Typed', BreakAllSolved
  PROVE  StackInv' /\ DoneInv'
<1>1. PICK t : t = Top
  OBVIOUS
<1> DEFINE s == t.graphs
           n == Len(s)
           K == 1 .. n
           i == t.i
           d == t.d
           S == (1 .. i - 1) \intersect K
           w == Joint(s, K)
           f == [fn |-> "breakGraph", at |-> "fuse", d |-> d, sat |-> t.sat, graphs |-> s, i |-> 2, bases |-> <<1>>]
<1>2. /\ Typed /\ StackInv /\ DoneInv /\ frames # <<>> /\ block \in Blocks /\ ~Failing
      /\ Top.fn = "breakGraph" /\ Top.at = "solve"
      /\ d \in Row /\ d \in Nat /\ i \in Nat \ {0} /\ s \in Seq(GraphType) /\ n \in Nat /\ n > 1
      /\ Parts(s, K, S, d)
      /\ GraphsOf(Top) = {s[k] : k \in K} /\ Undone(Top) = w.own
  <2>1. At("breakGraph", "solve")
    BY DEF BreakAllSolved
  <2> QED
    BY <1>1, <2>1, SolveTop
<1>3. Goes(f) /\ Still /\ i > n
  BY <1>1, UnsolvedStill DEF BreakAllSolved, Graphs
<1>4. /\ f.fn = "breakGraph" /\ f.at = "fuse" /\ f.d = d /\ f.i = 2 /\ f.graphs = s
      /\ Len(f.bases) = 1 /\ f.bases[1] = 1
  OBVIOUS
<1>5. S = K
  BY <1>2, <1>3
<1>6. Unfused(f) = K
  <2>1. {f.bases[k] : k \in 1 .. Len(f.bases)} = {1}
    BY <1>4
  <2>2. {1} \union (f.i .. Len(f.graphs)) = K
    BY <1>2, <1>4
  <2> QED
    BY <2>1, <2>2 DEF Unfused
<1>8. d <= d /\ s[1] \in GraphsOf(Top) /\ d = Top.d
  <2>1. 1 \in K
    BY <1>2
  <2> QED
    BY <1>1, <1>2, <2>1
<1> HIDE DEF s, n, i, d, S, w, f, K
<1>7. GraphsOf(f) = {s[k] : k \in K} /\ Undone(f) = w.own
  BY <1>4, <1>6 DEF GraphsOf, Undone, Joint, w
<1>9. FrameInv(f)
  <2>1. \A j \in 1 .. Len(f.bases) : f.bases[j] < f.i /\ \A k \in 1 .. j - 1 : f.bases[k] < f.bases[j]
    BY <1>4
  <2>2. 1 .. Len(f.bases) - 1 = {}
    BY <1>4
  <2>3. Parts(f.graphs, Unfused(f), Unfused(f), f.d)
    BY <1>2, <1>4, <1>5, <1>6
  <2> QED
    BY <1>4, <2>1, <2>2, <2>3 DEF FrameInv
<1>10. f \in FrameType
  BY <1>2, <1>3, GoesToFrame
<1>11. FrameInv(f)'
  BY <1>2, <1>3, <1>4, <1>9, <1>10, SplitStill
<1>12. Spans(f, Top)
  BY <1>2, <1>4, <1>7, <1>8 DEF Spans
<1> QED
  BY <1>2, <1>3, <1>4, <1>7, <1>10, <1>11, <1>12, GoesStill

\* The graph b of a split takes in the graph i, with the order and what is solved.
LEMMA FuseParts ==
  ASSUME block \in Blocks, NEW d \in Row, NEW K \in SUBSET Int, NEW b \in K, NEW i \in K, b < i,
         NEW s, \A k \in K : s[k] \in GraphType, Parts(s, K, K, d), canFuse(s[b], s[i], d),
         NEW s2, s2[b] = Merged(s[b], s[i]),
         \A k \in K \ {i} : k # b => s2[k] = s[k] /\ (k < b \/ k > i)
  PROVE  Joint(s2, K \ {i}) = Joint(s, K) /\ Parts(s2, K \ {i}, K \ {i}, d)
<1> DEFINE K2 == K \ {i}
           w == Joint(s, K)
           v == Joint(s2, K2)
           g == s[b]
           h == s[i]
           m == Merged(g, h)
<1>1. /\ m.nodeIds = g.nodeIds \union h.nodeIds /\ m.own = g.own \union h.own
      /\ m.activeEdges = g.activeEdges \union h.activeEdges
  BY DEF Merged
<1>2. b \in K2 /\ s2[b] = m /\ b # i /\ K2 \subseteq K /\ d \in Int /\ K2 \subseteq Int
  <2>1. b \in Int /\ i \in Int
    OBVIOUS
  <2>2. d \in Int
    BY LoopAssumption DEF Row
  <2>3. b # i
    BY <2>1
  <2> QED
    BY <2>2, <2>3
<1>3. v = w
  <2>1. v.own = w.own /\ v.activeEdges = w.activeEdges
    <3>1. \A k \in K2 : k = b \/ s2[k] = s[k]
      OBVIOUS
    <3>2. \A k \in K : k = i \/ k \in K2
      OBVIOUS
    <3>3. v.own = UNION {s2[k].own : k \in K2} /\ w.own = UNION {s[k].own : k \in K}
      BY JointFacts
    <3>4. v.activeEdges = UNION {s2[k].activeEdges : k \in K2} /\ w.activeEdges = UNION {s[k].activeEdges : k \in K}
      BY JointFacts
    <3>5. m.own = s[b].own \union s[i].own /\ m.activeEdges = s[b].activeEdges \union s[i].activeEdges
      BY <1>1
    <3> HIDE DEF K2, m, v, w
    <3>6. v.own = w.own
      BY <1>2, <3>1, <3>2, <3>3, <3>5
    <3>7. v.activeEdges = w.activeEdges
      BY <1>2, <3>1, <3>2, <3>4, <3>5
    <3> QED
      BY <3>6, <3>7
  <2> QED
    BY <2>1 DEF Joint
<1>4. /\ \A j, k \in K : j < k => /\ s[j].nodeIds \intersect s[k].nodeIds = {}
                                  /\ \A e \in Edge : ~(In(e) \in s[k].own /\ Out(e) \in s[j].own)
      /\ \A k \in K : \A e \in w.activeEdges \ s[k].activeEdges : Within(e, s[k].nodeIds)
      /\ Pending(w, d)
      /\ \A e \in Open(w) : Clean(e, d) => Truthful(e, d) \/ \E k \in K : e \in Owned(s[k])
      /\ \A k \in K : RowSolved(s[k], w.activeEdges, d)
  BY DEF Parts
<1>5. \A k \in K2 : k # b => s2[k] = s[k] /\ (k < b \/ k > i)
  OBVIOUS
<1>6. \A k \in K : s[k].own \subseteq s[k].nodeIds
  BY DEF GraphType
<1>7. \A j, k \in K : j # k => s[j].nodeIds \intersect s[k].nodeIds = {}
  <2>1. \A j, k \in K : j # k => j < k \/ k < j
    OBVIOUS
  <2> QED
    BY <1>4, <2>1
<1>8. \A e \in w.activeEdges : Open(w) = Owned(w) \intersect w.activeEdges
  BY DEF Open
<1>9. Owned(g) \subseteq Owned(m) /\ Owned(h) \subseteq Owned(m) /\ Owned(m) \subseteq Owned(w)
  <2>1. m.own \subseteq w.own
    BY <1>1, JointFacts
  <2> QED
    BY <1>1, <2>1 DEF Owned
<1> HIDE DEF K2, w, v, g, h, m
\* The order of the graphs.
<1>10. ASSUME NEW j \in K2, NEW k \in K2, j < k
       PROVE  /\ s2[j].nodeIds \intersect s2[k].nodeIds = {}
              /\ \A e \in Edge : ~(In(e) \in s2[k].own /\ Out(e) \in s2[j].own)
  <2>0. j \in K /\ k \in K /\ j \in Int /\ k \in Int
    BY <1>2
  <2>1. j \in K /\ k \in K /\ j \in Int /\ k \in Int /\ j # k
    BY <1>10, <2>0
  <2>2. CASE j = b
    <3>1. k # b /\ k > i /\ b < k /\ i < k /\ s2[k] = s[k]
      BY <1>5, <1>10, <2>1, <2>2
    <3> QED
      BY <1>1, <1>2, <1>4, <2>1, <2>2, <3>1 DEF g, h
  <2>3. CASE k = b
    <3>1. j # b /\ j < b /\ j < i /\ s2[j] = s[j]
      BY <1>5, <1>10, <2>1, <2>3
    <3> QED
      BY <1>1, <1>2, <1>4, <2>1, <2>3, <3>1 DEF g, h
  <2>4. CASE j # b /\ k # b
    BY <1>4, <1>5, <1>10, <2>1, <2>4
  <2> QED
    BY <2>2, <2>3, <2>4
\* What is solved.
<1>11. ASSUME NEW e \in Owned(m) \intersect w.activeEdges
       PROVE  /\ e \notin m.activeEdges => d < block.edgeLoops[e]
              /\ d < block.edgeLoops[e] /\ RowKept(e, d) =>
                   sign[e][d] # "bad" /\ (e \notin m.activeEdges => sign[e][d] # "zero")
              /\ Clean(e, d) /\ RowKept(e, d) =>
                   Truthful(e, d) \/ (d < block.edgeLoops[e] /\ d <= satLevel(e) /\ sign[e][d] # "zero")
  <2>1. e \in Edge /\ In(e) \in g.own \union h.own /\ Out(e) \in g.own \union h.own
    BY <1>1 DEF Owned
  <2>2. RowSolved(g, w.activeEdges, d) /\ RowSolved(h, w.activeEdges, d)
    BY <1>4 DEF g, h
  <2>3. CASE e \in Owned(g)
    BY <1>1, <2>2, <2>3 DEF RowSolved
  <2>4. CASE e \in Owned(h)
    BY <1>1, <2>2, <2>4 DEF RowSolved
  <2>5. CASE e \notin Owned(g) /\ e \notin Owned(h)
    <3>1. connects(e, g, h) /\ ~(In(e) \in g.own /\ Out(e) \in g.own) /\ ~(In(e) \in h.own /\ Out(e) \in h.own)
      <4>1. ~(In(e) \in g.own /\ Out(e) \in g.own) /\ ~(In(e) \in h.own /\ Out(e) \in h.own)
        BY <2>1, <2>5 DEF Owned
      <4>2. g.own \subseteq g.nodeIds /\ h.own \subseteq h.nodeIds
        BY <1>6 DEF g, h
      <4> QED
        BY <2>1, <4>1, <4>2 DEF connects
    <3>2. d < block.edgeLoops[e] /\ sign[e][d] # "bad"
      BY <2>1, <3>1 DEF canFuse, isSatisfied, g, h
    <3>3. g.own \subseteq g.nodeIds /\ h.own \subseteq h.nodeIds /\ g.nodeIds \intersect h.nodeIds = {}
      BY <1>2, <1>6, <1>7 DEF g, h
    <3>4. e \in m.activeEdges
      <4>1. ~Within(e, g.nodeIds)
        BY <2>1, <3>1, <3>3 DEF Within
      <4>2. e \in g.activeEdges
        BY <1>4, <4>1 DEF g
      <4> QED
        BY <1>1, <4>2
    <3>5. \A k \in K : e \notin Owned(s[k])
      <4> SUFFICES ASSUME NEW k \in K, e \in Owned(s[k]) PROVE FALSE
        OBVIOUS
      <4>1. In(e) \in s[k].nodeIds /\ Out(e) \in s[k].nodeIds
        BY <1>6 DEF Owned
      <4>2. k = b \/ s[k].nodeIds \intersect g.nodeIds = {}
        BY <1>7 DEF g
      <4>3. k = i \/ s[k].nodeIds \intersect h.nodeIds = {}
        BY <1>7 DEF h
      <4> QED
        BY <1>2, <2>1, <3>1, <3>3, <4>1, <4>2, <4>3
    <3>6. Clean(e, d) => Truthful(e, d)
      <4>1. e \in Open(w)
        BY <1>9 DEF Open
      <4> QED
        BY <1>4, <3>5, <4>1
    <3> QED
      BY <3>2, <3>4, <3>6
  <2> QED
    BY <2>3, <2>4, <2>5
<1>12. RowSolved(m, w.activeEdges, d)
  BY <1>11 DEF RowSolved
<1>13. \A k \in K2 : RowSolved(s2[k], w.activeEdges, d)
  BY <1>2, <1>4, <1>5, <1>12
<1>14. \A k \in K2 : \A e \in w.activeEdges \ s2[k].activeEdges : Within(e, s2[k].nodeIds)
  <2>1. \A e \in w.activeEdges \ m.activeEdges : Within(e, m.nodeIds)
    BY <1>1, <1>4 DEF Within, g, h
  <2> QED
    BY <1>2, <1>4, <1>5, <2>1
<1>15. ASSUME NEW e \in Open(w), Clean(e, d) PROVE Truthful(e, d) \/ \E k \in K2 : e \in Owned(s2[k])
  <2>1. ASSUME NEW k \in K, e \in Owned(s[k]) PROVE \E j \in K2 : e \in Owned(s2[j])
    <3>1. CASE k = i
      BY <1>2, <1>9, <2>1, <3>1 DEF h
    <3>2. CASE k = b
      BY <1>2, <1>9, <2>1, <3>2 DEF g
    <3>3. CASE k # i /\ k # b
      <4>1. k \in K2
        BY <3>3 DEF K2
      <4> QED
        BY <1>5, <2>1, <3>3, <4>1
    <3> QED
      BY <3>1, <3>2, <3>3
  <2> QED
    BY <1>4, <1>15, <2>1
<1>16. Parts(s2, K2, K2, d)
  BY <1>3, <1>4, <1>10, <1>13, <1>14, <1>15 DEF Parts, v
<1> QED
  BY <1>3, <1>16 DEF K2, v, w

\* The frame of breakGraph that is fusing its graphs.
LEMMA FuseTop ==
  ASSUME LegalInv, At("breakGraph", "fuse"), NEW t, t = Top
  PROVE  LET s == t.graphs
             b == t.bases
             K == Unfused(t)
         IN  /\ Typed /\ StackInv /\ DoneInv /\ frames # <<>> /\ block \in Blocks /\ ~Failing
             /\ Top.fn = "breakGraph" /\ Top.at = "fuse" /\ t \in BreakFusing /\ t \in FrameType
             /\ t.d \in Row /\ t.d \in Nat /\ t.i \in Nat \ {0} /\ s \in Seq(GraphType) /\ b \in Seq(Nat)
             /\ Len(b) \in Nat \ {0} /\ Len(b) \in 1 .. Len(b)
             /\ K \in SUBSET (1 .. Len(s)) /\ \A k \in K : s[k] \in GraphType
             /\ K = {b[j] : j \in 1 .. Len(b)} \union (t.i .. Len(s))
             /\ Parts(s, K, K, t.d)
             /\ \A j \in 1 .. Len(b) : b[j] < t.i /\ b[j] \in K /\ b[j] \in Nat /\ \A k \in 1 .. j - 1 : b[k] < b[j]
             /\ \A j \in 1 .. Len(b) - 1 : Closed(s[b[j]], j - 1, t.d)
             /\ GraphsOf(Top) = {s[k] : k \in K} /\ Undone(Top) = Joint(s, K).own
<1>1. /\ Typed /\ StackInv /\ DoneInv /\ frames # <<>> /\ block \in Blocks /\ ~Failing
      /\ Top.fn = "breakGraph" /\ Top.at = "fuse"
  BY DEF LegalInv, At, Failing, Typed, TypeOK
<1>2. FrameInv(t) /\ t \in BreakFusing /\ t \in FrameType
  BY <1>1, TopInv, TopIsFrame, FrameKinds
<1> DEFINE s == t.graphs
           b == t.bases
           K == Unfused(t)
<1>3. /\ t.d \in Row /\ t.i \in Nat \ {0} /\ s \in Seq(GraphType) /\ b \in Seq(Nat) /\ Len(b) \in Nat \ {0}
      /\ \A k \in 1 .. Len(b) : b[k] \in 1 .. Len(s)
  BY <1>2, FusingFrame
<1>4. /\ Parts(s, K, K, t.d)
      /\ \A j \in 1 .. Len(b) : b[j] < t.i /\ \A k \in 1 .. j - 1 : b[k] < b[j]
      /\ \A j \in 1 .. Len(b) - 1 : Closed(s[b[j]], j - 1, t.d)
  BY <1>1, <1>2 DEF FrameInv
<1>5. K = {b[j] : j \in 1 .. Len(b)} \union (t.i .. Len(s))
  BY DEF Unfused
<1>6. Len(b) \in 1 .. Len(b) /\ Len(s) \in Nat
  BY <1>3
<1>7. t.i .. Len(s) \subseteq 1 .. Len(s)
  BY <1>3, <1>6
<1>8. GraphsOf(Top) = {s[k] : k \in K}
  BY <1>1 DEF GraphsOf
<1>9. Undone(Top) = Joint(s, K).own
  BY <1>1, <1>8 DEF Undone, Joint
<1>10. t.d \in Nat
  BY <1>3, LoopAssumption DEF Row
<1>11. \A k \in 1 .. Len(s) : s[k] \in GraphType
  BY <1>3, ElementOfSeq
<1> HIDE DEF s, b, K
<1>12. K \in SUBSET (1 .. Len(s))
  BY <1>3, <1>5, <1>7
<1>13. \A j \in 1 .. Len(b) : b[j] \in K /\ b[j] \in Nat
  BY <1>3, <1>5
<1> QED
  BY <1>1, <1>2, <1>3, <1>4, <1>5, <1>6, <1>8, <1>9, <1>10, <1>11, <1>12, <1>13 DEF s, b, K

LEMMA BreakFuseLegal ==
  ASSUME LegalInv, Typed', BreakFuse
  PROVE  StackInv' /\ DoneInv'
<1>1. PICK t : t = Top
  OBVIOUS
<1> DEFINE s == t.graphs
           bs == t.bases
           n == Len(bs)
           b == bs[n]
           K == Unfused(t)
           i == t.i
           d == t.d
           s2 == [s EXCEPT ![b] = Merged(s[b], s[i])]
           f == [t EXCEPT !.i = i + 1, !.graphs = s2]
           K2 == K \ {i}
           w == Joint(s, K)
<1>2. /\ Typed /\ StackInv /\ DoneInv /\ frames # <<>> /\ block \in Blocks /\ ~Failing
      /\ Top.fn = "breakGraph" /\ Top.at = "fuse" /\ t \in BreakFusing /\ t \in FrameType
      /\ d \in Row /\ d \in Nat /\ i \in Nat \ {0} /\ s \in Seq(GraphType) /\ bs \in Seq(Nat)
      /\ n \in Nat \ {0} /\ n \in 1 .. n
      /\ K \in SUBSET (1 .. Len(s)) /\ \A k \in K : s[k] \in GraphType
      /\ K = {bs[j] : j \in 1 .. n} \union (i .. Len(s))
      /\ Parts(s, K, K, d)
      /\ \A j \in 1 .. n : bs[j] < i /\ bs[j] \in K /\ bs[j] \in Nat /\ \A k \in 1 .. j - 1 : bs[k] < bs[j]
      /\ \A j \in 1 .. n - 1 : Closed(s[bs[j]], j - 1, d)
      /\ GraphsOf(Top) = {s[k] : k \in K} /\ Undone(Top) = w.own
  <2>1. At("breakGraph", "fuse")
    BY DEF BreakFuse
  <2> QED
    BY <1>1, <2>1, FuseTop
<1>3. i <= Len(s) /\ canFuse(s[b], s[i], d) /\ Still /\ Goes(f)
  BY <1>1, UnsolvedStill DEF BreakFuse, Base, Graphs
<1>4. /\ f.fn = "breakGraph" /\ f.at = "fuse" /\ f.d = d /\ f.i = i + 1 /\ f.graphs = s2 /\ f.bases = bs
  BY <1>1, <1>2 DEF BreakFusing
<1>5. Len(s) \in Nat /\ K \in SUBSET Int
  BY <1>2
<1>6. i \in K /\ b \in K /\ b < i /\ b \in Nat
  BY <1>2, <1>3, <1>5
<1>7. Len(s2) = Len(s) /\ s2[b] = Merged(s[b], s[i]) /\ \A k \in K : k # b => s2[k] = s[k]
  <2>1. /\ Len(s2) = Len(s)
        /\ \A k \in 1 .. Len(s) : s2[k] = IF k = b THEN Merged(s[b], s[i]) ELSE s[k]
    <3>1. Merged(s[b], s[i]) \in GraphType /\ b \in 1 .. Len(s)
      BY <1>2, <1>6, MergedType
    <3> HIDE DEF s, b, i, K
    <3> QED
      BY <1>2, <3>1, ExceptSeq
  <2> HIDE DEF s2, K
  <2> QED
    BY <1>2, <1>6, <2>1
<1>8. d <= d /\ s[b] \in GraphsOf(Top) /\ d = Top.d
  BY <1>1, <1>2, <1>6
<1> HIDE DEF s, bs, n, b, K, i, d, s2, f
<1>9. \A j \in 1 .. n : bs[j] \in Nat /\ bs[j] <= b /\ (bs[j] = b \/ bs[j] < b)
  <2> SUFFICES ASSUME NEW j \in 1 .. n PROVE bs[j] \in Nat /\ (bs[j] = b \/ bs[j] < b)
    BY <1>6
  <2>1. j = n \/ j \in 1 .. n - 1
    BY <1>2
  <2> QED
    BY <1>2, <2>1 DEF b
<1>10. \A k \in K2 : k # b => s2[k] = s[k] /\ (k < b \/ k > i)
  <2> SUFFICES ASSUME NEW k \in K, k # i, k # b PROVE s2[k] = s[k] /\ (k < b \/ k > i)
    OBVIOUS
  <2>1. s2[k] = s[k]
    BY <1>7
  <2>2. CASE k \in i .. Len(s)
    <3>1. i \in Int /\ Len(s) \in Int
      BY <1>2, <1>5
    <3>2. k > i
      BY <2>2, <3>1
    <3> QED
      BY <2>1, <3>2
  <2>3. CASE k \in {bs[j] : j \in 1 .. n}
    <3>1. PICK j \in 1 .. n : k = bs[j]
      BY <2>3
    <3>2. k < b
      BY <1>9, <3>1
    <3> QED
      BY <2>1, <3>2
  <2> QED
    BY <1>2, <2>1, <2>2, <2>3
<1>11. Joint(s2, K2) = w /\ Parts(s2, K2, K2, d)
  BY <1>2, <1>3, <1>5, <1>6, <1>7, <1>10, FuseParts
<1>12. Unfused(f) = K2
  <2>1. Unfused(f) = {bs[j] : j \in 1 .. n} \union (i + 1 .. Len(s))
    BY <1>4, <1>7 DEF Unfused, n
  <2>2. i + 1 .. Len(s) = (i .. Len(s)) \ {i}
    BY <1>2, <1>5
  <2>3. \A j \in 1 .. n : bs[j] # i
    BY <1>2
  <2> QED
    BY <1>2, <2>1, <2>2, <2>3
<1> HIDE DEF K2, w
<1>13. FrameInv(f)
  <2>1. ASSUME NEW j \in 1 .. n - 1 PROVE Closed(s2[bs[j]], j - 1, d)
    <3>1. j \in 1 .. n /\ j \in 1 .. n - 1
      BY <1>2
    <3>2. bs[j] < bs[n] /\ bs[j] \in Nat /\ bs[j] \in K
      BY <1>2, <3>1
    <3>3. s2[bs[j]] = s[bs[j]]
      BY <1>6, <1>7, <3>2 DEF b
    <3> QED
      BY <1>2, <3>3
  <2>2. ASSUME NEW j \in 1 .. n PROVE bs[j] < i + 1 /\ \A k \in 1 .. j - 1 : bs[k] < bs[j]
    <3>1. bs[j] < i /\ bs[j] \in Nat /\ i \in Nat /\ \A k \in 1 .. j - 1 : bs[k] < bs[j]
      BY <1>2
    <3> QED
      BY <3>1
  <2> QED
    BY <1>4, <1>11, <1>12, <2>1, <2>2 DEF FrameInv, n
<1>14. f \in FrameType
  BY <1>2, <1>3, GoesToFrame
<1>15. FrameInv(f)'
  BY <1>2, <1>3, <1>4, <1>13, <1>14, SplitStill
<1>16. GraphsOf(f) = {s2[k] : k \in K2}
  BY <1>4, <1>12 DEF GraphsOf
<1>17. Undone(f) = w.own
  BY <1>4, <1>11, <1>16 DEF Undone, Joint
<1>18. Spans(f, Top)
  <2> SUFFICES ASSUME NEW h \in GraphsOf(f)
               PROVE  /\ h.own \subseteq UNION {g.own : g \in GraphsOf(Top)}
                      /\ h.activeEdges \subseteq UNION {g.activeEdges : g \in GraphsOf(Top)}
    BY <1>4, <1>8 DEF Spans
  <2>1. PICK k \in K2 : h = s2[k]
    BY <1>16
  <2>2. h.own \subseteq w.own /\ h.activeEdges \subseteq w.activeEdges
    BY <1>11, <2>1, JointFacts
  <2>3. w.own = UNION {g.own : g \in GraphsOf(Top)} /\ w.activeEdges = UNION {g.activeEdges : g \in GraphsOf(Top)}
    BY <1>2 DEF Joint, w
  <2> QED
    BY <2>2, <2>3
<1> QED
  BY <1>2, <1>3, <1>4, <1>14, <1>15, <1>17, <1>18, GoesStill

\* What solving the row of one graph of a split does for the others, and for it.
LEMMA SolvedOther ==
  ASSUME TypeOK, NEW g \in GraphType, NEW d \in Row, NEW o \in OutcomeType,
         NEW levels, NEW flags, Solves(g, d, o, levels, flags),
         NEW h, h.own \intersect g.own = {}, NEW A, RowSolved(h, A, d)
  PROVE  RowSolved(h, A, d)'
<1>1. Solved(g, d, o, levels, flags) /\ block \in Blocks
  BY DEF Solves, TypeOK
<1>2. PICK new \in SUBSET Node :
        /\ lost' = (lost \ (g.own \X {d})) \union ((new \ g.own) \X {d})
        /\ \A e \in Edge, r \in Row : sign'[e][r] # sign[e][r] => r >= d /\ (In(e) \in new \/ Out(e) \in new)
  <2> HIDE DEF Row
  <2> QED
    BY <1>1, SolvedRows
<1>3. Stable(g.own, g.activeEdges, d) /\ block' = block
  BY SolvedStable DEF Stable
<1>4. \A e : In(e)' = In(e) /\ Out(e)' = Out(e)
  BY <1>3, SameEnds
<1>5. ASSUME NEW e \in Owned(h) \intersect A
      PROVE  /\ ~Live(e, g.own, g.activeEdges, d)
             /\ RowKept(e, d)' => RowKept(e, d) /\ (d < block.edgeLoops[e] => sign'[e][d] = sign[e][d])
  <2>1. e \in Edge /\ In(e) \notin g.own /\ Out(e) \notin g.own
    BY DEF Owned
  <2>2. ~Live(e, g.own, g.activeEdges, d)
    BY <2>1 DEF Live, Within
  <2>3. RowKept(e, d)' => \A m \in {In(e), Out(e)} : <<m, d>> \notin lost /\ m \notin new
    BY <1>2, <1>4, <2>1 DEF RowKept
  <2>4. RowKept(e, d)' => RowKept(e, d) /\ sign'[e][d] = sign[e][d]
    BY <1>2, <2>1, <2>3 DEF RowKept
  <2> QED
    BY <2>2, <2>4
<1> QED
  BY <1>1, <1>3, <1>5, RowSolvedKept

LEMMA SolvedOne ==
  ASSUME TypeOK, NEW g \in GraphType, NEW d \in Row, NEW o \in OutcomeType,
         NEW levels, NEW flags, Solves(g, d, o, levels, flags),
         \A e \in Open(g) : Clean(e, d) => Truthful(e, d)
  PROVE  RowSolved(After(g, o), g.activeEdges, d)'
<1> DEFINE h == After(g, o)
           solved == o.deactivated \union o.empty
           act == getEdges(g, d)
<1>1. /\ h.own = g.own /\ h.activeEdges = g.activeEdges \ solved /\ solved \subseteq act
      /\ Solved(g, d, o, levels, flags) /\ block \in Blocks
  BY AfterType DEF Solves, TypeOK
<1>2. /\ block' = block
      /\ \A e \in solved : satLevel(e)' = d
      /\ \A e \in Edge \ solved : satLvl'[e][1] = satLvl[e][1] /\ (e \in stale' <=> e \in stale)
  BY SolvedSat
<1>3. \A e \in act :
        sign'[e][d] = IF e \in o.deactivated THEN "pos" ELSE IF e \in o.empty THEN "indep" ELSE "zero"
  <2> HIDE DEF Row
  <2> QED
    BY <1>1, SolvedRows
<1>4. Stable(g.own, g.activeEdges, d)
  BY SolvedStable
<1>5. d \in Int /\ d <= d
  BY LoopAssumption DEF Row
<1>6. \A e \in Open(g) : e \in Edge /\ (d < block.edgeLoops[e] <=> e \in act)
  BY DEF Open, Owned, getEdges, isActive, missingNode, GraphType
<1>7. Owned(h)' = Owned(g) /\ Open(g) = Owned(g) \intersect g.activeEdges
  BY <1>1, <1>2, SameEnds DEF Open, Owned
<1> HIDE DEF h, solved, act
<1> SUFFICES ASSUME NEW e \in Open(g)
             PROVE  /\ e \notin h.activeEdges => d < block.edgeLoops[e]
                    /\ d < block.edgeLoops[e] =>
                         sign'[e][d] # "bad" /\ (e \notin h.activeEdges => sign'[e][d] # "zero")
                    /\ Clean(e, d)' =>
                         Truthful(e, d)' \/ (d < block.edgeLoops[e] /\ d <= satLevel(e)' /\ sign'[e][d] # "zero")
  BY <1>2, <1>7 DEF RowSolved, h
<1>8. e \notin h.activeEdges <=> e \in solved
  BY <1>1 DEF Open
<1>9. e \in solved => e \in act /\ sign'[e][d] # "zero"
  BY <1>1, <1>3 DEF solved
<1>10. e \in act => sign'[e][d] # "bad"
  BY <1>3
<1>11. ASSUME Clean(e, d)', e \notin solved PROVE Truthful(e, d)'
  <2>1. Clean(e, d) /\ \A r \in 0 .. MaxLoops : r < d => SameAt(e, r)
    BY <1>1, <1>4, <1>5, <1>6, <1>11, AboveKept
  <2>2. SameLevel(e)
    BY <1>2, <1>6, <1>11 DEF SameLevel
  <2> QED
    BY <1>1, <1>2, <1>5, <1>6, <2>1, <2>2, EdgeKept
<1> QED
  BY <1>2, <1>5, <1>6, <1>8, <1>9, <1>10, <1>11

LEMMA BreakSolvedLegal ==
  ASSUME LegalInv, Typed', BreakSolved
  PROVE  StackInv' /\ DoneInv'
<1>1. PICK t : t = Top
  OBVIOUS
<1> DEFINE s == t.graphs
           n == Len(s)
           K == 1 .. n
           i == t.i
           d == t.d
           S == (1 .. i - 1) \intersect K
           w == Joint(s, K)
           g == s[i]
<1>2. /\ Typed /\ StackInv /\ DoneInv /\ frames # <<>> /\ block \in Blocks /\ ~Failing
      /\ Top.fn = "breakGraph" /\ Top.at = "solve" /\ t \in BreakSolve /\ t \in FrameType
      /\ d \in Row /\ d \in Nat /\ i \in Nat \ {0} /\ s \in Seq(GraphType) /\ n \in Nat /\ n > 1
      /\ \A k \in K : s[k] \in GraphType
      /\ Parts(s, K, S, d)
      /\ \A k \in i .. n : s[k].activeEdges = w.activeEdges
      /\ GraphsOf(Top) = {s[k] : k \in K} /\ Undone(Top) = w.own
  <2>1. At("breakGraph", "solve")
    BY DEF BreakSolved
  <2> QED
    BY <1>1, <2>1, SolveTop
<1>3. PICK o \in Outcomes(Graphs[Top.i], Top.d, FALSE) :
        /\ Solved(Graphs[Top.i], Top.d, o, satLvl, carried)
        /\ Goes([Top EXCEPT !.i = @ + 1, !.sat = @ \union o.deactivated, !.graphs[Top.i] = After(@, o)])
  BY DEF BreakSolved
<1>40. /\ o \in Outcomes(g, d, FALSE)
      /\ Solved(g, d, o, satLvl, carried)
      /\ Goes([t EXCEPT !.i = i + 1, !.sat = @ \union o.deactivated, !.graphs = [s EXCEPT ![i] = After(g, o)]])
  <2>1. Top = t /\ Graphs = s /\ Graphs[Top.i] = g /\ Top.d = d /\ Top.i = i
    BY <1>1 DEF Graphs
  <2>2. [t EXCEPT !.i = @ + 1, !.sat = @ \union o.deactivated, !.graphs[i] = After(@, o)]
        = [t EXCEPT !.i = i + 1, !.sat = @ \union o.deactivated, !.graphs = [s EXCEPT ![i] = After(g, o)]]
    BY <1>2 DEF BreakSolve
  <2>3. o \in Outcomes(g, d, FALSE) /\ Solved(g, d, o, satLvl, carried)
    BY <1>3, <2>1
  <2>4. Goes([t EXCEPT !.i = @ + 1, !.sat = @ \union o.deactivated, !.graphs[i] = After(@, o)])
    BY <1>1, <1>3
  <2> QED
    BY <2>2, <2>3, <2>4
<1> DEFINE h == After(g, o)
           s2 == [s EXCEPT ![i] = h]
           f == [t EXCEPT !.i = i + 1, !.sat = @ \union o.deactivated, !.graphs = s2]
           S2 == (1 .. f.i - 1) \intersect K
<1>4. /\ f.fn = "breakGraph" /\ f.at = "solve" /\ f.d = d /\ f.i = i + 1 /\ f.graphs = s2
  BY <1>1, <1>2 DEF BreakSolve
<1>5. i \in K /\ i \in i .. n
  BY <1>1, <1>2 DEF BreakSolved, Graphs
<1>6. S2 = S \union {i} /\ i \notin S /\ S \subseteq K
  BY <1>2, <1>4, <1>5
<1>7. \A k \in f.i .. n : k \in i .. n /\ k \in K /\ k # i
  BY <1>2, <1>4
<1>8. Goes(f) /\ d <= d /\ s[i] \in GraphsOf(Top) /\ d = Top.d
  BY <1>1, <1>2, <1>40, <1>5
<1>9. g \in GraphType /\ g.activeEdges = w.activeEdges /\ g.own \subseteq w.own
  <2>1. g \in GraphType
    BY <1>2, <1>5
  <2>2. g.activeEdges = w.activeEdges
    BY <1>2, <1>5
  <2>3. g.own \subseteq w.own
    BY <1>5, JointFacts
  <2> QED
    BY <2>1, <2>2, <2>3
<1>10. h.own = g.own /\ h.nodeIds = g.nodeIds /\ h \in GraphType
       /\ h.activeEdges = g.activeEdges \ (o.deactivated \union o.empty)
  BY <1>9, AfterType
<1>11. o \in OutcomeType /\ Solves(g, d, o, satLvl, carried)
       /\ o.deactivated \union o.empty \subseteq getEdges(g, d)
  <2>1. o \in OutcomeType /\ o.deactivated \subseteq getEdges(g, d) /\ o.empty \subseteq getEdges(g, d)
        /\ o.deactivated \intersect o.empty = {}
    BY <1>40, OutcomesType
  <2> QED
    BY <1>2, <1>40, <2>1 DEF Solves, Typed, TypeOK, LevelsType, OutcomeType
<1>12. Len(s2) = n /\ s2[i] = h /\ \A k \in K : k # i => s2[k] = s[k]
  <2>1. Len(s2) = Len(s) /\ \A k \in 1 .. Len(s) : s2[k] = IF k = i THEN h ELSE s[k]
    <3>1. h \in GraphType /\ i \in 1 .. Len(s)
      BY <1>5, <1>10
    <3> HIDE DEF s, i, h
    <3> QED
      BY <1>2, <3>1, ExceptSeq
  <2> HIDE DEF s2
  <2> QED
    BY <1>5, <2>1
<1> HIDE DEF s, n, i, d, S, w, g, K, h, s2, f, S2
<1>13. \A j, k \in K : j # k => s[j].nodeIds \intersect s[k].nodeIds = {}
  <2>1. \A j, k \in K : j # k => j < k \/ k < j
    BY DEF K
  <2> QED
    BY <1>2, <2>1 DEF Parts
<1>14. \A k \in K : s[k].own \subseteq s[k].nodeIds
  BY <1>2 DEF GraphType
<1>15. \A k \in K : k # i => s[k].own \intersect g.own = {}
  BY <1>5, <1>13, <1>14 DEF g
<1>16. \A e \in o.deactivated \union o.empty : Within(e, g.nodeIds) /\ e \in g.activeEdges
  BY <1>11 DEF getEdges, isActive, missingNode, Within
<1>17. \A k \in K : s2[k].own = s[k].own /\ s2[k].nodeIds = s[k].nodeIds /\ s2[k].activeEdges \subseteq s[k].activeEdges
  <2> SUFFICES ASSUME NEW k \in K
               PROVE  s2[k].own = s[k].own /\ s2[k].nodeIds = s[k].nodeIds /\ s2[k].activeEdges \subseteq s[k].activeEdges
    OBVIOUS
  <2>1. CASE k = i
    BY <1>10, <1>12, <2>1 DEF g
  <2>2. CASE k # i
    BY <1>12, <2>2
  <2> QED
    BY <2>1, <2>2
\* Every other graph still has the edges that this one satisfied.
<1>18. Joint(s2, K).activeEdges = w.activeEdges
  <2>1. PICK k \in K : k # i
    <3>1. 1 \in K /\ 2 \in K /\ 1 # 2
      BY <1>2 DEF K
    <3> QED
      BY <3>1
  <2>2. ASSUME NEW e \in w.activeEdges PROVE e \in s2[i].activeEdges \/ e \in s2[k].activeEdges
    <3>1. CASE e \in o.deactivated \union o.empty
      <4>1. ~Within(e, s[k].nodeIds)
        BY <1>5, <1>13, <1>16, <2>1, <3>1 DEF Within, g
      <4>2. e \in s[k].activeEdges
        BY <1>2, <4>1 DEF Parts, w
      <4> QED
        BY <1>12, <2>1, <4>2
    <3>2. CASE e \notin o.deactivated \union o.empty
      BY <1>9, <1>10, <1>12, <3>2
    <3> QED
      BY <3>1, <3>2
  <2>3. Joint(s2, K).activeEdges = UNION {s2[j].activeEdges : j \in K} /\ w.activeEdges = UNION {s[j].activeEdges : j \in K}
    BY JointFacts DEF w
  <2> QED
    BY <1>5, <1>17, <2>2, <2>3
<1>19. \A k \in K : \A e \in w.activeEdges \ s2[k].activeEdges : Within(e, s[k].nodeIds)
  <2> SUFFICES ASSUME NEW k \in K, NEW e \in w.activeEdges \ s2[k].activeEdges PROVE Within(e, s[k].nodeIds)
    OBVIOUS
  <2>1. CASE k = i
    BY <1>9, <1>10, <1>12, <1>16, <2>1 DEF g
  <2>2. CASE k # i
    BY <1>2, <1>12, <2>2 DEF Parts, w
  <2> QED
    BY <2>1, <2>2
<1>20. \A e \in Open(g) : Clean(e, d) => Truthful(e, d)
  <2> SUFFICES ASSUME NEW e \in Open(g), Clean(e, d) PROVE Truthful(e, d)
    OBVIOUS
  <2>1. e \in Open(w)
    BY <1>5, JointFacts DEF w, g
  <2>2. \A k \in S : e \notin Owned(s[k])
    BY <1>6, <1>15 DEF Open, Owned
  <2> QED
    BY <1>2, <2>1, <2>2 DEF Parts, w
<1>21. Stable(g.own, g.activeEdges, d) /\ block' = block
  <2>1. TypeOK
    BY <1>2 DEF Typed
  <2>2. Stable(g.own, g.activeEdges, d)
    BY <1>2, <1>9, <1>11, <2>1, SolvedStable
  <2> QED
    BY <2>2 DEF Stable
<1>22. ASSUME NEW k \in S2 PROVE RowSolved(s2[k], w.activeEdges, d)'
  <2> DEFINE q == s2[k]
             A == w.activeEdges
  <2>1. TypeOK
    BY <1>2 DEF Typed
  <2>2. CASE k = i
    <3>1. RowSolved(h, g.activeEdges, d)'
      BY <1>2, <1>9, <1>11, <1>20, <2>1, SolvedOne DEF h
    <3> QED
      BY <1>9, <1>12, <2>2, <3>1
  <2>3. CASE k # i
    <3>1. k \in S /\ k \in K
      BY <1>6, <2>3
    <3>2. q = s[k] /\ q.own \intersect g.own = {} /\ RowSolved(q, A, d)
      BY <1>2, <1>12, <1>15, <2>3, <3>1 DEF Parts, w
    <3> HIDE DEF q, A
    <3>3. RowSolved(q, A, d)'
      BY <1>2, <1>9, <1>11, <2>1, <3>2, SolvedOther
    <3> QED
      BY <3>3 DEF q, A
  <2> QED
    BY <2>2, <2>3
<1>23. \A e \in Edge : Live(e, g.own, g.activeEdges, d) => e \in Open(w) /\ \E k \in S2 : e \in Owned(s2[k])
  <2> SUFFICES ASSUME NEW e \in Edge, Live(e, g.own, g.activeEdges, d)
               PROVE  e \in Open(w) /\ \E k \in S2 : e \in Owned(s2[k])
    OBVIOUS
  <2>1. e \in Open(g) /\ e \in Owned(h)
    BY <1>10 DEF Live, Within, Open, Owned
  <2>2. e \in Open(w)
    BY <1>5, <2>1, JointFacts DEF w, g
  <2> QED
    BY <1>6, <1>12, <2>1, <2>2
<1>24. \A k \in S : Owned(s2[k]) = Owned(s[k])
  BY <1>6, <1>17 DEF Owned
<1>25. Parts(s2, K, S2, d)'
  <2>1. S \subseteq S2
    BY <1>6
  <2> DEFINE N == g.own
             A == g.activeEdges
  <2>2. Stable(N, A, d) /\ \A e \in Edge : Live(e, N, A, d) => e \in Open(Joint(s, K)) /\ \E k \in S2 : e \in Owned(s2[k])
    BY <1>21, <1>23 DEF w
  <2> HIDE DEF N, A
  <2> QED
    BY <1>2, <1>17, <1>18, <1>19, <1>22, <1>24, <2>1, <2>2, PartsKept DEF w
<1>26. FrameInv(f)'
  <2>1. \A k \in f.i .. Len(f.graphs) : f.graphs[k].activeEdges = Joint(f.graphs, 1 .. Len(f.graphs)).activeEdges
    BY <1>2, <1>4, <1>7, <1>12, <1>18 DEF K
  <2>2. \A k \in f.i .. Len(f.graphs) : f.graphs[k].activeEdges = Joint(f.graphs, 1 .. Len(f.graphs))'.activeEdges
    BY <2>1 DEF Joint
  <2>3. Parts(f.graphs, 1 .. Len(f.graphs), (1 .. f.i - 1) \intersect (1 .. Len(f.graphs)), f.d)'
    BY <1>4, <1>12, <1>25 DEF K, S2
  <2>4. Len(f.graphs) > 1
    BY <1>2, <1>4, <1>12
  <2> QED
    BY <1>4, <2>2, <2>3, <2>4 DEF FrameInv
<1>27. f \in FrameType
  BY <1>2, <1>8, GoesToFrame
<1>28. GraphsOf(f) = {s2[k] : k \in K}
  BY <1>4, <1>12 DEF GraphsOf, K
<1>29. Undone(f) = w.own
  <2>1. UNION {s2[k].own : k \in K} = w.own
    BY <1>17, JointFacts DEF w
  <2> QED
    BY <1>4, <1>28, <2>1 DEF Undone
<1>30. Spans(f, Top)
  BY <1>2, <1>4, <1>8, <1>17, <1>28 DEF Spans
<1>31. WaitingInv
  BY <1>2, <1>5, <1>8, <1>21, WaitingStable DEF g
<1>32. StackInv'
  BY <1>2, <1>4, <1>8, <1>26, <1>27, <1>30, <1>31, StackGoes
<1>33. ASSUME NEW e \in Edge, Finished(e)' PROVE Finished(e) /\ ~Touches(e, g.own)
  <2>1. Finished(e) /\ ~Touches(e, w.own)
    BY <1>2, <1>8, <1>21, <1>27, <1>29, <1>33, FinishedGoes
  <2> QED
    BY <1>9, <2>1 DEF Touches
<1> QED
  BY <1>2, <1>21, <1>32, <1>33, DoneStep

LEMMA AppendToSeq ==
  ASSUME NEW S, NEW s \in Seq(S), NEW x \in S
  PROVE  /\ Len(Append(s, x)) = Len(s) + 1 /\ Append(s, x)[Len(s) + 1] = x
         /\ \A k \in 1 .. Len(s) : Append(s, x)[k] = s[k]
  OBVIOUS

\* Once no more graphs are fused into the last base, its fusion omega is set: what
\* is solved stays, and all bases are closed.
LEMMA BasesClosed ==
  ASSUME LegalInv, At("breakGraph", "fuse"), NEW t, t = Top,
         SetFusionOmega(t.graphs[t.bases[Len(t.bases)]], t.d, Len(t.bases) - 1)
  PROVE  LET s == t.graphs
             bs == t.bases
             g == s[bs[Len(bs)]]
             K == Unfused(t)
         IN  /\ Stable(g.own, {}, t.d) /\ block' = block
             /\ Parts(s, K, K, t.d)'
             /\ \A j \in 1 .. Len(bs) : Closed(s[bs[j]], j - 1, t.d)'
             /\ WaitingInv
<1> DEFINE s == t.graphs
           bs == t.bases
           n == Len(bs)
           b == bs[n]
           K == Unfused(t)
           i == t.i
           d == t.d
           g == s[b]
           o == n - 1
           w == Joint(s, K)
           N == g.own
           none == {}
<1>1. /\ Typed /\ StackInv /\ DoneInv /\ frames # <<>> /\ block \in Blocks /\ ~Failing
      /\ Top.fn = "breakGraph" /\ Top.at = "fuse" /\ t \in BreakFusing /\ t \in FrameType
      /\ d \in Row /\ d \in Nat /\ i \in Nat \ {0} /\ s \in Seq(GraphType) /\ bs \in Seq(Nat)
      /\ n \in Nat \ {0} /\ n \in 1 .. n
      /\ K \in SUBSET (1 .. Len(s)) /\ \A k \in K : s[k] \in GraphType
      /\ K = {bs[j] : j \in 1 .. n} \union (i .. Len(s))
      /\ Parts(s, K, K, d)
      /\ \A j \in 1 .. n : bs[j] < i /\ bs[j] \in K /\ bs[j] \in Nat /\ \A k \in 1 .. j - 1 : bs[k] < bs[j]
      /\ \A j \in 1 .. n - 1 : Closed(s[bs[j]], j - 1, d)
      /\ GraphsOf(Top) = {s[k] : k \in K} /\ Undone(Top) = w.own
  BY FuseTop
<1>2. b \in K /\ g \in GraphType /\ o \in Nat /\ TypeOK /\ s[b] \in GraphsOf(Top)
  BY <1>1 DEF Typed
<1>3. SetFusionOmega(g, d, o)
  OBVIOUS
<1>4. d \in Int /\ d <= d /\ d = Top.d
  BY <1>1
<1> HIDE DEF s, bs, n, b, K, i, d, g, o, w, N, none
<1>5. Stable(N, none, d) /\ \A e : ~Live(e, N, none, d)
  BY <1>1, <1>2, <1>3, FusionStable DEF Live, N, none
<1>6. /\ \A m \in Node, r \in 0 .. MaxLoops :
           omega'[m][r] = IF m \in g.nodeIds /\ d <= block.nodeLoops[m] /\ r = d THEN o ELSE omega[m][r]
      /\ \A e \in Edge, r \in Row :
           sign'[e][r] # sign[e][r] => r < d /\ \E m \in {In(e), Out(e)} : <<m, r>> \in lost'
      /\ lost \subseteq lost' /\ \A m : <<m, d>> \in lost' => <<m, d>> \in lost
      /\ moved' = (moved \ (g.own \X {d})) \union ((g.nodeIds \ g.own) \X {d})
      /\ stray' = (stray \ {<<e, d>> : e \in {f \in Edge : Touches(f, g.own)}}) \union Leftovers(g, d)
      /\ block' = block
  BY <1>1, <1>2, <1>3, FusionFacts
<1>7. \A e : In(e)' = In(e) /\ Out(e)' = Out(e)
  BY <1>6, SameEnds
<1>8. WaitingInv
  <2>1. none \in SUBSET s[b].activeEdges /\ N \in SUBSET s[b].own
    BY DEF none, N, g
  <2> QED
    BY <1>1, <1>2, <1>4, <1>5, <2>1, WaitingStable
<1>9. ASSUME NEW k \in K PROVE RowSolved(s[k], w.activeEdges, d)'
  <2> DEFINE h == s[k]
             A == w.activeEdges
  <2>1. RowSolved(h, A, d)
    BY <1>1 DEF Parts, w
  <2>2. ASSUME NEW e \in Owned(h) \intersect A, RowKept(e, d)'
        PROVE  RowKept(e, d) /\ sign'[e][d] = sign[e][d]
    <3>1. RowKept(e, d)
      BY <1>6, <1>7, <2>2 DEF RowKept
    <3>2. e \in Edge /\ d \in Row /\ ~(d < d)
      BY <1>1 DEF Owned
    <3>3. sign'[e][d] = sign[e][d]
      BY <1>6, <3>2
    <3> QED
      BY <3>1, <3>3
  <2> HIDE DEF h, A
  <2>3. RowSolved(h, A, d)'
    BY <1>1, <1>5, <2>1, <2>2, RowSolvedKept
  <2> QED
    BY <2>3 DEF h, A
<1>10. Parts(s, K, K, d)'
  <2>1. \A k \in K : \A e \in w.activeEdges \ s[k].activeEdges : Within(e, s[k].nodeIds)
    BY <1>1 DEF Parts, w
  <2> QED
    BY <1>1, <1>5, <1>9, <2>1, PartsKept DEF w
\* The bases that were closed before share no node with the last one.
<1>11. ASSUME NEW j \in 1 .. n - 1 PROVE Closed(s[bs[j]], j - 1, d)'
  <2> DEFINE h == s[bs[j]]
             c == j - 1
             L == d + 1 .. MaxLoops
  <2>1. Closed(h, c, d) /\ bs[j] \in K /\ bs[j] < b /\ h \in GraphType
    <3>1. j \in 1 .. n
      BY <1>1
    <3> QED
      BY <1>1, <3>1 DEF b
  <2>2. h.nodeIds \intersect g.nodeIds = {}
    BY <1>1, <1>2, <2>1 DEF Parts, g
  <2>3. h.own \subseteq Node /\ h.own \subseteq h.nodeIds /\ g.own \subseteq g.nodeIds
    BY <1>2, <2>1 DEF GraphType
  <2> HIDE DEF h, c
  <2>4. \A m \in h.own : omega'[m][d] = omega[m][d] /\ (<<m, d>> \in moved => <<m, d>> \in moved')
    <3>1. d \in 0 .. MaxLoops
      BY <1>1, LoopAssumption DEF Row
    <3> QED
      BY <1>6, <2>2, <2>3, <3>1
  <2>5. Agree(h, L)'
    <3>1. Agree(h, L)
      BY <2>1 DEF Closed
    <3>2. \A e \in Open(h) : ~Touches(e, N)
      BY <2>2, <2>3 DEF Open, Owned, Touches, N
    <3>3. L \in SUBSET (0 .. MaxLoops)
      BY <1>1
    <3> HIDE DEF L
    <3> QED
      BY <1>1, <1>4, <1>5, <3>1, <3>2, <3>3, AgreeKept
  <2>6. Closed(h, c, d)'
    BY <1>6, <2>1, <2>4, <2>5 DEF Closed
  <2> QED
    BY <2>6 DEF h, c
<1>12. Closed(g, o, d)'
  <2>1. \A m \in g.own : d <= block.nodeLoops[m] => omega'[m][d] = o
    <3>1. d \in 0 .. MaxLoops
      BY <1>1, LoopAssumption DEF Row
    <3> QED
      BY <1>2, <1>6, <3>1 DEF GraphType
  <2>2. ASSUME NEW e \in Open(g)', NEW r \in d + 1 .. MaxLoops, r <= block.edgeLoops[e], DifferAt(e, r)'
        PROVE  <<e, r>> \in stray'
    <3>1. e \in Owned(g) /\ In(e) \in Node /\ Out(e) \in Node
      BY <1>1, <1>6, SameEnds, EdgeNumbers DEF Open, Owned
    <3>2. r \in 0 .. MaxLoops /\ r # d
      BY <1>1
    <3>3. omega'[In(e)][r] = omega[In(e)][r] /\ omega'[Out(e)][r] = omega[Out(e)][r]
      BY <1>6, <3>1, <3>2
    <3>4. omega[In(e)][r] # omega[Out(e)][r]
      BY <1>7, <2>2, <3>3 DEF DifferAt
    <3>5. <<e, r>> \in Leftovers(g, d)
      <4>1. <<e, r>> \in Owned(g) \X (d + 1 .. MaxLoops)
        BY <3>1
      <4> QED
        BY <3>4, <4>1 DEF Leftovers
    <3> QED
      BY <1>6, <3>5
  <2> QED
    BY <1>6, <2>1, <2>2 DEF Closed, Agree, AgreeAt
<1>13. ASSUME NEW j \in 1 .. n PROVE Closed(s[bs[j]], j - 1, d)'
  <2>1. CASE j = n
    BY <1>12, <2>1 DEF b, g, o
  <2>2. CASE j # n
    <3>1. j \in 1 .. n - 1
      BY <1>1, <2>2
    <3> QED
      BY <1>11, <3>1
  <2> QED
    BY <2>1, <2>2
<1> QED
  BY <1>5, <1>6, <1>8, <1>10, <1>13 DEF s, bs, n, b, K, d, g, N, none

LEMMA BreakApartLegal ==
  ASSUME LegalInv, Typed', BreakApart
  PROVE  StackInv' /\ DoneInv'
<1>1. PICK t : t = Top
  OBVIOUS
<1> DEFINE s == t.graphs
           bs == t.bases
           n == Len(bs)
           b == bs[n]
           K == Unfused(t)
           i == t.i
           d == t.d
           g == s[b]
           f == [t EXCEPT !.i = i + 1, !.bases = Append(bs, i)]
           w == Joint(s, K)
           none == {}
<1>2. /\ Typed /\ StackInv /\ DoneInv /\ frames # <<>> /\ block \in Blocks /\ ~Failing
      /\ Top.fn = "breakGraph" /\ Top.at = "fuse" /\ t \in BreakFusing /\ t \in FrameType
      /\ d \in Row /\ d \in Nat /\ i \in Nat \ {0} /\ s \in Seq(GraphType) /\ bs \in Seq(Nat)
      /\ n \in Nat \ {0} /\ n \in 1 .. n
      /\ K \in SUBSET (1 .. Len(s)) /\ \A k \in K : s[k] \in GraphType
      /\ K = {bs[j] : j \in 1 .. n} \union (i .. Len(s))
      /\ Parts(s, K, K, d)
      /\ \A j \in 1 .. n : bs[j] < i /\ bs[j] \in K /\ bs[j] \in Nat /\ \A k \in 1 .. j - 1 : bs[k] < bs[j]
      /\ \A j \in 1 .. n - 1 : Closed(s[bs[j]], j - 1, d)
      /\ GraphsOf(Top) = {s[k] : k \in K} /\ Undone(Top) = w.own
      /\ At("breakGraph", "fuse")
  <2>1. At("breakGraph", "fuse")
    BY DEF BreakApart
  <2> QED
    BY <1>1, <2>1, FuseTop
<1>3. i <= Len(s) /\ SetFusionOmega(g, d, n - 1) /\ Goes(f)
  BY <1>1 DEF BreakApart, Base, Graphs
<1>4. /\ f.fn = "breakGraph" /\ f.at = "fuse" /\ f.d = d /\ f.i = i + 1 /\ f.graphs = s /\ f.bases = Append(bs, i)
  BY <1>1, <1>2 DEF BreakFusing
<1>5. /\ Stable(g.own, none, d) /\ block' = block
      /\ Parts(s, K, K, d)'
      /\ \A j \in 1 .. n : Closed(s[bs[j]], j - 1, d)'
      /\ WaitingInv
  BY <1>1, <1>2, <1>3, BasesClosed, Zenon
<1>6. Len(s) \in Nat /\ b \in K /\ n + 1 \in Nat
  BY <1>2
<1>7. /\ Len(Append(bs, i)) = n + 1 /\ Append(bs, i)[n + 1] = i
      /\ \A j \in 1 .. n : Append(bs, i)[j] = bs[j]
  <2>1. i \in Nat
    BY <1>2
  <2> QED
    BY <1>2, <2>1, AppendToSeq
<1> DEFINE c == Append(bs, i)
<1> HIDE DEF s, bs, n, b, K, i, d, g, f, w, none, c
<1>8. Len(c) = n + 1 /\ c[n + 1] = i /\ \A j \in 1 .. n : c[j] = bs[j]
  BY <1>7 DEF c, n
<1>9. Unfused(f) = K
  <2>1. 1 .. n + 1 = (1 .. n) \union {n + 1}
    BY <1>2
  <2>2. {c[j] : j \in 1 .. n + 1} = {bs[j] : j \in 1 .. n} \union {i}
    <3>1. \A j \in 1 .. n + 1 : j \in 1 .. n \/ j = n + 1
      BY <2>1
    <3>2. \A j \in 1 .. n : j \in 1 .. n + 1
      BY <2>1
    <3>3. n + 1 \in 1 .. n + 1
      BY <2>1
    <3> QED
      BY <1>8, <3>1, <3>2, <3>3
  <2>3. i .. Len(s) = {i} \union (i + 1 .. Len(s))
    BY <1>2, <1>3, <1>6
  <2>4. Unfused(f) = {c[j] : j \in 1 .. Len(c)} \union (i + 1 .. Len(s))
    BY <1>4 DEF Unfused, c
  <2> QED
    BY <1>2, <1>8, <2>2, <2>3, <2>4
<1>10. FrameInv(f)'
  <2>1. ASSUME NEW j \in 1 .. n + 1 PROVE c[j] < i + 1 /\ \A k \in 1 .. j - 1 : c[k] < c[j]
    <3>1. CASE j = n + 1
      <4>1. \A k \in 1 .. j - 1 : k \in 1 .. n
        BY <1>2, <3>1
      <4>2. c[j] = i /\ i < i + 1
        BY <1>2, <1>8, <3>1
      <4> QED
        BY <1>2, <1>8, <4>1, <4>2
    <3>2. CASE j # n + 1
      <4>1. j \in 1 .. n /\ \A k \in 1 .. j - 1 : k \in 1 .. n
        BY <1>2, <3>2
      <4>2. c[j] = bs[j] /\ bs[j] < i + 1
        BY <1>2, <1>8, <4>1
      <4> QED
        BY <1>2, <1>8, <4>1, <4>2
    <3> QED
      BY <3>1, <3>2
  <2>2. ASSUME NEW j \in 1 .. Len(c) - 1 PROVE Closed(s[c[j]], j - 1, d)'
    <3>1. j \in 1 .. n /\ c[j] = bs[j]
      BY <1>2, <1>8
    <3> QED
      BY <1>5, <3>1
  <2>3. Unfused(f)' = K
    BY <1>9 DEF Unfused
  <2> QED
    BY <1>4, <1>5, <1>8, <2>1, <2>2, <2>3 DEF FrameInv, c
<1>11. f \in FrameType
  BY <1>2, <1>3, GoesToFrame
<1>12. GraphsOf(f) = GraphsOf(Top)
  BY <1>2, <1>4, <1>9 DEF GraphsOf
<1>13. Undone(f) = w.own
  BY <1>2, <1>4, <1>12 DEF Undone
<1>14. Spans(f, Top)
  <2>1. GraphsOf(Top) # {} /\ Top.d <= f.d
    <3>1. Top.d = d
      BY <1>1 DEF d
    <3>2. d <= d /\ f.d = d
      BY <1>2, <1>4
    <3>3. GraphsOf(Top) # {}
      BY <1>2, <1>6
    <3> QED
      BY <3>1, <3>2, <3>3
  <2> QED
    BY <1>12, <2>1 DEF Spans
<1>15. StackInv'
  BY <1>2, <1>3, <1>4, <1>5, <1>10, <1>11, <1>14, StackGoes
<1>16. ASSUME NEW e \in Edge, Finished(e)' PROVE Finished(e) /\ ~Touches(e, g.own)
  <2>1. Finished(e) /\ ~Touches(e, w.own)
    BY <1>2, <1>3, <1>5, <1>11, <1>13, <1>16, FinishedGoes
  <2>2. g.own \subseteq w.own
    BY <1>6, JointFacts DEF g, w
  <2> QED
    BY <2>1, <2>2 DEF Touches
<1> QED
  BY <1>2, <1>5, <1>15, <1>16, DoneStep

----------------------------------------------------------------------------
(* When all its bases are closed, breakGraph has scheduled row d.          *)

LEMMA GoodAdd ==
  ASSUME block \in Blocks, NEW e \in Edge, NEW d \in Nat, Good(e, d),
         d <= block.edgeLoops[e] /\ Decides(e, d) => Right(e, d)
  PROVE  Good(e, d + 1)
<1>1. block.edgeLoops[e] \in Nat
  BY EdgeNumbers
<1> SUFFICES ASSUME NEW r \in 0 .. block.edgeLoops[e], r < d + 1, Decides(e, r),
                    \A k \in 0 .. r - 1 : ~Decides(e, k)
             PROVE  Right(e, r)
  BY DEF Good
<1>2. r < d \/ r = d
  BY <1>1
<1>3. CASE r < d
  BY <1>3 DEF Good
<1>4. CASE r = d
  BY <1>1, <1>4
<1> QED
  BY <1>2, <1>3, <1>4

LEMMA PartsReady ==
  ASSUME TypeOK, NEW d \in Row, NEW n \in Nat, NEW s, \A k \in 1 .. n : s[k] \in GraphType,
         Parts(s, 1 .. n, 1 .. n, d), \A k \in 1 .. n : Closed(s[k], k - 1, d), NEW j \in 1 .. n
  PROVE  Ready(s[j], d + 1)
<1> DEFINE K == 1 .. n
           w == Joint(s, K)
           g == s[j]
           D == d + 1
<1>1. /\ \A a, c \in K : a < c => /\ s[a].nodeIds \intersect s[c].nodeIds = {}
                                  /\ \A e \in Edge : ~(In(e) \in s[c].own /\ Out(e) \in s[a].own)
      /\ Pending(w, d)
      /\ \A e \in Open(w) : Clean(e, d) => Truthful(e, d) \/ \E k \in K : e \in Owned(s[k])
      /\ \A k \in K : RowSolved(s[k], w.activeEdges, d)
  BY DEF Parts
<1>2. /\ block \in Blocks /\ d \in Nat /\ d \in Int /\ D \in Int /\ d <= D /\ d < D /\ d \in 0 .. MaxLoops
      /\ omega \in [Node -> [0 .. MaxLoops -> Nat]]
  BY LoopAssumption DEF Row, TypeOK
<1>3. \A a, c \in K : a # c => s[a].own \intersect s[c].own = {}
  <2>1. \A a, c \in K : a # c => a < c \/ c < a
    OBVIOUS
  <2>2. \A a \in K : s[a].own \subseteq s[a].nodeIds
    BY DEF GraphType
  <2> QED
    BY <1>1, <2>1, <2>2
<1>4. /\ \A k \in K : s[k].own \subseteq w.own /\ s[k].activeEdges \subseteq w.activeEdges /\ Open(s[k]) \subseteq Open(w)
      /\ w.own = UNION {s[k].own : k \in K}
  BY JointFacts
<1>5. j \in K
  OBVIOUS
<1>20. \A a, c \in K : a \in Int /\ c \in Int
  OBVIOUS
<1>21. \A k \in K : \A m \in s[k].own : d <= block.nodeLoops[m] => omega[m][d] = k - 1 \/ <<m, d>> \in moved
  BY DEF Closed
<1>22. Agree(g, D .. MaxLoops)
  BY DEF Closed
<1> HIDE DEF K, w, g, D
<1> SUFFICES ASSUME NEW e \in Edge, Touches(e, g.own), Clean(e, D)
             PROVE  IF e \in Open(g) THEN Good(e, D) /\ Truthful(e, D)
                                     ELSE e \in dropped \/ Settled(e, D)
  <2>1. \A e \in Open(g) : e \in Edge /\ Touches(e, g.own)
    BY DEF Open, Owned, Touches
  <2>2. Pending(g, D)
    BY DEF Pending, Sound
  <2>3. Fresh(g, D)
    BY <2>1 DEF Fresh
  <2> QED
    BY <1>22, <2>2, <2>3 DEF Ready, g, D
<1> DEFINE L == block.edgeLoops[e]
<1>6. /\ L \in Nat /\ In(e) \in Node /\ Out(e) \in Node
      /\ d <= L => d <= block.nodeLoops[In(e)] /\ d <= block.nodeLoops[Out(e)]
  <2>1. /\ L \in Nat /\ In(e) \in Node /\ Out(e) \in Node
        /\ L <= block.nodeLoops[In(e)] /\ L <= block.nodeLoops[Out(e)]
    BY <1>2, EdgeNumbers
  <2>2. block.nodeLoops[In(e)] \in Int /\ block.nodeLoops[Out(e)] \in Int
    BY <1>2, <2>1, BlockFacts
  <2> HIDE DEF L
  <2> QED
    BY <1>2, <2>1, <2>2
<1>7. Clean(e, d) /\ ~Marked(e, d)
  BY <1>2, FewerLevels DEF Clean
<1>8. RowKept(e, d) /\ \A m \in {In(e), Out(e)} : <<m, d>> \notin moved
  BY <1>7 DEF Marked, RowKept
<1>9. IF e \in Open(w) THEN Sound(e, d) ELSE e \in dropped \/ Settled(e, d)
  <2>1. Touches(e, w.own)
    BY <1>4, <1>5 DEF Touches, g
  <2> QED
    BY <1>1, <1>7, <2>1 DEF Pending
<1>10. /\ Truthful(e, d) => Truthful(e, D)
       /\ Settled(e, d) => Settled(e, D)
  BY <1>2, MoreLevels
<1>11. Good(e, d) /\ (d <= L /\ Decides(e, d) => Right(e, d)) => Good(e, D)
  BY <1>2, GoodAdd DEF D
<1>12. d <= L /\ Decides(e, d) => Decided(e, D) /\ (d <= satLevel(e) => Truthful(e, D))
  <2>1. d <= L => d \in 0 .. L
    BY <1>2, <1>6
  <2> QED
    BY <1>2, <2>1 DEF Decided, Truthful
<1>13. CASE e \notin Open(w)
  <2>1. e \notin Open(g)
    BY <1>4, <1>5, <1>13 DEF g
  <2> QED
    BY <1>9, <1>10, <1>13, <2>1
<1> HIDE DEF L
\* An edge within one base: its row says all.
<1>14. CASE e \in Open(w) /\ e \in Owned(g)
  <2>1. RowSolved(g, w.activeEdges, d) /\ e \in Owned(g) \intersect w.activeEdges
    BY <1>1, <1>5, <1>14 DEF Open, g
  <2>2. /\ e \notin g.activeEdges => d < L
        /\ d < L => sign[e][d] # "bad" /\ (e \notin g.activeEdges => sign[e][d] # "zero")
        /\ Truthful(e, d) \/ (d < L /\ d <= satLevel(e) /\ sign[e][d] # "zero")
    BY <1>7, <1>8, <2>1 DEF RowSolved, L
  <2>3. d <= L => ~DifferAt(e, d)
    <3>1. In(e) \in g.own /\ Out(e) \in g.own
      BY <1>14 DEF Owned
    <3>2. d <= L => omega[In(e)][d] = j - 1 /\ omega[Out(e)][d] = j - 1
      BY <1>5, <1>6, <1>8, <1>21, <3>1 DEF g
    <3> QED
      BY <3>2 DEF DifferAt
  <2>4. d < L => d <= L
    BY <1>2, <1>6
  <2>5. Good(e, D)
    <3>1. Good(e, d)
      BY <1>9, <1>14 DEF Sound
    <3>2. d <= L /\ Decides(e, d) => d < L /\ sign[e][d] # "bad" /\ ~DifferAt(e, d)
      BY <2>2, <2>3 DEF Decides, L
    <3> QED
      BY <1>11, <3>1, <3>2 DEF Right
  <2>6. d < L /\ sign[e][d] # "zero" => Decides(e, d)
    BY DEF Decides, L
  <2>7. Truthful(e, D)
    BY <1>10, <1>12, <2>2, <2>4, <2>6
  <2>8. e \notin g.activeEdges => Settled(e, D)
    BY <1>12, <2>2, <2>4, <2>5, <2>6, <2>7 DEF Settled
  <2> QED
    BY <1>14, <2>5, <2>7, <2>8 DEF Open
\* An edge between two bases: the fusion omegas say all.
<1>15. CASE e \in Open(w) /\ e \notin Owned(g)
  <2>1. PICK a \in K : In(e) \in s[a].own
    BY <1>4, <1>15 DEF Open, Owned
  <2>2. PICK c \in K : Out(e) \in s[c].own
    BY <1>4, <1>15 DEF Open, Owned
  <2>3. a # c
    <3>1. SUFFICES ASSUME a = c PROVE FALSE
      OBVIOUS
    <3>2. s[a].own \intersect g.own # {}
      BY <2>1, <2>2, <3>1 DEF Touches
    <3>3. a = j
      BY <1>3, <1>5, <3>2 DEF g
    <3> QED
      BY <1>15, <2>1, <2>2, <3>1, <3>3 DEF Owned, g
  <2>4. a < c /\ a \in Int /\ c \in Int
    <3>1. a \in Int /\ c \in Int /\ ~(c < a)
      BY <1>1, <1>20, <2>1, <2>2
    <3> QED
      BY <2>3, <3>1
  <2>5. Sound(e, d) /\ Good(e, d)
    BY <1>9, <1>15 DEF Sound
  <2>6. Truthful(e, d)
    <3>1. \A k \in K : e \notin Owned(s[k])
      <4> SUFFICES ASSUME NEW k \in K, e \in Owned(s[k]) PROVE FALSE
        OBVIOUS
      <4>1. In(e) \in s[k].own /\ Out(e) \in s[k].own
        BY DEF Owned
      <4>2. k = a /\ k = c
        BY <1>3, <2>1, <2>2, <4>1
      <4> QED
        BY <2>3, <4>2
    <3> QED
      BY <1>1, <1>7, <1>15, <3>1
  <2>7. d <= L => Decides(e, d) /\ Right(e, d)
    <3> SUFFICES ASSUME d <= L PROVE Decides(e, d) /\ Right(e, d)
      OBVIOUS
    <3>1. omega[In(e)][d] = a - 1 /\ omega[Out(e)][d] = c - 1
      BY <1>6, <1>8, <1>21, <2>1, <2>2
    <3>2. omega[In(e)][d] < omega[Out(e)][d] /\ omega[In(e)][d] # omega[Out(e)][d]
      BY <2>4, <3>1
    <3> QED
      BY <3>2 DEF Decides, Right, DifferAt
  <2>8. Good(e, D)
    BY <1>11, <2>5, <2>7
  <2>9. Decided(e, D) \/ L < D
    <3>1. d <= L \/ L < D
      BY <1>2, <1>6
    <3> QED
      BY <1>12, <2>7, <3>1
  <2>10. e \notin Open(g)
    BY <1>15 DEF Open
  <2> QED
    BY <1>10, <2>6, <2>8, <2>9, <2>10 DEF Settled, L
<1> QED
  BY <1>13, <1>14, <1>15

\* The same for the bases bs of a split s.
FusedReady ==
  TypeOK =>
    \A d \in Row : \A s : \A bs \in Seq(Nat) :
      LET K == {bs[j] : j \in 1 .. Len(bs)}
      IN  /\ \A k \in K : s[k] \in GraphType
          /\ \A j \in 1 .. Len(bs) : \A k \in 1 .. j - 1 : bs[k] < bs[j]
          /\ Parts(s, K, K, d)
          /\ \A j \in 1 .. Len(bs) : Closed(s[bs[j]], j - 1, d)
          => \A j \in 1 .. Len(bs) : Ready(s[bs[j]], d + 1)

LEMMA FusedReadyNow == FusedReady
<1> SUFFICES ASSUME TypeOK, NEW d \in Row, NEW s, NEW bs \in Seq(Nat),
                    \A k \in {bs[j] : j \in 1 .. Len(bs)} : s[k] \in GraphType,
                    \A j \in 1 .. Len(bs) : \A k \in 1 .. j - 1 : bs[k] < bs[j],
                    Parts(s, {bs[j] : j \in 1 .. Len(bs)}, {bs[j] : j \in 1 .. Len(bs)}, d),
                    \A j \in 1 .. Len(bs) : Closed(s[bs[j]], j - 1, d),
                    NEW j \in 1 .. Len(bs)
             PROVE  Ready(s[bs[j]], d + 1)
  BY DEF FusedReady
<1> DEFINE n == Len(bs)
           K == {bs[k] : k \in 1 .. n}
           gs == [k \in 1 .. n |-> s[bs[k]]]
           w == Joint(s, K)
<1>1. n \in Nat /\ \A k \in 1 .. n : gs[k] = s[bs[k]] /\ bs[k] \in K
  OBVIOUS
<1>2. \A k \in K : \E a \in 1 .. n : k = bs[a]
  OBVIOUS
<1>3. Joint(gs, 1 .. n) = w
  <2>1. {gs[k].own : k \in 1 .. n} = {s[k].own : k \in K}
    OBVIOUS
  <2>2. {gs[k].activeEdges : k \in 1 .. n} = {s[k].activeEdges : k \in K}
    OBVIOUS
  <2> HIDE DEF gs, K, n
  <2> QED
    BY <2>1, <2>2 DEF Joint
<1>4. \A a, c \in 1 .. n : a < c => bs[a] < bs[c]
  <2>1. \A a, c \in 1 .. n : a < c => a \in 1 .. c - 1
    OBVIOUS
  <2> QED
    BY <2>1
<1>5. \A k \in 1 .. n : gs[k] \in GraphType /\ Closed(gs[k], k - 1, d)
  <2>1. \A k \in 1 .. n : s[bs[k]] \in GraphType /\ Closed(s[bs[k]], k - 1, d)
    OBVIOUS
  <2> HIDE DEF gs, K, n
  <2> QED
    BY <1>1, <2>1
<1>6. Parts(s, K, K, d)
  OBVIOUS
<1>7. j \in 1 .. n
  OBVIOUS
<1> HIDE DEF n, K, gs, w
<1>8. Parts(gs, 1 .. n, 1 .. n, d)
  <2>1. /\ \A a, c \in K : a < c => /\ s[a].nodeIds \intersect s[c].nodeIds = {}
                                    /\ \A e \in Edge : ~(In(e) \in s[c].own /\ Out(e) \in s[a].own)
        /\ \A k \in K : \A e \in w.activeEdges \ s[k].activeEdges : Within(e, s[k].nodeIds)
        /\ Pending(w, d)
        /\ \A e \in Open(w) : Clean(e, d) => Truthful(e, d) \/ \E k \in K : e \in Owned(s[k])
        /\ \A k \in K : RowSolved(s[k], w.activeEdges, d)
    BY <1>6 DEF Parts, w
  <2>2. \A a, c \in 1 .. n : a < c => /\ gs[a].nodeIds \intersect gs[c].nodeIds = {}
                                    /\ \A e \in Edge : ~(In(e) \in gs[c].own /\ Out(e) \in gs[a].own)
    <3> SUFFICES ASSUME NEW a \in 1 .. n, NEW c \in 1 .. n, a < c
                 PROVE  /\ gs[a].nodeIds \intersect gs[c].nodeIds = {}
                        /\ \A e \in Edge : ~(In(e) \in gs[c].own /\ Out(e) \in gs[a].own)
      OBVIOUS
    <3>1. gs[a] = s[bs[a]] /\ gs[c] = s[bs[c]] /\ bs[a] \in K /\ bs[c] \in K /\ bs[a] < bs[c]
      BY <1>1, <1>4
    <3>2. /\ s[bs[a]].nodeIds \intersect s[bs[c]].nodeIds = {}
          /\ \A e \in Edge : ~(In(e) \in s[bs[c]].own /\ Out(e) \in s[bs[a]].own)
      BY <2>1, <3>1
    <3> QED
      BY <3>1, <3>2
  <2>3. \A k \in 1 .. n : \A e \in w.activeEdges \ gs[k].activeEdges : Within(e, gs[k].nodeIds)
    BY <1>1, <2>1
  <2>4. \A e \in Open(w) : Clean(e, d) => Truthful(e, d) \/ \E k \in 1 .. n : e \in Owned(gs[k])
    BY <1>1, <1>2, <2>1
  <2>5. \A k \in 1 .. n : RowSolved(gs[k], w.activeEdges, d)
    BY <1>1, <2>1
  <2> QED
    BY <1>3, <2>1, <2>2, <2>3, <2>4, <2>5 DEF Parts
<1>9. Ready(gs[j], d + 1)
  BY <1>1, <1>5, <1>7, <1>8, PartsReady
<1> QED
  BY <1>1, <1>7, <1>9

LEMMA FusedReadyNext == FusedReady'
  BY FusedReadyNow, PTL

----------------------------------------------------------------------------
(* breakGraph calls optimize for its bases, one after the other.           *)

LEMMA TailOfSeq ==
  ASSUME NEW S, NEW s \in Seq(S), s # <<>>
  PROVE  /\ Len(s) \in Nat \ {0} /\ Head(s) = s[1] /\ Head(s) \in S /\ 1 \in 1 .. Len(s)
         /\ Len(Tail(s)) = Len(s) - 1 /\ \A k \in 1 .. Len(s) - 1 : k + 1 \in 1 .. Len(s) /\ Tail(s)[k] = s[k + 1]
  OBVIOUS

LEMMA NestLegal ==
  ASSUME Typed, Typed', StackInv, DoneInv, frames # <<>>, block \in Blocks, block' = block, ~Failing,
         NEW gs \in Seq(GraphType), NEW D \in 0 .. MaxLoops, NEW sat \in SUBSET Edge, Nest(sat, gs, D),
         \A k \in 1 .. Len(gs) : Ready(gs[k], D)',
         \A j, k \in 1 .. Len(gs) : j # k => gs[j].own \intersect gs[k].own = {},
         gs # <<>> => GraphsOf(Top) # {}, Top.d <= D,
         \A k \in 1 .. Len(gs) : gs[k].activeEdges \subseteq UNION {h.activeEdges : h \in GraphsOf(Top)},
         UNION {gs[k].own : k \in 1 .. Len(gs)} = UNION {h.own : h \in GraphsOf(Top)},
         Undone(Top) = UNION {h.own : h \in GraphsOf(Top)},
         NEW N \in SUBSET Undone(Top), NEW A, NEW d, Stable(N, A, d), WaitingInv
  PROVE  StackInv' /\ DoneInv'
<1> DEFINE n == Len(gs)
           U == Undone(Top)
<1>1. D \in Nat /\ D <= D /\ n \in Nat
  BY LoopAssumption
<1>4. U = UNION {gs[k].own : k \in 1 .. n}
  OBVIOUS
<1>2. CASE gs = <<>>
  <2> DEFINE ok == TRUE
  <2>1. Returns(ok, sat) /\ ok \in BOOLEAN /\ ok
    BY <1>2 DEF Nest
  <2>2. U = {} /\ N = {}
    <3>1. n = 0
      BY <1>2
    <3>2. UNION {gs[k].own : k \in 1 .. n} = {}
      BY <3>1
    <3> QED
      BY <3>2
  <2>3. \A e : ~Touches(e, U) /\ ~Touches(e, N)
    BY <2>2 DEF Touches
  <2> HIDE DEF ok
  <2>4. StackInv'
    BY <2>1, StackReturns
  <2>5. ASSUME NEW e \in Edge, Finished(e)' PROVE Finished(e)
    BY <2>1, <2>3, <2>5, FinishedReturns
  <2> QED
    BY <2>3, <2>4, <2>5, DoneStep
<1>3. CASE gs # <<>>
  <2>1. PICK m : m = calcMaxDepth(Head(gs))
    OBVIOUS
  <2> DEFINE h == Head(gs)
             r == Tail(gs)
             f == [fn |-> "breakGraph", at |-> "nested", d |-> D, sat |-> sat, graphs |-> r]
             c == optimize(h, D, m)
  <2>2. /\ n \in Nat \ {0} /\ h = gs[1] /\ h \in GraphType /\ 1 \in 1 .. n
        /\ Len(r) = n - 1 /\ \A k \in 1 .. n - 1 : k + 1 \in 1 .. n /\ r[k] = gs[k + 1]
    BY <1>3, TailOfSeq
  <2>3. Calls(f, c)
    BY <1>3, <2>1 DEF Nest
  <2>4. /\ f.fn = "breakGraph" /\ f.at = "nested" /\ f.d = D /\ f.graphs = r
        /\ c.fn = "optimize" /\ c.at = "start" /\ c.d = D /\ c.g = h /\ c.maxDepth = m /\ c.backup = h.activeEdges
    BY DEF optimize
  <2> HIDE DEF n, U, h, r, f, c
  <2>5. f \in FrameType /\ c \in FrameType
    BY <2>3, CallsOfFrames
  <2>6. \A j \in 1 .. n : j = 1 \/ \E k \in 1 .. n - 1 : j = k + 1
    <3> SUFFICES ASSUME NEW j \in 1 .. n, j # 1 PROVE \E k \in 1 .. n - 1 : j = k + 1
      OBVIOUS
    <3>1. j - 1 \in 1 .. n - 1 /\ j = (j - 1) + 1
      BY <2>2
    <3> QED
      BY <3>1
  <2>7. GraphsOf(f) = {r[k] : k \in 1 .. n - 1} /\ GraphsOf(c) = {h}
    BY <2>2, <2>4 DEF GraphsOf
  <2>8. \A k \in 1 .. n - 1 : r[k] = gs[k + 1] /\ k + 1 \in 1 .. n /\ k + 1 # 1
    BY <2>2
  <2>9. FrameInv(f)'
    <3>1. \A k \in 1 .. Len(r) : Ready(r[k], D)'
      BY <2>2, <2>8 DEF n
    <3>2. ASSUME NEW j \in 1 .. Len(r), NEW k \in 1 .. Len(r), j # k
          PROVE  r[j].own \intersect r[k].own = {}
      <4>1. j + 1 # k + 1 /\ j \in 1 .. n - 1 /\ k \in 1 .. n - 1
        BY <2>2, <3>2
      <4>2. j + 1 \in 1 .. n /\ k + 1 \in 1 .. n /\ r[j] = gs[j + 1] /\ r[k] = gs[k + 1]
        BY <2>8, <4>1
      <4> QED
        BY <4>1, <4>2 DEF n
    <3> QED
      BY <2>4, <3>1, <3>2 DEF FrameInv
  <2>10. FrameInv(c)'
    <3>1. Ready(h, D)'
      BY <2>2 DEF n
    <3>2. Covers(m, h)'
      <4>1. \A k \in h.nodeIds : block.nodeLoops[k] <= m
        BY <2>1, <2>2, MaxDepthFacts DEF h
      <4> QED
        BY <2>2, <4>1 DEF Covers, GraphType
    <3> QED
      BY <2>4, <3>1, <3>2 DEF FrameInv
  <2>11. Under(c, f)
    <3> SUFFICES ASSUME NEW g \in GraphsOf(f) PROVE h.own \intersect g.own = {}
      BY <1>1, <2>4, <2>7 DEF Under
    <3>1. PICK k \in 1 .. n - 1 : g = r[k]
      BY <2>7
    <3> QED
      BY <2>2, <2>8, <3>1 DEF n
  <2>12. \A g \in GraphsOf(f) \union GraphsOf(c) : \E k \in 1 .. n : g = gs[k]
    <3>1. \A g \in GraphsOf(f) : \E k \in 1 .. n : g = gs[k]
      BY <2>7, <2>8
    <3> QED
      BY <2>2, <2>7, <3>1
  <2>13. \A g \in GraphsOf(f) \union GraphsOf(c) :
           /\ g.own \subseteq UNION {x.own : x \in GraphsOf(Top)}
           /\ g.activeEdges \subseteq UNION {x.activeEdges : x \in GraphsOf(Top)}
    <3> SUFFICES ASSUME NEW g \in GraphsOf(f) \union GraphsOf(c)
                 PROVE  /\ g.own \subseteq UNION {x.own : x \in GraphsOf(Top)}
                        /\ g.activeEdges \subseteq UNION {x.activeEdges : x \in GraphsOf(Top)}
      OBVIOUS
    <3>1. PICK k \in 1 .. n : g = gs[k]
      BY <2>12
    <3>2. g.own \subseteq UNION {gs[j].own : j \in 1 .. n}
      BY <3>1
    <3> QED
      BY <3>1, <3>2 DEF n
  <2>14. Spans(f, Top) /\ Spans(c, Top)
    BY <1>3, <2>4, <2>13 DEF Spans
  <2>15. StackInv'
    <3>1. f.at = "nested" /\ c.at # "nested"
      BY <2>4
    <3> QED
      BY <2>3, <2>5, <2>9, <2>10, <2>11, <2>14, <3>1, StackCalls
  <2>16. Undone(f) = UNION {g.own : g \in GraphsOf(f)} /\ Undone(c) = h.own
    BY <2>4, <2>7 DEF Undone
  <2>17. U \subseteq Undone(f) \union Undone(c)
    <3> SUFFICES ASSUME NEW x \in U PROVE x \in Undone(f) \union Undone(c)
      OBVIOUS
    <3>1. PICK j \in 1 .. n : x \in gs[j].own
      BY <1>4
    <3>2. CASE j = 1
      BY <2>2, <2>16, <3>1, <3>2
    <3>3. CASE j # 1
      <4>1. PICK k \in 1 .. n - 1 : j = k + 1
        BY <2>6, <3>3
      <4>2. r[k] \in GraphsOf(f) /\ x \in r[k].own
        BY <2>7, <2>8, <3>1, <4>1
      <4> QED
        BY <2>16, <4>2
    <3> QED
      BY <3>2, <3>3
  <2>18. ASSUME NEW e \in Edge, Finished(e)' PROVE Finished(e) /\ ~Touches(e, N)
    <3>1. Finished(e) /\ ~Touches(e, Undone(f)) /\ ~Touches(e, Undone(c))
      BY <2>3, <2>5, <2>17, <2>18, FinishedCalls DEF U
    <3> QED
      BY <2>17, <3>1 DEF Touches, U
  <2> QED
    BY <2>15, <2>18, DoneStep
<1> QED
  BY <1>2, <1>3

LEMMA BreakAllFusedLegal ==
  ASSUME LegalInv, Typed', BreakAllFused
  PROVE  StackInv' /\ DoneInv'
<1>1. PICK t : t = Top
  OBVIOUS
<1> DEFINE s == t.graphs
           bs == t.bases
           n == Len(bs)
           b == bs[n]
           K == Unfused(t)
           i == t.i
           d == t.d
           g == s[b]
           w == Joint(s, K)
           none == {}
           D == d + 1
<1>2. /\ Typed /\ StackInv /\ DoneInv /\ frames # <<>> /\ block \in Blocks /\ ~Failing
      /\ Top.fn = "breakGraph" /\ Top.at = "fuse" /\ t \in BreakFusing /\ t \in FrameType
      /\ d \in Row /\ d \in Nat /\ i \in Nat \ {0} /\ s \in Seq(GraphType) /\ bs \in Seq(Nat)
      /\ n \in Nat \ {0} /\ n \in 1 .. n
      /\ K \in SUBSET (1 .. Len(s)) /\ \A k \in K : s[k] \in GraphType
      /\ K = {bs[j] : j \in 1 .. n} \union (i .. Len(s))
      /\ Parts(s, K, K, d)
      /\ \A j \in 1 .. n : bs[j] < i /\ bs[j] \in K /\ bs[j] \in Nat /\ \A k \in 1 .. j - 1 : bs[k] < bs[j]
      /\ \A j \in 1 .. n - 1 : Closed(s[bs[j]], j - 1, d)
      /\ GraphsOf(Top) = {s[k] : k \in K} /\ Undone(Top) = w.own
      /\ At("breakGraph", "fuse")
  <2>1. At("breakGraph", "fuse")
    BY DEF BreakAllFused
  <2> QED
    BY <1>1, <2>1, FuseTop
<1>3. PICK gs : gs = [k \in DOMAIN bs |-> s[bs[k]]]
  OBVIOUS
<1>4. i > Len(s) /\ SetFusionOmega(g, d, n - 1) /\ Nest(t.sat, gs, D)
  BY <1>1, <1>3 DEF BreakAllFused, Base, Graphs
<1>5. /\ Stable(g.own, none, d) /\ block' = block
      /\ Parts(s, K, K, d)'
      /\ \A j \in 1 .. n : Closed(s[bs[j]], j - 1, d)'
      /\ WaitingInv
  BY <1>1, <1>2, <1>4, BasesClosed, Zenon
<1>6. t.sat \in SUBSET Edge
  BY <1>2, FusingFrame
<1>7. D \in 0 .. MaxLoops /\ Top.d <= D
  <2>1. D \in 0 .. MaxLoops /\ d <= D
    BY <1>2, LoopAssumption DEF Row
  <2> QED
    BY <1>1, <2>1
<1>8. K = {bs[j] : j \in 1 .. n}
  <2>1. i .. Len(s) = {}
    <3>1. i \in Nat /\ Len(s) \in Nat
      BY <1>2
    <3> QED
      BY <1>4, <3>1
  <2> QED
    BY <1>2, <2>1
<1>9. gs \in Seq(GraphType) /\ Len(gs) = n /\ \A k \in 1 .. n : gs[k] = s[bs[k]]
  <2>1. DOMAIN bs = 1 .. n
    BY <1>2
  <2>2. gs \in [1 .. n -> GraphType]
    <3>1. \A k \in 1 .. n : s[bs[k]] \in GraphType
      BY <1>2
    <3> HIDE DEF s, bs, n
    <3> QED
      BY <1>3, <2>1, <3>1
  <2>3. gs \in Seq(GraphType) /\ Len(gs) = n
    BY <1>2, <2>2, FunctionIsSeq
  <2> QED
    BY <1>3, <2>1, <2>3
<1>10. \A k \in 1 .. n : Ready(s[bs[k]], d + 1)'
  <2>1. TypeOK'
    BY DEF Typed
  <2>2. /\ \A k \in {bs[j] : j \in 1 .. n} : s[k] \in GraphType
        /\ \A j \in 1 .. n : \A k \in 1 .. j - 1 : bs[k] < bs[j]
        /\ Parts(s, {bs[j] : j \in 1 .. n}, {bs[j] : j \in 1 .. n}, d)'
    BY <1>2, <1>5, <1>8
  <2> HIDE DEF s, bs, d
  <2> QED
    BY <1>2, <1>5, <2>1, <2>2, FusedReadyNext DEF FusedReady
<1> HIDE DEF s, bs, n, b, K, i, d, g, w, none
<1>11. \A k \in 1 .. n : bs[k] \in K /\ gs[k] = s[bs[k]]
  BY <1>8, <1>9
<1>12. \A k \in 1 .. Len(gs) : Ready(gs[k], D)'
  BY <1>9, <1>10
<1>13. ASSUME NEW j \in 1 .. Len(gs), NEW k \in 1 .. Len(gs), j # k
       PROVE  gs[j].own \intersect gs[k].own = {}
  <2>1. j \in 1 .. n /\ k \in 1 .. n /\ (j < k \/ k < j)
    BY <1>9, <1>13
  <2>2. \A a, c \in 1 .. n : a < c => bs[a] < bs[c]
    <3>1. \A a, c \in 1 .. n : a < c => a \in 1 .. c - 1
      OBVIOUS
    <3> QED
      BY <1>2, <3>1
  <2>3. \A a, c \in 1 .. n : a < c => s[bs[a]].nodeIds \intersect s[bs[c]].nodeIds = {}
    BY <1>2, <1>11, <2>2 DEF Parts
  <2>4. s[bs[j]].own \subseteq s[bs[j]].nodeIds /\ s[bs[k]].own \subseteq s[bs[k]].nodeIds
    BY <1>2, <1>11, <2>1 DEF GraphType
  <2>5. s[bs[j]].nodeIds \intersect s[bs[k]].nodeIds = {}
    BY <2>1, <2>3
  <2> QED
    BY <1>11, <2>1, <2>4, <2>5
<1>14. GraphsOf(Top) = {gs[k] : k \in 1 .. n} /\ GraphsOf(Top) # {}
  <2>1. {s[k] : k \in K} = {s[bs[k]] : k \in 1 .. n}
    BY <1>8
  <2>2. {s[bs[k]] : k \in 1 .. n} = {gs[k] : k \in 1 .. n}
    BY <1>11
  <2> QED
    BY <1>2, <2>1, <2>2
<1>15. \A k \in 1 .. Len(gs) : gs[k].activeEdges \subseteq UNION {h.activeEdges : h \in GraphsOf(Top)}
  BY <1>9, <1>14
<1>16. UNION {gs[k].own : k \in 1 .. Len(gs)} = UNION {h.own : h \in GraphsOf(Top)}
  BY <1>9, <1>14
<1>17. Undone(Top) = UNION {h.own : h \in GraphsOf(Top)}
  <2>1. w.own = UNION {s[k].own : k \in K}
    BY JointFacts DEF w
  <2>2. {h.own : h \in {s[k] : k \in K}} = {s[k].own : k \in K}
    OBVIOUS
  <2> QED
    BY <1>2, <2>1, <2>2
<1>18. g.own \in SUBSET Undone(Top)
  <2>1. b \in K
    BY <1>2 DEF b
  <2>2. g.own \subseteq w.own
    BY <2>1, JointFacts DEF w, g
  <2> QED
    BY <1>2, <2>2
<1> DEFINE N == g.own
           sat == t.sat
<1>19. N \in SUBSET Undone(Top) /\ Stable(N, none, d) /\ sat \in SUBSET Edge /\ Nest(sat, gs, D)
  BY <1>4, <1>5, <1>6, <1>18
<1> HIDE DEF N, sat, D
<1> QED
  BY <1>2, <1>5, <1>7, <1>9, <1>12, <1>13, <1>14, <1>15, <1>16, <1>17, <1>19, NestLegal

LEMMA BreakNestedLegal ==
  ASSUME LegalInv, Typed', BreakNested
  PROVE  StackInv' /\ DoneInv'
<1>1. /\ Typed /\ StackInv /\ DoneInv /\ frames # <<>> /\ Unsolved /\ Still /\ block \in Blocks /\ block' = block
      /\ Top.fn = "breakGraph" /\ Top.at = "nested" /\ ret.done /\ ret \in RetType
  <2>1. Unsolved /\ At("breakGraph", "nested")
    BY DEF BreakNested
  <2>2. Still
    BY <2>1, UnsolvedStill
  <2> QED
    BY <2>1, <2>2 DEF LegalInv, At, Typed, TypeOK, Still
<1>2. CASE ~ret.ok
  <2>1. Returns(FALSE, {})
    BY <1>2 DEF BreakNested
  <2> QED
    BY <1>1, <2>1, BreakReturnsLegal
<1>3. CASE ret.ok
  <2>1. PICK t : t = Top
    OBVIOUS
  <2>2. PICK sat : sat = Top.sat \union ret.sat
    OBVIOUS
  <2> DEFINE gs == t.graphs
             D == t.d
             none == {}
  <2>3. Nest(sat, gs, D) /\ ~Failing
    BY <1>3, <2>1, <2>2 DEF BreakNested, Graphs, Failing
  <2>4. FrameInv(t) /\ t \in BreakNesting
    BY <1>1, <2>1, TopInv, TopIsFrame, FrameKinds
  <2>5. /\ \A k \in 1 .. Len(gs) : Ready(gs[k], D)
        /\ \A j, k \in 1 .. Len(gs) : j # k => gs[j].own \intersect gs[k].own = {}
    BY <1>1, <2>1, <2>4 DEF FrameInv
  <2>6. gs \in Seq(GraphType) /\ D \in 0 .. MaxLoops /\ t.sat \in SUBSET Edge
    BY <2>4 DEF BreakNesting
  <2>7. sat \in SUBSET Edge
    BY <1>1, <2>1, <2>2, <2>6 DEF RetType
  <2>8. GraphsOf(Top) = {gs[k] : k \in 1 .. Len(gs)} /\ Undone(Top) = UNION {h.own : h \in GraphsOf(Top)}
    BY <1>1, <2>1 DEF GraphsOf, Undone
  <2>9. gs # <<>> => GraphsOf(Top) # {}
    <3> SUFFICES ASSUME gs # <<>> PROVE GraphsOf(Top) # {}
      OBVIOUS
    <3>1. 1 \in 1 .. Len(gs)
      BY <2>6
    <3>2. gs[1] \in GraphsOf(Top)
      BY <2>8, <3>1
    <3> QED
      BY <3>2
  <2>10. D \in Nat /\ Top.d <= D
    <3>1. D \in Nat /\ D <= D
      BY <2>6
    <3> QED
      BY <2>1, <3>1
  <2> HIDE DEF gs, D, none
  <2>11. \A k \in 1 .. Len(gs) : gs[k].activeEdges \subseteq UNION {h.activeEdges : h \in GraphsOf(Top)}
    BY <2>8
  <2>12. UNION {gs[k].own : k \in 1 .. Len(gs)} = UNION {h.own : h \in GraphsOf(Top)}
    BY <2>8
  <2>13. \A k \in 1 .. Len(gs) : Ready(gs[k], D)'
    BY <1>1, <2>5, <2>10, StillKept
  <2>14. WaitingInv /\ Stable(none, none, D) /\ none \in SUBSET Undone(Top)
    <3>1. none \in SUBSET Undone(Top)
      BY DEF none
    <3> QED
      BY <1>1, <3>1, WaitingStill, StillStable
  <2> QED
    BY <1>1, <2>3, <2>5, <2>6, <2>7, <2>8, <2>9, <2>10, <2>11, <2>12, <2>13, <2>14, NestLegal
<1> QED
  BY <1>2, <1>3

LEMMA BreakStops ==
  ASSUME LegalInv, BreakWhole \/ BreakUnsolved
  PROVE  StackInv' /\ DoneInv'
<1>1. frames # <<>> /\ Top.fn = "breakGraph" /\ Unsolved /\ Returns(FALSE, {})
  BY DEF BreakWhole, BreakUnsolved, At
<1> QED
  BY <1>1, BreakReturnsLegal

----------------------------------------------------------------------------
(* The first call, of Init and of Retry, and the steps that do nothing.     *)

\* A call for the whole block: nothing is decided yet, and every edge that is set
\* or apart is marked.
FirstCall ==
  \A m :
    /\ block \in Blocks /\ m = calcMaxDepth(fullGraph)
    /\ frames = <<optimize(fullGraph, 0, m)>> /\ ~ret.done
    /\ \A e \in Edge : e \in stale \/ satLvl[e][1] = Unset
    /\ \A e \in Edge, r \in 0 .. MaxLoops : DifferAt(e, r) => <<e, r>> \in stray
    => StackInv /\ DoneInv

LEMMA FirstCallNow == FirstCall
<1> SUFFICES ASSUME NEW m, block \in Blocks, m = calcMaxDepth(fullGraph),
                    frames = <<optimize(fullGraph, 0, m)>>, ~ret.done,
                    \A e \in Edge : e \in stale \/ satLvl[e][1] = Unset,
                    \A e \in Edge, r \in 0 .. MaxLoops : DifferAt(e, r) => <<e, r>> \in stray
             PROVE  StackInv /\ DoneInv
  BY DEF FirstCall
<1> DEFINE g == fullGraph
           c == optimize(g, 0, m)
<1>1. /\ c.fn = "optimize" /\ c.at = "start" /\ c.g = g /\ c.d = 0 /\ c.maxDepth = m /\ c.backup = g.activeEdges
      /\ g.own = Node /\ g.activeEdges = Edge /\ g.nodeIds = Node
  BY DEF optimize, fullGraph
<1>2. Open(g) = Edge /\ \A e \in Edge : In(e) \in Node /\ Out(e) \in Node /\ block.edgeLoops[e] \in 1 .. MaxLoops
  <2>1. \A e \in Edge : In(e) \in Node /\ Out(e) \in Node /\ block.edgeLoops[e] \in 1 .. MaxLoops
    BY BlockFacts
  <2> QED
    BY <1>1, <2>1 DEF Open, Owned
<1>3. Len(frames) = 1 /\ frames[1] = c
  OBVIOUS
<1> HIDE DEF g, c
<1>4. Pending(g, 0)
  <2> SUFFICES ASSUME NEW e \in Edge PROVE Good(e, 0) /\ ~(block.edgeLoops[e] <= 0)
    BY <1>2 DEF Pending, Sound
  <2>1. block.edgeLoops[e] \in Nat /\ ~(block.edgeLoops[e] <= 0)
    BY <1>2, LoopAssumption
  <2> QED
    BY <2>1 DEF Good
<1>5. Fresh(g, 0)
  BY <1>2 DEF Fresh, Truthful
<1>6. Agree(g, 0 .. MaxLoops)
  BY <1>2 DEF Agree, AgreeAt
<1>7. Covers(m, g)
  <2>1. g \in GraphType
    BY FullGraphType DEF g
  <2> QED
    BY <1>1, <2>1, MaxDepthFacts DEF Covers, g
<1>8. FrameInv(c)
  BY <1>1, <1>4, <1>5, <1>6, <1>7 DEF FrameInv, Ready
<1>9. StackInv
  <2>1. \A k \in 1 .. Len(frames) : k = 1 /\ ~(k < Len(frames))
    BY <1>3
  <2>2. \A k \in 1 .. Len(frames) : frames[k] = c
    BY <1>3, <2>1
  <2>3. \A l \in 1 .. Len(frames) : \A k \in 1 .. l - 1 : FALSE
    BY <2>1
  <2> QED
    BY <1>1, <1>8, <2>1, <2>2, <2>3 DEF StackInv
<1>10. \A e \in Edge : ~Finished(e)
  <2>1. Undone(c) = Node
    BY <1>1 DEF Undone, GraphsOf
  <2>2. 1 \in 1 .. Len(frames)
    BY <1>3
  <2>3. \A e \in Edge : Touches(e, Undone(frames[1]))
    BY <1>2, <1>3, <2>1 DEF Touches
  <2> QED
    BY <2>2, <2>3 DEF Finished
<1> QED
  BY <1>9, <1>10 DEF DoneInv

LEMMA FirstCallNext == FirstCall'
  BY FirstCallNow, PTL

LEMMA InitLegal ==
  ASSUME Init
  PROVE  LegalInv
<1>1. PICK m : m = calcMaxDepth(fullGraph)
  OBVIOUS
<1>2. block \in Blocks /\ frames = <<optimize(fullGraph, 0, m)>> /\ ~ret.done
  BY <1>1 DEF Init, NoRet
<1>3. \A e \in Edge : satLvl[e][1] = Unset
  BY LoopAssumption DEF Init
<1>4. \A e \in Edge, r \in 0 .. MaxLoops : ~DifferAt(e, r)
  <2>1. \A e \in Edge : In(e) \in Node /\ Out(e) \in Node
    BY <1>2, BlockFacts
  <2>2. \A n \in Node, r \in 0 .. MaxLoops : omega[n][r] = 0
    BY DEF Init
  <2> QED
    BY <2>1, <2>2 DEF DifferAt
<1>5. StackInv /\ DoneInv
  BY <1>1, <1>2, <1>3, <1>4, FirstCallNow DEF FirstCall
<1> QED
  BY <1>5, InitTyped DEF LegalInv

LEMMA RetryLegal ==
  ASSUME LegalInv, Retry
  PROVE  StackInv' /\ DoneInv'
<1>1. PICK m : m = calcMaxDepth(fullGraph)
  OBVIOUS
<1>2. block \in Blocks /\ block' = block /\ satLvl' = satLvl /\ omega' = omega
  BY DEF Retry, LegalInv, Typed, TypeOK
<1>3. frames' = <<optimize(fullGraph, 0, m)>> /\ ~ret'.done
  BY <1>1 DEF Retry, NoRet
<1>4. m = calcMaxDepth(fullGraph)'
  BY <1>1, <1>2 DEF calcMaxDepth, fullGraph
<1>5. \A e \in Edge : e \in stale' \/ satLvl'[e][1] = Unset
  BY DEF Retry
<1>6. ASSUME NEW e \in Edge, NEW r \in 0 .. MaxLoops, DifferAt(e, r)' PROVE <<e, r>> \in stray'
  <2>1. DifferAt(e, r)
    BY <1>2, <1>6 DEF DifferAt, In, Out
  <2>2. <<e, r>> \in Owned(fullGraph) \X (-1 + 1 .. MaxLoops)
    <3>1. In(e) \in Node /\ Out(e) \in Node
      BY <1>2, BlockFacts
    <3>2. e \in Owned(fullGraph)
      BY <3>1 DEF Owned, fullGraph
    <3>3. -1 + 1 = 0
      OBVIOUS
    <3> QED
      BY <3>2, <3>3
  <2>3. <<e, r>> \in Leftovers(fullGraph, -1)
    BY <2>1, <2>2 DEF Leftovers, DifferAt
  <2> QED
    BY <2>3 DEF Retry
<1> QED
  BY <1>2, <1>3, <1>4, <1>5, <1>6, FirstCallNext DEF FirstCall

LEMMA FrameStill ==
  ASSUME Typed, Still, NEW f \in FrameType, FrameInv(f)
  PROVE  FrameInv(f)'
<1>1. block \in Blocks /\ block' = block
  BY DEF Typed, TypeOK, Still
<1>2. f.at \in {"start", "nested", "solve", "fuse"} /\ f.fn \in {"optimize", "optimizeSatDep", "breakGraph"}
  BY FrameNames
<1>3. CASE f.at \in {"solve", "fuse"}
  BY <1>1, <1>3, SplitStill
<1>4. CASE f.at = "nested"
  <2> DEFINE d == MaxLoops + 1
             N == {}
  <2>1. f.fn # "optimizeSatDep" => f.d < d /\ f.d <= d
    <3>1. f.fn # "optimizeSatDep" => f.d \in 0 .. MaxLoops
      BY <1>4, FrameDepth
    <3>2. MaxLoops \in Int
      BY LoopAssumption
    <3>3. ASSUME NEW m \in 0 .. MaxLoops PROVE m < MaxLoops + 1 /\ m <= MaxLoops + 1
      BY <3>2
    <3> QED
      BY <3>1, <3>3
  <2>2. Stable(N, N, d) /\ d \in Int /\ \A g \in GraphsOf(f) : N \intersect g.own = {}
    BY StillStable, LoopAssumption
  <2>3. f.fn = "optimize" => N \subseteq f.g.own /\ N \subseteq f.backup /\ f.d < d
    BY <2>1
  <2> HIDE DEF d, N
  <2> QED
    BY <1>1, <1>4, <2>1, <2>2, <2>3, WaitingKept
<1>5. CASE f.at = "start"
  <2> DEFINE g == f.g
             d == f.d
  <2>1. d \in Nat
    BY <1>5, FrameDepth, LoopAssumption
  <2> HIDE DEF d, g
  <2>2. /\ Pending(g, d) => Pending(g, d)'
        /\ Fresh(g, d) => Fresh(g, d)'
        /\ Ready(g, d) => Ready(g, d)'
        /\ \A S : Agree(g, S) => Agree(g, S)'
    BY <1>1, <2>1, StillKept
  <2>3. \A m : Covers(m, g) => Covers(m, g)'
    BY <1>1 DEF Covers
  <2> QED
    BY <1>2, <1>5, <2>2, <2>3 DEF FrameInv, d, g
<1> QED
  BY <1>2, <1>3, <1>4, <1>5

LEMMA StutterLegal ==
  ASSUME LegalInv, UNCHANGED vars
  PROVE  StackInv' /\ DoneInv'
<1>1. Typed /\ StackInv /\ DoneInv /\ Still /\ frames' = frames /\ ret' = ret /\ block' = block /\ block \in Blocks
  BY DEF LegalInv, Typed, TypeOK, Still, vars, history
<1>2. \A k \in 1 .. Len(frames) : frames[k] \in FrameType
  <2>1. frames \in Seq(FrameType)
    BY <1>1 DEF Typed
  <2> QED
    BY <2>1, ElementOfSeq
<1>3. ASSUME NEW k \in 1 .. Len(frames), NEW f \in {frames[k]} PROVE FrameInv(f)'
  BY <1>1, <1>2, FrameStill DEF StackInv
<1>4. StackInv'
  <2>1. \A k \in 1 .. Len(frames) : \A f \in {frames[k]} : FrameInv(f)'
    BY <1>3
  <2>2. /\ \A k \in 1 .. Len(frames) : frames[k].at = "nested" <=> (k < Len(frames) \/ ret.done)
        /\ \A l \in 1 .. Len(frames) : \A k \in 1 .. l - 1 : Under(frames[l], frames[k])
    BY <1>1 DEF StackInv
  <2> QED
    BY <1>1, <2>1, <2>2 DEF StackInv
<1>5. ASSUME NEW e \in Edge, Finished(e)' PROVE Finished(e)
  <2>1. \A N : Touches(e, N)' <=> Touches(e, N)
    BY <1>1, SameEnds
  <2> QED
    BY <1>1, <1>5, <2>1 DEF Finished, Failing, LastAttempt
<1> DEFINE N == {}
           d == 0
<1>6. Stable(N, N, d) /\ \A e : ~Touches(e, N)
  BY <1>1, StillStable DEF Touches
<1> HIDE DEF N, d
<1> QED
  BY <1>1, <1>4, <1>5, <1>6, DoneStep

LEMMA NextLegal ==
  ASSUME LegalInv, [Next]_vars
  PROVE  LegalInv'
<1>1. Typed'
  BY NextTyped DEF LegalInv
<1>2. CASE Optimize
  BY <1>1, <1>2, OptimizeLeafLegal, OptimizeSolvedLegal, OptimizeUnsolvedLegal, OptimizeNestedLegal,
     OptimizeNestedFailedLegal DEF Optimize, LegalInv
<1>3. CASE SatDep
  BY <1>1, <1>3, SatDepSolvedLegal, SatDepUnsolvedLegal, SatDepNestedLegal DEF SatDep, LegalInv
<1>4. CASE Break
  BY <1>1, <1>4, BreakStops, BreakSplitLegal, BreakSkipLegal, BreakSolvedLegal, BreakAllSolvedLegal,
     BreakFuseLegal, BreakApartLegal, BreakAllFusedLegal, BreakNestedLegal DEF Break, LegalInv
<1>5. CASE Retry
  BY <1>1, <1>5, RetryLegal DEF LegalInv
<1>6. CASE UNCHANGED vars
  BY <1>1, <1>6, StutterLegal DEF LegalInv
<1> QED
  BY <1>2, <1>3, <1>4, <1>5, <1>6 DEF Next

LEMMA LegalInvIsLegal ==
  ASSUME LegalInv
  PROVE  LegalUnlessOverwritten /\ SatLevelTruthful
<1> SUFFICES ASSUME Succeeded, NEW e \in Edge, Intact(e)
             PROVE  /\ Respected(e)
                    /\ e \notin stale /\ satLvl[e][1] # Unset => \E r \in Deciding(e) : r <= satLevel(e)
  BY DEF LegalUnlessOverwritten, SatLevelTruthful
<1>1. Finished(e)
  <2>1. 1 .. Len(frames) = {} /\ ~Failing
    BY DEF Succeeded, Failing
  <2> QED
    BY <2>1 DEF Finished
<1>2. Good(e, MaxLoops + 1) /\ Truthful(e, MaxLoops + 1)
  BY <1>1 DEF LegalInv, DoneInv
<1> DEFINE L == block.edgeLoops[e]
<1>3. MaxLoops \in Nat /\ L \in Nat /\ L <= MaxLoops
  BY EdgeNumbers DEF LegalInv, Typed, TypeOK
<1>4. Deciding(e) = {r \in 0 .. L : Decides(e, r)} /\ \A r \in 0 .. L : r < MaxLoops + 1
  BY <1>3 DEF Deciding, Decides
<1> HIDE DEF L
<1>5. Respected(e)
  <2> SUFFICES ASSUME NEW r \in Deciding(e), \A k \in Deciding(e) : r <= k PROVE Right(e, r)
    BY DEF Respected, Right
  <2>1. r \in 0 .. L /\ Decides(e, r) /\ r < MaxLoops + 1
    BY <1>4
  <2>2. \A k \in 0 .. r - 1 : ~Decides(e, k)
    <3> SUFFICES ASSUME NEW k \in 0 .. r - 1, Decides(e, k) PROVE FALSE
      OBVIOUS
    <3>1. k \in 0 .. L /\ ~(r <= k)
      BY <1>3, <2>1
    <3> QED
      BY <1>4, <3>1
  <2> QED
    BY <1>2, <2>1, <2>2 DEF Good, L
<1>6. e \notin stale /\ satLvl[e][1] # Unset => \E r \in Deciding(e) : r <= satLevel(e)
  BY <1>2, <1>4 DEF Truthful, L
<1> QED
  BY <1>5, <1>6

(* When optimize succeeds, the schedule executes the input of every          *)
(* dependence before its output, unless its rows or omegas were written for  *)
(* another graph or left by an attempt that failed, or a retry dropped it:   *)
(* solveGraph's rows, the components' order, canFuse, the fusion omegas of   *)
(* breakGraph and the undoing in optimize and optimizeSatDep, for every      *)
(* block, every number of loops and every answer of the linear program.      *)
THEOREM ScheduleLegal == Spec => []LegalUnlessOverwritten
<1>1. Init => LegalInv
  BY InitLegal
<1>2. LegalInv /\ [Next]_vars => LegalInv'
  BY NextLegal
<1>3. LegalInv => LegalUnlessOverwritten
  BY LegalInvIsLegal
<1> QED
  BY <1>1, <1>2, <1>3, PTL DEF Spec

(* The satLevel that LoopTreeSchedule reads is never further out than the    *)
(* level that first orders the dependence or one after it: setSatLevelLP,    *)
(* setSatLevelIndep and the stash of optimizeSatDep keep it true of the      *)
(* schedule that optimize returns.                                           *)
THEOREM LevelsTruthful == Spec => []SatLevelTruthful
<1>1. Init => LegalInv
  BY InitLegal
<1>2. LegalInv /\ [Next]_vars => LegalInv'
  BY NextLegal
<1>3. LegalInv => SatLevelTruthful
  BY LegalInvIsLegal
<1> QED
  BY <1>1, <1>2, <1>3, PTL DEF Spec
==============================================================================
