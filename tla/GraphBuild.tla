----------------------------- MODULE GraphBuild -----------------------------
(***************************************************************************)
(* LoopBlock.hpp: fillEdges, connectGraph and buildGraph make the graph    *)
(* that is scheduled.  A node is a store with the loads that its value is  *)
(* computed from in registers; a load that several stores need is          *)
(* duplicated, and a value that another store keeps is loaded from there.  *)
(* An access is [instr, load, node] and stands for the object; memory      *)
(* holds references to accesses.                                           *)
(***************************************************************************)
EXTENDS Integers, Sequences, FiniteSets

CONSTANTS
  Programs,    \* [memory, loads, array, loops, operands], of instructions
  Directions   \* which edges Dependence.check may return: TRUE is backward

\* Each instruction has at most one access, its operands are instructions, and
\* a store is nobody's operand.
ValidProgram(p) ==
  LET instructions == DOMAIN p.operands
  IN  /\ p.operands \in [instructions -> Seq(instructions)]
      /\ p.memory \in Seq(instructions)
      /\ \A i, j \in DOMAIN p.memory : p.memory[i] = p.memory[j] => i = j
      /\ \A i \in DOMAIN p.memory : p.loops[p.memory[i]] \in Nat
      /\ \A u \in instructions : \A k \in DOMAIN p.operands[u], i \in DOMAIN p.memory :
           p.memory[i] = p.operands[u][k] => p.memory[i] \in p.loads
ASSUME GraphAssumption ==
  Directions \subseteq SUBSET BOOLEAN /\ \A p \in Programs : ValidProgram(p)

VARIABLES
  program,
  accesses,    \* the MemoryAccess objects
  memory,      \* LoopBlock.memory
  edges,       \* [in, out], of accesses; the order they come in plays no part
  nodes,       \* [memory, loops, inNeighbors, outNeighbors]
  visited,
  todo,        \* users that the search has still to check
  place,       \* the access that a loop is at, and the earlier one it is compared with
  progress,
  apart        \* pairs of instructions that check found independent

graphVars == <<program, accesses, memory, edges, nodes, visited, todo, place, progress, apart>>

NoNode == -1

\* getInstruction, getArrayPointer and getNumLoops of an access.
Instruction(a) == accesses[a].instr
ArrayPointer(a) == program.array[Instruction(a)]
NumLoops(a) == program.loops[Instruction(a)]

\* Dependence: replaceInput and replaceOutput of some of the edges.
FromInstead(a, es) == {[e EXCEPT !.in = a] : e \in es}
ToInstead(a, es) == {[e EXCEPT !.out = a] : e \in es}
inputEdges(a) == {e \in edges : e.out = a}
outputEdges(a) == {e \in edges : e.in = a}

----------------------------------------------------------------------------
(* Edges between the accesses of the block.                                *)

Conflict(a, b) == ArrayPointer(a) = ArrayPointer(b) /\ ~(accesses[a].load /\ accesses[b].load)
Later == IF place.j + 1 < place.i THEN [place EXCEPT !.j = @ + 1] ELSE [i |-> place.i + 1, j |-> 1]

fillEdges ==
  /\ progress = "fill" /\ place.i <= Len(memory)
  /\ place' = Later
  /\ LET x == memory[place.i]
         y == memory[place.j]
     IN  IF Conflict(x, y)
         THEN \E backward \in Directions :
                /\ edges' = edges \union {IF b THEN [in |-> y, out |-> x] ELSE [in |-> x, out |-> y] : b \in backward}
                /\ apart' = IF backward = {} THEN apart \union {{Instruction(x), Instruction(y)}} ELSE apart
         ELSE UNCHANGED <<edges, apart>>
  /\ UNCHANGED <<program, accesses, memory, nodes, visited, todo, progress>>

Filled ==
  /\ progress = "fill" /\ place.i > Len(memory)
  /\ progress' = "connect" /\ place' = [i |-> 1, j |-> 1]
  /\ UNCHANGED <<program, accesses, memory, edges, nodes, visited, todo, apart>>

----------------------------------------------------------------------------
(* Nodes.                                                                  *)

\* userToMem: where the accesses of the block were, before any was added.
InBlock(u) == \E k \in DOMAIN program.memory : program.memory[k] = u
userToMem(u) == CHOOSE k \in DOMAIN program.memory : program.memory[k] = u
IsLoad(u) == u \in program.loads
IsStore(u) == InBlock(u) /\ ~IsLoad(u)

\* Mutant: an instruction that one store visited stays visited for the next.
ClearedNot == visited
Cleared == {}

addMemory(n, memId, a) ==
  nodes' = [nodes EXCEPT ![n].memory = @ \union {memId},
                         ![n].loops = IF NumLoops(a) > @ THEN NumLoops(a) ELSE @]

\* connectGraph: a store makes a node.
StartNode ==
  /\ progress = "connect" /\ place.i <= Len(memory)
  /\ LET a == memory[place.i] IN
       IF accesses[a].load
       THEN place' = [place EXCEPT !.i = @ + 1] /\ UNCHANGED <<accesses, nodes, visited, todo, progress>>
       ELSE /\ nodes' = Append(nodes, [memory |-> {place.i}, loops |-> NumLoops(a),
                                     inNeighbors |-> {}, outNeighbors |-> {}])
            /\ accesses' = [accesses EXCEPT ![a].node = Len(nodes) + 1]
            /\ visited' = visited \union {Instruction(a)}
            /\ todo' = program.operands[Instruction(a)]
            /\ progress' = "search"
            /\ UNCHANGED place
  /\ UNCHANGED <<program, memory, edges, apart>>

Searched ==
  /\ progress = "search" /\ todo = <<>>
  /\ visited' = Cleared
  /\ progress' = "connect" /\ place' = [place EXCEPT !.i = @ + 1]
  /\ UNCHANGED <<program, accesses, memory, edges, nodes, todo, apart>>

Searching == progress = "search" /\ todo # <<>>
Current == Head(todo)
OfNode(a) == accesses' = [accesses EXCEPT ![a].node = Len(nodes)]
NewLoad(u) == accesses' = Append(accesses, [instr |-> u, load |-> TRUE, node |-> Len(nodes)])

\* checkUserForLoads has nothing to do for a user that was visited and for a
\* load that is not of the block.
Passed(u) == u \in visited \/ (IsLoad(u) /\ ~InBlock(u))
SkipUser ==
  /\ Searching /\ Passed(Current)
  /\ todo' = Tail(todo)
  /\ UNCHANGED <<program, accesses, memory, edges, nodes, visited, place, progress, apart>>

\* A load that no node has yet.
TakeLoad ==
  /\ Searching /\ ~Passed(Current) /\ IsLoad(Current)
  /\ LET a == memory[userToMem(Current)] IN
       accesses[a].node = NoNode /\ OfNode(a) /\ addMemory(Len(nodes), userToMem(Current), a)
  /\ todo' = Tail(todo)
  /\ UNCHANGED <<program, memory, edges, visited, place, progress, apart>>

\* duplicateLoad: the copy gets the edges and the node, memory the old load again.
duplicateLoad ==
  /\ Searching /\ ~Passed(Current) /\ IsLoad(Current)
  /\ LET a == memory[userToMem(Current)]
         copy == Len(accesses) + 1
     IN  /\ accesses[a].node # NoNode
         /\ memory' = Append(memory, a)
         /\ edges' = edges \union ToInstead(copy, inputEdges(a)) \union FromInstead(copy, outputEdges(a))
         /\ NewLoad(Current)
         /\ addMemory(Len(nodes), Len(memory) + 1, a)
  /\ todo' = Tail(todo)
  /\ UNCHANGED <<program, visited, place, progress, apart>>

\* searchValueForStores: another store of the value is loaded from, and what
\* overwrites that store comes after the load.
\* Mutant: the value of a store is loaded from the store itself.
StoresOfAny(u) == {s \in DOMAIN program.operands : IsStore(s) /\ program.operands[s] = <<u>>}
StoresOf(u) == {s \in DOMAIN program.operands : IsStore(s) /\ s \notin visited /\ program.operands[s] = <<u>>}
\* Mutant: what overwrites the store need not wait for the load.
OverwritingNone(s) == {}
Overwriting(s) == {e \in outputEdges(s) : ~accesses[e.out].load}

searchValueForStores ==
  /\ Searching /\ ~Passed(Current) /\ ~IsLoad(Current)
  /\ \E s \in StoresOf(Current) :
       LET a == memory[userToMem(s)]
           load == Len(accesses) + 1
       IN  /\ edges' = edges \union FromInstead(load, Overwriting(a)) \union {[in |-> a, out |-> load]}
           /\ memory' = Append(memory, load)
           /\ NewLoad(s)
           /\ addMemory(Len(nodes), Len(memory) + 1, a)
  /\ todo' = Tail(todo)
  /\ UNCHANGED <<program, visited, place, progress, apart>>

searchOperandsForLoads ==
  /\ Searching /\ ~Passed(Current) /\ ~IsLoad(Current) /\ StoresOf(Current) = {}
  /\ todo' = program.operands[Current] \o Tail(todo)
  /\ visited' = visited \union {Current}
  /\ UNCHANGED <<program, accesses, memory, edges, nodes, place, progress, apart>>

----------------------------------------------------------------------------
(* buildGraph: neighbours.  An edge of an access without a node writes     *)
(* outside of nodes.                                                       *)

Adjoining(n, from, to) ==
  {accesses[e[to]].node : e \in {e \in edges : accesses[e[from]].node = n}}

buildGraph ==
  /\ progress = "connect" /\ place.i > Len(memory)
  /\ IF \E e \in edges : NoNode \in {accesses[e.in].node, accesses[e.out].node}
     THEN progress' = "undefined" /\ UNCHANGED nodes
     ELSE /\ progress' = "built"
          /\ nodes' = [n \in DOMAIN nodes |->
                         [nodes[n] EXCEPT !.outNeighbors = Adjoining(n, "in", "out"),
                                          !.inNeighbors = Adjoining(n, "out", "in")]]
  /\ UNCHANGED <<program, accesses, memory, edges, visited, todo, place, apart>>

Block(p) ==
  /\ program = p
  /\ accesses = [k \in DOMAIN p.memory |-> [instr |-> p.memory[k], load |-> p.memory[k] \in p.loads, node |-> NoNode]]
  /\ memory = [k \in DOMAIN p.memory |-> k]
  /\ edges = {} /\ nodes = <<>> /\ visited = {} /\ todo = <<>> /\ apart = {}
  /\ place = [i |-> 2, j |-> 1]
  /\ progress = "fill"
GraphInit == \E p \in Programs : Block(p)

GraphNext ==
  \/ fillEdges \/ Filled
  \/ StartNode \/ Searched
  \/ SkipUser \/ TakeLoad \/ duplicateLoad \/ searchValueForStores \/ searchOperandsForLoads
  \/ buildGraph

GraphSpec == GraphInit /\ [][GraphNext]_graphVars

----------------------------------------------------------------------------
(* Properties.                                                             *)

KeptElsewhere(u, s) == \E t \in DOMAIN program.operands : t # s /\ IsStore(t) /\ program.operands[t] = <<u>>
Uses(u) == {program.operands[u][k] : k \in DOMAIN program.operands[u]}
Leaf(u, s) == IsLoad(u) \/ KeptElsewhere(u, s)

\* What the store s is computed from in registers, down to the loads and the
\* values kept by another store: the least set that has the operands.
Registers(s) ==
  LET closed == {R \in SUBSET DOMAIN program.operands :
                   Uses(s) \subseteq R /\ \A u \in R : Leaf(u, s) \/ Uses(u) \subseteq R}
  IN  {u \in DOMAIN program.operands : \A R \in closed : u \in R}

(* A node has a load for every load its store's value is computed from,    *)
(* and a load of a store for every value that is kept elsewhere.           *)
NodesReadOperands ==
  progress \in {"built", "undefined"} =>
    \A a \in DOMAIN accesses : ~accesses[a].load =>
      LET s == Instruction(a)
          read == {Instruction(b) : b \in {b \in DOMAIN accesses : accesses[b].load /\ accesses[b].node = accesses[a].node}}
      IN  /\ accesses[a].node # NoNode
          /\ \A u \in Registers(s) :
               /\ IsLoad(u) /\ InBlock(u) => u \in read
               /\ ~IsLoad(u) /\ KeptElsewhere(u, s) => \E t \in read : IsStore(t) /\ program.operands[t] = <<u>>

(* Two accesses that conflict, original or made by the search, are ordered *)
(* by a path of edges unless check found them independent.                 *)
Path(x, y) ==
  LET from[k \in 0 .. Len(accesses)] ==
        IF k = 0 THEN {x} ELSE LET A == from[k - 1] IN A \union {e.out : e \in {e \in edges : e.in \in A}}
  IN  y \in from[Len(accesses)]
ConflictsOrdered ==
  progress = "built" =>
    \A x, y \in DOMAIN accesses :
      (x < y /\ Conflict(x, y) /\ {Instruction(x), Instruction(y)} \notin apart) => (Path(x, y) \/ Path(y, x))

\* Every instruction that u is computed from, over whatever is stored or loaded.
ComputedFrom(u) ==
  LET closed == {R \in SUBSET DOMAIN program.operands : Uses(u) \subseteq R /\ \A w \in R : Uses(w) \subseteq R}
  IN  {v \in DOMAIN program.operands : \A R \in closed : v \in R}
NoCycle == \A u \in DOMAIN program.operands : u \notin ComputedFrom(u)

\* The stores whose values the node n loads, by the nodes that make them.
LoadedFrom(n) ==
  {accesses[b].node : b \in {b \in DOMAIN accesses : ~accesses[b].load /\ \E r \in DOMAIN accesses :
       accesses[r].load /\ accesses[r].node = n /\ Instruction(r) = Instruction(b)}}
ReloadsItself(n) ==
  LET from[k \in 1 .. Len(nodes)] ==
        IF k = 1 THEN LoadedFrom(n) ELSE LET M == from[k - 1] IN M \union UNION {LoadedFrom(m) : m \in M}
  IN  n \in from[Len(nodes)]

(* A node loads no value, over other nodes, that only its own store keeps:   *)
(* "%y.reload = load %b" needs a "store %y, %b" that is done without it.  It *)
(* holds of values that are not computed from themselves, as a phi node's    *)
(* are, and that no second store keeps.                                      *)
KeptTwice(s) == \E u \in Uses(s) : ~IsLoad(u) /\ KeptElsewhere(u, s)
ReloadsEnd ==
  progress = "built" /\ NoCycle =>
    \A a \in DOMAIN accesses : ~accesses[a].load /\ ~KeptTwice(Instruction(a)) => ~ReloadsItself(accesses[a].node)

(* "Represents a set of memory accesses that are optimized together": what a *)
(* node's memory refers to are accesses of the node.                         *)
MemoryOfNode ==
  \A n \in DOMAIN nodes : \A k \in nodes[n].memory : accesses[memory[k]].node = n
=============================================================================
