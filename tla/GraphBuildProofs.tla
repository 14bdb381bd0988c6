--------------------------- MODULE GraphBuildProofs ---------------------------
(***************************************************************************)
(* Proofs about GraphBuild for blocks of every size: what the graph says   *)
(* of the order of accesses, what a node has to load and that it computes  *)
(* what no other node keeps.                                               *)
(***************************************************************************)
EXTENDS GraphBuild, WellFoundedInduction, TLAPS

----------------------------------------------------------------------------
(* The inductive invariant.                                                *)

\* A function on 1 .. n is a sequence.
LEMMA SequenceFacts ==
  ASSUME NEW S, NEW n \in Nat, NEW f, DOMAIN f = 1 .. n, f = [k \in 1 .. n |-> f[k]],
         \A k \in 1 .. n : f[k] \in S
  PROVE  f \in Seq(S) /\ Len(f) = n
<1>1. f \in [1 .. n -> S]
  OBVIOUS
<1> QED
  BY <1>1

instructions == DOMAIN program.operands
Original == 1 .. Len(program.memory)
Access == [instr : instructions, load : BOOLEAN, node : Int]
Edge == [in : DOMAIN accesses, out : DOMAIN accesses]
Node == [memory : SUBSET Nat, loops : Nat, inNeighbors : SUBSET Int, outNeighbors : SUBSET Int]

GraphType ==
  /\ program \in Programs
  /\ accesses \in Seq(Access) /\ memory \in Seq(DOMAIN accesses) /\ edges \subseteq Edge
  /\ nodes \in Seq(Node) /\ visited \subseteq instructions /\ todo \in Seq(instructions)
  /\ place \in [i : Nat \ {0}, j : Nat]
  /\ progress \in {"fill", "connect", "search", "built", "undefined"}

\* The accesses of the block come first; those that are added are loads.
Objects ==
  /\ Len(program.memory) <= Len(accesses) /\ Len(program.memory) <= Len(memory)
  /\ \A k \in Original : /\ memory[k] = k /\ accesses[k].instr = program.memory[k]
                         /\ accesses[k].load <=> program.memory[k] \in program.loads
  /\ \A a \in DOMAIN accesses \ Original : accesses[a].load /\ InBlock(accesses[a].instr)
  /\ \A k \in DOMAIN memory \ Original : accesses[memory[k]].load
  /\ progress = "fill" =>
       /\ Len(accesses) = Len(program.memory) /\ Len(memory) = Len(program.memory)
       /\ place.i >= 2 /\ place.j >= 1 /\ place.j < place.i

ObjectInv == GraphType /\ Objects

\* What a program of the assumption is.
LEMMA ProgramFacts ==
  ASSUME GraphType
  PROVE  /\ program.memory \in Seq(instructions) /\ DOMAIN program.memory = Original
         /\ Len(program.memory) \in Nat
         /\ program.operands \in [instructions -> Seq(instructions)]
         /\ \A i, j \in Original : program.memory[i] = program.memory[j] => i = j
         /\ \A i \in Original : program.memory[i] \in instructions /\ program.loops[program.memory[i]] \in Nat
         /\ \A u \in instructions : \A k \in DOMAIN program.operands[u] : ~IsStore(program.operands[u][k])
<1>1. ValidProgram(program)
  BY GraphAssumption DEF GraphType
<1>2. program.memory \in Seq(instructions) /\ program.operands \in [instructions -> Seq(instructions)]
  BY <1>1 DEF ValidProgram, instructions
<1>3. DOMAIN program.memory = Original /\ Len(program.memory) \in Nat
  BY <1>2 DEF Original
<1>4. \A u \in instructions : \A k \in DOMAIN program.operands[u] : ~IsStore(program.operands[u][k])
  BY <1>1 DEF ValidProgram, instructions, IsStore, InBlock, IsLoad
<1> QED
  BY <1>1, <1>2, <1>3, <1>4 DEF ValidProgram, instructions

LEMMA AccessFacts ==
  ASSUME ObjectInv
  PROVE  /\ Len(accesses) \in Nat /\ DOMAIN accesses = 1 .. Len(accesses) /\ Original \subseteq DOMAIN accesses
         /\ Len(memory) \in Nat /\ DOMAIN memory = 1 .. Len(memory) /\ Original \subseteq DOMAIN memory
         /\ \A k \in DOMAIN memory : memory[k] \in DOMAIN accesses
         /\ \A a \in DOMAIN accesses : accesses[a] \in Access /\ InBlock(accesses[a].instr)
<1>1. /\ Len(accesses) \in Nat /\ DOMAIN accesses = 1 .. Len(accesses)
      /\ Len(memory) \in Nat /\ DOMAIN memory = 1 .. Len(memory)
      /\ \A k \in DOMAIN memory : memory[k] \in DOMAIN accesses
      /\ \A a \in DOMAIN accesses : accesses[a] \in Access
  BY DEF ObjectInv, GraphType
<1>2. Len(program.memory) \in Nat /\ DOMAIN program.memory = Original
  BY ProgramFacts DEF ObjectInv
<1>3. Original \subseteq DOMAIN accesses /\ Original \subseteq DOMAIN memory
  BY <1>1, <1>2 DEF ObjectInv, Objects, Original
<1>4. \A a \in Original : InBlock(accesses[a].instr)
  BY <1>2 DEF ObjectInv, Objects, InBlock
<1> QED
  BY <1>1, <1>3, <1>4 DEF ObjectInv, Objects

\* The access that an instruction of the block has.
LEMMA UserFacts ==
  ASSUME ObjectInv, NEW u, InBlock(u)
  PROVE  /\ userToMem(u) \in Original /\ program.memory[userToMem(u)] = u
         /\ memory[userToMem(u)] = userToMem(u) /\ userToMem(u) \in DOMAIN accesses
         /\ accesses[userToMem(u)].instr = u /\ (accesses[userToMem(u)].load <=> IsLoad(u))
<1>1. DOMAIN program.memory = Original
  BY ProgramFacts DEF ObjectInv
<1>2. userToMem(u) \in Original /\ program.memory[userToMem(u)] = u
  BY <1>1 DEF InBlock, userToMem
<1>3. Original \subseteq DOMAIN accesses
  BY AccessFacts
<1> QED
  BY <1>2, <1>3 DEF ObjectInv, Objects, IsLoad

----------------------------------------------------------------------------
(* What each step makes of the objects.                                    *)

LEMMA InitObjects ==
  ASSUME GraphInit
  PROVE  ObjectInv
<1>1. PICK p \in Programs : Block(p)
  BY DEF GraphInit
<1>2. program = p /\ program \in Programs
  BY <1>1 DEF Block
<1>3. ValidProgram(program)
  BY <1>2, GraphAssumption
<1>4. program.memory \in Seq(instructions)
  BY <1>3 DEF ValidProgram, instructions
<1>5. /\ accesses = [k \in Original |->
                       [instr |-> program.memory[k], load |-> program.memory[k] \in program.loads, node |-> NoNode]]
      /\ memory = [k \in Original |-> k]
  BY <1>1, <1>2, <1>4 DEF Block, Original
<1>6. /\ Len(program.memory) \in Nat /\ DOMAIN program.memory = Original
      /\ \A k \in Original : program.memory[k] \in instructions
  BY <1>4 DEF Original
<1>7. accesses \in Seq(Access) /\ Len(accesses) = Len(program.memory) /\ DOMAIN accesses = Original
  <2>1. \A k \in Original : accesses[k] \in Access
    BY <1>5, <1>6 DEF Access, NoNode
  <2>2. DOMAIN accesses = Original /\ accesses = [k \in Original |-> accesses[k]]
    BY <1>5
  <2> QED
    BY <1>6, <2>1, <2>2, SequenceFacts DEF Original
<1>8. memory \in Seq(DOMAIN accesses) /\ Len(memory) = Len(program.memory) /\ DOMAIN memory = Original
  BY <1>5, <1>6, <1>7 DEF Original
<1>9. GraphType
  BY <1>1, <1>2, <1>7, <1>8 DEF GraphType, Block, Edge, Node
<1>10. Objects
  <2>1. \A k \in Original : /\ memory[k] = k /\ accesses[k].instr = program.memory[k]
                            /\ accesses[k].load <=> program.memory[k] \in program.loads
    BY <1>5
  <2>2. place = [i |-> 2, j |-> 1]
    BY <1>1 DEF Block
  <2> QED
    BY <1>6, <1>7, <1>8, <2>1, <2>2 DEF Objects
<1> QED
  BY <1>9, <1>10 DEF ObjectInv

LEMMA FillObjects ==
  ASSUME ObjectInv, fillEdges
  PROVE  ObjectInv'
<1> DEFINE x == memory[place.i]
           y == memory[place.j]
<1>1. /\ progress = "fill" /\ place.i <= Len(memory) /\ place' = Later
      /\ UNCHANGED <<program, accesses, memory, nodes, visited, todo, progress>>
  BY DEF fillEdges
<1>2. place.i \in Nat /\ place.j \in Nat /\ place.i >= 2 /\ place.j >= 1 /\ place.j < place.i
  BY <1>1 DEF ObjectInv, GraphType, Objects
<1>3. x \in DOMAIN accesses /\ y \in DOMAIN accesses
  BY <1>1, <1>2, AccessFacts
<1>4. edges' \subseteq Edge
  <2>1. edges \subseteq Edge
    BY DEF ObjectInv, GraphType
  <2>2. \A b : (IF b THEN [in |-> y, out |-> x] ELSE [in |-> x, out |-> y]) \in Edge
    BY <1>3 DEF Edge
  <2> HIDE DEF x, y
  <2>3. CASE Conflict(x, y)
    <3>1. PICK backward : edges' = edges \union {IF b THEN [in |-> y, out |-> x] ELSE [in |-> x, out |-> y] : b \in backward}
      BY <2>3 DEF fillEdges, x, y
    <3> QED
      BY <2>1, <2>2, <3>1
  <2>4. CASE ~Conflict(x, y)
    BY <2>1, <2>4 DEF fillEdges, x, y
  <2> QED
    BY <2>3, <2>4
<1>5. place' \in [i : Nat \ {0}, j : Nat] /\ place'.i >= 2 /\ place'.j >= 1 /\ place'.j < place'.i
  <2>1. CASE place.j + 1 < place.i
    <3>1. place' = [place EXCEPT !.j = @ + 1] /\ place \in [i : Nat \ {0}, j : Nat]
      BY <1>1, <2>1 DEF Later, ObjectInv, GraphType
    <3> QED
      BY <1>2, <2>1, <3>1
  <2>2. CASE ~(place.j + 1 < place.i)
    <3>1. place' = [i |-> place.i + 1, j |-> 1]
      BY <1>1, <2>2 DEF Later
    <3> QED
      BY <1>2, <3>1
  <2> QED
    BY <2>1, <2>2
<1>6. GraphType'
  BY <1>1, <1>4, <1>5 DEF ObjectInv, GraphType, Edge, Access, instructions
<1>7. Objects'
  BY <1>1, <1>5 DEF ObjectInv, Objects, Original, InBlock
<1> QED
  BY <1>6, <1>7 DEF ObjectInv

\* A step that leaves the accesses, memory and edges alone.
LEMMA QuietObjects ==
  ASSUME ObjectInv, UNCHANGED <<program, accesses, memory, edges>>,
         nodes' \in Seq(Node), visited' \subseteq instructions, todo' \in Seq(instructions),
         place' \in [i : Nat \ {0}, j : Nat], progress' \in {"connect", "search", "built", "undefined"}
  PROVE  ObjectInv'
<1>1. GraphType'
  BY DEF ObjectInv, GraphType, Edge, Access, instructions
<1>2. Objects'
  BY DEF ObjectInv, Objects, Original, InBlock
<1> QED
  BY <1>1, <1>2 DEF ObjectInv

\* The access of an instruction gets a node.
LEMMA NodeObjects ==
  ASSUME ObjectInv, UNCHANGED <<program, memory, edges>>, visited' \subseteq instructions,
         NEW a \in DOMAIN accesses, NEW n \in Int, accesses' = [accesses EXCEPT ![a].node = n],
         nodes' \in Seq(Node), todo' \in Seq(instructions), 
         place' \in [i : Nat \ {0}, j : Nat], progress' \in {"connect", "search"}
  PROVE  ObjectInv'
<1>1. accesses' \in Seq(Access) /\ DOMAIN accesses' = DOMAIN accesses /\ Len(accesses') = Len(accesses)
  <2>1. DOMAIN accesses = 1 .. Len(accesses) /\ Len(accesses) \in Nat /\ \A b \in DOMAIN accesses : accesses[b] \in Access
    BY AccessFacts
  <2>2. \A b \in DOMAIN accesses : accesses'[b] \in Access
    BY <2>1 DEF Access
  <2>3. DOMAIN accesses' = DOMAIN accesses /\ accesses' = [b \in DOMAIN accesses |-> accesses'[b]]
    OBVIOUS
  <2> DEFINE f == accesses'
             l == Len(accesses)
  <2>4. l \in Nat /\ DOMAIN f = 1 .. l /\ f = [b \in 1 .. l |-> f[b]] /\ \A b \in 1 .. l : f[b] \in Access
    BY <2>1, <2>2, <2>3
  <2> HIDE DEF f, l
  <2>5. f \in Seq(Access) /\ Len(f) = l
    BY <2>4, SequenceFacts
  <2> QED
    BY <2>3, <2>5 DEF f, l
<1>2. \A b \in DOMAIN accesses : accesses'[b].instr = accesses[b].instr /\ accesses'[b].load = accesses[b].load
  BY DEF ObjectInv, GraphType, Access
<1>3. GraphType'
  BY <1>1 DEF ObjectInv, GraphType, Edge, Access, instructions
<1>4. Objects'
  BY <1>1, <1>2 DEF ObjectInv, Objects, Original, InBlock
<1> QED
  BY <1>3, <1>4 DEF ObjectInv

\* addMemory changes one node.
LEMMA AddMemoryFacts ==
  ASSUME ObjectInv, NEW memId \in Nat, NEW a \in DOMAIN accesses, addMemory(Len(nodes), memId, a)
  PROVE  nodes' \in Seq(Node) /\ Len(nodes') = Len(nodes)
<1> DEFINE l == Len(nodes)
           f == nodes'
<1>1. nodes \in Seq(Node) /\ l \in Nat /\ DOMAIN nodes = 1 .. l /\ \A n \in 1 .. l : nodes[n] \in Node
  BY DEF ObjectInv, GraphType
<1>2. NumLoops(a) \in Nat
  <2>1. PICK k \in Original : program.memory[k] = accesses[a].instr
    BY AccessFacts, ProgramFacts DEF InBlock, ObjectInv
  <2> QED
    BY <2>1, ProgramFacts DEF NumLoops, Instruction, ObjectInv
<1>3. DOMAIN f = 1 .. l /\ f = [n \in 1 .. l |-> f[n]]
  BY <1>1 DEF addMemory
<1>4. \A n \in 1 .. l : f[n] \in Node
  <2> DEFINE g == [nodes EXCEPT ![l].memory = @ \union {memId}]
             loops == IF NumLoops(a) > g[l].loops THEN NumLoops(a) ELSE g[l].loops
  <2>1. DOMAIN g = 1 .. l /\ \A n \in 1 .. l : g[n] \in Node
    BY <1>1 DEF Node
  <2>2. f = [g EXCEPT ![l].loops = loops]
    BY DEF addMemory
  <2> HIDE DEF g, f, l
  <2>3. l \in 1 .. l => loops \in Nat
    BY <1>2, <2>1 DEF Node
  <2> HIDE DEF loops
  <2> QED
    BY <1>1, <2>1, <2>2, <2>3 DEF Node
<1> HIDE DEF f, l
<1>5. f \in Seq(Node) /\ Len(f) = l
  BY <1>1, <1>3, <1>4, SequenceFacts
<1> QED
  BY <1>5 DEF f, l

\* A load is added, and a reference to an access in memory.
LEMMA AddObjects ==
  ASSUME ObjectInv, UNCHANGED <<program, visited, progress, place>>, progress = "search",
         NEW new \in Access, new.load, InBlock(new.instr), accesses' = Append(accesses, new),
         NEW m \in 1 .. Len(accesses) + 1, memory' = Append(memory, m),
         m \in DOMAIN accesses => accesses[m].load,
         edges' \subseteq [in : 1 .. Len(accesses) + 1, out : 1 .. Len(accesses) + 1],
         nodes' \in Seq(Node), todo' \in Seq(instructions)
  PROVE  ObjectInv'
<1> DEFINE l == Len(accesses)
<1>1. l \in Nat /\ DOMAIN accesses = 1 .. l /\ accesses \in Seq(Access) /\ Original \subseteq 1 .. l
  BY AccessFacts DEF ObjectInv, GraphType
<1>2. /\ accesses' \in Seq(Access) /\ Len(accesses') = l + 1 /\ DOMAIN accesses' = 1 .. l + 1
      /\ accesses'[l + 1] = new /\ \A a \in 1 .. l : accesses'[a] = accesses[a]
  BY <1>1
<1>3. /\ Len(memory) \in Nat /\ DOMAIN memory = 1 .. Len(memory) /\ memory \in Seq(1 .. l)
      /\ Original \subseteq DOMAIN memory
  BY <1>1, AccessFacts DEF ObjectInv, GraphType
<1>4. /\ memory' \in Seq(1 .. l + 1) /\ Len(memory') = Len(memory) + 1
      /\ DOMAIN memory' = 1 .. Len(memory) + 1 /\ memory'[Len(memory) + 1] = m
      /\ \A k \in DOMAIN memory : memory'[k] = memory[k] /\ memory[k] \in 1 .. l
  <2>1. memory \in Seq(1 .. l + 1) /\ m \in 1 .. l + 1
    BY <1>1, <1>3
  <2> QED
    BY <1>3, <2>1
<1> HIDE DEF l
<1>5. GraphType'
  BY <1>2, <1>4 DEF ObjectInv, GraphType, Edge, Access, instructions, l
<1>6. Objects'
  <2>1. \A a \in DOMAIN accesses' \ Original : accesses'[a].load /\ InBlock(accesses'[a].instr)
    BY <1>1, <1>2 DEF ObjectInv, Objects
  <2>2. \A k \in DOMAIN memory' \ Original : accesses'[memory'[k]].load
    <3> SUFFICES ASSUME NEW k \in DOMAIN memory' \ Original PROVE accesses'[memory'[k]].load
      OBVIOUS
    <3>1. CASE k \in DOMAIN memory
      BY <1>2, <1>4, <3>1 DEF ObjectInv, Objects
    <3>2. CASE k \notin DOMAIN memory
      <4>1. memory'[k] = m
        BY <1>3, <1>4, <3>2
      <4> QED
        BY <1>1, <1>2, <4>1 DEF l
    <3> QED
      BY <3>1, <3>2
  <2>3. \A k \in Original : memory'[k] = memory[k] /\ accesses'[k] = accesses[k]
    BY <1>1, <1>2, <1>3, <1>4
  <2>4. Len(program.memory) <= Len(accesses') /\ Len(program.memory) <= Len(memory')
    BY <1>1, <1>2, <1>3, <1>4, ProgramFacts DEF ObjectInv, Objects, l
  <2>5. \A k \in Original : /\ memory'[k] = k /\ accesses'[k].instr = program.memory[k]
                            /\ accesses'[k].load <=> program.memory[k] \in program.loads
    BY <2>3 DEF ObjectInv, Objects
  <2>6. Original' = Original /\ \A u : InBlock(u)' <=> InBlock(u)
    BY DEF Original, InBlock
  <2> QED
    BY <2>1, <2>2, <2>4, <2>5, <2>6 DEF Objects
<1> QED
  BY <1>5, <1>6 DEF ObjectInv

LEMMA TodoFacts ==
  ASSUME ObjectInv, todo # <<>>
  PROVE  /\ Current \in instructions /\ Tail(todo) \in Seq(instructions)
         /\ \A k \in DOMAIN Tail(todo) : k + 1 \in DOMAIN todo /\ Tail(todo)[k] = todo[k + 1]
         /\ \A k \in DOMAIN todo : k = 1 \/ (k - 1 \in DOMAIN Tail(todo) /\ todo[k] = Tail(todo)[k - 1])
         /\ 1 \in DOMAIN todo /\ Current = todo[1]
BY DEF ObjectInv, GraphType, Current

----------------------------------------------------------------------------
(* Conflicting accesses are joined by an edge or over one store.           *)

Joined(x, y) == \E e \in edges : e.in = x /\ e.out = y
Together(x, y) == Joined(x, y) \/ Joined(y, x)
Compared(x, y) == progress = "fill" => y < place.i \/ (y = place.i /\ x < place.j)
Apart(x, y) == {Instruction(x), Instruction(y)} \in apart

FirstOrdered ==
  \A x, y \in Original :
    x < y /\ Compared(x, y) /\ Conflict(x, y) /\ ~Apart(x, y) => Together(x, y)

\* The load y that was added is ordered with the store t.
Ordered(t, y) ==
  ~accesses[t].load /\ ArrayPointer(t) = ArrayPointer(y) /\ ~Apart(t, y) =>
    Together(t, y) \/ \E s \in DOMAIN accesses : Joined(t, s) /\ Joined(s, y)
LaterOrdered == \A t \in Original, y \in DOMAIN accesses \ Original : Ordered(t, y)

OrderInv == FirstOrdered /\ LaterOrdered

\* Nothing that orders two accesses is lost.
Extends ==
  /\ UNCHANGED <<program, apart>>
  /\ edges \subseteq edges' /\ DOMAIN accesses \subseteq DOMAIN accesses'
  /\ \A a \in DOMAIN accesses : accesses'[a].instr = accesses[a].instr /\ accesses'[a].load = accesses[a].load

LEMMA OrderKept ==
  ASSUME ObjectInv, OrderInv, Extends, \A x, y \in Original : Compared(x, y),
         \A t \in Original, y \in DOMAIN accesses' \ DOMAIN accesses : Ordered(t, y)'
  PROVE  OrderInv'
<1>1. \A x, y : (Joined(x, y) => Joined(x, y)') /\ (Together(x, y) => Together(x, y)')
  BY DEF Joined, Together, Extends
<1>2. /\ \A a \in DOMAIN accesses : /\ a \in DOMAIN accesses' /\ Instruction(a)' = Instruction(a)
                                    /\ accesses'[a].load = accesses[a].load
                                    /\ ArrayPointer(a)' = ArrayPointer(a)
      /\ Original' = Original /\ Original \subseteq DOMAIN accesses
  BY AccessFacts DEF Extends, Instruction, ArrayPointer, Original
<1>3. \A x, y \in DOMAIN accesses : (Apart(x, y)' <=> Apart(x, y)) /\ (Conflict(x, y)' <=> Conflict(x, y))
  BY <1>2 DEF Apart, Conflict, Extends
<1>4. FirstOrdered'
  BY <1>1, <1>2, <1>3 DEF OrderInv, FirstOrdered
<1>5. ASSUME NEW t \in Original, NEW y \in DOMAIN accesses \ Original
      PROVE  Ordered(t, y)'
  BY <1>1, <1>2, <1>3 DEF OrderInv, LaterOrdered, Ordered
<1>6. LaterOrdered'
  BY <1>2, <1>5 DEF LaterOrdered
<1> QED
  BY <1>4, <1>6 DEF OrderInv

LEMMA InitOrder ==
  ASSUME GraphInit
  PROVE  OrderInv
<1>1. ObjectInv /\ DOMAIN accesses = Original /\ progress = "fill" /\ place = [i |-> 2, j |-> 1]
  <2>1. ObjectInv /\ progress = "fill" /\ place = [i |-> 2, j |-> 1]
    BY InitObjects DEF GraphInit, Block
  <2>2. DOMAIN accesses = Original
    BY <2>1, AccessFacts, ProgramFacts DEF ObjectInv, Objects, Original
  <2> QED
    BY <2>1, <2>2
<1>2. \A x, y \in Original : x < y => ~Compared(x, y)
  BY <1>1, ProgramFacts DEF Compared, Original, ObjectInv
<1> QED
  BY <1>1, <1>2 DEF OrderInv, FirstOrdered, LaterOrdered

LEMMA FillOrder ==
  ASSUME ObjectInv, OrderInv, fillEdges
  PROVE  OrderInv'
<1>0. PICK i, j : i = place.i /\ j = place.j
  OBVIOUS
<1>1. /\ progress = "fill" /\ progress' = "fill" /\ i <= Len(memory) /\ place' = Later
      /\ UNCHANGED <<program, accesses, memory>>
      /\ Len(accesses) = Len(program.memory) /\ Len(memory) = Len(program.memory)
      /\ i \in Nat /\ j \in Nat /\ i >= 2 /\ j >= 1 /\ j < i
  BY <1>0 DEF fillEdges, ObjectInv, GraphType, Objects
<1>2. /\ Original = 1 .. Len(memory) /\ Len(memory) \in Nat /\ Original' = Original
      /\ DOMAIN accesses = Original /\ DOMAIN accesses' = Original
      /\ i \in Original /\ j \in Original /\ memory[i] = i /\ memory[j] = j
  <2>1. Len(memory) \in Nat /\ DOMAIN accesses = 1 .. Len(accesses)
    BY AccessFacts
  <2>2. i \in Original /\ j \in Original
    BY <1>1, <2>1 DEF Original
  <2> QED
    BY <1>1, <2>1, <2>2 DEF ObjectInv, Objects, Original
<1>3. edges \subseteq edges' /\ apart \subseteq apart'
  BY DEF fillEdges
<1>4. Conflict(i, j) => Together(i, j)' \/ Apart(i, j)'
  <2> SUFFICES ASSUME Conflict(i, j) PROVE Together(i, j)' \/ Apart(i, j)'
    OBVIOUS
  <2>1. PICK backward \in Directions :
          /\ edges' = edges \union {IF b THEN [in |-> j, out |-> i] ELSE [in |-> i, out |-> j] : b \in backward}
          /\ apart' = IF backward = {} THEN apart \union {{Instruction(i), Instruction(j)}} ELSE apart
    BY <1>0, <1>2 DEF fillEdges
  <2>2. CASE backward = {}
    BY <1>1, <2>1, <2>2 DEF Apart, Instruction
  <2>3. CASE backward # {}
    <3>1. PICK b \in backward : TRUE
      BY <2>3
    <3>2. \/ [in |-> j, out |-> i] \in edges'
          \/ [in |-> i, out |-> j] \in edges'
      BY <2>1, <3>1
    <3> QED
      BY <3>2 DEF Together, Joined
  <2> QED
    BY <2>2, <2>3
<1>5. \A x, y \in Original : x < y /\ Compared(x, y)' => Compared(x, y) \/ (x = j /\ y = i)
  <2>1. CASE j + 1 < i
    <3>1. place'.i = i /\ place'.j = j + 1
      BY <1>0, <1>1, <2>1 DEF Later, ObjectInv, GraphType
    <3> QED
      BY <1>0, <1>1, <1>2, <3>1 DEF Compared
  <2>2. CASE ~(j + 1 < i)
    <3>1. place'.i = i + 1 /\ place'.j = 1
      BY <1>0, <1>1, <2>2 DEF Later
    <3> QED
      BY <1>0, <1>1, <1>2, <2>2, <3>1 DEF Compared
  <2> QED
    BY <2>1, <2>2
<1>6. \A x, y \in Original : /\ Conflict(x, y)' <=> Conflict(x, y)
                             /\ Apart(x, y) => Apart(x, y)'
                             /\ Together(x, y) => Together(x, y)'
  BY <1>1, <1>3 DEF Conflict, ArrayPointer, Instruction, Apart, Together, Joined
<1>7. /\ Conflict(i, j) <=> Conflict(j, i)
      /\ Together(i, j)' <=> Together(j, i)'
      /\ Apart(i, j)' <=> Apart(j, i)'
  BY DEF Conflict, Together, Apart
<1>8. FirstOrdered'
  BY <1>2, <1>4, <1>5, <1>6, <1>7 DEF OrderInv, FirstOrdered
<1>9. LaterOrdered'
  BY <1>2 DEF LaterOrdered
<1> QED
  BY <1>8, <1>9 DEF OrderInv

\* A step after fillEdges that adds no access.
LEMMA QuietOrder ==
  ASSUME ObjectInv, OrderInv, Extends, DOMAIN accesses' = DOMAIN accesses, \A x, y \in Original : Compared(x, y)
  PROVE  OrderInv'
BY OrderKept

\* Two accesses of the block that conflict.
LEMMA TogetherFacts ==
  ASSUME ObjectInv, OrderInv, NEW t \in Original, NEW a \in Original, t # a, progress # "fill",
         ~accesses[t].load, ArrayPointer(t) = ArrayPointer(a), ~Apart(t, a)
  PROVE  Together(t, a)
<1>1. t \in Nat /\ a \in Nat
  BY ProgramFacts DEF ObjectInv, Original
<1>2. Conflict(t, a) /\ Conflict(a, t) /\ ~Apart(a, t)
  BY DEF Conflict, Apart
<1>3. Compared(t, a) /\ Compared(a, t)
  BY DEF Compared
<1>4. t < a \/ a < t
  BY <1>1
<1> QED
  BY <1>2, <1>3, <1>4 DEF OrderInv, FirstOrdered, Together

\* The edges of a copy of the load a.
LEMMA CopiedEdges ==
  ASSUME edges \subseteq Edge, NEW a, NEW b, NEW t,
         ToInstead(b, inputEdges(a)) \union FromInstead(b, outputEdges(a)) \subseteq edges'
  PROVE  Together(t, a) => Together(t, b)'
<1>1. ASSUME NEW e \in edges, e.in = t, e.out = a
      PROVE  Joined(t, b)'
  <2>1. e \in inputEdges(a) /\ e \in Edge
    BY <1>1 DEF inputEdges
  <2>2. [e EXCEPT !.out = b] \in edges' /\ [e EXCEPT !.out = b].in = t /\ [e EXCEPT !.out = b].out = b
    BY <1>1, <2>1 DEF ToInstead, Edge
  <2> QED
    BY <2>2 DEF Joined
<1>2. ASSUME NEW e \in edges, e.in = a, e.out = t
      PROVE  Joined(b, t)'
  <2>1. e \in outputEdges(a) /\ e \in Edge
    BY <1>2 DEF outputEdges
  <2>2. [e EXCEPT !.in = b] \in edges' /\ [e EXCEPT !.in = b].in = b /\ [e EXCEPT !.in = b].out = t
    BY <1>2, <2>1 DEF FromInstead, Edge
  <2> QED
    BY <2>2 DEF Joined
<1> QED
  BY <1>1, <1>2 DEF Together, Joined

\* What is appended to accesses is the last of them, and the rest stays.
LEMMA AppendedAccess ==
  ASSUME ObjectInv, NEW new \in Access, accesses' = Append(accesses, new),
         UNCHANGED <<program, apart>>, edges \subseteq edges'
  PROVE  /\ Extends /\ DOMAIN accesses' \ DOMAIN accesses = {Len(accesses) + 1}
         /\ accesses'[Len(accesses) + 1] = new /\ DOMAIN accesses' = 1 .. Len(accesses) + 1
         /\ \A a \in DOMAIN accesses : accesses'[a] = accesses[a]
BY AccessFacts DEF Extends, ObjectInv, GraphType

LEMMA DuplicateKeeps ==
  ASSUME ObjectInv, OrderInv, duplicateLoad
  PROVE  ObjectInv' /\ OrderInv'
<1>0. PICK u, a, b, n : u = Current /\ a = memory[userToMem(u)] /\ b = Len(accesses) + 1 /\ n = Len(nodes)
  OBVIOUS
<1>1. /\ progress = "search" /\ todo # <<>> /\ IsLoad(u) /\ InBlock(u)
      /\ memory' = Append(memory, a)
      /\ edges' = edges \union ToInstead(b, inputEdges(a)) \union FromInstead(b, outputEdges(a))
      /\ accesses' = Append(accesses, [instr |-> u, load |-> TRUE, node |-> n])
      /\ addMemory(n, Len(memory) + 1, a) /\ todo' = Tail(todo)
      /\ UNCHANGED <<program, visited, place, progress, apart>>
  BY <1>0 DEF duplicateLoad, Searching, Passed, NewLoad
<1>2. /\ a \in Original /\ a = userToMem(u) /\ a \in DOMAIN accesses
      /\ accesses[a].instr = u /\ accesses[a].load
  BY <1>0, <1>1, UserFacts
<1>3. u \in instructions /\ Tail(todo) \in Seq(instructions)
  BY <1>0, <1>1, TodoFacts
<1>4. n \in Nat /\ Len(memory) + 1 \in Nat /\ edges \subseteq Edge /\ DOMAIN accesses = 1 .. Len(accesses) /\ Len(accesses) \in Nat
  BY <1>0, AccessFacts DEF ObjectInv, GraphType
<1> DEFINE new == [instr |-> u, load |-> TRUE, node |-> n]
<1>5. new \in Access /\ new.load /\ InBlock(new.instr)
  BY <1>1, <1>3, <1>4 DEF Access
<1>6. nodes' \in Seq(Node)
  BY <1>0, <1>1, <1>2, <1>4, AddMemoryFacts
<1>7. edges' \subseteq [in : 1 .. Len(accesses) + 1, out : 1 .. Len(accesses) + 1]
  <2>1. edges \subseteq [in : 1 .. Len(accesses) + 1, out : 1 .. Len(accesses) + 1] /\ b \in 1 .. Len(accesses) + 1
    BY <1>0, <1>4 DEF Edge
  <2> QED
    BY <1>1, <2>1 DEF ToInstead, FromInstead, inputEdges, outputEdges
<1>8. a \in 1 .. Len(accesses) + 1
  BY <1>2, <1>4
<1>9. ObjectInv'
  <2> HIDE DEF new
  <2> QED
    BY <1>1, <1>2, <1>3, <1>5, <1>6, <1>7, <1>8, AddObjects DEF new
<1>10. /\ Extends /\ DOMAIN accesses' \ DOMAIN accesses = {b} /\ accesses'[b] = new
       /\ \A c \in DOMAIN accesses : accesses'[c] = accesses[c]
  <2>1. edges \subseteq edges'
    BY <1>1
  <2> QED
    BY <1>0, <1>1, <1>5, <2>1, AppendedAccess
<1>11. ASSUME NEW t \in Original
       PROVE  Ordered(t, b)'
  <2>1. t \in DOMAIN accesses
    BY AccessFacts
  <2>2. /\ accesses'[t] = accesses[t] /\ Instruction(t)' = Instruction(t) /\ ArrayPointer(t)' = ArrayPointer(t)
        /\ ArrayPointer(b)' = ArrayPointer(a) /\ Instruction(b)' = Instruction(a) /\ (Apart(t, b)' <=> Apart(t, a))
    <3>1. accesses'[t] = accesses[t] /\ accesses'[b].instr = u
      BY <1>10, <2>1
    <3>2. Instruction(t)' = Instruction(t) /\ Instruction(b)' = u /\ Instruction(a) = u
      BY <1>2, <3>1 DEF Instruction
    <3> QED
      BY <1>1, <3>1, <3>2 DEF ArrayPointer, Apart
  <2>3. SUFFICES ASSUME ~accesses[t].load, ArrayPointer(t) = ArrayPointer(a), ~Apart(t, a)
                 PROVE  Together(t, b)'
    BY <2>2 DEF Ordered
  <2>4. Together(t, a)
    BY <1>1, <1>2, <2>3, TogetherFacts
  <2>5. ToInstead(b, inputEdges(a)) \union FromInstead(b, outputEdges(a)) \subseteq edges'
    BY <1>1
  <2> QED
    BY <1>4, <2>4, <2>5, CopiedEdges
<1>12. \A x, y \in Original : Compared(x, y)
  BY <1>1 DEF Compared
<1> QED
  BY <1>9, <1>10, <1>11, <1>12, OrderKept

LEMMA ReloadKeeps ==
  ASSUME ObjectInv, OrderInv, searchValueForStores
  PROVE  ObjectInv' /\ OrderInv'
<1>0. PICK s \in StoresOf(Current) :
        LET a == memory[userToMem(s)]
            load == Len(accesses) + 1
        IN  /\ edges' = edges \union FromInstead(load, Overwriting(a)) \union {[in |-> a, out |-> load]}
            /\ memory' = Append(memory, load)
            /\ NewLoad(s)
            /\ addMemory(Len(nodes), Len(memory) + 1, a)
  BY DEF searchValueForStores
<1>1. PICK a, b, n : a = memory[userToMem(s)] /\ b = Len(accesses) + 1 /\ n = Len(nodes)
  OBVIOUS
<1>2. /\ edges' = edges \union FromInstead(b, Overwriting(a)) \union {[in |-> a, out |-> b]}
      /\ memory' = Append(memory, b)
      /\ accesses' = Append(accesses, [instr |-> s, load |-> TRUE, node |-> n])
      /\ addMemory(n, Len(memory) + 1, a)
  BY <1>0, <1>1 DEF NewLoad
<1>3. /\ progress = "search" /\ todo # <<>> /\ todo' = Tail(todo)
      /\ s \in instructions /\ IsStore(s) /\ InBlock(s)
      /\ UNCHANGED <<program, visited, place, progress, apart>>
  BY DEF searchValueForStores, Searching, StoresOf, IsStore, instructions
<1>4. /\ a \in Original /\ a \in DOMAIN accesses /\ accesses[a].instr = s /\ ~accesses[a].load
  BY <1>1, <1>3, UserFacts DEF IsStore
<1>5. Tail(todo) \in Seq(instructions)
  BY <1>3, TodoFacts
<1>6. n \in Nat /\ Len(memory) + 1 \in Nat /\ edges \subseteq Edge /\ DOMAIN accesses = 1 .. Len(accesses) /\ Len(accesses) \in Nat
  BY <1>1, AccessFacts DEF ObjectInv, GraphType
<1> DEFINE new == [instr |-> s, load |-> TRUE, node |-> n]
<1>7. new \in Access /\ new.load /\ InBlock(new.instr)
  BY <1>3, <1>6 DEF Access
<1>8. nodes' \in Seq(Node)
  BY <1>1, <1>2, <1>4, <1>6, AddMemoryFacts
<1>9. edges' \subseteq [in : 1 .. Len(accesses) + 1, out : 1 .. Len(accesses) + 1]
  <2>1. edges \subseteq [in : 1 .. Len(accesses) + 1, out : 1 .. Len(accesses) + 1]
    BY <1>6 DEF Edge
  <2>2. b \in 1 .. Len(accesses) + 1 /\ a \in 1 .. Len(accesses) + 1
    BY <1>1, <1>4, <1>6
  <2> QED
    BY <1>2, <2>1, <2>2 DEF FromInstead, Overwriting, outputEdges
<1>10. b \in 1 .. Len(accesses) + 1 /\ b \notin DOMAIN accesses
  BY <1>1, <1>6
<1>11. ObjectInv'
  <2> HIDE DEF new
  <2> QED
    BY <1>2, <1>3, <1>5, <1>7, <1>8, <1>9, <1>10, AddObjects DEF new
<1>12. /\ Extends /\ DOMAIN accesses' \ DOMAIN accesses = {b} /\ accesses'[b] = new
       /\ DOMAIN accesses \subseteq DOMAIN accesses'
       /\ \A c \in DOMAIN accesses : accesses'[c] = accesses[c]
  <2>1. edges \subseteq edges'
    BY <1>2
  <2> QED
    BY <1>1, <1>2, <1>3, <1>7, <2>1, AppendedAccess DEF Extends
<1>13. Joined(a, b)'
  <2>1. [in |-> a, out |-> b] \in edges'
    BY <1>2
  <2> QED
    BY <2>1 DEF Joined
<1>14. ASSUME NEW t \in Original
       PROVE  Ordered(t, b)'
  <2>1. t \in DOMAIN accesses
    BY AccessFacts
  <2>2. /\ accesses'[t] = accesses[t] /\ Instruction(t)' = Instruction(t) /\ ArrayPointer(t)' = ArrayPointer(t)
        /\ ArrayPointer(b)' = ArrayPointer(a) /\ Instruction(b)' = Instruction(a) /\ (Apart(t, b)' <=> Apart(t, a))
    <3>1. accesses'[t] = accesses[t] /\ accesses'[b].instr = s
      BY <1>12, <2>1
    <3>2. Instruction(t)' = Instruction(t) /\ Instruction(b)' = s /\ Instruction(a) = s
      BY <1>4, <3>1 DEF Instruction
    <3> QED
      BY <1>3, <3>1, <3>2 DEF ArrayPointer, Apart
  <2>3. SUFFICES ASSUME ~accesses[t].load, ArrayPointer(t) = ArrayPointer(a), ~Apart(t, a)
                 PROVE  \/ Together(t, b)'
                        \/ \E q \in DOMAIN accesses' : Joined(t, q)' /\ Joined(q, b)'
    BY <2>2 DEF Ordered
  <2>4. CASE t = a
    BY <1>13, <2>4 DEF Together
  <2>5. CASE t # a
    <3>1. Together(t, a)
      BY <1>3, <1>4, <2>3, <2>5, TogetherFacts
    <3>2. CASE Joined(t, a)
      <4>1. Joined(t, a)'
        BY <1>12, <3>2 DEF Joined, Extends
      <4> QED
        BY <1>4, <1>12, <1>13, <4>1
    <3>3. ASSUME NEW e \in edges, e.in = a, e.out = t
          PROVE  Joined(b, t)'
      <4>1. e \in Overwriting(a) /\ e \in Edge
        BY <1>6, <2>3, <3>3 DEF Overwriting, outputEdges
      <4>2. [e EXCEPT !.in = b] \in edges' /\ [e EXCEPT !.in = b].in = b /\ [e EXCEPT !.in = b].out = t
        BY <1>2, <3>3, <4>1 DEF FromInstead, Edge
      <4> QED
        BY <4>2 DEF Joined
    <3> QED
      BY <3>1, <3>2, <3>3 DEF Together, Joined
  <2> QED
    BY <2>4, <2>5
<1>15. \A x, y \in Original : Compared(x, y)
  BY <1>3 DEF Compared
<1> QED
  BY <1>11, <1>12, <1>14, <1>15, OrderKept

\* The other steps.
LEMMA FilledKeeps ==
  ASSUME ObjectInv, OrderInv, Filled
  PROVE  ObjectInv' /\ OrderInv'
<1>1. /\ UNCHANGED <<program, accesses, memory, edges, nodes, visited, todo, apart>>
      /\ progress' = "connect" /\ place' = [i |-> 1, j |-> 1]
      /\ progress = "fill" /\ place.i > Len(memory) /\ place.i \in Nat
  BY DEF Filled, ObjectInv, GraphType
<1>2. ObjectInv'
  BY <1>1, QuietObjects DEF ObjectInv, GraphType
<1>3. \A x, y \in Original : Compared(x, y)
  BY <1>1, ProgramFacts DEF Compared, ObjectInv, Objects, Original
<1>4. Extends
  BY <1>1 DEF Extends
<1> QED
  BY <1>1, <1>2, <1>3, <1>4, QuietOrder

LEMMA StartKeeps ==
  ASSUME ObjectInv, OrderInv, StartNode
  PROVE  ObjectInv' /\ OrderInv'
<1>1. PICK a : a = memory[place.i]
  OBVIOUS
<1>2. progress = "connect" /\ place.i <= Len(memory) /\ UNCHANGED <<program, memory, edges, apart>>
  BY DEF StartNode
<1>3. \A x, y \in Original : Compared(x, y)
  BY <1>2 DEF Compared
<1>4. CASE accesses[a].load
  <2>1. /\ place' = [place EXCEPT !.i = @ + 1]
        /\ UNCHANGED <<accesses, nodes, visited, todo, progress>>
    BY <1>1, <1>4 DEF StartNode
  <2>2. place' \in [i : Nat \ {0}, j : Nat]
    <3>1. place \in [i : Nat \ {0}, j : Nat]
      BY DEF ObjectInv, GraphType
    <3> QED
      BY <2>1, <3>1
  <2>3. ObjectInv'
    BY <1>2, <2>1, <2>2, QuietObjects DEF ObjectInv, GraphType
  <2>4. Extends
    BY <1>2, <2>1 DEF Extends
  <2> QED
    BY <1>3, <2>1, <2>3, <2>4, QuietOrder
<1>5. CASE ~accesses[a].load
  <2> DEFINE new == [memory |-> {place.i}, loops |-> NumLoops(a), inNeighbors |-> {}, outNeighbors |-> {}]
             l == Len(nodes) + 1
  <2>1. /\ nodes' = Append(nodes, new) /\ accesses' = [accesses EXCEPT ![a].node = l]
        /\ visited' = visited \union {Instruction(a)} /\ todo' = program.operands[Instruction(a)]
        /\ progress' = "search" /\ UNCHANGED place
    BY <1>1, <1>5 DEF StartNode
  <2>2. place.i \in Nat \ {0} /\ nodes \in Seq(Node) /\ l \in Nat
    BY DEF ObjectInv, GraphType
  <2>3. /\ a \in DOMAIN accesses /\ Instruction(a) \in instructions /\ NumLoops(a) \in Nat
        /\ program.operands[Instruction(a)] \in Seq(instructions)
    <3>1. place.i \in DOMAIN memory
      BY <1>2, <2>2, AccessFacts
    <3>2. a \in DOMAIN accesses
      BY <1>1, <3>1, AccessFacts
    <3>3. PICK k \in Original : program.memory[k] = Instruction(a)
      BY <3>2, AccessFacts, ProgramFacts DEF InBlock, ObjectInv, Instruction
    <3> QED
      BY <3>2, <3>3, ProgramFacts DEF ObjectInv, NumLoops
  <2>4. nodes' \in Seq(Node)
    <3>1. new \in Node
      BY <2>2, <2>3 DEF Node
    <3> HIDE DEF new
    <3> QED
      BY <2>1, <2>2, <3>1
  <2>5. ObjectInv'
    <3>1. visited' \subseteq instructions /\ place' \in [i : Nat \ {0}, j : Nat] /\ l \in Int
      BY <2>1, <2>2, <2>3 DEF ObjectInv, GraphType
    <3> HIDE DEF l
    <3> QED
      BY <1>2, <2>1, <2>3, <2>4, <3>1, NodeObjects
  <2>6. Extends /\ DOMAIN accesses' = DOMAIN accesses
    BY <1>2, <2>1, AccessFacts DEF Extends, Access
  <2> QED
    BY <1>3, <2>5, <2>6, QuietOrder
<1> QED
  BY <1>4, <1>5

LEMMA TakeKeeps ==
  ASSUME ObjectInv, OrderInv, TakeLoad
  PROVE  ObjectInv' /\ OrderInv'
<1>1. PICK u, a, n : u = Current /\ a = memory[userToMem(u)] /\ n = Len(nodes)
  OBVIOUS
<1>2. /\ progress = "search" /\ todo # <<>> /\ InBlock(u) /\ IsLoad(u)
      /\ accesses' = [accesses EXCEPT ![a].node = n] /\ addMemory(n, userToMem(u), a)
      /\ todo' = Tail(todo) /\ UNCHANGED <<program, memory, edges, visited, place, progress, apart>>
  BY <1>1 DEF TakeLoad, Searching, Passed, OfNode
<1>3. a \in DOMAIN accesses /\ userToMem(u) \in Nat
  BY <1>1, <1>2, UserFacts, ProgramFacts DEF Original, ObjectInv
<1>4. nodes' \in Seq(Node) /\ n \in Int
  BY <1>1, <1>2, <1>3, AddMemoryFacts DEF ObjectInv, GraphType
<1>5. Tail(todo) \in Seq(instructions) /\ visited \subseteq instructions /\ place \in [i : Nat \ {0}, j : Nat]
  BY <1>2, TodoFacts DEF ObjectInv, GraphType
<1>6. ObjectInv'
  BY <1>2, <1>3, <1>4, <1>5, NodeObjects
<1>7. Extends /\ DOMAIN accesses' = DOMAIN accesses
  BY <1>2, AccessFacts DEF Extends, Access
<1>8. \A x, y \in Original : Compared(x, y)
  BY <1>2 DEF Compared
<1> QED
  BY <1>6, <1>7, <1>8, QuietOrder

LEMMA QuietKeeps ==
  ASSUME ObjectInv, OrderInv, Searched \/ SkipUser \/ searchOperandsForLoads \/ buildGraph
  PROVE  ObjectInv' /\ OrderInv'
<1>1. /\ UNCHANGED <<program, accesses, memory, edges, apart>>
      /\ progress \in {"connect", "search"} /\ progress' \in {"connect", "search", "built", "undefined"}
  BY DEF Searched, SkipUser, searchOperandsForLoads, buildGraph, Searching
<1>2. /\ nodes \in Seq(Node) /\ place \in [i : Nat \ {0}, j : Nat]
      /\ visited \subseteq instructions /\ todo \in Seq(instructions)
  BY DEF ObjectInv, GraphType
<1>3. nodes' \in Seq(Node)
  <2>1. CASE buildGraph /\ progress' = "built"
    <3> DEFINE l == Len(nodes)
               f == nodes'
    <3>1. f = [n \in DOMAIN nodes |-> [nodes[n] EXCEPT !.outNeighbors = Adjoining(n, "in", "out"),
                                                       !.inNeighbors = Adjoining(n, "out", "in")]]
      BY <2>1 DEF buildGraph
    <3>2. l \in Nat /\ DOMAIN nodes = 1 .. l /\ \A n \in 1 .. l : nodes[n] \in Node
      BY <1>2
    <3>3. \A n : Adjoining(n, "in", "out") \subseteq Int /\ Adjoining(n, "out", "in") \subseteq Int
      BY AccessFacts DEF Adjoining, ObjectInv, GraphType, Edge, Access
    <3>4. \A n \in 1 .. l : f[n] \in Node
      <4> SUFFICES ASSUME NEW n \in 1 .. l PROVE f[n] \in Node
        OBVIOUS
      <4> DEFINE I == Adjoining(n, "out", "in")
                 O == Adjoining(n, "in", "out")
      <4>1. f[n] = [nodes[n] EXCEPT !.outNeighbors = O, !.inNeighbors = I]
        BY <3>1, <3>2
      <4>2. nodes[n] \in Node /\ I \subseteq Int /\ O \subseteq Int
        BY <3>2, <3>3
      <4> HIDE DEF f, I, O, l
      <4> QED
        BY <4>1, <4>2 DEF Node
    <3>5. DOMAIN f = 1 .. l /\ f = [n \in 1 .. l |-> f[n]]
      BY <3>1, <3>2
    <3> HIDE DEF f, l
    <3>6. f \in Seq(Node)
      BY <3>2, <3>4, <3>5, SequenceFacts
    <3> QED
      BY <3>6 DEF f
  <2>2. CASE UNCHANGED nodes
    BY <1>2, <2>2
  <2> QED
    BY <2>1, <2>2 DEF Searched, SkipUser, searchOperandsForLoads, buildGraph
<1>4. place' \in [i : Nat \ {0}, j : Nat]
  <2>1. CASE Searched
    <3>1. place' = [place EXCEPT !.i = @ + 1]
      BY <2>1 DEF Searched
    <3> QED
      BY <1>2, <3>1
  <2>2. CASE ~Searched
    <3>1. UNCHANGED place
      BY <2>2 DEF SkipUser, searchOperandsForLoads, buildGraph
    <3> QED
      BY <1>2, <3>1
  <2> QED
    BY <2>1, <2>2
<1>5. visited' \subseteq instructions /\ todo' \in Seq(instructions)
  <2>1. CASE Searched
    BY <1>2, <2>1 DEF Searched, Cleared
  <2>2. CASE SkipUser
    BY <1>2, <2>2, TodoFacts DEF SkipUser, Searching
  <2>3. CASE searchOperandsForLoads
    <3>1. Current \in instructions /\ Tail(todo) \in Seq(instructions)
      BY <2>3, TodoFacts DEF searchOperandsForLoads, Searching
    <3>2. program.operands[Current] \in Seq(instructions)
      BY <3>1, ProgramFacts DEF ObjectInv
    <3> QED
      BY <1>2, <2>3, <3>1, <3>2 DEF searchOperandsForLoads
  <2>4. CASE buildGraph
    BY <1>2, <2>4 DEF buildGraph
  <2> QED
    BY <2>1, <2>2, <2>3, <2>4
<1>6. ObjectInv'
  BY <1>1, <1>3, <1>4, <1>5, QuietObjects
<1>7. Extends
  BY <1>1 DEF Extends
<1>8. \A x, y \in Original : Compared(x, y)
  BY <1>1 DEF Compared
<1> QED
  BY <1>1, <1>6, <1>7, <1>8, QuietOrder

LEMMA NextKeepsOrder ==
  ASSUME ObjectInv, OrderInv, GraphNext
  PROVE  ObjectInv' /\ OrderInv'
<1>1. CASE fillEdges
  BY <1>1, FillObjects, FillOrder
<1>2. CASE Filled
  BY <1>2, FilledKeeps
<1>3. CASE StartNode
  BY <1>3, StartKeeps
<1>4. CASE TakeLoad
  BY <1>4, TakeKeeps
<1>5. CASE duplicateLoad
  BY <1>5, DuplicateKeeps
<1>6. CASE searchValueForStores
  BY <1>6, ReloadKeeps
<1>7. CASE Searched \/ SkipUser \/ searchOperandsForLoads \/ buildGraph
  BY <1>7, QuietKeeps
<1> QED
  BY <1>1, <1>2, <1>3, <1>4, <1>5, <1>6, <1>7 DEF GraphNext

LEMMA StutterKeepsOrder ==
  ASSUME ObjectInv, OrderInv, UNCHANGED graphVars
  PROVE  ObjectInv' /\ OrderInv'
<1>1. ObjectInv'
  BY DEF graphVars, ObjectInv, GraphType, Objects, Edge, Access, Original, instructions, InBlock
<1>2. OrderInv'
  BY DEF graphVars, OrderInv, FirstOrdered, LaterOrdered, Ordered, Original, Compared, Conflict, Apart,
         Together, Joined, ArrayPointer, Instruction
<1> QED
  BY <1>1, <1>2

----------------------------------------------------------------------------
(* A path over two edges is found.                                         *)

LEMMA LeastOf ==
  ASSUME NEW D \in SUBSET Nat, NEW d \in D
  PROVE  \E i \in D : \A k \in D : i <= k
<1> DEFINE R == {ss \in Nat \X Nat : ss[1] < ss[2]}
<1>1. IsWellFoundedOn(R, Nat)
  BY NatLessThanWellFounded DEF OpToRel
<1>2. PICK x \in D : \A y \in D : <<y, x>> \notin R
  <2> HIDE DEF R
  <2> QED
    BY <1>1, WFMin
<1>3. ASSUME NEW y \in D
      PROVE  x <= y
  <2>1. x \in Nat /\ y \in Nat /\ ~(y < x)
    BY <1>2
  <2> QED
    BY <2>1
<1> QED
  BY <1>3

\* The accesses that k edges reach, by the walks that reach them.
Walk(k, p) == \A i \in 1 .. k : p[i] = p[i - 1] \/ Joined(p[i - 1], p[i])
WalksTo(x, k) == {y \in DOMAIN accesses : \E p \in [0 .. k -> DOMAIN accesses] : p[0] = x /\ p[k] = y /\ Walk(k, p)}
Next1(A) == A \union {e.out : e \in {e \in edges : e.in \in A}}
Reaches(x, f) == f = [k \in 0 .. Len(accesses) |-> IF k = 0 THEN {x} ELSE Next1(f[k - 1])]

LEMMA WalkFacts ==
  ASSUME edges \subseteq Edge, NEW x \in DOMAIN accesses, NEW k \in Nat
  PROVE  WalksTo(x, 0) = {x} /\ WalksTo(x, k + 1) = Next1(WalksTo(x, k))
<1> DEFINE A == DOMAIN accesses
           l == k + 1
<1>1. WalksTo(x, 0) = {x}
  <2>1. ASSUME NEW y \in WalksTo(x, 0) PROVE y = x
    BY DEF WalksTo
  <2>2. x \in WalksTo(x, 0)
    <3> DEFINE p == [i \in 0 .. 0 |-> x]
    <3>1. p \in [0 .. 0 -> A] /\ p[0] = x
      OBVIOUS
    <3>2. Walk(0, p)
      BY DEF Walk
    <3> HIDE DEF p
    <3> QED
      BY <3>1, <3>2 DEF WalksTo
  <2> QED
    BY <2>1, <2>2
<1>2. l \in Nat /\ l = k + 1 /\ l - 1 = k /\ k \in 0 .. l /\ 0 \in 0 .. k /\ \A i \in 0 .. k : i \in 0 .. l
  OBVIOUS
<1> HIDE DEF l
<1>3. ASSUME NEW y \in WalksTo(x, l) PROVE y \in Next1(WalksTo(x, k))
  <2>1. PICK p \in [0 .. l -> A] : p[0] = x /\ p[l] = y /\ Walk(l, p)
    BY <1>3 DEF WalksTo
  <2> DEFINE q == [i \in 0 .. k |-> p[i]]
             z == p[k]
  <2>2. q \in [0 .. k -> A] /\ q[0] = x /\ q[k] = z /\ z \in A
    BY <1>2, <2>1
  <2>3. Walk(k, q)
    BY <1>2, <2>1 DEF Walk
  <2>4. y = z \/ Joined(z, y)
    BY <1>2, <2>1 DEF Walk
  <2> HIDE DEF q, z
  <2>5. z \in WalksTo(x, k)
    BY <2>2, <2>3 DEF WalksTo
  <2> QED
    BY <2>4, <2>5 DEF Next1, Joined
<1>4. ASSUME NEW y \in Next1(WalksTo(x, k)) PROVE y \in WalksTo(x, l)
  <2>1. PICK z \in WalksTo(x, k) : y = z \/ Joined(z, y)
    BY <1>4 DEF Next1, Joined
  <2>2. PICK p \in [0 .. k -> A] : p[0] = x /\ p[k] = z /\ Walk(k, p)
    BY <2>1 DEF WalksTo
  <2>3. y \in A
    BY <2>1 DEF WalksTo, Joined, Edge
  <2> DEFINE q == [i \in 0 .. l |-> IF i = l THEN y ELSE p[i]]
  <2>4. q \in [0 .. l -> A] /\ q[0] = x /\ q[l] = y /\ q[k] = z /\ \A i \in 0 .. k : q[i] = p[i]
    BY <1>2, <2>2, <2>3
  <2> HIDE DEF q
  <2>5. Walk(l, q)
    <3> SUFFICES ASSUME NEW i \in 1 .. l PROVE q[i] = q[i - 1] \/ Joined(q[i - 1], q[i])
      BY DEF Walk
    <3>1. CASE i = l
      BY <1>2, <2>1, <2>4, <3>1
    <3>2. CASE i # l
      <4>1. i \in 1 .. k /\ i \in 0 .. k /\ i - 1 \in 0 .. k
        BY <1>2, <3>2
      <4> QED
        BY <2>2, <2>4, <4>1 DEF Walk
    <3> QED
      BY <3>1, <3>2
  <2> QED
    BY <2>3, <2>4, <2>5 DEF WalksTo
<1> QED
  BY <1>1, <1>3, <1>4 DEF l

LEMMA ShortPath ==
  ASSUME ObjectInv, NEW x \in DOMAIN accesses, NEW y \in DOMAIN accesses, x # y,
         Joined(x, y) \/ \E s \in DOMAIN accesses : Joined(x, s) /\ Joined(s, y)
  PROVE  Path(x, y)
<1> DEFINE L == Len(accesses)
<1>1. L \in Nat /\ L >= 2 /\ edges \subseteq Edge
  <2>1. DOMAIN accesses = 1 .. L /\ L \in Nat
    BY AccessFacts
  <2> QED
    BY <2>1 DEF ObjectInv, GraphType
<1>2. \E f : Reaches(x, f)
  <2> DEFINE g == [k \in 0 .. L |-> WalksTo(x, k)]
  <2>1. \A k \in 0 .. L : g[k] = IF k = 0 THEN {x} ELSE Next1(g[k - 1])
    <3> SUFFICES ASSUME NEW k \in 0 .. L PROVE g[k] = IF k = 0 THEN {x} ELSE Next1(g[k - 1])
      OBVIOUS
    <3>1. CASE k = 0
      BY <1>1, <3>1, WalkFacts
    <3>2. CASE k # 0
      <4> DEFINE m == k - 1
      <4>1. m \in Nat /\ m \in 0 .. L /\ k = m + 1
        BY <1>1, <3>2
      <4> HIDE DEF m
      <4>2. WalksTo(x, m + 1) = Next1(WalksTo(x, m))
        BY <1>1, <4>1, WalkFacts
      <4>3. g[k] = Next1(g[m])
        BY <4>1, <4>2
      <4> QED
        BY <3>2, <4>3 DEF m
    <3> QED
      BY <3>1, <3>2
  <2>2. g = [k \in 0 .. L |-> g[k]]
    OBVIOUS
  <2> HIDE DEF g
  <2>3. g = [k \in 0 .. L |-> IF k = 0 THEN {x} ELSE Next1(g[k - 1])]
    BY <2>1, <2>2
  <2> QED
    BY <2>3 DEF Reaches
<1>3. ASSUME NEW f, Reaches(x, f) PROVE y \in f[L]
  <2>1. f[0] = {x} /\ \A k \in 1 .. L : f[k] = Next1(f[k - 1])
    <3>1. \A k \in 0 .. L : f[k] = IF k = 0 THEN {x} ELSE Next1(f[k - 1])
      BY <1>3 DEF Reaches
    <3> HIDE DEF L
    <3> QED
      BY <1>1, <3>1
  <2> HIDE DEF L
  <2>2. f[1] = Next1(f[0]) /\ f[2] = Next1(f[1])
    BY <1>1, <2>1
  <2>3. y \in f[2]
    <3>1. \A z : Joined(x, z) => z \in f[1]
      BY <2>1, <2>2 DEF Next1, Joined
    <3>2. \A z, w : z \in f[1] /\ Joined(z, w) => w \in f[2]
      BY <2>2 DEF Next1, Joined
    <3>3. f[1] \subseteq f[2]
      BY <2>2 DEF Next1
    <3> QED
      BY <3>1, <3>2, <3>3
  <2> DEFINE D == {k \in 2 .. L : y \notin f[k]}
  <2>4. D = {}
    <3> SUFFICES ASSUME NEW d \in D PROVE FALSE
      OBVIOUS
    <3>1. D \in SUBSET Nat
      OBVIOUS
    <3> HIDE DEF D
    <3>2. PICK i \in D : \A k \in D : i <= k
      BY <3>1, LeastOf
    <3>3. i \in 2 .. L /\ y \notin f[i] /\ i # 2
      BY <2>3, <3>2 DEF D
    <3> DEFINE j == i - 1
    <3>4. j \in 2 .. L /\ j < i /\ i \in 1 .. L
      BY <1>1, <3>3
    <3>5. f[i] = Next1(f[j])
      BY <2>1, <3>4
    <3>6. j \notin D
      BY <1>1, <3>2, <3>4
    <3> HIDE DEF j
    <3>7. y \in f[j]
      BY <3>4, <3>6 DEF D
    <3> QED
      BY <3>3, <3>5, <3>7 DEF Next1
  <2>5. L \in 2 .. L
    BY <1>1
  <2> QED
    BY <2>4, <2>5
<1> QED
  BY <1>2, <1>3, Zenon DEF Path, Reaches, Next1

(* Two accesses that conflict, of the block or made by duplicateLoad and    *)
(* searchValueForStores, are ordered by edges unless check found them       *)
(* independent, in graphs of every block.                                   *)
THEOREM AlwaysOrdered == GraphSpec => []ConflictsOrdered
<1>1. GraphInit => ObjectInv /\ OrderInv
  BY InitObjects, InitOrder
<1>2. ObjectInv /\ OrderInv /\ [GraphNext]_graphVars => (ObjectInv /\ OrderInv)'
  BY NextKeepsOrder, StutterKeepsOrder
<1>3. ObjectInv /\ OrderInv => ConflictsOrdered
  <2> SUFFICES ASSUME ObjectInv, OrderInv, progress = "built",
                      NEW x \in DOMAIN accesses, NEW y \in DOMAIN accesses,
                      x < y, Conflict(x, y), {Instruction(x), Instruction(y)} \notin apart
               PROVE  Path(x, y) \/ Path(y, x)
    BY DEF ConflictsOrdered
  <2>1. /\ DOMAIN accesses = 1 .. Len(accesses) /\ Len(accesses) \in Nat
        /\ Len(program.memory) \in Nat /\ Original = 1 .. Len(program.memory)
    BY AccessFacts, ProgramFacts DEF ObjectInv, Original
  <2>2. x # y /\ (y \in Original => x \in Original) /\ ~Apart(x, y)
    BY <2>1 DEF Apart
  <2>3. CASE y \in Original
    <3>1. Together(x, y)
      BY <2>2, <2>3 DEF OrderInv, FirstOrdered, Compared
    <3> QED
      BY <2>2, <3>1, ShortPath DEF Together
  <2>4. CASE y \notin Original
    <3>1. accesses[y].load /\ ~accesses[x].load
      BY <2>4 DEF ObjectInv, Objects, Conflict
    <3>2. x \in Original
      BY <3>1 DEF ObjectInv, Objects
    <3>3. Ordered(x, y) /\ ArrayPointer(x) = ArrayPointer(y)
      BY <2>4, <3>2 DEF OrderInv, LaterOrdered, Conflict
    <3>4. Together(x, y) \/ \E s \in DOMAIN accesses : Joined(x, s) /\ Joined(s, y)
      BY <2>2, <3>1, <3>3 DEF Ordered
    <3> QED
      BY <2>2, <3>4, ShortPath DEF Together
  <2> QED
    BY <2>3, <2>4
<1> QED
  BY <1>1, <1>2, <1>3, PTL DEF GraphSpec

----------------------------------------------------------------------------
(* What a node loads.                                                      *)

Reads(n) == {Instruction(b) : b \in {b \in DOMAIN accesses : accesses[b].load /\ accesses[b].node = n}}

\* The node n has what the store s needs of the operand u.
Loaded(u, s, n) ==
  /\ IsLoad(u) /\ InBlock(u) => u \in Reads(n)
  /\ ~IsLoad(u) /\ KeptElsewhere(u, s) => \E t \in Reads(n) : IsStore(t) /\ program.operands[t] = <<u>>

AllLoaded(a) ==
  /\ accesses[a].node # NoNode
  /\ \A u \in Registers(Instruction(a)) : Loaded(u, Instruction(a), accesses[a].node)

\* The search of a store's node: what was visited is computed in the node, and
\* every operand of it was visited, is loaded or is still to be checked.
Following(v, s, n) ==
  \A w \in Uses(v) : \/ w \in visited
                     \/ \E k \in DOMAIN todo : todo[k] = w
                     \/ Leaf(w, s) /\ Loaded(w, s, n)
SearchInv ==
  LET s == Instruction(place.i)
      n == Len(nodes)
  IN  /\ place.i \in Original /\ ~accesses[place.i].load /\ accesses[place.i].node = n
      /\ s \in visited
      /\ \A v \in visited : /\ v = s \/ (~Leaf(v, s) /\ ~IsStore(v))
                            /\ Following(v, s, n)
      /\ \A k \in DOMAIN todo : ~IsStore(todo[k])

ReadInv ==
  /\ progress # "search" => visited = {}
  /\ progress \in {"built", "undefined"} => place.i > Len(memory)
  /\ progress # "fill" =>
       \A a \in Original : ~accesses[a].load /\ a < place.i => AllLoaded(a)
  /\ progress = "search" => SearchInv

\* What only the program says does not change.
LEMMA ProgramKept ==
  ASSUME UNCHANGED program
  PROVE  /\ Original' = Original
         /\ \A u : /\ IsLoad(u)' <=> IsLoad(u)
                   /\ InBlock(u)' <=> InBlock(u)
                   /\ IsStore(u)' <=> IsStore(u)
                   /\ Uses(u)' = Uses(u) /\ Registers(u)' = Registers(u)
         /\ \A u, s : /\ KeptElsewhere(u, s)' <=> KeptElsewhere(u, s)
                      /\ Leaf(u, s)' <=> Leaf(u, s)
BY DEF Original, IsLoad, InBlock, IsStore, Uses, Registers, KeptElsewhere, Leaf

\* No load leaves the node it has.
LoadsStay ==
  /\ UNCHANGED program
  /\ \A b \in DOMAIN accesses :
       /\ b \in DOMAIN accesses' /\ accesses'[b].instr = accesses[b].instr
       /\ accesses[b].load => /\ accesses'[b].load
                              /\ accesses'[b].node = accesses[b].node \/ accesses[b].node = NoNode
       /\ ~accesses[b].load /\ (b < place.i \/ (progress = "search" /\ b = place.i)) => accesses'[b] = accesses[b]

LEMMA LoadedStays ==
  ASSUME LoadsStay, NEW n, n # NoNode, NEW u, NEW s
  PROVE  /\ Reads(n) \subseteq Reads(n)'
         /\ Loaded(u, s, n) => Loaded(u, s, n)'
<1>1. ASSUME NEW b \in DOMAIN accesses, accesses[b].load, accesses[b].node = n
      PROVE  Instruction(b) \in Reads(n)'
  <2>1. b \in DOMAIN accesses' /\ accesses'[b].load /\ accesses'[b].node = n /\ Instruction(b)' = Instruction(b)
    BY <1>1 DEF LoadsStay, Instruction
  <2> QED
    BY <2>1 DEF Reads
<1>2. Reads(n) \subseteq Reads(n)'
  BY <1>1 DEF Reads
<1>3. program' = program
  BY DEF LoadsStay
<1>4. Loaded(u, s, n) => Loaded(u, s, n)'
  BY <1>2, <1>3, ProgramKept DEF Loaded
<1> QED
  BY <1>2, <1>4

LEMMA AllLoadedStays ==
  ASSUME LoadsStay, NEW a \in DOMAIN accesses, ~accesses[a].load, a < place.i, AllLoaded(a)
  PROVE  AllLoaded(a)'
<1> DEFINE s == Instruction(a)
           n == accesses[a].node
<1>1. accesses'[a] = accesses[a] /\ Instruction(a)' = s /\ program' = program
  BY DEF LoadsStay, Instruction
<1>2. n # NoNode /\ \A u \in Registers(s) : Loaded(u, s, n)
  BY DEF AllLoaded
<1>3. \A u \in Registers(s) : Loaded(u, s, accesses[a].node)'
  BY <1>1, <1>2, LoadedStays
<1>4. Registers(Instruction(a))' = Registers(s)
  BY <1>1, ProgramKept
<1> QED
  BY <1>1, <1>2, <1>3, <1>4 DEF AllLoaded

LEMMA LoadedSame ==
  ASSUME UNCHANGED <<program, accesses>>, NEW a, NEW u, NEW s, NEW n
  PROVE  (AllLoaded(a)' <=> AllLoaded(a)) /\ (Loaded(u, s, n)' <=> Loaded(u, s, n))
<1>1. Reads(n)' = Reads(n) /\ Reads(accesses[a].node)' = Reads(accesses[a].node) /\ Instruction(a)' = Instruction(a)
  BY DEF Reads, Instruction
<1>2. \A v, t, m : Loaded(v, t, m)' <=> Loaded(v, t, m)
  <2> SUFFICES ASSUME NEW v, NEW t, NEW m PROVE Loaded(v, t, m)' <=> Loaded(v, t, m)
    OBVIOUS
  <2>1. Reads(m)' = Reads(m)
    BY DEF Reads, Instruction
  <2> QED
    BY <2>1, ProgramKept DEF Loaded
<1>3. AllLoaded(a)' <=> AllLoaded(a)
  <2> DEFINE s1 == Instruction(a)
             n1 == accesses[a].node
  <2>1. Registers(Instruction(a))' = Registers(s1)
    BY <1>1, ProgramKept
  <2>2. \A v : Loaded(v, Instruction(a), accesses[a].node)' <=> Loaded(v, s1, n1)
    BY <1>1, <1>2
  <2> QED
    BY <2>1, <2>2 DEF AllLoaded
<1> QED
  BY <1>2, <1>3

\* A step of the search that is done with its current user.
Checked(u, s, n) == u \in visited \/ (Leaf(u, s) /\ Loaded(u, s, n)')

LEMMA SearchStep ==
  ASSUME ObjectInv, ReadInv, progress = "search", todo # <<>>, todo' = Tail(todo),
         UNCHANGED <<program, visited, place, progress>>, Len(nodes') = Len(nodes), LoadsStay,
         NEW u, NEW s, NEW n, u = Current, s = Instruction(place.i), n = Len(nodes), Checked(u, s, n)
  PROVE  ReadInv'
<1>0. PICK i : i = place.i
  OBVIOUS
<1>1. /\ i \in Original /\ i \in DOMAIN accesses /\ ~accesses[i].load /\ accesses[i].node = n
      /\ s \in visited /\ n \in Nat /\ n # NoNode
      /\ \A v \in visited : (v = s \/ (~Leaf(v, s) /\ ~IsStore(v))) /\ Following(v, s, n)
      /\ \A k \in DOMAIN todo : ~IsStore(todo[k])
  BY <1>0, AccessFacts DEF ReadInv, SearchInv, ObjectInv, GraphType, NoNode
<1>2. accesses'[i] = accesses[i] /\ Instruction(i)' = s /\ place'.i = i /\ Len(nodes') = n
  BY <1>0, <1>1 DEF LoadsStay, Instruction
<1>3. ASSUME NEW v \in visited
      PROVE  Following(v, s, n)'
  <2> SUFFICES ASSUME NEW w \in Uses(v)
               PROVE  \/ w \in visited
                      \/ \E k \in DOMAIN todo' : todo'[k] = w
                      \/ Leaf(w, s) /\ Loaded(w, s, n)'
    BY ProgramKept DEF Following
  <2>1. CASE Leaf(w, s) /\ Loaded(w, s, n)
    BY <1>1, <2>1, LoadedStays
  <2>2. ASSUME NEW k \in DOMAIN todo, todo[k] = w
        PROVE  \/ w \in visited
               \/ \E l \in DOMAIN todo' : todo'[l] = w
               \/ Leaf(w, s) /\ Loaded(w, s, n)'
    <3>1. CASE k = 1
      <4>1. w = u
        BY <2>2, <3>1, TodoFacts
      <4> QED
        BY <4>1 DEF Checked
    <3>2. CASE k # 1
      BY <2>2, <3>2, TodoFacts
    <3> QED
      BY <3>1, <3>2
  <2> QED
    BY <1>1, <2>1, <2>2 DEF Following
<1>4. \A k \in DOMAIN todo' : ~IsStore(todo'[k])
  BY <1>1, TodoFacts
<1>5. SearchInv'
  BY <1>1, <1>2, <1>3, <1>4, ProgramKept DEF SearchInv
<1>6. ASSUME NEW a \in Original, ~accesses'[a].load, a < place'.i
      PROVE  AllLoaded(a)'
  <2>1. a \in DOMAIN accesses /\ a < place.i
    BY <1>6, AccessFacts
  <2>2. ~accesses[a].load
    BY <1>6, <2>1 DEF LoadsStay
  <2>3. AllLoaded(a)
    BY <1>6, <2>1, <2>2 DEF ReadInv
  <2> QED
    BY <2>1, <2>2, <2>3, AllLoadedStays
<1> QED
  BY <1>5, <1>6, ProgramKept DEF ReadInv

LEMMA SkipReads ==
  ASSUME ObjectInv, ReadInv, SkipUser
  PROVE  LoadsStay /\ ReadInv'
<1>0. PICK u, s, n : u = Current /\ s = Instruction(place.i) /\ n = Len(nodes)
  OBVIOUS
<1>1. /\ progress = "search" /\ todo # <<>> /\ todo' = Tail(todo) /\ Passed(u)
      /\ UNCHANGED <<program, accesses, memory, edges, nodes, visited, place, progress, apart>>
  BY <1>0 DEF SkipUser, Searching
<1>2. LoadsStay
  BY <1>1 DEF LoadsStay
<1>3. Checked(u, s, n)
  BY <1>1, ProgramKept DEF Checked, Passed, Leaf, Loaded
<1> QED
  BY <1>0, <1>1, <1>2, <1>3, SearchStep

LEMMA TakeReads ==
  ASSUME ObjectInv, ReadInv, TakeLoad
  PROVE  LoadsStay /\ ReadInv'
<1>0. PICK u, a, s, n : u = Current /\ a = memory[userToMem(u)] /\ s = Instruction(place.i) /\ n = Len(nodes)
  OBVIOUS
<1>1. /\ progress = "search" /\ todo # <<>> /\ todo' = Tail(todo) /\ IsLoad(u) /\ InBlock(u)
      /\ accesses' = [accesses EXCEPT ![a].node = n] /\ accesses[a].node = NoNode
      /\ addMemory(n, userToMem(u), a)
      /\ UNCHANGED <<program, visited, place, progress>>
  BY <1>0 DEF TakeLoad, Searching, Passed, OfNode
<1>2. /\ a \in DOMAIN accesses /\ accesses[a].instr = u /\ accesses[a].load /\ accesses[a] \in Access
      /\ userToMem(u) \in Nat
  BY <1>0, <1>1, UserFacts, AccessFacts, ProgramFacts DEF Original, ObjectInv
<1>3. Len(nodes') = Len(nodes)
  BY <1>0, <1>1, <1>2, AddMemoryFacts
<1>4. a \in DOMAIN accesses' /\ accesses'[a].instr = u /\ accesses'[a].load /\ accesses'[a].node = n
  BY <1>1, <1>2 DEF Access
<1>5. LoadsStay
  <2>1. \A b \in DOMAIN accesses : b # a => accesses'[b] = accesses[b]
    BY <1>1
  <2> QED
    BY <1>1, <1>2, <1>4, <2>1 DEF LoadsStay
<1>6. u \in Reads(n)'
  BY <1>4 DEF Reads, Instruction
<1>7. Checked(u, s, n)
  BY <1>1, <1>6, ProgramKept DEF Checked, Leaf, Loaded
<1> QED
  BY <1>0, <1>1, <1>3, <1>5, <1>7, SearchStep

\* A load that is added stays out of the way of the others.
LEMMA AddedReads ==
  ASSUME ObjectInv, UNCHANGED program, NEW u \in instructions, NEW n, n = Len(nodes), NewLoad(u)
  PROVE  LoadsStay /\ u \in Reads(n)'
<1> DEFINE new == [instr |-> u, load |-> TRUE, node |-> n]
           l == Len(accesses)
<1>1. accesses \in Seq(Access) /\ l \in Nat /\ DOMAIN accesses = 1 .. l /\ new \in Access
  BY AccessFacts DEF ObjectInv, GraphType, Access
<1>2. /\ DOMAIN accesses' = 1 .. l + 1 /\ accesses'[l + 1] = new
      /\ \A a \in DOMAIN accesses : accesses'[a] = accesses[a]
  BY <1>1 DEF NewLoad
<1>3. LoadsStay
  BY <1>1, <1>2 DEF LoadsStay
<1> QED
  BY <1>1, <1>2, <1>3 DEF Reads, Instruction

LEMMA DuplicateReads ==
  ASSUME ObjectInv, ReadInv, duplicateLoad
  PROVE  LoadsStay /\ ReadInv'
<1>0. PICK u, a, s, n : u = Current /\ a = memory[userToMem(u)] /\ s = Instruction(place.i) /\ n = Len(nodes)
  OBVIOUS
<1>1. /\ progress = "search" /\ todo # <<>> /\ todo' = Tail(todo) /\ IsLoad(u) /\ InBlock(u)
      /\ NewLoad(u) /\ addMemory(n, Len(memory) + 1, a)
      /\ UNCHANGED <<program, visited, place, progress>>
  BY <1>0 DEF duplicateLoad, Searching, Passed
<1>2. u \in instructions /\ a \in DOMAIN accesses /\ Len(memory) + 1 \in Nat
  BY <1>0, <1>1, TodoFacts, UserFacts, AccessFacts
<1>3. Len(nodes') = Len(nodes)
  BY <1>0, <1>1, <1>2, AddMemoryFacts
<1>4. LoadsStay /\ u \in Reads(n)'
  BY <1>0, <1>1, <1>2, AddedReads
<1>5. Checked(u, s, n)
  BY <1>1, <1>4, ProgramKept DEF Checked, Leaf, Loaded
<1> QED
  BY <1>0, <1>1, <1>3, <1>4, <1>5, SearchStep

LEMMA ReloadReads ==
  ASSUME ObjectInv, ReadInv, searchValueForStores
  PROVE  LoadsStay /\ ReadInv'
<1>0. PICK u, s, n : u = Current /\ s = Instruction(place.i) /\ n = Len(nodes)
  OBVIOUS
<1>1. /\ progress = "search" /\ todo # <<>> /\ todo' = Tail(todo) /\ ~IsLoad(u)
      /\ UNCHANGED <<program, visited, place, progress>>
  BY <1>0 DEF searchValueForStores, Searching
<1>2. PICK t \in StoresOf(u) : NewLoad(t) /\ addMemory(n, Len(memory) + 1, memory[userToMem(t)])
  BY <1>0 DEF searchValueForStores
<1>3. t \in instructions /\ IsStore(t) /\ InBlock(t) /\ t \notin visited /\ program.operands[t] = <<u>>
  BY DEF StoresOf, IsStore, instructions
<1>4. memory[userToMem(t)] \in DOMAIN accesses /\ Len(memory) + 1 \in Nat
  BY <1>3, UserFacts, AccessFacts
<1>5. Len(nodes') = Len(nodes)
  BY <1>0, <1>2, <1>4, AddMemoryFacts
<1>6. LoadsStay /\ t \in Reads(n)'
  BY <1>0, <1>1, <1>2, <1>3, AddedReads
<1>7. t # s
  BY <1>0, <1>1, <1>3 DEF ReadInv, SearchInv
<1>8. Leaf(u, s)
  BY <1>3, <1>7 DEF Leaf, KeptElsewhere, instructions
<1>9. Loaded(u, s, n)'
  BY <1>1, <1>3, <1>6, ProgramKept DEF Loaded
<1> QED
  BY <1>0, <1>1, <1>5, <1>6, <1>8, <1>9, SearchStep DEF Checked

LEMMA OperandsReads ==
  ASSUME ObjectInv, ReadInv, searchOperandsForLoads
  PROVE  LoadsStay /\ ReadInv'
<1>0. PICK i, u, s, n : i = place.i /\ u = Current /\ s = Instruction(place.i) /\ n = Len(nodes)
  OBVIOUS
<1>1. /\ progress = "search" /\ todo # <<>> /\ ~IsLoad(u) /\ StoresOf(u) = {} /\ u \notin visited
      /\ todo' = program.operands[u] \o Tail(todo) /\ visited' = visited \union {u}
      /\ UNCHANGED <<program, accesses, memory, edges, nodes, place, progress, apart>>
  BY <1>0 DEF searchOperandsForLoads, Searching, Passed
<1>2. /\ i \in Original /\ ~accesses[i].load /\ accesses[i].node = n /\ s \in visited
      /\ \A v \in visited : (v = s \/ (~Leaf(v, s) /\ ~IsStore(v))) /\ Following(v, s, n)
      /\ \A k \in DOMAIN todo : ~IsStore(todo[k])
  BY <1>0, <1>1 DEF ReadInv, SearchInv
<1>3. u \in instructions /\ ~IsStore(u) /\ program.operands[u] \in Seq(instructions) /\ Tail(todo) \in Seq(instructions)
  BY <1>0, <1>1, <1>2, TodoFacts, ProgramFacts DEF ObjectInv
<1>4. ~Leaf(u, s)
  BY <1>1, <1>2 DEF Leaf, KeptElsewhere, StoresOf
<1> DEFINE ops == program.operands[u]
           rest == Tail(todo)
<1>5. /\ \A k \in DOMAIN ops : k \in DOMAIN todo' /\ todo'[k] = ops[k]
      /\ \A k \in DOMAIN rest : Len(ops) + k \in DOMAIN todo' /\ todo'[Len(ops) + k] = rest[k]
      /\ \A k \in DOMAIN todo' : \/ k \in DOMAIN ops /\ todo'[k] = ops[k]
                                 \/ k - Len(ops) \in DOMAIN rest /\ todo'[k] = rest[k - Len(ops)]
  <2>1. ops \in Seq(instructions) /\ rest \in Seq(instructions) /\ todo' = ops \o rest
    BY <1>1, <1>3
  <2> HIDE DEF ops, rest
  <2> QED
    BY <2>1
<1>6. \A k \in DOMAIN rest : k + 1 \in DOMAIN todo /\ rest[k] = todo[k + 1]
  BY <1>1, TodoFacts
<1>7. \A k \in DOMAIN todo : k = 1 \/ (k - 1 \in DOMAIN rest /\ todo[k] = rest[k - 1])
  BY <1>1, TodoFacts
<1>8. \A k \in DOMAIN ops : ~IsStore(ops[k])
  BY <1>3, ProgramFacts DEF ObjectInv
<1>9. todo[1] = u
  BY <1>0, <1>1, TodoFacts
<1>10. \A w \in Uses(u) : \E k \in DOMAIN todo' : todo'[k] = w
  BY <1>5 DEF Uses
<1> HIDE DEF ops, rest
<1>11. \A k \in DOMAIN todo' : ~IsStore(todo'[k])
  BY <1>2, <1>5, <1>6, <1>8
<1>12. \A w : (\E k \in DOMAIN todo : todo[k] = w) => w = u \/ \E k \in DOMAIN todo' : todo'[k] = w
  BY <1>5, <1>7, <1>9
<1>13. \A w : Loaded(w, s, n)' <=> Loaded(w, s, n)
  BY <1>1, LoadedSame
<1>14. \A v \in visited' : Following(v, s, n)'
  <2> SUFFICES ASSUME NEW v \in visited', NEW w \in Uses(v)
               PROVE  \/ w \in visited'
                      \/ \E k \in DOMAIN todo' : todo'[k] = w
                      \/ Leaf(w, s)' /\ Loaded(w, s, n)'
    BY <1>1, ProgramKept DEF Following
  <2>1. CASE v = u
    BY <1>10, <2>1
  <2>2. CASE v \in visited
    <3>1. w \in visited \/ (\E k \in DOMAIN todo : todo[k] = w) \/ (Leaf(w, s) /\ Loaded(w, s, n))
      BY <1>2, <2>2 DEF Following
    <3> QED
      BY <1>1, <1>12, <1>13, <3>1, ProgramKept
  <2> QED
    BY <1>1, <2>1, <2>2
<1>15. \A v \in visited' : v = s \/ (~Leaf(v, s)' /\ ~IsStore(v)')
  BY <1>1, <1>2, <1>3, <1>4, ProgramKept
<1>16. i = place'.i /\ Instruction(i)' = s /\ Len(nodes') = n
  BY <1>0, <1>1 DEF Instruction
<1>17. SearchInv'
  BY <1>1, <1>2, <1>11, <1>14, <1>15, <1>16, ProgramKept DEF SearchInv
<1>18. LoadsStay
  BY <1>1, AccessFacts DEF LoadsStay
<1>19. ASSUME NEW a \in Original, ~accesses'[a].load, a < place'.i
       PROVE  AllLoaded(a)'
  <2>1. a \in DOMAIN accesses
    BY AccessFacts
  <2>2. AllLoaded(a)
    BY <1>1, <1>19 DEF ReadInv
  <2> QED
    BY <1>1, <1>18, <1>19, <2>1, <2>2, AllLoadedStays
<1> QED
  BY <1>1, <1>17, <1>18, <1>19, ProgramKept DEF ReadInv

LEMMA StartReads ==
  ASSUME ObjectInv, ReadInv, StartNode
  PROVE  LoadsStay /\ ReadInv'
<1>0. PICK i, a, s, n : i = place.i /\ a = memory[place.i] /\ s = Instruction(memory[place.i]) /\ n = Len(nodes) + 1
  OBVIOUS
<1>1. /\ progress = "connect" /\ i <= Len(memory) /\ i \in Nat \ {0} /\ n \in Nat /\ visited = {}
      /\ UNCHANGED <<program, memory, edges, apart>>
  BY <1>0 DEF StartNode, ReadInv, ObjectInv, GraphType
<1>2. \A b \in Original : b \in Nat /\ b \in DOMAIN accesses /\ memory[b] = b
  BY AccessFacts, ProgramFacts DEF ObjectInv, Objects, Original
<1>3. i \in DOMAIN memory /\ a \in DOMAIN accesses
  BY <1>0, <1>1, AccessFacts
<1>4. \A b \in Original : ~accesses[b].load /\ b < i => AllLoaded(b)
  BY <1>0, <1>1 DEF ReadInv
<1>5. CASE accesses[a].load
  <2>1. /\ place' = [place EXCEPT !.i = @ + 1] /\ place'.i = i + 1
        /\ UNCHANGED <<accesses, nodes, visited, todo, progress>>
    BY <1>0, <1>5 DEF StartNode, ObjectInv, GraphType
  <2>2. LoadsStay
    BY <1>1, <2>1 DEF LoadsStay
  <2>3. ASSUME NEW b \in Original, ~accesses'[b].load, b < place'.i
        PROVE  AllLoaded(b)'
    <3>1. b # i
      BY <1>0, <1>2, <1>5, <2>1, <2>3
    <3>2. b < i
      BY <1>1, <1>2, <2>1, <2>3, <3>1
    <3> QED
      BY <1>0, <1>2, <1>4, <2>1, <2>2, <2>3, <3>2, AllLoadedStays
  <2> QED
    BY <1>1, <2>1, <2>2, <2>3, ProgramKept DEF ReadInv
<1>6. CASE ~accesses[a].load
  <2>1. /\ \E node : nodes' = Append(nodes, node)
        /\ accesses' = [accesses EXCEPT ![a].node = n] /\ visited' = {s}
        /\ todo' = program.operands[s] /\ progress' = "search" /\ UNCHANGED place
    BY <1>0, <1>1, <1>6 DEF StartNode
  <2>2. i \in Original /\ a = i
    BY <1>0, <1>2, <1>3, <1>6 DEF ObjectInv, Objects
  <2>3. Len(nodes') = n
    BY <1>0, <2>1 DEF ObjectInv, GraphType
  <2>4. accesses[a] \in Access
    BY <1>3, AccessFacts
  <2>5. /\ accesses'[a].instr = accesses[a].instr /\ accesses'[a].load = accesses[a].load
        /\ accesses'[a].node = n
        /\ \A b \in DOMAIN accesses : b # a => accesses'[b] = accesses[b]
    BY <1>3, <2>1, <2>4 DEF Access
  <2>6. DOMAIN accesses' = DOMAIN accesses
    BY <2>1
  <2>7. LoadsStay
    BY <1>0, <1>1, <1>2, <1>6, <2>2, <2>5, <2>6 DEF LoadsStay
  <2>8. s \in instructions /\ Instruction(a)' = s /\ s = Instruction(a)
    BY <1>0, <2>4, <2>5 DEF Instruction, Access
  <2>9. \A k \in DOMAIN todo' : ~IsStore(todo'[k])
    BY <2>1, <2>8, ProgramFacts DEF ObjectInv
  <2>10. Following(s, s, n)'
    BY <1>1, <2>1, ProgramKept DEF Following, Uses
  <2>11. SearchInv'
    BY <1>0, <1>1, <1>6, <2>1, <2>2, <2>3, <2>5, <2>8, <2>9, <2>10, ProgramKept DEF SearchInv
  <2>12. ASSUME NEW b \in Original, ~accesses'[b].load, b < place'.i
         PROVE  AllLoaded(b)'
    <3>1. b < place.i /\ b \in DOMAIN accesses
      BY <1>2, <2>1, <2>12
    <3>2. ~accesses[b].load
      BY <1>6, <2>5, <2>12, <3>1
    <3> QED
      BY <1>0, <1>4, <2>7, <3>1, <3>2, AllLoadedStays
  <2> QED
    BY <1>1, <2>1, <2>7, <2>11, <2>12, ProgramKept DEF ReadInv
<1> QED
  BY <1>5, <1>6

\* When nothing is left to check, what was visited or is loaded has every
\* register that the store is computed from.
LEMMA SearchCompletes ==
  ASSUME ObjectInv, ReadInv, progress = "search", todo = <<>>
  PROVE  place.i \in Original /\ AllLoaded(place.i)
<1>0. PICK i, s, n : i = place.i /\ s = Instruction(place.i) /\ n = Len(nodes)
  OBVIOUS
<1>1. /\ i \in Original /\ ~accesses[i].load /\ accesses[i].node = n /\ s \in visited
      /\ \A v \in visited : (v = s \/ (~Leaf(v, s) /\ ~IsStore(v))) /\ Following(v, s, n)
  BY <1>0 DEF ReadInv, SearchInv
<1>2. n \in Nat /\ visited \subseteq instructions
  BY <1>0 DEF ObjectInv, GraphType
<1>3. \A v \in visited : \A w \in Uses(v) : w \in visited \/ (Leaf(w, s) /\ Loaded(w, s, n))
  <2>1. DOMAIN todo = {}
    OBVIOUS
  <2> QED
    BY <1>1, <2>1 DEF Following
<1> DEFINE R == {u \in instructions : u \in visited \/ (Leaf(u, s) /\ Loaded(u, s, n))}
<1>4. \A v \in instructions : Uses(v) \subseteq instructions
  BY ProgramFacts DEF ObjectInv, Uses
<1>5. Uses(s) \subseteq R /\ \A u \in R : Leaf(u, s) \/ Uses(u) \subseteq R
  BY <1>1, <1>2, <1>3, <1>4
<1>6. Registers(s) \subseteq R
  <2>1. R \in SUBSET DOMAIN program.operands
    BY DEF instructions
  <2> HIDE DEF R
  <2> QED
    BY <1>5, <2>1 DEF Registers
<1>7. ~IsLoad(s) /\ InBlock(s)
  <2>1. i \in DOMAIN accesses /\ InBlock(accesses[i].instr)
    BY <1>1, AccessFacts
  <2> QED
    BY <1>0, <1>1, <2>1 DEF ObjectInv, Objects, Instruction, IsLoad
<1>8. \A u \in visited : Loaded(u, s, n)
  <2> SUFFICES ASSUME NEW u \in visited PROVE Loaded(u, s, n)
    OBVIOUS
  <2>1. CASE u = s
    <3>1. ASSUME KeptElsewhere(s, s) PROVE FALSE
      <4>1. PICK t \in instructions : program.operands[t] = <<s>>
        BY <3>1 DEF KeptElsewhere, instructions
      <4>2. 1 \in DOMAIN program.operands[t] /\ program.operands[t][1] = s
        BY <4>1
      <4> QED
        BY <1>7, <4>2, ProgramFacts DEF ObjectInv, IsStore
    <3> QED
      BY <1>7, <2>1, <3>1 DEF Loaded
  <2>2. CASE ~Leaf(u, s)
    BY <2>2 DEF Leaf, Loaded
  <2> QED
    BY <1>1, <2>1, <2>2
<1>9. \A u \in Registers(s) : Loaded(u, s, n)
  BY <1>6, <1>8
<1> QED
  BY <1>0, <1>1, <1>2, <1>9 DEF AllLoaded, NoNode

LEMMA SearchedReads ==
  ASSUME ObjectInv, ReadInv, Searched
  PROVE  LoadsStay /\ ReadInv'
<1>1. /\ progress = "search" /\ todo = <<>> /\ visited' = {} /\ progress' = "connect"
      /\ place' = [place EXCEPT !.i = @ + 1]
      /\ UNCHANGED <<program, accesses, memory, edges, nodes, todo, apart>>
  BY DEF Searched, Cleared
<1>2. place \in [i : Nat \ {0}, j : Nat]
  BY DEF ObjectInv, GraphType
<1>3. place'.i = place.i + 1 /\ place.i \in Nat
  BY <1>1, <1>2
<1>4. ASSUME NEW a \in Original, ~accesses'[a].load, a < place'.i
      PROVE  AllLoaded(a)'
  <2>1. AllLoaded(a)
    <3>1. a \in Nat
      BY ProgramFacts DEF ObjectInv, Original
    <3>2. a < place.i \/ a = place.i
      BY <1>3, <1>4, <3>1
    <3> QED
      BY <1>1, <1>4, <3>2, SearchCompletes DEF ReadInv
  <2> QED
    BY <1>1, <2>1, LoadedSame
<1>5. LoadsStay
  BY <1>1 DEF LoadsStay
<1> QED
  BY <1>1, <1>4, <1>5, ProgramKept DEF ReadInv

LEMMA OtherReads ==
  ASSUME ObjectInv, ReadInv, fillEdges \/ Filled \/ buildGraph
  PROVE  LoadsStay /\ ReadInv'
<1>1. UNCHANGED <<program, accesses, memory, visited>>
  BY DEF fillEdges, Filled, buildGraph
<1>2. LoadsStay
  BY <1>1 DEF LoadsStay
<1>3. CASE fillEdges
  BY <1>1, <1>2, <1>3 DEF fillEdges, ReadInv
<1>4. CASE Filled
  <2>1. progress = "fill" /\ progress' = "connect" /\ place'.i = 1
    BY <1>4 DEF Filled
  <2>2. \A a \in Original : ~(a < 1)
    BY ProgramFacts DEF ObjectInv, Original
  <2> QED
    BY <1>1, <1>2, <2>1, <2>2, ProgramKept DEF ReadInv
<1>5. CASE buildGraph
  <2>1. /\ progress = "connect" /\ progress' \in {"built", "undefined"} /\ place.i > Len(memory)
        /\ UNCHANGED place
    BY <1>5 DEF buildGraph
  <2>2. \A a \in Original : AllLoaded(a) => AllLoaded(a)'
    BY <1>1, LoadedSame
  <2> QED
    BY <1>1, <1>2, <2>1, <2>2, ProgramKept DEF ReadInv
<1> QED
  BY <1>3, <1>4, <1>5

LEMMA NextKeepsReads ==
  ASSUME ObjectInv, ReadInv, [GraphNext]_graphVars
  PROVE  ReadInv'
<1>1. CASE GraphNext
  BY <1>1, OtherReads, StartReads, SearchedReads, SkipReads, TakeReads, DuplicateReads, ReloadReads, OperandsReads
     DEF GraphNext
<1>2. CASE UNCHANGED graphVars
  <2>1. /\ UNCHANGED <<program, accesses, memory, nodes, visited, todo, place, progress>>
        /\ \A b : Instruction(b)' = Instruction(b)
    BY <1>2 DEF graphVars, Instruction
  <2>2. \A u, s, n : Loaded(u, s, n)' <=> Loaded(u, s, n)
    BY <2>1, LoadedSame
  <2>3. \A a : AllLoaded(a)' <=> AllLoaded(a)
    BY <2>1, LoadedSame
  <2>4. \A v, s, n : Following(v, s, n)' <=> Following(v, s, n)
    BY <2>1, <2>2, ProgramKept DEF Following
  <2>5. SearchInv' <=> SearchInv
    BY <2>1, <2>4, ProgramKept DEF SearchInv
  <2> QED
    BY <2>1, <2>3, <2>5, ProgramKept DEF ReadInv
<1> QED
  BY <1>1, <1>2

(* A node that is searched to the end has a load for every load its store's  *)
(* value is computed from, and a load of a store for every value kept        *)
(* elsewhere, whatever the operands share: connectGraph on every block.      *)
THEOREM OperandsAlwaysRead == GraphSpec => []NodesReadOperands
<1>1. GraphInit => ObjectInv /\ OrderInv /\ ReadInv
  <2>1. ASSUME GraphInit PROVE ReadInv
    BY <2>1 DEF GraphInit, Block, ReadInv
  <2> QED
    BY <2>1, InitObjects, InitOrder
<1>2. ObjectInv /\ OrderInv /\ ReadInv /\ [GraphNext]_graphVars => (ObjectInv /\ OrderInv /\ ReadInv)'
  BY NextKeepsOrder, StutterKeepsOrder, NextKeepsReads
<1>3. ObjectInv /\ ReadInv => NodesReadOperands
  <2> SUFFICES ASSUME ObjectInv, ReadInv, progress \in {"built", "undefined"},
                      NEW a \in DOMAIN accesses, ~accesses[a].load
               PROVE  AllLoaded(a)
    BY DEF NodesReadOperands, AllLoaded, Loaded, Reads
  <2>1. a \in Original
    BY DEF ObjectInv, Objects
  <2>2. place.i > Len(memory) /\ place.i \in Nat
    BY DEF ReadInv, ObjectInv, GraphType
  <2>3. a < place.i
    BY <2>1, <2>2, AccessFacts
  <2> QED
    BY <2>1, <2>3 DEF ReadInv
<1> QED
  BY <1>1, <1>2, <1>3, PTL DEF GraphSpec

----------------------------------------------------------------------------
(* What a node reloads.                                                    *)

LEMMA ComputedFacts ==
  ASSUME GraphType, NEW u \in instructions
  PROVE  /\ Uses(u) \subseteq ComputedFrom(u) /\ Uses(u) \subseteq instructions /\ ComputedFrom(u) \subseteq instructions
         /\ \A v \in ComputedFrom(u) : Uses(v) \subseteq ComputedFrom(u) /\ ComputedFrom(v) \subseteq ComputedFrom(u)
<1>1. \A v \in instructions : Uses(v) \subseteq instructions
  BY ProgramFacts DEF Uses
<1>2. \A v : v \in ComputedFrom(u) <=>
               /\ v \in instructions
               /\ \A R \in SUBSET instructions : Uses(u) \subseteq R /\ (\A w \in R : Uses(w) \subseteq R) => v \in R
  BY DEF ComputedFrom, instructions
<1>3. Uses(u) \subseteq ComputedFrom(u)
  BY <1>1, <1>2
<1>4. \A v \in ComputedFrom(u) : Uses(v) \subseteq ComputedFrom(u)
  BY <1>1, <1>2
<1>5. ASSUME NEW v \in ComputedFrom(u)
      PROVE  ComputedFrom(v) \subseteq ComputedFrom(u)
  <2>1. ComputedFrom(u) \in SUBSET instructions
    BY <1>2
  <2> QED
    BY <1>4, <2>1 DEF ComputedFrom, instructions
<1> QED
  BY <1>1, <1>2, <1>3, <1>4, <1>5

\* The store s is computed from u.
Behind(u, s) == u \in Uses(s) \/ \E w \in Uses(s) : u \in ComputedFrom(w)

\* What the store t keeps can be loaded for the store s.
Reloadable(t, s) ==
  t # s /\ \E u \in instructions : program.operands[t] = <<u>> /\ ~IsLoad(u) /\ Behind(u, s)

LEMMA BehindFacts ==
  ASSUME GraphType, NEW s \in instructions, NEW u, Behind(u, s)
  PROVE  u \in instructions /\ \A w \in Uses(u) : Behind(w, s)
<1>1. /\ Uses(s) \subseteq instructions
      /\ \A v \in instructions : ComputedFrom(v) \subseteq instructions /\ Uses(v) \subseteq ComputedFrom(v)
      /\ \A v \in instructions : \A w \in ComputedFrom(v) : Uses(w) \subseteq ComputedFrom(v)
  BY ComputedFacts
<1> QED
  BY <1>1 DEF Behind

LEMMA ReloadableKept ==
  ASSUME UNCHANGED program
  PROVE  \A t, s : (Behind(t, s)' <=> Behind(t, s)) /\ (Reloadable(t, s)' <=> Reloadable(t, s))
BY DEF Behind, Reloadable, ComputedFrom, Uses, IsLoad, instructions

\* The stores that have a node.
Past(a) == a < place.i \/ (progress = "search" /\ a = place.i)
Made(a) == ~accesses[a].load /\ Past(a) /\ accesses[a].node # NoNode

StoreNodes ==
  /\ \A a \in DOMAIN accesses : ~accesses[a].load => accesses[a].node = NoNode \/ accesses[a].node \in 1 .. Len(nodes)
  /\ \A a, b \in DOMAIN accesses :
       ~accesses[a].load /\ ~accesses[b].load /\ accesses[a].node = accesses[b].node => accesses[a].node = NoNode \/ a = b

\* A node reloads only what its store is computed from.
ReloadsMade ==
  \A r \in DOMAIN accesses : accesses[r].load /\ IsStore(Instruction(r)) =>
    \E a \in DOMAIN accesses : /\ Made(a) /\ accesses[a].node = accesses[r].node
                               /\ Reloadable(Instruction(r), Instruction(a))
TodoBehind == progress = "search" => \A k \in DOMAIN todo : Behind(todo[k], Instruction(place.i))

ReloadInv == StoreNodes /\ ReloadsMade /\ TodoBehind

\* Loads of stores come with the search.
LEMMA NoReloads ==
  ASSUME ObjectInv, progress = "fill", NEW r \in DOMAIN accesses, accesses[r].load
  PROVE  ~IsStore(Instruction(r))
<1>1. r \in Original
  BY AccessFacts, ProgramFacts DEF ObjectInv, Objects, Original
<1> QED
  BY <1>1 DEF ObjectInv, Objects, Instruction, IsStore, IsLoad

LEMMA StoreNodesKept ==
  ASSUME StoreNodes, Len(nodes') = Len(nodes),
         \A b \in DOMAIN accesses' : ~accesses'[b].load => b \in DOMAIN accesses /\ accesses'[b] = accesses[b]
  PROVE  StoreNodes'
BY DEF StoreNodes

\* A reload stays when its store's node does.
LEMMA ReloadsKept ==
  ASSUME ReloadsMade, LoadsStay, \A a \in DOMAIN accesses : Past(a) => Past(a)',
         \A r \in DOMAIN accesses' : accesses'[r].load /\ IsStore(accesses'[r].instr) =>
           \/ r \in DOMAIN accesses /\ accesses[r].load
           \/ \E a \in DOMAIN accesses : /\ Made(a) /\ accesses[a].node = accesses'[r].node
                                         /\ Reloadable(accesses'[r].instr, Instruction(a))
  PROVE  ReloadsMade'
<1>1. ASSUME NEW a \in DOMAIN accesses, Made(a)
      PROVE  a \in DOMAIN accesses' /\ accesses'[a] = accesses[a] /\ Made(a)' /\ Instruction(a)' = Instruction(a)
  BY <1>1 DEF Made, Past, LoadsStay, Instruction
<1>2. \A t, s : (Reloadable(t, s)' <=> Reloadable(t, s)) /\ (IsStore(t)' <=> IsStore(t))
  BY ReloadableKept, ProgramKept DEF LoadsStay
<1> SUFFICES ASSUME NEW r \in DOMAIN accesses', accesses'[r].load, IsStore(accesses'[r].instr)
             PROVE  \E a \in DOMAIN accesses' : /\ Made(a)' /\ accesses'[a].node = accesses'[r].node
                                                /\ Reloadable(accesses'[r].instr, Instruction(a)')
  BY <1>2 DEF ReloadsMade, Instruction
<1>3. CASE r \in DOMAIN accesses /\ accesses[r].load
  <2>1. accesses'[r].instr = accesses[r].instr /\ (accesses'[r].node = accesses[r].node \/ accesses[r].node = NoNode)
    BY <1>3 DEF LoadsStay
  <2>2. PICK a \in DOMAIN accesses : /\ Made(a) /\ accesses[a].node = accesses[r].node
                                     /\ Reloadable(accesses[r].instr, Instruction(a))
    BY <1>3, <2>1 DEF ReloadsMade, Instruction
  <2>3. accesses'[r].node = accesses[r].node
    BY <2>1, <2>2 DEF Made
  <2> QED
    BY <1>1, <2>1, <2>2, <2>3
<1>4. ASSUME NEW a \in DOMAIN accesses, Made(a), accesses[a].node = accesses'[r].node,
             Reloadable(accesses'[r].instr, Instruction(a))
      PROVE  \E b \in DOMAIN accesses' : /\ Made(b)' /\ accesses'[b].node = accesses'[r].node
                                         /\ Reloadable(accesses'[r].instr, Instruction(b)')
  BY <1>1, <1>4
<1> QED
  BY <1>3, <1>4

\* A step of the search that adds no load of a store.
LEMMA SearchReloads ==
  ASSUME ObjectInv, ReadInv, ReloadInv, LoadsStay, progress = "search",
         UNCHANGED <<program, place, progress>>, Len(nodes') = Len(nodes),
         \A b \in DOMAIN accesses' : ~accesses'[b].load => b \in DOMAIN accesses /\ accesses'[b] = accesses[b],
         \A r \in DOMAIN accesses' : accesses'[r].load /\ IsStore(accesses'[r].instr) =>
           \/ r \in DOMAIN accesses /\ accesses[r].load
           \/ accesses'[r].node = Len(nodes) /\ Reloadable(accesses'[r].instr, Instruction(place.i)),
         \A k \in DOMAIN todo' : Behind(todo'[k], Instruction(place.i))
  PROVE  ReloadInv'
<1>1. PICK i : i = place.i
  OBVIOUS
<1>2. i \in DOMAIN accesses /\ ~accesses[i].load /\ accesses[i].node = Len(nodes) /\ accesses[i].node # NoNode
  BY <1>1, AccessFacts DEF ReadInv, SearchInv, ObjectInv, GraphType, NoNode
<1>3. Made(i) /\ accesses'[i] = accesses[i] /\ Instruction(i)' = Instruction(i)
  BY <1>1, <1>2 DEF Made, Past, LoadsStay, Instruction
<1>4. StoreNodes'
  BY StoreNodesKept DEF ReloadInv
<1>5. ReloadsMade'
  <2>1. \A a \in DOMAIN accesses : Past(a) => Past(a)'
    BY DEF Past
  <2> QED
    BY <1>1, <1>2, <1>3, <2>1, ReloadsKept DEF ReloadInv
<1>6. TodoBehind'
  BY <1>1, <1>3, ReloadableKept DEF TodoBehind
<1> QED
  BY <1>4, <1>5, <1>6 DEF ReloadInv

LEMMA TodoStaysBehind ==
  ASSUME ObjectInv, ReloadInv, progress = "search", todo # <<>>
  PROVE  /\ \A k \in DOMAIN Tail(todo) : Behind(Tail(todo)[k], Instruction(place.i))
         /\ Behind(Current, Instruction(place.i))
BY TodoFacts DEF ReloadInv, TodoBehind

\* A load with the node of the search is added.
LEMMA AddedReloads ==
  ASSUME ObjectInv, NEW u, NewLoad(u)
  PROVE  /\ \A b \in DOMAIN accesses' : ~accesses'[b].load => b \in DOMAIN accesses /\ accesses'[b] = accesses[b]
         /\ \A r \in DOMAIN accesses' : \/ r \in DOMAIN accesses /\ accesses[r].load = accesses'[r].load
                                        \/ accesses'[r].instr = u /\ accesses'[r].node = Len(nodes)
<1> DEFINE new == [instr |-> u, load |-> TRUE, node |-> Len(nodes)]
           l == Len(accesses)
<1>1. accesses \in Seq(Access) /\ l \in Nat /\ DOMAIN accesses = 1 .. l
  BY AccessFacts DEF ObjectInv, GraphType
<1>2. accesses' = Append(accesses, new)
  BY DEF NewLoad
<1>3. DOMAIN accesses' = 1 .. l + 1 /\ accesses'[l + 1] = new /\ \A a \in DOMAIN accesses : accesses'[a] = accesses[a]
  BY <1>1, <1>2
<1>4. \A a \in DOMAIN accesses' : a \in DOMAIN accesses \/ a = l + 1
  BY <1>1, <1>3
<1> QED
  BY <1>3, <1>4

----------------------------------------------------------------------------
(* What each step makes of reloads.                                        *)

LEMMA QuietReloads ==
  ASSUME ObjectInv, ReadInv, ReloadInv, Filled \/ fillEdges \/ Searched \/ buildGraph
  PROVE  ReloadInv'
<1>1. LoadsStay
  BY OtherReads, SearchedReads
<1>2. UNCHANGED <<program, accesses>> /\ place \in [i : Nat \ {0}, j : Nat]
  BY DEF Filled, fillEdges, Searched, buildGraph, ObjectInv, GraphType
<1>3. Len(nodes') = Len(nodes)
  <2>1. CASE Filled \/ fillEdges \/ Searched
    BY <2>1 DEF Filled, fillEdges, Searched
  <2>2. CASE buildGraph
    <3> DEFINE l == Len(nodes)
               f == nodes'
               S == {f[n] : n \in 1 .. l}
    <3>1. nodes \in Seq(Node) /\ l \in Nat /\ DOMAIN nodes = 1 .. l
      BY DEF ObjectInv, GraphType
    <3>2. CASE UNCHANGED nodes
      BY <3>2
    <3>3. CASE ~UNCHANGED nodes
      <4>1. DOMAIN f = 1 .. l /\ f = [n \in 1 .. l |-> f[n]]
        BY <2>2, <3>1, <3>3 DEF buildGraph
      <4>2. \A n \in 1 .. l : f[n] \in S
        OBVIOUS
      <4> HIDE DEF f, l, S
      <4>3. Len(f) = l
        BY <3>1, <4>1, <4>2, SequenceFacts
      <4> QED
        BY <4>3 DEF f, l
    <3> QED
      BY <3>2, <3>3
  <2> QED
    BY <2>1, <2>2
<1>4. StoreNodes'
  BY <1>2, <1>3, StoreNodesKept DEF ReloadInv
<1>5. ReloadsMade'
  <2>1. CASE progress = "fill"
    <3>1. \A r \in DOMAIN accesses : accesses[r].load => ~IsStore(Instruction(r))
      BY <2>1, NoReloads
    <3> QED
      BY <1>2, <3>1, ProgramKept DEF ReloadsMade, Instruction
  <2>2. CASE progress # "fill"
    <3>1. \A a \in DOMAIN accesses : Past(a) => Past(a)'
      <4>1. CASE Searched
        <5>1. \A a \in DOMAIN accesses : a \in Nat
          BY AccessFacts
        <5>2. progress = "search" /\ place'.i = place.i + 1
          BY <1>2, <4>1 DEF Searched
        <5> QED
          BY <1>2, <5>1, <5>2 DEF Past
      <4>2. CASE buildGraph
        BY <4>2 DEF Past, buildGraph
      <4> QED
        BY <2>2, <4>1, <4>2 DEF Filled, fillEdges
    <3> QED
      BY <1>1, <1>2, <3>1, ReloadsKept DEF ReloadInv
  <2> QED
    BY <2>1, <2>2
<1>6. TodoBehind'
  <2>1. progress' # "search"
    BY DEF Filled, fillEdges, Searched, buildGraph
  <2> QED
    BY <2>1 DEF TodoBehind
<1> QED
  BY <1>4, <1>5, <1>6 DEF ReloadInv

\* A store gets a node that no other store has.
LEMMA StartReloads ==
  ASSUME ObjectInv, ReadInv, ReloadInv, StartNode
  PROVE  ReloadInv'
<1>0. PICK i, a, s, n : i = place.i /\ a = memory[place.i] /\ s = Instruction(memory[place.i]) /\ n = Len(nodes) + 1
  OBVIOUS
<1>1. /\ progress = "connect" /\ i <= Len(memory) /\ i \in Nat \ {0} /\ n \in Nat /\ Len(nodes) \in Nat
      /\ UNCHANGED <<program, memory, edges, apart>> /\ place \in [i : Nat \ {0}, j : Nat]
  BY <1>0 DEF StartNode, ObjectInv, GraphType
<1>2. i \in DOMAIN memory /\ a \in DOMAIN accesses /\ \A b \in DOMAIN accesses : b \in Nat /\ accesses[b] \in Access
  BY <1>0, <1>1, AccessFacts
<1>3. LoadsStay
  BY StartReads
<1>4. CASE accesses[a].load
  <2>1. /\ place'.i = i + 1 /\ UNCHANGED <<accesses, nodes, visited, todo, progress>>
    BY <1>0, <1>1, <1>4 DEF StartNode
  <2>2. \A b \in DOMAIN accesses : Past(b) => Past(b)'
    BY <1>0, <1>1, <1>2, <2>1 DEF Past
  <2>3. StoreNodes' /\ ReloadsMade'
    BY <1>3, <2>1, <2>2, StoreNodesKept, ReloadsKept DEF ReloadInv
  <2> QED
    BY <1>1, <2>1, <2>3 DEF ReloadInv, TodoBehind
<1>5. CASE ~accesses[a].load
  <2>1. /\ \E node : nodes' = Append(nodes, node)
        /\ accesses' = [accesses EXCEPT ![a].node = n]
        /\ todo' = program.operands[s] /\ progress' = "search" /\ UNCHANGED place
    BY <1>0, <1>1, <1>5 DEF StartNode
  <2>2. Len(nodes') = n
    BY <1>0, <2>1 DEF ObjectInv, GraphType
  <2>3. /\ DOMAIN accesses' = DOMAIN accesses
        /\ accesses'[a].instr = accesses[a].instr /\ accesses'[a].load = accesses[a].load /\ accesses'[a].node = n
        /\ \A b \in DOMAIN accesses : b # a => accesses'[b] = accesses[b]
    BY <1>2, <2>1 DEF Access
  <2>4. StoreNodes'
    <3>1. \A b \in DOMAIN accesses : ~accesses[b].load /\ b # a =>
            accesses'[b].node = NoNode \/ accesses'[b].node \in 1 .. n - 1
      BY <1>0, <1>1, <2>3 DEF ReloadInv, StoreNodes
    <3>2. \A b \in DOMAIN accesses : accesses'[b].load = accesses[b].load
      BY <2>3
    <3>3. \A b \in DOMAIN accesses' : ~accesses'[b].load => accesses'[b].node = NoNode \/ accesses'[b].node \in 1 .. n
      BY <1>0, <1>1, <2>3, <3>1, <3>2
    <3>4. ASSUME NEW b \in DOMAIN accesses, NEW c \in DOMAIN accesses, ~accesses[b].load, ~accesses[c].load,
                 accesses'[b].node = accesses'[c].node
          PROVE  accesses'[b].node = NoNode \/ b = c
      <4>1. CASE b = a \/ c = a
        BY <1>0, <1>1, <2>3, <3>1, <3>4, <4>1 DEF NoNode
      <4>2. CASE b # a /\ c # a
        BY <2>3, <3>4, <4>2 DEF ReloadInv, StoreNodes
      <4> QED
        BY <4>1, <4>2
    <3> QED
      BY <2>2, <2>3, <3>2, <3>3, <3>4 DEF StoreNodes
  <2>5. ReloadsMade'
    <3>1. \A b \in DOMAIN accesses : Past(b) => Past(b)'
      BY <1>1, <2>1 DEF Past
    <3> QED
      BY <1>3, <2>3, <3>1, ReloadsKept DEF ReloadInv
  <2>6. TodoBehind'
    <3>1. a = i
      BY <1>0, <1>2, <1>5, AccessFacts DEF ObjectInv, Objects
    <3>2. Instruction(place.i)' = s
      BY <1>0, <2>1, <2>3, <3>1 DEF Instruction
    <3>3. \A k \in DOMAIN todo' : todo'[k] \in Uses(s)
      BY <2>1 DEF Uses
    <3> QED
      BY <1>1, <3>2, <3>3, ReloadableKept DEF TodoBehind, Behind
  <2> QED
    BY <2>4, <2>5, <2>6 DEF ReloadInv
<1> QED
  BY <1>4, <1>5

LEMMA SkipReloads ==
  ASSUME ObjectInv, ReadInv, ReloadInv, SkipUser
  PROVE  ReloadInv'
<1>1. /\ progress = "search" /\ todo # <<>> /\ todo' = Tail(todo)
      /\ UNCHANGED <<program, accesses, nodes, place, progress>>
  BY DEF SkipUser, Searching
<1>2. LoadsStay
  BY SkipReads
<1> QED
  BY <1>1, <1>2, TodoStaysBehind, SearchReloads

LEMMA TakeReloads ==
  ASSUME ObjectInv, ReadInv, ReloadInv, TakeLoad
  PROVE  ReloadInv'
<1>0. PICK u, a, n : u = Current /\ a = memory[userToMem(u)] /\ n = Len(nodes)
  OBVIOUS
<1>1. /\ progress = "search" /\ todo # <<>> /\ todo' = Tail(todo) /\ IsLoad(u) /\ InBlock(u)
      /\ accesses' = [accesses EXCEPT ![a].node = n] /\ addMemory(n, userToMem(u), a)
      /\ UNCHANGED <<program, place, progress>>
  BY <1>0 DEF TakeLoad, Searching, Passed, OfNode
<1>2. /\ a \in DOMAIN accesses /\ accesses[a].load /\ accesses[a] \in Access /\ userToMem(u) \in Nat
  BY <1>0, <1>1, UserFacts, AccessFacts, ProgramFacts DEF Original, ObjectInv
<1>3. Len(nodes') = Len(nodes)
  BY <1>0, <1>1, <1>2, AddMemoryFacts
<1>4. /\ DOMAIN accesses' = DOMAIN accesses /\ accesses'[a].load
      /\ \A b \in DOMAIN accesses : b # a => accesses'[b] = accesses[b]
  BY <1>1, <1>2 DEF Access
<1>5. LoadsStay
  BY TakeReads
<1>6. /\ \A b \in DOMAIN accesses' : ~accesses'[b].load => b \in DOMAIN accesses /\ accesses'[b] = accesses[b]
      /\ \A r \in DOMAIN accesses' : accesses'[r].load => r \in DOMAIN accesses /\ accesses[r].load
  BY <1>2, <1>4
<1> QED
  BY <1>1, <1>3, <1>5, <1>6, TodoStaysBehind, SearchReloads

LEMMA DuplicateReloads ==
  ASSUME ObjectInv, ReadInv, ReloadInv, duplicateLoad
  PROVE  ReloadInv'
<1>0. PICK u, a, n : u = Current /\ a = memory[userToMem(u)] /\ n = Len(nodes)
  OBVIOUS
<1>1. /\ progress = "search" /\ todo # <<>> /\ todo' = Tail(todo) /\ IsLoad(u) /\ InBlock(u)
      /\ NewLoad(u) /\ addMemory(n, Len(memory) + 1, a)
      /\ UNCHANGED <<program, place, progress>>
  BY <1>0 DEF duplicateLoad, Searching, Passed
<1>2. a \in DOMAIN accesses /\ Len(memory) + 1 \in Nat
  BY <1>0, <1>1, UserFacts, AccessFacts
<1>3. Len(nodes') = Len(nodes)
  BY <1>0, <1>1, <1>2, AddMemoryFacts
<1>4. LoadsStay
  BY DuplicateReads
<1>5. ~IsStore(u)
  BY <1>1 DEF IsStore
<1>6. /\ \A b \in DOMAIN accesses' : ~accesses'[b].load => b \in DOMAIN accesses /\ accesses'[b] = accesses[b]
      /\ \A r \in DOMAIN accesses' : accesses'[r].load /\ IsStore(accesses'[r].instr) =>
           r \in DOMAIN accesses /\ accesses[r].load
  BY <1>1, <1>5, AddedReloads
<1> QED
  BY <1>1, <1>3, <1>4, <1>6, TodoStaysBehind, SearchReloads

LEMMA ReloadReloads ==
  ASSUME ObjectInv, ReadInv, ReloadInv, searchValueForStores
  PROVE  ReloadInv'
<1>0. PICK u, s, n : u = Current /\ s = Instruction(place.i) /\ n = Len(nodes)
  OBVIOUS
<1>1. /\ progress = "search" /\ todo # <<>> /\ todo' = Tail(todo) /\ ~IsLoad(u)
      /\ UNCHANGED <<program, visited, place, progress>>
  BY <1>0 DEF searchValueForStores, Searching
<1>2. PICK t \in StoresOf(u) : NewLoad(t) /\ addMemory(n, Len(memory) + 1, memory[userToMem(t)])
  BY <1>0 DEF searchValueForStores
<1>3. IsStore(t) /\ InBlock(t) /\ t \notin visited /\ program.operands[t] = <<u>>
  BY DEF StoresOf, IsStore
<1>4. memory[userToMem(t)] \in DOMAIN accesses /\ Len(memory) + 1 \in Nat
  BY <1>3, UserFacts, AccessFacts
<1>5. Len(nodes') = Len(nodes)
  BY <1>0, <1>2, <1>4, AddMemoryFacts
<1>6. LoadsStay
  BY ReloadReads
<1>7. t # s
  BY <1>0, <1>1, <1>3 DEF ReadInv, SearchInv
<1>8. Reloadable(t, s)
  <2>1. Behind(u, s) /\ u \in instructions
    BY <1>0, <1>1, TodoStaysBehind, TodoFacts
  <2> QED
    BY <1>1, <1>3, <1>7, <2>1 DEF Reloadable
<1>9. /\ \A b \in DOMAIN accesses' : ~accesses'[b].load => b \in DOMAIN accesses /\ accesses'[b] = accesses[b]
      /\ \A r \in DOMAIN accesses' : accesses'[r].load =>
           (r \in DOMAIN accesses /\ accesses[r].load) \/ (accesses'[r].instr = t /\ accesses'[r].node = Len(nodes))
  BY <1>2, AddedReloads
<1> QED
  BY <1>0, <1>1, <1>5, <1>6, <1>8, <1>9, TodoStaysBehind, SearchReloads

LEMMA OperandsReloads ==
  ASSUME ObjectInv, ReadInv, ReloadInv, searchOperandsForLoads
  PROVE  ReloadInv'
<1>0. PICK u, s : u = Current /\ s = Instruction(place.i)
  OBVIOUS
<1>1. /\ progress = "search" /\ todo # <<>> /\ todo' = program.operands[u] \o Tail(todo)
      /\ UNCHANGED <<program, accesses, nodes, place, progress>>
  BY <1>0 DEF searchOperandsForLoads, Searching
<1>2. Behind(u, s) /\ u \in instructions /\ Tail(todo) \in Seq(instructions)
  BY <1>0, <1>1, TodoStaysBehind, TodoFacts
<1>3. s \in instructions
  <2>1. place.i \in DOMAIN accesses
    BY <1>1, AccessFacts DEF ReadInv, SearchInv
  <2> QED
    BY <1>0, <2>1, AccessFacts DEF Instruction, Access
<1>4. \A w \in Uses(u) : Behind(w, s)
  BY <1>2, <1>3, BehindFacts DEF ObjectInv
<1> DEFINE ops == program.operands[u]
           rest == Tail(todo)
<1>5. \A k \in DOMAIN todo' : todo'[k] \in Uses(u) \/ \E l \in DOMAIN rest : todo'[k] = rest[l]
  <2>1. ops \in Seq(instructions) /\ rest \in Seq(instructions) /\ todo' = ops \o rest
    BY <1>1, <1>2, ProgramFacts DEF ObjectInv
  <2>2. Uses(u) = {ops[k] : k \in DOMAIN ops}
    BY DEF Uses
  <2> HIDE DEF ops, rest
  <2>3. \A k \in DOMAIN todo' : \/ k \in DOMAIN ops /\ todo'[k] = ops[k]
                                \/ k - Len(ops) \in DOMAIN rest /\ todo'[k] = rest[k - Len(ops)]
    BY <2>1
  <2> QED
    BY <2>2, <2>3
<1>6. \A k \in DOMAIN todo' : Behind(todo'[k], s)
  BY <1>0, <1>1, <1>4, <1>5, TodoStaysBehind
<1>7. LoadsStay
  BY OperandsReads
<1> QED
  BY <1>0, <1>1, <1>6, <1>7, SearchReloads

LEMMA NextKeepsReloads ==
  ASSUME ObjectInv, ReadInv, ReloadInv, [GraphNext]_graphVars
  PROVE  ReloadInv'
<1>1. CASE GraphNext
  BY <1>1, QuietReloads, StartReloads, SkipReloads, TakeReloads, DuplicateReloads, ReloadReloads, OperandsReloads
     DEF GraphNext
<1>2. CASE UNCHANGED graphVars
  <2>1. /\ UNCHANGED <<program, accesses, nodes, todo, place, progress>>
        /\ \A b : Instruction(b)' = Instruction(b)
    BY <1>2 DEF graphVars, Instruction
  <2>2. \A t, s : (Behind(t, s)' <=> Behind(t, s)) /\ (Reloadable(t, s)' <=> Reloadable(t, s)) /\ (IsStore(t)' <=> IsStore(t))
    BY <2>1, ReloadableKept, ProgramKept
  <2>3. StoreNodes' /\ TodoBehind'
    BY <2>1, <2>2 DEF ReloadInv, StoreNodes, TodoBehind
  <2>4. \A a : Made(a)' <=> Made(a)
    BY <2>1 DEF Made, Past
  <2>5. ReloadsMade'
    BY <2>1, <2>2, <2>4 DEF ReloadInv, ReloadsMade
  <2> QED
    BY <2>3, <2>5 DEF ReloadInv
<1> QED
  BY <1>1, <1>2

----------------------------------------------------------------------------
(* No node is among those that it loads from.                              *)

\* The nodes that k steps of loading lead to, from those that k - 1 lead to.
Further(n, k, f) == IF k = 1 THEN LoadedFrom(n) ELSE f[k - 1] \union UNION {LoadedFrom(m) : m \in f[k - 1]}
Follows(n, K, f) ==
  f = [k \in 1 .. K |->
         IF k = 1 THEN LoadedFrom(n) ELSE LET M == f[k - 1] IN M \union UNION {LoadedFrom(m) : m \in M}]

LEMMA FollowsFacts ==
  ASSUME NEW n, NEW K \in Nat, NEW f
  PROVE  Follows(n, K, f) <=> f = [k \in 1 .. K |-> f[k]] /\ \A k \in 1 .. K : f[k] = Further(n, k, f)
<1>1. Follows(n, K, f) <=> f = [k \in 1 .. K |-> Further(n, k, f)]
  BY DEF Follows, Further
<1>2. f = [k \in 1 .. K |-> Further(n, k, f)] <=>
        f = [k \in 1 .. K |-> f[k]] /\ \A k \in 1 .. K : f[k] = Further(n, k, f)
  OBVIOUS
<1> QED
  BY <1>1, <1>2

LEMMA SomeFollows ==
  ASSUME NEW n, NEW K \in Nat
  PROVE  \E f : Follows(n, K, f)
<1> DEFINE D == {k \in Nat : ~\E f : Follows(n, k, f)}
<1>1. D = {}
  <2> SUFFICES ASSUME NEW d \in D PROVE FALSE
    OBVIOUS
  <2>1. D \in SUBSET Nat
    OBVIOUS
  <2> HIDE DEF D
  <2>2. PICK i \in D : \A k \in D : i <= k
    BY <2>1, LeastOf
  <2>3. i \in Nat /\ ~\E f : Follows(n, i, f)
    BY <2>2 DEF D
  <2>4. CASE i = 0
    <3> DEFINE f == [k \in 1 .. 0 |-> {}]
    <3>1. f = [k \in 1 .. 0 |-> f[k]]
      OBVIOUS
    <3>2. \A k \in 1 .. 0 : FALSE
      OBVIOUS
    <3> HIDE DEF f
    <3>3. Follows(n, 0, f)
      BY <3>1, <3>2, FollowsFacts
    <3> QED
      BY <2>3, <2>4, <3>3
  <2>5. CASE i # 0
    <3> DEFINE j == i - 1
    <3>1. j \in Nat /\ i = j + 1 /\ j \notin D
      BY <2>2, <2>3, <2>5
    <3> HIDE DEF j
    <3>2. PICK g : Follows(n, j, g)
      BY <3>1 DEF D
    <3> DEFINE last == Further(n, i, g)
               f == [k \in 1 .. i |-> IF k = i THEN last ELSE g[k]]
    <3>3. \A k \in 1 .. j : g[k] = Further(n, k, g)
      BY <3>1, <3>2, FollowsFacts
    <3>4. f = [k \in 1 .. i |-> f[k]]
      OBVIOUS
    <3>5. f[i] = last /\ \A k \in 1 .. j : f[k] = g[k]
      BY <3>1
    <3> HIDE DEF f
    <3>6. ASSUME NEW k \in 1 .. i
          PROVE  f[k] = Further(n, k, f)
      <4>1. f[k] = Further(n, k, g)
        <5>1. k = i \/ k \in 1 .. j
          BY <3>1
        <5> QED
          BY <3>3, <3>5, <5>1
      <4>2. k = 1 \/ f[k - 1] = g[k - 1]
        <5>1. k = 1 \/ k - 1 \in 1 .. j
          BY <3>1
        <5> QED
          BY <3>5, <5>1
      <4> QED
        BY <4>1, <4>2 DEF Further
    <3>7. Follows(n, i, f)
      BY <2>3, <3>4, <3>6, FollowsFacts
    <3> QED
      BY <2>3, <3>7
  <2> QED
    BY <2>4, <2>5
<1> QED
  BY <1>1

\* What is closed under loading holds all that a node loads from.
LEMMA FollowsStays ==
  ASSUME NEW n, NEW K \in Nat, NEW f, Follows(n, K, f),
         NEW W, LoadedFrom(n) \subseteq W, \A m \in W : LoadedFrom(m) \subseteq W
  PROVE  \A k \in 1 .. K : f[k] \subseteq W
<1> DEFINE D == {k \in 1 .. K : ~(f[k] \subseteq W)}
<1>1. D = {}
  <2> SUFFICES ASSUME NEW d \in D PROVE FALSE
    OBVIOUS
  <2>1. D \in SUBSET Nat
    OBVIOUS
  <2> HIDE DEF D
  <2>2. PICK i \in D : \A k \in D : i <= k
    BY <2>1, LeastOf
  <2>3. i \in 1 .. K /\ ~(f[i] \subseteq W)
    BY <2>2 DEF D
  <2>4. f[i] = Further(n, i, f)
    BY <2>3, FollowsFacts
  <2>5. CASE i = 1
    BY <2>3, <2>4, <2>5 DEF Further
  <2>6. CASE i # 1
    <3> DEFINE j == i - 1
    <3>1. j \in 1 .. K /\ j < i
      BY <2>3, <2>6
    <3>2. j \notin D
      BY <2>2, <2>3, <3>1
    <3>3. f[i] = f[j] \union UNION {LoadedFrom(m) : m \in f[j]}
      BY <2>4, <2>6 DEF Further
    <3> HIDE DEF j
    <3>4. f[j] \subseteq W
      BY <3>1, <3>2 DEF D
    <3> QED
      BY <2>3, <3>3, <3>4
  <2> QED
    BY <2>5, <2>6
<1> QED
  BY <1>1

LEMMA ReloadsItselfFacts ==
  ASSUME NEW n, Len(nodes) \in Nat \ {0}, NEW W, n \notin W,
         LoadedFrom(n) \subseteq W, \A m \in W : LoadedFrom(m) \subseteq W
  PROVE  ~ReloadsItself(n)
<1> DEFINE K == Len(nodes)
<1>1. \E f : Follows(n, K, f)
  BY SomeFollows
<1>2. ASSUME NEW f, Follows(n, K, f) PROVE n \notin f[K]
  <2>1. \A k \in 1 .. K : f[k] \subseteq W
    BY <1>2, FollowsStays
  <2>2. K \in 1 .. K
    OBVIOUS
  <2> QED
    BY <2>1, <2>2
<1> QED
  BY <1>1, <1>2, Zenon DEF ReloadsItself, Follows

\* A node that reloads what another one keeps.
LEMMA ReloadedOf ==
  ASSUME ObjectInv, ReadInv, ReloadInv, progress = "built",
         NEW a \in DOMAIN accesses, ~accesses[a].load, NEW m \in LoadedFrom(accesses[a].node)
  PROVE  \E b \in DOMAIN accesses : /\ ~accesses[b].load /\ m = accesses[b].node
                                    /\ Reloadable(Instruction(b), Instruction(a))
<1>1. PICK b \in DOMAIN accesses, r \in DOMAIN accesses :
        /\ ~accesses[b].load /\ m = accesses[b].node
        /\ accesses[r].load /\ accesses[r].node = accesses[a].node /\ Instruction(r) = Instruction(b)
  BY DEF LoadedFrom
<1>2. IsStore(Instruction(b))
  <2>1. b \in Original
    BY <1>1 DEF ObjectInv, Objects
  <2> QED
    BY <1>1, <2>1, AccessFacts DEF ObjectInv, Objects, Instruction, IsStore, IsLoad
<1>3. PICK c \in DOMAIN accesses : /\ Made(c) /\ accesses[c].node = accesses[r].node
                                   /\ Reloadable(Instruction(r), Instruction(c))
  BY <1>1, <1>2 DEF ReloadInv, ReloadsMade
<1>4. c = a
  BY <1>1, <1>3 DEF Made, ReloadInv, StoreNodes
<1> QED
  BY <1>1, <1>3, <1>4

\* Every store of a graph that is built has a node.
LEMMA StoresHaveNodes ==
  ASSUME ObjectInv, ReadInv, ReloadInv, progress = "built", NEW a \in DOMAIN accesses, ~accesses[a].load
  PROVE  accesses[a].node # NoNode /\ Len(nodes) \in Nat \ {0} /\ Instruction(a) \in instructions
<1>1. a \in Original /\ a < place.i
  <2>1. a \in Original /\ place.i > Len(memory) /\ place.i \in Nat
    BY DEF ObjectInv, Objects, ReadInv, GraphType
  <2> QED
    BY <2>1, AccessFacts
<1>2. accesses[a].node # NoNode
  BY <1>1 DEF ReadInv, AllLoaded
<1>3. accesses[a].node \in 1 .. Len(nodes) /\ Len(nodes) \in Nat
  BY <1>2 DEF ReloadInv, StoreNodes, ObjectInv, GraphType
<1>4. Instruction(a) \in instructions
  BY AccessFacts DEF Instruction, Access
<1> QED
  BY <1>2, <1>3, <1>4

(* A node never loads, over whatever other nodes, the value that it alone   *)
(* computes and keeps: searchValueForStores finds stores only of what comes *)
(* before, in blocks of every size whose values are not computed from       *)
(* themselves.                                                              *)
THEOREM ReloadsAlwaysEnd == GraphSpec => []ReloadsEnd
<1>1. GraphInit => ObjectInv /\ OrderInv /\ ReadInv /\ ReloadInv
  <2> SUFFICES ASSUME GraphInit PROVE ObjectInv /\ OrderInv /\ ReadInv /\ ReloadInv
    OBVIOUS
  <2>1. ObjectInv /\ OrderInv /\ ReadInv /\ progress = "fill"
    BY InitObjects, InitOrder DEF GraphInit, Block, ReadInv
  <2>2. \A r \in DOMAIN accesses : accesses[r].load => ~IsStore(Instruction(r))
    BY <2>1, NoReloads
  <2>3. \A a \in DOMAIN accesses : accesses[a].node = NoNode
    BY DEF GraphInit, Block
  <2> QED
    BY <2>1, <2>2, <2>3 DEF ReloadInv, StoreNodes, ReloadsMade, TodoBehind
<1>2. ObjectInv /\ OrderInv /\ ReadInv /\ ReloadInv /\ [GraphNext]_graphVars
        => (ObjectInv /\ OrderInv /\ ReadInv /\ ReloadInv)'
  BY NextKeepsOrder, StutterKeepsOrder, NextKeepsReads, NextKeepsReloads
<1>3. ObjectInv /\ ReadInv /\ ReloadInv => ReloadsEnd
  <2> SUFFICES ASSUME ObjectInv, ReadInv, ReloadInv, progress = "built", NoCycle,
                      NEW a \in DOMAIN accesses, ~accesses[a].load, ~KeptTwice(Instruction(a))
               PROVE  ~ReloadsItself(accesses[a].node)
    BY DEF ReloadsEnd
  <2> DEFINE s == Instruction(a)
             n == accesses[a].node
             early == UNION {ComputedFrom(w) : w \in Uses(s)}
             Keeps(b) == \E u \in early : program.operands[Instruction(b)] = <<u>>
             W == {accesses[b].node : b \in {b \in DOMAIN accesses : ~accesses[b].load /\ Keeps(b)}}
  <2>1. n # NoNode /\ Len(nodes) \in Nat \ {0} /\ s \in instructions
    BY StoresHaveNodes
  <2>2. /\ Uses(s) \subseteq instructions /\ early \subseteq instructions
        /\ \A u \in early : ComputedFrom(u) \subseteq early
    BY <2>1, ComputedFacts DEF ObjectInv
  <2>3. \A t, u : program.operands[t] = <<u>> => Uses(t) = {u}
    BY DEF Uses
  <2>4. n \notin W
    <3> SUFFICES ASSUME NEW b \in DOMAIN accesses, ~accesses[b].load, accesses[b].node = n,
                        NEW u \in early, program.operands[Instruction(b)] = <<u>>
                 PROVE  FALSE
      OBVIOUS
    <3>1. b = a
      BY <2>1 DEF ReloadInv, StoreNodes
    <3>2. Uses(s) = {u}
      BY <2>3, <3>1
    <3>3. u \in ComputedFrom(u) /\ u \in instructions
      BY <2>2, <3>2
    <3> QED
      BY <3>3 DEF NoCycle, instructions
  <2>5. LoadedFrom(n) \subseteq W
    <3> SUFFICES ASSUME NEW m \in LoadedFrom(n) PROVE m \in W
      OBVIOUS
    <3>1. PICK b \in DOMAIN accesses : ~accesses[b].load /\ m = accesses[b].node /\ Reloadable(Instruction(b), s)
      BY ReloadedOf
    <3>2. PICK u \in instructions : program.operands[Instruction(b)] = <<u>> /\ ~IsLoad(u) /\ Behind(u, s)
      BY <3>1 DEF Reloadable
    <3>3. u \notin Uses(s)
      <4>1. Instruction(b) \in DOMAIN program.operands /\ IsStore(Instruction(b)) /\ Instruction(b) # s
        <5>1. b \in Original
          BY <3>1 DEF ObjectInv, Objects
        <5> QED
          BY <3>1, <5>1, AccessFacts
             DEF ObjectInv, Objects, Instruction, IsStore, IsLoad, Access, instructions, Reloadable
      <4> QED
        BY <3>2, <4>1 DEF KeptTwice, KeptElsewhere
    <3>4. u \in early
      BY <3>2, <3>3 DEF Behind
    <3> QED
      BY <3>1, <3>2, <3>4
  <2>6. ASSUME NEW m \in W
        PROVE  LoadedFrom(m) \subseteq W
    <3> SUFFICES ASSUME NEW l \in LoadedFrom(m) PROVE l \in W
      OBVIOUS
    <3>1. PICK b \in DOMAIN accesses : ~accesses[b].load /\ Keeps(b) /\ m = accesses[b].node
      OBVIOUS
    <3>2. PICK u \in early : program.operands[Instruction(b)] = <<u>>
      BY <3>1
    <3>3. PICK c \in DOMAIN accesses : /\ ~accesses[c].load /\ l = accesses[c].node
                                       /\ Reloadable(Instruction(c), Instruction(b))
      BY <3>1, ReloadedOf
    <3>4. PICK v \in instructions : program.operands[Instruction(c)] = <<v>> /\ Behind(v, Instruction(b))
      BY <3>3 DEF Reloadable
    <3>5. Uses(Instruction(b)) = {u}
      BY <2>3, <3>2
    <3>6. v \in early
      BY <2>2, <3>4, <3>5 DEF Behind
    <3> QED
      BY <3>3, <3>4, <3>6
  <2> HIDE DEF W, n, s
  <2>7. ~ReloadsItself(n)
    BY <2>1, <2>4, <2>5, <2>6, ReloadsItselfFacts
  <2> QED
    BY <2>7 DEF n
<1> QED
  BY <1>1, <1>2, <1>3, PTL DEF GraphSpec
=============================================================================
