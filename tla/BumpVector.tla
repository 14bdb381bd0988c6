----------------------------- MODULE BumpVector -----------------------------
(***************************************************************************)
(* BumpPtrVector of Math/BumpVector.hpp: a vector whose elements live in   *)
(* an arena that gives out memory from the top of a slab downwards.  The   *)
(* block given out last grows in place, by moving down; every other one is *)
(* copied to a new block.  A scope's end sets the arena back to where it   *)
(* was.  One slab, cells of the size of one element.                       *)
(***************************************************************************)
EXTENDS Integers, Sequences

CONSTANTS
  Vecs,             \* the vectors
  Cells,            \* the size of the slab, in elements
  InitialCapacity,
  Item,             \* what the client stores
  Litter            \* what is in memory that nobody wrote

ASSUME ArenaAssumption == Cells \in Nat /\ InitialCapacity \in Nat

VARIABLES
  slab,     \* the lowest cell given out
  ram,      \* the cells
  bv,       \* mem, Size and Capacity of each vector that is alive
  mark,     \* the checkpoint of the scope under way, or NoMark
  want,     \* history: what the client put into each vector
  sound     \* history: no call went past what the class provides for

bvVars == <<slab, ram, bv, mark, want, sound>>

NoMark == <<>>
Address == 0 .. Cells - 1
Alive == DOMAIN bv
Contents(v) == [k \in 1 .. bv[v].size |-> ram[bv[v].mem + k - 1]]

\* std::copy_n(from, n, to): forwards, and to is below from.
Copied(from, n, to) ==
  [a \in Address |->
     IF to <= a /\ a < to + n
     THEN IF from + (a - to) \in Address THEN ram[from + (a - to)] ELSE Litter
     ELSE ram[a]]

Add(f, v, x) == [u \in DOMAIN f \union {v} |-> IF u = v THEN x ELSE f[u]]

Make(v) ==
  /\ v \notin Alive
  /\ slab >= InitialCapacity
  /\ slab' = slab - InitialCapacity
  /\ bv' = Add(bv, v, [mem |-> slab', size |-> 0, capacity |-> InitialCapacity])
  /\ want' = Add(want, v, <<>>)
  /\ UNCHANGED <<ram, mark, sound>>

\* Mutant: the block is taken to be the last one whenever it lies in the slab.
ReallocatedAlways(v, n) == slab - (n - bv[v].capacity)

\* reserve: reallocate, in place for the last block.  Where the elements go.
Reallocated(v, n) == IF bv[v].mem = slab THEN slab - (n - bv[v].capacity) ELSE slab - n

\* reserve(n), and then element i (from 0) is x and the size is len.
Put(v, n, i, x, len) ==
  LET moves == n > bv[v].capacity
      to    == Reallocated(v, n)
      kept  == IF moves THEN Copied(bv[v].mem, bv[v].capacity, to) ELSE ram
      base  == IF moves THEN to ELSE bv[v].mem
  IN  /\ moves => to >= 0
      /\ slab' = IF moves THEN to ELSE slab
      /\ ram' = [kept EXCEPT ![base + i] = x]
      /\ bv' = [bv EXCEPT ![v] = [mem |-> base, size |-> len,
                                  capacity |-> IF moves THEN n ELSE @.capacity]]
      /\ UNCHANGED <<mark, sound>>

\* push_back and emplace_back: reserve twice the new size when it does not fit.
BumpPushBack(v, x) ==
  LET size == bv[v].size + 1
  IN  /\ Put(v, IF size > bv[v].capacity THEN 2 * size ELSE 0, size - 1, x, size)
      /\ want' = [want EXCEPT ![v] = Append(@, x)]

BumpPopBack(v) ==
  /\ bv[v].size > 0
  /\ bv' = [bv EXCEPT ![v].size = @ - 1]
  /\ want' = [want EXCEPT ![v] = SubSeq(@, 1, Len(@) - 1)]
  /\ UNCHANGED <<slab, ram, mark, sound>>

\* erase(mem + i) copies Size elements down, however few there are behind it:
\* with i + Size > Capacity it writes into the block above.
BumpErase(v, i) ==
  LET V == bv[v]
  IN  /\ i < V.size
      /\ ram' = Copied(V.mem + i + 1, V.size, V.mem + i)
      /\ bv' = [bv EXCEPT ![v].size = @ - 1]
      /\ want' = [want EXCEPT ![v] = SubSeq(@, 1, i) \o SubSeq(@, i + 2, Len(@))]
      /\ sound' = (sound /\ i + V.size <= V.capacity)
      /\ UNCHANGED <<slab, mark>>

\* A vector passed on by move: the new one has the block, the old one nothing.
MoveTo(v, w) ==
  /\ w \notin Alive
  /\ bv' = Add([bv EXCEPT ![v] = [mem |-> 0, size |-> 0, capacity |-> 0]], w, bv[v])
  /\ want' = Add([want EXCEPT ![v] = <<>>], w, want[v])
  /\ UNCHANGED <<slab, ram, mark, sound>>

\* The scope remembers which vectors there were.
Checkpoint ==
  /\ mark = NoMark
  /\ mark' = <<slab, Alive>>
  /\ UNCHANGED <<slab, ram, bv, want, sound>>

\* Mutant: the scope ends where the last block begins.
RolledBackLate(m) == m[1] + 1

\* What rollback sets the arena to.
RolledBackTo(m) == m[1]

\* The vectors of the scope are gone with it.  An older one that moved down in
\* the scope is left outside what the arena considers given out.
EndScope ==
  /\ mark # NoMark
  /\ slab' = RolledBackTo(mark)
  /\ bv' = [v \in Alive \intersect mark[2] |-> bv[v]]
  /\ want' = [v \in Alive \intersect mark[2] |-> want[v]]
  /\ mark' = NoMark
  /\ sound' = (sound /\ \A v \in Alive \intersect mark[2] : bv[v].capacity = 0 \/ bv[v].mem >= mark[1])
  /\ UNCHANGED ram

BVInit ==
  /\ slab = Cells
  /\ ram = [a \in Address |-> Litter]
  /\ bv = <<>>
  /\ mark = NoMark
  /\ want = <<>>
  /\ sound = TRUE

BVNext ==
  \/ \E v \in Vecs : Make(v)
  \/ \E v \in Alive :
       \/ \E x \in Item : BumpPushBack(v, x)
       \/ BumpPopBack(v)
       \/ \E i \in Address : BumpErase(v, i)
       \/ \E w \in Vecs : MoveTo(v, w)
  \/ Checkpoint
  \/ EndScope

BVSpec == BVInit /\ [][BVNext]_bvVars

----------------------------------------------------------------------------
(* Properties.                                                              *)

(* The vectors of one arena hold what the client put into them: growing one, *)
(* in place or elsewhere, moving, erasing and the end of a scope never touch *)
(* another, as long as no erase copied past its block and no older vector    *)
(* was grown in a scope.                                                     *)
HoldWhatWasPut == sound => \A v \in Alive : Contents(v) = want[v]

(* The blocks of the vectors lie above the end of the arena and apart.       *)
BlocksApart ==
  sound =>
    /\ \A v \in Alive : bv[v].capacity > 0 => bv[v].mem >= slab /\ bv[v].size <= bv[v].capacity
    /\ \A v, w \in Alive :
         v # w => \/ bv[v].capacity = 0 \/ bv[w].capacity = 0
                  \/ bv[v].mem + bv[v].capacity <= bv[w].mem
                  \/ bv[w].mem + bv[w].capacity <= bv[v].mem
=============================================================================
