---------------------------- MODULE ManagedArray ----------------------------
(***************************************************************************)
(* Vector, the ManagedArray of Math/Array.hpp with one dimension: it keeps *)
(* its elements in storage of its own while they fit and in a buffer of    *)
(* the heap once they do not.  Assignment and moving pass buffers from one *)
(* vector to another.                                                      *)
(***************************************************************************)
EXTENDS Integers, Sequences

CONSTANTS
  Vec,     \* the vectors
  Buffer,  \* the buffers of the heap
  Value,   \* what the client stores
  Junk,    \* what is in memory that nobody wrote
  Inline,  \* the sizes of the storage in the object to try, N in the code
  MaxLen   \* the longest vector that the client makes

\* No object of a vector lies in a buffer of the heap.
ASSUME VectorAssumption == Inline \subseteq Nat /\ MaxLen \in Nat /\ Vec \intersect Buffer = {}

VARIABLES
  inline,  \* N
  vec,     \* ptr, sz and capacity of each vector; ptr is the vector itself
           \* while it uses its own storage
  mem,     \* the elements, in the storage of each vector and in the buffers
  heap     \* the buffers allocated and not freed

vecVars == <<inline, vec, mem, heap>>

Cell == Value \union {0, Junk}
Raw(n) == [i \in 1 .. n |-> Junk]

isSmall(v) == vec[v].ptr = v
\* With N = 0 the pointer of a vector without elements is null.
wasAllocated(v) == ~isSmall(v)

\* data() asserts of the pointer, invariant(ptr != nullptr): a client must not copy
\* or move from such a vector, which has no elements, nor copy nothing to it.
NullPtr(v) == inline = 0 /\ isSmall(v)

newCapacity(v) == IF inline = 0 /\ vec[v].capacity = 0 THEN 4 ELSE 2 * vec[v].capacity

Elements(v) == SubSeq(mem[vec[v].ptr], 1, vec[v].sz)

\* The content of a buffer from its first element.
Filled(place, s) == [i \in DOMAIN place |-> IF i <= Len(s) THEN s[i] ELSE place[i]]

Fresh == CHOOSE b \in Buffer : b \notin heap

\* Mutant: the old buffer is not freed.
maybeDeallocateNot(v) == heap
maybeDeallocate(v) == IF wasAllocated(v) THEN heap \ {vec[v].ptr} ELSE heap

\* What is in a buffer is gone when it is freed.
Written(m) == mem' = [p \in Vec \union Buffer |-> IF p \in Buffer \ heap' THEN <<>> ELSE m[p]]

\* v gets a new buffer with n elements of room that starts with s.
Moved(v, s, n, len) ==
  /\ heap # Buffer
  /\ vec' = [vec EXCEPT ![v] = [ptr |-> Fresh, sz |-> len, capacity |-> n]]
  /\ heap' = maybeDeallocate(v) \union {Fresh}
  /\ Written([mem EXCEPT ![Fresh] = Filled(Raw(n), s)])

InPlace(v, s, len) ==
  /\ vec' = [vec EXCEPT ![v].sz = len]
  /\ mem' = [mem EXCEPT ![vec[v].ptr] = Filled(@, s)]
  /\ UNCHANGED heap

Holds(v, s, n) == IF n > vec[v].capacity THEN Moved(v, s, n, Len(s)) ELSE InPlace(v, s, Len(s))

PushBack(v, x) ==
  /\ vec[v].sz < MaxLen
  /\ LET s == Append(Elements(v), x)
     IN  IF vec[v].sz = vec[v].capacity THEN Moved(v, s, newCapacity(v), Len(s)) ELSE InPlace(v, s, Len(s))
  /\ UNCHANGED inline

PopBack(v) ==
  /\ vec[v].sz > 0
  /\ vec' = [vec EXCEPT ![v].sz = @ - 1]
  /\ UNCHANGED <<inline, mem, heap>>

\* std::copy of what follows, one place down.
Erase(v, i) ==
  /\ i \in 1 .. vec[v].sz
  /\ vec' = [vec EXCEPT ![v].sz = @ - 1]
  /\ mem' = [mem EXCEPT ![vec[v].ptr] =
               [k \in DOMAIN @ |-> IF i <= k /\ k < vec[v].sz THEN @[k + 1] ELSE @[k]]]
  /\ UNCHANGED <<inline, heap>>

\* Mutant: elements that come into view again are not reset.
resizedStale(v, n) == IF n <= vec[v].capacity THEN SubSeq(mem[vec[v].ptr], 1, n) ELSE
                      [i \in 1 .. n |-> IF i <= vec[v].sz THEN Elements(v)[i] ELSE 0]
resized(v, n) == [i \in 1 .. n |-> IF i <= vec[v].sz THEN Elements(v)[i] ELSE 0]

Resize(v, n) == Holds(v, resized(v, n), n) /\ UNCHANGED inline

\* growUndef: a buffer that is too small is freed before the new one is made.
\* What the elements are then is as good as junk.
ResizeForOverwrite(v, n) ==
  /\ IF n > vec[v].capacity THEN Moved(v, <<>>, n, n) ELSE InPlace(v, Raw(n), n)
  /\ UNCHANGED inline

Reserve(v, n) ==
  /\ n > vec[v].capacity
  /\ Moved(v, Elements(v), n, vec[v].sz)
  /\ UNCHANGED inline

Clear(v) ==
  /\ vec' = [vec EXCEPT ![v].sz = 0]
  /\ UNCHANGED <<inline, mem, heap>>

CopyAssign(v, w) ==
  /\ v # w /\ ~NullPtr(w) /\ (vec[w].sz = 0 => ~NullPtr(v))
  /\ Holds(v, Elements(w), vec[w].sz)
  /\ UNCHANGED inline

Empty(v) == [ptr |-> v, sz |-> 0, capacity |-> inline]

resetNoFree(w) == Empty(w)

\* The move assignment copies out of the other's own storage, and takes its buffer.
MoveAssign(v, w) ==
  /\ v # w /\ ~NullPtr(w)
  /\ IF isSmall(w)
     THEN /\ vec' = [vec EXCEPT ![v].sz = vec[w].sz, ![w] = resetNoFree(w)]
          /\ mem' = [mem EXCEPT ![vec[v].ptr] = Filled(@, Elements(w))]
          /\ UNCHANGED heap
     ELSE /\ vec' = [vec EXCEPT ![v] = vec[w], ![w] = resetNoFree(w)]
          /\ heap' = maybeDeallocate(v)
          /\ Written(mem)
  /\ UNCHANGED inline

\* v goes out of scope, and another vector is made in its place.
Destroy(v) ==
  /\ vec' = [vec EXCEPT ![v] = Empty(v)]
  /\ heap' = maybeDeallocate(v)
  /\ Written([mem EXCEPT ![v] = Raw(inline)])
  /\ UNCHANGED inline

VecInit ==
  /\ inline \in Inline
  /\ vec = [v \in Vec |-> Empty(v)]
  /\ mem = [p \in Vec \union Buffer |-> IF p \in Vec THEN Raw(inline) ELSE <<>>]
  /\ heap = {}

VecNext ==
  \E v \in Vec :
    \/ \E x \in Value : PushBack(v, x)
    \/ PopBack(v)
    \/ \E i \in 1 .. MaxLen : Erase(v, i)
    \/ \E n \in 0 .. MaxLen : Resize(v, n) \/ ResizeForOverwrite(v, n) \/ Reserve(v, n)
    \/ Clear(v)
    \/ \E w \in Vec : CopyAssign(v, w) \/ MoveAssign(v, w)
    \/ Destroy(v)

VecSpec == VecInit /\ [][VecNext]_vecVars

----------------------------------------------------------------------------
(* Properties.                                                              *)

AbstractSequences == INSTANCE VectorSpec WITH seq <- [v \in Vec |-> Elements(v)]

(* A Vector is a sequence of its own: no operation on one, growing, erasing, *)
(* assigning or moving, is seen through another, and growth loses nothing.   *)
IsASequence == AbstractSequences!Spec

(* Every buffer of the heap belongs to one vector, which can free it: none   *)
(* is leaked, freed twice or used after it was freed, and no vector is       *)
(* longer than its room.                                                     *)
OneOwner ==
  /\ heap = {vec[v].ptr : v \in {u \in Vec : wasAllocated(u)}}
  /\ \A v, w \in Vec : vec[v].ptr = vec[w].ptr => v = w
  /\ \A v \in Vec : vec[v].sz <= vec[v].capacity /\ Len(mem[vec[v].ptr]) = vec[v].capacity
=============================================================================
