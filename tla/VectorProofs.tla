---------------------------- MODULE VectorProofs ----------------------------
(***************************************************************************)
(* Proofs about the two vectors that grow.  ManagedArray, for every number *)
(* of vectors, every size of the storage in the object and every heap: who *)
(* owns which buffer, and that vectors are sequences (VectorSpec).         *)
(* BumpVector, for every size of the slab and every client: vectors that   *)
(* share an arena keep their blocks apart and their contents.              *)
(***************************************************************************)
EXTENDS ManagedArray, BumpVector, TLAPS

Place == Vec \union Buffer

Header == [ptr : Place, sz : Nat, capacity : Nat]

TypeOK ==
  /\ inline \in Nat
  /\ vec \in [Vec -> Header]
  /\ mem \in [Place -> Seq(Cell)]
  /\ heap \subseteq Buffer

\* The inductive invariant: a vector uses its own storage, which always has room
\* for inline elements, or a buffer of the heap that is its own.
VecInv ==
  /\ TypeOK
  /\ \A v \in Vec :
       /\ vec[v].ptr \in heap \union {v}
       /\ isSmall(v) => vec[v].capacity = inline
       /\ Len(mem[v]) = inline
       /\ inline <= vec[v].capacity
       /\ vec[v].sz <= vec[v].capacity /\ Len(mem[vec[v].ptr]) = vec[v].capacity
  /\ \A v, w \in Vec : vec[v].ptr = vec[w].ptr => v = w
  /\ \A b \in heap : \E v \in Vec : vec[v].ptr = b

----------------------------------------------------------------------------
(* Sequences.                                                              *)

LEMMA SameSequence ==
  ASSUME NEW S, NEW T, NEW s \in Seq(S), NEW t \in Seq(T), Len(s) = Len(t),
         \A i \in 1 .. Len(s) : s[i] = t[i]
  PROVE  s = t
  OBVIOUS

LEMMA FrontFacts ==
  ASSUME NEW S, NEW s \in Seq(S), NEW n \in Nat, n <= Len(s)
  PROVE  /\ SubSeq(s, 1, n) \in Seq(S) /\ Len(SubSeq(s, 1, n)) = n
         /\ \A i \in 1 .. n : SubSeq(s, 1, n)[i] = s[i]
  OBVIOUS

LEMMA FunctionFacts ==
  ASSUME NEW S, NEW n \in Nat, NEW f \in [1 .. n -> S]
  PROVE  f \in Seq(S) /\ Len(f) = n
  OBVIOUS

\* What a place looks like after its first elements were written.
LEMMA FilledFacts ==
  ASSUME NEW p \in Seq(Cell), NEW s \in Seq(Cell)
  PROVE  /\ Filled(p, s) \in Seq(Cell) /\ Len(Filled(p, s)) = Len(p)
         /\ \A i \in 1 .. Len(p) : Filled(p, s)[i] = IF i <= Len(s) THEN s[i] ELSE p[i]
<1> DEFINE n == Len(p)
<1>1. n \in Nat /\ DOMAIN p = 1 .. n
  OBVIOUS
<1>2. Filled(p, s) = [i \in 1 .. n |-> IF i <= Len(s) THEN s[i] ELSE p[i]]
  BY <1>1 DEF Filled
<1>3. \A i \in 1 .. n : (IF i <= Len(s) THEN s[i] ELSE p[i]) \in Cell
  OBVIOUS
<1> HIDE DEF n
<1>4. Filled(p, s) \in [1 .. n -> Cell]
  BY <1>2, <1>3
<1>5. Filled(p, s) \in Seq(Cell) /\ Len(Filled(p, s)) = n
  BY <1>1, <1>4, FunctionFacts
<1> QED
  BY <1>2, <1>5 DEF n

LEMMA RawFacts ==
  ASSUME NEW n \in Nat
  PROVE  Raw(n) \in Seq(Cell) /\ Len(Raw(n)) = n /\ \A i \in 1 .. n : Raw(n)[i] = Junk
<1>1. Raw(n) \in [1 .. n -> Cell]
  BY DEF Raw, Cell
<1> QED
  BY <1>1, FunctionFacts DEF Raw

LEMMA ElementsFacts ==
  ASSUME VecInv, NEW v \in Vec
  PROVE  /\ vec[v] \in Header /\ vec[v].sz \in Nat /\ vec[v].capacity \in Nat /\ vec[v].ptr \in Place
         /\ mem[vec[v].ptr] \in Seq(Cell) /\ vec[v].sz <= Len(mem[vec[v].ptr])
         /\ Elements(v) \in Seq(Cell) /\ Len(Elements(v)) = vec[v].sz
         /\ \A i \in 1 .. vec[v].sz : Elements(v)[i] = mem[vec[v].ptr][i]
<1>1. vec[v] \in Header
  BY DEF VecInv, TypeOK
<1>2. vec[v].sz \in Nat /\ vec[v].capacity \in Nat /\ vec[v].ptr \in Place
  BY <1>1 DEF Header
<1>3. mem[vec[v].ptr] \in Seq(Cell)
  BY <1>2 DEF VecInv, TypeOK
<1>4. vec[v].sz <= Len(mem[vec[v].ptr])
  BY DEF VecInv
<1> QED
  BY <1>1, <1>2, <1>3, <1>4, FrontFacts DEF Elements

\* A vector whose header and memory a step leaves alone keeps its elements.
LEMMA ElementsStay ==
  ASSUME NEW v \in Vec, vec'[v] = vec[v], mem'[vec[v].ptr] = mem[vec[v].ptr]
  PROVE  Elements(v)' = Elements(v)
  BY DEF Elements

----------------------------------------------------------------------------
(* The two ways elements are written: in a new buffer, or where they are.  *)

LEMMA FreshFacts ==
  ASSUME heap \subseteq Buffer, heap # Buffer
  PROVE  Fresh \in Buffer /\ Fresh \notin heap
<1>1. \E b \in Buffer : b \notin heap
  OBVIOUS
<1> QED
  BY <1>1 DEF Fresh

LEMMA MovedFacts ==
  ASSUME VecInv, NEW v \in Vec, NEW s \in Seq(Cell), NEW n \in Nat, NEW len \in Nat,
         len <= n, vec[v].capacity < n, Moved(v, s, n, len), inline' = inline
  PROVE  /\ VecInv'
         /\ \A u \in Vec \ {v} : Elements(u)' = Elements(u)
         /\ Elements(v)' \in Seq(Cell) /\ Len(Elements(v)') = len
         /\ \A i \in 1 .. len : Elements(v)'[i] = IF i <= Len(s) THEN s[i] ELSE Junk
<1> DEFINE b == Fresh
           old == maybeDeallocate(v)
           h == [ptr |-> b, sz |-> len, capacity |-> n]
           r == Raw(n)
           p == Filled(r, s)
<1>1. TypeOK
  BY DEF VecInv
<1>2. b \in Buffer /\ b \notin heap /\ b \notin Vec
  BY <1>1, FreshFacts, VectorAssumption DEF Moved, TypeOK
<1>3. /\ vec' = [vec EXCEPT ![v] = h] /\ heap' = old \union {b}
      /\ mem' = [q \in Place |-> IF q \in Buffer \ heap' THEN <<>> ELSE [mem EXCEPT ![b] = p][q]]
  BY DEF Moved, Written, Place
<1>4. p \in Seq(Cell) /\ Len(p) = n /\ \A i \in 1 .. n : p[i] = IF i <= Len(s) THEN s[i] ELSE Junk
  <2>1. r \in Seq(Cell) /\ Len(r) = n /\ \A i \in 1 .. n : r[i] = Junk
    BY RawFacts
  <2> HIDE DEF r
  <2> QED
    BY <2>1, FilledFacts
<1>5. h \in Header /\ h.ptr = b /\ h.sz = len /\ h.capacity = n
  BY <1>2 DEF Header, Place
<1>6. old = heap \ {vec[v].ptr}
  BY <1>2, VectorAssumption DEF maybeDeallocate, wasAllocated, isSmall, VecInv, TypeOK
<1> HIDE DEF b, old, h, p, r
<1>7. /\ vec' \in [Vec -> Header] /\ vec'[v] = h /\ \A u \in Vec \ {v} : vec'[u] = vec[u]
  BY <1>1, <1>3, <1>5 DEF TypeOK
<1>8. mem'[b] = p /\ \A q \in Place : q \in Vec \/ q \in old => q # b /\ mem'[q] = mem[q]
  BY <1>1, <1>2, <1>3, <1>6, VectorAssumption DEF TypeOK, Place
<1>9. mem' \in [Place -> Seq(Cell)]
  <2> SUFFICES ASSUME NEW q \in Place
               PROVE  (IF q \in Buffer \ heap' THEN <<>> ELSE [mem EXCEPT ![b] = p][q]) \in Seq(Cell)
    BY <1>3
  <2> QED
    BY <1>1, <1>4 DEF TypeOK
<1>10. TypeOK'
  BY <1>1, <1>2, <1>3, <1>6, <1>7, <1>9 DEF TypeOK
<1>11. \A u \in Vec \ {v} : vec[u].ptr \in old \union {u} /\ vec[u].ptr # b /\ vec[u].ptr \in Place
  BY <1>2, <1>6 DEF VecInv, Place, TypeOK
<1>12. \A u \in Vec \ {v} : mem'[vec[u].ptr] = mem[vec[u].ptr]
  BY <1>8, <1>11 DEF Place
<1>13. ASSUME NEW u \in Vec
       PROVE  /\ vec'[u].ptr \in heap' \union {u}
              /\ vec'[u].ptr = u => vec'[u].capacity = inline
              /\ Len(mem'[u]) = inline
              /\ inline <= vec'[u].capacity
              /\ vec'[u].sz <= vec'[u].capacity /\ Len(mem'[vec'[u].ptr]) = vec'[u].capacity
  <2>1. Len(mem'[u]) = inline
    BY <1>8 DEF VecInv, Place
  <2>2. CASE u = v
    <3>1. inline \in Nat /\ vec[v].capacity \in Nat /\ inline <= vec[v].capacity
      BY <1>1, ElementsFacts DEF VecInv, TypeOK
    <3> QED
      BY <1>2, <1>3, <1>4, <1>5, <1>7, <1>8, <2>1, <2>2, <3>1
  <2>3. CASE u # v
    BY <1>3, <1>7, <1>11, <1>12, <2>1, <2>3 DEF VecInv, isSmall
  <2> QED
    BY <2>2, <2>3
<1>14. \A u, w \in Vec : vec'[u].ptr = vec'[w].ptr => u = w
  BY <1>5, <1>7, <1>11 DEF VecInv
<1>15. \A q \in heap' : \E u \in Vec : vec'[u].ptr = q
  BY <1>3, <1>5, <1>6, <1>7 DEF VecInv
<1>16. VecInv'
  BY <1>10, <1>13, <1>14, <1>15 DEF VecInv, isSmall
<1>17. \A u \in Vec \ {v} : Elements(u)' = Elements(u)
  BY <1>7, <1>12, ElementsStay
<1>18. Elements(v)' = SubSeq(p, 1, len)
  BY <1>5, <1>7, <1>8 DEF Elements
<1>19. /\ SubSeq(p, 1, len) \in Seq(Cell) /\ Len(SubSeq(p, 1, len)) = len
       /\ \A i \in 1 .. len : SubSeq(p, 1, len)[i] = p[i]
  BY <1>4, FrontFacts
<1>20. \A i \in 1 .. len : p[i] = IF i <= Len(s) THEN s[i] ELSE Junk
  BY <1>4
<1> QED
  BY <1>16, <1>17, <1>18, <1>19, <1>20

LEMMA InPlaceFacts ==
  ASSUME VecInv, NEW v \in Vec, NEW s \in Seq(Cell), NEW len \in Nat,
         len <= vec[v].capacity, InPlace(v, s, len), inline' = inline
  PROVE  /\ VecInv'
         /\ \A u \in Vec \ {v} : Elements(u)' = Elements(u)
         /\ Elements(v)' \in Seq(Cell) /\ Len(Elements(v)') = len
         /\ \A i \in 1 .. len : Elements(v)'[i] = IF i <= Len(s) THEN s[i] ELSE mem[vec[v].ptr][i]
<1> DEFINE b == vec[v].ptr
           old == mem[b]
           p == Filled(old, s)
<1>1. /\ TypeOK /\ vec[v] \in Header /\ b \in Place /\ old \in Seq(Cell)
      /\ Len(old) = vec[v].capacity /\ vec[v].capacity \in Nat
  BY ElementsFacts DEF VecInv
<1>2. mem' = [mem EXCEPT ![b] = p] /\ heap' = heap /\ vec' = [vec EXCEPT ![v].sz = len]
  BY DEF InPlace
<1> HIDE DEF old
<1>3. p \in Seq(Cell) /\ Len(p) = Len(old) /\ \A i \in 1 .. Len(old) : p[i] = IF i <= Len(s) THEN s[i] ELSE old[i]
  BY <1>1, FilledFacts
<1> HIDE DEF p
<1>4. /\ vec' \in [Vec -> Header] /\ \A u \in Vec \ {v} : vec'[u] = vec[u]
      /\ vec'[v].ptr = b /\ vec'[v].sz = len /\ vec'[v].capacity = vec[v].capacity
  BY <1>1, <1>2 DEF TypeOK, Header
<1> HIDE DEF b
<1>5. mem' \in [Place -> Seq(Cell)] /\ mem'[b] = p /\ \A q \in Place \ {b} : mem'[q] = mem[q]
  BY <1>1, <1>2, <1>3 DEF TypeOK
<1>6. TypeOK'
  BY <1>1, <1>2, <1>4, <1>5 DEF TypeOK
<1>7. \A q \in Place : Len(mem'[q]) = Len(mem[q])
  BY <1>3, <1>5 DEF old
<1>8. \A u \in Vec : vec'[u].ptr = vec[u].ptr /\ vec'[u].capacity = vec[u].capacity
  BY <1>4 DEF b
<1>9. \A u \in Vec : vec'[u].sz <= vec'[u].capacity
  BY <1>4, <1>8 DEF VecInv
<1>10. \A u \in Vec : vec[u].ptr \in Place /\ u \in Place
  BY <1>1 DEF TypeOK, Header, Place
<1>11. VecInv'
  BY <1>2, <1>6, <1>7, <1>8, <1>9, <1>10 DEF VecInv, isSmall
<1>12. ASSUME NEW u \in Vec \ {v} PROVE Elements(u)' = Elements(u)
  <2>1. vec[u].ptr # b /\ vec[u].ptr \in Place
    BY <1>10 DEF VecInv, b
  <2> QED
    BY <1>4, <1>5, <2>1, ElementsStay
<1>13. Elements(v)' = SubSeq(p, 1, len)
  BY <1>4, <1>5 DEF Elements
<1>14. /\ SubSeq(p, 1, len) \in Seq(Cell) /\ Len(SubSeq(p, 1, len)) = len
       /\ \A i \in 1 .. len : SubSeq(p, 1, len)[i] = p[i]
  BY <1>1, <1>3, FrontFacts
<1>15. \A i \in 1 .. len : p[i] = IF i <= Len(s) THEN s[i] ELSE old[i]
  BY <1>1, <1>3
<1> QED
  BY <1>11, <1>12, <1>13, <1>14, <1>15 DEF old, b

----------------------------------------------------------------------------
(* Each operation keeps the invariant, and is one of the abstract sequences. *)

LEMMA BecomesFacts ==
  ASSUME NEW v \in Vec, NEW s, Elements(v)' = s,
         \A u \in Vec \ {v} : Elements(u)' = Elements(u)
  PROVE  AbstractSequences!Becomes(v, s)
  BY DEF AbstractSequences!Becomes

LEMMA PushBackStep ==
  ASSUME VecInv, NEW v \in Vec, NEW x \in Value, PushBack(v, x)
  PROVE  VecInv' /\ AbstractSequences!PushBack(v, x)
<1> DEFINE e == Elements(v)
           s == Append(e, x)
           n == newCapacity(v)
<1>1. e \in Seq(Cell) /\ Len(e) = vec[v].sz /\ vec[v].sz \in Nat /\ vec[v].capacity \in Nat
  BY ElementsFacts
<1>2. inline \in Nat /\ inline <= vec[v].capacity /\ vec[v].sz <= vec[v].capacity
  BY DEF VecInv, TypeOK
<1>3. n \in Nat /\ vec[v].capacity < n
  BY <1>1, <1>2 DEF newCapacity
<1>4. /\ IF vec[v].sz = vec[v].capacity THEN Moved(v, s, n, Len(s)) ELSE InPlace(v, s, Len(s))
      /\ inline' = inline
  BY DEF PushBack
<1> HIDE DEF e, n
<1>5. s \in Seq(Cell) /\ Len(s) = vec[v].sz + 1
  BY <1>1 DEF Cell
<1> HIDE DEF s
<1>6. /\ VecInv' /\ \A u \in Vec \ {v} : Elements(u)' = Elements(u)
      /\ Elements(v)' \in Seq(Cell) /\ Len(Elements(v)') = Len(s)
      /\ \A i \in 1 .. Len(s) : Elements(v)'[i] = s[i]
  <2>1. CASE vec[v].sz = vec[v].capacity
    BY <1>1, <1>3, <1>4, <1>5, <2>1, MovedFacts
  <2>2. CASE vec[v].sz # vec[v].capacity
    BY <1>1, <1>2, <1>4, <1>5, <2>2, InPlaceFacts
  <2> QED
    BY <2>1, <2>2
<1>7. Elements(v)' = s
  BY <1>5, <1>6, SameSequence
<1>8. AbstractSequences!Becomes(v, s)
  BY <1>6, <1>7, BecomesFacts
<1> QED
  BY <1>6, <1>8 DEF s, e, AbstractSequences!PushBack

\* Elements that are cut off stay in memory.
LEMMA ShortenFacts ==
  ASSUME VecInv, NEW v \in Vec, NEW len \in Nat, len <= vec[v].sz,
         vec' = [vec EXCEPT ![v].sz = len], UNCHANGED <<inline, mem, heap>>
  PROVE  /\ VecInv' /\ \A u \in Vec \ {v} : Elements(u)' = Elements(u)
         /\ Elements(v)' \in Seq(Cell) /\ Len(Elements(v)') = len
         /\ \A i \in 1 .. len : Elements(v)'[i] = Elements(v)[i]
<1> DEFINE b == vec[v].ptr
           old == mem[b]
<1>1. /\ b \in Place /\ old \in Seq(Cell) /\ vec[v].sz \in Nat /\ vec[v].capacity \in Nat
      /\ vec[v].sz <= vec[v].capacity /\ \A i \in 1 .. vec[v].sz : Elements(v)[i] = old[i]
      /\ mem \in [Place -> Seq(Cell)]
  BY ElementsFacts DEF VecInv, TypeOK
<1> HIDE DEF old
<1> DEFINE none == <<>>
<1>2. Filled(old, none) = old
  BY <1>1 DEF Filled
<1>3. InPlace(v, none, len)
  BY <1>1, <1>2 DEF InPlace, old
<1>4. none \in Seq(Cell) /\ Len(none) = 0
  OBVIOUS
<1> HIDE DEF none
<1>5. len <= vec[v].capacity
  BY <1>1
<1>6. \A i \in 1 .. len : i \in 1 .. vec[v].sz /\ ~ i <= 0
  BY <1>1
<1>7. /\ VecInv' /\ \A u \in Vec \ {v} : Elements(u)' = Elements(u)
      /\ Elements(v)' \in Seq(Cell) /\ Len(Elements(v)') = len
      /\ \A i \in 1 .. len : Elements(v)'[i] = IF i <= Len(none) THEN none[i] ELSE mem[vec[v].ptr][i]
  BY <1>3, <1>4, <1>5, InPlaceFacts
<1> QED
  BY <1>1, <1>4, <1>6, <1>7 DEF old

LEMMA PopBackStep ==
  ASSUME VecInv, NEW v \in Vec, PopBack(v)
  PROVE  VecInv' /\ AbstractSequences!PopBack(v)
<1> DEFINE e == Elements(v)
           n == vec[v].sz - 1
           s == SubSeq(e, 1, n)
<1>1. e \in Seq(Cell) /\ Len(e) = vec[v].sz /\ vec[v].sz \in Nat
  BY ElementsFacts
<1>2. vec[v].sz > 0 /\ vec' = [vec EXCEPT ![v].sz = n] /\ UNCHANGED <<inline, mem, heap>>
  BY <1>1 DEF PopBack, VecInv, TypeOK
<1>3. n \in Nat /\ n <= vec[v].sz /\ e # <<>>
  BY <1>1, <1>2
<1> HIDE DEF e, n
<1>4. s \in Seq(Cell) /\ Len(s) = n /\ \A i \in 1 .. n : s[i] = e[i]
  BY <1>1, <1>3, FrontFacts
<1>5. /\ VecInv' /\ \A u \in Vec \ {v} : Elements(u)' = Elements(u)
      /\ Elements(v)' \in Seq(Cell) /\ Len(Elements(v)') = n
      /\ \A i \in 1 .. n : Elements(v)'[i] = e[i]
  BY <1>2, <1>3, ShortenFacts DEF e
<1>6. Elements(v)' = s
  BY <1>4, <1>5, SameSequence
<1>7. AbstractSequences!Becomes(v, s)
  BY <1>5, <1>6, BecomesFacts
<1> QED
  BY <1>1, <1>3, <1>5, <1>7 DEF s, e, n, AbstractSequences!PopBack

LEMMA ClearStep ==
  ASSUME VecInv, NEW v \in Vec, Clear(v)
  PROVE  VecInv' /\ AbstractSequences!Resize(v, 0)
<1> DEFINE s == [i \in 1 .. 0 |-> IF i <= Len(Elements(v)) THEN Elements(v)[i] ELSE 0]
<1>1. vec[v].sz \in Nat /\ 0 \in Nat /\ 0 <= vec[v].sz
  BY ElementsFacts
<1>2. /\ VecInv' /\ \A u \in Vec \ {v} : Elements(u)' = Elements(u)
      /\ Elements(v)' \in Seq(Cell) /\ Len(Elements(v)') = 0
  BY <1>1, ShortenFacts DEF Clear
<1>3. s = <<>>
  OBVIOUS
<1>4. Elements(v)' = s
  BY <1>2, <1>3
<1>5. AbstractSequences!Becomes(v, s)
  BY <1>2, <1>4, BecomesFacts
<1> QED
  BY <1>2, <1>5 DEF AbstractSequences!Resize

LEMMA HoldsFacts ==
  ASSUME VecInv, NEW v \in Vec, NEW s \in Seq(Cell), Holds(v, s, Len(s)), inline' = inline
  PROVE  VecInv' /\ AbstractSequences!Becomes(v, s)
<1>1. Len(s) \in Nat /\ vec[v].capacity \in Nat
  BY ElementsFacts
<1>2. /\ VecInv' /\ \A u \in Vec \ {v} : Elements(u)' = Elements(u)
      /\ Elements(v)' \in Seq(Cell) /\ Len(Elements(v)') = Len(s)
      /\ \A i \in 1 .. Len(s) : Elements(v)'[i] = s[i]
  <2>1. CASE Len(s) > vec[v].capacity
    BY <1>1, <2>1, MovedFacts DEF Holds
  <2>2. CASE ~ Len(s) > vec[v].capacity
    BY <1>1, <2>2, InPlaceFacts DEF Holds
  <2> QED
    BY <2>1, <2>2
<1>3. Elements(v)' = s
  BY <1>2, SameSequence
<1> QED
  BY <1>2, <1>3, BecomesFacts

LEMMA ResizeStep ==
  ASSUME VecInv, NEW v \in Vec, NEW n \in Nat, Resize(v, n)
  PROVE  VecInv' /\ AbstractSequences!Resize(v, n)
<1> DEFINE e == Elements(v)
           s == resized(v, n)
<1>1. e \in Seq(Cell) /\ Len(e) = vec[v].sz /\ vec[v].sz \in Nat
  BY ElementsFacts
<1> HIDE DEF e
<1>2. s = [i \in 1 .. n |-> IF i <= Len(e) THEN e[i] ELSE 0]
  BY <1>1 DEF resized, e
<1>3. \A i \in 1 .. n : (IF i <= Len(e) THEN e[i] ELSE 0) \in Cell
  BY <1>1 DEF Cell
<1>4. s \in [1 .. n -> Cell]
  BY <1>2, <1>3
<1>5. s \in Seq(Cell) /\ Len(s) = n
  BY <1>4, FunctionFacts
<1>6. Holds(v, s, n) /\ inline' = inline
  BY DEF Resize
<1> HIDE DEF s
<1>7. VecInv' /\ AbstractSequences!Becomes(v, s)
  BY <1>5, <1>6, HoldsFacts
<1> QED
  BY <1>2, <1>7 DEF AbstractSequences!Resize, e

LEMMA ResizeForOverwriteStep ==
  ASSUME VecInv, NEW v \in Vec, NEW n \in Nat, ResizeForOverwrite(v, n)
  PROVE  VecInv' /\ AbstractSequences!ResizeForOverwrite(v, n)
<1> DEFINE r == Raw(n)
           none == <<>>
<1>1. r \in Seq(Cell) /\ Len(r) = n /\ r = [i \in 1 .. n |-> Junk] /\ \A i \in 1 .. n : r[i] = Junk
  BY RawFacts DEF Raw
<1>2. none \in Seq(Cell) /\ Len(none) = 0 /\ vec[v].capacity \in Nat
  BY ElementsFacts
<1>3. /\ IF n > vec[v].capacity THEN Moved(v, none, n, n) ELSE InPlace(v, r, n)
      /\ inline' = inline
  BY DEF ResizeForOverwrite
<1> HIDE DEF r, none
<1>4. /\ VecInv' /\ \A u \in Vec \ {v} : Elements(u)' = Elements(u)
      /\ Elements(v)' \in Seq(Cell) /\ Len(Elements(v)') = n
      /\ \A i \in 1 .. n : Elements(v)'[i] = Junk
  <2>1. CASE n > vec[v].capacity
    <3>1. /\ VecInv' /\ \A u \in Vec \ {v} : Elements(u)' = Elements(u)
          /\ Elements(v)' \in Seq(Cell) /\ Len(Elements(v)') = n
          /\ \A i \in 1 .. n : Elements(v)'[i] = IF i <= Len(none) THEN none[i] ELSE Junk
      <4>1. Moved(v, none, n, n) /\ inline' = inline /\ n <= n /\ vec[v].capacity < n
        BY <1>2, <1>3, <2>1
      <4> QED
        BY ONLY <1>2, <4>1, VecInv, v \in Vec, n \in Nat, MovedFacts
    <3>2. \A i \in 1 .. n : ~ i <= Len(none)
      BY <1>2
    <3> QED
      BY <3>1, <3>2
  <2>2. CASE ~ n > vec[v].capacity
    BY <1>1, <1>2, <1>3, <2>2, InPlaceFacts
  <2> QED
    BY <2>1, <2>2
<1>5. Elements(v)' = r
  BY <1>1, <1>4, SameSequence
<1>6. AbstractSequences!Becomes(v, r)
  BY <1>4, <1>5, BecomesFacts
<1> QED
  BY <1>1, <1>4, <1>6 DEF AbstractSequences!ResizeForOverwrite

LEMMA ReserveStep ==
  ASSUME VecInv, NEW v \in Vec, NEW n \in Nat, Reserve(v, n)
  PROVE  VecInv' /\ \A u \in Vec : Elements(u)' = Elements(u)
<1> DEFINE e == Elements(v)
<1>1. /\ e \in Seq(Cell) /\ Len(e) = vec[v].sz /\ vec[v].sz \in Nat /\ vec[v].capacity \in Nat
      /\ vec[v].sz <= vec[v].capacity
  BY ElementsFacts DEF VecInv
<1>2. n > vec[v].capacity /\ Moved(v, e, n, vec[v].sz) /\ inline' = inline
  BY DEF Reserve
<1>3. /\ VecInv' /\ \A u \in Vec \ {v} : Elements(u)' = Elements(u)
      /\ Elements(v)' \in Seq(Cell) /\ Len(Elements(v)') = vec[v].sz
      /\ \A i \in 1 .. vec[v].sz : Elements(v)'[i] = e[i]
  <2> HIDE DEF e
  <2> QED
    BY <1>1, <1>2, MovedFacts
<1>4. Elements(v)' = e
  BY <1>1, <1>3, SameSequence
<1> QED
  BY <1>3, <1>4

LEMMA CopyAssignStep ==
  ASSUME VecInv, NEW v \in Vec, NEW w \in Vec, CopyAssign(v, w)
  PROVE  VecInv' /\ AbstractSequences!CopyAssign(v, w)
<1> DEFINE s == Elements(w)
<1>1. s \in Seq(Cell) /\ Len(s) = vec[w].sz
  BY ElementsFacts
<1>2. Holds(v, s, Len(s)) /\ inline' = inline
  BY <1>1 DEF CopyAssign
<1>3. VecInv' /\ AbstractSequences!Becomes(v, s)
  <2> HIDE DEF s
  <2> QED
    BY <1>1, <1>2, HoldsFacts
<1> QED
  BY <1>3 DEF AbstractSequences!CopyAssign

\* A sequence without its i-th element.
LEMMA WithoutFacts ==
  ASSUME NEW S, NEW e \in Seq(S), NEW i \in 1 .. Len(e)
  PROVE  LET s == SubSeq(e, 1, i - 1) \o SubSeq(e, i + 1, Len(e))
         IN  /\ s \in Seq(S) /\ Len(s) = Len(e) - 1
             /\ \A k \in 1 .. Len(e) - 1 : s[k] = IF i <= k THEN e[k + 1] ELSE e[k]
<1> DEFINE a == SubSeq(e, 1, i - 1)
           b == SubSeq(e, i + 1, Len(e))
<1>1. a \in Seq(S) /\ Len(a) = i - 1 /\ \A k \in 1 .. i - 1 : a[k] = e[k]
  OBVIOUS
<1>2. b \in Seq(S) /\ Len(b) = Len(e) - i /\ \A k \in 1 .. Len(e) - i : b[k] = e[k + i]
  OBVIOUS
<1> HIDE DEF a, b
<1>3. a \o b \in Seq(S) /\ Len(a \o b) = Len(e) - 1
  <2>1. ASSUME NEW x \in Seq(S), NEW y \in Seq(S)
        PROVE  x \o y \in Seq(S) /\ Len(x \o y) = Len(x) + Len(y)
    OBVIOUS
  <2>2. a \in Seq(S) /\ b \in Seq(S) /\ Len(a) = i - 1 /\ Len(b) = Len(e) - i
    BY <1>1, <1>2
  <2> QED
    BY <2>1, <2>2
<1>4. ASSUME NEW k \in 1 .. Len(e) - 1
      PROVE  (a \o b)[k] = IF i <= k THEN e[k + 1] ELSE e[k]
  <2>1. CASE i <= k
    <3>1. (a \o b)[k] = b[k - (i - 1)] /\ k - (i - 1) \in 1 .. Len(e) - i
      BY <1>1, <1>2, <2>1
    <3>2. b[k - (i - 1)] = e[(k - (i - 1)) + i] /\ (k - (i - 1)) + i = k + 1
      BY <1>2, <3>1
    <3> QED
      BY <2>1, <3>1, <3>2
  <2>2. CASE ~ i <= k
    BY <1>1, <1>2, <2>2
  <2> QED
    BY <2>1, <2>2
<1> QED
  BY <1>3, <1>4 DEF a, b

LEMMA EraseStep ==
  ASSUME VecInv, NEW v \in Vec, NEW i \in Nat, Erase(v, i)
  PROVE  VecInv' /\ AbstractSequences!Erase(v, i)
<1> DEFINE e == Elements(v)
           s == SubSeq(e, 1, i - 1) \o SubSeq(e, i + 1, Len(e))
           b == vec[v].ptr
           old == mem[b]
           n == vec[v].sz - 1
           new == [k \in DOMAIN old |-> IF i <= k /\ k < vec[v].sz THEN old[k + 1] ELSE old[k]]
<1>1. /\ b \in Place /\ old \in Seq(Cell) /\ vec[v].sz \in Nat /\ vec[v].sz <= Len(old)
      /\ Len(old) = vec[v].capacity /\ mem \in [Place -> Seq(Cell)]
      /\ e \in Seq(Cell) /\ Len(e) = vec[v].sz /\ \A k \in 1 .. vec[v].sz : e[k] = old[k]
  BY ElementsFacts DEF VecInv, TypeOK
<1>2. i \in 1 .. vec[v].sz /\ n \in Nat /\ inline' = inline /\ heap' = heap
  BY <1>1 DEF Erase
<1>3. vec' = [vec EXCEPT ![v].sz = n] /\ mem' = [mem EXCEPT ![b] = new]
  BY <1>1, <1>2 DEF Erase, VecInv, TypeOK
<1> HIDE DEF old, e
<1>4. new \in Seq(Cell) /\ Len(new) = Len(old)
  <2> DEFINE m == Len(old)
  <2>1. m \in Nat /\ DOMAIN old = 1 .. m
    BY <1>1
  <2>2. \A k \in 1 .. m : (IF i <= k /\ k < vec[v].sz THEN old[k + 1] ELSE old[k]) \in Cell
    BY <1>1, <1>2
  <2> HIDE DEF m
  <2>3. new \in [1 .. m -> Cell]
    BY <2>1, <2>2
  <2> HIDE DEF new
  <2>4. new \in Seq(Cell) /\ Len(new) = m
    BY <2>1, <2>3, FunctionFacts
  <2> QED
    BY <2>4 DEF m
<1>5. ASSUME NEW k \in 1 .. n PROVE new[k] = IF i <= k THEN e[k + 1] ELSE e[k]
  <2>1. k \in DOMAIN old /\ k < vec[v].sz /\ k \in 1 .. vec[v].sz /\ k + 1 \in 1 .. vec[v].sz
    BY <1>1, <1>2
  <2>2. e[k] = old[k] /\ e[k + 1] = old[k + 1]
    BY <1>1, <2>1
  <2>3. new[k] = IF i <= k THEN old[k + 1] ELSE old[k]
    BY <2>1
  <2> QED
    BY <2>2, <2>3
<1> HIDE DEF new
<1>6. Filled(old, new) = new
  <2>1. /\ Filled(old, new) \in Seq(Cell) /\ Len(Filled(old, new)) = Len(old)
        /\ \A k \in 1 .. Len(old) : Filled(old, new)[k] = IF k <= Len(new) THEN new[k] ELSE old[k]
    BY <1>1, <1>4, FilledFacts
  <2>2. \A k \in 1 .. Len(old) : Filled(old, new)[k] = new[k]
    BY <1>1, <1>4, <2>1
  <2> QED
    BY <1>4, <2>1, <2>2, SameSequence
<1>7. InPlace(v, new, n)
  BY <1>2, <1>3, <1>6 DEF InPlace, old
<1>8. s \in Seq(Cell) /\ Len(s) = n /\ \A k \in 1 .. n : s[k] = IF i <= k THEN e[k + 1] ELSE e[k]
  <2>1. i \in 1 .. Len(e) /\ n = Len(e) - 1
    BY <1>1, <1>2
  <2> HIDE DEF n
  <2> QED
    BY <1>1, <2>1, WithoutFacts
<1>9. n <= Len(new)
  BY <1>1, <1>4
<1> HIDE DEF s, n
<1>10. /\ VecInv' /\ \A u \in Vec \ {v} : Elements(u)' = Elements(u)
       /\ Elements(v)' \in Seq(Cell) /\ Len(Elements(v)') = n
       /\ \A k \in 1 .. n : Elements(v)'[k] = IF k <= Len(new) THEN new[k] ELSE mem[vec[v].ptr][k]
  BY <1>1, <1>2, <1>4, <1>7, <1>9, InPlaceFacts
<1>11. ASSUME NEW k \in 1 .. n PROVE Elements(v)'[k] = s[k]
  <2>1. k <= Len(new)
    BY <1>1, <1>2, <1>4, <1>9
  <2> QED
    BY <1>5, <1>8, <1>10, <2>1
<1>12. Elements(v)' = s
  BY <1>8, <1>10, <1>11, SameSequence
<1>13. AbstractSequences!Becomes(v, s)
  BY <1>10, <1>12, BecomesFacts
<1> QED
  BY <1>1, <1>2, <1>10, <1>13 DEF s, e, AbstractSequences!Erase

\* What a vector that uses its own storage has given up, or never had.
LEMMA EmptyFacts ==
  ASSUME VecInv, NEW w \in Vec, inline' = inline, vec'[w] = Empty(w),
         mem'[w] \in Seq(Cell), Len(mem'[w]) = inline
  PROVE  /\ Empty(w) \in Header /\ Elements(w)' = <<>>
         /\ vec'[w].ptr = w /\ vec'[w].sz = 0 /\ vec'[w].capacity = inline
<1>1. inline \in Nat
  BY DEF VecInv, TypeOK
<1>2. vec'[w].ptr = w /\ vec'[w].sz = 0 /\ vec'[w].capacity = inline /\ Empty(w) \in Header
  BY <1>1 DEF Empty, Header, Place
<1>3. Elements(w)' = SubSeq(mem'[w], 1, 0)
  BY <1>2 DEF Elements
<1>4. SubSeq(mem'[w], 1, 0) \in Seq(Cell) /\ Len(SubSeq(mem'[w], 1, 0)) = 0
  BY <1>1, FrontFacts
<1> QED
  BY <1>2, <1>3, <1>4

LEMMA MoveAssignSmall ==
  ASSUME VecInv, NEW v \in Vec, NEW w \in Vec, MoveAssign(v, w), isSmall(w)
  PROVE  VecInv' /\ AbstractSequences!MoveAssign(v, w)
<1> DEFINE b == vec[v].ptr
           e == Elements(w)
           old == mem[b]
           p == Filled(old, e)
           n == vec[w].sz
<1>1. /\ v # w /\ inline' = inline /\ heap' = heap /\ mem' = [mem EXCEPT ![b] = p]
      /\ vec' = [vec EXCEPT ![v].sz = n, ![w] = Empty(w)]
  BY DEF MoveAssign, resetNoFree
<1>2. /\ vec[w].ptr = w /\ vec[w].capacity = inline /\ b # w /\ b \in Place /\ w \in Place
      /\ e \in Seq(Cell) /\ Len(e) = n /\ n \in Nat /\ n <= inline /\ inline <= vec[v].capacity
      /\ old \in Seq(Cell) /\ Len(old) = vec[v].capacity /\ vec[v].capacity \in Nat /\ inline \in Nat
      /\ vec[v] \in Header /\ Empty(w) \in Header /\ Empty(w).sz = 0 /\ Empty(w).ptr = w
      /\ Empty(w).capacity = inline
  BY <1>1, ElementsFacts DEF VecInv, TypeOK, isSmall, Place, Empty, Header
<1> HIDE DEF old, e, n
<1>3. p \in Seq(Cell) /\ Len(p) = Len(old) /\ \A i \in 1 .. Len(old) : p[i] = IF i <= Len(e) THEN e[i] ELSE old[i]
  BY <1>2, FilledFacts
<1> HIDE DEF p
<1>4. /\ vec' \in [Vec -> Header] /\ vec'[w] = Empty(w) /\ \A u \in Vec \ {v, w} : vec'[u] = vec[u]
      /\ vec'[v].ptr = b /\ vec'[v].sz = n /\ vec'[v].capacity = vec[v].capacity
  BY <1>1, <1>2 DEF VecInv, TypeOK, Header
<1> HIDE DEF b
<1>5. mem' \in [Place -> Seq(Cell)] /\ mem'[b] = p /\ \A q \in Place \ {b} : mem'[q] = mem[q]
  BY <1>1, <1>2, <1>3 DEF VecInv, TypeOK
<1>6. TypeOK'
  BY <1>1, <1>4, <1>5 DEF VecInv, TypeOK
<1>7. \A q \in Place : Len(mem'[q]) = Len(mem[q])
  BY <1>3, <1>5 DEF old
<1>8. \A u \in Vec : vec'[u].ptr = vec[u].ptr /\ vec'[u].capacity = vec[u].capacity
  BY <1>2, <1>4 DEF b
<1>9. \A u \in Vec : vec'[u].sz <= vec'[u].capacity
  BY <1>2, <1>4 DEF VecInv
<1>10. \A u \in Vec : vec[u].ptr \in Place /\ u \in Place
  BY DEF VecInv, TypeOK, Header, Place
<1>11. VecInv'
  <2>1. inline' = inline /\ heap' = heap
    BY <1>1
  <2> QED
    BY <1>6, <1>7, <1>8, <1>9, <1>10, <2>1 DEF VecInv, isSmall
<1>12. ASSUME NEW u \in Vec \ {v, w} PROVE Elements(u)' = Elements(u)
  <2>1. vec[u].ptr # b /\ vec[u].ptr \in Place
    BY <1>10 DEF VecInv, b
  <2> QED
    BY <1>4, <1>5, <2>1, ElementsStay
<1>13. Elements(w)' = <<>>
  <2>1. mem'[w] \in Seq(Cell) /\ Len(mem'[w]) = inline
    BY <1>2, <1>5, <1>7 DEF VecInv
  <2> QED
    BY <1>1, <1>4, <2>1, EmptyFacts
<1>14. Elements(v)' = e
  <2>1. Elements(v)' = SubSeq(p, 1, n)
    BY <1>4, <1>5 DEF Elements
  <2>2. n <= Len(p)
    BY <1>2, <1>3
  <2>3. /\ SubSeq(p, 1, n) \in Seq(Cell) /\ Len(SubSeq(p, 1, n)) = n
        /\ \A i \in 1 .. n : SubSeq(p, 1, n)[i] = p[i]
    BY <1>2, <1>3, <2>2, FrontFacts
  <2>4. \A i \in 1 .. n : p[i] = e[i]
    BY <1>2, <1>3, <2>2
  <2> QED
    BY <1>2, <2>1, <2>3, <2>4, SameSequence
<1>15. AbstractSequences!MoveAssign(v, w)
  BY <1>1, <1>12, <1>13, <1>14 DEF AbstractSequences!MoveAssign, e
<1> QED
  BY <1>11, <1>15

LEMMA MoveAssignLarge ==
  ASSUME VecInv, NEW v \in Vec, NEW w \in Vec, MoveAssign(v, w), ~ isSmall(w)
  PROVE  VecInv' /\ AbstractSequences!MoveAssign(v, w)
<1> DEFINE b == vec[w].ptr
           old == maybeDeallocate(v)
<1>1. /\ v # w /\ inline' = inline /\ heap' = old
      /\ vec' = [vec EXCEPT ![v] = vec[w], ![w] = Empty(w)]
      /\ mem' = [q \in Place |-> IF q \in Buffer \ heap' THEN <<>> ELSE mem[q]]
  BY DEF MoveAssign, resetNoFree, Written, Place
<1>2. TypeOK /\ old = heap \ {vec[v].ptr} /\ b \in heap /\ b \in old /\ old \subseteq heap
  BY <1>1, VectorAssumption DEF maybeDeallocate, wasAllocated, isSmall, VecInv, TypeOK
<1> HIDE DEF old
<1>3. Empty(w) \in Header /\ vec[w] \in Header
  BY <1>2 DEF Empty, TypeOK, Header, Place
<1>4. /\ vec' \in [Vec -> Header] /\ vec'[v] = vec[w] /\ vec'[w] = Empty(w)
      /\ \A u \in Vec \ {v, w} : vec'[u] = vec[u]
  BY <1>1, <1>2, <1>3 DEF TypeOK
<1>5. mem' \in [Place -> Seq(Cell)] /\ \A q \in Vec \union old : mem'[q] = mem[q]
  <2>1. \A q \in Place : (IF q \in Buffer \ heap' THEN <<>> ELSE mem[q]) \in Seq(Cell)
    BY <1>2 DEF TypeOK
  <2>2. \A q \in Vec \union old : q \in Place /\ q \notin Buffer \ heap'
    BY <1>1, <1>2, VectorAssumption DEF TypeOK, Place
  <2> QED
    BY <1>1, <2>1, <2>2
<1>6. TypeOK'
  BY <1>1, <1>2, <1>4, <1>5 DEF TypeOK
<1>7. \A u \in Vec : Len(mem'[u]) = inline /\ mem'[u] \in Seq(Cell)
  BY <1>2, <1>5 DEF VecInv, TypeOK, Place
<1>8. Elements(w)' = <<>> /\ vec'[w].ptr = w /\ vec'[w].sz = 0 /\ vec'[w].capacity = inline
  BY <1>1, <1>4, <1>7, EmptyFacts
<1>9. vec'[v].ptr = b /\ mem'[b] = mem[b]
  BY <1>2, <1>4, <1>5
<1>10. Elements(v)' = Elements(w)
  BY <1>4, <1>9 DEF Elements
<1>11. \A u \in Vec \ {v, w} : vec[u].ptr \in old \union {u} /\ vec[u].ptr # w /\ vec[u].ptr # b
  BY <1>2, VectorAssumption DEF VecInv, TypeOK
<1>12. \A u \in Vec \ {v, w} : mem'[vec[u].ptr] = mem[vec[u].ptr] /\ Elements(u)' = Elements(u)
  BY <1>4, <1>5, <1>11, ElementsStay
<1>13. ASSUME NEW u \in Vec
       PROVE  /\ vec'[u].ptr \in heap' \union {u}
              /\ vec'[u].ptr = u => vec'[u].capacity = inline
              /\ Len(mem'[u]) = inline
              /\ inline <= vec'[u].capacity
              /\ vec'[u].sz <= vec'[u].capacity /\ Len(mem'[vec'[u].ptr]) = vec'[u].capacity
  <2>1. CASE u = v
    BY <1>1, <1>2, <1>4, <1>7, <1>9, <2>1, VectorAssumption DEF VecInv, TypeOK
  <2>2. CASE u = w
    BY <1>2, <1>7, <1>8, <2>2 DEF TypeOK
  <2>3. CASE u \notin {v, w}
    <3>1. vec'[u] = vec[u] /\ inline' = inline /\ heap' = old
      BY <1>1, <1>4, <2>3
    <3>2. mem'[vec[u].ptr] = mem[vec[u].ptr] /\ vec[u].ptr \in old \union {u} /\ Len(mem'[u]) = inline
      BY <1>7, <1>11, <1>12, <2>3
    <3> QED
      BY <3>1, <3>2 DEF VecInv, isSmall
  <2> QED
    BY <2>1, <2>2, <2>3
<1>14. \A u, x \in Vec : vec'[u].ptr = vec'[x].ptr => u = x
  <2>1. b # w
    BY DEF isSmall
  <2> QED
    BY <1>4, <1>8, <1>9, <1>11, <2>1 DEF VecInv
<1>15. \A q \in heap' : \E u \in Vec : vec'[u].ptr = q
  <2> SUFFICES ASSUME NEW q \in old PROVE \E u \in Vec : vec'[u].ptr = q
    BY <1>1
  <2>1. PICK u \in Vec : vec[u].ptr = q
    BY <1>2 DEF VecInv
  <2>2. u # v
    BY <1>2, <2>1
  <2> QED
    BY <1>4, <1>9, <2>1, <2>2
<1>16. VecInv'
  BY <1>1, <1>6, <1>13, <1>14, <1>15 DEF VecInv, isSmall
<1>17. AbstractSequences!MoveAssign(v, w)
  BY <1>1, <1>8, <1>10, <1>12 DEF AbstractSequences!MoveAssign
<1> QED
  BY <1>16, <1>17

LEMMA DestroyStep ==
  ASSUME VecInv, NEW v \in Vec, Destroy(v)
  PROVE  VecInv' /\ AbstractSequences!Resize(v, 0)
<1> DEFINE old == maybeDeallocate(v)
           r == Raw(inline)
           s == [i \in 1 .. 0 |-> IF i <= Len(Elements(v)) THEN Elements(v)[i] ELSE 0]
<1>1. /\ inline' = inline /\ heap' = old /\ vec' = [vec EXCEPT ![v] = Empty(v)]
      /\ mem' = [q \in Place |-> IF q \in Buffer \ heap' THEN <<>> ELSE [mem EXCEPT ![v] = r][q]]
  BY DEF Destroy, Written, Place
<1>2. TypeOK /\ old = heap \ {vec[v].ptr} /\ old \subseteq heap /\ inline \in Nat
  BY <1>1, VectorAssumption DEF maybeDeallocate, wasAllocated, isSmall, VecInv, TypeOK
<1>3. r \in Seq(Cell) /\ Len(r) = inline
  BY <1>2, RawFacts
<1> HIDE DEF old, r
<1>4. /\ vec' \in [Vec -> Header] /\ vec'[v] = Empty(v) /\ \A u \in Vec \ {v} : vec'[u] = vec[u]
  BY <1>1, <1>2 DEF TypeOK, Empty, Header, Place
<1>5. mem' \in [Place -> Seq(Cell)] /\ mem'[v] = r /\ \A q \in (Vec \ {v}) \union old : mem'[q] = mem[q]
  <2>1. \A q \in Place : (IF q \in Buffer \ heap' THEN <<>> ELSE [mem EXCEPT ![v] = r][q]) \in Seq(Cell)
    BY <1>2, <1>3 DEF TypeOK
  <2>2. \A q \in Vec \union old : q \in Place /\ q \notin Buffer \ heap'
    BY <1>1, <1>2, VectorAssumption DEF TypeOK, Place
  <2>3. v \notin old
    BY <1>2, VectorAssumption DEF TypeOK
  <2> QED
    BY <1>1, <1>2, <2>1, <2>2, <2>3 DEF TypeOK, Place
<1>6. TypeOK'
  BY <1>1, <1>2, <1>4, <1>5 DEF TypeOK
<1>7. \A u \in Vec : Len(mem'[u]) = inline /\ mem'[u] \in Seq(Cell)
  BY <1>2, <1>3, <1>5 DEF VecInv, TypeOK, Place
<1>8. Elements(v)' = <<>> /\ vec'[v].ptr = v /\ vec'[v].sz = 0 /\ vec'[v].capacity = inline
  BY <1>1, <1>4, <1>7, EmptyFacts
<1>9. \A u \in Vec \ {v} : vec[u].ptr \in old \union {u} /\ vec[u].ptr # v
  BY <1>2, VectorAssumption DEF VecInv, TypeOK
<1>10. \A u \in Vec \ {v} : mem'[vec[u].ptr] = mem[vec[u].ptr] /\ Elements(u)' = Elements(u)
  BY <1>4, <1>5, <1>9, ElementsStay
<1>11. ASSUME NEW u \in Vec
       PROVE  /\ vec'[u].ptr \in heap' \union {u}
              /\ vec'[u].ptr = u => vec'[u].capacity = inline
              /\ Len(mem'[u]) = inline
              /\ inline <= vec'[u].capacity
              /\ vec'[u].sz <= vec'[u].capacity /\ Len(mem'[vec'[u].ptr]) = vec'[u].capacity
  <2>1. CASE u = v
    BY <1>2, <1>7, <1>8, <2>1
  <2>2. CASE u # v
    <3>1. vec'[u] = vec[u] /\ inline' = inline /\ heap' = old
      BY <1>1, <1>4, <2>2
    <3>2. mem'[vec[u].ptr] = mem[vec[u].ptr] /\ vec[u].ptr \in old \union {u} /\ Len(mem'[u]) = inline
      BY <1>7, <1>9, <1>10, <2>2
    <3> QED
      BY <3>1, <3>2 DEF VecInv, isSmall
  <2> QED
    BY <2>1, <2>2
<1>12. \A u, x \in Vec : vec'[u].ptr = vec'[x].ptr => u = x
  BY <1>4, <1>8, <1>9 DEF VecInv
<1>13. \A q \in heap' : \E u \in Vec : vec'[u].ptr = q
  BY <1>1, <1>2, <1>4 DEF VecInv
<1>14. VecInv'
  BY <1>1, <1>6, <1>11, <1>12, <1>13 DEF VecInv, isSmall
<1>15. s = <<>>
  OBVIOUS
<1>16. AbstractSequences!Becomes(v, s)
  BY <1>8, <1>10, <1>15, BecomesFacts
<1> QED
  BY <1>14, <1>16 DEF AbstractSequences!Resize

LEMMA VecInitFacts ==
  ASSUME VecInit
  PROVE  VecInv /\ AbstractSequences!Init
<1>1. inline \in Nat /\ heap = {} /\ \A v \in Vec : vec[v] = Empty(v)
  BY VectorAssumption DEF VecInit
<1>2. \A v \in Vec : Empty(v) \in Header /\ Empty(v).ptr = v /\ Empty(v).sz = 0 /\ Empty(v).capacity = inline
  BY <1>1 DEF Empty, Header, Place
<1> DEFINE r == Raw(inline)
<1>3. r \in Seq(Cell) /\ Len(r) = inline
  BY <1>1, RawFacts
<1>4. mem = [p \in Place |-> IF p \in Vec THEN r ELSE <<>>]
  BY DEF VecInit, Place
<1> HIDE DEF r
<1>5. mem \in [Place -> Seq(Cell)] /\ \A v \in Vec : mem[v] = r
  BY <1>3, <1>4 DEF Place
<1>6. TypeOK
  BY <1>1, <1>2, <1>5 DEF VecInit, TypeOK
<1>7. VecInv
  BY <1>1, <1>2, <1>3, <1>5, <1>6 DEF VecInv, isSmall
<1>8. ASSUME NEW v \in Vec PROVE Elements(v) = <<>>
  <2>1. Elements(v) \in Seq(Cell) /\ Len(Elements(v)) = vec[v].sz /\ vec[v].sz = 0
    BY <1>1, <1>2, <1>7, ElementsFacts
  <2> QED
    BY <2>1
<1> QED
  BY <1>7, <1>8 DEF AbstractSequences!Init

LEMMA VecStep ==
  ASSUME VecInv, [VecNext]_vecVars
  PROVE  VecInv' /\ [AbstractSequences!Next]_[v \in Vec |-> Elements(v)]
<1> DEFINE Same == \A u \in Vec : Elements(u)' = Elements(u)
<1>1. Same => UNCHANGED [v \in Vec |-> Elements(v)]
  OBVIOUS
<1>2. CASE UNCHANGED vecVars
  <2>1. VecInv'
    BY <1>2 DEF vecVars, VecInv, TypeOK, isSmall
  <2>2. Same
    BY <1>2 DEF vecVars, Elements
  <2> QED
    BY <1>1, <2>1, <2>2
<1>3. ASSUME NEW v \in Vec, NEW x \in Value, PushBack(v, x)
      PROVE  VecInv' /\ AbstractSequences!Next
  BY <1>3, PushBackStep DEF AbstractSequences!Next
<1>4. ASSUME NEW v \in Vec, PopBack(v) PROVE VecInv' /\ AbstractSequences!Next
  BY <1>4, PopBackStep DEF AbstractSequences!Next
<1>5. ASSUME NEW v \in Vec, NEW i \in 1 .. MaxLen, Erase(v, i)
      PROVE  VecInv' /\ AbstractSequences!Next
  <2>1. i \in Nat
    OBVIOUS
  <2> QED
    BY <1>5, <2>1, EraseStep DEF AbstractSequences!Next
<1>6. ASSUME NEW n \in 0 .. MaxLen PROVE n \in Nat
  BY VectorAssumption
<1>7. 0 \in 0 .. MaxLen
  BY VectorAssumption
<1>8. ASSUME NEW v \in Vec, NEW n \in 0 .. MaxLen, Resize(v, n) \/ ResizeForOverwrite(v, n)
      PROVE  VecInv' /\ AbstractSequences!Next
  BY <1>6, <1>8, ResizeStep, ResizeForOverwriteStep DEF AbstractSequences!Next
<1>9. ASSUME NEW v \in Vec, NEW n \in 0 .. MaxLen, Reserve(v, n) PROVE VecInv' /\ Same
  BY <1>6, <1>9, ReserveStep
<1>10. ASSUME NEW v \in Vec, Clear(v) \/ Destroy(v) PROVE VecInv' /\ AbstractSequences!Next
  BY <1>7, <1>10, ClearStep, DestroyStep DEF AbstractSequences!Next
<1>11. ASSUME NEW v \in Vec, NEW w \in Vec, CopyAssign(v, w) \/ MoveAssign(v, w)
       PROVE  VecInv' /\ AbstractSequences!Next
  BY <1>11, CopyAssignStep, MoveAssignSmall, MoveAssignLarge DEF AbstractSequences!Next
<1> QED
  BY <1>1, <1>2, <1>3, <1>4, <1>5, <1>8, <1>9, <1>10, <1>11 DEF VecNext

LEMMA OwnersFollow ==
  ASSUME VecInv
  PROVE  OneOwner
<1>1. \A b \in heap : \E v \in Vec : vec[v].ptr = b /\ vec[v].ptr # v
  BY VectorAssumption DEF VecInv, TypeOK
<1> QED
  BY <1>1 DEF VecInv, OneOwner, wasAllocated, isSmall

----------------------------------------------------------------------------
(* Every buffer of the heap has one vector that frees it, and every vector  *)
(* has the room its capacity says: growing in a buffer of its own, taking   *)
(* another's, giving up its own and moving out of the object neither leak a *)
(* buffer nor leave it to two (Math/Array.hpp).                             *)
THEOREM BuffersOwned == VecSpec => []OneOwner
<1>1. VecInit => VecInv
  BY VecInitFacts
<1>2. VecInv /\ [VecNext]_vecVars => VecInv'
  BY VecStep
<1>3. VecInv => OneOwner
  BY OwnersFollow
<1> QED
  BY <1>1, <1>2, <1>3, PTL DEF VecSpec

(* A vector is a sequence (VectorSpec): no operation on one is seen through *)
(* another, growth loses nothing, and a vector that was moved from is empty.*)
THEOREM VectorsAreSequences == VecSpec => IsASequence
<1>1. VecInit => VecInv /\ AbstractSequences!Init
  BY VecInitFacts
<1>2. VecInv /\ [VecNext]_vecVars => VecInv' /\ [AbstractSequences!Next]_[v \in Vec |-> Elements(v)]
  BY VecStep
<1> QED
  BY <1>1, <1>2, PTL DEF VecSpec, IsASequence, AbstractSequences!Spec

----------------------------------------------------------------------------
(* BumpVector.                                                             *)

Content == Item \union {Litter}

Block == [mem : Nat, size : Nat, capacity : Nat]

ArenaTypes ==
  /\ slab \in 0 .. Cells
  /\ ram \in [Address -> Content]
  /\ bv \in [Alive -> Block]
  /\ want \in [Alive -> Seq(Content)]
  /\ mark = NoMark \/ mark \in (slab .. Cells) \X SUBSET Vecs
  /\ sound \in BOOLEAN
  /\ Alive \subseteq Vecs

\* Between the end of what is given out and the end of the slab.
Placed(v) ==
  /\ bv[v].size <= bv[v].capacity
  /\ bv[v].capacity > 0 => slab <= bv[v].mem /\ bv[v].mem + bv[v].capacity <= Cells

Apart(v, w) ==
  \/ bv[v].capacity = 0 \/ bv[w].capacity = 0
  \/ bv[v].mem + bv[v].capacity <= bv[w].mem
  \/ bv[w].mem + bv[w].capacity <= bv[v].mem

HasWhatWasPut(v) ==
  /\ Len(want[v]) = bv[v].size
  /\ \A k \in 1 .. bv[v].size : want[v][k] = ram[bv[v].mem + k - 1]

ArenaOK ==
  /\ ArenaTypes
  /\ \A v \in Alive : Placed(v) /\ HasWhatWasPut(v)
  /\ \A v, w \in Alive : v # w => Apart(v, w)

\* The inductive invariant: nothing is known after a call that went past what the
\* class provides for.
BVInv == sound => ArenaOK

----------------------------------------------------------------------------
(* What the invariant says of one vector.                                  *)

LEMMA VectorFacts ==
  ASSUME ArenaOK, NEW v \in Alive
  PROVE  /\ bv[v] \in Block /\ bv[v].mem \in Nat /\ bv[v].size \in Nat /\ bv[v].capacity \in Nat
         /\ want[v] \in Seq(Content) /\ Len(want[v]) = bv[v].size
         /\ bv[v].size <= bv[v].capacity
         /\ bv[v].capacity > 0 => slab <= bv[v].mem /\ bv[v].mem + bv[v].capacity <= Cells
         /\ slab \in Nat /\ slab <= Cells /\ Cells \in Nat
  BY ArenaAssumption DEF ArenaOK, ArenaTypes, Block, Placed, HasWhatWasPut

\* The cells of a vector, all of them in the slab.
LEMMA CellFacts ==
  ASSUME ArenaOK, NEW v \in Alive, NEW k \in 1 .. bv[v].size
  PROVE  /\ bv[v].mem + k - 1 \in Address /\ slab <= bv[v].mem + k - 1
         /\ bv[v].mem + k - 1 < bv[v].mem + bv[v].capacity
         /\ want[v][k] = ram[bv[v].mem + k - 1]
<1>1. /\ bv[v].mem \in Nat /\ bv[v].size \in Nat /\ bv[v].capacity \in Nat
      /\ bv[v].size <= bv[v].capacity /\ slab \in Nat /\ Cells \in Nat
      /\ bv[v].capacity > 0 => slab <= bv[v].mem /\ bv[v].mem + bv[v].capacity <= Cells
  BY VectorFacts
<1>2. bv[v].capacity > 0
  BY <1>1
<1>3. want[v][k] = ram[bv[v].mem + k - 1]
  BY DEF ArenaOK, HasWhatWasPut
<1>4. slab <= bv[v].mem + k - 1 /\ bv[v].mem + k - 1 < bv[v].mem + bv[v].capacity
  BY <1>1, <1>2
<1>5. bv[v].mem + k - 1 \in Address
  BY <1>1, <1>2, <1>4 DEF Address
<1> QED
  BY <1>3, <1>4, <1>5

\* A vector that a step leaves alone keeps what it has when its cells do.
LEMMA OthersKeep ==
  ASSUME ArenaOK, NEW v \in Alive, bv'[v] = bv[v], want'[v] = want[v],
         \A k \in 1 .. bv[v].size : ram'[bv[v].mem + k - 1] = ram[bv[v].mem + k - 1]
  PROVE  HasWhatWasPut(v)'
  BY DEF ArenaOK, HasWhatWasPut

\* r is the memory once n cells at "from" are copied to "to".
CopyOf(r, from, n, to) ==
  /\ r \in [Address -> Content]
  /\ \A a \in Address : ~ (to <= a /\ a < to + n) => r[a] = ram[a]
  /\ \A j \in Nat : j < n /\ to + j \in Address /\ from + j \in Address => r[to + j] = ram[from + j]

LEMMA CopiedFacts ==
  ASSUME ArenaTypes, NEW from \in Nat, NEW n \in Nat, NEW to \in Nat
  PROVE  CopyOf(Copied(from, n, to), from, n, to)
<1>1. \A a \in Address : (IF to <= a /\ a < to + n
                          THEN IF from + (a - to) \in Address THEN ram[from + (a - to)] ELSE Litter
                          ELSE ram[a]) \in Content
  BY DEF ArenaTypes, Content
<1>2. Copied(from, n, to) \in [Address -> Content]
  BY <1>1 DEF Copied
<1>3. ASSUME NEW j \in Nat, j < n, to + j \in Address, from + j \in Address
      PROVE  Copied(from, n, to)[to + j] = ram[from + j]
  <2>1. to <= to + j /\ to + j < to + n /\ from + ((to + j) - to) = from + j
    BY <1>3
  <2> QED
    BY <1>3, <2>1 DEF Copied
<1> QED
  BY <1>2, <1>3 DEF Copied, CopyOf

----------------------------------------------------------------------------
(* Each operation keeps the invariant.                                     *)

LEMMA MakeStep ==
  ASSUME ArenaOK, NEW v \in Vecs, Make(v)
  PROVE  ArenaOK'
<1> DEFINE m == slab - InitialCapacity
           block == [mem |-> m, size |-> 0, capacity |-> InitialCapacity]
<1>1. ArenaTypes /\ slab \in Nat /\ slab <= Cells /\ Cells \in Nat /\ InitialCapacity \in Nat /\ v \notin Alive
  BY ArenaAssumption DEF ArenaOK, ArenaTypes, Make
<1>2. m \in Nat /\ m + InitialCapacity = slab /\ m <= slab /\ m \in 0 .. Cells
  BY <1>1 DEF Make
<1>3. /\ slab' = m /\ ram' = ram /\ mark' = mark /\ sound' = sound
      /\ bv' = [u \in Alive \union {v} |-> IF u = v THEN block ELSE bv[u]]
      /\ want' = [u \in Alive \union {v} |-> IF u = v THEN <<>> ELSE want[u]]
  BY <1>1 DEF Make, Add, ArenaTypes
<1> HIDE DEF m
<1>4. block \in Block /\ block.mem = m /\ block.size = 0 /\ block.capacity = InitialCapacity
  BY <1>1, <1>2 DEF Block
<1> HIDE DEF block
<1>5. /\ Alive' = Alive \union {v} /\ bv' \in [Alive' -> Block] /\ bv'[v] = block
      /\ \A u \in Alive : bv'[u] = bv[u] /\ want'[u] = want[u]
  <2>1. \A u \in Alive : bv[u] \in Block
    BY <1>1 DEF ArenaTypes
  <2>2. Alive' = Alive \union {v}
    BY <1>3 DEF Alive
  <2> QED
    BY <1>1, <1>3, <1>4, <2>1, <2>2
<1>6. want' \in [Alive' -> Seq(Content)] /\ want'[v] = <<>>
  BY <1>1, <1>3, <1>5 DEF ArenaTypes
<1>7. mark' = NoMark \/ mark' \in (slab' .. Cells) \X SUBSET Vecs
  BY <1>1, <1>2, <1>3 DEF ArenaTypes
<1>8. ArenaTypes'
  BY <1>1, <1>2, <1>3, <1>5, <1>6, <1>7 DEF ArenaTypes, Address
<1>9. ASSUME NEW u \in Alive' PROVE Placed(u)' /\ HasWhatWasPut(u)'
  <2>1. CASE u = v
    BY <1>1, <1>2, <1>3, <1>4, <1>5, <1>6, <2>1 DEF Placed, HasWhatWasPut
  <2>2. CASE u # v
    <3>1. u \in Alive /\ bv'[u] = bv[u] /\ want'[u] = want[u]
      BY <1>5, <2>2
    <3>2. Placed(u)'
      BY <1>2, <1>3, <3>1, VectorFacts DEF Placed
    <3> QED
      BY <1>3, <3>1, <3>2, OthersKeep
  <2> QED
    BY <2>1, <2>2
<1>10. ASSUME NEW u \in Alive', NEW w \in Alive', u # w PROVE Apart(u, w)'
  <2>1. CASE u = v
    BY <1>2, <1>4, <1>5, <1>10, <2>1, VectorFacts DEF Apart
  <2>2. CASE w = v
    BY <1>2, <1>4, <1>5, <1>10, <2>2, VectorFacts DEF Apart
  <2>3. CASE u # v /\ w # v
    BY <1>5, <1>10, <2>3 DEF ArenaOK, Apart
  <2> QED
    BY <2>1, <2>2, <2>3
<1> QED
  BY <1>8, <1>9, <1>10 DEF ArenaOK

\* A vector that grows, in place or not, or writes where it has room.
LEMMA PutStep ==
  ASSUME ArenaOK, NEW v \in Alive, NEW x \in Item, BumpPushBack(v, x)
  PROVE  ArenaOK'
<1> DEFINE size == bv[v].size + 1
           old == bv[v].mem
           room == bv[v].capacity
           n == IF size > room THEN 2 * size ELSE 0
           moves == n > room
           to == Reallocated(v, n)
           kept == IF moves THEN Copied(old, room, to) ELSE ram
           base == IF moves THEN to ELSE old
           cap == IF moves THEN n ELSE room
           block == [mem |-> base, size |-> size, capacity |-> cap]
<1>1. /\ ArenaTypes /\ old \in Nat /\ room \in Nat /\ bv[v].size \in Nat /\ size \in Nat /\ n \in Nat
      /\ bv[v].size <= room /\ slab \in Nat /\ slab <= Cells /\ Cells \in Nat
      /\ room > 0 => slab <= old /\ old + room <= Cells
      /\ want[v] \in Seq(Content) /\ Len(want[v]) = bv[v].size
      /\ moves <=> size > room
  BY VectorFacts DEF ArenaOK
<1>2. /\ moves => to >= 0
      /\ slab' = (IF moves THEN to ELSE slab)
      /\ ram' = [kept EXCEPT ![base + (size - 1)] = x]
      /\ bv' = [bv EXCEPT ![v] = block]
      /\ mark' = mark /\ sound' = sound
      /\ want' = [want EXCEPT ![v] = Append(@, x)]
  BY <1>1 DEF BumpPushBack, Put, ArenaTypes
<1>3. to = IF old = slab THEN slab - (n - room) ELSE slab - n
  BY DEF Reallocated
<1> HIDE DEF to
\* Where the vector is now, and that there was nobody.
<1>4. /\ base \in Nat /\ cap \in Nat /\ size <= cap /\ base + cap <= Cells
      /\ slab' <= base /\ slab' <= slab /\ slab' \in 0 .. Cells
  <2>1. CASE moves
    <3>1. base = to /\ cap = n /\ slab' = to /\ to >= 0 /\ n = 2 * size /\ size > room
      BY <1>1, <1>2, <2>1
    <3> HIDE DEF base, cap, n, moves
    <3>2. /\ slab \in Nat /\ Cells \in Nat /\ room \in Nat /\ size \in Nat /\ slab <= Cells
          /\ room > 0 /\ old = slab => slab + room <= Cells
      BY <1>1
    <3> HIDE DEF size, old, room
    <3>3. n \in Nat /\ n > room
      BY <3>1, <3>2
    <3>4. to \in Int /\ to <= slab /\ to + n <= Cells
      BY <1>3, <3>2, <3>3
    <3>5. 0 <= to /\ size <= n
      BY <3>1, <3>2, <3>4
    <3> QED
      BY <3>1, <3>2, <3>3, <3>4, <3>5
  <2>2. CASE ~ moves
    BY <1>1, <1>2, <2>2
  <2> QED
    BY <2>1, <2>2
<1>5. ASSUME NEW u \in Alive \ {v}
      PROVE  bv[u].capacity = 0 \/ base + cap <= bv[u].mem \/ bv[u].mem + bv[u].capacity <= base
  <2>1. /\ bv[u].mem \in Nat /\ bv[u].capacity \in Nat
        /\ bv[u].capacity > 0 => slab <= bv[u].mem /\ bv[u].mem + bv[u].capacity <= Cells
    BY VectorFacts
  <2>2. \/ room = 0 \/ bv[u].capacity = 0
        \/ old + room <= bv[u].mem \/ bv[u].mem + bv[u].capacity <= old
    BY DEF ArenaOK, Apart
  <2>3. CASE ~ moves
    <3>1. room > 0
      BY <1>1, <2>3
    <3> QED
      BY <2>1, <2>2, <2>3, <3>1
  <2>4. CASE moves /\ old = slab
    <3>1. base = slab - (n - room) /\ cap = n
      BY <1>3, <2>4
    <3> HIDE DEF base, cap, n
    <3>2. base + cap = slab + room
      BY <1>1, <1>4, <3>1
    <3>3. room > 0 /\ bv[u].capacity > 0 => slab + room <= bv[u].mem
      BY <1>1, <2>1, <2>2, <2>4
    <3>4. room = 0 /\ bv[u].capacity > 0 => slab + room <= bv[u].mem
      BY <1>1, <2>1
    <3> QED
      BY <1>1, <2>1, <3>2, <3>3, <3>4
  <2>5. CASE moves /\ old # slab
    <3>1. base + cap = slab
      BY <1>1, <1>3, <2>5
    <3> QED
      BY <2>1, <3>1
  <2> QED
    BY <2>3, <2>4, <2>5
\* What was copied.
<1>6. /\ kept \in [Address -> Content]
      /\ \A a \in Address : ~ (base <= a /\ a < base + cap) => kept[a] = ram[a]
      /\ \A j \in Nat : j < bv[v].size => kept[base + j] = ram[old + j]
  <2>1. CASE moves
    <3>1. to \in Nat /\ base = to /\ cap = n /\ kept = Copied(old, room, to)
      BY <1>1, <1>2, <1>4, <2>1
    <3>2. CopyOf(Copied(old, room, to), old, room, to)
      <4> HIDE DEF old, room
      <4>1. ArenaTypes /\ old \in Nat /\ room \in Nat /\ to \in Nat
        BY <1>1, <3>1
      <4> QED
        BY ONLY <4>1, CopiedFacts
    <3> HIDE DEF base, cap, kept, old, room, n, moves
    <3>3. room < cap
      BY <2>1, <3>1 DEF moves
    <3>4. ASSUME NEW j \in Nat, j < bv[v].size
          PROVE  j < room /\ to + j \in Address /\ old + j \in Address
      BY <1>1, <1>4, <3>1, <3>3, <3>4 DEF Address
    <3>5. \A a \in Address : ~ (to <= a /\ a < to + cap) => ~ (to <= a /\ a < to + room)
      BY <1>1, <1>4, <3>1, <3>3 DEF Address
    <3> QED
      BY <3>1, <3>2, <3>4, <3>5 DEF CopyOf
  <2>2. CASE ~ moves
    BY <1>1, <2>2 DEF ArenaTypes
  <2> QED
    BY <2>1, <2>2
<1> HIDE DEF kept, base, cap, n, moves, old, room
<1>7. base + (size - 1) \in Address /\ base <= base + (size - 1) /\ base + (size - 1) < base + cap
  <2>1. size >= 1
    BY <1>1
  <2> HIDE DEF size
  <2> QED
    BY <1>1, <1>4, <2>1 DEF Address
<1>8. /\ ram' \in [Address -> Content] /\ ram'[base + (size - 1)] = x
      /\ \A a \in Address : a # base + (size - 1) => ram'[a] = kept[a]
  BY <1>2, <1>6, <1>7 DEF Content
<1>9. block \in Block /\ block.mem = base /\ block.size = size /\ block.capacity = cap
  BY <1>1, <1>4 DEF Block
<1> HIDE DEF block
<1>10. /\ Alive' = Alive /\ bv' \in [Alive -> Block] /\ bv'[v] = block
       /\ \A u \in Alive \ {v} : bv'[u] = bv[u] /\ want'[u] = want[u]
  <2>1. Alive' = Alive
    BY <1>2 DEF Alive
  <2> QED
    BY <1>1, <1>2, <1>9, <2>1 DEF ArenaTypes
<1>11. want' \in [Alive -> Seq(Content)] /\ want'[v] = Append(want[v], x)
  BY <1>1, <1>2 DEF ArenaTypes, Content
<1>12. mark' = NoMark \/ mark' \in (slab' .. Cells) \X SUBSET Vecs
  BY <1>1, <1>2, <1>4 DEF ArenaTypes
<1>13. ArenaTypes'
  BY <1>1, <1>2, <1>4, <1>8, <1>10, <1>11, <1>12 DEF ArenaTypes, Address
<1>14. ASSUME NEW u \in Alive \ {v} PROVE Placed(u)' /\ HasWhatWasPut(u)'
  <2>1. Placed(u)'
    BY <1>1, <1>4, <1>10, VectorFacts DEF Placed
  <2>2. ASSUME NEW k \in 1 .. bv[u].size
        PROVE  ram'[bv[u].mem + k - 1] = ram[bv[u].mem + k - 1]
    <3> DEFINE a == bv[u].mem + k - 1
    <3>1. a \in Address /\ bv[u].mem \in Nat /\ bv[u].capacity \in Nat /\ a < bv[u].mem + bv[u].capacity
          /\ a >= bv[u].mem
      BY CellFacts, VectorFacts
    <3>2. ~ (base <= a /\ a < base + cap)
      BY <1>4, <1>5, <3>1
    <3> HIDE DEF a
    <3>3. ram'[a] = ram[a]
      BY <1>6, <1>7, <1>8, <3>1, <3>2
    <3> QED
      BY <3>3 DEF a
  <2> QED
    BY <1>10, <2>1, <2>2, OthersKeep
<1>15. Placed(v)'
  BY <1>1, <1>4, <1>9, <1>10 DEF Placed
<1>16. HasWhatWasPut(v)'
  <2>1. Len(want'[v]) = size
    BY <1>1, <1>11
  <2>2. ASSUME NEW k \in 1 .. size PROVE want'[v][k] = ram'[base + k - 1]
    <3>1. CASE k = size
      <4>1. want'[v][k] = x
        BY <1>1, <1>11, <3>1
      <4>2. base + k - 1 = base + (size - 1)
        BY <1>1, <1>4, <3>1
      <4> QED
        BY <1>8, <4>1, <4>2
    <3>2. CASE k # size
      <4> DEFINE j == k - 1
      <4>1. k \in 1 .. bv[v].size /\ j \in Nat /\ j < bv[v].size
        BY <1>1, <3>2
      <4>2. want'[v][k] = want[v][k]
        BY <1>1, <1>11, <4>1
      <4>3. want[v][k] = ram[old + k - 1]
        BY <4>1, CellFacts DEF old
      <4>4. base + j \in Address /\ base + j # base + (size - 1) /\ base + k - 1 = base + j /\ old + k - 1 = old + j
        BY <1>1, <1>4, <4>1 DEF Address
      <4> HIDE DEF j
      <4>5. kept[base + j] = ram[old + j]
        BY <1>6, <4>1
      <4> QED
        BY <1>8, <4>2, <4>3, <4>4, <4>5
    <3> QED
      BY <3>1, <3>2
  <2> QED
    BY <1>9, <1>10, <2>1, <2>2 DEF HasWhatWasPut
<1>17. ASSUME NEW u \in Alive, NEW w \in Alive, u # w PROVE Apart(u, w)'
  <2>1. CASE u = v
    BY <1>5, <1>9, <1>10, <1>17, <2>1 DEF Apart
  <2>2. CASE w = v
    BY <1>5, <1>9, <1>10, <1>17, <2>2 DEF Apart
  <2>3. CASE u # v /\ w # v
    BY <1>10, <1>17, <2>3 DEF ArenaOK, Apart
  <2> QED
    BY <2>1, <2>2, <2>3
<1> QED
  BY <1>10, <1>13, <1>14, <1>15, <1>16, <1>17 DEF ArenaOK

LEMMA ArenaPopBackStep ==
  ASSUME ArenaOK, NEW v \in Alive, BumpPopBack(v)
  PROVE  ArenaOK'
<1> DEFINE size == bv[v].size - 1
           block == [bv[v] EXCEPT !.size = size]
           s == SubSeq(want[v], 1, size)
<1>1. /\ ArenaTypes /\ bv[v] \in Block /\ bv[v].mem \in Nat /\ bv[v].size \in Nat /\ bv[v].capacity \in Nat
      /\ want[v] \in Seq(Content) /\ Len(want[v]) = bv[v].size /\ bv[v].size <= bv[v].capacity
  BY VectorFacts DEF ArenaOK
<1>2. /\ bv[v].size > 0 /\ bv' = [bv EXCEPT ![v] = block]
      /\ want' = [want EXCEPT ![v] = SubSeq(@, 1, Len(@) - 1)]
      /\ UNCHANGED <<slab, ram, mark, sound>>
  BY <1>1 DEF BumpPopBack, ArenaTypes
<1>3. size \in Nat /\ size <= Len(want[v])
  BY <1>1, <1>2
<1>4. block \in Block /\ block.mem = bv[v].mem /\ block.size = size /\ block.capacity = bv[v].capacity
  BY <1>1, <1>3 DEF Block
<1>5. s \in Seq(Content) /\ Len(s) = size /\ \A k \in 1 .. size : s[k] = want[v][k]
  <2> HIDE DEF size
  <2> QED
    BY <1>1, <1>3
<1>6. want' = [want EXCEPT ![v] = s]
  BY <1>1, <1>2 DEF ArenaTypes
<1>7. \A k \in 1 .. size : k \in 1 .. bv[v].size
  BY <1>1
<1> HIDE DEF block, s, size
<1>8. Alive' = Alive
  BY <1>2 DEF Alive
<1>9. /\ bv' \in [Alive -> Block] /\ bv'[v] = block /\ want' \in [Alive -> Seq(Content)] /\ want'[v] = s
      /\ \A u \in Alive \ {v} : bv'[u] = bv[u] /\ want'[u] = want[u]
  BY <1>1, <1>2, <1>4, <1>5, <1>6 DEF ArenaTypes
<1>10. ArenaTypes'
  BY <1>1, <1>2, <1>8, <1>9 DEF ArenaTypes, Address
<1>11. ASSUME NEW u \in Alive PROVE Placed(u)' /\ HasWhatWasPut(u)'
  <2>1. CASE u = v
    <3>1. Placed(v)'
      BY <1>1, <1>2, <1>3, <1>4, <1>9 DEF ArenaOK, Placed
    <3>2. HasWhatWasPut(v)
      BY DEF ArenaOK
    <3> QED
      BY <1>2, <1>4, <1>5, <1>7, <1>9, <2>1, <3>1, <3>2 DEF HasWhatWasPut
  <2>2. CASE u # v
    BY <1>2, <1>9, <2>2 DEF ArenaOK, Placed, HasWhatWasPut
  <2> QED
    BY <2>1, <2>2
<1>12. \A u, w \in Alive : u # w => Apart(u, w)'
  BY <1>4, <1>9 DEF ArenaOK, Apart
<1> QED
  BY <1>8, <1>10, <1>11, <1>12 DEF ArenaOK

\* Without the element after the first i.
LEMMA ArenaWithoutFacts ==
  ASSUME NEW S, NEW e \in Seq(S), NEW i \in Nat, i < Len(e)
  PROVE  LET s == SubSeq(e, 1, i) \o SubSeq(e, i + 2, Len(e))
         IN  /\ s \in Seq(S) /\ Len(s) = Len(e) - 1
             /\ \A k \in 1 .. Len(e) - 1 : s[k] = IF i < k THEN e[k + 1] ELSE e[k]
<1> DEFINE a == SubSeq(e, 1, i)
           b == SubSeq(e, i + 2, Len(e))
<1>1. a \in Seq(S) /\ Len(a) = i /\ \A k \in 1 .. i : a[k] = e[k]
  OBVIOUS
<1>2. b \in Seq(S) /\ Len(b) = Len(e) - i - 1 /\ \A k \in 1 .. Len(e) - i - 1 : b[k] = e[k + i + 1]
  OBVIOUS
<1> HIDE DEF a, b
<1>3. a \o b \in Seq(S) /\ Len(a \o b) = Len(e) - 1
  <2>1. ASSUME NEW x \in Seq(S), NEW y \in Seq(S)
        PROVE  x \o y \in Seq(S) /\ Len(x \o y) = Len(x) + Len(y)
    OBVIOUS
  <2>2. a \in Seq(S) /\ b \in Seq(S) /\ Len(a) = i /\ Len(b) = Len(e) - i - 1
    BY <1>1, <1>2
  <2> QED
    BY <2>1, <2>2
<1>4. ASSUME NEW k \in 1 .. Len(e) - 1
      PROVE  (a \o b)[k] = IF i < k THEN e[k + 1] ELSE e[k]
  <2>1. CASE i < k
    <3>1. (a \o b)[k] = b[k - i] /\ k - i \in 1 .. Len(e) - i - 1
      BY <1>1, <1>2, <2>1
    <3>2. b[k - i] = e[(k - i) + i + 1] /\ (k - i) + i + 1 = k + 1
      BY <1>2, <3>1
    <3> QED
      BY <2>1, <3>1, <3>2
  <2>2. CASE ~ i < k
    BY <1>1, <1>2, <2>2
  <2> QED
    BY <2>1, <2>2
<1> QED
  BY <1>3, <1>4 DEF a, b

\* An erase that does not copy past its block.
LEMMA ArenaEraseStep ==
  ASSUME ArenaOK, NEW v \in Alive, NEW i \in Nat, BumpErase(v, i), sound'
  PROVE  ArenaOK'
<1> DEFINE n == bv[v].size
           old == bv[v].mem
           room == bv[v].capacity
           from == old + i + 1
           to == old + i
           block == [bv[v] EXCEPT !.size = n - 1]
           s == SubSeq(want[v], 1, i) \o SubSeq(want[v], i + 2, Len(want[v]))
<1>1. /\ ArenaTypes /\ bv[v] \in Block /\ old \in Nat /\ n \in Nat /\ room \in Nat
      /\ want[v] \in Seq(Content) /\ Len(want[v]) = n /\ n <= room /\ HasWhatWasPut(v)
      /\ room > 0 => slab <= old /\ old + room <= Cells
  BY VectorFacts DEF ArenaOK
<1>2. /\ i < n /\ bv' = [bv EXCEPT ![v] = block]
      /\ ram' = Copied(from, n, to) /\ want' = [want EXCEPT ![v] = s]
      /\ UNCHANGED <<slab, mark>> /\ i + n <= room /\ sound' \in BOOLEAN
  BY <1>1 DEF BumpErase, ArenaTypes
<1>3. n - 1 \in Nat /\ room > 0 /\ from \in Nat /\ to \in Nat /\ slab <= old /\ old + room <= Cells
  <2> HIDE DEF n, old, room, block, s
  <2>1. n - 1 \in Nat /\ room > 0
    BY <1>1, <1>2
  <2> QED
    BY <1>1, <2>1
<1>4. block \in Block /\ block.mem = old /\ block.size = n - 1 /\ block.capacity = room
  <2>1. bv[v] \in Block /\ n - 1 \in Nat
    BY <1>1, <1>3
  <2>2. ASSUME NEW b \in Block, NEW k \in Nat
        PROVE  /\ [b EXCEPT !.size = k] \in Block /\ [b EXCEPT !.size = k].mem = b.mem
               /\ [b EXCEPT !.size = k].size = k /\ [b EXCEPT !.size = k].capacity = b.capacity
    BY DEF Block
  <2> QED
    BY ONLY <2>1, <2>2
<1>5. s \in Seq(Content) /\ Len(s) = n - 1 /\ \A k \in 1 .. n - 1 : s[k] = IF i < k THEN want[v][k + 1] ELSE want[v][k]
  <2> HIDE DEF n
  <2> QED
    BY <1>1, <1>2, ArenaWithoutFacts
<1>6. /\ ram' \in [Address -> Content]
      /\ \A a \in Address : ~ (to <= a /\ a < to + n) => ram'[a] = ram[a]
      /\ \A j \in Nat : j < n /\ to + j \in Address /\ from + j \in Address => ram'[to + j] = ram[from + j]
  <2>1. ArenaTypes /\ n \in Nat /\ from \in Nat /\ to \in Nat
    BY <1>1, <1>3
  <2> HIDE DEF n, from, to
  <2>2. CopyOf(Copied(from, n, to), from, n, to)
    BY ONLY <2>1, CopiedFacts
  <2> QED
    BY <1>2, <2>2 DEF CopyOf
<1> HIDE DEF block, s, n, old, room, from, to
<1>7. Alive' = Alive
  BY <1>2 DEF Alive
<1>8. /\ bv' \in [Alive -> Block] /\ bv'[v] = block /\ want' \in [Alive -> Seq(Content)] /\ want'[v] = s
      /\ \A u \in Alive \ {v} : bv'[u] = bv[u] /\ want'[u] = want[u]
  BY <1>1, <1>2, <1>4, <1>5 DEF ArenaTypes
<1>9. ArenaTypes'
  BY <1>1, <1>2, <1>6, <1>7, <1>8 DEF ArenaTypes, Address
<1>10. Placed(v)'
  BY <1>1, <1>2, <1>3, <1>4, <1>8 DEF Placed
<1>11. HasWhatWasPut(v)'
  <2>1. ASSUME NEW k \in 1 .. n - 1 PROVE s[k] = ram'[old + k - 1]
    <3>1. k \in 1 .. n /\ k + 1 \in 1 .. n /\ old + k - 1 \in Address /\ old + k \in Address
      <4>1. Cells \in Nat /\ k < room
        BY <1>1, ArenaAssumption
      <4>2. k \in 1 .. n /\ k + 1 \in 1 .. n
        BY <1>1
      <4> QED
        BY <1>1, <1>3, <4>1, <4>2 DEF Address
    <3>2. want[v][k] = ram[old + k - 1] /\ want[v][k + 1] = ram[old + (k + 1) - 1]
      BY <1>1, <3>1 DEF HasWhatWasPut, old, n
    <3>3. CASE i < k
      <4> DEFINE j == k - 1 - i
      <4>1. j \in Nat /\ j < n /\ to + j = old + k - 1 /\ from + j = old + k /\ old + (k + 1) - 1 = old + k
        BY <1>1, <1>2, <3>3 DEF to, from
      <4> HIDE DEF j
      <4>2. ram'[to + j] = ram[from + j]
        BY <1>6, <3>1, <4>1
      <4> QED
        BY <1>5, <3>2, <3>3, <4>1, <4>2
    <3>4. CASE ~ i < k
      <4>1. ~ (to <= old + k - 1)
        BY <1>1, <3>4 DEF to
      <4> QED
        BY <1>5, <1>6, <3>1, <3>2, <3>4, <4>1
    <3> QED
      BY <3>3, <3>4
  <2> QED
    BY <1>4, <1>5, <1>8, <2>1 DEF HasWhatWasPut
<1>12. ASSUME NEW u \in Alive \ {v} PROVE Placed(u)' /\ HasWhatWasPut(u)'
  <2>1. Placed(u)'
    BY <1>2, <1>8 DEF ArenaOK, Placed
  <2>2. ASSUME NEW k \in 1 .. bv[u].size
        PROVE  ram'[bv[u].mem + k - 1] = ram[bv[u].mem + k - 1]
    <3> DEFINE a == bv[u].mem + k - 1
    <3>1. a \in Address /\ bv[u].mem \in Nat /\ bv[u].capacity \in Nat /\ a < bv[u].mem + bv[u].capacity
          /\ a >= bv[u].mem
      BY CellFacts, VectorFacts
    <3>2. \/ bv[u].capacity = 0 \/ old + room <= bv[u].mem \/ bv[u].mem + bv[u].capacity <= old
      BY <1>3 DEF ArenaOK, Apart, old, room
    <3>3. ~ (to <= a /\ a < to + n)
      BY <1>1, <1>2, <3>1, <3>2 DEF to
    <3> HIDE DEF a
    <3>4. ram'[a] = ram[a]
      BY <1>6, <3>1, <3>3
    <3> QED
      BY <3>4 DEF a
  <2> QED
    BY <1>8, <2>1, <2>2, OthersKeep
<1>13. \A u, w \in Alive : u # w => Apart(u, w)'
  BY <1>4, <1>8 DEF ArenaOK, Apart, old, room
<1> QED
  BY <1>7, <1>9, <1>10, <1>11, <1>12, <1>13 DEF ArenaOK

LEMMA MoveStep ==
  ASSUME ArenaOK, NEW v \in Alive, NEW w \in Vecs, MoveTo(v, w)
  PROVE  ArenaOK'
<1> DEFINE none == [mem |-> 0, size |-> 0, capacity |-> 0]
<1>1. /\ ArenaTypes /\ w \notin Alive /\ w # v /\ UNCHANGED <<slab, ram, mark, sound>>
      /\ bv' = [u \in Alive \union {w} |-> IF u = w THEN bv[v] ELSE IF u = v THEN none ELSE bv[u]]
      /\ want' = [u \in Alive \union {w} |-> IF u = w THEN want[v] ELSE IF u = v THEN <<>> ELSE want[u]]
  BY DEF ArenaOK, MoveTo, Add, Alive, ArenaTypes
<1>2. none \in Block /\ none.mem = 0 /\ none.size = 0 /\ none.capacity = 0
  BY DEF Block
<1> HIDE DEF none
<1>3. Alive' = Alive \union {w}
  BY <1>1 DEF Alive
<1>4. /\ bv' \in [Alive' -> Block] /\ bv'[w] = bv[v] /\ bv'[v] = none
      /\ \A u \in Alive \ {v} : bv'[u] = bv[u] /\ want'[u] = want[u]
  BY <1>1, <1>2, <1>3 DEF ArenaTypes
<1>5. want' \in [Alive' -> Seq(Content)] /\ want'[w] = want[v] /\ want'[v] = <<>>
  BY <1>1, <1>3 DEF ArenaTypes
<1>6. ArenaTypes'
  BY <1>1, <1>3, <1>4, <1>5 DEF ArenaTypes, Address
<1>7. ASSUME NEW u \in Alive' PROVE Placed(u)' /\ HasWhatWasPut(u)'
  <2>1. CASE u = v
    BY <1>2, <1>4, <1>5, <2>1 DEF Placed, HasWhatWasPut
  <2>2. CASE u = w
    BY <1>1, <1>4, <1>5, <2>2 DEF ArenaOK, Placed, HasWhatWasPut
  <2>3. CASE u # v /\ u # w
    BY <1>1, <1>3, <1>4, <2>3 DEF ArenaOK, Placed, HasWhatWasPut
  <2> QED
    BY <2>1, <2>2, <2>3
<1>8. ASSUME NEW a \in Alive', NEW b \in Alive', a # b PROVE Apart(a, b)'
  <2>1. CASE a = v \/ b = v
    BY <1>2, <1>4, <2>1 DEF Apart
  <2>2. CASE a # v /\ b # v
    BY <1>3, <1>4, <1>8, <2>2 DEF ArenaOK, Apart
  <2> QED
    BY <2>1, <2>2
<1> QED
  BY <1>6, <1>7, <1>8 DEF ArenaOK

LEMMA CheckpointStep ==
  ASSUME ArenaOK, Checkpoint
  PROVE  ArenaOK'
<1>1. ArenaTypes'
  BY DEF ArenaOK, ArenaTypes, Checkpoint, Alive, Address
<1> QED
  BY <1>1 DEF ArenaOK, Checkpoint, Alive, Placed, HasWhatWasPut, Apart

\* The end of a scope in which no older vector moved.
LEMMA EndScopeStep ==
  ASSUME ArenaOK, EndScope, sound'
  PROVE  ArenaOK'
<1>1. /\ ArenaTypes /\ mark # NoMark /\ slab' = mark[1] /\ mark' = NoMark /\ ram' = ram
      /\ bv' = [v \in Alive \intersect mark[2] |-> bv[v]]
      /\ want' = [v \in Alive \intersect mark[2] |-> want[v]]
      /\ \A v \in Alive \intersect mark[2] : bv[v].capacity = 0 \/ bv[v].mem >= mark[1]
      /\ sound' \in BOOLEAN
  BY DEF ArenaOK, EndScope, RolledBackTo, ArenaTypes
<1>2. mark[1] \in slab .. Cells /\ slab \in Nat /\ Cells \in Nat
  BY <1>1, ArenaAssumption DEF ArenaTypes
<1>3. Alive' = Alive \intersect mark[2]
  BY <1>1 DEF Alive
<1>4. ArenaTypes'
  BY <1>1, <1>2, <1>3 DEF ArenaTypes, Address
<1>5. ASSUME NEW u \in Alive' PROVE Placed(u)' /\ HasWhatWasPut(u)'
  <2>1. u \in Alive /\ bv'[u] = bv[u] /\ want'[u] = want[u]
    BY <1>1, <1>3
  <2>2. Placed(u)'
    BY <1>1, <1>3, <2>1, VectorFacts DEF Placed
  <2> QED
    BY <1>1, <2>1, <2>2, OthersKeep
<1>6. \A u, w \in Alive' : u # w => Apart(u, w)'
  BY <1>1, <1>3 DEF ArenaOK, Apart
<1> QED
  BY <1>4, <1>5, <1>6 DEF ArenaOK

LEMMA InitFacts ==
  ASSUME BVInit
  PROVE  ArenaOK
<1>1. Alive = {}
  BY DEF BVInit, Alive
<1>2. bv \in [Alive -> Block] /\ want \in [Alive -> Seq(Content)]
  BY <1>1 DEF BVInit
<1>3. ArenaTypes
  BY <1>1, <1>2, ArenaAssumption DEF BVInit, ArenaTypes, Content
<1> QED
  BY <1>1, <1>3 DEF ArenaOK

LEMMA BVStep ==
  ASSUME BVInv, [BVNext]_bvVars
  PROVE  BVInv'
<1> SUFFICES ASSUME sound' PROVE ArenaOK'
  BY DEF BVInv
<1>1. CASE UNCHANGED bvVars
  BY <1>1 DEF bvVars, BVInv, ArenaOK, ArenaTypes, Alive, Address, Placed, HasWhatWasPut, Apart
<1>2. ASSUME NEW v \in Vecs, Make(v) PROVE ArenaOK'
  BY <1>2, MakeStep DEF BVInv, Make
<1>3. ASSUME NEW v \in Alive, NEW x \in Item, BumpPushBack(v, x) PROVE ArenaOK'
  <2>1. sound
    BY <1>3 DEF BumpPushBack, Put
  <2> QED
    BY <1>3, <2>1, PutStep DEF BVInv
<1>4. ASSUME NEW v \in Alive, BumpPopBack(v) PROVE ArenaOK'
  BY <1>4, ArenaPopBackStep DEF BVInv, BumpPopBack
<1>5. ASSUME NEW v \in Alive, NEW i \in Address, BumpErase(v, i) PROVE ArenaOK'
  <2>1. sound
    BY <1>5 DEF BumpErase
  <2>2. i \in Nat
    BY DEF Address
  <2> QED
    BY <1>5, <2>1, <2>2, ArenaEraseStep DEF BVInv
<1>6. ASSUME NEW v \in Alive, NEW w \in Vecs, MoveTo(v, w) PROVE ArenaOK'
  BY <1>6, MoveStep DEF BVInv, MoveTo
<1>7. CASE Checkpoint
  BY <1>7, CheckpointStep DEF BVInv, Checkpoint
<1>8. CASE EndScope
  BY <1>8, EndScopeStep DEF BVInv, EndScope
<1> QED
  BY <1>1, <1>2, <1>3, <1>4, <1>5, <1>6, <1>7, <1>8 DEF BVNext

LEMMA ContentsFollow ==
  ASSUME BVInv
  PROVE  HoldWhatWasPut /\ BlocksApart
<1> SUFFICES ASSUME ArenaOK
             PROVE  HoldWhatWasPut /\ BlocksApart
  BY DEF BVInv, HoldWhatWasPut, BlocksApart
<1>1. ASSUME NEW v \in Alive PROVE Contents(v) = want[v]
  <2>1. want[v] \in Seq(Content) /\ Len(want[v]) = bv[v].size /\ bv[v].size \in Nat
    BY VectorFacts
  <2>2. want[v] = [k \in 1 .. bv[v].size |-> want[v][k]]
    BY <2>1
  <2>3. \A k \in 1 .. bv[v].size : want[v][k] = ram[bv[v].mem + k - 1]
    BY DEF ArenaOK, HasWhatWasPut
  <2> QED
    BY <2>2, <2>3 DEF Contents
<1>2. BlocksApart
  BY DEF ArenaOK, Placed, Apart, BlocksApart
<1> QED
  BY <1>1, <1>2 DEF HoldWhatWasPut

----------------------------------------------------------------------------
(* The blocks of the vectors of one arena lie apart, above what is still to *)
(* be given out, however they grow, are moved and are dropped with their    *)
(* scope (reserve and reallocate, Math/BumpVector.hpp and                   *)
(* Utilities/Allocators.hpp).                                               *)
THEOREM BlocksStayApart == BVSpec => []BlocksApart
<1>1. BVInit => BVInv
  BY InitFacts DEF BVInv
<1>2. BVInv /\ [BVNext]_bvVars => BVInv'
  BY BVStep
<1>3. BVInv => BlocksApart
  BY ContentsFollow
<1> QED
  BY <1>1, <1>2, <1>3, PTL DEF BVSpec

(* A vector holds what was put into it: neither its own growth nor another's*)
(* overwrites an element, until an erase copies past its block or an older  *)
(* vector grows in a scope.                                                 *)
THEOREM ContentsKept == BVSpec => []HoldWhatWasPut
<1>1. BVInit => BVInv
  BY InitFacts DEF BVInv
<1>2. BVInv /\ [BVNext]_bvVars => BVInv'
  BY BVStep
<1>3. BVInv => HoldWhatWasPut
  BY ContentsFollow
<1> QED
  BY <1>1, <1>2, <1>3, PTL DEF BVSpec
=============================================================================
