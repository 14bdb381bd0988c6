--------------------------- MODULE TurboLoopProofs ---------------------------
(***************************************************************************)
(* Proofs about TurboLoop for functions of every shape: which loops        *)
(* pushLoopTree plants, and that every tree stays in one place of one      *)
(* forest; that a nest holds the loops around it that are left, and where  *)
(* only an omega may not fit it.                                           *)
(***************************************************************************)
EXTENDS TurboLoop, FiniteSetTheorems, SequenceTheorems, WellFoundedInduction, TLAPS

----------------------------------------------------------------------------
(* Numbers.                                                                *)

\* Every nonempty set of naturals has a least member.
LEMMA LeastExists ==
  ASSUME NEW S \in SUBSET Nat, S # {}
  PROVE  \E x \in S : \A y \in S : x <= y
<1> DEFINE R == {ss \in Nat \X Nat : ss[1] < ss[2]}
<1>1. IsWellFoundedOn(R, Nat)
  BY NatLessThanWellFounded DEF OpToRel
<1>2. PICK x \in S : \A y \in S : <<y, x>> \notin R
  <2> HIDE DEF R
  <2> QED
    BY <1>1, WFMin
<1>3. ASSUME NEW y \in S
      PROVE  x <= y
  <2>1. x \in Nat /\ y \in Nat /\ ~(y < x)
    BY <1>2
  <2> QED
    BY <2>1
<1> QED
  BY <1>3

\* A function m to the naturals has a least value on a nonempty set.
LEMMA LeastAt ==
  ASSUME NEW D, NEW m \in [D -> Nat], NEW S \in SUBSET D, S # {}
  PROVE  \E x \in S : \A y \in S : m[x] <= m[y]
<1> DEFINE N == {m[x] : x \in S}
<1>1. N \in SUBSET Nat /\ N # {}
  OBVIOUS
<1>2. PICK n \in N : \A k \in N : n <= k
  <2> HIDE DEF N
  <2> QED
    BY <1>1, LeastExists
<1> QED
  BY <1>2

\* A nonempty set of naturals up to a bound has a greatest member.
LEMMA GreatestExists ==
  ASSUME NEW b \in Nat, NEW S \in SUBSET (0 .. b), S # {}
  PROVE  \E x \in S : \A y \in S : y <= x
<1> DEFINE m == [x \in 0 .. b |-> b - x]
<1>1. m \in [0 .. b -> Nat]
  OBVIOUS
<1>2. PICK x \in S : \A y \in S : m[x] <= m[y]
  <2> HIDE DEF m
  <2> QED
    BY <1>1, LeastAt
<1>3. \A y \in S : y \in 0 .. b /\ m[y] = b - y
  OBVIOUS
<1>4. \A y \in S : b - x <= b - y
  BY <1>2, <1>3
<1> HIDE DEF m
<1> QED
  BY <1>3, <1>4

----------------------------------------------------------------------------
(* What is reached from a place of a finite tree by going on to its        *)
(* successors: the value of the functions that are defined by recursion    *)
(* over trees (Enclosed, Subtree).                                         *)

Links(next, p, x, y) ==
  /\ p \in Seq(DOMAIN next) /\ Len(p) > 0
  /\ p[1] = x /\ p[Len(p)] = y
  /\ \A i \in 1 .. Len(p) - 1 : p[i + 1] \in next[p[i]]
Reach(next, x) == {y \in DOMAIN next : \E p : Links(next, p, x, y)}

LEMMA ReachSelf ==
  ASSUME NEW D, NEW next \in [D -> SUBSET D], NEW x \in D
  PROVE  x \in Reach(next, x)
<1>1. Links(next, <<x>>, x, x)
  BY DEF Links
<1> QED
  BY <1>1 DEF Reach

LEMMA ReachFirst ==
  ASSUME NEW D, NEW next \in [D -> SUBSET D], NEW x \in D, NEW u \in next[x], NEW y \in Reach(next, u)
  PROVE  y \in Reach(next, x)
<1>1. PICK p : Links(next, p, u, y)
  BY DEF Reach
<1>2. p \in Seq(D) /\ Len(p) > 0 /\ p[1] = u /\ p[Len(p)] = y /\ \A i \in 1 .. Len(p) - 1 : p[i + 1] \in next[p[i]]
  BY <1>1 DEF Links
<1> DEFINE q == <<x>> \o p
<1>3. q \in Seq(D) /\ Len(q) = Len(p) + 1 /\ q[1] = x /\ \A i \in 1 .. Len(p) : q[i + 1] = p[i]
  BY <1>2
<1> HIDE DEF q
<1>4. Len(p) \in Nat
  BY <1>2
<1>5. ASSUME NEW i \in 1 .. Len(q) - 1 PROVE q[i + 1] \in next[q[i]]
  <2>1. CASE i = 1
    BY <1>2, <1>3, <1>4, <2>1
  <2>2. CASE i # 1
    <3>1. i - 1 \in 1 .. Len(p) - 1 /\ i \in 1 .. Len(p)
      BY <1>3, <1>4, <2>2
    <3>2. q[i + 1] = p[i] /\ q[(i - 1) + 1] = p[i - 1] /\ (i - 1) + 1 = i
      BY <1>3, <1>4, <3>1
    <3>3. p[(i - 1) + 1] \in next[p[i - 1]]
      BY <1>2, <3>1
    <3> QED
      BY <3>2, <3>3
  <2> QED
    BY <2>1, <2>2
<1>6. q[Len(q)] = y
  BY <1>2, <1>3, <1>4
<1>7. Links(next, q, x, y)
  BY <1>3, <1>4, <1>5, <1>6 DEF Links
<1>8. y \in D
  BY DEF Reach
<1> QED
  BY <1>7, <1>8 DEF Reach

LEMMA ReachLast ==
  ASSUME NEW D, NEW next \in [D -> SUBSET D], NEW x \in D, NEW y \in Reach(next, x), NEW z \in next[y]
  PROVE  z \in Reach(next, x)
<1>1. PICK p : Links(next, p, x, y)
  BY DEF Reach
<1>2. y \in D
  BY DEF Reach
<1>3. p \in Seq(D) /\ Len(p) > 0 /\ p[1] = x /\ p[Len(p)] = y /\ \A i \in 1 .. Len(p) - 1 : p[i + 1] \in next[p[i]]
  BY <1>1 DEF Links
<1> DEFINE q == Append(p, z)
<1>4. z \in D
  BY <1>2
<1>5. q \in Seq(D) /\ Len(q) = Len(p) + 1 /\ q[Len(p) + 1] = z /\ \A i \in 1 .. Len(p) : q[i] = p[i]
  BY <1>3, <1>4
<1> HIDE DEF q
<1>6. Len(p) \in Nat
  BY <1>3
<1>7. ASSUME NEW i \in 1 .. Len(q) - 1 PROVE q[i + 1] \in next[q[i]]
  <2>1. CASE i = Len(p)
    BY <1>3, <1>5, <1>6, <2>1
  <2>2. CASE i # Len(p)
    <3>1. i \in 1 .. Len(p) - 1 /\ i \in 1 .. Len(p) /\ i + 1 \in 1 .. Len(p)
      BY <1>5, <1>6, <2>2
    <3> QED
      BY <1>3, <1>5, <3>1
  <2> QED
    BY <2>1, <2>2
<1>8. Links(next, q, x, z)
  BY <1>3, <1>5, <1>6, <1>7 DEF Links
<1> QED
  BY <1>4, <1>8 DEF Reach

LEMMA ReachUnfold ==
  ASSUME NEW D, NEW next \in [D -> SUBSET D], NEW x \in D
  PROVE  Reach(next, x) = {x} \union UNION {Reach(next, u) : u \in next[x]}
<1>1. ASSUME NEW y \in Reach(next, x), y # x
      PROVE  \E u \in next[x] : y \in Reach(next, u)
  <2>1. PICK p : Links(next, p, x, y)
    BY DEF Reach
  <2>2. y \in D
    BY DEF Reach
  <2>3. p \in Seq(D) /\ Len(p) > 0 /\ p[1] = x /\ p[Len(p)] = y /\ \A i \in 1 .. Len(p) - 1 : p[i + 1] \in next[p[i]]
    BY <2>1 DEF Links
  <2>4. Len(p) \in Nat /\ Len(p) > 1
    BY <1>1, <2>3
  <2> DEFINE q == Tail(p)
  <2>5. q \in Seq(D) /\ Len(q) = Len(p) - 1 /\ \A i \in 1 .. Len(p) - 1 : q[i] = p[i + 1]
    BY <2>3, <2>4
  <2> HIDE DEF q
  <2>6. ASSUME NEW i \in 1 .. Len(q) - 1 PROVE q[i + 1] \in next[q[i]]
    <3>1. i + 1 \in 1 .. Len(p) - 1 /\ i \in 1 .. Len(p) - 1
      BY <2>4, <2>5
    <3> QED
      BY <2>3, <2>5, <3>1
  <2>7. q[Len(q)] = y
    BY <2>3, <2>4, <2>5
  <2>8. 1 \in 1 .. Len(p) - 1 /\ p[1 + 1] \in next[p[1]] /\ q[1] = p[1 + 1]
    BY <2>3, <2>4, <2>5
  <2>9. Links(next, q, q[1], y)
    BY <2>4, <2>5, <2>6, <2>7 DEF Links
  <2> QED
    BY <2>2, <2>3, <2>8, <2>9 DEF Reach
<1>2. ASSUME NEW u \in next[x], NEW y \in Reach(next, u) PROVE y \in Reach(next, x)
  BY ReachFirst
<1>3. x \in Reach(next, x)
  BY ReachSelf
<1> QED
  BY <1>1, <1>2, <1>3

\* There is one function with the equation, where the successors of a place measure less.
LEMMA ReachOnly ==
  ASSUME NEW D, NEW next \in [D -> SUBSET D], NEW m \in [D -> Nat],
         \A x \in D : \A u \in next[x] : m[u] < m[x],
         NEW f, f = [x \in D |-> {x} \union UNION {f[u] : u \in next[x]}]
  PROVE  \A x \in D : f[x] = Reach(next, x)
<1> DEFINE S == {x \in D : f[x] # Reach(next, x)}
<1> SUFFICES ASSUME S # {} PROVE FALSE
  OBVIOUS
<1>1. PICK x \in S : \A y \in S : m[x] <= m[y]
  BY LeastAt
<1>2. x \in D /\ f[x] # Reach(next, x)
  OBVIOUS
<1>3. \A u \in next[x] : u \in D /\ f[u] = Reach(next, u)
  <2> SUFFICES ASSUME NEW u \in next[x] PROVE u \in D /\ f[u] = Reach(next, u)
    OBVIOUS
  <2>1. u \in D /\ m[u] < m[x]
    BY <1>2
  <2>2. m[u] \in Nat /\ m[x] \in Nat
    BY <1>2, <2>1
  <2>3. u \notin S
    BY <1>1, <2>1, <2>2
  <2> QED
    BY <2>1, <2>3
<1>4. f[x] = {x} \union UNION {f[u] : u \in next[x]}
  BY <1>2
<1> HIDE DEF S
<1>5. UNION {f[u] : u \in next[x]} = UNION {Reach(next, u) : u \in next[x]}
  BY <1>3
<1>6. Reach(next, x) = {x} \union UNION {Reach(next, u) : u \in next[x]}
  BY <1>2, ReachUnfold
<1> QED
  BY <1>2, <1>4, <1>5, <1>6

LEMMA ReachIs ==
  ASSUME NEW D, NEW next \in [D -> SUBSET D]
  PROVE  LET f == [x \in D |-> Reach(next, x)] IN f = [x \in D |-> {x} \union UNION {f[u] : u \in next[x]}]
<1> DEFINE f == [x \in D |-> Reach(next, x)]
           g == [x \in D |-> {x} \union UNION {f[u] : u \in next[x]}]
<1>1. ASSUME NEW x \in D PROVE f[x] = g[x]
  <2>1. {f[u] : u \in next[x]} = {Reach(next, u) : u \in next[x]}
    OBVIOUS
  <2>2. Reach(next, x) = {x} \union UNION {Reach(next, u) : u \in next[x]}
    BY ReachUnfold
  <2> QED
    BY <2>1, <2>2
<1>2. f = [x \in D |-> f[x]] /\ g = [x \in D |-> g[x]]
  OBVIOUS
<1> HIDE DEF f, g
<1>3. f = g
  BY <1>1, <1>2
<1> QED
  BY <1>3 DEF f, g

----------------------------------------------------------------------------
(* The loops of a function.                                                *)

Loops == DOMAIN func.subLoops
Inside == [L \in Loops |-> Elements(func.subLoops[L])]

LEMMA FunctionFacts ==
  ASSUME ValidFunction(func)
  PROVE  /\ \E n \in Loops : n \in Nat /\ Loops = 0 .. n
         /\ 0 \in Loops /\ Loops \subseteq Nat
         /\ \A L \in Loops : func.subLoops[L] \in Seq(Loops)
         /\ \A L \in Loops : \A i \in DOMAIN func.subLoops[L] : func.subLoops[L][i] \in Loops /\ L < func.subLoops[L][i]
         /\ \A L, M \in Loops : \A i \in DOMAIN func.subLoops[L], j \in DOMAIN func.subLoops[M] :
              func.subLoops[L][i] = func.subLoops[M][j] => L = M /\ i = j
         /\ \A L \in Loops : DOMAIN func.subLoops[L] = 1 .. Len(func.subLoops[L]) /\ Len(func.subLoops[L]) \in Nat
         /\ \A L \in Loops : func.direct[L] \in [1 .. Len(func.subLoops[L]) + 1 -> BOOLEAN]
         /\ func.affine \subseteq RealLoops
         /\ Inside \in [Loops -> SUBSET Loops]
<1>1. PICK n \in Loops : Loops = 0 .. n
  BY DEF ValidFunction, Loops
<1>2. n \in Nat /\ 0 \in Loops /\ Loops \subseteq Nat
  BY <1>1
<1>3. \A L \in Loops : func.subLoops[L] \in Seq(Loops)
  BY DEF ValidFunction, Loops
<1>4. \A L \in Loops : DOMAIN func.subLoops[L] = 1 .. Len(func.subLoops[L]) /\ Len(func.subLoops[L]) \in Nat
  BY <1>3
<1>5. \A L \in Loops : \A i \in DOMAIN func.subLoops[L] : func.subLoops[L][i] \in Loops
  BY <1>3
<1>6. Inside \in [Loops -> SUBSET Loops]
  BY <1>5 DEF Inside, Elements
<1>7. \A L \in Loops : \A i \in DOMAIN func.subLoops[L] : L < func.subLoops[L][i]
  BY DEF ValidFunction, Loops
<1>8. \A L, M \in Loops : \A i \in DOMAIN func.subLoops[L], j \in DOMAIN func.subLoops[M] :
        func.subLoops[L][i] = func.subLoops[M][j] => L = M /\ i = j
  BY DEF ValidFunction, Loops
<1>9. \A L \in Loops : func.direct[L] \in [1 .. Len(func.subLoops[L]) + 1 -> BOOLEAN]
  BY DEF ValidFunction, Loops
<1>10. func.affine \subseteq RealLoops
  BY DEF ValidFunction, RealLoops
<1>11. \E k \in Loops : k \in Nat /\ Loops = 0 .. k
  BY <1>1, <1>2
<1> QED
  BY <1>2, <1>3, <1>4, <1>5, <1>6, <1>7, <1>8, <1>9, <1>10, <1>11

\* No two loops are around a loop.
LEMMA OneAround ==
  ASSUME ValidFunction(func), NEW L \in Loops, NEW M \in Loops,
         NEW i \in DOMAIN func.subLoops[L], NEW j \in DOMAIN func.subLoops[M], func.subLoops[L][i] = func.subLoops[M][j]
  PROVE  L = M /\ i = j
  BY FunctionFacts

\* The loops in a loop.
LEMMA EnclosedIs ==
  ASSUME ValidFunction(func)
  PROVE  \A L \in Loops : Enclosed[L] = Reach(Inside, L)
<1> DEFINE E(f) == f = [L \in Loops |-> {L} \union UNION {f[M] : M \in Inside[L]}]
<1>1. \A f : E(f) <=> f = [L \in DOMAIN func.subLoops |-> {L} \union UNION {f[M] : M \in Elements(func.subLoops[L])}]
  BY DEF Inside, Loops
<1>2. Inside \in [Loops -> SUBSET Loops]
  BY FunctionFacts
<1>3. \E f : E(f)
  <2> DEFINE g == [x \in Loops |-> Reach(Inside, x)]
  <2>1. g = [x \in Loops |-> {x} \union UNION {g[u] : u \in Inside[x]}]
    BY <1>2, ReachIs
  <2> HIDE DEF g
  <2> QED
    BY <2>1
<1>4. E(Enclosed)
  <2>1. Enclosed = CHOOSE f : f = [L \in DOMAIN func.subLoops |-> {L} \union UNION {f[M] : M \in Elements(func.subLoops[L])}]
    BY DEF Enclosed
  <2> HIDE DEF E
  <2> QED
    BY <1>1, <1>3, <2>1
<1>5. PICK n \in Nat : Loops = 0 .. n
  BY FunctionFacts
<1> DEFINE m == [L \in Loops |-> n - L]
<1>6. m \in [Loops -> Nat]
  BY <1>5
<1>7. \A L \in Loops : \A M \in Inside[L] : m[M] < m[L]
  <2> SUFFICES ASSUME NEW L \in Loops, NEW M \in Inside[L] PROVE m[M] < m[L]
    OBVIOUS
  <2>1. M \in Loops /\ L < M
    BY FunctionFacts DEF Inside, Elements
  <2> QED
    BY <1>5, <2>1
<1> HIDE DEF m
<1>8. Enclosed = [L \in Loops |-> {L} \union UNION {Enclosed[M] : M \in Inside[L]}]
  BY <1>4
<1> HIDE DEF E
<1> QED
  BY <1>2, <1>6, <1>7, <1>8, ReachOnly

LEMMA EnclosedFacts ==
  ASSUME ValidFunction(func), NEW L \in Loops
  PROVE  /\ L \in Enclosed[L]
         /\ Enclosed[L] = {L} \union UNION {Enclosed[M] : M \in Elements(func.subLoops[L])}
         /\ Enclosed[L] \subseteq Loops
         /\ \A X \in Enclosed[L] : \A i \in DOMAIN func.subLoops[X] : func.subLoops[X][i] \in Enclosed[L]
<1>1. Inside \in [Loops -> SUBSET Loops] /\ Inside[L] = Elements(func.subLoops[L])
  BY FunctionFacts DEF Inside
<1>2. \A X \in Loops : Enclosed[X] = Reach(Inside, X)
  BY EnclosedIs
<1>3. L \in Enclosed[L]
  BY <1>1, <1>2, ReachSelf
<1>4. Enclosed[L] = {L} \union UNION {Enclosed[M] : M \in Elements(func.subLoops[L])}
  <2>1. Reach(Inside, L) = {L} \union UNION {Reach(Inside, M) : M \in Inside[L]}
    BY <1>1, ReachUnfold
  <2>2. {Reach(Inside, M) : M \in Inside[L]} = {Enclosed[M] : M \in Elements(func.subLoops[L])}
    BY <1>1, <1>2
  <2> QED
    BY <1>2, <2>1, <2>2
<1>5. Enclosed[L] \subseteq Loops
  BY <1>1, <1>2 DEF Reach
<1>6. ASSUME NEW X \in Enclosed[L], NEW i \in DOMAIN func.subLoops[X] PROVE func.subLoops[X][i] \in Enclosed[L]
  <2>1. X \in Loops
    BY <1>5
  <2>2. func.subLoops[X][i] \in Inside[X]
    BY <2>1 DEF Inside, Elements
  <2> QED
    BY <1>1, <1>2, <2>2, ReachLast
<1> QED
  BY <1>3, <1>4, <1>5, <1>6

\* By least counterexample from the last loop: a loop in L that is not L has a greater number.
LEMMA EnclosedAbove ==
  ASSUME ValidFunction(func), NEW L \in Loops, NEW X \in Enclosed[L]
  PROVE  X \in Loops /\ L <= X
<1>1. PICK n \in Nat : Loops = 0 .. n
  BY FunctionFacts
<1> DEFINE S == {M \in Loops : \E Y \in Enclosed[M] : ~(M <= Y)}
<1>2. S = {}
  <2> SUFFICES ASSUME S # {} PROVE FALSE
    OBVIOUS
  <2>1. S \in SUBSET (0 .. n)
    BY <1>1
  <2>2. PICK M \in S : \A K \in S : K <= M
    <3> HIDE DEF S
    <3> QED
      BY <2>1, GreatestExists
  <2>3. PICK Y \in Enclosed[M] : ~(M <= Y)
    OBVIOUS
  <2>4. M \in Loops /\ M \in Nat
    BY <2>1
  <2>5. Y # M /\ Y \in Loops /\ Y \in Nat
    BY <2>3, <2>4, <1>1, EnclosedFacts
  <2>6. PICK K \in Elements(func.subLoops[M]) : Y \in Enclosed[K]
    BY <2>4, <2>5, EnclosedFacts
  <2>7. K \in Loops /\ M < K
    BY <2>4, FunctionFacts DEF Elements
  <2>8. K \notin S
    BY <1>1, <2>2, <2>4, <2>7
  <2>9. K <= Y
    BY <2>6, <2>7, <2>8
  <2> QED
    BY <1>1, <2>3, <2>4, <2>5, <2>7, <2>9
<1>3. X \in Loops
  BY EnclosedFacts
<1> QED
  BY <1>2, <1>3

\* A loop of L that is not L is a sub loop of one of L.
LEMMA EnclosedAround ==
  ASSUME ValidFunction(func), NEW L \in Loops, NEW X \in Enclosed[L], X # L
  PROVE  \E Y \in Enclosed[L] : X \in Elements(func.subLoops[Y])
<1>1. PICK n \in Nat : Loops = 0 .. n
  BY FunctionFacts
<1> DEFINE P(M) == \A Z \in Enclosed[M] : Z # M => \E Y \in Enclosed[M] : Z \in Elements(func.subLoops[Y])
           S == {M \in Loops : ~P(M)}
<1>2. S = {}
  <2> SUFFICES ASSUME S # {} PROVE FALSE
    OBVIOUS
  <2>1. S \in SUBSET (0 .. n)
    BY <1>1
  <2>2. PICK M \in S : \A K \in S : K <= M
    <3> HIDE DEF S
    <3> QED
      BY <2>1, GreatestExists
  <2>3. PICK Z \in Enclosed[M] : Z # M /\ ~\E Y \in Enclosed[M] : Z \in Elements(func.subLoops[Y])
    OBVIOUS
  <2>4. M \in Loops
    OBVIOUS
  <2>5. M \in Enclosed[M] /\ Enclosed[M] = {M} \union UNION {Enclosed[K] : K \in Elements(func.subLoops[M])}
    BY <2>4, EnclosedFacts
  <2>6. PICK K \in Elements(func.subLoops[M]) : Z \in Enclosed[K]
    BY <2>3, <2>5
  <2>7. K \in Loops /\ M < K
    BY <2>4, FunctionFacts DEF Elements
  <2>8. K \notin S
    BY <1>1, <2>2, <2>4, <2>7
  <2>9. Z = K
    <3>1. Enclosed[K] \subseteq Enclosed[M]
      BY <2>5
    <3> QED
      BY <2>3, <2>6, <2>7, <2>8, <3>1
  <2> QED
    BY <2>3, <2>5, <2>9
<1> QED
  BY <1>2

\* Sub loops of one loop have no loop in common.
LEMMA SiblingsApart ==
  ASSUME ValidFunction(func), NEW L \in Loops, NEW i \in DOMAIN func.subLoops[L], NEW j \in DOMAIN func.subLoops[L],
         i # j
  PROVE  Enclosed[func.subLoops[L][i]] \cap Enclosed[func.subLoops[L][j]] = {}
<1> DEFINE a == func.subLoops[L][i]
           b == func.subLoops[L][j]
           S == Enclosed[a] \cap Enclosed[b]
<1>1. a \in Loops /\ b \in Loops /\ L < a /\ L < b /\ a # b /\ Loops \subseteq Nat
  BY FunctionFacts
<1> HIDE DEF a, b
<1>2. S = {}
  <2> SUFFICES ASSUME S # {} PROVE FALSE
    OBVIOUS
  <2>1. S \in SUBSET Nat
    BY <1>1, EnclosedFacts
  <2>2. PICK X \in S : \A Y \in S : X <= Y
    <3> HIDE DEF S
    <3> QED
      BY <2>1, LeastExists
  <2>3. X \in Enclosed[a] /\ X \in Enclosed[b] /\ X \in Loops
    BY <1>1, EnclosedFacts
  <2>4. CASE X # a /\ X # b
    <3>1. PICK Y \in Enclosed[a] : X \in Elements(func.subLoops[Y])
      BY <1>1, <2>3, <2>4, EnclosedAround
    <3>2. PICK Z \in Enclosed[b] : X \in Elements(func.subLoops[Z])
      BY <1>1, <2>3, <2>4, EnclosedAround
    <3>3. Y \in Loops /\ Z \in Loops
      BY <1>1, EnclosedFacts
    <3>4. Y = Z /\ Y < X
      <4>1. PICK k \in DOMAIN func.subLoops[Y] : func.subLoops[Y][k] = X
        BY <3>1 DEF Elements
      <4>2. PICK l \in DOMAIN func.subLoops[Z] : func.subLoops[Z][l] = X
        BY <3>2 DEF Elements
      <4>3. Y < X
        BY <3>3, <4>1, FunctionFacts
      <4>4. Y = Z
        BY <3>3, <4>1, <4>2, OneAround
      <4> QED
        BY <4>3, <4>4
    <3>5. Y \in S
      BY <3>4
    <3>6. X <= Y
      BY <2>2, <3>5
    <3> QED
      BY <1>1, <2>3, <3>3, <3>4, <3>6
  <2>5. ASSUME NEW u \in Loops, NEW v \in Loops, X = u, X \in Enclosed[v], L < v, u # v,
               \E k \in DOMAIN func.subLoops[L] : func.subLoops[L][k] = u
        PROVE  FALSE
    <3>1. PICK Y \in Enclosed[v] : X \in Elements(func.subLoops[Y])
      BY <2>5, EnclosedAround
    <3>2. Y \in Loops /\ v <= Y
      BY EnclosedAbove
    <3>3. Y = L
      <4>1. PICK k \in DOMAIN func.subLoops[Y] : func.subLoops[Y][k] = X
        BY <3>1 DEF Elements
      <4>2. PICK l \in DOMAIN func.subLoops[L] : func.subLoops[L][l] = X
        BY <2>5
      <4> QED
        BY <3>2, <4>1, <4>2, OneAround
    <3> QED
      BY <1>1, <2>5, <3>2, <3>3
  <2>6. CASE X = a
    BY <1>1, <2>3, <2>5, <2>6 DEF a
  <2>7. CASE X = b
    BY <1>1, <2>3, <2>5, <2>7 DEF b
  <2> QED
    BY <2>4, <2>6, <2>7
<1> QED
  BY <1>2 DEF a, b

\* A loop can be represented when its parts and its sub loops can.
LEMMA CleanUnfold ==
  ASSUME ValidFunction(func), NEW L \in Loops
  PROVE  Clean(L) <=> /\ func.subLoops[L] = <<>> => L \in func.affine
                      /\ \A i \in 1 .. Len(func.subLoops[L]) + 1 : func.direct[L][i]
                      /\ \A i \in 1 .. Len(func.subLoops[L]) : Clean(func.subLoops[L][i])
<1>1. Enclosed[L] = {L} \union UNION {Enclosed[M] : M \in Elements(func.subLoops[L])}
  BY EnclosedFacts
<1>2. Elements(func.subLoops[L]) = {func.subLoops[L][i] : i \in 1 .. Len(func.subLoops[L])}
  BY FunctionFacts DEF Elements
<1> DEFINE Local(M) == /\ func.subLoops[M] = <<>> => M \in func.affine
                       /\ \A i \in 1 .. Len(func.subLoops[M]) + 1 : func.direct[M][i]
<1>3. \A M : Clean(M) <=> \A X \in Enclosed[M] : Local(X)
  BY DEF Clean
<1> HIDE DEF Local
<1>4. Clean(L) <=> Local(L) /\ \A i \in 1 .. Len(func.subLoops[L]) : Clean(func.subLoops[L][i])
  BY <1>1, <1>2, <1>3
<1> QED
  BY <1>4 DEF Local

\* The top level loops that are left are some of those of the function, in order.
LEMMA TopFacts ==
  ASSUME ValidFunction(func)
  PROVE  /\ TopLoops \in Seq(Loops)
         /\ Len(TopLoops) <= Len(func.subLoops[0])
         /\ \E o \in Nat : \A j \in 1 .. Len(TopLoops) : j + o \in DOMAIN func.subLoops[0] /\ TopLoops[j] = func.subLoops[0][j + o]
<1> DEFINE L == func.subLoops[0]
           ends == {i \in DOMAIN L : L[i] \in func.left}
           last == CHOOSE i \in ends : \A j \in ends : j <= i
           starts == {i \in 1 .. last : L[i] \in func.entered}
           first == CHOOSE i \in starts : \A j \in starts : i <= j
<1>1. L \in Seq(Loops) /\ DOMAIN L = 1 .. Len(L) /\ Len(L) \in Nat
  BY FunctionFacts
<1>2. TopLoops = IF ends = {} THEN <<>> ELSE IF starts = {} THEN <<>> ELSE SubSeq(L, first, last)
  BY DEF TopLoops
<1> HIDE DEF L
<1>3. CASE ends = {} \/ starts = {}
  <2>1. TopLoops = <<>>
    BY <1>2, <1>3
  <2> QED
    BY <1>1, <2>1 DEF L
<1>4. CASE ends # {} /\ starts # {}
  <2>1. last \in ends
    <3>1. ends \in SUBSET (0 .. Len(L))
      BY <1>1
    <3> HIDE DEF ends
    <3>2. \E i \in ends : \A j \in ends : j <= i
      BY <1>1, <1>4, <3>1, GreatestExists
    <3> QED
      BY <3>2
  <2>2. last \in 1 .. Len(L)
    BY <1>1, <2>1
  <2> HIDE DEF last
  <2>3. first \in starts
    <3>1. starts \in SUBSET Nat
      BY <1>1, <2>2
    <3> HIDE DEF starts
    <3>2. \E i \in starts : \A j \in starts : i <= j
      BY <1>4, <3>1, LeastExists
    <3> QED
      BY <3>2
  <2>4. first \in 1 .. last
    BY <2>3
  <2>5. TopLoops = SubSeq(L, first, last)
    BY <1>2, <1>4
  <2> HIDE DEF first, ends, starts
  <2>6. TopLoops \in Seq(Loops) /\ Len(TopLoops) = last - first + 1
        /\ \A j \in 1 .. last - first + 1 : TopLoops[j] = L[j + first - 1]
    BY <1>1, <2>2, <2>4, <2>5
  <2>7. \A j \in 1 .. Len(TopLoops) : j + (first - 1) \in DOMAIN L /\ TopLoops[j] = L[j + (first - 1)]
    BY <1>1, <2>2, <2>4, <2>6
  <2>8. first - 1 \in Nat /\ Len(TopLoops) <= Len(L)
    BY <1>1, <2>2, <2>4, <2>6
  <2> QED
    BY <2>6, <2>7, <2>8 DEF L
<1> QED
  BY <1>3, <1>4

----------------------------------------------------------------------------
(* The invariant.                                                          *)

\* A block is in a gap of a loop.
Where == {w \in Loops \X (Nat \ {0}) \X (1 .. 2) : w[2] <= Len(func.subLoops[w[1]]) + 1}
Routes == Seq(Seq(Where))
TreeRecord == [loop : Loops, subLoops : Seq(Nat \ {0}), paths : Routes, loops : Int, parentLoop : Nat]
CallRecord ==
  [loop : Loops, subLoops : Seq(Loops), i : Nat \ {0}, H : Where, branches : Seq(Nat \ {0}), branchBlocks : Routes,
   anyFail : BOOLEAN, interiorDepth : Nat]

AllUnbroken == \A L \in Loops : Unbroken(L)

\* A tree is made after those it holds; NoPath leaves a path out at most once.
TreeOK(t) ==
  /\ \A i \in DOMAIN trees[t].subLoops : trees[t].subLoops[i] < t
  /\ Len(trees[t].paths) \in Len(trees[t].subLoops) .. Len(trees[t].subLoops) + 1
  /\ trees[t].parentLoop <= Len(trees)
  /\ AllUnbroken => Len(trees[t].paths) = Len(trees[t].subLoops) + 1
TreesOK ==
  /\ trees \in Seq(TreeRecord)
  /\ \A t \in DOMAIN trees : TreeOK(t)
  /\ loopForests \in Seq(DOMAIN trees)

\* Every tree is in one place: in a tree, in a forest, among the branches of a call,
\* or it was made by the call that has just returned.
Pending == running = "plant" /\ calls # <<>> /\ depth > 0
HeldByTree(t) == \E p \in DOMAIN trees : \E i \in DOMAIN trees[p].subLoops : trees[p].subLoops[i] = t
HeldByForest(t) == \E k \in DOMAIN loopForests : loopForests[k] = t
HeldByCall(t) == \E c \in DOMAIN calls : \E j \in DOMAIN calls[c].branches : calls[c].branches[j] = t

TreesOnce ==
  \A p, q \in DOMAIN trees : \A i \in DOMAIN trees[p].subLoops, j \in DOMAIN trees[q].subLoops :
    trees[p].subLoops[i] = trees[q].subLoops[j] => p = q /\ i = j
ForestsOnce == \A k, l \in DOMAIN loopForests : loopForests[k] = loopForests[l] => k = l
CallsOnce ==
  \A c, d \in DOMAIN calls : \A i \in DOMAIN calls[c].branches, j \in DOMAIN calls[d].branches :
    calls[c].branches[i] = calls[d].branches[j] => c = d /\ i = j
HeldOnce ==
  \A t \in Nat :
    /\ t \in DOMAIN trees <=> HeldByTree(t) \/ HeldByForest(t) \/ HeldByCall(t) \/ (Pending /\ t = Len(trees))
    /\ HeldByTree(t) => ~HeldByForest(t) /\ ~HeldByCall(t)
    /\ HeldByForest(t) => ~HeldByCall(t)
    /\ Pending /\ t = Len(trees) => ~HeldByTree(t) /\ ~HeldByForest(t) /\ ~HeldByCall(t)

\* A call has looked at the sub loops before its i-th: it planted those that can be
\* represented, and no other.
Fine(c, j) == Clean(c.subLoops[j]) /\ func.direct[c.loop][j]
CallOK(c) ==
  /\ c.i <= Len(c.subLoops) + 1
  /\ Len(c.branchBlocks) \in Len(c.branches) - 1 .. Len(c.branches)
  /\ AllUnbroken => Len(c.branchBlocks) = Len(c.branches)
  /\ ~c.anyFail => c.H = Spot(c.loop, c.i, 1) /\ Len(c.branches) = c.i - 1
  /\ c.loop # 0 => (c.anyFail <=> \E j \in 1 .. c.i - 1 : ~Fine(c, j))
\* One call is made by the one before it.
Made(c, d) ==
  /\ c.i <= Len(c.subLoops)
  /\ d.loop = c.subLoops[c.i]
  /\ d.subLoops = func.subLoops[d.loop]
Nested == \A m, k \in DOMAIN calls : m < k => calls[k].loop \in Enclosed[calls[m].subLoops[calls[m].i]]
CallsOK ==
  /\ Nested
  /\ calls \in Seq(CallRecord)
  /\ \A k \in DOMAIN calls : CallOK(calls[k])
  /\ calls # <<>> => calls[1].loop = 0 /\ calls[1].subLoops = TopLoops /\ TopLoops # <<>>
  /\ \A k \in 1 .. Len(calls) - 1 : Made(calls[k], calls[k + 1])
  /\ depth \in Nat \union {Running}
  /\ calls # <<>> /\ depth # Running => Pusher.i <= Len(Pusher.subLoops) /\ (depth > 0 <=> Clean(Pusher.subLoops[Pusher.i]))
  /\ calls # <<>> => running = "plant"
  /\ running = "plant" /\ calls = <<>> => depth # Running
  /\ running = "new" => calls = <<>> /\ depth = Running /\ trees = <<>> /\ loopForests = <<>>

\* What was looked at and can be represented has a tree, and only one.
Done(L) ==
  \/ \E k \in DOMAIN calls : \E j \in 1 .. calls[k].i - 1 : L \in Enclosed[calls[k].subLoops[j]]
  \/ calls # <<>> /\ depth # Running /\ L \in Enclosed[Pusher.subLoops[Pusher.i]]
  \/ running # "new" /\ calls = <<>> /\ \E T \in Elements(TopLoops) : L \in Enclosed[T]
PlantedOnce == \A t, u \in DOMAIN trees : trees[t].loop = trees[u].loop /\ trees[t].loop # 0 => t = u
PlantedDone == \A L \in RealLoops : TreesOf(L) # {} <=> Done(L) /\ Clean(L)

IsSequence(s) == Len(s) \in Nat /\ s = [k \in 1 .. Len(s) |-> s[k]]
ParseOK(e) ==
  /\ e = [tree |-> e.tree, i |-> e.i, blocks |-> e.blocks]
  /\ e.tree \in DOMAIN trees /\ e.i \in Nat \ {0}
ParsingOK ==
  /\ running \in {"new", "plant", "parse", "end", "undefined"}
  /\ cut = NoTree \/ cut \in DOMAIN trees
  /\ IsSequence(parsing)
  /\ \A k \in 1 .. Len(parsing) : ParseOK(parsing[k])
  /\ forest = <<>> \/ (forest \in (Nat \ {0}) \X Nat /\ forest[2] <= Len(loopForests))
  /\ (parsing # <<>> \/ cut # NoTree) => calls = <<>> /\ running \notin {"new", "plant"}

PlantInv ==
  /\ func \in Functions
  /\ TreesOK
  /\ TreesOnce /\ ForestsOnce /\ CallsOnce /\ HeldOnce
  /\ CallsOK
  /\ PlantedOnce /\ PlantedDone
  /\ ParsingOK

----------------------------------------------------------------------------
(* What is a function of func alone.                                       *)

LEMMA SameFunction ==
  ASSUME func' = func
  PROVE  /\ Enclosed' = Enclosed /\ TopLoops' = TopLoops /\ Loops' = Loops /\ RealLoops' = RealLoops
         /\ Where' = Where /\ Routes' = Routes /\ TreeRecord' = TreeRecord /\ CallRecord' = CallRecord
         /\ \A L : Clean(L)' <=> Clean(L)
         /\ AllUnbroken' <=> AllUnbroken
<1>1. Enclosed' = Enclosed
  BY DEF Enclosed, Elements
<1>2. TopLoops' = TopLoops
  BY DEF TopLoops
<1>3. Loops' = Loops /\ RealLoops' = RealLoops
  BY DEF Loops, RealLoops
<1>4. Where' = Where /\ Routes' = Routes
  BY <1>3 DEF Where, Routes
<1>5. TreeRecord' = TreeRecord /\ CallRecord' = CallRecord
  BY <1>3, <1>4 DEF TreeRecord, CallRecord
<1>6. \A L : Clean(L)' <=> Clean(L)
  BY <1>1 DEF Clean
<1>7. AllUnbroken' <=> AllUnbroken
  BY <1>3 DEF AllUnbroken, Unbroken
<1> QED
  BY <1>1, <1>2, <1>3, <1>4, <1>5, <1>6, <1>7

LEMMA SpotWhere ==
  ASSUME NEW L \in Loops, NEW i \in Nat \ {0}, i <= Len(func.subLoops[L]) + 1, NEW e \in 1 .. 2
  PROVE  Spot(L, i, e) \in Where
  BY DEF Spot, Where

LEMMA Valid ==
  ASSUME PlantInv
  PROVE  ValidFunction(func)
  BY TurboAssumption DEF PlantInv

LEMMA TreeFacts ==
  ASSUME TreesOK, NEW t \in DOMAIN trees
  PROVE  /\ DOMAIN trees = 1 .. Len(trees) /\ Len(trees) \in Nat /\ t \in Nat /\ t > 0
         /\ trees[t] \in TreeRecord
         /\ trees[t] = [loop |-> trees[t].loop, subLoops |-> trees[t].subLoops, paths |-> trees[t].paths,
                        loops |-> trees[t].loops, parentLoop |-> trees[t].parentLoop]
         /\ trees[t].loop \in Loops
         /\ trees[t].subLoops \in Seq(DOMAIN trees) /\ DOMAIN trees[t].subLoops = 1 .. Len(trees[t].subLoops)
         /\ Len(trees[t].subLoops) \in Nat
         /\ trees[t].paths \in Routes /\ Len(trees[t].paths) \in Nat /\ trees[t].loops \in Int
         /\ trees[t].parentLoop \in Nat /\ trees[t].parentLoop <= Len(trees)
<1>1. trees \in Seq(TreeRecord) /\ DOMAIN trees = 1 .. Len(trees) /\ Len(trees) \in Nat
  BY DEF TreesOK
<1>2. t \in Nat /\ t > 0 /\ t <= Len(trees) /\ trees[t] \in TreeRecord /\ TreeOK(t)
  BY <1>1 DEF TreesOK
<1>3. /\ trees[t] = [loop |-> trees[t].loop, subLoops |-> trees[t].subLoops, paths |-> trees[t].paths,
                     loops |-> trees[t].loops, parentLoop |-> trees[t].parentLoop]
      /\ trees[t].loop \in Loops /\ trees[t].subLoops \in Seq(Nat \ {0}) /\ trees[t].paths \in Routes
      /\ trees[t].loops \in Int /\ trees[t].parentLoop \in Nat
  BY <1>2 DEF TreeRecord
<1>4. DOMAIN trees[t].subLoops = 1 .. Len(trees[t].subLoops) /\ Len(trees[t].subLoops) \in Nat
  BY <1>3
<1>5. \A i \in DOMAIN trees[t].subLoops : trees[t].subLoops[i] \in Nat \ {0} /\ trees[t].subLoops[i] < t
  BY <1>2, <1>3 DEF TreeOK
<1>6. \A i \in DOMAIN trees[t].subLoops : trees[t].subLoops[i] \in DOMAIN trees
  BY <1>1, <1>2, <1>5
<1>7. trees[t].subLoops \in Seq(DOMAIN trees)
  BY <1>3, <1>4, <1>6
<1>8. Len(trees[t].paths) \in Nat
  BY <1>3 DEF Routes
<1> QED
  BY <1>1, <1>2, <1>3, <1>4, <1>7, <1>8 DEF TreeOK

LEMMA PusherFacts ==
  ASSUME CallsOK, calls # <<>>
  PROVE  /\ Len(calls) \in Nat /\ Len(calls) > 0 /\ DOMAIN calls = 1 .. Len(calls)
         /\ Pusher = calls[Len(calls)] /\ Pusher \in CallRecord /\ CallOK(Pusher)
         /\ Pusher = [loop |-> Pusher.loop, subLoops |-> Pusher.subLoops, i |-> Pusher.i, H |-> Pusher.H,
                      branches |-> Pusher.branches, branchBlocks |-> Pusher.branchBlocks, anyFail |-> Pusher.anyFail,
                      interiorDepth |-> Pusher.interiorDepth]
         /\ Pusher.loop \in Loops /\ Pusher.subLoops \in Seq(Loops) /\ Pusher.i \in Nat \ {0}
         /\ Pusher.H \in Where /\ Pusher.branches \in Seq(Nat \ {0}) /\ Pusher.branchBlocks \in Routes
         /\ Pusher.anyFail \in BOOLEAN /\ Pusher.interiorDepth \in Nat
         /\ Len(Pusher.subLoops) \in Nat /\ Len(Pusher.branches) \in Nat /\ Len(Pusher.branchBlocks) \in Nat
         /\ DOMAIN Pusher.branches = 1 .. Len(Pusher.branches) /\ DOMAIN Pusher.subLoops = 1 .. Len(Pusher.subLoops)
<1>1. calls \in Seq(CallRecord) /\ Len(calls) \in Nat /\ Len(calls) > 0 /\ DOMAIN calls = 1 .. Len(calls)
  BY DEF CallsOK
<1>2. Pusher = calls[Len(calls)] /\ Pusher \in CallRecord /\ CallOK(Pusher)
  BY <1>1 DEF Pusher, LastOf, CallsOK
<1> HIDE DEF Pusher
<1>3. /\ Pusher = [loop |-> Pusher.loop, subLoops |-> Pusher.subLoops, i |-> Pusher.i, H |-> Pusher.H,
                   branches |-> Pusher.branches, branchBlocks |-> Pusher.branchBlocks, anyFail |-> Pusher.anyFail,
                   interiorDepth |-> Pusher.interiorDepth]
      /\ Pusher.loop \in Loops /\ Pusher.subLoops \in Seq(Loops) /\ Pusher.i \in Nat \ {0}
      /\ Pusher.H \in Where /\ Pusher.branches \in Seq(Nat \ {0}) /\ Pusher.branchBlocks \in Routes
      /\ Pusher.anyFail \in BOOLEAN /\ Pusher.interiorDepth \in Nat
  BY <1>2 DEF CallRecord
<1>4. Len(Pusher.subLoops) \in Nat /\ Len(Pusher.branches) \in Nat /\ Len(Pusher.branchBlocks) \in Nat
  BY <1>3 DEF Routes
<1>5. DOMAIN Pusher.branches = 1 .. Len(Pusher.branches) /\ DOMAIN Pusher.subLoops = 1 .. Len(Pusher.subLoops)
  BY <1>3
<1> QED
  BY <1>1, <1>2, <1>3, <1>4, <1>5

----------------------------------------------------------------------------
(* What is defined along the loops around a loop.                          *)

\* A function of the numbers up to n can be defined from what it is for a smaller number.
Steps(n, V, a, p, step) ==
  /\ n \in Nat /\ a \in V
  /\ p \in [1 .. n -> Nat] /\ \A x \in 1 .. n : p[x] < x
  /\ step \in [1 .. n -> [V -> V]]
Along(f, n, V, a, p, step) == f \in [0 .. n -> V] /\ f[0] = a /\ \A x \in 1 .. n : f[x] = step[x][f[p[x]]]

LEMMA AlongExists ==
  ASSUME NEW n, NEW V, NEW a, NEW p, NEW step, Steps(n, V, a, p, step)
  PROVE  \E f : Along(f, n, V, a, p, step)
<1> USE DEF Steps, Along
<1> DEFINE Good(k, f) == f \in [0 .. k -> V] /\ f[0] = a /\ \A x \in 1 .. k : f[x] = step[x][f[p[x]]]
           S == {k \in 0 .. n : ~\E f : Good(k, f)}
<1>1. S = {}
  <2> SUFFICES ASSUME S # {} PROVE FALSE
    OBVIOUS
  <2>1. PICK k \in S : \A l \in S : k <= l
    <3>1. S \in SUBSET Nat
      OBVIOUS
    <3> HIDE DEF S
    <3> QED
      BY <3>1, LeastExists
  <2>2. k # 0
    <3>1. Good(0, [x \in 0 .. 0 |-> a])
      OBVIOUS
    <3> QED
      BY <3>1
  <2>3. k - 1 \in 0 .. n /\ k \in 1 .. n
    BY <2>2
  <2>4. PICK f : Good(k - 1, f)
    <3>1. k - 1 \notin S
      <4> HIDE DEF S
      <4> QED
        BY <2>1, <2>3
    <3> HIDE DEF Good
    <3> QED
      BY <2>3, <3>1, Zenon
  <2> DEFINE g == [x \in 0 .. k |-> IF x = k THEN step[k][f[p[k]]] ELSE f[x]]
  <2>5. p[k] \in 0 .. k - 1 /\ f[p[k]] \in V
    BY <2>3, <2>4
  <2>6. g \in [0 .. k -> V]
    <3>1. step[k][f[p[k]]] \in V
      BY <2>3, <2>5
    <3>2. \A x \in 0 .. k : x # k => f[x] \in V
      BY <2>3, <2>4
    <3> QED
      BY <3>1, <3>2
  <2>7. g[0] = a
    BY <2>2, <2>3, <2>4
  <2>8. \A x \in 1 .. k : g[x] = step[x][g[p[x]]]
    <3> SUFFICES ASSUME NEW x \in 1 .. k PROVE g[x] = step[x][g[p[x]]]
      OBVIOUS
    <3>1. p[x] \in 0 .. k /\ p[x] # k /\ g[p[x]] = f[p[x]]
      BY <2>3
    <3>2. CASE x = k
      BY <3>1, <3>2
    <3>3. CASE x # k
      BY <2>3, <2>4, <3>1, <3>3
    <3> QED
      BY <3>2, <3>3
  <2>9. Good(k, g)
    BY <2>6, <2>7, <2>8
  <2> HIDE DEF Good, g
  <2> QED
    BY <2>9
<1>2. \E f : Good(n, f)
  <2>1. n \in 0 .. n
    OBVIOUS
  <2> HIDE DEF Good
  <2> QED
    BY <1>1, <2>1, Zenon
<1> QED
  BY <1>2, Zenon

LEMMA AroundFacts ==
  ASSUME ValidFunction(func), NEW L \in Loops, L # 0
  PROVE  /\ Around(L) \in Loops /\ Around(L) < L
         /\ \E i \in DOMAIN func.subLoops[Around(L)] : func.subLoops[Around(L)][i] = L
<1>1. \E M \in DOMAIN func.subLoops : \E i \in DOMAIN func.subLoops[M] : func.subLoops[M][i] = L
  BY DEF ValidFunction, Loops
<1>2. Around(L) \in Loops /\ \E i \in DOMAIN func.subLoops[Around(L)] : func.subLoops[Around(L)][i] = L
  BY <1>1 DEF Around, Loops
<1> QED
  BY <1>2, FunctionFacts

LEMMA AroundIs ==
  ASSUME ValidFunction(func), NEW L \in Loops, NEW i \in DOMAIN func.subLoops[L]
  PROVE  Around(func.subLoops[L][i]) = L
<1>1. func.subLoops[L][i] \in Loops /\ func.subLoops[L][i] # 0
  BY FunctionFacts
<1>2. Around(func.subLoops[L][i]) \in Loops
  BY <1>1, AroundFacts
<1>3. PICK j \in DOMAIN func.subLoops[Around(func.subLoops[L][i])] :
        func.subLoops[Around(func.subLoops[L][i])][j] = func.subLoops[L][i]
  BY <1>1, AroundFacts
<1> QED
  BY <1>2, <1>3, OneAround

LEMMA AffineNestIs ==
  ASSUME ValidFunction(func)
  PROVE  /\ AffineNest \in [Loops -> Nat]
         /\ \A L \in Loops : AffineNest[L] = IF L # 0 /\ Around(L) \in func.affine THEN 1 + AffineNest[Around(L)] ELSE 1
<1>1. PICK n \in Loops : n \in Nat /\ Loops = 0 .. n
  BY FunctionFacts
<1> DEFINE p == [x \in 1 .. n |-> Around(x)]
           step == [x \in 1 .. n |-> [v \in Nat |-> IF Around(x) \in func.affine THEN 1 + v ELSE 1]]
           E(f) == f = [L \in Loops |-> IF L # 0 /\ Around(L) \in func.affine THEN 1 + f[Around(L)] ELSE 1]
<1>2. p \in [1 .. n -> Nat] /\ \A x \in 1 .. n : p[x] < x
  BY <1>1, AroundFacts
<1>3. step \in [1 .. n -> [Nat -> Nat]]
  OBVIOUS
<1>4. PICK f \in [0 .. n -> Nat] : f[0] = 1 /\ \A x \in 1 .. n : f[x] = step[x][f[p[x]]]
  <2> HIDE DEF p, step
  <2>1. Steps(n, Nat, 1, p, step)
    BY <1>1, <1>2, <1>3 DEF Steps
  <2>2. \E f : Along(f, n, Nat, 1, p, step)
    BY <2>1, AlongExists, Zenon
  <2> QED
    BY <2>2 DEF Along
<1>5. E(f)
  <2>1. \A x \in 1 .. n : f[x] = IF Around(x) \in func.affine THEN 1 + f[Around(x)] ELSE 1
    <3> SUFFICES ASSUME NEW x \in 1 .. n PROVE f[x] = IF Around(x) \in func.affine THEN 1 + f[Around(x)] ELSE 1
      OBVIOUS
    <3>1. f[p[x]] \in Nat /\ p[x] = Around(x)
      BY <1>1, <1>2
    <3>2. f[x] = step[x][f[p[x]]]
      BY <1>4
    <3> QED
      BY <3>1, <3>2
  <2>2. \A x \in Loops : f[x] = IF x # 0 /\ Around(x) \in func.affine THEN 1 + f[Around(x)] ELSE 1
    BY <1>1, <1>4, <2>1
  <2> QED
    BY <1>1, <2>2
<1>6. E(AffineNest)
  <2>1. AffineNest = CHOOSE g : E(g)
    BY DEF AffineNest, Loops
  <2> HIDE DEF E
  <2> QED
    BY <1>5, <2>1
<1> DEFINE g == AffineNest
<1>7. \A L \in Loops : g[L] = IF L # 0 /\ Around(L) \in func.affine THEN 1 + g[Around(L)] ELSE 1
  BY <1>6
<1>8. \A L \in Loops : g[L] \in Nat
  <2> DEFINE S == {L \in Loops : g[L] \notin Nat}
  <2>1. S = {}
    <3> SUFFICES ASSUME S # {} PROVE FALSE
      OBVIOUS
    <3>1. S \in SUBSET Nat
      BY <1>1
    <3>2. PICK L \in S : \A M \in S : L <= M
      <4> HIDE DEF S
      <4> QED
        BY <3>1, LeastExists
    <3>3. L # 0 /\ Around(L) \in func.affine
      BY <1>7
    <3>4. Around(L) \in Loops /\ Around(L) < L
      BY <3>3, AroundFacts
    <3>5. g[Around(L)] \in Nat
      BY <1>1, <3>2, <3>4
    <3> QED
      BY <1>7, <3>3, <3>5
  <2> QED
    BY <2>1
<1>9. DOMAIN g = Loops /\ g = [L \in Loops |-> g[L]]
  BY <1>6
<1> QED
  BY <1>7, <1>8, <1>9

----------------------------------------------------------------------------
(* Where the trees are, after a step.                                      *)

Among(s, t) == \E j \in DOMAIN s : s[j] = t
\* Held by a call that waits for the last one.
HeldAbove(t) == \E c \in 1 .. Len(calls) - 1 : Among(calls[c].branches, t)

LEMMA CallFacts ==
  ASSUME CallsOK, NEW k \in DOMAIN calls
  PROVE  /\ Len(calls) \in Nat /\ DOMAIN calls = 1 .. Len(calls) /\ k \in Nat
         /\ calls[k] \in CallRecord /\ CallOK(calls[k])
         /\ calls[k].loop \in Loops /\ calls[k].subLoops \in Seq(Loops) /\ calls[k].i \in Nat \ {0}
         /\ calls[k].branches \in Seq(Nat \ {0}) /\ DOMAIN calls[k].branches = 1 .. Len(calls[k].branches)
         /\ Len(calls[k].branches) \in Nat /\ Len(calls[k].subLoops) \in Nat
         /\ DOMAIN calls[k].subLoops = 1 .. Len(calls[k].subLoops)
<1>1. calls \in Seq(CallRecord) /\ Len(calls) \in Nat /\ DOMAIN calls = 1 .. Len(calls)
  BY DEF CallsOK
<1>2. calls[k] \in CallRecord /\ CallOK(calls[k])
  BY <1>1 DEF CallsOK
<1>3. /\ calls[k].loop \in Loops /\ calls[k].subLoops \in Seq(Loops) /\ calls[k].i \in Nat \ {0}
      /\ calls[k].branches \in Seq(Nat \ {0})
  BY <1>2 DEF CallRecord
<1> QED
  BY <1>1, <1>2, <1>3

LEMMA HeldByCallIs ==
  ASSUME CallsOK, calls # <<>>, NEW t
  PROVE  HeldByCall(t) <=> HeldAbove(t) \/ Among(Pusher.branches, t)
<1>1. Len(calls) \in Nat /\ Len(calls) > 0 /\ DOMAIN calls = 1 .. Len(calls) /\ Pusher = calls[Len(calls)]
  BY PusherFacts
<1>2. \A c : c \in DOMAIN calls <=> c \in 1 .. Len(calls) - 1 \/ c = Len(calls)
  BY <1>1
<1> HIDE DEF Pusher
<1>3. HeldByCall(t) <=> \E c \in DOMAIN calls : Among(calls[c].branches, t)
  BY DEF HeldByCall, Among
<1> HIDE DEF Among
<1> QED
  BY <1>1, <1>2, <1>3 DEF HeldAbove

LEMMA BranchFacts ==
  ASSUME PlantInv, calls # <<>>
  PROVE  /\ \A t : Among(Pusher.branches, t) => /\ t \in DOMAIN trees /\ t \in Nat /\ HeldByCall(t)
                                                /\ ~HeldAbove(t) /\ ~HeldByTree(t) /\ ~HeldByForest(t)
                                                /\ Pending => t # Len(trees)
         /\ \A i, j \in DOMAIN Pusher.branches : Pusher.branches[i] = Pusher.branches[j] => i = j
<1>1. CallsOK /\ CallsOnce /\ HeldOnce
  BY DEF PlantInv
<1>2. Len(calls) \in Nat /\ Len(calls) > 0 /\ DOMAIN calls = 1 .. Len(calls) /\ Pusher = calls[Len(calls)]
      /\ Pusher.branches \in Seq(Nat \ {0})
  BY <1>1, PusherFacts
<1> HIDE DEF Pusher
<1>3. ASSUME NEW t, Among(Pusher.branches, t)
      PROVE  /\ t \in DOMAIN trees /\ t \in Nat /\ HeldByCall(t)
             /\ ~HeldAbove(t) /\ ~HeldByTree(t) /\ ~HeldByForest(t) /\ (Pending => t # Len(trees))
  <2>1. PICK j \in DOMAIN Pusher.branches : Pusher.branches[j] = t
    BY <1>3 DEF Among
  <2>2. t \in Nat
    BY <1>2, <2>1
  <2>3. HeldByCall(t)
    BY <1>1, <1>2, <1>3, HeldByCallIs
  <2>4. t \in DOMAIN trees /\ ~HeldByTree(t) /\ ~HeldByForest(t) /\ (Pending => t # Len(trees))
    BY <1>1, <2>2, <2>3 DEF HeldOnce
  <2>5. ~HeldAbove(t)
    <3> SUFFICES ASSUME HeldAbove(t) PROVE FALSE
      OBVIOUS
    <3>1. PICK c \in 1 .. Len(calls) - 1 : \E i \in DOMAIN calls[c].branches : calls[c].branches[i] = t
      BY DEF HeldAbove, Among
    <3>2. c \in DOMAIN calls /\ Len(calls) \in DOMAIN calls /\ c # Len(calls)
      <4> DEFINE n == Len(calls)
      <4>1. n \in Nat /\ n > 0 /\ DOMAIN calls = 1 .. n /\ c \in 1 .. n - 1
        BY <1>2
      <4> HIDE DEF n
      <4>2. c \in DOMAIN calls /\ n \in DOMAIN calls /\ c # n
        BY <4>1
      <4> QED
        BY <4>2 DEF n
    <3> QED
      BY <1>1, <1>2, <2>1, <3>1, <3>2 DEF CallsOnce
  <2> QED
    BY <2>2, <2>3, <2>4, <2>5
<1>4. \A i, j \in DOMAIN Pusher.branches : Pusher.branches[i] = Pusher.branches[j] => i = j
  <2>1. Len(calls) \in DOMAIN calls
    BY <1>2
  <2> QED
    BY <1>1, <1>2, <2>1 DEF CallsOnce
<1> QED
  BY <1>3, <1>4

\* The branches of the last call become a tree.
LEMMA NewTree ==
  ASSUME PlantInv, calls # <<>>, NEW r, r.subLoops = Pusher.branches, trees' = Append(trees, r)
  PROVE  /\ DOMAIN trees' = 1 .. Len(trees) + 1 /\ Len(trees') = Len(trees) + 1 /\ Len(trees) \in Nat
         /\ DOMAIN trees = 1 .. Len(trees) /\ trees'[Len(trees) + 1] = r /\ \A t \in DOMAIN trees : trees'[t] = trees[t]
         /\ TreesOnce'
         /\ \A t : HeldByTree(t)' <=> HeldByTree(t) \/ Among(Pusher.branches, t)
<1>1. trees \in Seq(TreeRecord) /\ TreesOnce
  BY DEF PlantInv, TreesOK
<1> DEFINE n == Len(trees)
<1>2. n \in Nat /\ DOMAIN trees = 1 .. n
  BY <1>1
<1>3. DOMAIN trees' = 1 .. n + 1 /\ Len(trees') = n + 1 /\ trees'[n + 1] = r /\ \A t \in 1 .. n : trees'[t] = trees[t]
  BY <1>1
<1> HIDE DEF n
<1>4. \A t : t \in DOMAIN trees' <=> t \in DOMAIN trees \/ t = n + 1
  BY <1>2, <1>3
<1>5. n + 1 \notin DOMAIN trees
  BY <1>2
<1> DEFINE B == Pusher.branches
<1> HIDE DEF B
<1>6. \A t : HeldByTree(t)' <=> HeldByTree(t) \/ Among(B, t)
  BY <1>2, <1>3, <1>4, <1>5 DEF HeldByTree, Among, B
<1>7. \A t : Among(B, t) => ~HeldByTree(t)
  BY BranchFacts DEF B
<1>8. \A i, j \in DOMAIN B : B[i] = B[j] => i = j
  BY BranchFacts DEF B
<1>9. TreesOnce'
  <2> SUFFICES ASSUME NEW p \in DOMAIN trees', NEW q \in DOMAIN trees',
                      NEW i \in DOMAIN trees'[p].subLoops, NEW j \in DOMAIN trees'[q].subLoops,
                      trees'[p].subLoops[i] = trees'[q].subLoops[j]
               PROVE  p = q /\ i = j
    BY DEF TreesOnce
  <2>1. CASE p \in DOMAIN trees /\ q \in DOMAIN trees
    BY <1>1, <1>2, <1>3, <2>1 DEF TreesOnce
  <2>2. CASE p = n + 1 /\ q = n + 1
    BY <1>3, <1>8, <2>2 DEF B
  <2>3. CASE p \in DOMAIN trees /\ q = n + 1
    <3>1. HeldByTree(trees'[p].subLoops[i])
      BY <1>2, <1>3, <2>3 DEF HeldByTree
    <3>2. Among(B, trees'[q].subLoops[j])
      BY <1>3, <2>3 DEF Among, B
    <3> QED
      BY <1>7, <3>1, <3>2
  <2>4. CASE q \in DOMAIN trees /\ p = n + 1
    <3>1. HeldByTree(trees'[q].subLoops[j])
      BY <1>2, <1>3, <2>4 DEF HeldByTree
    <3>2. Among(B, trees'[p].subLoops[i])
      BY <1>3, <2>4 DEF Among, B
    <3> QED
      BY <1>7, <3>1, <3>2
  <2> QED
    BY <1>4, <2>1, <2>2, <2>3, <2>4
<1> QED
  BY <1>2, <1>3, <1>6, <1>9 DEF B, n

LEMMA NewForest ==
  ASSUME PlantInv, NEW t0 \in Nat, ~HeldByForest(t0), loopForests' = Append(loopForests, t0)
  PROVE  /\ ForestsOnce'
         /\ \A t : HeldByForest(t)' <=> HeldByForest(t) \/ t = t0
         /\ \A D : DOMAIN trees \subseteq D /\ t0 \in D => loopForests' \in Seq(D)
<1>1. loopForests \in Seq(DOMAIN trees) /\ ForestsOnce
  BY DEF PlantInv, TreesOK
<1> DEFINE n == Len(loopForests)
<1>2. n \in Nat /\ DOMAIN loopForests = 1 .. n
  BY <1>1
<1>3. DOMAIN loopForests' = 1 .. n + 1 /\ Len(loopForests') = n + 1 /\ loopForests'[n + 1] = t0
      /\ \A k \in 1 .. n : loopForests'[k] = loopForests[k]
  BY <1>1
<1> HIDE DEF n
<1>4. \A k : k \in DOMAIN loopForests' <=> k \in DOMAIN loopForests \/ k = n + 1
  BY <1>2, <1>3
<1>5. \A t : HeldByForest(t)' <=> HeldByForest(t) \/ t = t0
  BY <1>2, <1>3, <1>4 DEF HeldByForest
<1>6. ForestsOnce'
  BY <1>1, <1>2, <1>3, <1>4 DEF ForestsOnce, HeldByForest
<1>7. ASSUME NEW D, DOMAIN trees \subseteq D, t0 \in D PROVE loopForests' \in Seq(D)
  BY <1>1, <1>7
<1> QED
  BY <1>5, <1>6, <1>7

\* The last call returns.
LEMMA Popped ==
  ASSUME PlantInv, calls # <<>>, calls' = Butlast(calls)
  PROVE  /\ Len(calls) \in Nat /\ DOMAIN calls' = 1 .. Len(calls) - 1 /\ Len(calls') = Len(calls) - 1
         /\ \A k \in 1 .. Len(calls) - 1 : calls'[k] = calls[k]
         /\ CallsOnce'
         /\ \A t : HeldByCall(t)' <=> HeldAbove(t)
<1>1. CallsOK /\ CallsOnce
  BY DEF PlantInv
<1>2. calls \in Seq(CallRecord) /\ Len(calls) \in Nat /\ Len(calls) > 0 /\ DOMAIN calls = 1 .. Len(calls)
  BY <1>1, PusherFacts DEF CallsOK
<1>3. DOMAIN calls' = 1 .. Len(calls) - 1 /\ Len(calls') = Len(calls) - 1 /\ \A k \in 1 .. Len(calls) - 1 : calls'[k] = calls[k]
  BY <1>2 DEF Butlast
<1>4. \A k \in 1 .. Len(calls) - 1 : k \in DOMAIN calls
  BY <1>2
<1>5. CallsOnce'
  BY <1>1, <1>3, <1>4 DEF CallsOnce
<1>6. \A t : HeldByCall(t)' <=> HeldAbove(t)
  BY <1>3 DEF HeldByCall, HeldAbove, Among
<1> QED
  BY <1>2, <1>3, <1>5, <1>6

\* The last call goes on as c.
LEMMA WentOn ==
  ASSUME PlantInv, calls # <<>>, NEW c, calls' = Calling(c), c.branches \in Seq(Nat),
         \A i, j \in DOMAIN c.branches : c.branches[i] = c.branches[j] => i = j,
         \A i \in DOMAIN c.branches : ~HeldAbove(c.branches[i])
  PROVE  /\ Len(calls) \in Nat /\ Len(calls) > 0 /\ DOMAIN calls' = DOMAIN calls /\ Len(calls') = Len(calls)
         /\ \A k \in 1 .. Len(calls) - 1 : calls'[k] = calls[k]
         /\ calls'[Len(calls)] = c
         /\ CallsOnce'
         /\ \A t : HeldByCall(t)' <=> HeldAbove(t) \/ Among(c.branches, t)
<1>1. CallsOK /\ CallsOnce
  BY DEF PlantInv
<1> DEFINE n == Len(calls)
<1>2. calls \in Seq(CallRecord) /\ n \in Nat /\ n > 0 /\ DOMAIN calls = 1 .. n
  BY <1>1, PusherFacts DEF CallsOK
<1>3. DOMAIN calls' = 1 .. n /\ Len(calls') = n /\ calls'[n] = c /\ \A k \in 1 .. n - 1 : calls'[k] = calls[k]
  <2>1. Butlast(calls) \in Seq(CallRecord) /\ Len(Butlast(calls)) = n - 1 /\ \A k \in 1 .. n - 1 : Butlast(calls)[k] = calls[k]
    BY <1>2 DEF Butlast
  <2> DEFINE b == Butlast(calls)
  <2>2. calls' = Append(b, c)
    BY DEF Calling
  <2>3. b \in Seq(CallRecord) /\ Len(b) = n - 1 /\ \A k \in 1 .. n - 1 : b[k] = calls[k]
    BY <2>1
  <2> HIDE DEF b, n
  <2>4. DOMAIN calls' = 1 .. n /\ Len(calls') = n
    BY <1>2, <2>2, <2>3
  <2>5. calls'[n] = c
    BY <1>2, <2>2, <2>3
  <2>6. \A k \in 1 .. n - 1 : calls'[k] = calls[k]
    BY <1>2, <2>2, <2>3
  <2> QED
    BY <2>4, <2>5, <2>6
<1> HIDE DEF n
<1>4. \A k : k \in 1 .. n <=> k \in 1 .. n - 1 \/ k = n
  BY <1>2
<1>5. \A t : HeldByCall(t)' <=> HeldAbove(t) \/ Among(c.branches, t)
  <2>1. \A t : HeldByCall(t)' <=> \E k \in 1 .. n : Among(calls'[k].branches, t)
    BY <1>3 DEF HeldByCall, Among
  <2>2. \A t : HeldAbove(t) <=> \E k \in 1 .. n - 1 : Among(calls[k].branches, t)
    BY DEF HeldAbove, n
  <2> HIDE DEF Among
  <2> QED
    BY <1>3, <1>4, <2>1, <2>2
<1>6. CallsOnce'
  <2> SUFFICES ASSUME NEW k \in 1 .. n, NEW l \in 1 .. n,
                      NEW i \in DOMAIN calls'[k].branches, NEW j \in DOMAIN calls'[l].branches,
                      calls'[k].branches[i] = calls'[l].branches[j]
               PROVE  k = l /\ i = j
    BY <1>3 DEF CallsOnce
  <2>1. CASE k \in 1 .. n - 1 /\ l \in 1 .. n - 1
    BY <1>1, <1>2, <1>3, <1>4, <2>1 DEF CallsOnce
  <2>2. CASE k = n /\ l = n
    BY <1>3, <2>2
  <2>3. CASE k \in 1 .. n - 1 /\ l = n
    <3>1. HeldAbove(calls'[k].branches[i])
      BY <1>3, <2>3 DEF HeldAbove, Among, n
    <3> QED
      BY <1>3, <2>3, <3>1
  <2>4. CASE l \in 1 .. n - 1 /\ k = n
    <3>1. HeldAbove(calls'[l].branches[j])
      BY <1>3, <2>4 DEF HeldAbove, Among, n
    <3> QED
      BY <1>3, <2>4, <3>1
  <2> QED
    BY <1>4, <2>1, <2>2, <2>3, <2>4
<1> QED
  BY <1>2, <1>3, <1>5, <1>6 DEF n

----------------------------------------------------------------------------
(* The calls of pushLoopTree.                                              *)

LEMMA SameCall ==
  ASSUME func' = func
  PROVE  \A c : CallOK(c)' <=> CallOK(c)
<1>1. AllUnbroken' <=> AllUnbroken
  BY SameFunction
<1>2. \A L : Clean(L)' <=> Clean(L)
  BY SameFunction
<1>3. \A c, j : Fine(c, j)' <=> Fine(c, j)
  BY <1>2 DEF Fine
<1> QED
  BY <1>1, <1>3 DEF CallOK

\* The sub loops of a call are those of its loop, or some of them for the first call.
LEMMA CallSubLoops ==
  ASSUME PlantInv, NEW k \in DOMAIN calls
  PROVE  /\ k # 1 <=> calls[k].loop # 0
         /\ k # 1 => calls[k].subLoops = func.subLoops[calls[k].loop]
         /\ Len(calls[k].subLoops) <= Len(func.subLoops[calls[k].loop])
         /\ \E o \in Nat : \A j \in 1 .. Len(calls[k].subLoops) :
              /\ j + o \in DOMAIN func.subLoops[calls[k].loop]
              /\ calls[k].subLoops[j] = func.subLoops[calls[k].loop][j + o]
<1>1. ValidFunction(func) /\ CallsOK
  BY Valid DEF PlantInv
<1>2. CASE k = 1
  <2>1. calls # <<>>
    BY <1>1, <1>2 DEF CallsOK
  <2>2. calls[k].loop = 0 /\ calls[k].subLoops = TopLoops
    BY <1>1, <1>2, <2>1 DEF CallsOK
  <2> QED
    BY <1>1, <1>2, <2>2, TopFacts
<1>3. CASE k # 1
  <2>1. k - 1 \in DOMAIN calls /\ k - 1 \in 1 .. Len(calls) - 1 /\ k - 1 + 1 = k /\ k \in Nat
    BY <1>1, <1>3, CallFacts
  <2>2. Made(calls[k - 1], calls[k - 1 + 1])
    BY <1>1, <2>1 DEF CallsOK
  <2>3. calls[k].subLoops = func.subLoops[calls[k].loop]
    BY <2>1, <2>2 DEF Made
  <2>4. calls[k].loop # 0
    <3> DEFINE m == k - 1
    <3>1. m \in DOMAIN calls /\ m < k
      BY <2>1
    <3>2. calls[m].i <= Len(calls[m].subLoops) /\ calls[k].loop = calls[m].subLoops[calls[m].i]
      BY <2>1, <2>2 DEF Made
    <3> HIDE DEF m
    <3>3. calls[m].i \in 1 .. Len(calls[m].subLoops)
      BY <1>1, <3>1, <3>2, CallFacts
    <3>4. CASE m = 1
      <4>1. calls[m].subLoops = TopLoops
        BY <1>1, <3>1, <3>4 DEF CallsOK
      <4>2. PICK o \in Nat : calls[m].i + o \in DOMAIN func.subLoops[0] /\ TopLoops[calls[m].i] = func.subLoops[0][calls[m].i + o]
        BY <1>1, <3>3, <4>1, TopFacts
      <4>3. 0 \in Loops
        BY <1>1, FunctionFacts
      <4> QED
        BY <1>1, <3>2, <4>1, <4>2, <4>3, FunctionFacts
    <3>5. CASE m # 1
      <4> DEFINE l == m - 1
      <4>1. l \in 1 .. Len(calls) - 1 /\ l + 1 = m
        BY <1>1, <3>1, <3>5, <2>1, CallFacts
      <4> HIDE DEF l
      <4>2. Made(calls[l], calls[l + 1])
        BY <1>1, <4>1 DEF CallsOK
      <4>3. calls[m].subLoops = func.subLoops[calls[m].loop] /\ calls[m].loop \in Loops
        BY <1>1, <3>1, <4>1, <4>2, CallFacts DEF Made
      <4>4. calls[m].i \in DOMAIN func.subLoops[calls[m].loop]
        BY <1>1, <3>1, <3>3, <4>3, CallFacts
      <4> QED
        BY <1>1, <3>2, <4>3, <4>4, FunctionFacts
    <3> QED
      BY <3>4, <3>5
  <2>5. calls[k].loop \in Loops /\ 0 \in Nat
    BY <1>1, CallFacts
  <2>6. DOMAIN func.subLoops[calls[k].loop] = 1 .. Len(func.subLoops[calls[k].loop]) /\ Len(func.subLoops[calls[k].loop]) \in Nat
    BY <1>1, <2>5, FunctionFacts
  <2>7. \A j \in 1 .. Len(calls[k].subLoops) :
          j + 0 \in DOMAIN func.subLoops[calls[k].loop] /\ calls[k].subLoops[j] = func.subLoops[calls[k].loop][j + 0]
    BY <2>3, <2>6
  <2> QED
    BY <1>3, <2>3, <2>4, <2>5, <2>6, <2>7
<1> QED
  BY <1>2, <1>3

LEMMA CallLoops ==
  ASSUME PlantInv, NEW k \in DOMAIN calls, NEW j \in DOMAIN calls[k].subLoops
  PROVE  /\ calls[k].subLoops[j] \in Loops /\ calls[k].loop < calls[k].subLoops[j] /\ calls[k].subLoops[j] # 0
         /\ \A i \in DOMAIN calls[k].subLoops :
              i # j => Enclosed[calls[k].subLoops[i]] \cap Enclosed[calls[k].subLoops[j]] = {}
<1>1. ValidFunction(func) /\ CallsOK
  BY Valid DEF PlantInv
<1> DEFINE L == calls[k].loop
           s == calls[k].subLoops
<1>2. L \in Loops /\ DOMAIN s = 1 .. Len(s) /\ Len(s) \in Nat
  BY <1>1, CallFacts
<1>3. PICK o \in Nat : \A i \in 1 .. Len(s) : i + o \in DOMAIN func.subLoops[L] /\ s[i] = func.subLoops[L][i + o]
  BY CallSubLoops
<1> HIDE DEF L, s
<1>4. s[j] \in Loops /\ L < s[j] /\ s[j] # 0
  <2>1. j \in 1 .. Len(s)
    BY <1>2 DEF s
  <2>2. j + o \in DOMAIN func.subLoops[L] /\ s[j] = func.subLoops[L][j + o]
    BY <1>3, <2>1
  <2> QED
    BY <1>1, <1>2, <2>2, FunctionFacts
<1>5. ASSUME NEW i \in DOMAIN s, i # j PROVE Enclosed[s[i]] \cap Enclosed[s[j]] = {}
  <2>1. j \in 1 .. Len(s) /\ i \in 1 .. Len(s)
    BY <1>2 DEF s
  <2>2. j + o \in DOMAIN func.subLoops[L] /\ s[j] = func.subLoops[L][j + o]
        /\ i + o \in DOMAIN func.subLoops[L] /\ s[i] = func.subLoops[L][i + o] /\ i + o # j + o
    BY <1>2, <1>3, <1>5, <2>1
  <2> QED
    BY <1>1, <1>2, <2>2, SiblingsApart
<1> QED
  BY <1>4, <1>5 DEF L, s

\* A loop of the last call is not done.
LEMMA NotYetDone ==
  ASSUME PlantInv, calls # <<>>, depth = Running
  PROVE  ~Done(Pusher.loop)
<1>1. ValidFunction(func) /\ CallsOK
  BY Valid DEF PlantInv
<1> DEFINE n == Len(calls)
           X == Pusher.loop
<1>2. n \in Nat /\ n > 0 /\ DOMAIN calls = 1 .. n /\ X = calls[n].loop /\ X \in Loops /\ Loops \subseteq Nat /\ n \in DOMAIN calls
  BY <1>1, PusherFacts, FunctionFacts
<1> HIDE DEF n, X
<1> SUFFICES ASSUME Done(X) PROVE FALSE
  BY DEF X
<1>3. PICK k \in DOMAIN calls : \E j \in 1 .. calls[k].i - 1 : X \in Enclosed[calls[k].subLoops[j]]
  BY DEF Done
<1>4. PICK j \in 1 .. calls[k].i - 1 : X \in Enclosed[calls[k].subLoops[j]]
  BY <1>3
<1>5. calls[k].i \in Nat \ {0} /\ calls[k].i <= Len(calls[k].subLoops) + 1 /\ DOMAIN calls[k].subLoops = 1 .. Len(calls[k].subLoops)
      /\ Len(calls[k].subLoops) \in Nat
  BY <1>1, CallFacts DEF CallOK
<1>6. j \in DOMAIN calls[k].subLoops
  BY <1>5
<1>7. CASE k = n
  <2> DEFINE M == calls[k].subLoops[j]
  <2>1. M \in Loops /\ X < M
    BY <1>2, <1>6, <1>7, CallLoops
  <2>2. M <= X
    BY <1>1, <1>4, <2>1, EnclosedAbove
  <2>3. M \in Nat /\ X \in Nat
    BY <1>2, <2>1
  <2> HIDE DEF M
  <2> QED
    BY <2>1, <2>2, <2>3
<1>8. CASE k # n
  <2>1. k < n /\ k \in 1 .. n - 1
    BY <1>2, <1>8
  <2>2. X \in Enclosed[calls[k].subLoops[calls[k].i]]
    BY <1>1, <1>2, <2>1 DEF CallsOK, Nested
  <2>3. Made(calls[k], calls[k + 1])
    BY <1>1, <2>1 DEF CallsOK, n
  <2>4. calls[k].i \in DOMAIN calls[k].subLoops /\ calls[k].i # j
    BY <1>5, <2>3 DEF Made
  <2>5. Enclosed[calls[k].subLoops[j]] \cap Enclosed[calls[k].subLoops[calls[k].i]] = {}
    BY <1>6, <2>4, CallLoops
  <2> QED
    BY <1>4, <2>2, <2>5
<1> QED
  BY <1>7, <1>8

\* The last call has looked at all its sub loops and returns.
LEMMA ReturnDone ==
  ASSUME PlantInv, calls # <<>>, depth = Running, Pusher.i > Len(Pusher.subLoops),
         func' = func, running' = running, calls' = Butlast(calls), depth' \in Nat,
         NEW L \in RealLoops
  PROVE  Done(L)' <=> Done(L) \/ L = Pusher.loop
<1>1. ValidFunction(func) /\ CallsOK /\ L # 0
  BY Valid DEF PlantInv, RealLoops
<1> DEFINE n == Len(calls)
           X == Pusher.loop
<1>2. /\ n \in Nat /\ n > 0 /\ DOMAIN calls = 1 .. n /\ X = calls[n].loop /\ X \in Loops /\ Loops \subseteq Nat /\ n \in DOMAIN calls
      /\ calls[n].i > Len(calls[n].subLoops) /\ calls[n].i <= Len(calls[n].subLoops) + 1 /\ calls[n].i \in Nat
      /\ DOMAIN calls[n].subLoops = 1 .. Len(calls[n].subLoops) /\ Len(calls[n].subLoops) \in Nat
  BY <1>1, PusherFacts, FunctionFacts DEF CallOK
<1>3. DOMAIN calls' = 1 .. n - 1 /\ Len(calls') = n - 1 /\ \A k \in 1 .. n - 1 : calls'[k] = calls[k]
  BY Popped
<1>4. Enclosed' = Enclosed /\ TopLoops' = TopLoops
  BY SameFunction
<1>5. calls[n].i - 1 = Len(calls[n].subLoops)
  BY <1>2
<1>6. running = "plant"
  BY <1>1 DEF CallsOK
<1> DEFINE Before(k) == \E j \in 1 .. calls[k].i - 1 : L \in Enclosed[calls[k].subLoops[j]]
<1>7. Done(L) <=> (\E k \in 1 .. n : Before(k))
  BY <1>2 DEF Done
<1>8. Pusher' = calls'[n - 1] /\ (calls' # <<>> <=> n > 1)
  BY <1>2, <1>3 DEF Pusher, LastOf
<1>9. Before(n) <=> \E T \in Elements(calls[n].subLoops) : L \in Enclosed[T]
  BY <1>2, <1>5 DEF Elements
<1> HIDE DEF n
<1>10. CASE n = 1
  <2>1. calls[n].subLoops = TopLoops /\ X = 0
    BY <1>1, <1>2, <1>10 DEF CallsOK
  <2>2. Done(L) <=> Before(1)
    <3>1. \A k : k \in 1 .. n <=> k = 1
      BY <1>10
    <3> HIDE DEF Before
    <3> QED
      BY <1>7, <3>1
  <2>3. Done(L)' <=> \E T \in Elements(TopLoops) : L \in Enclosed[T]
    <3>1. Elements(TopLoops)' = Elements(TopLoops)
      BY <1>4 DEF Elements
    <3>2. calls' = <<>> /\ DOMAIN calls' = {}
      BY <1>3, <1>8, <1>10
    <3> QED
      BY <1>4, <1>6, <3>1, <3>2 DEF Done
  <2> QED
    BY <1>1, <1>9, <1>10, <2>1, <2>2, <2>3
<1>11. CASE n # 1
  <2>1. n - 1 \in 1 .. n - 1 /\ n > 1 /\ n - 1 \in 1 .. Len(calls) - 1 /\ n - 1 + 1 = n
    BY <1>2, <1>11 DEF n
  <2>2. Made(calls[n - 1], calls[n - 1 + 1])
    BY <1>1, <2>1 DEF CallsOK
  <2>3. calls[n].subLoops = func.subLoops[X] /\ X = calls[n - 1].subLoops[calls[n - 1].i]
    BY <1>2, <2>1, <2>2 DEF Made
  <2>4. Pusher' = calls[n - 1]
    BY <1>3, <1>8, <2>1
  <2>5. Enclosed[X] = {X} \union UNION {Enclosed[M] : M \in Elements(func.subLoops[X])}
    BY <1>1, <1>2, EnclosedFacts
  <2>6. Done(L)' <=> (\E k \in 1 .. n - 1 : Before(k)) \/ L \in Enclosed[X]
    <3>1. depth' # Running
      BY DEF Running
    <3>2. (\E k \in DOMAIN calls' : \E j \in 1 .. calls'[k].i - 1 : L \in Enclosed[calls'[k].subLoops[j]]) <=> \E k \in 1 .. n - 1 : Before(k)
      BY <1>3
    <3>3. calls' # <<>>
      BY <1>8, <2>1
    <3> HIDE DEF Before
    <3> QED
      BY <1>4, <2>3, <2>4, <3>1, <3>2, <3>3 DEF Done
  <2>7. L \in Enclosed[X] <=> L = X \/ Before(n)
    <3> HIDE DEF Before
    <3> QED
      BY <1>9, <2>3, <2>5
  <2>8. \A k : k \in 1 .. n <=> k \in 1 .. n - 1 \/ k = n
    BY <1>2
  <2> HIDE DEF Before
  <2> QED
    BY <1>7, <2>6, <2>7, <2>8
<1> QED
  BY <1>10, <1>11

\* The last call goes on with its next sub loop.
LEMMA GoesOnDone ==
  ASSUME PlantInv, calls # <<>>, depth # Running, func' = func, running' = running, depth' = Running,
         NEW c, c.i = Pusher.i + 1, c.subLoops = Pusher.subLoops, calls' # <<>>,
         DOMAIN calls' = DOMAIN calls, calls'[Len(calls)] = c, \A k \in 1 .. Len(calls) - 1 : calls'[k] = calls[k],
         NEW L \in RealLoops
  PROVE  Done(L)' <=> Done(L)
<1>1. ValidFunction(func) /\ CallsOK
  BY Valid DEF PlantInv
<1> DEFINE n == Len(calls)
<1>2. /\ n \in Nat /\ n > 0 /\ DOMAIN calls = 1 .. n /\ Pusher = calls[n] /\ Pusher.i \in Nat \ {0}
  BY <1>1, PusherFacts
<1>3. Enclosed' = Enclosed
  BY SameFunction
<1> DEFINE Before(k) == \E j \in 1 .. calls[k].i - 1 : L \in Enclosed[calls[k].subLoops[j]]
           After(k) == \E j \in 1 .. calls'[k].i - 1 : L \in Enclosed[calls'[k].subLoops[j]]
<1>4. Done(L) <=> (\E k \in 1 .. n : Before(k)) \/ L \in Enclosed[Pusher.subLoops[Pusher.i]]
  BY <1>2 DEF Done
<1>5. Done(L)' <=> (\E k \in 1 .. n : After(k))
  BY <1>2, <1>3 DEF Done
<1> HIDE DEF n
<1>6. \A k \in 1 .. n - 1 : After(k) <=> Before(k)
  BY DEF n
<1>7. After(n) <=> Before(n) \/ L \in Enclosed[Pusher.subLoops[Pusher.i]]
  <2> DEFINE i == Pusher.i
             s == Pusher.subLoops
  <2>1. i \in Nat \ {0} /\ calls'[n].i = i + 1 /\ calls'[n].subLoops = s /\ calls[n].i = i /\ calls[n].subLoops = s
    BY <1>2 DEF n
  <2> HIDE DEF i, s
  <2>2. \A j : j \in 1 .. i + 1 - 1 <=> j \in 1 .. i - 1 \/ j = i
    BY <2>1
  <2>3. After(n) <=> \E j \in 1 .. i + 1 - 1 : L \in Enclosed[s[j]]
    BY <2>1
  <2>4. Before(n) <=> \E j \in 1 .. i - 1 : L \in Enclosed[s[j]]
    BY <2>1
  <2>5. After(n) <=> Before(n) \/ L \in Enclosed[s[i]]
    BY <2>2, <2>3, <2>4
  <2> QED
    BY <2>5 DEF i, s
<1>8. \A k : k \in 1 .. n <=> k \in 1 .. n - 1 \/ k = n
  BY <1>2
<1> HIDE DEF Before, After
<1> QED
  BY <1>4, <1>5, <1>6, <1>7, <1>8

LEMMA ReturnCalls ==
  ASSUME PlantInv, calls # <<>>, depth = Running, func' = func, running' = running, calls' = Butlast(calls), depth' \in Nat,
         Pusher.loop # 0 => (depth' > 0 <=> Clean(Pusher.loop))
  PROVE  CallsOK'
<1>1. ValidFunction(func) /\ CallsOK
  BY Valid DEF PlantInv
<1> DEFINE n == Len(calls)
           X == Pusher.loop
<1>2. /\ n \in Nat /\ n > 0 /\ DOMAIN calls = 1 .. n /\ X = calls[n].loop /\ X \in Loops /\ n \in DOMAIN calls
      /\ calls \in Seq(CallRecord)
  BY <1>1, PusherFacts DEF CallsOK
<1>3. DOMAIN calls' = 1 .. n - 1 /\ Len(calls') = n - 1 /\ \A k \in 1 .. n - 1 : calls'[k] = calls[k]
  BY Popped
<1>4. /\ Enclosed' = Enclosed /\ TopLoops' = TopLoops /\ CallRecord' = CallRecord
      /\ \A L : Clean(L)' <=> Clean(L)
      /\ \A c : CallOK(c)' <=> CallOK(c)
  BY SameFunction, SameCall
<1>5. running = "plant"
  BY <1>1 DEF CallsOK
<1>6. (calls' # <<>> <=> n > 1) /\ (calls' # <<>> => Pusher' = calls[n - 1])
  BY <1>2, <1>3 DEF Pusher, LastOf
<1>7. calls' \in Seq(CallRecord)
  BY <1>2 DEF Butlast
<1>8. \A k \in DOMAIN calls' : CallOK(calls[k])
  BY <1>1, <1>2, <1>3 DEF CallsOK
<1>9. \A m, k \in DOMAIN calls' : m < k => calls[k].loop \in Enclosed[calls[m].subLoops[calls[m].i]]
  BY <1>1, <1>2, <1>3 DEF CallsOK, Nested
<1>10. \A k \in 1 .. n - 2 : Made(calls[k], calls[k + 1]) /\ k + 1 \in 1 .. n - 1 /\ k \in 1 .. n - 1
  <2>1. \A k \in 1 .. n - 1 : Made(calls[k], calls[k + 1])
    BY <1>1 DEF CallsOK
  <2> HIDE DEF n
  <2>2. \A k \in 1 .. n - 2 : k + 1 \in 1 .. n - 1 /\ k \in 1 .. n - 1
    BY <1>2
  <2> QED
    BY <2>1, <2>2
<1>11. calls' # <<>> => /\ calls[1].loop = 0 /\ calls[1].subLoops = TopLoops /\ TopLoops # <<>>
                        /\ calls'[1] = calls[1]
  BY <1>1, <1>2, <1>3, <1>6 DEF CallsOK
<1>12. ASSUME calls' # <<>>
       PROVE  /\ calls[n - 1].i <= Len(calls[n - 1].subLoops)
              /\ calls[n - 1].subLoops[calls[n - 1].i] = X /\ X # 0
  <2>1. n - 1 \in 1 .. n - 1 /\ n - 1 + 1 = n /\ n # 1
    BY <1>2, <1>6, <1>12
  <2>2. Made(calls[n - 1], calls[n - 1 + 1])
    BY <1>1, <2>1 DEF CallsOK
  <2>3. X # 0
    BY <1>2, <2>1, CallSubLoops
  <2> QED
    BY <1>2, <2>1, <2>2, <2>3 DEF Made
<1> HIDE DEF n
<1>13. Nested'
  BY <1>3, <1>4, <1>9 DEF Nested
<1>14. \A k \in DOMAIN calls' : CallOK(calls[k])'
  BY <1>3, <1>4, <1>8
<1>15. \A k \in 1 .. Len(calls') - 1 : Made(calls[k], calls[k + 1])'
  <2>1. \A k \in 1 .. n - 2 : calls'[k] = calls[k] /\ calls'[k + 1] = calls[k + 1]
    BY <1>3, <1>10
  <2>2. Len(calls') - 1 = n - 2
    BY <1>2, <1>3
  <2> QED
    BY <1>10, <2>1, <2>2 DEF Made
<1>16. calls' # <<>> => Pusher'.i <= Len(Pusher'.subLoops) /\ (depth' > 0 <=> Clean(Pusher.subLoops[Pusher.i])')
  BY <1>4, <1>6, <1>12 DEF X
<1> QED
  BY <1>4, <1>5, <1>7, <1>11, <1>13, <1>14, <1>15, <1>16 DEF CallsOK, Running

LEMMA GoOnCalls ==
  ASSUME PlantInv, calls # <<>>, depth # Running, func' = func, running' = running, depth' = Running,
         NEW c \in CallRecord, CallOK(c), c.loop = Pusher.loop, c.i = Pusher.i + 1, c.subLoops = Pusher.subLoops,
         calls' = Calling(c)
  PROVE  CallsOK'
<1>1. ValidFunction(func) /\ CallsOK
  BY Valid DEF PlantInv
<1> DEFINE n == Len(calls)
<1>2. /\ n \in Nat /\ n > 0 /\ DOMAIN calls = 1 .. n /\ Pusher = calls[n] /\ n \in DOMAIN calls
      /\ calls \in Seq(CallRecord)
  BY <1>1, PusherFacts DEF CallsOK
<1>3. /\ calls' \in Seq(CallRecord) /\ DOMAIN calls' = 1 .. n /\ Len(calls') = n
      /\ calls'[n] = c /\ \A k \in 1 .. n - 1 : calls'[k] = calls[k]
  <2> DEFINE b == Butlast(calls)
  <2>1. b \in Seq(CallRecord) /\ Len(b) = n - 1 /\ \A k \in 1 .. n - 1 : b[k] = calls[k]
    BY <1>2 DEF Butlast
  <2>2. calls' = Append(b, c)
    BY DEF Calling
  <2> HIDE DEF b, n
  <2>3. calls' \in Seq(CallRecord) /\ DOMAIN calls' = 1 .. n /\ Len(calls') = n
    BY <1>2, <2>1, <2>2
  <2>4. calls'[n] = c
    BY <1>2, <2>1, <2>2
  <2>5. \A k \in 1 .. n - 1 : calls'[k] = calls[k]
    BY <1>2, <2>1, <2>2
  <2> QED
    BY <2>3, <2>4, <2>5
<1>4. /\ Enclosed' = Enclosed /\ TopLoops' = TopLoops /\ CallRecord' = CallRecord
      /\ \A d : CallOK(d)' <=> CallOK(d)
  BY SameFunction, SameCall
<1>5. running = "plant"
  BY <1>1 DEF CallsOK
<1> HIDE DEF n, Pusher
<1>6. \A k \in 1 .. n : k # n => k \in 1 .. n - 1
  BY <1>2
<1>7. \A k \in 1 .. n : calls'[k].loop = calls[k].loop /\ calls'[k].subLoops = calls[k].subLoops
                        /\ (k # n => calls'[k] = calls[k])
  BY <1>2, <1>3, <1>6
<1>8. Nested'
  <2>1. \A m \in 1 .. n : \A k \in 1 .. n : m < k => m # n
    BY <1>2
  <2>2. \A m \in 1 .. n : \A k \in 1 .. n : m < k => calls'[k].loop \in Enclosed[calls'[m].subLoops[calls'[m].i]]
    BY <1>1, <1>2, <1>7, <2>1 DEF CallsOK, Nested
  <2> QED
    BY <1>3, <1>4, <2>2 DEF Nested
<1>9. \A k \in DOMAIN calls' : CallOK(calls[k])'
  BY <1>1, <1>2, <1>3, <1>4, <1>6 DEF CallsOK
<1>10. \A k \in 1 .. Len(calls') - 1 : Made(calls[k], calls[k + 1])'
  <2>1. \A k \in 1 .. n - 1 : k \in 1 .. n /\ k + 1 \in 1 .. n /\ k # n /\ Made(calls[k], calls[k + 1])
    <3>1. \A k \in 1 .. n - 1 : k \in 1 .. n /\ k + 1 \in 1 .. n /\ k # n
      BY <1>2
    <3>2. \A k \in 1 .. n - 1 : Made(calls[k], calls[k + 1])
      BY <1>1 DEF CallsOK, n
    <3> QED
      BY <3>1, <3>2
  <2> QED
    BY <1>3, <1>7, <2>1 DEF Made
<1>11. calls' # <<>> /\ 1 \in 1 .. n
  BY <1>2, <1>3
<1>12. calls'[1].loop = 0 /\ calls'[1].subLoops = TopLoops /\ TopLoops # <<>>
  BY <1>1, <1>7, <1>11 DEF CallsOK
<1> QED
  BY <1>3, <1>4, <1>5, <1>8, <1>9, <1>10, <1>11, <1>12 DEF CallsOK, Running

----------------------------------------------------------------------------
(* What the steps of pushLoopTree have in common.                          *)

LEMMA AppendTreeOK ==
  ASSUME PlantInv, func' = func, NEW r \in TreeRecord, trees' = Append(trees, r),
         \A i \in DOMAIN r.subLoops : r.subLoops[i] \in DOMAIN trees,
         Len(r.paths) \in Len(r.subLoops) .. Len(r.subLoops) + 1,
         r.parentLoop = NoTree,
         AllUnbroken => Len(r.paths) = Len(r.subLoops) + 1,
         loopForests' \in Seq(1 .. Len(trees) + 1)
  PROVE  TreesOK'
<1>1. TreesOK
  BY DEF PlantInv
<1> DEFINE n == Len(trees)
<1>2. trees \in Seq(TreeRecord) /\ n \in Nat /\ DOMAIN trees = 1 .. n
  BY <1>1 DEF TreesOK
<1>3. /\ trees' \in Seq(TreeRecord) /\ DOMAIN trees' = 1 .. n + 1 /\ Len(trees') = n + 1
      /\ trees'[n + 1] = r /\ \A t \in 1 .. n : trees'[t] = trees[t]
  BY <1>2
<1>4. TreeRecord' = TreeRecord /\ (AllUnbroken' <=> AllUnbroken)
  BY SameFunction
<1> HIDE DEF n
<1>5. ASSUME NEW t \in 1 .. n PROVE TreeOK(t)'
  <2>1. TreeOK(t)
    BY <1>1, <1>2 DEF TreesOK
  <2>2. trees'[t] = trees[t]
    BY <1>3
  <2>3. trees[t].parentLoop \in Nat
    BY <1>1, <1>2, TreeFacts
  <2> QED
    BY <1>2, <1>3, <1>4, <2>1, <2>2, <2>3 DEF TreeOK, n
<1>6. ASSUME NEW t, t = n + 1 PROVE TreeOK(t)'
  <2>1. \A i \in DOMAIN r.subLoops : r.subLoops[i] < n + 1
    BY <1>2
  <2>2. trees'[t] = r /\ t \in Nat /\ 0 <= n + 1
    BY <1>2, <1>3, <1>6
  <2>3. r.parentLoop <= Len(trees')
    BY <1>3, <2>2 DEF NoTree
  <2> QED
    BY <1>4, <1>6, <2>1, <2>2, <2>3 DEF TreeOK
<1>7. \A t \in DOMAIN trees' : TreeOK(t)'
  <2>1. \A t : t \in 1 .. n + 1 => t \in 1 .. n \/ t = n + 1
    BY <1>2
  <2> QED
    BY <1>3, <1>5, <1>6, <2>1
<1>8. loopForests' \in Seq(DOMAIN trees')
  BY <1>3 DEF n
<1> QED
  BY <1>3, <1>4, <1>7, <1>8 DEF TreesOK

LEMMA SameTreesOK ==
  ASSUME PlantInv, func' = func, trees' = trees, loopForests' \in Seq(DOMAIN trees)
  PROVE  TreesOK'
<1>1. TreesOK
  BY DEF PlantInv
<1>2. TreeRecord' = TreeRecord /\ (AllUnbroken' <=> AllUnbroken)
  BY SameFunction
<1> QED
  BY <1>1, <1>2 DEF TreesOK, TreeOK

LEMMA AppendPlanted ==
  ASSUME PlantInv, NEW r, trees' = Append(trees, r)
  PROVE  /\ \A L : TreesOf(L)' # {} <=> TreesOf(L) # {} \/ L = r.loop
         /\ (r.loop # 0 => TreesOf(r.loop) = {}) => PlantedOnce'
<1>1. trees \in Seq(TreeRecord) /\ PlantedOnce
  BY DEF PlantInv, TreesOK
<1> DEFINE n == Len(trees)
<1>2. n \in Nat /\ DOMAIN trees = 1 .. n
  BY <1>1
<1>3. DOMAIN trees' = 1 .. n + 1 /\ trees'[n + 1] = r /\ \A t \in 1 .. n : trees'[t] = trees[t]
  BY <1>1
<1> HIDE DEF n
<1>4. \A t : t \in 1 .. n + 1 <=> t \in 1 .. n \/ t = n + 1
  BY <1>2
<1>5. ASSUME NEW L PROVE TreesOf(L)' # {} <=> TreesOf(L) # {} \/ L = r.loop
  BY <1>2, <1>3, <1>4 DEF TreesOf
<1>6. ASSUME r.loop # 0 => TreesOf(r.loop) = {} PROVE PlantedOnce'
  <2> SUFFICES ASSUME NEW t \in DOMAIN trees', NEW u \in DOMAIN trees', trees'[t].loop = trees'[u].loop, trees'[t].loop # 0
               PROVE  t = u
    BY DEF PlantedOnce
  <2>1. \A v \in 1 .. n : trees[v].loop = r.loop => r.loop = 0
    BY <1>2, <1>6 DEF TreesOf
  <2> QED
    BY <1>1, <1>2, <1>3, <1>4, <2>1 DEF PlantedOnce
<1> QED
  BY <1>5, <1>6

\* parseNest has not begun.
LEMMA NotParsed ==
  ASSUME PlantInv, calls # <<>>, UNCHANGED <<forest, parsing, cut>>, running' \in {"new", "plant", "parse", "end", "undefined"},
         Len(loopForests) \in Nat, Len(loopForests') \in Nat, Len(loopForests) <= Len(loopForests')
  PROVE  ParsingOK'
<1>1. ParsingOK
  BY DEF PlantInv
<1>2. parsing = <<>> /\ cut = NoTree
  BY <1>1 DEF ParsingOK
<1>3. forest' = <<>> \/ (forest' \in (Nat \ {0}) \X Nat /\ forest'[2] <= Len(loopForests'))
  BY <1>1 DEF ParsingOK
<1>4. IsSequence(parsing)'
  BY <1>1 DEF ParsingOK, IsSequence
<1> QED
  BY <1>2, <1>3, <1>4 DEF ParsingOK

\* The branches become a tree of their own, in a forest of its own.
LEMMA SplitOff ==
  ASSUME PlantInv, calls # <<>>, func' = func, split(Pusher.branches, Pusher.branchBlocks, Pusher.H)
  PROVE  /\ TreesOK' /\ TreesOnce' /\ ForestsOnce' /\ PlantedOnce'
         /\ Len(loopForests) \in Nat /\ Len(loopForests') \in Nat /\ Len(loopForests) <= Len(loopForests')
         /\ \A L : L # 0 => (TreesOf(L)' # {} <=> TreesOf(L) # {})
         /\ \A t : HeldByTree(t)' <=> HeldByTree(t) \/ Among(Pusher.branches, t)
         /\ \E N \in SUBSET {Len(trees) + 1} :
              /\ DOMAIN trees' = DOMAIN trees \union N
              /\ \A t : HeldByForest(t)' <=> HeldByForest(t) \/ t \in N
<1>1. TreesOK /\ TreesOnce /\ ForestsOnce /\ PlantedOnce /\ CallsOK /\ HeldOnce /\ ValidFunction(func)
  BY Valid DEF PlantInv
<1> DEFINE B == Pusher.branches
           n == Len(trees)
<1>2. trees \in Seq(TreeRecord) /\ n \in Nat /\ DOMAIN trees = 1 .. n /\ loopForests \in Seq(1 .. n) /\ Len(loopForests) \in Nat
  BY <1>1 DEF TreesOK
<1>3. CASE B = <<>>
  <2>1. trees' = trees /\ loopForests' = loopForests
    BY <1>3 DEF split
  <2>2. TreesOK'
    BY <1>1, <2>1, SameTreesOK DEF TreesOK
  <2>3. TreesOnce' /\ ForestsOnce' /\ PlantedOnce'
    BY <1>1, <2>1 DEF TreesOnce, ForestsOnce, PlantedOnce
  <2>4. \A L : TreesOf(L)' # {} <=> TreesOf(L) # {}
    BY <2>1 DEF TreesOf
  <2>5. \A t : ~Among(B, t)
    BY <1>3 DEF Among
  <2>6. \A t : HeldByTree(t)' <=> HeldByTree(t)
    BY <2>1 DEF HeldByTree
  <2>7. \A t : HeldByForest(t)' <=> HeldByForest(t)
    BY <2>1 DEF HeldByForest
  <2>8. {} \in SUBSET {n + 1} /\ DOMAIN trees' = DOMAIN trees \union {}
    BY <2>1
  <2>9. Len(loopForests') \in Nat /\ Len(loopForests) <= Len(loopForests')
    BY <1>2, <2>1
  <2> QED
    BY <1>2, <2>2, <2>3, <2>4, <2>5, <2>6, <2>7, <2>8, <2>9
<1>4. CASE B # <<>>
  <2> DEFINE H == Pusher.H
             P == Pusher.branchBlocks
             r == Tree(0, B, Append(P, <<H>>), 0)
  <2>1. trees' = Append(trees, r) /\ loopForests' = Append(loopForests, n + 1)
    BY <1>4 DEF split
  <2>2. B \in Seq(Nat \ {0}) /\ P \in Routes /\ H \in Where /\ 0 \in Loops /\ DOMAIN B = 1 .. Len(B) /\ Len(B) \in Nat /\ Len(P) \in Nat
        /\ Len(P) \in Len(B) - 1 .. Len(B) /\ (AllUnbroken => Len(P) = Len(B))
    BY <1>1, PusherFacts, FunctionFacts DEF CallOK
  <2>3. \A t : Among(B, t) => t \in DOMAIN trees
    BY BranchFacts
  <2> HIDE DEF H, P, B
  <2>4. Append(P, <<H>>) \in Routes /\ Len(Append(P, <<H>>)) = Len(P) + 1
    <3>1. P \in Seq(Seq(Where)) /\ <<H>> \in Seq(Where)
      BY <2>2 DEF Routes
    <3> QED
      BY <3>1 DEF Routes
  <2>5. r \in TreeRecord /\ r.loop = 0 /\ r.subLoops = B /\ r.paths = Append(P, <<H>>) /\ r.parentLoop = NoTree
    BY <2>2, <2>4 DEF Tree, TreeRecord, NoTree
  <2>6. \A i \in DOMAIN B : B[i] \in DOMAIN trees
    BY <2>3 DEF Among
  <2>7. Len(P) + 1 \in Len(B) .. Len(B) + 1 /\ (AllUnbroken => Len(P) + 1 = Len(B) + 1)
    BY <2>2
  <2> HIDE DEF r
  <2>8. loopForests' \in Seq(1 .. n + 1) /\ Len(loopForests') = Len(loopForests) + 1
    <3>1. loopForests \in Seq(1 .. n + 1) /\ n + 1 \in 1 .. n + 1
      BY <1>2
    <3> QED
      BY <1>2, <2>1, <3>1
  <2>9. TreesOK'
    BY <2>1, <2>4, <2>5, <2>6, <2>7, <2>8, AppendTreeOK
  <2>10. r.subLoops = Pusher.branches
    BY <2>5 DEF B
  <2>11. DOMAIN trees' = 1 .. n + 1 /\ TreesOnce' /\ \A t : HeldByTree(t)' <=> HeldByTree(t) \/ Among(Pusher.branches, t)
    BY <2>1, <2>10, NewTree
  <2>12. n + 1 \in Nat /\ ~HeldByForest(n + 1)
    <3>1. n + 1 \in Nat /\ n + 1 \notin DOMAIN trees
      BY <1>2
    <3> HIDE DEF n
    <3> QED
      BY <1>1, <3>1 DEF HeldOnce
  <2>13. ForestsOnce' /\ \A t : HeldByForest(t)' <=> HeldByForest(t) \/ t = n + 1
    <3> HIDE DEF n
    <3> QED
      BY <2>1, <2>12, NewForest
  <2>14. PlantedOnce' /\ \A L : TreesOf(L)' # {} <=> TreesOf(L) # {} \/ L = 0
    BY <2>1, <2>5, AppendPlanted
  <2>15. {n + 1} \in SUBSET {n + 1} /\ DOMAIN trees' = DOMAIN trees \union {n + 1} /\ \A t : t \in {n + 1} <=> t = n + 1
    BY <1>2, <2>11
  <2>16. Len(loopForests') \in Nat /\ Len(loopForests) <= Len(loopForests')
    BY <1>2, <2>8
  <2> QED
    BY <1>2, <2>9, <2>11, <2>13, <2>14, <2>15, <2>16 DEF n
<1> QED
  BY <1>3, <1>4

----------------------------------------------------------------------------
(* Each step of pushLoopTree.                                              *)

\* A call that has looked at all its sub loops returns a tree if its loop can be represented.
LEMMA ReturnClean ==
  ASSUME PlantInv, calls # <<>>, Pusher.i > Len(Pusher.subLoops)
  PROVE  /\ Pusher.i = Len(Pusher.subLoops) + 1
         /\ ~Pusher.anyFail => Len(Pusher.branches) = Len(Pusher.subLoops) /\ (Descends(Pusher) <=> func.direct[Pusher.loop][Pusher.i])
         /\ Pusher.loop # 0 =>
              (Clean(Pusher.loop) <=> /\ Pusher.subLoops = <<>> => Pusher.loop \in func.affine
                                      /\ ~Pusher.anyFail /\ Descends(Pusher))
<1>1. ValidFunction(func) /\ CallsOK
  BY Valid DEF PlantInv
<1> DEFINE c == Pusher
           X == Pusher.loop
           s == Pusher.subLoops
<1>2. /\ c.i \in Nat /\ Len(s) \in Nat /\ X \in Loops /\ CallOK(c) /\ c.anyFail \in BOOLEAN /\ Len(c.branches) \in Nat
  BY <1>1, PusherFacts
<1>3. c.i = Len(s) + 1
  BY <1>2 DEF CallOK
<1>4. ~c.anyFail => c.H = Spot(X, c.i, 1) /\ Len(c.branches) = c.i - 1
  BY <1>2 DEF CallOK
<1>5. ASSUME ~c.anyFail PROVE Len(c.branches) = Len(s) /\ (Descends(c) <=> func.direct[X][c.i])
  <2>1. c.H # Preheader(X, c.i)
    BY <1>4, <1>5 DEF Preheader, Spot
  <2>2. Len(c.branches) = Len(s)
    <3> HIDE DEF c
    <3> QED
      BY <1>2, <1>3, <1>4, <1>5
  <2>3. Descends(c) <=> func.direct[X][c.i]
    <3> HIDE DEF Pusher
    <3> QED
      BY <2>1 DEF Descends
  <2> QED
    BY <2>2, <2>3
<1>6. ASSUME X # 0
      PROVE  Clean(X) <=> (s = <<>> => X \in func.affine) /\ ~c.anyFail /\ Descends(c)
  <2>1. c.anyFail <=> \E j \in 1 .. c.i - 1 : ~Fine(c, j)
    BY <1>2, <1>6 DEF CallOK
  <2>2. s = func.subLoops[X]
    <3>1. Len(calls) \in DOMAIN calls /\ c = calls[Len(calls)]
      BY <1>1, PusherFacts
    <3> QED
      BY <1>6, <3>1, CallSubLoops
  <2>3. 1 .. c.i - 1 = 1 .. Len(s)
    BY <1>2, <1>3
  <2>4. ~c.anyFail <=> \A j \in 1 .. Len(s) : Clean(s[j]) /\ func.direct[X][j]
    BY <1>2, <2>1, <2>3 DEF Fine
  <2>5. \A j : j \in 1 .. Len(s) + 1 <=> j \in 1 .. Len(s) \/ j = Len(s) + 1
    BY <1>2
  <2>6. Clean(X) <=> /\ s = <<>> => X \in func.affine
                     /\ \A j \in 1 .. Len(s) + 1 : func.direct[X][j]
                     /\ \A j \in 1 .. Len(s) : Clean(s[j])
    BY <1>1, <1>2, <2>2, CleanUnfold
  <2> HIDE DEF c, s, X
  <2>7. Clean(X) <=> (s = <<>> => X \in func.affine) /\ ~c.anyFail /\ func.direct[X][Len(s) + 1]
    BY <2>4, <2>5, <2>6
  <2> QED
    BY <1>3, <1>5, <2>7
<1> QED
  BY <1>3, <1>5, <1>6

\* The last call returns without a tree for its loop.
LEMMA ReturnPlanted ==
  ASSUME PlantInv, calls # <<>>, depth = Running, Pusher.i > Len(Pusher.subLoops),
         func' = func, running' = running, calls' = Butlast(calls), depth' \in Nat,
         \A L : L # 0 => (TreesOf(L)' # {} <=> TreesOf(L) # {} \/ (L = Pusher.loop /\ Clean(L)))
  PROVE  PlantedDone'
<1>1. PlantedDone
  BY DEF PlantInv
<1>2. RealLoops' = RealLoops /\ \A L : Clean(L)' <=> Clean(L)
  BY SameFunction
<1>3. ASSUME NEW L \in RealLoops PROVE TreesOf(L)' # {} <=> Done(L)' /\ Clean(L)'
  <2>1. L # 0
    BY DEF RealLoops
  <2>2. Done(L)' <=> Done(L) \/ L = Pusher.loop
    BY ReturnDone
  <2> QED
    BY <1>1, <1>2, <1>3, <2>1, <2>2 DEF PlantedDone
<1> QED
  BY <1>2, <1>3 DEF PlantedDone

LEMMA GiveUpStep ==
  ASSUME PlantInv, GiveUp
  PROVE  PlantInv'
<1>1. /\ calls # <<>> /\ depth = Running /\ Pusher.i > Len(Pusher.subLoops) /\ Pusher.subLoops # <<>> /\ running = "plant"
      /\ ~Whole
  <2>1. running = "plant" /\ depth = Running
    BY DEF GiveUp, Through
  <2>2. calls # <<>>
    BY <2>1 DEF PlantInv, CallsOK
  <2> QED
    BY <2>1, <2>2 DEF GiveUp, Through
<1>2. /\ func' = func /\ running' = running /\ UNCHANGED <<forest, parsing, cut>> /\ calls' = Butlast(calls) /\ depth' = 0
      /\ split(Pusher.branches, Pusher.branchBlocks, Pusher.H)
  BY DEF GiveUp
<1>3. /\ TreesOK' /\ TreesOnce' /\ ForestsOnce' /\ PlantedOnce'
      /\ Len(loopForests) \in Nat /\ Len(loopForests') \in Nat /\ Len(loopForests) <= Len(loopForests')
      /\ \A L : L # 0 => (TreesOf(L)' # {} <=> TreesOf(L) # {})
      /\ \A t : HeldByTree(t)' <=> HeldByTree(t) \/ Among(Pusher.branches, t)
  BY <1>1, <1>2, SplitOff
<1>4. PICK N \in SUBSET {Len(trees) + 1} :
        /\ DOMAIN trees' = DOMAIN trees \union N
        /\ \A t : HeldByForest(t)' <=> HeldByForest(t) \/ t \in N
  BY <1>1, <1>2, SplitOff
<1>5. CallsOnce' /\ \A t : HeldByCall(t)' <=> HeldAbove(t)
  BY <1>1, <1>2, Popped
<1>6. Pusher.loop # 0 => ~Clean(Pusher.loop)
  BY <1>1, ReturnClean DEF Whole
<1>7. CallsOK'
  BY <1>1, <1>2, <1>6, ReturnCalls
<1>8. PlantedDone'
  BY <1>1, <1>2, <1>3, <1>6, ReturnPlanted
<1>9. ParsingOK'
  <2>1. running' \in {"new", "plant", "parse", "end", "undefined"}
    BY <1>1, <1>2
  <2> QED
    BY <1>1, <1>2, <1>3, <2>1, NotParsed
<1>10. HeldOnce'
  <2>1. ~Pending /\ ~Pending'
    BY <1>1, <1>2 DEF Pending, Running
  <2>2. HeldOnce /\ CallsOK /\ TreesOK
    BY DEF PlantInv
  <2>3. \A t : HeldByCall(t) <=> HeldAbove(t) \/ Among(Pusher.branches, t)
    BY <1>1, <2>2, HeldByCallIs
  <2>4. \A t : Among(Pusher.branches, t) => ~HeldAbove(t) /\ ~HeldByTree(t) /\ ~HeldByForest(t) /\ t \in DOMAIN trees
    BY <1>1, BranchFacts
  <2>5. \A t \in N : t \in Nat /\ t \notin DOMAIN trees
    BY <2>2 DEF TreesOK
  <2> QED
    BY <1>3, <1>4, <1>5, <2>1, <2>2, <2>3, <2>4, <2>5 DEF HeldOnce
<1> QED
  BY <1>2, <1>3, <1>5, <1>7, <1>8, <1>9, <1>10 DEF PlantInv

LEMMA InitFailsStep ==
  ASSUME PlantInv, InitFails
  PROVE  PlantInv'
<1>1. /\ calls # <<>> /\ depth = Running /\ Pusher.subLoops = <<>> /\ running = "plant"
      /\ ~(Pusher.loop \in func.affine /\ Descends(Pusher))
  <2>1. running = "plant" /\ depth = Running
    BY DEF InitFails, Childless
  <2>2. calls # <<>>
    BY <2>1 DEF PlantInv, CallsOK
  <2> QED
    BY <2>1, <2>2 DEF InitFails, Childless
<1>2. /\ func' = func /\ running' = running /\ UNCHANGED <<forest, parsing, cut>> /\ calls' = Butlast(calls) /\ depth' = 0
      /\ trees' = trees /\ loopForests' = loopForests
  BY DEF InitFails
<1>3. Pusher.i > Len(Pusher.subLoops) /\ Len(Pusher.branches) \in Nat /\ Pusher.i \in Nat \ {0} /\ CallsOK /\ TreesOK /\ HeldOnce
      /\ DOMAIN Pusher.branches = 1 .. Len(Pusher.branches)
  BY <1>1, PusherFacts DEF PlantInv
<1>4. Pusher.loop # 0
  <2>1. Len(calls) \in DOMAIN calls /\ Pusher = calls[Len(calls)]
    BY <1>1, <1>3, PusherFacts
  <2>2. calls[1].subLoops # <<>>
    BY <1>1, <1>3 DEF CallsOK
  <2> QED
    BY <1>1, <2>1, <2>2, CallSubLoops
<1>5. ~Clean(Pusher.loop)
  BY <1>1, <1>3, <1>4, ReturnClean
<1>6. \A t : ~Among(Pusher.branches, t)
  <2>1. ~Pusher.anyFail
    <3> DEFINE c == Pusher
    <3>1. CallOK(c) /\ c.i = 1
      BY <1>1, <1>3, PusherFacts, ReturnClean
    <3>2. c.anyFail <=> \E j \in 1 .. c.i - 1 : ~Fine(c, j)
      BY <1>4, <3>1 DEF CallOK
    <3> HIDE DEF c
    <3>3. 1 .. c.i - 1 = {}
      BY <3>1
    <3> QED
      BY <3>2, <3>3 DEF c
  <2>2. Len(Pusher.branches) = 0
    BY <1>1, <1>3, <2>1, ReturnClean
  <2> QED
    BY <1>3, <2>2 DEF Among
<1>7. CallsOnce' /\ \A t : HeldByCall(t)' <=> HeldAbove(t)
  BY <1>1, <1>2, Popped
<1>8. CallsOK'
  BY <1>1, <1>2, <1>5, ReturnCalls
<1>9. PlantedDone'
  <2>1. \A L : TreesOf(L)' = TreesOf(L)
    BY <1>2 DEF TreesOf
  <2> QED
    BY <1>1, <1>2, <1>3, <1>5, <2>1, ReturnPlanted
<1>10. ParsingOK'
  <2>1. running' \in {"new", "plant", "parse", "end", "undefined"} /\ Len(loopForests) \in Nat
    BY <1>1, <1>2, <1>3 DEF TreesOK
  <2> QED
    BY <1>1, <1>2, <2>1, NotParsed
<1>11. TreesOK' /\ TreesOnce' /\ ForestsOnce' /\ PlantedOnce'
  <2>1. TreesOK'
    BY <1>2, <1>3, SameTreesOK DEF TreesOK
  <2> QED
    BY <1>2, <2>1 DEF PlantInv, TreesOnce, ForestsOnce, PlantedOnce
<1>12. HeldOnce'
  <2>1. ~Pending /\ ~Pending'
    BY <1>1, <1>2 DEF Pending, Running
  <2>2. \A t : HeldByCall(t) <=> HeldAbove(t)
    BY <1>1, <1>3, <1>6, HeldByCallIs
  <2>3. \A t : (HeldByTree(t)' <=> HeldByTree(t)) /\ (HeldByForest(t)' <=> HeldByForest(t))
    BY <1>2 DEF HeldByTree, HeldByForest
  <2> QED
    BY <1>2, <1>3, <1>7, <2>1, <2>2, <2>3 DEF HeldOnce
<1> QED
  BY <1>2, <1>7, <1>8, <1>9, <1>10, <1>11, <1>12 DEF PlantInv

LEMMA DescentFacts ==
  ASSUME PlantInv, calls # <<>>
  PROVE  /\ Descent(Pusher) \in Seq(Where)
         /\ Append(Pusher.branchBlocks, Descent(Pusher)) \in Routes
         /\ Len(Append(Pusher.branchBlocks, Descent(Pusher))) = Len(Pusher.branchBlocks) + 1
<1> DEFINE c == Pusher
<1>1. c.loop \in Loops /\ c.i \in Nat \ {0} /\ c.H \in Where /\ c.branchBlocks \in Seq(Seq(Where))
  BY PusherFacts DEF PlantInv, Routes
<1>5. c.i <= Len(func.subLoops[c.loop]) + 1
  <2>1. CallsOK /\ ValidFunction(func)
    BY Valid DEF PlantInv
  <2>2. c.i <= Len(c.subLoops) + 1 /\ Len(c.subLoops) \in Nat
    BY <2>1, PusherFacts DEF CallOK
  <2>3. Len(c.subLoops) <= Len(func.subLoops[c.loop])
    <3>1. Len(calls) \in DOMAIN calls /\ c = calls[Len(calls)]
      BY <2>1, PusherFacts
    <3> HIDE DEF c
    <3> QED
      BY <3>1, CallSubLoops
  <2>4. Len(func.subLoops[c.loop]) \in Nat
    BY <1>1, <2>1, FunctionFacts
  <2> HIDE DEF c
  <2> QED
    BY <1>1, <2>2, <2>3, <2>4
<1> HIDE DEF c
<1>2. Preheader(c.loop, c.i) \in Where
  BY <1>1, <1>5, SpotWhere DEF Preheader
<1>3. Descent(c) \in Seq(Where)
  BY <1>1, <1>2 DEF Descent
<1>4. Append(c.branchBlocks, Descent(c)) \in Routes /\ Len(Append(c.branchBlocks, Descent(c))) = Len(c.branchBlocks) + 1
  BY <1>1, <1>3 DEF Routes
<1> QED
  BY <1>3, <1>4 DEF c

\* The last call returns a tree for its loop.
LEMMA LoopTreeStep ==
  ASSUME PlantInv, calls # <<>>, depth = Running, Pusher.i > Len(Pusher.subLoops), running = "plant",
         NEW r \in TreeRecord, r.loop = Pusher.loop, r.subLoops = Pusher.branches, r.parentLoop = NoTree,
         Len(r.paths) \in Len(r.subLoops) .. Len(r.subLoops) + 1,
         AllUnbroken => Len(r.paths) = Len(r.subLoops) + 1,
         Pusher.loop # 0 => Clean(Pusher.loop),
         trees' = Append(trees, r), depth' \in Nat \ {0}, calls' = Butlast(calls),
         loopForests' = IF Len(calls) > 1 THEN loopForests ELSE Append(loopForests, Len(trees) + 1),
         UNCHANGED <<func, forest, parsing, cut, running>>
  PROVE  PlantInv'
<1> DEFINE n == Len(trees)
           B == Pusher.branches
<1>1. TreesOK /\ TreesOnce /\ ForestsOnce /\ PlantedOnce /\ CallsOK /\ HeldOnce /\ ValidFunction(func) /\ func \in Functions /\ PlantedDone
  BY Valid DEF PlantInv
<1>2. /\ DOMAIN trees' = 1 .. n + 1 /\ n \in Nat
      /\ DOMAIN trees = 1 .. n
      /\ TreesOnce'
      /\ \A t : HeldByTree(t)' <=> HeldByTree(t) \/ Among(B, t)
  BY NewTree
<1>3. CallsOnce' /\ (\A t : HeldByCall(t)' <=> HeldAbove(t)) /\ Len(calls') = Len(calls) - 1 /\ Len(calls) \in Nat
  BY Popped
<1>4. n + 1 \in Nat /\ n + 1 \notin DOMAIN trees
  BY <1>2
<1>5. ~HeldByTree(n + 1) /\ ~HeldByForest(n + 1) /\ ~HeldByCall(n + 1)
  <2> DEFINE m == n + 1
  <2> HIDE DEF m
  <2>1. ~HeldByTree(m) /\ ~HeldByForest(m) /\ ~HeldByCall(m)
    BY <1>1, <1>4 DEF HeldOnce, m
  <2> QED
    BY <2>1 DEF m
<1>6. /\ ForestsOnce' /\ loopForests' \in Seq(1 .. n + 1)
      /\ Len(loopForests) \in Nat /\ Len(loopForests') \in Nat /\ Len(loopForests) <= Len(loopForests')
      /\ \A t : HeldByForest(t)' <=> HeldByForest(t) \/ (t = n + 1 /\ ~(Len(calls) > 1))
  <2>1. loopForests \in Seq(1 .. n) /\ loopForests \in Seq(1 .. n + 1) /\ n + 1 \in 1 .. n + 1 /\ Len(loopForests) \in Nat
    BY <1>1, <1>2 DEF TreesOK
  <2>2. CASE Len(calls) > 1
    BY <1>1, <2>1, <2>2 DEF ForestsOnce, HeldByForest
  <2>3. CASE ~(Len(calls) > 1)
    <3>1. loopForests' = Append(loopForests, n + 1)
      BY <2>3
    <3>2. loopForests' \in Seq(1 .. n + 1) /\ Len(loopForests') = Len(loopForests) + 1
      <4> DEFINE S == 1 .. n + 1
                 x == n + 1
      <4>1. loopForests \in Seq(S) /\ x \in S /\ loopForests' = Append(loopForests, x)
        BY <2>1, <3>1
      <4> HIDE DEF S, x
      <4>2. loopForests' \in Seq(S) /\ Len(loopForests') = Len(loopForests) + 1
        BY <4>1
      <4> QED
        BY <4>2 DEF S
    <3>3. ForestsOnce' /\ \A t : HeldByForest(t)' <=> HeldByForest(t) \/ t = n + 1
      <4> HIDE DEF n
      <4> QED
        BY <1>4, <1>5, <3>1, NewForest
    <3> QED
      BY <2>1, <2>3, <3>2, <3>3
  <2> QED
    BY <2>2, <2>3
<1>7. \A t : Among(B, t) => t \in DOMAIN trees /\ ~HeldAbove(t) /\ ~HeldByTree(t) /\ ~HeldByForest(t)
  BY BranchFacts
<1>8. TreesOK'
  <2>1. \A i \in DOMAIN r.subLoops : r.subLoops[i] \in DOMAIN trees
    BY <1>7 DEF Among
  <2> QED
    BY <1>6, <2>1, AppendTreeOK
<1>9. PlantedOnce' /\ \A L : TreesOf(L)' # {} <=> TreesOf(L) # {} \/ L = r.loop
  <2>1. r.loop # 0 => TreesOf(r.loop) = {}
    <3> SUFFICES ASSUME r.loop # 0 PROVE TreesOf(r.loop) = {}
      OBVIOUS
    <3>1. ~Done(Pusher.loop)
      BY NotYetDone
    <3>2. Pusher.loop \in RealLoops
      BY <1>1, PusherFacts DEF RealLoops, Loops
    <3> QED
      BY <1>1, <3>1, <3>2 DEF PlantedDone
  <2> QED
    BY <2>1, AppendPlanted
<1>10. CallsOK'
  <2>1. depth' \in Nat /\ depth' > 0
    OBVIOUS
  <2> QED
    BY <2>1, ReturnCalls
<1>11. PlantedDone'
  <2>1. \A L : L # 0 => (TreesOf(L)' # {} <=> TreesOf(L) # {} \/ (L = Pusher.loop /\ Clean(L)))
    BY <1>9
  <2> QED
    BY <2>1, ReturnPlanted
<1>12. ParsingOK'
  <2>1. running' \in {"new", "plant", "parse", "end", "undefined"}
    OBVIOUS
  <2> QED
    BY <1>6, <2>1, NotParsed
<1>13. HeldOnce'
  <2>1. ~Pending
    BY DEF Pending, Running
  <2>2. Pending' <=> Len(calls) > 1
    <3>1. calls' # <<>> <=> Len(calls) > 1
      <4>1. calls' \in Seq(CallRecord)
        BY <1>1 DEF CallsOK, Butlast
      <4> QED
        BY <1>3, <4>1
    <3> QED
      BY <3>1 DEF Pending
  <2>3. \A t : HeldByCall(t) <=> HeldAbove(t) \/ Among(B, t)
    BY <1>1, HeldByCallIs
  <2>4. \A t : t \in DOMAIN trees' <=> t \in DOMAIN trees \/ t = n + 1
    BY <1>2
  <2>5. Len(trees') = n + 1
    BY <1>1 DEF TreesOK
  <2> DEFINE m == n + 1
             D == DOMAIN trees
             E == DOMAIN trees'
             big == Len(calls) > 1
  <2>6. /\ m \in Nat /\ m \notin D /\ ~HeldByTree(m) /\ ~HeldByForest(m) /\ ~HeldByCall(m)
        /\ (\A t : t \in E <=> t \in D \/ t = m) /\ Len(trees') = m /\ (Pending' <=> big)
        /\ \A t : HeldByForest(t)' <=> HeldByForest(t) \/ (t = m /\ ~big)
    BY <1>4, <1>5, <1>6, <2>2, <2>4, <2>5
  <2>7. \A t : Among(B, t) => t \in D /\ ~HeldAbove(t) /\ ~HeldByTree(t) /\ ~HeldByForest(t)
    BY <1>7
  <2>8. \A t \in Nat : /\ t \in D <=> HeldByTree(t) \/ HeldByForest(t) \/ HeldByCall(t)
                       /\ HeldByTree(t) => ~HeldByForest(t) /\ ~HeldByCall(t)
                       /\ HeldByForest(t) => ~HeldByCall(t)
    BY <1>1, <2>1 DEF HeldOnce
  <2> HIDE DEF m, D, big, B, E
  <2>9. ASSUME NEW t \in Nat
        PROVE  /\ t \in E <=> HeldByTree(t)' \/ HeldByForest(t)' \/ HeldByCall(t)' \/ (Pending' /\ t = Len(trees'))
               /\ HeldByTree(t)' => ~HeldByForest(t)' /\ ~HeldByCall(t)'
               /\ HeldByForest(t)' => ~HeldByCall(t)'
               /\ Pending' /\ t = Len(trees') => ~HeldByTree(t)' /\ ~HeldByForest(t)' /\ ~HeldByCall(t)'
    <3>1. CASE t = m
      BY <1>2, <1>3, <2>3, <2>6, <2>7, <3>1
    <3>2. CASE t # m
      BY <1>2, <1>3, <2>3, <2>6, <2>7, <2>8, <3>2
    <3> QED
      BY <3>1, <3>2
  <2> QED
    BY <2>9 DEF HeldOnce, E
<1> QED
  BY <1>1, <1>2, <1>3, <1>6, <1>8, <1>9, <1>10, <1>11, <1>12, <1>13 DEF PlantInv

LEMMA InitLoopTreeStep ==
  ASSUME PlantInv, initLoopTree
  PROVE  PlantInv'
<1>1. /\ calls # <<>> /\ depth = Running /\ Pusher.subLoops = <<>> /\ running = "plant"
      /\ Pusher.loop \in func.affine /\ Descends(Pusher)
  <2>1. running = "plant" /\ depth = Running
    BY DEF initLoopTree, Childless
  <2>2. calls # <<>>
    BY <2>1 DEF PlantInv, CallsOK
  <2> QED
    BY <2>1, <2>2 DEF initLoopTree, Childless
<1> DEFINE r == Tree(Pusher.loop, <<>>, <<Descent(Pusher)>>, AffineNest[Pusher.loop])
<1>2. /\ trees' = Append(trees, r) /\ depth' = 1 /\ calls' = Butlast(calls) /\ loopForests' = loopForests
      /\ UNCHANGED <<func, forest, parsing, cut, running>>
  BY DEF initLoopTree
<1>3. CallsOK /\ ValidFunction(func)
  BY Valid DEF PlantInv
<1>4. Pusher.i > Len(Pusher.subLoops) /\ Len(Pusher.branches) \in Nat /\ Pusher.i \in Nat \ {0} /\ Pusher.branches \in Seq(Nat \ {0})
      /\ Pusher.loop \in Loops
  BY <1>1, <1>3, PusherFacts
<1>5. Pusher.loop # 0
  BY <1>1, <1>3 DEF ValidFunction
<1>6. Len(calls) > 1
  <2>1. Len(calls) \in DOMAIN calls /\ Pusher = calls[Len(calls)] /\ Len(calls) \in Nat /\ Len(calls) > 0
    BY <1>1, <1>3, PusherFacts
  <2>2. Len(calls) # 1
    BY <1>5, <2>1, CallSubLoops
  <2> QED
    BY <2>1, <2>2
<1>7. ~Pusher.anyFail
  <2> DEFINE c == Pusher
  <2>1. CallOK(c) /\ c.i = 1
    BY <1>1, <1>3, <1>4, PusherFacts, ReturnClean
  <2>2. c.anyFail <=> \E j \in 1 .. c.i - 1 : ~Fine(c, j)
    BY <1>5, <2>1 DEF CallOK
  <2> HIDE DEF c
  <2>3. 1 .. c.i - 1 = {}
    BY <2>1
  <2> QED
    BY <2>2, <2>3 DEF c
<1>8. Pusher.branches = <<>>
  <2>1. Len(Pusher.branches) = 0
    BY <1>1, <1>4, <1>7, ReturnClean
  <2> QED
    BY <1>4, <2>1
<1>9. Clean(Pusher.loop)
  BY <1>1, <1>4, <1>5, <1>7, ReturnClean
<1>10. /\ r \in TreeRecord /\ r.loop = Pusher.loop /\ r.subLoops = Pusher.branches /\ r.parentLoop = NoTree
       /\ r.paths = <<Descent(Pusher)>>
  <2>1. Descent(Pusher) \in Seq(Where) /\ <<Descent(Pusher)>> \in Routes
    BY <1>1, DescentFacts DEF Routes
  <2>2. AffineNest[Pusher.loop] \in Int
    BY <1>3, <1>4, AffineNestIs
  <2>3. <<>> \in Seq(Nat \ {0}) /\ 0 \in Nat
    OBVIOUS
  <2> QED
    BY <1>4, <1>8, <2>1, <2>2, <2>3 DEF Tree, TreeRecord, NoTree
<1> HIDE DEF r
<1>11. Len(r.paths) = 1 /\ Len(r.subLoops) = 0
  BY <1>8, <1>10
<1>12. Len(r.paths) \in Len(r.subLoops) .. Len(r.subLoops) + 1 /\ Len(r.paths) = Len(r.subLoops) + 1
  BY <1>11
<1>13. loopForests' = IF Len(calls) > 1 THEN loopForests ELSE Append(loopForests, Len(trees) + 1)
  BY <1>2, <1>6
<1>14. depth' \in Nat \ {0}
  BY <1>2
<1> QED
  BY <1>1, <1>2, <1>4, <1>9, <1>10, <1>12, <1>13, <1>14, LoopTreeStep

LEMMA PlantStep ==
  ASSUME PlantInv, Plant
  PROVE  PlantInv'
<1>1. /\ calls # <<>> /\ depth = Running /\ Pusher.subLoops # <<>> /\ Pusher.i > Len(Pusher.subLoops) /\ running = "plant"
      /\ ~Pusher.anyFail /\ Descends(Pusher)
  <2>1. running = "plant" /\ depth = Running
    BY DEF Plant, Through
  <2>2. calls # <<>>
    BY <2>1 DEF PlantInv, CallsOK
  <2> QED
    BY <2>1, <2>2 DEF Plant, Through, Whole
<1> DEFINE r == Tree(Pusher.loop, Pusher.branches, Append(Pusher.branchBlocks, Descent(Pusher)), Fewer(trees[Pusher.branches[1]].loops))
<1>2. /\ trees' = Append(trees, r) /\ depth' = Pusher.interiorDepth + 1 /\ calls' = Butlast(calls)
      /\ loopForests' = IF Len(calls) > 1 THEN loopForests ELSE Append(loopForests, Len(trees) + 1)
      /\ UNCHANGED <<func, forest, parsing, cut, running>>
  BY DEF Plant
<1>3. CallsOK /\ TreesOK /\ ValidFunction(func)
  BY Valid DEF PlantInv
<1>4. /\ Len(Pusher.branches) \in Nat /\ DOMAIN Pusher.branches = 1 .. Len(Pusher.branches) /\ Pusher.i \in Nat \ {0}
      /\ Pusher.branches \in Seq(Nat \ {0}) /\ Len(Pusher.subLoops) \in Nat /\ Pusher.subLoops \in Seq(Loops)
      /\ Pusher.loop \in Loops /\ Pusher.interiorDepth \in Nat /\ Len(Pusher.branchBlocks) \in Nat /\ CallOK(Pusher)
  BY <1>1, <1>3, PusherFacts
<1>5. Pusher.loop # 0 => Clean(Pusher.loop)
  BY <1>1, ReturnClean
<1>6. Fewer(trees[Pusher.branches[1]].loops) \in Int
  <2>1. Len(Pusher.branches) = Len(Pusher.subLoops) /\ Len(Pusher.subLoops) > 0
    BY <1>1, <1>4, ReturnClean
  <2>2. 1 \in DOMAIN Pusher.branches
    BY <1>4, <2>1
  <2>3. Pusher.branches[1] \in DOMAIN trees
    BY <1>1, <2>2, BranchFacts DEF Among
  <2>4. trees[Pusher.branches[1]].loops \in Int
    BY <1>3, <2>3, TreeFacts
  <2> QED
    BY <2>4 DEF Fewer, MaxUnsigned
<1>7. Append(Pusher.branchBlocks, Descent(Pusher)) \in Routes
      /\ Len(Append(Pusher.branchBlocks, Descent(Pusher))) = Len(Pusher.branchBlocks) + 1
  BY <1>1, DescentFacts
<1>8. /\ r \in TreeRecord /\ r.loop = Pusher.loop /\ r.subLoops = Pusher.branches /\ r.parentLoop = NoTree
      /\ Len(r.paths) = Len(Pusher.branchBlocks) + 1
  <2> HIDE DEF Pusher
  <2> QED
    BY <1>4, <1>6, <1>7 DEF Tree, TreeRecord, NoTree
<1> HIDE DEF r
<1>9. /\ Len(r.paths) \in Len(r.subLoops) .. Len(r.subLoops) + 1
      /\ AllUnbroken => Len(r.paths) = Len(r.subLoops) + 1
  BY <1>4, <1>8 DEF CallOK
<1>10. depth' \in Nat \ {0}
  BY <1>2, <1>4
<1> QED
  BY <1>1, <1>2, <1>5, <1>8, <1>9, <1>10, LoopTreeStep

\* A call goes on with its next sub loop.
LEMMA NextSubLoop ==
  ASSUME PlantInv, calls # <<>>, depth # Running, func' = func, running' = running, depth' = Running,
         NEW c \in CallRecord, CallOK(c), c.loop = Pusher.loop, c.i = Pusher.i + 1, c.subLoops = Pusher.subLoops,
         calls' = Calling(c),
         \A i, j \in DOMAIN c.branches : c.branches[i] = c.branches[j] => i = j,
         \A i \in DOMAIN c.branches : ~HeldAbove(c.branches[i]),
         \A L : L # 0 => (TreesOf(L)' # {} <=> TreesOf(L) # {})
  PROVE  /\ CallsOK' /\ CallsOnce' /\ PlantedDone'
         /\ \A t : HeldByCall(t)' <=> HeldAbove(t) \/ Among(c.branches, t)
<1>1. CallsOK'
  BY GoOnCalls
<1>2. c.branches \in Seq(Nat)
  BY DEF CallRecord
<1>3. /\ Len(calls) \in Nat /\ Len(calls) > 0 /\ DOMAIN calls' = DOMAIN calls /\ Len(calls') = Len(calls)
      /\ \A k \in 1 .. Len(calls) - 1 : calls'[k] = calls[k]
      /\ calls'[Len(calls)] = c
      /\ CallsOnce'
      /\ \A t : HeldByCall(t)' <=> HeldAbove(t) \/ Among(c.branches, t)
  BY <1>2, WentOn
<1>4. calls' # <<>>
  BY <1>3
<1>5. RealLoops' = RealLoops /\ \A L : Clean(L)' <=> Clean(L)
  BY SameFunction
<1>6. \A L \in RealLoops : Done(L)' <=> Done(L)
  BY <1>3, <1>4, GoesOnDone
<1>7. PlantedDone'
  <2>1. \A L \in RealLoops : L # 0
    BY DEF RealLoops
  <2> QED
    BY <1>5, <1>6, <2>1 DEF PlantedDone, PlantInv
<1> QED
  BY <1>1, <1>3, <1>7

\* What the call that goes on with its next sub loop knows of the one that returned.
LEMMA ReturnedFacts ==
  ASSUME PlantInv, Returned
  PROVE  /\ calls # <<>> /\ depth # Running /\ running = "plant" /\ CallsOK /\ TreesOK /\ HeldOnce /\ ValidFunction(func)
         /\ depth \in Nat /\ (depth > 0 <=> Clean(Pusher.subLoops[Pusher.i]))
         /\ Pusher.i \in 1 .. Len(Pusher.subLoops) /\ Len(Pusher.subLoops) \in Nat /\ Pusher.i \in Nat
         /\ Len(Pusher.subLoops) <= Len(func.subLoops[Pusher.loop]) /\ Len(func.subLoops[Pusher.loop]) \in Nat
         /\ CallOK(Pusher)
         /\ AllUnbroken => func.direct[Pusher.loop][Pusher.i]
<1>1. calls # <<>> /\ depth # Running /\ running = "plant" /\ CallsOK /\ TreesOK /\ HeldOnce /\ ValidFunction(func)
  BY Valid DEF PlantInv, Returned
<1> DEFINE c == Pusher
<1>2. c.i \in Nat \ {0} /\ Len(c.subLoops) \in Nat /\ CallOK(c) /\ c.loop \in Loops /\ c = calls[Len(calls)]
      /\ Len(calls) \in DOMAIN calls
  BY <1>1, PusherFacts
<1>3. Len(c.subLoops) <= Len(func.subLoops[c.loop])
  BY <1>2, CallSubLoops
<1>4. DOMAIN func.subLoops[c.loop] = 1 .. Len(func.subLoops[c.loop]) /\ Len(func.subLoops[c.loop]) \in Nat
  BY <1>1, <1>2, FunctionFacts
<1>5. c.i <= Len(c.subLoops) /\ (depth > 0 <=> Clean(c.subLoops[c.i]))
  BY <1>1 DEF CallsOK
<1>6. depth \in Nat
  BY <1>1 DEF CallsOK
<1> HIDE DEF c
<1>7. c.i \in DOMAIN func.subLoops[c.loop]
  BY <1>2, <1>3, <1>4, <1>5
<1>8. AllUnbroken => func.direct[c.loop][c.i]
  BY <1>2, <1>7 DEF AllUnbroken, Unbroken
<1>9. c.i \in 1 .. Len(c.subLoops)
  BY <1>2, <1>5
<1> QED
  BY <1>1, <1>2, <1>3, <1>4, <1>5, <1>6, <1>8, <1>9 DEF c

Joined(p, d, n, D, S) ==
  [p EXCEPT !.interiorDepth = IF @ < d THEN d ELSE @, !.i = @ + 1,
            !.branches = Append(@, n), !.branchBlocks = Append(@, D), !.H = S]
LEMMA JoinedCall ==
  ASSUME NEW p \in CallRecord, NEW d \in Nat, NEW n \in Nat \ {0}, NEW D, NEW S \in Where,
         Append(p.branchBlocks, D) \in Routes, NEW q, q = Joined(p, d, n, D, S)
  PROVE  /\ q.loop = p.loop /\ q.i = p.i + 1 /\ q.subLoops = p.subLoops /\ q.anyFail = p.anyFail
         /\ q.branches = Append(p.branches, n) /\ q.branchBlocks = Append(p.branchBlocks, D) /\ q.H = S
         /\ q \in CallRecord
<1>1. /\ q.loop = p.loop /\ q.i = p.i + 1 /\ q.subLoops = p.subLoops /\ q.anyFail = p.anyFail
      /\ q.branches = Append(p.branches, n) /\ q.branchBlocks = Append(p.branchBlocks, D) /\ q.H = S
      /\ q.interiorDepth = IF p.interiorDepth < d THEN d ELSE p.interiorDepth
  BY DEF CallRecord, Joined
<1>2. /\ p.loop \in Loops /\ p.subLoops \in Seq(Loops) /\ p.i \in Nat \ {0} /\ p.branches \in Seq(Nat \ {0})
      /\ p.anyFail \in BOOLEAN /\ p.interiorDepth \in Nat
  BY DEF CallRecord
<1>3. Append(p.branches, n) \in Seq(Nat \ {0}) /\ p.i + 1 \in Nat \ {0}
  BY <1>2
<1>4. /\ q.loop \in Loops /\ q.subLoops \in Seq(Loops) /\ q.i \in Nat \ {0} /\ q.H \in Where
      /\ q.branches \in Seq(Nat \ {0}) /\ q.branchBlocks \in Routes /\ q.anyFail \in BOOLEAN /\ q.interiorDepth \in Nat
  BY <1>1, <1>2, <1>3
<1>5. q \in CallRecord
  BY <1>4 DEF CallRecord, Joined
<1> QED
  BY <1>1, <1>5

LEMMA SubLoopJoinsStep ==
  ASSUME PlantInv, SubLoopJoins
  PROVE  PlantInv'
<1> DEFINE p == Pusher
           n == Len(trees)
           c == [p EXCEPT !.interiorDepth = IF @ < depth THEN depth ELSE @, !.i = @ + 1,
                          !.branches = Append(@, Len(trees)), !.branchBlocks = Append(@, Descent(p)),
                          !.H = Spot(p.loop, p.i + 1, 1)]
<1>1. Returned /\ depth > 0 /\ Descends(p) /\ calls' = Calling(c) /\ depth' = Running
      /\ UNCHANGED <<func, trees, loopForests, forest, parsing, loopOmega, refs, cut, running>>
  BY DEF SubLoopJoins
<1>2. /\ calls # <<>> /\ depth # Running /\ running = "plant" /\ CallsOK /\ TreesOK /\ HeldOnce /\ ValidFunction(func)
      /\ depth \in Nat /\ Clean(p.subLoops[p.i])
      /\ p.i \in 1 .. Len(p.subLoops) /\ Len(p.subLoops) \in Nat /\ p.i \in Nat
      /\ CallOK(p)
  BY <1>1, ReturnedFacts
<1>3. /\ p = [loop |-> p.loop, subLoops |-> p.subLoops, i |-> p.i, H |-> p.H,
              branches |-> p.branches, branchBlocks |-> p.branchBlocks, anyFail |-> p.anyFail,
              interiorDepth |-> p.interiorDepth]
      /\ p.loop \in Loops /\ p.subLoops \in Seq(Loops)
      /\ p.H \in Where /\ p.branches \in Seq(Nat \ {0}) /\ p.branchBlocks \in Routes
      /\ p.anyFail \in BOOLEAN /\ p.interiorDepth \in Nat
      /\ Len(p.branches) \in Nat /\ Len(p.branchBlocks) \in Nat
      /\ DOMAIN p.branches = 1 .. Len(p.branches)
  BY <1>2, PusherFacts
<1>4. Append(p.branchBlocks, Descent(p)) \in Routes /\ Len(Append(p.branchBlocks, Descent(p))) = Len(p.branchBlocks) + 1
  BY <1>2, DescentFacts
<1>5. Pending /\ ~Pending'
  BY <1>1, <1>2 DEF Pending, Running
<1>6. n \in Nat /\ DOMAIN trees = 1 .. n
  BY <1>2 DEF TreesOK
<1>7. n \in Nat \ {0} /\ n \in DOMAIN trees /\ ~HeldByTree(n) /\ ~HeldByForest(n) /\ ~HeldByCall(n)
  <2>1. n = Len(trees)
    OBVIOUS
  <2> HIDE DEF n
  <2>2. n \in DOMAIN trees /\ ~HeldByTree(n) /\ ~HeldByForest(n) /\ ~HeldByCall(n)
    BY <1>2, <1>5, <1>6, <2>1 DEF HeldOnce
  <2> QED
    BY <1>6, <2>2
<1>8. ~HeldAbove(n) /\ ~Among(p.branches, n)
  BY <1>2, <1>7, HeldByCallIs
<1>9. /\ c.loop = p.loop /\ c.i = p.i + 1 /\ c.subLoops = p.subLoops /\ c.anyFail = p.anyFail
      /\ c.branches = Append(p.branches, n) /\ c.branchBlocks = Append(p.branchBlocks, Descent(p))
      /\ c.H = Spot(p.loop, p.i + 1, 1)
      /\ c \in CallRecord
  <2>1. Spot(p.loop, p.i + 1, 1) \in Where
    <3>1. Len(p.subLoops) <= Len(func.subLoops[p.loop]) /\ Len(func.subLoops[p.loop]) \in Nat
      BY <1>1, ReturnedFacts
    <3> HIDE DEF p
    <3>2. p.i + 1 \in Nat \ {0} /\ p.i + 1 <= Len(func.subLoops[p.loop]) + 1
      BY <1>2, <3>1
    <3> QED
      BY <1>3, <3>2, SpotWhere
  <2>2. p \in CallRecord
    BY <1>2, PusherFacts
  <2> HIDE DEF p, n
  <2>3. c = Joined(p, depth, n, Descent(p), Spot(p.loop, p.i + 1, 1))
    BY DEF n, Joined
  <2> HIDE DEF c
  <2> QED
    BY <1>2, <1>4, <1>7, <2>1, <2>2, <2>3, JoinedCall
<1>10. p.anyFail \/ Fine(p, p.i)
  <2>1. ~p.anyFail => p.H # Preheader(p.loop, p.i)
    BY <1>2 DEF CallOK, Preheader, Spot
  <2>2. Descends(p)
    BY <1>1
  <2> HIDE DEF p
  <2>3. ~p.anyFail => func.direct[p.loop][p.i]
    BY <2>1, <2>2 DEF Descends
  <2> QED
    BY <1>2, <2>3 DEF Fine
<1> HIDE DEF c, p, n
<1>11. /\ Len(c.branches) = Len(p.branches) + 1 /\ c.branches \in Seq(Nat \ {0}) /\ c.branches[Len(p.branches) + 1] = n
       /\ \A j \in 1 .. Len(p.branches) : c.branches[j] = p.branches[j]
       /\ DOMAIN c.branches = 1 .. Len(p.branches) + 1
  BY <1>3, <1>7, <1>9
<1>12. c \in CallRecord
  BY <1>9
<1>13. CallOK(c)
  <2>1. c.i <= Len(c.subLoops) + 1
    BY <1>2, <1>9
  <2>2. Len(c.branchBlocks) \in Len(c.branches) - 1 .. Len(c.branches) /\ (AllUnbroken => Len(c.branchBlocks) = Len(c.branches))
    <3>1. Len(p.branchBlocks) \in Len(p.branches) - 1 .. Len(p.branches) /\ (AllUnbroken => Len(p.branchBlocks) = Len(p.branches))
      BY <1>2 DEF CallOK
    <3>2. Len(c.branchBlocks) = Len(p.branchBlocks) + 1 /\ Len(c.branches) = Len(p.branches) + 1
      BY <1>4, <1>9, <1>11
    <3> QED
      BY <1>3, <3>1, <3>2
  <2>3. ~c.anyFail => c.H = Spot(c.loop, c.i, 1) /\ Len(c.branches) = c.i - 1
    BY <1>2, <1>3, <1>9, <1>11 DEF CallOK
  <2>4. c.loop # 0 => (c.anyFail <=> \E j \in 1 .. c.i - 1 : ~Fine(c, j))
    <3>1. \A j : Fine(c, j) <=> Fine(p, j)
      BY <1>9 DEF Fine
    <3>2. \A j : j \in 1 .. c.i - 1 <=> j \in 1 .. p.i - 1 \/ j = p.i
      BY <1>2, <1>9
    <3>3. p.loop # 0 => (p.anyFail <=> \E j \in 1 .. p.i - 1 : ~Fine(p, j))
      BY <1>2 DEF CallOK
    <3> QED
      BY <1>3, <1>9, <1>10, <3>1, <3>2, <3>3
  <2> QED
    BY <2>1, <2>2, <2>3, <2>4 DEF CallOK
<1>14. \A t : Among(c.branches, t) <=> Among(p.branches, t) \/ t = n
  <2> DEFINE m == Len(p.branches)
  <2>1. m \in Nat /\ (\A i : i \in DOMAIN c.branches <=> i \in DOMAIN p.branches \/ i = m + 1)
        /\ (\A i \in DOMAIN p.branches : c.branches[i] = p.branches[i]) /\ c.branches[m + 1] = n
    BY <1>3, <1>11
  <2> HIDE DEF m
  <2> QED
    BY <2>1 DEF Among
<1>15. \A t : Among(p.branches, t) => t \in DOMAIN trees /\ ~HeldAbove(t) /\ ~HeldByTree(t) /\ ~HeldByForest(t)
  BY <1>2, BranchFacts DEF p
<1>16. \A i, j \in DOMAIN c.branches : c.branches[i] = c.branches[j] => i = j
  <2>1. \A i, j \in DOMAIN p.branches : p.branches[i] = p.branches[j] => i = j
    BY <1>2, BranchFacts DEF p
  <2>2. \A j \in DOMAIN p.branches : p.branches[j] # n
    BY <1>8 DEF Among
  <2>3. \A i : i \in DOMAIN c.branches <=> i \in 1 .. Len(p.branches) \/ i = Len(p.branches) + 1
    BY <1>3, <1>11
  <2> QED
    BY <1>3, <1>11, <2>1, <2>2, <2>3
<1>17. \A i \in DOMAIN c.branches : ~HeldAbove(c.branches[i])
  BY <1>8, <1>14, <1>15 DEF Among
<1>18. /\ CallsOK' /\ CallsOnce' /\ PlantedDone'
       /\ \A t : HeldByCall(t)' <=> HeldAbove(t) \/ Among(c.branches, t)
  <2>1. \A L : TreesOf(L)' = TreesOf(L)
    BY <1>1 DEF TreesOf
  <2>2. c.loop = Pusher.loop /\ c.i = Pusher.i + 1 /\ c.subLoops = Pusher.subLoops
    BY <1>9 DEF p
  <2> QED
    BY <1>1, <1>2, <1>12, <1>13, <1>16, <1>17, <2>1, <2>2, NextSubLoop
<1>19. TreesOK' /\ TreesOnce' /\ ForestsOnce' /\ PlantedOnce'
  <2>1. TreesOK'
    BY <1>1, <1>2, SameTreesOK DEF TreesOK
  <2> QED
    BY <1>1, <2>1 DEF PlantInv, TreesOnce, ForestsOnce, PlantedOnce
<1>20. ParsingOK'
  <2>1. running' \in {"new", "plant", "parse", "end", "undefined"} /\ Len(loopForests) \in Nat
    BY <1>1, <1>2 DEF TreesOK
  <2> QED
    BY <1>1, <1>2, <2>1, NotParsed
<1>21. HeldOnce'
  <2>1. \A t : (HeldByTree(t)' <=> HeldByTree(t)) /\ (HeldByForest(t)' <=> HeldByForest(t))
    BY <1>1 DEF HeldByTree, HeldByForest
  <2>2. \A t : HeldByCall(t) <=> HeldAbove(t) \/ Among(p.branches, t)
    BY <1>2, HeldByCallIs DEF p
  <2>3. \A t : HeldByCall(t)' <=> HeldByCall(t) \/ t = n
    BY <1>14, <1>18, <2>2
  <2>4. DOMAIN trees' = DOMAIN trees /\ n = Len(trees)
    BY <1>1 DEF n
  <2> QED
    BY <1>2, <1>5, <1>7, <2>1, <2>3, <2>4 DEF HeldOnce
<1> QED
  BY <1>1, <1>18, <1>19, <1>20, <1>21 DEF PlantInv

Refused(p, B, S) ==
  [p EXCEPT !.i = @ + 1, !.branches = B, !.H = S, !.anyFail = TRUE,
            !.branchBlocks = IF p.branches = <<>> THEN @ ELSE <<>>]
LEMMA RefusedCall ==
  ASSUME NEW p \in CallRecord, NEW B \in Seq(Nat \ {0}), NEW S \in Where
  PROVE  \A q : q = Refused(p, B, S) =>
           /\ q.loop = p.loop /\ q.i = p.i + 1 /\ q.subLoops = p.subLoops /\ q.anyFail
           /\ q.branches = B /\ q.branchBlocks = (IF p.branches = <<>> THEN p.branchBlocks ELSE <<>>)
           /\ q \in CallRecord
<1> TAKE q
<1> HAVE q = Refused(p, B, S)
<1>1. /\ q.loop = p.loop /\ q.i = p.i + 1 /\ q.subLoops = p.subLoops /\ q.anyFail
      /\ q.branches = B /\ q.branchBlocks = (IF p.branches = <<>> THEN p.branchBlocks ELSE <<>>) /\ q.H = S
      /\ q.interiorDepth = p.interiorDepth
  BY DEF CallRecord, Refused
<1>2. /\ p.loop \in Loops /\ p.subLoops \in Seq(Loops) /\ p.i \in Nat \ {0} /\ p.branchBlocks \in Routes
      /\ p.interiorDepth \in Nat
  BY DEF CallRecord
<1>3. p.i + 1 \in Nat \ {0} /\ <<>> \in Routes
  BY <1>2 DEF Routes
<1>4. /\ q.loop \in Loops /\ q.subLoops \in Seq(Loops) /\ q.i \in Nat \ {0} /\ q.H \in Where
      /\ q.branches \in Seq(Nat \ {0}) /\ q.branchBlocks \in Routes /\ q.anyFail \in BOOLEAN /\ q.interiorDepth \in Nat
  BY <1>1, <1>2, <1>3
<1>5. q \in CallRecord
  BY <1>4 DEF CallRecord, Refused
<1> QED
  BY <1>1, <1>5

\* A sub loop that does not join: what was planted before it is split off.
LEMMA RefusedStep ==
  ASSUME PlantInv, Returned, depth > 0 => ~Descends(Pusher),
         NEW B, B = IF depth > 0 THEN <<Len(trees)>> ELSE <<>>,
         calls' = Calling(Refused(Pusher, B, NextH)), depth' = Running,
         split(Pusher.branches, Pusher.branchBlocks, Pusher.H),
         UNCHANGED <<func, forest, parsing, cut, running>>
  PROVE  PlantInv'
<1> DEFINE p == Pusher
           n == Len(trees)
           c == Refused(p, B, NextH)
<1>1. /\ calls # <<>> /\ depth # Running /\ running = "plant" /\ CallsOK /\ TreesOK /\ HeldOnce /\ ValidFunction(func)
      /\ depth \in Nat /\ (depth > 0 <=> Clean(p.subLoops[p.i]))
      /\ p.i \in 1 .. Len(p.subLoops) /\ Len(p.subLoops) \in Nat /\ p.i \in Nat
      /\ CallOK(p) /\ (AllUnbroken => func.direct[p.loop][p.i])
  BY ReturnedFacts
<1>2. /\ p.loop \in Loops /\ p \in CallRecord /\ p.H \in Where /\ p.branches \in Seq(Nat \ {0}) /\ p.branchBlocks \in Routes
      /\ p.anyFail \in BOOLEAN /\ Len(p.branches) \in Nat /\ Len(p.branchBlocks) \in Nat
      /\ DOMAIN p.branches = 1 .. Len(p.branches)
  BY <1>1, PusherFacts
<1>3. (Pending <=> depth > 0) /\ ~Pending'
  BY <1>1 DEF Pending, Running
<1>4. n \in Nat /\ DOMAIN trees = 1 .. n
  BY <1>1 DEF TreesOK
<1>5. depth > 0 => n # 0 /\ n \in DOMAIN trees /\ ~HeldByTree(n) /\ ~HeldByForest(n) /\ ~HeldByCall(n)
  <2>1. n = Len(trees)
    OBVIOUS
  <2> HIDE DEF n
  <2>2. depth > 0 => n \in DOMAIN trees /\ ~HeldByTree(n) /\ ~HeldByForest(n) /\ ~HeldByCall(n)
    BY <1>1, <1>3, <1>4, <2>1 DEF HeldOnce
  <2> QED
    BY <1>4, <2>2
<1>6. B \in Seq(Nat \ {0}) /\ \A t : Among(B, t) <=> depth > 0 /\ t = n
  <2> HIDE DEF n
  <2>1. B = IF depth > 0 THEN <<n>> ELSE <<>>
    BY DEF n
  <2>2. CASE depth > 0
    BY <1>4, <1>5, <2>1, <2>2 DEF Among
  <2>3. CASE ~(depth > 0)
    BY <2>1, <2>3 DEF Among
  <2> QED
    BY <2>2, <2>3
<1>7. NextH \in Where
  <2>1. Len(p.subLoops) <= Len(func.subLoops[p.loop]) /\ Len(func.subLoops[p.loop]) \in Nat
    BY ReturnedFacts
  <2>2. NextH = IF p.i < Len(p.subLoops) THEN Preheader(p.loop, p.i + 1) ELSE p.H
    BY DEF NextH
  <2> HIDE DEF p
  <2>3. p.i < Len(p.subLoops) => p.i + 1 \in Nat \ {0} /\ p.i + 1 <= Len(func.subLoops[p.loop]) + 1
    BY <1>1, <2>1
  <2> QED
    BY <1>2, <2>2, <2>3, SpotWhere DEF Preheader
<1>8. /\ c.loop = p.loop /\ c.i = p.i + 1 /\ c.subLoops = p.subLoops /\ c.anyFail
      /\ c.branches = B /\ c.branchBlocks = (IF p.branches = <<>> THEN p.branchBlocks ELSE <<>>)
      /\ c \in CallRecord
  <2>1. c = Refused(p, B, NextH)
    OBVIOUS
  <2> HIDE DEF p, c
  <2>2. \A q : q = Refused(p, B, NextH) =>
           /\ q.loop = p.loop /\ q.i = p.i + 1 /\ q.subLoops = p.subLoops /\ q.anyFail
           /\ q.branches = B /\ q.branchBlocks = (IF p.branches = <<>> THEN p.branchBlocks ELSE <<>>)
           /\ q \in CallRecord
    BY ONLY <1>2, <1>6, <1>7, RefusedCall
  <2> QED
    BY <1>2, <1>6, <1>7, <2>1, <2>2

<1>9. ~Fine(p, p.i)
  <2>1. p.H # Preheader(p.loop, p.i) => (Descends(p) <=> func.direct[p.loop][p.i])
    <3> HIDE DEF p
    <3> QED
      BY DEF Descends
  <2>2. p.H = Preheader(p.loop, p.i) => Descends(p)
    BY DEF Descends
  <2>3. depth > 0 => ~Descends(p)
    OBVIOUS
  <2>4. depth > 0 => ~func.direct[p.loop][p.i]
    <3> HIDE DEF p
    <3> QED
      BY <2>3 DEF Descends
  <2> HIDE DEF p
  <2> QED
    BY <1>1, <2>4 DEF Fine
<1>10. CallOK(c)
  <2> HIDE DEF c, p, n
  <2>1. c.i <= Len(c.subLoops) + 1
    BY <1>1, <1>8
  <2>2. Len(p.branchBlocks) \in Len(p.branches) - 1 .. Len(p.branches) /\ (AllUnbroken => Len(p.branchBlocks) = Len(p.branches))
    BY <1>1 DEF CallOK
  <2>3. Len(c.branchBlocks) = 0
    <3>1. p.branches = <<>> => Len(p.branchBlocks) = 0
      <4>1. p.branches = <<>> => Len(p.branches) = 0
        OBVIOUS
      <4> QED
        BY <1>2, <2>2, <4>1
    <3> QED
      BY <1>8, <3>1
  <2>4. Len(c.branches) = IF depth > 0 THEN 1 ELSE 0
    BY <1>8
  <2>5. AllUnbroken => ~(depth > 0)
    <3>1. AllUnbroken => func.direct[p.loop][p.i]
      BY <1>1
    <3>2. depth > 0 => ~func.direct[p.loop][p.i]
      BY <1>1, <1>9 DEF Fine
    <3> QED
      BY <3>1, <3>2
  <2>6. c.anyFail
    BY <1>8
  <2>7. \E j \in 1 .. c.i - 1 : ~Fine(c, j)
    <3>1. ~Fine(c, p.i)
      BY <1>8, <1>9 DEF Fine
    <3>2. p.i \in 1 .. c.i - 1
      BY <1>1, <1>8
    <3> QED
      BY <3>1, <3>2
  <2>8. /\ Len(c.branchBlocks) \in Len(c.branches) - 1 .. Len(c.branches)
        /\ AllUnbroken => Len(c.branchBlocks) = Len(c.branches)
    BY <2>3, <2>4, <2>5
  <2> QED
    BY <2>1, <2>6, <2>7, <2>8 DEF CallOK
<1>11. /\ TreesOK' /\ TreesOnce' /\ ForestsOnce' /\ PlantedOnce'
       /\ Len(loopForests) \in Nat /\ Len(loopForests') \in Nat /\ Len(loopForests) <= Len(loopForests')
       /\ \A L : L # 0 => (TreesOf(L)' # {} <=> TreesOf(L) # {})
       /\ \A t : HeldByTree(t)' <=> HeldByTree(t) \/ Among(p.branches, t)
  BY <1>1, SplitOff
<1>12. PICK N \in SUBSET {n + 1} :
         /\ DOMAIN trees' = DOMAIN trees \union N
         /\ \A t : HeldByForest(t)' <=> HeldByForest(t) \/ t \in N
  BY <1>1, SplitOff
<1>13. HeldByCall(n) <=> HeldAbove(n) \/ Among(p.branches, n)
  BY <1>1, HeldByCallIs
<1> HIDE DEF c, n
<1>14. \A i, j \in DOMAIN c.branches : c.branches[i] = c.branches[j] => i = j
  BY <1>8
<1>15. \A i \in DOMAIN c.branches : ~HeldAbove(c.branches[i])
  <2> SUFFICES ASSUME NEW i \in DOMAIN c.branches PROVE ~HeldAbove(c.branches[i])
    OBVIOUS
  <2>1. c.branches[i] = n /\ depth > 0
    BY <1>6, <1>8 DEF Among
  <2> QED
    BY <1>5, <1>13, <2>1
<1>16. /\ CallsOK' /\ CallsOnce' /\ PlantedDone'
       /\ \A t : HeldByCall(t)' <=> HeldAbove(t) \/ Among(c.branches, t)
  <2>1. calls' = Calling(c)
    BY DEF c
  <2>2. c \in CallRecord /\ c.loop = Pusher.loop /\ c.i = Pusher.i + 1 /\ c.subLoops = Pusher.subLoops
    BY <1>8
  <2> HIDE DEF p
  <2> QED
    BY <1>1, <1>10, <1>11, <1>14, <1>15, <2>1, <2>2, NextSubLoop
<1>17. ParsingOK'
  <2>1. running' \in {"new", "plant", "parse", "end", "undefined"}
    BY <1>1
  <2> QED
    BY <1>1, <1>11, <2>1, NotParsed
<1>18. \A t : HeldByCall(t) <=> HeldAbove(t) \/ Among(p.branches, t)
  BY <1>1, HeldByCallIs
<1>19. \A t : Among(p.branches, t) => t \in DOMAIN trees /\ ~HeldAbove(t) /\ ~HeldByTree(t) /\ ~HeldByForest(t) /\ (Pending => t # n)
  BY <1>1, BranchFacts DEF n
<1>20. \A t \in N : t \in Nat /\ t \notin DOMAIN trees
  BY <1>4
<1>21. HeldOnce'
  <2>1. n = Len(trees)
    BY DEF n
  <2>2. \A t : HeldByCall(t)' <=> HeldAbove(t) \/ (depth > 0 /\ t = n)
    BY <1>6, <1>8, <1>16
  <2> HIDE DEF p
  <2> QED
    BY <1>1, <1>3, <1>5, <1>11, <1>12, <1>18, <1>19, <1>20, <2>1, <2>2 DEF HeldOnce
<1> QED
  BY <1>11, <1>16, <1>17, <1>21 DEF PlantInv

LEMMA NoPathStep ==
  ASSUME PlantInv, NoPath
  PROVE  PlantInv'
<1> DEFINE B == <<Len(trees)>>
<1>1. /\ Returned /\ depth > 0 /\ ~Descends(Pusher) /\ depth' = Running
      /\ split(Pusher.branches, Pusher.branchBlocks, Pusher.H) /\ UNCHANGED <<func, forest, parsing, cut, running>>
  BY DEF NoPath
<1>2. calls' = Calling(Refused(Pusher, B, NextH))
  BY DEF NoPath, Refused
<1>3. B = IF depth > 0 THEN <<Len(trees)>> ELSE <<>>
  BY <1>1
<1> HIDE DEF B
<1> QED
  BY <1>1, <1>2, <1>3, RefusedStep

LEMMA SubLoopFailsStep ==
  ASSUME PlantInv, SubLoopFails
  PROVE  PlantInv'
<1> DEFINE B == <<>>
<1>1. /\ Returned /\ depth = 0 /\ depth' = Running
      /\ split(Pusher.branches, Pusher.branchBlocks, Pusher.H) /\ UNCHANGED <<func, forest, parsing, cut, running>>
  BY DEF SubLoopFails
<1>2. calls' = Calling(Refused(Pusher, B, NextH))
  BY DEF SubLoopFails, Failed, Refused
<1>3. B = (IF depth > 0 THEN <<Len(trees)>> ELSE <<>>) /\ (depth > 0 => ~Descends(Pusher))
  BY <1>1
<1> HIDE DEF B
<1> QED
  BY <1>1, <1>2, <1>3, RefusedStep

LEMMA InitializeStep ==
  ASSUME PlantInv, initializeLoopForest
  PROVE  PlantInv'
<1>1. /\ running = "new" /\ calls = <<>> /\ depth = Running /\ trees = <<>> /\ loopForests = <<>>
      /\ UNCHANGED <<func, depth, trees, loopForests, forest, parsing, cut>>
      /\ CallsOK /\ TreesOK /\ HeldOnce /\ ValidFunction(func) /\ ParsingOK /\ PlantedDone /\ func \in Functions
  <2>1. running = "new" /\ CallsOK
    BY DEF initializeLoopForest, PlantInv
  <2>2. calls = <<>> /\ depth = Running /\ trees = <<>> /\ loopForests = <<>>
    BY <2>1 DEF CallsOK
  <2> QED
    BY <2>1, <2>2, Valid DEF initializeLoopForest, PlantInv
<1>2. \/ TopLoops = <<>> /\ running' = "end" /\ calls' = <<>>
      \/ TopLoops # <<>> /\ running' = "plant" /\ calls' = <<Call(0, TopLoops)>>
  BY <1>1 DEF initializeLoopForest
<1>3. /\ Enclosed' = Enclosed /\ TopLoops' = TopLoops /\ CallRecord' = CallRecord /\ RealLoops' = RealLoops
      /\ \A L : Clean(L)' <=> Clean(L)
      /\ \A c : CallOK(c)' <=> CallOK(c)
  BY <1>1, SameFunction, SameCall
<1> DEFINE c == Call(0, TopLoops)
<1>4. TopLoops \in Seq(Loops) /\ Len(TopLoops) \in Nat /\ 0 \in Loops
  BY <1>1, TopFacts, FunctionFacts
<1>5. /\ c.loop = 0 /\ c.subLoops = TopLoops /\ c.i = 1 /\ c.branches = <<>> /\ c.branchBlocks = <<>> /\ c.anyFail = FALSE
      /\ c.H = Spot(0, 1, 1)
  BY DEF Call
<1>6. c \in CallRecord
  <2>1. Spot(0, 1, 1) \in Where /\ <<>> \in Routes /\ <<>> \in Seq(Nat \ {0})
    <3>1. Len(func.subLoops[0]) \in Nat
      BY <1>1, <1>4, FunctionFacts
    <3> QED
      BY <1>4, <3>1, SpotWhere DEF Routes
  <2> QED
    BY <1>4, <2>1 DEF Call, CallRecord
<1> HIDE DEF c
<1>7. CallOK(c)
  BY <1>4, <1>5 DEF CallOK
<1>8. TopLoops # <<>> => Len(TopLoops) > 0
  BY <1>4
<1>9. calls' = <<>> \/ (calls' = <<c>> /\ running' = "plant" /\ TopLoops # <<>>)
  BY <1>2 DEF c
<1>10. /\ calls' \in Seq(CallRecord) /\ \A k \in DOMAIN calls' : k = 1 /\ calls'[k] = c /\ calls'[k].branches = <<>>
       /\ Len(calls') \in 0 .. 1
  <2>1. CASE calls' = <<>>
    BY <2>1
  <2>2. CASE calls' = <<c>>
    <3>1. calls' \in Seq(CallRecord) /\ Len(calls') = 1
      BY <1>6, <2>2
    <3>2. \A k \in DOMAIN calls' : k = 1 /\ calls'[k] = c
      BY <2>2
    <3> QED
      BY <1>5, <3>1, <3>2
  <2> QED
    BY <1>9, <2>1, <2>2
<1>11. TreesOK' /\ TreesOnce' /\ ForestsOnce' /\ PlantedOnce'
  <2>1. TreesOK'
    BY <1>1, SameTreesOK DEF TreesOK
  <2> QED
    BY <1>1, <2>1 DEF PlantInv, TreesOnce, ForestsOnce, PlantedOnce
<1>12. CallsOnce' /\ \A t : ~HeldByCall(t)'
  BY <1>10 DEF CallsOnce, HeldByCall
<1>13. HeldOnce'
  <2>1. ~Pending /\ ~Pending' /\ \A t : ~HeldByCall(t)
    BY <1>1 DEF Pending, Running, HeldByCall
  <2>2. \A t : (HeldByTree(t)' <=> HeldByTree(t)) /\ (HeldByForest(t)' <=> HeldByForest(t))
    BY <1>1 DEF HeldByTree, HeldByForest
  <2> QED
    BY <1>1, <1>12, <2>1, <2>2 DEF HeldOnce
<1>14. CallsOK'
  <2>1. Nested' /\ \A k \in DOMAIN calls' : CallOK(calls[k])'
    BY <1>3, <1>7, <1>10 DEF Nested
  <2>2. \A k \in 1 .. Len(calls') - 1 : Made(calls[k], calls[k + 1])'
    BY <1>10
  <2>3. calls' # <<>> => calls'[1].loop = 0 /\ calls'[1].subLoops = TopLoops /\ TopLoops # <<>>
    BY <1>5, <1>9
  <2>4. depth' = Running
    BY <1>1
  <2>5. /\ calls' # <<>> => running' = "plant"
        /\ running' # "new" /\ (running' = "plant" => calls' # <<>>)
    BY <1>2
  <2> QED
    BY <1>3, <1>10, <2>1, <2>2, <2>3, <2>4, <2>5 DEF CallsOK
<1>15. PlantedDone'
  <2>1. \A L : TreesOf(L)' = {}
    BY <1>1 DEF TreesOf
  <2>2. ASSUME NEW L PROVE ~Done(L)'
    <3>1. \A k \in DOMAIN calls' : calls'[k].i = 1
      BY <1>5, <1>10
    <3>2. depth' = Running
      BY <1>1
    <3>3. running' # "new" /\ calls' = <<>> => Elements(TopLoops)' = {}
      BY <1>2, <1>3 DEF Elements
    <3> QED
      BY <3>1, <3>2, <3>3 DEF Done
  <2> QED
    BY <2>1, <2>2 DEF PlantedDone
<1>16. ParsingOK'
  <2>1. parsing = <<>> /\ cut = NoTree
    BY <1>1 DEF ParsingOK
  <2>2. running' \in {"new", "plant", "parse", "end", "undefined"}
    BY <1>2
  <2> QED
    BY <1>1, <2>1, <2>2 DEF ParsingOK, IsSequence
<1> QED
  BY <1>1, <1>11, <1>12, <1>13, <1>14, <1>15, <1>16 DEF PlantInv

LEMMA PushSubLoopStep ==
  ASSUME PlantInv, PushSubLoop
  PROVE  PlantInv'
<1>1. /\ running = "plant" /\ depth = Running /\ Pusher.i <= Len(Pusher.subLoops)
      /\ UNCHANGED <<func, depth, trees, loopForests, forest, parsing, cut, running>>
      /\ CallsOK /\ TreesOK /\ HeldOnce /\ ValidFunction(func) /\ func \in Functions /\ PlantedDone /\ CallsOnce
  BY Valid DEF PushSubLoop, Descending, PlantInv
<1>2. calls # <<>>
  BY <1>1 DEF CallsOK
<1> DEFINE n == Len(calls)
           X == Pusher.subLoops[Pusher.i]
           c == Call(X, func.subLoops[X])
<1>3. calls' = Append(calls, c)
  BY DEF PushSubLoop
<1>4. /\ n \in Nat /\ n > 0 /\ DOMAIN calls = 1 .. n /\ Pusher = calls[n] /\ Pusher.i \in Nat \ {0} /\ calls \in Seq(CallRecord)
      /\ n \in DOMAIN calls /\ Pusher.i \in DOMAIN Pusher.subLoops /\ Pusher.loop \in Loops
  BY <1>1, <1>2, PusherFacts DEF CallsOK
<1>5. X \in Loops /\ Pusher.loop < X /\ X # 0
  BY <1>4, CallLoops
<1>6. /\ c.loop = X /\ c.subLoops = func.subLoops[X] /\ c.i = 1 /\ c.branches = <<>> /\ c.branchBlocks = <<>> /\ c.anyFail = FALSE
      /\ c.H = Spot(X, 1, 1)
  <2> HIDE DEF X
  <2> QED
    BY DEF Call
<1> HIDE DEF X, n
<1>7. func.subLoops[X] \in Seq(Loops) /\ Len(func.subLoops[X]) \in Nat
  BY <1>1, <1>5, FunctionFacts
<1>8. c \in CallRecord
  <2>1. Spot(X, 1, 1) \in Where /\ <<>> \in Routes /\ <<>> \in Seq(Nat \ {0})
    BY <1>5, <1>7, SpotWhere DEF Routes
  <2> QED
    BY <1>5, <1>7, <2>1 DEF Call, CallRecord
<1> HIDE DEF c
<1>9. CallOK(c)
  BY <1>6, <1>7 DEF CallOK
<1>10. /\ calls' \in Seq(CallRecord) /\ DOMAIN calls' = 1 .. n + 1 /\ Len(calls') = n + 1
       /\ calls'[n + 1] = c /\ \A k \in 1 .. n : calls'[k] = calls[k]
  BY <1>3, <1>4, <1>8 DEF n
<1>11. /\ Enclosed' = Enclosed /\ TopLoops' = TopLoops /\ CallRecord' = CallRecord /\ RealLoops' = RealLoops
       /\ \A L : Clean(L)' <=> Clean(L)
       /\ \A d : CallOK(d)' <=> CallOK(d)
  BY <1>1, SameFunction, SameCall
<1>12. \A k : k \in 1 .. n + 1 <=> k \in 1 .. n \/ k = n + 1
  BY <1>4
<1>13. TreesOK' /\ TreesOnce' /\ ForestsOnce' /\ PlantedOnce'
  <2>1. TreesOK'
    BY <1>1, SameTreesOK DEF TreesOK
  <2> QED
    BY <1>1, <2>1 DEF PlantInv, TreesOnce, ForestsOnce, PlantedOnce
<1>14. \A t : HeldByCall(t)' <=> HeldByCall(t)
  BY <1>4, <1>6, <1>10, <1>12 DEF HeldByCall
<1>15. CallsOnce'
  <2>1. DOMAIN c.branches = {}
    BY <1>6
  <2>2. \A k \in DOMAIN calls' : (k \in 1 .. n /\ calls'[k] = calls[k]) \/ (k = n + 1 /\ calls'[k] = c)
    BY <1>10, <1>12
  <2> QED
    BY <1>1, <1>4, <2>1, <2>2 DEF CallsOnce
<1>16. HeldOnce'
  <2>1. ~Pending /\ ~Pending'
    BY <1>1 DEF Pending, Running
  <2>2. \A t : (HeldByTree(t)' <=> HeldByTree(t)) /\ (HeldByForest(t)' <=> HeldByForest(t))
    BY <1>1 DEF HeldByTree, HeldByForest
  <2> QED
    BY <1>1, <1>14, <2>1, <2>2 DEF HeldOnce
<1>17. CallsOK'
  <2>1. Nested'
    <3>1. X \in Enclosed[X]
      BY <1>1, <1>5, EnclosedFacts
    <3>2. ASSUME NEW m \in 1 .. n - 1 PROVE X \in Enclosed[calls[m].subLoops[calls[m].i]]
      <4> DEFINE Y == calls[m].subLoops[calls[m].i]
      <4>1. m \in DOMAIN calls /\ m < n /\ n # 1 /\ m \in 1 .. Len(calls) - 1
        BY <1>4 DEF n
      <4>2. Pusher.loop \in Enclosed[Y]
        BY <1>1, <1>4, <4>1 DEF CallsOK, Nested
      <4>3. calls[m].i \in DOMAIN calls[m].subLoops
        <5>1. Made(calls[m], calls[m + 1])
          BY <1>1, <4>1 DEF CallsOK
        <5>2. calls[m].i <= Len(calls[m].subLoops)
          BY <5>1 DEF Made
        <5> QED
          BY <1>1, <4>1, <5>2, CallFacts
      <4>4. Y \in Loops
        BY <4>1, <4>3, CallLoops
      <4>5. Pusher.subLoops = func.subLoops[Pusher.loop]
        BY <1>4, <4>1, CallSubLoops
      <4> HIDE DEF Y
      <4>6. X \in Enclosed[Y]
        BY <1>1, <1>4, <4>2, <4>4, <4>5, EnclosedFacts DEF X
      <4> QED
        BY <4>6 DEF Y
    <3>3. \A m, k \in DOMAIN calls : m < k => calls[k].loop \in Enclosed[calls[m].subLoops[calls[m].i]]
      BY <1>1 DEF CallsOK, Nested
    <3>4. Enclosed[calls[n].subLoops[calls[n].i]] = Enclosed[X]
      BY <1>4 DEF X
    <3> SUFFICES ASSUME NEW m \in DOMAIN calls', NEW k \in DOMAIN calls', m < k
                 PROVE  calls'[k].loop \in Enclosed[calls'[m].subLoops[calls'[m].i]]
      BY <1>11 DEF Nested
    <3>5. m \in 1 .. n /\ calls'[m] = calls[m]
      BY <1>4, <1>10
    <3>6. CASE k \in 1 .. n
      BY <1>4, <1>10, <3>3, <3>5, <3>6
    <3>7. CASE k = n + 1
      <4>1. m \in 1 .. n - 1 \/ m = n
        BY <1>4, <3>5
      <4>2. calls'[k].loop = X
        BY <1>6, <1>10, <3>7
      <4> QED
        BY <3>1, <3>2, <3>4, <3>5, <4>1, <4>2
    <3> QED
      BY <1>10, <1>12, <3>6, <3>7
  <2>2. \A k \in DOMAIN calls' : CallOK(calls[k])'
    <3>1. \A k \in 1 .. n : CallOK(calls[k])
      BY <1>1, <1>4 DEF CallsOK
    <3> QED
      BY <1>9, <1>10, <1>11, <1>12, <3>1
  <2>3. \A k \in 1 .. Len(calls') - 1 : Made(calls[k], calls[k + 1])'
    <3>1. \A k : k \in 1 .. Len(calls') - 1 <=> k \in 1 .. n - 1 \/ k = n
      BY <1>4, <1>10
    <3>2. \A k \in 1 .. n - 1 : Made(calls[k], calls[k + 1]) /\ calls'[k] = calls[k] /\ calls'[k + 1] = calls[k + 1]
      <4>1. \A k \in 1 .. n - 1 : Made(calls[k], calls[k + 1])
        BY <1>1 DEF CallsOK, n
      <4>2. \A k \in 1 .. n - 1 : k \in 1 .. n /\ k + 1 \in 1 .. n
        BY <1>4
      <4> QED
        BY <1>10, <4>1, <4>2
    <3>3. Made(calls[n], c)
      BY <1>1, <1>4, <1>6 DEF Made, X
    <3>4. n \in 1 .. n
      BY <1>4
    <3> QED
      BY <1>1, <1>10, <3>1, <3>2, <3>3, <3>4 DEF Made
  <2>4. calls' # <<>> /\ calls'[1].loop = 0 /\ calls'[1].subLoops = TopLoops /\ TopLoops # <<>>
    <3>1. 1 \in 1 .. n
      BY <1>4
    <3>2. calls' # <<>>
      BY <1>4, <1>10
    <3> QED
      BY <1>1, <1>2, <1>10, <3>1, <3>2 DEF CallsOK
  <2> QED
    BY <1>1, <1>10, <1>11, <2>1, <2>2, <2>3, <2>4 DEF CallsOK
<1>18. PlantedDone'
  <2>1. ASSUME NEW L PROVE Done(L)' <=> Done(L)
    <3>1. calls' # <<>>
      BY <1>4, <1>10
    <3>2. c.i = 1
      BY <1>6
    <3>3. Done(L) <=> \E k \in 1 .. n : \E j \in 1 .. calls[k].i - 1 : L \in Enclosed[calls[k].subLoops[j]]
      BY <1>1, <1>2, <1>4 DEF Done
    <3>4. Done(L)' <=> \E k \in 1 .. n + 1 : \E j \in 1 .. calls'[k].i - 1 : L \in Enclosed[calls'[k].subLoops[j]]
      BY <1>1, <1>10, <1>11, <3>1 DEF Done
    <3>5. ~\E j \in 1 .. calls'[n + 1].i - 1 : L \in Enclosed[calls'[n + 1].subLoops[j]]
      BY <1>10, <3>2
    <3> QED
      BY <1>10, <1>12, <3>3, <3>4, <3>5
  <2>2. \A L : TreesOf(L)' = TreesOf(L)
    BY <1>1 DEF TreesOf
  <2> QED
    BY <1>1, <1>11, <2>1, <2>2 DEF PlantedDone
<1>19. ParsingOK'
  <2>1. running' \in {"new", "plant", "parse", "end", "undefined"} /\ Len(loopForests) \in Nat
    BY <1>1 DEF TreesOK
  <2> QED
    BY <1>1, <1>2, <2>1, NotParsed
<1> QED
  BY <1>1, <1>13, <1>15, <1>16, <1>17, <1>18, <1>19 DEF PlantInv

----------------------------------------------------------------------------
(* Each step of LinkParents and parseNest.                                 *)

\* The trees hold what they held.
LEMMA SameShape ==
  ASSUME PlantInv, func' = func, loopForests' = loopForests,
         NEW F, trees' = [t \in DOMAIN trees |-> F[t]],
         \A t \in DOMAIN trees : /\ F[t] \in TreeRecord /\ F[t].loop = trees[t].loop /\ F[t].subLoops = trees[t].subLoops
                                 /\ F[t].paths = trees[t].paths /\ F[t].parentLoop <= Len(trees)
  PROVE  /\ TreesOK' /\ TreesOnce' /\ PlantedOnce' /\ DOMAIN trees' = DOMAIN trees /\ Len(trees') = Len(trees)
         /\ \A t : HeldByTree(t)' <=> HeldByTree(t)
         /\ \A L : TreesOf(L)' = TreesOf(L)
<1>1. TreesOK /\ TreesOnce /\ PlantedOnce
  BY DEF PlantInv
<1> DEFINE n == Len(trees)
<1>2. DOMAIN trees = 1 .. n /\ n \in Nat /\ loopForests \in Seq(DOMAIN trees)
  BY <1>1 DEF TreesOK
<1>3. DOMAIN trees' = 1 .. n /\ \A t \in 1 .. n : trees'[t] = F[t]
  BY <1>2
<1>4. trees' \in Seq(TreeRecord) /\ Len(trees') = n
  <2>1. trees' = [t \in 1 .. n |-> F[t]]
    BY <1>2
  <2>2. \A t \in 1 .. n : F[t] \in TreeRecord
    BY <1>2
  <2> HIDE DEF n
  <2> QED
    BY <1>2, <2>1, <2>2
<1> HIDE DEF n
<1>5. TreeRecord' = TreeRecord /\ (AllUnbroken' <=> AllUnbroken)
  BY SameFunction
<1>6. ASSUME NEW t \in 1 .. n PROVE TreeOK(t)'
  <2>1. TreeOK(t)
    BY <1>1, <1>2 DEF TreesOK
  <2>2. /\ trees'[t].subLoops = trees[t].subLoops /\ trees'[t].paths = trees[t].paths
        /\ trees'[t].parentLoop <= Len(trees')
    BY <1>2, <1>3, <1>4 DEF n
  <2> QED
    BY <1>5, <2>1, <2>2 DEF TreeOK
<1>7. TreesOK'
  BY <1>2, <1>3, <1>4, <1>5, <1>6 DEF TreesOK
<1>8. TreesOnce'
  BY <1>1, <1>2, <1>3 DEF TreesOnce
<1>9. PlantedOnce'
  BY <1>1, <1>2, <1>3 DEF PlantedOnce
<1>10. \A t : HeldByTree(t)' <=> HeldByTree(t)
  BY <1>2, <1>3 DEF HeldByTree
<1>11. \A L : TreesOf(L)' = TreesOf(L)
  BY <1>2, <1>3 DEF TreesOf
<1> QED
  BY <1>2, <1>3, <1>4, <1>7, <1>8, <1>9, <1>10, <1>11 DEF n

\* The calls of pushLoopTree are over.
LEMMA NoCalls ==
  ASSUME CallsOK, calls = <<>>, running # "new", func' = func, calls' = <<>>, depth' = depth,
         running' \in {"parse", "end", "undefined"}
  PROVE  /\ CallsOK' /\ CallsOnce'
         /\ \A t : ~HeldByCall(t) /\ ~HeldByCall(t)'
         /\ ~Pending /\ ~Pending'
         /\ \A L : Done(L)' <=> Done(L)
<1>1. depth \in Nat \union {Running}
  BY DEF CallsOK
<1>2. CallRecord' = CallRecord /\ TopLoops' = TopLoops /\ Enclosed' = Enclosed
  BY SameFunction
<1>3. DOMAIN calls = {} /\ DOMAIN calls' = {} /\ Len(calls') = 0
  OBVIOUS
<1>4. CallsOnce' /\ \A t : ~HeldByCall(t) /\ ~HeldByCall(t)'
  BY <1>3 DEF CallsOnce, HeldByCall
<1>5. ~Pending /\ ~Pending'
  BY DEF Pending
<1>6. \A L : Done(L)' <=> Done(L)
  BY <1>2, <1>3 DEF Done, Elements
<1>7. CallsOK'
  BY <1>1, <1>2, <1>3 DEF CallsOK, Nested
<1> QED
  BY <1>4, <1>5, <1>6, <1>7

LEMMA LinkParentsStep ==
  ASSUME PlantInv, LinkParents
  PROVE  PlantInv'
<1>1. /\ running = "plant" /\ calls = <<>> /\ running' \in {"end", "parse"}
      /\ trees' = [t \in DOMAIN trees |-> [trees[t] EXCEPT !.parentLoop = Parent(t)]]
      /\ UNCHANGED <<func, calls, depth, loopForests, forest, parsing, cut>>
      /\ CallsOK /\ TreesOK /\ HeldOnce /\ ForestsOnce /\ PlantedDone /\ ParsingOK /\ func \in Functions
  BY DEF LinkParents, PlantInv
<1> DEFINE F == [t \in DOMAIN trees |-> [trees[t] EXCEPT !.parentLoop = Parent(t)]]
<1>2. ASSUME NEW t \in DOMAIN trees
      PROVE  /\ F[t] \in TreeRecord /\ F[t].loop = trees[t].loop /\ F[t].subLoops = trees[t].subLoops
             /\ F[t].paths = trees[t].paths /\ F[t].parentLoop <= Len(trees)
  <2>1. Parent(t) \in Nat /\ Parent(t) <= Len(trees)
    <3> DEFINE of == {p \in DOMAIN trees : \E i \in DOMAIN trees[p].subLoops : trees[p].subLoops[i] = t}
    <3>1. Parent(t) = IF of = {} THEN NoTree ELSE CHOOSE p \in of : TRUE
      BY DEF Parent
    <3>2. of \subseteq 1 .. Len(trees) /\ Len(trees) \in Nat
      BY <1>1 DEF TreesOK
    <3> HIDE DEF of
    <3>3. CASE of = {}
      BY <3>1, <3>2, <3>3 DEF NoTree
    <3>4. CASE of # {}
      <4>1. Parent(t) \in of
        BY <3>1, <3>4
      <4>2. Parent(t) \in 1 .. Len(trees)
        BY <3>2, <4>1
      <4> DEFINE n == Len(trees)
      <4> HIDE DEF n
      <4>3. Parent(t) \in 1 .. n /\ n \in Nat
        BY <3>2, <4>2 DEF n
      <4> QED
        BY <4>3 DEF n
    <3> QED
      BY <3>3, <3>4
  <2>2. trees[t] \in TreeRecord
    BY <1>1, TreeFacts
  <2> QED
    BY <2>1, <2>2 DEF TreeRecord
<1>3. trees' = [t \in DOMAIN trees |-> F[t]]
  BY <1>1
<1> HIDE DEF F
<1>4. /\ TreesOK' /\ TreesOnce' /\ PlantedOnce' /\ DOMAIN trees' = DOMAIN trees /\ Len(trees') = Len(trees)
      /\ \A t : HeldByTree(t)' <=> HeldByTree(t)
      /\ \A L : TreesOf(L)' = TreesOf(L)
  BY <1>1, <1>2, <1>3, SameShape
<1>5. /\ CallsOK' /\ CallsOnce'
      /\ \A t : ~HeldByCall(t) /\ ~HeldByCall(t)'
      /\ ~Pending /\ ~Pending'
      /\ \A L : Done(L)' <=> Done(L)
  BY <1>1, NoCalls
<1>6. ForestsOnce' /\ \A t : HeldByForest(t)' <=> HeldByForest(t)
  BY <1>1 DEF ForestsOnce, HeldByForest
<1>7. HeldOnce'
  BY <1>1, <1>4, <1>5, <1>6 DEF HeldOnce
<1>8. PlantedDone'
  <2>1. RealLoops' = RealLoops /\ \A L : Clean(L)' <=> Clean(L)
    BY <1>1, SameFunction
  <2> QED
    BY <1>1, <1>4, <1>5, <2>1 DEF PlantedDone
<1>9. ParsingOK'
  <2>1. parsing = <<>> /\ cut = NoTree
    BY <1>1 DEF ParsingOK
  <2> QED
    BY <1>1, <2>1 DEF ParsingOK, IsSequence
<1> QED
  BY <1>1, <1>4, <1>5, <1>6, <1>7, <1>8, <1>9 DEF PlantInv

\* Each step of parseNest leaves what is planted.
LEMMA ParseStep ==
  ASSUME PlantInv, running = "parse", UNCHANGED <<func, calls, depth, trees, loopForests>>,
         running' \in {"parse", "end", "undefined"}, ParsingOK'
  PROVE  PlantInv'
<1>1. CallsOK /\ TreesOK /\ TreesOnce /\ HeldOnce /\ ForestsOnce /\ PlantedOnce /\ PlantedDone /\ func \in Functions /\ calls = <<>>
  BY DEF PlantInv, CallsOK
<1>2. /\ CallsOK' /\ CallsOnce'
      /\ \A t : ~HeldByCall(t) /\ ~HeldByCall(t)'
      /\ ~Pending /\ ~Pending'
      /\ \A L : Done(L)' <=> Done(L)
  BY <1>1, NoCalls
<1>3. TreesOK' /\ TreesOnce' /\ ForestsOnce' /\ PlantedOnce'
  <2>1. TreesOK'
    BY <1>1, SameTreesOK DEF TreesOK
  <2> QED
    BY <1>1, <2>1 DEF TreesOnce, ForestsOnce, PlantedOnce
<1>4. HeldOnce'
  <2>1. \A t : (HeldByTree(t)' <=> HeldByTree(t)) /\ (HeldByForest(t)' <=> HeldByForest(t))
    BY DEF HeldByTree, HeldByForest
  <2> QED
    BY <1>1, <1>2, <2>1 DEF HeldOnce
<1>5. PlantedDone'
  <2>1. RealLoops' = RealLoops /\ (\A L : Clean(L)' <=> Clean(L)) /\ \A L : TreesOf(L)' = TreesOf(L)
    BY SameFunction DEF TreesOf
  <2> QED
    BY <1>1, <1>2, <2>1 DEF PlantedDone
<1> QED
  BY <1>1, <1>2, <1>3, <1>4, <1>5 DEF PlantInv


\* A call of parseLoop is made or replaced at the end.
LEMMA AppendParse ==
  ASSUME NEW b, IsSequence(b), \A k \in 1 .. Len(b) : ParseOK(b[k]), NEW x, ParseOK(x)
  PROVE  /\ IsSequence(Append(b, x)) /\ \A k \in 1 .. Len(Append(b, x)) : ParseOK(Append(b, x)[k])
<1> DEFINE S == {b[k] : k \in 1 .. Len(b)} \union {x}
           n == Len(b)
           a == Append(b, x)
<1>1. n \in Nat /\ b = [k \in 1 .. n |-> b[k]]
  BY DEF IsSequence
<1>2. b \in Seq(S) /\ x \in S
  <2>1. \A k \in 1 .. n : b[k] \in S
    OBVIOUS
  <2> HIDE DEF S, n
  <2> QED
    BY <1>1, <2>1 DEF S
<1>3. a \in Seq(S) /\ Len(a) = n + 1 /\ a[n + 1] = x /\ \A k \in 1 .. n : a[k] = b[k]
  <2> HIDE DEF S
  <2> QED
    BY <1>1, <1>2
<1> HIDE DEF a, S, n
<1>4. IsSequence(a)
  BY <1>3 DEF IsSequence
<1>5. \A k \in 1 .. Len(a) : ParseOK(a[k])
  <2>1. \A k : k \in 1 .. n + 1 <=> k \in 1 .. n \/ k = n + 1
    BY <1>1
  <2> QED
    BY <1>3, <2>1 DEF n
<1> QED
  BY <1>4, <1>5 DEF a

LEMMA CutParse ==
  ASSUME NEW b, IsSequence(b), \A k \in 1 .. Len(b) : ParseOK(b[k]), NEW m \in 0 .. Len(b)
  PROVE  /\ IsSequence(SubSeq(b, 1, m)) /\ \A k \in 1 .. Len(SubSeq(b, 1, m)) : ParseOK(SubSeq(b, 1, m)[k])
<1> DEFINE S == {b[k] : k \in 1 .. Len(b)}
           n == Len(b)
           a == SubSeq(b, 1, m)
<1>1. n \in Nat /\ b = [k \in 1 .. n |-> b[k]]
  BY DEF IsSequence
<1>2. b \in Seq(S)
  <2>1. \A k \in 1 .. n : b[k] \in S
    OBVIOUS
  <2> HIDE DEF S, n
  <2> QED
    BY <1>1, <2>1 DEF S
<1>3. a \in Seq(S) /\ Len(a) = m /\ \A k \in 1 .. m : a[k] = b[k]
  <2> HIDE DEF S
  <2> QED
    BY <1>1, <1>2
<1> HIDE DEF a, S
<1>4. IsSequence(a)
  BY <1>3 DEF IsSequence
<1>5. \A k \in 1 .. m : k \in 1 .. Len(b)
  BY <1>1
<1> QED
  BY <1>3, <1>4, <1>5 DEF a

LEMMA ParserFacts ==
  ASSUME PlantInv, running = "parse", parsing # <<>>
  PROVE  /\ Len(parsing) \in Nat /\ Len(parsing) > 0 /\ Parser = parsing[Len(parsing)] /\ ParseOK(Parser)
         /\ IsSequence(parsing) /\ \A k \in 1 .. Len(parsing) : ParseOK(parsing[k])
         /\ IsSequence(Butlast(parsing)) /\ \A k \in 1 .. Len(Butlast(parsing)) : ParseOK(Butlast(parsing)[k])
<1>1. IsSequence(parsing) /\ \A k \in 1 .. Len(parsing) : ParseOK(parsing[k])
  BY DEF PlantInv, ParsingOK
<1>2. Len(parsing) \in Nat /\ Len(parsing) > 0
  BY <1>1 DEF IsSequence
<1>3. Parser = parsing[Len(parsing)] /\ ParseOK(Parser)
  BY <1>1, <1>2 DEF Parser, LastOf
<1>4. Len(parsing) - 1 \in 0 .. Len(parsing)
  BY <1>2
<1>5. IsSequence(Butlast(parsing)) /\ \A k \in 1 .. Len(Butlast(parsing)) : ParseOK(Butlast(parsing)[k])
  BY <1>1, <1>4, CutParse DEF Butlast
<1> QED
  BY <1>1, <1>2, <1>3, <1>5

LEMMA NewParse ==
  ASSUME NEW t \in DOMAIN trees, NEW i \in Nat \ {0}
  PROVE  ParseOK(Parse(t, i)) /\ Parse(t, i).tree = t /\ Parse(t, i).i = i
  BY DEF Parse, ParseOK

\* What is parsed is a tree.
LEMMA ParsingNext ==
  ASSUME PlantInv, running = "parse", UNCHANGED <<func, calls, depth, trees, loopForests>>,
         running' \in {"parse", "end", "undefined"},
         forest' = <<>> \/ (forest' \in (Nat \ {0}) \X Nat /\ forest'[2] <= Len(loopForests)),
         cut' = NoTree \/ cut' \in DOMAIN trees,
         NEW q, parsing' = q, IsSequence(q), \A k \in 1 .. Len(q) : ParseOK(q[k])
  PROVE  ParsingOK'
<1>1. \A e : ParseOK(e)' <=> ParseOK(e)
  BY DEF ParseOK
<1>2. calls' = <<>>
  BY DEF PlantInv, CallsOK
<1>3. IsSequence(parsing)' /\ \A k \in 1 .. Len(parsing') : ParseOK(parsing[k])'
  BY <1>1 DEF IsSequence
<1> QED
  BY <1>2, <1>3 DEF ParsingOK

LEMMA ParseForestStep ==
  ASSUME PlantInv, ParseForest
  PROVE  PlantInv'
<1> DEFINE f == IF forest = <<>> THEN <<1, Len(loopForests)>> ELSE <<forest[1] + 1, forest[2]>>
<1>1. /\ running = "parse" /\ cut = NoTree /\ parsing = <<>> /\ UNCHANGED <<func, calls, depth, trees, loopForests, cut>>
      /\ TreesOK /\ ParsingOK
  BY DEF ParseForest, Parsing, PlantInv
<1>2. \/ f[1] > f[2] /\ running' = "end" /\ forest' = forest /\ parsing' = parsing
      \/ ~(f[1] > f[2]) /\ forest' = f /\ parsing' = <<Parse(loopForests[f[1]], 1)>> /\ running' = running
  BY DEF ParseForest
<1>3. loopForests \in Seq(DOMAIN trees) /\ Len(loopForests) \in Nat
  BY <1>1 DEF TreesOK
<1>4. f \in (Nat \ {0}) \X Nat /\ f[2] <= Len(loopForests)
  <2>1. CASE forest = <<>>
    <3>1. f = <<1, Len(loopForests)>>
      BY <2>1
    <3> HIDE DEF f
    <3> QED
      BY <1>3, <3>1
  <2>2. CASE forest # <<>>
    <3>1. forest \in (Nat \ {0}) \X Nat /\ forest[2] <= Len(loopForests)
      BY <1>1, <2>2 DEF ParsingOK
    <3>2. f = <<forest[1] + 1, forest[2]>>
      BY <2>2
    <3> HIDE DEF f
    <3> QED
      BY <1>3, <3>1, <3>2
  <2> QED
    BY <2>1, <2>2
<1>5. running' \in {"parse", "end", "undefined"}
  BY <1>1, <1>2
<1>6. forest' = <<>> \/ (forest' \in (Nat \ {0}) \X Nat /\ forest'[2] <= Len(loopForests))
  <2> HIDE DEF f
  <2> QED
    BY <1>1, <1>2, <1>4 DEF ParsingOK
<1> HIDE DEF f
<1>7. IsSequence(parsing') /\ \A k \in 1 .. Len(parsing') : ParseOK(parsing'[k])
  <2>1. CASE parsing' = parsing
    BY <1>1, <2>1 DEF ParsingOK
  <2>2. CASE ~(f[1] > f[2]) /\ parsing' = <<Parse(loopForests[f[1]], 1)>>
    <3> DEFINE t == loopForests[f[1]]
    <3>1. t \in DOMAIN trees
      <4>1. f[1] \in 1 .. Len(loopForests)
        BY <1>3, <1>4, <2>2
      <4> QED
        BY <1>3, <4>1
    <3> DEFINE x == Parse(t, 1)
    <3>2. ParseOK(x)
      BY <3>1, NewParse
    <3>3. parsing' = <<x>>
      BY <2>2
    <3> HIDE DEF x
    <3> QED
      BY <3>2, <3>3 DEF IsSequence
  <2> QED
    BY <1>2, <2>1, <2>2
<1>8. cut' = NoTree
  BY <1>1
<1> DEFINE q == parsing'
<1>9. ParsingOK'
  BY <1>1, <1>5, <1>6, <1>7, <1>8, ParsingNext
<1> QED
  BY <1>1, <1>5, <1>9, ParseStep

LEMMA ParseBBStep ==
  ASSUME PlantInv, parseBB
  PROVE  PlantInv'
<1>1. /\ running = "parse" /\ cut = NoTree /\ parsing # <<>> /\ UNCHANGED <<func, calls, depth, trees, loopForests, forest>>
      /\ ParsingOK
  BY DEF parseBB, Parsing, PlantInv
<1> DEFINE x == [Parser EXCEPT !.blocks = Tail(@)]
<1>2. /\ parsing' = Append(Butlast(parsing), x)
      /\ cut' \in {cut, Parser.tree, NoTree}
      /\ running' \in {running, "undefined"}
  BY DEF parseBB
<1>3. ParseOK(Parser) /\ IsSequence(Butlast(parsing)) /\ \A k \in 1 .. Len(Butlast(parsing)) : ParseOK(Butlast(parsing)[k])
  BY <1>1, ParserFacts
<1>4. ParseOK(x)
  <2> DEFINE e == Parser
  <2>1. ParseOK(e) /\ x = [e EXCEPT !.blocks = Tail(e.blocks)]
    BY <1>3
  <2> HIDE DEF e, x
  <2>2. e = [tree |-> e.tree, i |-> e.i, blocks |-> e.blocks] /\ e.tree \in DOMAIN trees /\ e.i \in Nat \ {0}
    BY <2>1 DEF ParseOK
  <2>3. x = [tree |-> e.tree, i |-> e.i, blocks |-> Tail(e.blocks)]
    BY <2>1, <2>2
  <2>4. x.tree = e.tree /\ x.i = e.i /\ x.blocks = Tail(e.blocks)
    BY <2>3
  <2> QED
    BY <2>2, <2>3, <2>4 DEF ParseOK
<1>5. IsSequence(parsing') /\ \A k \in 1 .. Len(parsing') : ParseOK(parsing'[k])
  <2> DEFINE b == Butlast(parsing)
  <2> HIDE DEF b, x
  <2> QED
    BY <1>2, <1>3, <1>4, AppendParse DEF b
<1>6. cut' = NoTree \/ cut' \in DOMAIN trees
  BY <1>1, <1>2, <1>3 DEF ParseOK
<1>7. running' \in {"parse", "end", "undefined"}
  BY <1>1, <1>2
<1>8. forest' = <<>> \/ (forest' \in (Nat \ {0}) \X Nat /\ forest'[2] <= Len(loopForests))
  BY <1>1 DEF ParsingOK
<1>9. ParsingOK'
  BY <1>1, <1>5, <1>6, <1>7, <1>8, ParsingNext
<1> QED
  BY <1>1, <1>7, <1>9, ParseStep

LEMMA ParseSubLoopStep ==
  ASSUME PlantInv, ParseSubLoop
  PROVE  PlantInv'
<1>1. /\ running = "parse" /\ cut = NoTree /\ parsing # <<>> /\ UNCHANGED <<func, calls, depth, trees, loopForests, forest, cut, running>>
      /\ Parser.i <= Len(trees[Parser.tree].subLoops)
      /\ ParsingOK /\ TreesOK
  BY DEF ParseSubLoop, Parsing, PlantInv
<1> DEFINE t == Parser.tree
           u == trees[t].subLoops[Parser.i]
<1>2. parsing' = Append(parsing, Parse(u, 1))
  BY DEF ParseSubLoop
<1>3. ParseOK(Parser) /\ IsSequence(parsing) /\ \A k \in 1 .. Len(parsing) : ParseOK(parsing[k])
  BY <1>1, ParserFacts
<1>4. u \in DOMAIN trees
  <2>1. t \in DOMAIN trees /\ Parser.i \in Nat \ {0}
    BY <1>3 DEF ParseOK
  <2> HIDE DEF t
  <2>2. trees[t].subLoops \in Seq(DOMAIN trees) /\ DOMAIN trees[t].subLoops = 1 .. Len(trees[t].subLoops)
        /\ Len(trees[t].subLoops) \in Nat
    BY <1>1, <2>1, TreeFacts
  <2>3. Parser.i \in DOMAIN trees[t].subLoops
    BY <1>1, <2>1, <2>2 DEF t
  <2> QED
    BY <2>2, <2>3
<1>5. ParseOK(Parse(u, 1))
  BY <1>4, NewParse
<1>6. IsSequence(parsing') /\ \A k \in 1 .. Len(parsing') : ParseOK(parsing'[k])
  <2> DEFINE x == Parse(u, 1)
  <2> HIDE DEF x
  <2> QED
    BY <1>2, <1>3, <1>5, AppendParse DEF x
<1>7. cut' = NoTree /\ running' \in {"parse", "end", "undefined"}
  BY <1>1
<1>8. forest' = <<>> \/ (forest' \in (Nat \ {0}) \X Nat /\ forest'[2] <= Len(loopForests))
  BY <1>1 DEF ParsingOK
<1>9. ParsingOK'
  BY <1>1, <1>6, <1>7, <1>8, ParsingNext
<1> QED
  BY <1>1, <1>7, <1>9, ParseStep

LEMMA ParsedLoopStep ==
  ASSUME PlantInv, ParsedLoop
  PROVE  PlantInv'
<1>1. /\ running = "parse" /\ cut = NoTree /\ parsing # <<>> /\ UNCHANGED <<func, calls, depth, trees, loopForests, forest, cut, running>>
      /\ ParsingOK
  BY DEF ParsedLoop, Parsing, PlantInv
<1>2. /\ IsSequence(parsing) /\ \A k \in 1 .. Len(parsing) : ParseOK(parsing[k])
      /\ Len(parsing) \in Nat /\ Len(parsing) > 0
  BY <1>1, ParserFacts
<1>3. IsSequence(parsing') /\ \A k \in 1 .. Len(parsing') : ParseOK(parsing'[k])
  <2>1. CASE Len(parsing) = 1
    <3>1. parsing' = <<>>
      BY <2>1 DEF ParsedLoop
    <3> QED
      BY <3>1 DEF IsSequence
  <2>2. CASE Len(parsing) # 1
    <3> DEFINE m == Len(parsing) - 2
               b == SubSeq(parsing, 1, m)
               p == parsing[Len(parsing) - 1]
               x == Parse(p.tree, p.i + 1)
    <3>1. parsing' = Append(b, x)
      BY <2>2 DEF ParsedLoop
    <3>2. m \in 0 .. Len(parsing) /\ Len(parsing) - 1 \in 1 .. Len(parsing)
      BY <1>2, <2>2
    <3>3. ParseOK(p)
      BY <1>2, <3>2
    <3>4. ParseOK(x)
      <4>1. p.tree \in DOMAIN trees /\ p.i + 1 \in Nat \ {0}
        <5> HIDE DEF p
        <5> QED
          BY <3>3 DEF ParseOK
      <4> HIDE DEF p
      <4> QED
        BY <4>1, NewParse
    <3>5. IsSequence(b) /\ \A k \in 1 .. Len(b) : ParseOK(b[k])
      <4> HIDE DEF m
      <4> QED
        BY <1>2, <3>2, CutParse
    <3> HIDE DEF b, x
    <3> QED
      BY <3>1, <3>4, <3>5, AppendParse
  <2> QED
    BY <2>1, <2>2
<1>4. cut' = NoTree /\ running' \in {"parse", "end", "undefined"}
  BY <1>1
<1>5. forest' = <<>> \/ (forest' \in (Nat \ {0}) \X Nat /\ forest'[2] <= Len(loopForests))
  BY <1>1 DEF ParsingOK
<1>6. ParsingOK'
  BY <1>1, <1>3, <1>4, <1>5, ParsingNext
<1> QED
  BY <1>1, <1>4, <1>6, ParseStep

----------------------------------------------------------------------------
(* conditionOnLoop.                                                        *)

LEMMA OneMore ==
  ASSUME NEW n \in Nat
  PROVE  \A t : t \in 1 .. n + 1 <=> t \in 1 .. n \/ t = n + 1
  OBVIOUS

LEMMA CutPlaces ==
  ASSUME NEW l \in Nat, NEW at \in 1 .. l
  PROVE  /\ \A i \in 1 .. l - at : i \in Nat \ {0} /\ i + at \in 1 .. l /\ i + at # at
         /\ \A i \in 1 .. (IF at = 1 THEN l - 1 ELSE at - 1) :
              i \in Nat /\ (at # 1 => i < at) /\ (IF at = 1 THEN i + 1 ELSE i) \in 1 .. l /\ (IF at = 1 THEN i + 1 ELSE i) # at
         /\ \A i \in 1 .. l : i > at => i - at \in 1 .. l - at /\ (i - at) + at = i /\ at < l
  OBVIOUS

\* A tree is taken out of the one it is in; what is behind it becomes a tree of its own.
Split(PT, at) == at # 1 /\ at < Len(PT.subLoops)
Kept(PT, at) == IF at = 1 THEN Len(PT.subLoops) - 1 ELSE at - 1
TakesOut(q, at) ==
  /\ DOMAIN trees' = 1 .. Len(trees') /\ Len(trees') = IF Split(trees[q], at) THEN Len(trees) + 1 ELSE Len(trees)
  /\ \A t \in DOMAIN trees : trees'[t].loop = trees[t].loop /\ (t # q => trees'[t].subLoops = trees[t].subLoops)
  /\ DOMAIN trees'[q].subLoops = 1 .. Kept(trees[q], at)
  /\ \A i \in DOMAIN trees'[q].subLoops : trees'[q].subLoops[i] = trees[q].subLoops[IF at = 1 THEN i + 1 ELSE i]
  /\ Split(trees[q], at) =>
       LET behind == trees'[Len(trees) + 1]
       IN  /\ behind.loop = 0 /\ DOMAIN behind.subLoops = 1 .. Len(trees[q].subLoops) - at
           /\ \A i \in DOMAIN behind.subLoops : behind.subLoops[i] = trees[q].subLoops[i + at]

LEMMA TakenOut ==
  ASSUME PlantInv, NEW q \in DOMAIN trees, NEW at \in DOMAIN trees[q].subLoops, TakesOut(q, at)
  PROVE  /\ TreesOnce' /\ PlantedOnce'
         /\ \A t : HeldByTree(t)' <=> HeldByTree(t) /\ t # trees[q].subLoops[at]
         /\ \A L : L # 0 => TreesOf(L)' = TreesOf(L)
<1> DEFINE m == Len(trees) + 1
           l == Len(trees[q].subLoops)
<1>0. /\ DOMAIN trees' = 1 .. Len(trees') /\ Len(trees') = IF at # 1 /\ at < l THEN m ELSE Len(trees)
      /\ \A t \in DOMAIN trees : trees'[t].loop = trees[t].loop
      /\ \A t \in DOMAIN trees : t # q => trees'[t].subLoops = trees[t].subLoops
      /\ DOMAIN trees'[q].subLoops = 1 .. (IF at = 1 THEN l - 1 ELSE at - 1)
      /\ \A i \in DOMAIN trees'[q].subLoops : trees'[q].subLoops[i] = trees[q].subLoops[IF at = 1 THEN i + 1 ELSE i]
      /\ at # 1 /\ at < l => /\ trees'[m].loop = 0 /\ DOMAIN trees'[m].subLoops = 1 .. l - at
                             /\ \A i \in DOMAIN trees'[m].subLoops : trees'[m].subLoops[i] = trees[q].subLoops[i + at]
  BY DEF TakesOut, Split, Kept
<1> USE <1>0
<1> DEFINE s == trees[q].subLoops
           big == at # 1 /\ at < l
           N == Len(trees)
<1>1. TreesOK /\ TreesOnce /\ PlantedOnce
  BY DEF PlantInv
<1>2. /\ N \in Nat /\ DOMAIN trees = 1 .. N /\ l \in Nat /\ DOMAIN s = 1 .. l /\ at \in 1 .. l /\ m = N + 1 /\ q \in 1 .. N
  BY <1>1, TreeFacts
<1>20. DOMAIN trees' = 1 .. (IF big THEN N + 1 ELSE N)
  BY <1>2
<1>21. s = trees[q].subLoops /\ (big <=> at # 1 /\ at < l)
  OBVIOUS
<1> HIDE DEF N, s, big, m, l
<1>3. \A t : t \in DOMAIN trees' <=> t \in DOMAIN trees \/ (big /\ t = m)
  BY <1>2, <1>20, OneMore
<1>4. m \notin DOMAIN trees /\ q # m
  <2>1. N + 1 \notin 1 .. N
    BY <1>2
  <2> QED
    BY <1>2, <2>1
<1>22. /\ \A i \in 1 .. l - at : i \in Nat \ {0} /\ i + at \in 1 .. l /\ i + at # at
       /\ \A i \in 1 .. (IF at = 1 THEN l - 1 ELSE at - 1) :
            i \in Nat /\ (at # 1 => i < at) /\ (IF at = 1 THEN i + 1 ELSE i) \in 1 .. l /\ (IF at = 1 THEN i + 1 ELSE i) # at
       /\ \A i \in 1 .. l : i > at => i - at \in 1 .. l - at /\ (i - at) + at = i /\ at < l
  BY <1>2, CutPlaces
\* Each place of a sub loop was one before, and not that of the tree taken out.
<1> DEFINE Own(p) == IF p = m THEN q ELSE p
           Src(p, i) == IF p = m THEN i + at ELSE IF p = q /\ at = 1 THEN i + 1 ELSE i
<1>5. ASSUME NEW p \in DOMAIN trees', NEW i \in DOMAIN trees'[p].subLoops
      PROVE  /\ Own(p) \in DOMAIN trees /\ Src(p, i) \in DOMAIN trees[Own(p)].subLoops
             /\ trees'[p].subLoops[i] = trees[Own(p)].subLoops[Src(p, i)]
             /\ ~(Own(p) = q /\ Src(p, i) = at)
  <2>1. CASE p = m
    <3>1. big
      BY <1>3, <1>4, <2>1
    <3>2. i \in 1 .. l - at /\ trees'[m].subLoops[i] = s[i + at]
      BY <1>21, <2>1, <3>1
    <3>3. i + at \in 1 .. l /\ i + at # at
      BY <1>22, <3>2
    <3> QED
      BY <1>2, <1>21, <2>1, <3>2, <3>3
  <2>2. CASE p = q
    <3>1. i \in 1 .. (IF at = 1 THEN l - 1 ELSE at - 1) /\ trees'[q].subLoops[i] = s[IF at = 1 THEN i + 1 ELSE i]
      BY <1>21, <2>2
    <3>2. (IF at = 1 THEN i + 1 ELSE i) \in 1 .. l /\ (IF at = 1 THEN i + 1 ELSE i) # at
      BY <1>22, <3>1
    <3> QED
      BY <1>2, <1>21, <1>4, <2>2, <3>1, <3>2
  <2>3. CASE p # m /\ p # q
    BY <1>3, <2>3
  <2> QED
    BY <2>1, <2>2, <2>3
<1>6. ASSUME NEW p \in DOMAIN trees', NEW i \in DOMAIN trees'[p].subLoops,
             NEW r \in DOMAIN trees', NEW j \in DOMAIN trees'[r].subLoops, Own(p) = Own(r), Src(p, i) = Src(r, j)
      PROVE  p = r /\ i = j
  <2>1. \A x \in DOMAIN trees'[q].subLoops : x \in Nat /\ (at # 1 => x < at)
    BY <1>22
  <2>2. big => \A x \in DOMAIN trees'[m].subLoops : x \in Nat \ {0}
    BY <1>21, <1>22
  <2>3. m \in DOMAIN trees' => big
    BY <1>3, <1>4
  <2>4. CASE p = m /\ r = m
    BY <1>2, <1>6, <2>2, <2>3, <2>4
  <2>5. CASE p = m /\ r # m
    <3>1. r = q /\ i + at = (IF at = 1 THEN j + 1 ELSE j) /\ big
      BY <1>4, <1>6, <2>3, <2>5
    <3>2. j < at /\ i \in Nat /\ j \in Nat
      BY <1>21, <2>1, <2>2, <2>5, <3>1
    <3> QED
      BY <1>2, <3>1, <3>2
  <2>6. CASE p # m /\ r = m
    <3>1. p = q /\ j + at = (IF at = 1 THEN i + 1 ELSE i) /\ big
      BY <1>4, <1>6, <2>3, <2>6
    <3>2. i < at /\ i \in Nat /\ j \in Nat
      BY <1>21, <2>1, <2>2, <2>6, <3>1
    <3> QED
      BY <1>2, <3>1, <3>2
  <2>7. CASE p # m /\ r # m
    <3>1. p = r
      BY <1>6, <2>7
    <3>2. CASE p = q
      <4>1. i \in Nat /\ j \in Nat
        BY <2>1, <3>1, <3>2
      <4> QED
        BY <1>6, <2>7, <3>1, <3>2, <4>1
    <3>3. CASE p # q
      BY <1>6, <2>7, <3>1, <3>3
    <3> QED
      BY <3>1, <3>2, <3>3
  <2> QED
    BY <2>4, <2>5, <2>6, <2>7
<1>7. TreesOnce'
  <2> SUFFICES ASSUME NEW p \in DOMAIN trees', NEW r \in DOMAIN trees',
                      NEW i \in DOMAIN trees'[p].subLoops, NEW j \in DOMAIN trees'[r].subLoops,
                      trees'[p].subLoops[i] = trees'[r].subLoops[j]
               PROVE  p = r /\ i = j
    BY DEF TreesOnce
  <2>1. /\ Own(p) \in DOMAIN trees /\ Src(p, i) \in DOMAIN trees[Own(p)].subLoops
        /\ trees'[p].subLoops[i] = trees[Own(p)].subLoops[Src(p, i)]
    BY <1>5
  <2>2. /\ Own(r) \in DOMAIN trees /\ Src(r, j) \in DOMAIN trees[Own(r)].subLoops
        /\ trees'[r].subLoops[j] = trees[Own(r)].subLoops[Src(r, j)]
    BY <1>5
  <2>3. Own(p) = Own(r) /\ Src(p, i) = Src(r, j)
    <3> DEFINE u == Own(p)
               v == Own(r)
               x == Src(p, i)
               y == Src(r, j)
    <3>1. /\ u \in DOMAIN trees /\ v \in DOMAIN trees /\ x \in DOMAIN trees[u].subLoops /\ y \in DOMAIN trees[v].subLoops
          /\ trees[u].subLoops[x] = trees[v].subLoops[y]
      BY <2>1, <2>2
    <3> HIDE DEF u, v, x, y
    <3>2. u = v /\ x = y
      BY <1>1, <3>1 DEF TreesOnce
    <3> QED
      BY <3>2 DEF u, v, x, y
  <2> QED
    BY <1>6, <2>3
<1>8. ASSUME NEW t PROVE HeldByTree(t)' <=> HeldByTree(t) /\ t # s[at]
  <2>1. ASSUME HeldByTree(t)' PROVE HeldByTree(t) /\ t # s[at]
    <3>1. PICK p \in DOMAIN trees' : \E i \in DOMAIN trees'[p].subLoops : trees'[p].subLoops[i] = t
      BY <2>1 DEF HeldByTree
    <3>2. PICK i \in DOMAIN trees'[p].subLoops : trees'[p].subLoops[i] = t
      BY <3>1
    <3>3. /\ Own(p) \in DOMAIN trees /\ Src(p, i) \in DOMAIN trees[Own(p)].subLoops
          /\ trees'[p].subLoops[i] = trees[Own(p)].subLoops[Src(p, i)]
          /\ ~(Own(p) = q /\ Src(p, i) = at)
      BY <1>5
    <3> HIDE DEF Own, Src
    <3>4. HeldByTree(t)
      BY <3>2, <3>3 DEF HeldByTree
    <3>5. t # s[at]
      BY <1>1, <1>21, <3>2, <3>3 DEF TreesOnce
    <3> QED
      BY <3>4, <3>5
  <2>2. ASSUME HeldByTree(t), t # s[at] PROVE HeldByTree(t)'
    <3>1. PICK p \in DOMAIN trees : \E i \in DOMAIN trees[p].subLoops : trees[p].subLoops[i] = t
      BY <2>2 DEF HeldByTree
    <3>2. PICK i \in DOMAIN trees[p].subLoops : trees[p].subLoops[i] = t
      BY <3>1
    <3>3. p \in DOMAIN trees'
      BY <1>3
    <3>4. CASE p # q
      <4>1. trees'[p].subLoops = trees[p].subLoops
        BY <3>4
      <4> QED
        BY <3>2, <3>3, <4>1 DEF HeldByTree
    <3>5. CASE p = q
      <4>1. i \in 1 .. l /\ i # at /\ s[i] = t
        BY <1>2, <1>21, <2>2, <3>2, <3>5
      <4>2. CASE at = 1
        <5> DEFINE k == i - 1
        <5>1. k \in 1 .. l - 1 /\ k + 1 = i
          BY <1>2, <4>1, <4>2
        <5>2. k \in DOMAIN trees'[q].subLoops /\ trees'[q].subLoops[k] = t
          BY <1>21, <4>1, <4>2, <5>1
        <5> QED
          BY <3>3, <3>5, <5>2 DEF HeldByTree
      <4>3. CASE at # 1 /\ i < at
        <5>1. i \in 1 .. at - 1
          BY <1>2, <4>1, <4>3
        <5>2. i \in DOMAIN trees'[q].subLoops /\ trees'[q].subLoops[i] = t
          BY <1>21, <4>1, <4>3, <5>1
        <5> QED
          BY <3>3, <3>5, <5>2 DEF HeldByTree
      <4>4. CASE at # 1 /\ i > at
        <5> DEFINE k == i - at
        <5>1. k \in 1 .. l - at /\ k + at = i /\ at < l
          BY <1>22, <4>1, <4>4
        <5>2. m \in DOMAIN trees'
          BY <1>3, <1>21, <4>4, <5>1
        <5>3. k \in DOMAIN trees'[m].subLoops /\ trees'[m].subLoops[k] = t
          BY <1>21, <4>1, <4>4, <5>1
        <5> QED
          BY <5>2, <5>3 DEF HeldByTree
      <4>5. i < at \/ i > at
        BY <1>2, <4>1
      <4> QED
        BY <4>2, <4>3, <4>4, <4>5
    <3> QED
      BY <3>4, <3>5
  <2> QED
    BY <2>1, <2>2
<1>9. PlantedOnce'
  <2>1. \A t \in DOMAIN trees' : trees'[t].loop # 0 => t \in DOMAIN trees /\ trees'[t].loop = trees[t].loop
    BY <1>3
  <2> QED
    BY <1>1, <2>1 DEF PlantedOnce
<1>10. ASSUME NEW L, L # 0 PROVE TreesOf(L)' = TreesOf(L)
  <2>1. \A t : t \in DOMAIN trees' /\ trees'[t].loop = L <=> t \in DOMAIN trees /\ trees[t].loop = L
    BY <1>3, <1>10
  <2> QED
    BY <2>1 DEF TreesOf
<1> QED
  BY <1>7, <1>8, <1>9, <1>10, <1>21

\* What stays of a tree before or behind the one taken out of it, and what is split off.
CanCut(PT, at) ==
  /\ PT \in TreeRecord /\ at \in DOMAIN PT.subLoops
  /\ Len(PT.paths) \in Len(PT.subLoops) .. Len(PT.subLoops) + 1
Remains(B, PT, at) ==
  /\ B \in TreeRecord /\ B.loop = PT.loop /\ B.parentLoop = PT.parentLoop
  /\ Kept(PT, at) \in Nat /\ Len(B.subLoops) = Kept(PT, at) /\ DOMAIN B.subLoops = 1 .. Kept(PT, at)
  /\ \A i \in 1 .. Kept(PT, at) : B.subLoops[i] = PT.subLoops[IF at = 1 THEN i + 1 ELSE i]
  /\ Len(B.paths) \in Kept(PT, at) .. Kept(PT, at) + 1
  /\ Len(PT.paths) = Len(PT.subLoops) + 1 => Len(B.paths) = Kept(PT, at) + 1

LEMMA CutBeforeFacts ==
  ASSUME NEW PT, NEW at, CanCut(PT, at)
  PROVE  Remains(CutBefore(PT, at), PT, at)
<1> DEFINE l == Len(PT.subLoops)
           k == Kept(PT, at)
           B == CutBefore(PT, at)
<1>0. /\ PT \in TreeRecord /\ l \in Nat /\ at \in 1 .. l /\ Len(PT.paths) \in l .. l + 1 /\ l = Len(PT.subLoops)
      /\ k = (IF at = 1 THEN l - 1 ELSE at - 1) /\ B = CutBefore(PT, at)
  <2>1. PT.subLoops \in Seq(Nat \ {0})
    BY DEF CanCut, TreeRecord
  <2> QED
    BY <2>1 DEF CanCut, Kept
<1> HIDE DEF l, k, B
<1> USE <1>0
<1> DEFINE S == PT.subLoops
           P == PT.paths
<1>1. S \in Seq(Nat \ {0}) /\ P \in Seq(Seq(Where)) /\ Len(P) \in Nat
  BY DEF TreeRecord, Routes
<1>2. PT = [loop |-> PT.loop, subLoops |-> S, paths |-> P, loops |-> PT.loops, parentLoop |-> PT.parentLoop]
      /\ PT.loop \in Loops /\ PT.loops \in Int /\ PT.parentLoop \in Nat
  BY DEF TreeRecord
<1> DEFINE Goal == /\ B \in TreeRecord /\ B.loop = PT.loop /\ B.parentLoop = PT.parentLoop
                   /\ k \in Nat /\ Len(B.subLoops) = k /\ DOMAIN B.subLoops = 1 .. k
                   /\ \A i \in 1 .. k : B.subLoops[i] = PT.subLoops[IF at = 1 THEN i + 1 ELSE i]
                   /\ Len(B.paths) \in k .. k + 1 /\ (Len(P) = l + 1 => Len(B.paths) = k + 1)
<1>3. ASSUME at = 1 PROVE Goal
  <2>1. B = [PT EXCEPT !.subLoops = Tail(S), !.paths = Tail(P)] /\ k = l - 1
    BY <1>3 DEF CutBefore
  <2>2. S # <<>> /\ P # <<>>
    BY <1>1
  <2>3. Tail(S) \in Seq(Nat \ {0}) /\ Len(Tail(S)) = l - 1 /\ DOMAIN Tail(S) = 1 .. l - 1 /\ \A i \in 1 .. l - 1 : Tail(S)[i] = S[i + 1]
    BY <1>1, <2>2
  <2>4. Tail(P) \in Seq(Seq(Where)) /\ Len(Tail(P)) = Len(P) - 1
    BY <1>1, <2>2
  <2>5. /\ B.subLoops = Tail(S) /\ B.paths = Tail(P) /\ B.loop = PT.loop /\ B.parentLoop = PT.parentLoop /\ B.loops = PT.loops
        /\ B = [loop |-> PT.loop, subLoops |-> Tail(S), paths |-> Tail(P), loops |-> PT.loops, parentLoop |-> PT.parentLoop]
    BY <1>2, <2>1
  <2>6. B \in TreeRecord
    BY <1>2, <2>3, <2>4, <2>5 DEF TreeRecord, Routes
  <2>7. Len(B.paths) \in k .. k + 1 /\ (Len(P) = l + 1 => Len(B.paths) = k + 1) /\ k \in Nat
    <3>1. Len(B.paths) = Len(P) - 1 /\ k = l - 1 /\ Len(P) \in l .. l + 1 /\ Len(P) \in Nat
      BY <1>1, <2>1, <2>4, <2>5
    <3> HIDE <1>0
    <3>2. l \in Nat /\ l >= 1
      BY <1>0
    <3> HIDE DEF P
    <3> QED
      BY <3>1, <3>2
  <2>8. \A i \in 1 .. k : B.subLoops[i] = PT.subLoops[IF at = 1 THEN i + 1 ELSE i]
    BY <1>3, <2>1, <2>3, <2>5
  <2>9. Len(B.subLoops) = k /\ DOMAIN B.subLoops = 1 .. k
    BY <2>1, <2>3, <2>5
  <2> QED
    BY <2>5, <2>6, <2>7, <2>8, <2>9
<1>4. ASSUME at # 1 PROVE Goal
  <2> DEFINE s == SubSeq(S, 1, at - 1)
             p == SubSeq(P, 1, at)
  <2>1. B = [PT EXCEPT !.subLoops = s, !.paths = p] /\ k = at - 1
    BY <1>4 DEF CutBefore
  <2>2. s \in Seq(Nat \ {0}) /\ Len(s) = at - 1 /\ DOMAIN s = 1 .. at - 1 /\ \A i \in 1 .. at - 1 : s[i] = S[i]
    BY <1>1
  <2>3. p \in Seq(Seq(Where)) /\ Len(p) = at
    BY <1>1
  <2> HIDE DEF s, p
  <2>4. /\ B.subLoops = s /\ B.paths = p /\ B.loop = PT.loop /\ B.parentLoop = PT.parentLoop /\ B.loops = PT.loops
        /\ B = [loop |-> PT.loop, subLoops |-> s, paths |-> p, loops |-> PT.loops, parentLoop |-> PT.parentLoop]
    BY <1>2, <2>1
  <2>5. B \in TreeRecord
    BY <1>2, <2>2, <2>3, <2>4 DEF TreeRecord, Routes
  <2>6. at \in k .. k + 1 /\ at = k + 1 /\ k \in Nat
    BY <2>1
  <2> QED
    BY <1>4, <2>1, <2>2, <2>3, <2>4, <2>5, <2>6
<1>5. Goal
  BY <1>3, <1>4
<1> QED
  BY <1>5 DEF Remains, k, B, l

SplitFrom(r, PT, at) ==
  /\ r.loop = 0 /\ r.parentLoop = NoTree
  /\ Len(r.subLoops) = Len(PT.subLoops) - at /\ DOMAIN r.subLoops = 1 .. Len(PT.subLoops) - at
  /\ \A i \in 1 .. Len(PT.subLoops) - at : r.subLoops[i] = PT.subLoops[i + at]
  /\ Len(r.paths) \in Len(PT.subLoops) - at .. Len(PT.subLoops) - at + 1
  /\ Len(PT.paths) = Len(PT.subLoops) + 1 => Len(r.paths) = Len(PT.subLoops) - at + 1

LEMMA BehindFacts ==
  ASSUME NEW PT, NEW at, CanCut(PT, at),
         0 \in Loops
  PROVE  IF Split(PT, at)
         THEN \E r \in TreeRecord : BehindTree(PT, at) = <<r>> /\ SplitFrom(r, PT, at)
         ELSE BehindTree(PT, at) = <<>>
<1> DEFINE l == Len(PT.subLoops)
<1>0. PT \in TreeRecord /\ l \in Nat /\ at \in 1 .. l /\ Len(PT.paths) \in l .. l + 1 /\ l = Len(PT.subLoops)
  <2>1. PT.subLoops \in Seq(Nat \ {0})
    BY DEF CanCut, TreeRecord
  <2> QED
    BY <2>1 DEF CanCut
<1> HIDE DEF l
<1> USE <1>0
<1> DEFINE S == PT.subLoops
           P == PT.paths
           s == SubSeq(S, at + 1, l)
           p == SubSeq(P, at + 1, Len(P))
<1>1. S \in Seq(Nat \ {0}) /\ P \in Seq(Seq(Where)) /\ Len(P) \in Nat
  BY DEF TreeRecord, Routes
<1>2. s \in Seq(Nat \ {0}) /\ Len(s) = l - at /\ DOMAIN s = 1 .. l - at /\ \A i \in 1 .. l - at : s[i] = S[i + at]
  <2>1. s \in Seq(Nat \ {0}) /\ Len(s) = l - at
    BY <1>1
  <2>2. ASSUME NEW i \in 1 .. l - at PROVE s[i] = S[i + at]
    <3> DEFINE a == at + 1
    <3>1. a + i - 1 = i + at /\ l - a + 1 = l - at /\ a \in Int /\ l \in Int
      OBVIOUS
    <3>2. \A x \in a .. l : S[x] \in Nat \ {0}
      BY <1>1
    <3>3. s = SubSeq(S, a, l)
      OBVIOUS
    <3> HIDE DEF a, s, S
    <3>4. \A j \in 1 .. l - a + 1 : SubSeq(S, a, l)[j] = S[a + j - 1]
      BY <3>1, <3>2, SubSeqProperties
    <3>5. s[i] = S[a + i - 1]
      BY <3>1, <3>3, <3>4
    <3> QED
      BY <3>1, <3>5
  <2> HIDE DEF s
  <2> QED
    BY <2>1, <2>2
<1>3. p \in Seq(Seq(Where)) /\ Len(p) = Len(P) - at
  BY <1>1
<1>4. Behind(PT, at) = IF at = 1 THEN {} ELSE Elements(s)
  BY DEF Behind
<1>5. BehindTree(PT, at) = IF Behind(PT, at) = {} THEN <<>> ELSE <<Tree(0, s, p, 0)>>
  BY DEF BehindTree
<1> HIDE DEF s, p
<1>6. Elements(s) = {} <=> l - at = 0
  <2>1. l - at \in Nat /\ \A d \in Nat : 1 .. d = {} <=> d = 0
    <3>1. ASSUME NEW d \in Nat, d # 0 PROVE 1 \in 1 .. d
      BY <3>1
    <3>2. 1 .. 0 = {}
      OBVIOUS
    <3> QED
      BY <3>1, <3>2
  <2> QED
    BY <1>2, <2>1 DEF Elements
<1>7. l - at = 0 <=> ~(at < l)
  OBVIOUS
<1>8. CASE at # 1 /\ at < l
  <2> DEFINE r == Tree(0, s, p, 0)
  <2>1. BehindTree(PT, at) = <<r>>
    BY <1>4, <1>5, <1>6, <1>7, <1>8
  <2>3. r.loop = 0 /\ r.parentLoop = NoTree /\ r.subLoops = s /\ r.paths = p
    BY DEF Tree
  <2>4. Len(P) - at \in l - at .. l - at + 1 /\ (Len(P) = l + 1 => Len(P) - at = l - at + 1)
    BY <1>1
  <2>5. r \in TreeRecord
    BY <1>2, <1>3 DEF Tree, TreeRecord, Routes, NoTree
  <2> HIDE DEF r
  <2>6. SplitFrom(r, PT, at)
    BY <1>2, <1>3, <2>3, <2>4 DEF SplitFrom
  <2>7. Split(PT, at)
    BY <1>8 DEF Split
  <2> QED
    BY <2>1, <2>5, <2>6, <2>7
<1>9. CASE ~(at # 1 /\ at < l)
  BY <1>4, <1>5, <1>6, <1>7, <1>9 DEF Split
<1> QED
  BY <1>8, <1>9

\* The peeled trees are what they were except for the loops of their nests.
LEMMA PeeledTree ==
  ASSUME TreesOK, NEW t \in DOMAIN trees, NEW n \in Int
  PROVE  /\ peelTree(t, n) \in TreeRecord
         /\ peelTree(t, n).loop = trees[t].loop /\ peelTree(t, n).subLoops = trees[t].subLoops
         /\ peelTree(t, n).paths = trees[t].paths /\ peelTree(t, n).parentLoop = trees[t].parentLoop
<1>1. trees[t] \in TreeRecord
  BY TreeFacts
<1>2. trees[t].loops \in Int
  BY <1>1 DEF TreeRecord
<1> DEFINE l == IF n >= trees[t].loops THEN 0 ELSE trees[t].loops - n
<1>3. l \in Int
  BY <1>2
<1>4. peelTree(t, n) = [trees[t] EXCEPT !.loops = l]
  BY DEF peelTree
<1> HIDE DEF l
<1> QED
  BY <1>1, <1>3, <1>4 DEF TreeRecord

LEMMA PeelsAreInt ==
  ASSUME NEW n \in [DOMAIN trees -> Int], NEW T, NEW k \in Int
  PROVE  peelOuterLoops(<<T, k>>, n) \in [DOMAIN trees -> Int]
<1>1. <<T, k>>[2] = k
  OBVIOUS
<1> QED
  BY <1>1 DEF peelOuterLoops

\* Nothing but the trees, the forests and cut changes.
LEMMA StillNoCalls ==
  ASSUME PlantInv, cut # NoTree, UNCHANGED <<func, calls, depth, forest, parsing, running>>
  PROVE  /\ CallsOK' /\ CallsOnce'
         /\ \A t : ~HeldByCall(t) /\ ~HeldByCall(t)'
         /\ ~Pending /\ ~Pending'
         /\ \A L : Done(L)' <=> Done(L)
<1>1. CallsOK /\ calls = <<>> /\ running \in {"parse", "end", "undefined"}
  BY DEF PlantInv, ParsingOK
<1> QED
  BY <1>1, NoCalls

LEMMA StillParsing ==
  ASSUME PlantInv, cut # NoTree, UNCHANGED <<func, calls, depth, forest, parsing, running>>,
         cut' = NoTree \/ cut' \in DOMAIN trees', DOMAIN trees \subseteq DOMAIN trees',
         Len(loopForests) \in Nat, Len(loopForests') \in Nat, Len(loopForests) <= Len(loopForests')
  PROVE  ParsingOK'
<1>1. ParsingOK
  BY DEF PlantInv
<1>2. \A k \in 1 .. Len(parsing') : ParseOK(parsing[k])'
  BY <1>1 DEF ParsingOK, ParseOK
<1>3. forest' = <<>> \/ (forest' \in (Nat \ {0}) \X Nat /\ forest'[2] <= Len(loopForests'))
  BY <1>1 DEF ParsingOK
<1>4. IsSequence(parsing)'
  BY <1>1 DEF ParsingOK, IsSequence
<1> QED
  BY <1>1, <1>2, <1>3, <1>4 DEF ParsingOK

LEMMA ConditionedOnRootStep ==
  ASSUME PlantInv, ConditionedOnRoot
  PROVE  PlantInv'
<1>1. /\ cut # NoTree /\ cut' = NoTree
      /\ UNCHANGED <<func, calls, depth, trees, loopForests, forest, parsing, running>>
  BY DEF ConditionedOnRoot
<1>2. TreesOK /\ TreesOnce /\ HeldOnce /\ ForestsOnce /\ PlantedOnce /\ PlantedDone /\ func \in Functions
  BY DEF PlantInv
<1>3. /\ CallsOK' /\ CallsOnce'
      /\ \A t : ~HeldByCall(t) /\ ~HeldByCall(t)'
      /\ ~Pending /\ ~Pending'
      /\ \A L : Done(L)' <=> Done(L)
  BY <1>1, StillNoCalls
<1>4. TreesOK' /\ TreesOnce' /\ ForestsOnce' /\ PlantedOnce'
  <2>1. TreesOK'
    BY <1>1, <1>2, SameTreesOK DEF TreesOK
  <2> QED
    BY <1>1, <1>2, <2>1 DEF TreesOnce, ForestsOnce, PlantedOnce
<1>5. HeldOnce'
  <2>1. \A t : (HeldByTree(t)' <=> HeldByTree(t)) /\ (HeldByForest(t)' <=> HeldByForest(t))
    BY <1>1 DEF HeldByTree, HeldByForest
  <2> QED
    BY <1>1, <1>2, <1>3, <2>1 DEF HeldOnce
<1>6. PlantedDone'
  <2>1. RealLoops' = RealLoops /\ (\A L : Clean(L)' <=> Clean(L)) /\ \A L : TreesOf(L)' = TreesOf(L)
    BY <1>1, SameFunction DEF TreesOf
  <2> QED
    BY <1>2, <1>3, <2>1 DEF PlantedDone
<1>7. ParsingOK'
  <2>1. Len(loopForests) \in Nat
    BY <1>2 DEF TreesOK
  <2> QED
    BY <1>1, <2>1, StillParsing
<1> QED
  BY <1>1, <1>2, <1>3, <1>4, <1>5, <1>6, <1>7 DEF PlantInv

\* What conditionOnLoop makes of the trees.
NowAt(q, at, n, t) ==
  IF t = cut THEN [trees[cut] EXCEPT !.parentLoop = NoTree]
  ELSE IF t = q THEN CutBefore(trees[q], at)
  ELSE peelTree(t, n[t])
Conditions(q, at, n) ==
  /\ cut \in DOMAIN trees /\ q \in DOMAIN trees /\ at \in DOMAIN trees[q].subLoops /\ n \in [DOMAIN trees -> Int]
  /\ q = trees[cut].parentLoop /\ trees[q].subLoops[at] = cut /\ cut < q
  /\ trees' = [t \in DOMAIN trees |-> NowAt(q, at, n, t)] \o BehindTree(trees[q], at)
  /\ loopForests' = Append(loopForests, cut) \o [k \in DOMAIN BehindTree(trees[q], at) |-> Len(trees) + 1]
  /\ cut' = q

\* What each nest loses.
Loss(q, at) ==
  peelOuterLoops(<<Behind(trees[q], at), BehindPeel(trees[cut])>>,
                 peelOuterLoops(<<Elements(trees[cut].subLoops), trees[cut].loops>>, NoPeel))

LEMMA Conditioned ==
  ASSUME PlantInv, conditionOnLoop
  PROVE  \E q, at, n : /\ Conditions(q, at, n) /\ n = Loss(q, at)
                       /\ refs' = [k \in DOMAIN refs |-> peelLoops(refs[k], n[refs[k].tree])]
<1>1. TreesOK /\ ParsingOK
  BY DEF PlantInv
<1>2. cut \in DOMAIN trees /\ trees[cut].parentLoop # 0
  BY <1>1 DEF conditionOnLoop, ParsingOK, NoTree
<1> DEFINE q == trees[cut].parentLoop
<1>3. q \in Nat /\ q <= Len(trees) /\ DOMAIN trees = 1 .. Len(trees) /\ Len(trees) \in Nat
  BY <1>1, <1>2, TreeFacts
<1>4. q \in DOMAIN trees
  BY <1>2, <1>3
<1> DEFINE N(at) == Loss(q, at)
<1>5. PICK at \in DOMAIN trees[q].subLoops :
        /\ trees[q].subLoops[at] = cut
        /\ trees' = [t \in DOMAIN trees |->
                       IF t = cut THEN [trees[cut] EXCEPT !.parentLoop = NoTree]
                       ELSE IF t = q THEN CutBefore(trees[q], at)
                       ELSE peelTree(t, N(at)[t])] \o BehindTree(trees[q], at)
        /\ loopForests' = Append(loopForests, cut) \o [k \in DOMAIN BehindTree(trees[q], at) |-> Len(trees) + 1]
        /\ refs' = [k \in DOMAIN refs |-> peelLoops(refs[k], N(at)[refs[k].tree])]
        /\ cut' = q
  BY DEF conditionOnLoop, Loss
<1>6. N(at) \in [DOMAIN trees -> Int]
  <2>1. trees[cut].loops \in Int
    BY <1>1, <1>2, TreeFacts
  <2>2. BehindPeel(trees[cut]) \in Int
    BY <2>1 DEF BehindPeel, Fewer, MaxUnsigned
  <2>3. NoPeel \in [DOMAIN trees -> Int]
    BY DEF NoPeel
  <2>4. peelOuterLoops(<<Elements(trees[cut].subLoops), trees[cut].loops>>, NoPeel) \in [DOMAIN trees -> Int]
    BY <2>1, <2>3, PeelsAreInt
  <2> QED
    BY <2>2, <2>4, PeelsAreInt DEF Loss
<1>7. cut < q
  <2>1. TreeOK(q)
    BY <1>1, <1>4 DEF TreesOK
  <2> QED
    BY <1>5, <2>1 DEF TreeOK
<1>8. trees' = [t \in DOMAIN trees |-> NowAt(q, at, N(at), t)] \o BehindTree(trees[q], at)
  BY <1>5 DEF NowAt
<1> HIDE DEF N
<1>9. Conditions(q, at, N(at))
  BY <1>2, <1>4, <1>5, <1>6, <1>7, <1>8 DEF Conditions
<1>10. refs' = [k \in DOMAIN refs |-> peelLoops(refs[k], N(at)[refs[k].tree])] /\ N(at) = Loss(q, at)
  BY <1>5 DEF N
<1> QED
  BY <1>9, <1>10

LEMMA NewForests ==
  ASSUME PlantInv, NEW a \in Nat, NEW b \in Nat, a # b, ~HeldByForest(a), ~HeldByForest(b),
         loopForests' = Append(Append(loopForests, a), b)
  PROVE  /\ ForestsOnce'
         /\ \A t : HeldByForest(t)' <=> HeldByForest(t) \/ t = a \/ t = b
         /\ \A D : DOMAIN trees \subseteq D /\ a \in D /\ b \in D => loopForests' \in Seq(D)
         /\ Len(loopForests') = Len(loopForests) + 2
<1>1. loopForests \in Seq(DOMAIN trees) /\ ForestsOnce
  BY DEF PlantInv, TreesOK
<1> DEFINE n == Len(loopForests)
<1>2. n \in Nat /\ DOMAIN loopForests = 1 .. n
  BY <1>1
<1>3. /\ DOMAIN loopForests' = 1 .. n + 2 /\ Len(loopForests') = n + 2
      /\ loopForests'[n + 1] = a /\ loopForests'[n + 2] = b /\ \A k \in 1 .. n : loopForests'[k] = loopForests[k]
  BY <1>1
<1> HIDE DEF n
<1>4. \A k : k \in 1 .. n + 2 <=> k \in 1 .. n \/ k = n + 1 \/ k = n + 2
  BY <1>2
<1>5. \A k \in 1 .. n : loopForests'[k] # a /\ loopForests'[k] # b
  BY <1>2, <1>3 DEF HeldByForest
<1>6. n + 1 \in 1 .. n + 2 /\ n + 2 \in 1 .. n + 2
  BY <1>2
<1>7. ForestsOnce'
  <2> SUFFICES ASSUME NEW k \in 1 .. n + 2, NEW l \in 1 .. n + 2, loopForests'[k] = loopForests'[l] PROVE k = l
    BY <1>3 DEF ForestsOnce
  <2>1. CASE k \in 1 .. n /\ l \in 1 .. n
    BY <1>1, <1>2, <1>3, <2>1 DEF ForestsOnce
  <2>2. CASE ~(k \in 1 .. n /\ l \in 1 .. n)
    BY <1>3, <1>4, <1>5, <2>2
  <2> QED
    BY <2>1, <2>2
<1>8. ASSUME NEW t PROVE HeldByForest(t)' <=> HeldByForest(t) \/ t = a \/ t = b
  BY <1>2, <1>3, <1>4, <1>6 DEF HeldByForest
<1>9. ASSUME NEW D, DOMAIN trees \subseteq D, a \in D, b \in D PROVE loopForests' \in Seq(D)
  <2>1. loopForests \in Seq(D)
    BY <1>1, <1>9
  <2> QED
    BY <1>9, <2>1
<1> QED
  BY <1>3, <1>7, <1>8, <1>9 DEF n

LEMMA SeqOf ==
  ASSUME NEW S, NEW n \in Nat, NEW f \in [1 .. n -> S]
  PROVE  f \in Seq(S) /\ Len(f) = n
  OBVIOUS

LEMMA WithOne ==
  ASSUME NEW S, NEW s \in Seq(S), NEW r \in S
  PROVE  /\ s \o <<>> = s
         /\ s \o <<r>> \in Seq(S) /\ Len(s \o <<r>>) = Len(s) + 1 /\ (s \o <<r>>)[Len(s) + 1] = r
         /\ \A t \in 1 .. Len(s) : (s \o <<r>>)[t] = s[t]
  OBVIOUS

\* The trees that conditionOnLoop leaves, by address.
LEMMA ConditionedTrees ==
  ASSUME PlantInv, NEW q, NEW at, NEW n, Conditions(q, at, n)
  PROVE  /\ Len(trees') = (IF Split(trees[q], at) THEN Len(trees) + 1 ELSE Len(trees)) /\ trees' \in Seq(TreeRecord)
         /\ \A t \in DOMAIN trees : trees'[t] = NowAt(q, at, n, t)
         /\ IF Split(trees[q], at)
            THEN SplitFrom(trees'[Len(trees) + 1], trees[q], at) /\ loopForests' = Append(Append(loopForests, cut), Len(trees) + 1)
            ELSE loopForests' = Append(loopForests, cut)
         /\ Remains(CutBefore(trees[q], at), trees[q], at)
<1>1. /\ TreesOK /\ ValidFunction(func)
      /\ cut \in DOMAIN trees /\ q \in DOMAIN trees /\ at \in DOMAIN trees[q].subLoops /\ n \in [DOMAIN trees -> Int]
      /\ trees' = [t \in DOMAIN trees |-> NowAt(q, at, n, t)] \o BehindTree(trees[q], at)
      /\ loopForests' = Append(loopForests, cut) \o [k \in DOMAIN BehindTree(trees[q], at) |-> Len(trees) + 1]
  BY Valid DEF PlantInv, Conditions
<1>2. 0 \in Loops
  BY <1>1, FunctionFacts
<1> DEFINE N == Len(trees)
           base == [t \in DOMAIN trees |-> NowAt(q, at, n, t)]
           PT == trees[q]
           B == BehindTree(PT, at)
<1>3. N \in Nat /\ DOMAIN trees = 1 .. N /\ PT \in TreeRecord /\ trees[cut] \in TreeRecord
  BY <1>1, TreeFacts
<1>4. CanCut(PT, at)
  BY <1>1, <1>3 DEF TreesOK, TreeOK, CanCut
<1>5. Remains(CutBefore(PT, at), PT, at)
  BY <1>4, CutBeforeFacts
<1>6. [trees[cut] EXCEPT !.parentLoop = NoTree] \in TreeRecord
  BY <1>3 DEF TreeRecord, NoTree
<1>7. \A t \in DOMAIN trees : peelTree(t, n[t]) \in TreeRecord
  <2> TAKE t \in DOMAIN trees
  <2>1. n[t] \in Int
    BY <1>1
  <2> QED
    BY <1>1, <2>1, PeeledTree
<1>8. base \in Seq(TreeRecord) /\ Len(base) = N
  <2>1. base = [t \in 1 .. N |-> base[t]]
    BY <1>3
  <2>2. \A t \in 1 .. N : base[t] \in TreeRecord
    BY <1>3, <1>5, <1>6, <1>7 DEF Remains, NowAt
  <2> HIDE DEF base
  <2>3. base \in [1 .. N -> TreeRecord] /\ N \in Nat
    BY <1>3, <2>1, <2>2
  <2> HIDE DEF N
  <2> QED
    BY <2>3, SeqOf
<1>9. trees' = base \o B /\ loopForests' = Append(loopForests, cut) \o [k \in DOMAIN B |-> N + 1]
  BY <1>1
<1>10. \A t \in DOMAIN trees : base[t] = NowAt(q, at, n, t)
  OBVIOUS
<1>11. Append(loopForests, cut) \in Seq(DOMAIN trees)
  BY <1>1 DEF TreesOK
<1>12. CASE Split(PT, at)
  <2>1. PICK r \in TreeRecord : B = <<r>> /\ SplitFrom(r, PT, at)
    BY <1>2, <1>4, <1>12, BehindFacts
  <2> HIDE DEF base, B
  <2>2. trees' \in Seq(TreeRecord) /\ Len(trees') = Len(base) + 1 /\ trees'[Len(base) + 1] = r /\ \A t \in 1 .. Len(base) : trees'[t] = base[t]
    <3> DEFINE e == base \o <<r>>
    <3>1. trees' = e
      BY <1>9, <2>1
    <3>2. base \in Seq(TreeRecord) /\ r \in TreeRecord
      BY <1>8, <2>1
    <3>3. e \in Seq(TreeRecord) /\ Len(e) = Len(base) + 1 /\ e[Len(base) + 1] = r /\ \A t \in 1 .. Len(base) : e[t] = base[t]
      <4>1. /\ base \o <<r>> \in Seq(TreeRecord) /\ Len(base \o <<r>>) = Len(base) + 1
            /\ (base \o <<r>>)[Len(base) + 1] = r /\ \A t \in 1 .. Len(base) : (base \o <<r>>)[t] = base[t]
        <5> HIDE DEF e
        <5> QED
          BY <3>2, WithOne
      <4> QED
        BY <4>1
    <3> HIDE DEF e
    <3> QED
      BY <3>1, <3>3
  <2>3. loopForests' = Append(Append(loopForests, cut), N + 1)
    <3>1. [k \in DOMAIN B |-> N + 1] = <<N + 1>>
      BY <2>1
    <3> DEFINE a == Append(loopForests, cut)
    <3>2. loopForests' = a \o <<N + 1>>
      BY <1>9, <3>1
    <3> HIDE DEF a
    <3>3. a \o <<N + 1>> = Append(a, N + 1)
      BY <1>11 DEF a
    <3> QED
      BY <3>2, <3>3 DEF a
  <2> QED
    BY <1>3, <1>5, <1>8, <1>10, <1>12, <2>1, <2>2, <2>3
<1>13. CASE ~Split(PT, at)
  <2>1. B = <<>>
    BY <1>2, <1>4, <1>13, BehindFacts
  <2> HIDE DEF base, B
  <2>2. trees' = base
    BY <1>3, <1>8, <1>9, <2>1, WithOne
  <2>3. loopForests' = Append(loopForests, cut)
    <3>1. [k \in DOMAIN B |-> N + 1] = <<>>
      BY <2>1
    <3> DEFINE a == Append(loopForests, cut)
    <3>2. loopForests' = a \o <<>> /\ a \in Seq(DOMAIN trees)
      BY <1>9, <1>11, <3>1
    <3> HIDE DEF a
    <3>3. loopForests' = a
      BY <3>2
    <3> QED
      BY <3>3 DEF a
  <2> QED
    BY <1>3, <1>5, <1>8, <1>10, <1>13, <2>2, <2>3
<1> QED
  BY <1>12, <1>13

\* What becomes of each tree when one is taken out of q.
LEMMA ConditionedHolders ==
  ASSUME PlantInv, NEW q, NEW at, NEW n, Conditions(q, at, n)
  PROVE  /\ \A t \in DOMAIN trees :
              /\ trees'[t].loop = trees[t].loop
              /\ t # q => trees'[t].subLoops = trees[t].subLoops /\ trees'[t].paths = trees[t].paths
              /\ trees'[t].parentLoop = IF t = cut THEN NoTree ELSE trees[t].parentLoop
         /\ TreesOnce' /\ PlantedOnce'
         /\ \A t : HeldByTree(t)' <=> HeldByTree(t) /\ t # cut
         /\ \A L : L # 0 => TreesOf(L)' = TreesOf(L)
         /\ DOMAIN trees' = 1 .. Len(trees')
         /\ \A t : t \in DOMAIN trees' <=> t \in DOMAIN trees \/ (Split(trees[q], at) /\ t = Len(trees) + 1)
<1> DEFINE N == Len(trees)
           m == N + 1
           PT == trees[q]
<1>1. TreesOK
  BY DEF PlantInv
<1>3. /\ cut \in DOMAIN trees /\ q \in DOMAIN trees /\ at \in DOMAIN PT.subLoops /\ n \in [DOMAIN trees -> Int]
      /\ PT.subLoops[at] = cut /\ cut < q
  BY DEF Conditions
<1>4. N \in Nat /\ DOMAIN trees = 1 .. N /\ trees[cut] \in TreeRecord
  BY <1>1, <1>3, TreeFacts
<1>5. /\ Len(trees') = (IF Split(PT, at) THEN m ELSE N) /\ trees' \in Seq(TreeRecord)
      /\ \A t \in DOMAIN trees : trees'[t] = NowAt(q, at, n, t)
      /\ Split(PT, at) => SplitFrom(trees'[m], PT, at)
      /\ Remains(CutBefore(PT, at), PT, at)
  BY ConditionedTrees
<1>6. q # cut
  <2>1. q \in Nat /\ cut \in Nat
    BY <1>1, <1>3, TreeFacts
  <2> QED
    BY <1>3, <2>1
<1> HIDE DEF PT
<1>7. trees'[q] = CutBefore(PT, at)
  BY <1>3, <1>5, <1>6 DEF NowAt, PT
<1>8. ASSUME NEW t \in DOMAIN trees
      PROVE  /\ trees'[t].loop = trees[t].loop
             /\ t # q => trees'[t].subLoops = trees[t].subLoops /\ trees'[t].paths = trees[t].paths
             /\ trees'[t].parentLoop = IF t = cut THEN NoTree ELSE trees[t].parentLoop
  <2>1. CASE t = cut
    <3>1. trees'[t] = [trees[t] EXCEPT !.parentLoop = NoTree]
      BY <1>3, <1>5, <2>1 DEF NowAt
    <3> QED
      BY <1>4, <2>1, <3>1 DEF TreeRecord
  <2>2. CASE t # cut /\ t = q
    BY <1>5, <1>7, <2>2 DEF Remains, PT
  <2>3. CASE t # cut /\ t # q
    <3>1. trees'[t] = peelTree(t, n[t]) /\ n[t] \in Int
      BY <1>3, <1>5, <2>3 DEF NowAt
    <3> QED
      BY <1>1, <2>3, <3>1, PeeledTree
  <2> QED
    BY <2>1, <2>2, <2>3
<1>9. DOMAIN trees' = 1 .. Len(trees')
  BY <1>5
<1>10. /\ TreesOnce' /\ PlantedOnce'
       /\ \A t : HeldByTree(t)' <=> HeldByTree(t) /\ t # cut
       /\ \A L : L # 0 => TreesOf(L)' = TreesOf(L)
  <2>1. TakesOut(q, at)
    <3>1. Split(PT, at) => LET behind == trees'[m]
                           IN  /\ behind.loop = 0 /\ DOMAIN behind.subLoops = 1 .. Len(PT.subLoops) - at
                               /\ \A i \in DOMAIN behind.subLoops : behind.subLoops[i] = PT.subLoops[i + at]
      BY <1>5 DEF SplitFrom
    <3>2. /\ DOMAIN trees'[q].subLoops = 1 .. Kept(PT, at)
          /\ \A i \in DOMAIN trees'[q].subLoops : trees'[q].subLoops[i] = PT.subLoops[IF at = 1 THEN i + 1 ELSE i]
      BY <1>5, <1>7 DEF Remains
    <3>3. Len(trees') = (IF Split(PT, at) THEN m ELSE N)
      BY <1>5
    <3> QED
      BY <1>8, <1>9, <3>1, <3>2, <3>3 DEF TakesOut, PT
  <2>2. trees[q].subLoops[at] = cut /\ at \in DOMAIN trees[q].subLoops /\ q \in DOMAIN trees
    BY <1>3 DEF PT
  <2> QED
    BY <2>1, <2>2, TakenOut
<1>11. \A t : t \in DOMAIN trees' <=> t \in DOMAIN trees \/ (Split(PT, at) /\ t = m)
  <2>1. CASE Split(PT, at)
    <3>1. DOMAIN trees' = 1 .. N + 1
      BY <1>5, <1>9, <2>1
    <3> HIDE DEF N
    <3> QED
      BY <1>4, <2>1, <3>1, OneMore
  <2>2. CASE ~Split(PT, at)
    BY <1>4, <1>5, <1>9, <2>2
  <2> QED
    BY <2>1, <2>2
<1> QED
  BY <1>8, <1>9, <1>10, <1>11 DEF PT

LEMMA ConditionOnLoopStep ==
  ASSUME PlantInv, conditionOnLoop
  PROVE  PlantInv'
<1>1. /\ TreesOK /\ HeldOnce /\ ForestsOnce /\ PlantedDone /\ ParsingOK /\ ValidFunction(func) /\ func \in Functions
      /\ cut # NoTree /\ UNCHANGED <<func, calls, depth, forest, parsing, running>>
  BY Valid DEF PlantInv, conditionOnLoop
<1>2. PICK q, at, n : Conditions(q, at, n)
  BY Conditioned
<1> DEFINE N == Len(trees)
           m == N + 1
           PT == trees[q]
<1>3. /\ cut \in DOMAIN trees /\ q \in DOMAIN trees /\ at \in DOMAIN PT.subLoops /\ n \in [DOMAIN trees -> Int]
      /\ q = trees[cut].parentLoop /\ PT.subLoops[at] = cut /\ cut < q /\ cut' = q
  BY <1>2 DEF Conditions
<1>4. /\ N \in Nat /\ DOMAIN trees = 1 .. N /\ PT \in TreeRecord /\ Len(loopForests) \in Nat /\ trees[cut] \in TreeRecord
      /\ Len(PT.subLoops) \in Nat
  <2>1. Len(loopForests) \in Nat
    BY <1>1 DEF TreesOK
  <2> QED
    BY <1>1, <1>3, <2>1, TreeFacts
<1>5. /\ Len(trees') = (IF Split(PT, at) THEN m ELSE N) /\ trees' \in Seq(TreeRecord)
      /\ \A t \in DOMAIN trees : trees'[t] = NowAt(q, at, n, t)
      /\ IF Split(PT, at) THEN SplitFrom(trees'[m], PT, at) /\ loopForests' = Append(Append(loopForests, cut), m)
         ELSE loopForests' = Append(loopForests, cut)
      /\ Remains(CutBefore(PT, at), PT, at)
  BY <1>2, ConditionedTrees
<1>6. q # cut
  <2>1. q \in Nat /\ cut \in Nat
    BY <1>3, <1>4
  <2> QED
    BY <1>3, <2>1
<1> HIDE DEF PT
<1>7. trees'[q] = CutBefore(PT, at)
  BY <1>3, <1>5, <1>6 DEF NowAt, PT
<1>8. ASSUME NEW t \in DOMAIN trees
      PROVE  /\ trees'[t].loop = trees[t].loop
             /\ t # q => trees'[t].subLoops = trees[t].subLoops /\ trees'[t].paths = trees[t].paths
             /\ trees'[t].parentLoop = trees[t].parentLoop \/ trees'[t].parentLoop = 0
  BY <1>2, ConditionedHolders DEF NoTree
<1>9. DOMAIN trees' = 1 .. Len(trees')
  BY <1>5
<1>10. /\ TreesOnce' /\ PlantedOnce'
       /\ \A t : HeldByTree(t)' <=> HeldByTree(t) /\ t # cut
       /\ \A L : L # 0 => TreesOf(L)' = TreesOf(L)
  BY <1>2, ConditionedHolders
\* The trees.
<1>11. TreeRecord' = TreeRecord /\ (AllUnbroken' <=> AllUnbroken)
  BY <1>1, SameFunction
<1>12. N <= Len(trees') /\ Len(trees') \in Nat /\ DOMAIN trees \subseteq DOMAIN trees'
  BY <1>4, <1>5, <1>9
<1>13. ASSUME NEW t \in DOMAIN trees PROVE TreeOK(t)'
  <2>1. TreeOK(t) /\ t \in 1 .. N
    BY <1>1, <1>4 DEF TreesOK
  <2>2. trees'[t].parentLoop <= Len(trees')
    <3> DEFINE a == trees[t].parentLoop
               b == Len(trees')
    <3>1. a \in Nat /\ a <= N /\ N \in Nat /\ b \in Nat /\ N <= b /\ (trees'[t].parentLoop = a \/ trees'[t].parentLoop = 0)
      BY <1>1, <1>4, <1>8, <1>12, TreeFacts
    <3> HIDE DEF a, b, N
    <3>2. a <= b /\ 0 <= b
      BY <3>1
    <3> QED
      BY <3>1, <3>2 DEF b
  <2>3. CASE t # q
    BY <1>8, <1>11, <2>1, <2>2, <2>3 DEF TreeOK
  <2>4. CASE t = q
    <3>1. \A i \in DOMAIN trees'[t].subLoops : trees'[t].subLoops[i] < t
      <4> SUFFICES ASSUME NEW i \in DOMAIN trees'[t].subLoops PROVE trees'[t].subLoops[i] < t
        OBVIOUS
      <4> DEFINE j == IF at = 1 THEN i + 1 ELSE i
      <4>1. trees'[t].subLoops[i] = PT.subLoops[j] /\ i \in 1 .. Kept(PT, at) /\ DOMAIN PT.subLoops = 1 .. Len(PT.subLoops)
        BY <1>1, <1>3, <1>5, <1>7, <2>4, TreeFacts DEF Remains, PT
      <4>2. j \in DOMAIN PT.subLoops
        <5> DEFINE l == Len(PT.subLoops)
        <5>1. l \in Nat /\ i \in 1 .. (IF at = 1 THEN l - 1 ELSE at - 1) /\ at \in 1 .. l
          BY <1>3, <1>4, <4>1 DEF Kept
        <5> HIDE DEF l
        <5>2. j \in 1 .. l
          BY <5>1
        <5> QED
          BY <4>1, <5>2 DEF l
      <4> HIDE DEF j
      <4>3. PT.subLoops[j] < t
        BY <2>1, <2>4, <4>2 DEF TreeOK, PT
      <4> QED
        BY <4>1, <4>3
    <3>2. /\ Len(trees'[t].paths) \in Len(trees'[t].subLoops) .. Len(trees'[t].subLoops) + 1
          /\ AllUnbroken => Len(trees'[t].paths) = Len(trees'[t].subLoops) + 1
      <4>1. AllUnbroken => Len(PT.paths) = Len(PT.subLoops) + 1
        BY <2>1, <2>4 DEF TreeOK, PT
      <4> QED
        BY <1>5, <1>7, <2>4, <4>1 DEF Remains
    <3> QED
      BY <1>11, <2>2, <3>1, <3>2 DEF TreeOK
  <2> QED
    BY <2>3, <2>4
<1>14. ASSUME Split(PT, at), NEW t, t = m PROVE TreeOK(t)'
  <2> DEFINE l == Len(PT.subLoops)
  <2>1. /\ trees'[m].parentLoop = 0 /\ DOMAIN trees'[m].subLoops = 1 .. l - at /\ Len(trees'[m].subLoops) = l - at
        /\ \A i \in 1 .. l - at : trees'[m].subLoops[i] = PT.subLoops[i + at]
        /\ Len(trees'[m].paths) \in l - at .. l - at + 1
        /\ Len(PT.paths) = l + 1 => Len(trees'[m].paths) = l - at + 1
    BY <1>5, <1>14 DEF SplitFrom, NoTree
  <2>2. TreeOK(q) /\ q \in 1 .. N
    BY <1>1, <1>3, <1>4 DEF TreesOK
  <2>3. \A i \in DOMAIN PT.subLoops : PT.subLoops[i] < q /\ PT.subLoops[i] \in Nat
    <3>1. PT.subLoops \in Seq(DOMAIN trees)
      BY <1>1, <1>3, TreeFacts DEF PT
    <3> QED
      BY <1>4, <2>2, <3>1 DEF TreeOK, PT
  <2>4. DOMAIN PT.subLoops = 1 .. l /\ l \in Nat /\ at \in 1 .. l
    BY <1>1, <1>3, TreeFacts DEF PT
  <2>5. AllUnbroken => Len(PT.paths) = l + 1
    BY <2>2 DEF TreeOK, PT
  <2> HIDE DEF l
  <2>6. \A i \in DOMAIN trees'[m].subLoops : trees'[m].subLoops[i] < m
    <3> SUFFICES ASSUME NEW i \in 1 .. l - at PROVE PT.subLoops[i + at] < m
      BY <2>1
    <3>1. i + at \in 1 .. l
      BY <2>4
    <3> DEFINE x == PT.subLoops[i + at]
    <3>2. x < q /\ x \in Nat
      BY <2>3, <2>4, <3>1
    <3> HIDE DEF x
    <3>3. x < m
      BY <1>4, <2>2, <3>2
    <3> QED
      BY <3>3 DEF x
  <2>7. 0 <= Len(trees')
    BY <1>12
  <2>8. /\ Len(trees'[m].paths) \in Len(trees'[m].subLoops) .. Len(trees'[m].subLoops) + 1
        /\ AllUnbroken => Len(trees'[m].paths) = Len(trees'[m].subLoops) + 1
    BY <2>1, <2>5
  <2>9. trees'[m].parentLoop <= Len(trees')
    BY <2>1, <2>7
  <2> HIDE DEF m
  <2> QED
    BY <1>11, <1>14, <2>6, <2>8, <2>9 DEF TreeOK
<1>15. \A t : t \in DOMAIN trees' <=> t \in DOMAIN trees \/ (Split(PT, at) /\ t = m)
  BY <1>2, ConditionedHolders DEF PT
\* The forests.
<1>16. HeldByTree(cut) /\ ~HeldByForest(cut) /\ ~HeldByForest(m) /\ cut \in Nat /\ m \in Nat /\ cut # m /\ m \notin DOMAIN trees
  <2>1. cut \in Nat /\ m \in Nat /\ m \notin DOMAIN trees
    BY <1>3, <1>4
  <2>2. HeldByTree(cut)
    BY <1>3 DEF HeldByTree, PT
  <2> HIDE DEF m
  <2>3. ~HeldByForest(cut) /\ ~HeldByForest(m)
    BY <1>1, <2>1, <2>2 DEF HeldOnce
  <2> QED
    BY <1>3, <2>1, <2>2, <2>3
<1>17. /\ ForestsOnce' /\ loopForests' \in Seq(DOMAIN trees')
       /\ \A t : HeldByForest(t)' <=> HeldByForest(t) \/ t = cut \/ (Split(PT, at) /\ t = m)
       /\ Len(loopForests') \in Nat /\ Len(loopForests) <= Len(loopForests')
  <2>1. CASE Split(PT, at)
    <3>1. loopForests' = Append(Append(loopForests, cut), m) /\ m \in DOMAIN trees' /\ cut \in DOMAIN trees'
      BY <1>3, <1>5, <1>15, <2>1
    <3> HIDE DEF m
    <3>2. /\ ForestsOnce'
          /\ \A t : HeldByForest(t)' <=> HeldByForest(t) \/ t = cut \/ t = m
          /\ \A D : DOMAIN trees \subseteq D /\ cut \in D /\ m \in D => loopForests' \in Seq(D)
          /\ Len(loopForests') = Len(loopForests) + 2
      BY <1>16, <3>1, NewForests
    <3>3. Len(loopForests') \in Nat /\ Len(loopForests) <= Len(loopForests')
      BY <1>4, <3>2
    <3> QED
      BY <1>12, <2>1, <3>1, <3>2, <3>3
  <2>2. CASE ~Split(PT, at)
    <3>1. loopForests' = Append(loopForests, cut) /\ cut \in DOMAIN trees'
      BY <1>3, <1>5, <1>12, <2>2
    <3>2. /\ ForestsOnce'
          /\ \A t : HeldByForest(t)' <=> HeldByForest(t) \/ t = cut
          /\ \A D : DOMAIN trees \subseteq D /\ cut \in D => loopForests' \in Seq(D)
      BY <1>16, <3>1, NewForest
    <3>3. Len(loopForests') = Len(loopForests) + 1
      <4>1. loopForests \in Seq(DOMAIN trees)
        BY <1>1 DEF TreesOK
      <4> QED
        BY <3>1, <4>1
    <3>4. Len(loopForests') \in Nat /\ Len(loopForests) <= Len(loopForests')
      BY <1>4, <3>3
    <3> QED
      BY <1>12, <2>2, <3>1, <3>2, <3>4
  <2> QED
    BY <2>1, <2>2
<1>18. TreesOK'
  <2>1. \A t \in DOMAIN trees' : TreeOK(t)'
    <3> HIDE DEF m
    <3> QED
      BY <1>13, <1>14, <1>15
  <2> QED
    BY <1>5, <1>11, <1>17, <2>1 DEF TreesOK
\* The rest.
<1>19. /\ CallsOK' /\ CallsOnce'
       /\ \A t : ~HeldByCall(t) /\ ~HeldByCall(t)'
       /\ ~Pending /\ ~Pending'
       /\ \A L : Done(L)' <=> Done(L)
  BY <1>1, StillNoCalls
<1>20. HeldOnce'
  <2> SUFFICES ASSUME NEW t \in Nat
               PROVE  /\ t \in DOMAIN trees' <=> HeldByTree(t)' \/ HeldByForest(t)'
                      /\ HeldByTree(t)' => ~HeldByForest(t)'
    BY <1>19 DEF HeldOnce
  <2>1. /\ t \in DOMAIN trees <=> HeldByTree(t) \/ HeldByForest(t)
        /\ HeldByTree(t) => ~HeldByForest(t)
    BY <1>1, <1>19 DEF HeldOnce
  <2> HIDE DEF m
  <2> QED
    BY <1>10, <1>15, <1>16, <1>17, <2>1
<1>21. PlantedDone'
  <2>1. RealLoops' = RealLoops /\ \A L : Clean(L)' <=> Clean(L)
    BY <1>1, SameFunction
  <2>2. \A L \in RealLoops : L # 0
    BY DEF RealLoops
  <2> QED
    BY <1>1, <1>10, <1>19, <2>1, <2>2 DEF PlantedDone
<1>22. ParsingOK'
  <2>1. cut' \in DOMAIN trees'
    BY <1>3, <1>12
  <2> QED
    BY <1>1, <1>4, <1>12, <1>17, <2>1, StillParsing
<1> QED
  BY <1>1, <1>10, <1>17, <1>18, <1>19, <1>20, <1>21, <1>22 DEF PlantInv

----------------------------------------------------------------------------
(* The invariant is inductive, and says what LoopsPlanted says.            *)

LEMMA InitPlants ==
  ASSUME TurboInit
  PROVE  PlantInv
<1>1. /\ func \in Functions /\ calls = <<>> /\ depth = Running /\ trees = <<>> /\ loopForests = <<>> /\ forest = <<>>
      /\ parsing = <<>> /\ cut = NoTree /\ running = "new"
  BY DEF TurboInit, Pass
<1>2. ValidFunction(func)
  BY <1>1, TurboAssumption
<1>3. TreesOK /\ TreesOnce /\ ForestsOnce /\ PlantedOnce
  BY <1>1 DEF TreesOK, TreesOnce, ForestsOnce, PlantedOnce
<1>4. CallsOnce /\ HeldOnce
  BY <1>1 DEF CallsOnce, HeldOnce, HeldByTree, HeldByForest, HeldByCall, Pending
<1>5. CallsOK
  BY <1>1 DEF CallsOK, Nested
<1>6. PlantedDone
  <2>1. \A L : ~Done(L) /\ TreesOf(L) = {}
    BY <1>1 DEF Done, TreesOf
  <2> QED
    BY <2>1 DEF PlantedDone
<1>7. ParsingOK
  BY <1>1 DEF ParsingOK, IsSequence
<1> QED
  BY <1>1, <1>3, <1>4, <1>5, <1>6, <1>7 DEF PlantInv

LEMMA StutterPlants ==
  ASSUME PlantInv, UNCHANGED turboVars
  PROVE  PlantInv'
<1>1. UNCHANGED <<func, calls, depth, trees, loopForests, forest, parsing, cut, running>>
  BY DEF turboVars
<1>2. /\ Enclosed' = Enclosed /\ TopLoops' = TopLoops /\ Loops' = Loops /\ RealLoops' = RealLoops
      /\ TreeRecord' = TreeRecord /\ CallRecord' = CallRecord
      /\ \A L : Clean(L)' <=> Clean(L)
      /\ AllUnbroken' <=> AllUnbroken
  BY <1>1, SameFunction
<1>3. TreesOK' /\ TreesOnce' /\ ForestsOnce' /\ PlantedOnce' /\ CallsOnce'
  BY <1>1, <1>2 DEF PlantInv, TreesOK, TreeOK, TreesOnce, ForestsOnce, PlantedOnce, CallsOnce
<1>4. HeldOnce'
  BY <1>1 DEF PlantInv, HeldOnce, HeldByTree, HeldByForest, HeldByCall, Pending
<1>5. CallsOK'
  <2>1. \A c : CallOK(c)' <=> CallOK(c)
    BY <1>1, <1>2 DEF CallOK, Fine
  <2>2. \A c, d : Made(c, d)' <=> Made(c, d)
    BY <1>1, <1>2 DEF Made
  <2>3. Nested' /\ Pusher' = Pusher
    BY <1>1, <1>2 DEF PlantInv, CallsOK, Nested, Pusher, LastOf
  <2>4. CallsOK
    BY DEF PlantInv
  <2>5. \A k \in DOMAIN calls' : CallOK(calls[k])'
    BY <1>1, <2>1, <2>4 DEF CallsOK
  <2>6. \A k \in 1 .. Len(calls') - 1 : Made(calls[k], calls[k + 1])'
    BY <1>1, <2>2, <2>4 DEF CallsOK
  <2>7. \A L : Clean(L)' <=> Clean(L)
    BY <1>2
  <2> QED
    BY <1>1, <1>2, <2>3, <2>4, <2>5, <2>6, <2>7 DEF CallsOK
<1>6. PlantedDone'
  <2>1. \A L : (Done(L)' <=> Done(L)) /\ TreesOf(L)' = TreesOf(L)
    BY <1>1, <1>2 DEF Done, TreesOf, Pusher, LastOf, Elements
  <2> QED
    BY <1>2, <2>1 DEF PlantInv, PlantedDone
<1>7. ParsingOK'
  BY <1>1 DEF PlantInv, ParsingOK, ParseOK, IsSequence
<1> QED
  BY <1>1, <1>3, <1>4, <1>5, <1>6, <1>7 DEF PlantInv

LEMMA NextPlants ==
  ASSUME PlantInv, [TurboNext]_turboVars
  PROVE  PlantInv'
<1>1. CASE TurboNext
  <2>1. CASE \/ initializeLoopForest \/ PushSubLoop \/ initLoopTree \/ InitFails \/ SubLoopJoins \/ NoPath \/ SubLoopFails
             \/ Plant \/ GiveUp
    BY <2>1, InitializeStep, PushSubLoopStep, InitLoopTreeStep, InitFailsStep, SubLoopJoinsStep, NoPathStep, SubLoopFailsStep,
       PlantStep, GiveUpStep
  <2>2. CASE LinkParents \/ ParseForest \/ parseBB \/ ParseSubLoop \/ ParsedLoop \/ conditionOnLoop \/ ConditionedOnRoot
    BY <2>2, LinkParentsStep, ParseForestStep, ParseBBStep, ParseSubLoopStep, ParsedLoopStep, ConditionOnLoopStep,
       ConditionedOnRootStep
  <2> QED
    BY <1>1, <2>1, <2>2 DEF TurboNext
<1>2. CASE UNCHANGED turboVars
  BY <1>2, StutterPlants
<1> QED
  BY <1>1, <1>2

Below == [t \in DOMAIN trees |-> Elements(trees[t].subLoops)]

LEMMA SubtreeIs ==
  ASSUME TreesOK
  PROVE  /\ Below \in [DOMAIN trees -> SUBSET DOMAIN trees]
         /\ \A t \in DOMAIN trees : Subtree[t] = Reach(Below, t)
<1>1. \A t \in DOMAIN trees : \A u \in Elements(trees[t].subLoops) : u \in DOMAIN trees /\ u < t
  <2> SUFFICES ASSUME NEW t \in DOMAIN trees, NEW i \in DOMAIN trees[t].subLoops
               PROVE  trees[t].subLoops[i] \in DOMAIN trees /\ trees[t].subLoops[i] < t
    BY DEF Elements
  <2>1. trees[t].subLoops \in Seq(DOMAIN trees)
    BY TreeFacts
  <2> QED
    BY <2>1 DEF TreesOK, TreeOK
<1>2. Below \in [DOMAIN trees -> SUBSET DOMAIN trees]
  BY <1>1 DEF Below
<1> DEFINE D == DOMAIN trees
           E(f) == f = [t \in D |-> {t} \union UNION {f[u] : u \in Below[t]}]
<1>3. \A f : E(f) <=> f = [t \in DOMAIN trees |-> {t} \union UNION {f[u] : u \in Elements(trees[t].subLoops)}]
  BY DEF Below
<1>4. \E f : E(f)
  <2> DEFINE g == [x \in D |-> Reach(Below, x)]
  <2>1. g = [x \in D |-> {x} \union UNION {g[u] : u \in Below[x]}]
    BY <1>2, ReachIs
  <2> HIDE DEF g
  <2> QED
    BY <2>1
<1>5. E(Subtree)
  <2>1. Subtree = CHOOSE f : f = [t \in DOMAIN trees |-> {t} \union UNION {f[u] : u \in Elements(trees[t].subLoops)}]
    BY DEF Subtree
  <2> HIDE DEF E
  <2> QED
    BY <1>3, <1>4, <2>1
<1> DEFINE m == [t \in D |-> t]
<1>6. m \in [D -> Nat] /\ \A t \in D : \A u \in Below[t] : m[u] < m[t]
  <2>1. \A t \in D : t \in Nat
    BY TreeFacts
  <2> QED
    BY <1>1, <2>1 DEF Below
<1> HIDE DEF m
<1>7. Subtree = [t \in D |-> {t} \union UNION {Subtree[u] : u \in Below[t]}]
  BY <1>5
<1> HIDE DEF E
<1>8. \A t \in D : Subtree[t] = Reach(Below, t)
  BY <1>2, <1>6, <1>7, ReachOnly
<1> QED
  BY <1>2, <1>8

\* By the greatest tree that no forest holds: what holds it is greater.
LEMMA AllInForest ==
  ASSUME PlantInv, calls = <<>>
  PROVE  InForest = DOMAIN trees
<1>1. TreesOK /\ HeldOnce
  BY DEF PlantInv
<1>2. Below \in [DOMAIN trees -> SUBSET DOMAIN trees] /\ \A t \in DOMAIN trees : Subtree[t] = Reach(Below, t)
  BY <1>1, SubtreeIs
<1>3. loopForests \in Seq(DOMAIN trees) /\ DOMAIN trees = 1 .. Len(trees) /\ Len(trees) \in Nat
  BY <1>1 DEF TreesOK
<1>4. InForest \subseteq DOMAIN trees
  BY <1>2, <1>3 DEF InForest, Elements, Reach
<1> DEFINE S == DOMAIN trees \ InForest
<1>5. S = {}
  <2> SUFFICES ASSUME S # {} PROVE FALSE
    OBVIOUS
  <2>1. PICK t \in S : \A u \in S : u <= t
    <3>1. S \in SUBSET (0 .. Len(trees))
      BY <1>3
    <3> HIDE DEF S
    <3> QED
      BY <1>3, <3>1, GreatestExists
  <2>2. t \in DOMAIN trees /\ t \notin InForest /\ t \in Nat
    BY <1>3
  <2>3. HeldByTree(t) \/ HeldByForest(t)
    BY <1>1, <2>2 DEF HeldOnce, HeldByCall, Pending
  <2>4. CASE HeldByForest(t)
    <3>1. t \in Elements(loopForests)
      BY <2>4 DEF HeldByForest, Elements
    <3>2. t \in Subtree[t]
      BY <1>2, <2>2, ReachSelf
    <3> QED
      BY <2>2, <3>1, <3>2 DEF InForest
  <2>5. CASE HeldByTree(t)
    <3>1. PICK p \in DOMAIN trees : \E i \in DOMAIN trees[p].subLoops : trees[p].subLoops[i] = t
      BY <2>5 DEF HeldByTree
    <3>2. t \in Below[p] /\ t < p
      BY <1>1, <3>1 DEF Below, Elements, TreesOK, TreeOK
    <3>3. p \in InForest
      <4>1. p \in Nat /\ ~(p <= t)
        BY <1>3, <2>2, <3>2
      <4> QED
        BY <2>1, <4>1
    <3>4. PICK f \in Elements(loopForests) : p \in Subtree[f]
      BY <3>3 DEF InForest
    <3>5. f \in DOMAIN trees
      BY <1>3, <3>4 DEF Elements
    <3>6. t \in Subtree[f]
      BY <1>2, <3>2, <3>4, <3>5, ReachLast
    <3> QED
      BY <2>2, <3>4, <3>6 DEF InForest
  <2> QED
    BY <2>3, <2>4, <2>5
<1> QED
  BY <1>4, <1>5

LEMMA PlantedFacts ==
  ASSUME PlantInv
  PROVE  LoopsPlanted
<1>1. TreesOK /\ TreesOnce /\ HeldOnce /\ PlantedOnce /\ PlantedDone /\ CallsOK
  BY DEF PlantInv
<1>2. ASSUME Planted
      PROVE  /\ \A L \in RealLoops : TreesOf(L) # {} <=> \E T \in Elements(TopLoops) : L \in Enclosed[T] /\ Clean(L)
             /\ \A L \in RealLoops : \A t, u \in TreesOf(L) : t = u /\ t \in InForest
             /\ \A t \in InForest : \A p, q \in InForest : t \in Elements(trees[p].subLoops) \cap Elements(trees[q].subLoops) => p = q
  <2>1. calls = <<>> /\ running # "new"
    BY <1>1, <1>2 DEF Planted, CallsOK
  <2>2. InForest = DOMAIN trees
    BY <2>1, AllInForest
  <2>3. \A L : Done(L) <=> \E T \in Elements(TopLoops) : L \in Enclosed[T]
    BY <2>1 DEF Done
  <2>4. \A L \in RealLoops : TreesOf(L) # {} <=> \E T \in Elements(TopLoops) : L \in Enclosed[T] /\ Clean(L)
    BY <1>1, <2>3 DEF PlantedDone
  <2>5. \A L \in RealLoops : \A t, u \in TreesOf(L) : t = u /\ t \in InForest
    BY <1>1, <2>2 DEF PlantedOnce, TreesOf, RealLoops
  <2>6. \A p, q \in InForest : \A t \in Elements(trees[p].subLoops) \cap Elements(trees[q].subLoops) : p = q
    BY <1>1, <2>2 DEF TreesOnce, Elements
  <2> QED
    BY <2>4, <2>5, <2>6
<1>3. (\A L \in DOMAIN func.subLoops : Unbroken(L)) => \A t \in DOMAIN trees : Len(trees[t].paths) = Len(trees[t].subLoops) + 1
  BY <1>1 DEF TreesOK, TreeOK, AllUnbroken, Loops
<1> QED
  BY <1>2, <1>3 DEF LoopsPlanted

(* In every function, whatever loops of it can be represented and wherever   *)
(* one cannot be reached from the one before: pushLoopTree plants the loops  *)
(* all of whose parts can be represented, and no others, each in one place   *)
(* of one forest, and neither parseNest nor conditionOnLoop loses one or     *)
(* puts it in two.                                                           *)
THEOREM LoopsAlwaysPlanted == TurboSpec => []LoopsPlanted
<1>1. TurboInit => PlantInv
  BY InitPlants
<1>2. PlantInv /\ [TurboNext]_turboVars => PlantInv'
  BY NextPlants
<1>3. PlantInv => LoopsPlanted
  BY PlantedFacts
<1> QED
  BY <1>1, <1>2, <1>3, PTL DEF TurboSpec

----------------------------------------------------------------------------
(* Nests.  Where every loop can be represented, a tree that another holds  *)
(* has one loop more in its nest than what is left of the tree around it.  *)

Holds(p, t) == Among(trees[p].subLoops, t)
Planting == running \in {"new", "plant"}

\* The loop around each.
Outer == [L \in Loops |-> Around(L)]
In(t, L) == trees[t].loop # 0 /\ Outer[trees[t].loop] = L

NestsWhole == \A t \in DOMAIN trees : trees[t].loop # 0 => trees[t].loops = AffineNest[trees[t].loop]
RootsBare == \A t \in DOMAIN trees : HeldByForest(t) => trees[t].loop = 0
HoldersAround == \A p, t \in DOMAIN trees : Holds(p, t) => In(t, trees[p].loop)
CallsWhole ==
  \A c \in DOMAIN calls : ~calls[c].anyFail /\ \A j \in DOMAIN calls[c].branches : In(calls[c].branches[j], calls[c].loop)
JustMade == Pending => trees[Len(trees)].loop = Pusher.subLoops[Pusher.i]
FitPlanting == NestsWhole /\ RootsBare /\ HoldersAround /\ CallsWhole /\ JustMade /\ refs = <<>> /\ loopOmega = <<>>

\* The loops that are no longer part of a nest: those cut and the one that is being cut.
Gone == {0} \union {M \in Loops : \E u \in TreesOf(M) : ~HeldByTree(u) \/ u = cut}
\* What is left of the nest of a tree, for those it holds.
Rest == [p \in DOMAIN trees |-> IF trees[p].loop # 0 /\ HeldByTree(p) THEN trees[p].loops ELSE 0]
HeldFit(p, t) ==
  /\ trees[t].loop # 0
  /\ IF trees[p].loop # 0 THEN Outer[trees[t].loop] = trees[p].loop ELSE Outer[trees[t].loop] \in Gone
  /\ trees[t].loops = 1 + Rest[p]
ParentsKnown == \A t \in DOMAIN trees : trees[t].parentLoop = NoTree <=> ~HeldByTree(t)
AllHeldFit == \A p, t \in DOMAIN trees : Holds(p, t) => HeldFit(p, t)
RootsGone == \A t \in DOMAIN trees : trees[t].loop # 0 /\ ~HeldByTree(t) => Outer[trees[t].loop] \in Gone
FitPlanted == ParentsKnown /\ AllHeldFit /\ RootsGone

Inner == {t \in DOMAIN trees : HeldByTree(t)}
RefOK(r) ==
  /\ r = [at |-> r.at, tree |-> r.tree, omega |-> r.omega]
  /\ r.tree \in DOMAIN trees /\ trees[r.tree].loop # 0 /\ IsSequence(r.omega)
  /\ running # "undefined" /\ r.tree \in Inner => Len(r.omega) = trees[r.tree].loops + 1
RefsOK == IsSequence(refs) /\ \A k \in 1 .. Len(refs) : RefOK(refs[k])
BlocksOK == \A k \in 1 .. Len(parsing) : parsing[k].blocks \in Seq(Where)
FitParsed == IsSequence(loopOmega) /\ RefsOK /\ BlocksOK

\* The trees that parseLoop is in, outermost first.  Each is held by the one before, as
\* long as it is held, and has a loop more in its nest if all of them are: only when
\* one has been taken out does an omega not fit.  F stands for trees.
Stack == [k \in 1 .. Len(parsing) |-> parsing[k].tree]
HeldIn(F, t) == \E p \in DOMAIN F : \E i \in DOMAIN F[p].subLoops : F[p].subLoops[i] = t
Level(F, S, k) ==
  /\ k = 1 <=> F[S[k]].loop = 0
  /\ k # 1 /\ HeldIn(F, S[k]) => Among(F[S[k - 1]].subLoops, S[k])
  /\ \A j \in 1 .. k - 1 : S[k] < S[j]
  /\ k # 1 /\ (\A j \in 2 .. k - 1 : HeldIn(F, S[j])) => F[S[k]].loops = k - 1
\* conditionOnLoop goes from the last of them outwards.
CutTo(F, S, n, c) == c # NoTree => \E m \in 1 .. n : S[m] = c /\ \A k \in m + 1 .. n : ~HeldIn(F, S[k])
Missing(F, S, n) == \E k \in 2 .. n - 1 : ~HeldIn(F, S[k])

LastForest == IF forest = <<>> THEN Len(loopForests) ELSE forest[2]
StackFit ==
  /\ Len(loopOmega) = Len(parsing)
  /\ parsing # <<>> => forest # <<>>
  /\ \A k \in 1 .. LastForest : trees[loopForests[k]].loop = 0
  /\ \A k \in 1 .. Len(parsing) : Level(trees, Stack, k)
  /\ CutTo(trees, Stack, Len(parsing), cut)
  /\ running = "undefined" => Missing(trees, Stack, Len(parsing))

FitInv == NoLoopFails => IF Planting THEN FitPlanting /\ forest = <<>> ELSE FitPlanted /\ FitParsed /\ StackFit

LEMMA SameNests ==
  ASSUME func' = func
  PROVE  /\ NoLoopFails' <=> NoLoopFails
         /\ AffineNest' = AffineNest
         /\ Outer' = Outer
<1>1. \A L : Around(L)' = Around(L)
  BY DEF Around
<1>2. AffineNest' = AffineNest
  BY <1>1 DEF AffineNest, Around
<1>3. NoLoopFails' <=> NoLoopFails
  BY DEF NoLoopFails, RealLoops
<1>4. Outer' = Outer
  BY <1>1 DEF Outer, Loops
<1> QED
  BY <1>1, <1>2, <1>3, <1>4

\* All loops can be represented.
LEMMA AllClean ==
  ASSUME ValidFunction(func), NoLoopFails
  PROVE  /\ \A L \in RealLoops : Clean(L) /\ L \in func.affine
         /\ \A L \in Loops : \A i \in 1 .. Len(func.subLoops[L]) + 1 : func.direct[L][i]
         /\ AllUnbroken
<1>1. \A L \in RealLoops : L \in func.affine
  BY DEF NoLoopFails
<1>2. \A L \in Loops : \A i \in 1 .. Len(func.subLoops[L]) + 1 : func.direct[L][i]
  <2> TAKE L \in Loops
  <2>1. DOMAIN func.direct[L] = 1 .. Len(func.subLoops[L]) + 1
    BY FunctionFacts
  <2> QED
    BY <2>1 DEF NoLoopFails, Loops
<1>3. AllUnbroken
  <2> SUFFICES ASSUME NEW L \in Loops, NEW i \in DOMAIN func.subLoops[L] PROVE func.direct[L][i]
    BY DEF AllUnbroken, Unbroken
  <2>1. DOMAIN func.subLoops[L] = 1 .. Len(func.subLoops[L]) /\ Len(func.subLoops[L]) \in Nat
    BY FunctionFacts
  <2>2. i \in 1 .. Len(func.subLoops[L]) + 1
    BY <2>1
  <2> QED
    BY <1>2, <2>2
<1>4. ASSUME NEW L \in RealLoops PROVE Clean(L)
  <2>1. L \in Loops /\ L # 0
    BY DEF RealLoops, Loops
  <2>2. ASSUME NEW M \in Enclosed[L] PROVE M \in Loops /\ M \in RealLoops
    <3>1. M \in Loops /\ L <= M
      BY <2>1, EnclosedAbove
    <3>2. Loops \subseteq Nat
      BY FunctionFacts
    <3>3. M # 0
      BY <2>1, <3>1, <3>2
    <3> QED
      BY <3>1, <3>3 DEF RealLoops, Loops
  <2> QED
    BY <1>1, <1>2, <2>2 DEF Clean
<1> QED
  BY <1>1, <1>2, <1>3, <1>4

\* The loops around a loop.
LEMMA EnclosingIs ==
  ASSUME ValidFunction(func)
  PROVE  /\ Enclosing \in [Loops -> SUBSET Loops]
         /\ \A L \in Loops : Enclosing[L] = IF L = 0 THEN {} ELSE {L} \union Enclosing[Around(L)]
<1>1. PICK n \in Loops : n \in Nat /\ Loops = 0 .. n
  BY FunctionFacts
<1> DEFINE p == [x \in 1 .. n |-> Around(x)]
           V == SUBSET Loops
           step == [x \in 1 .. n |-> [v \in V |-> {x} \union v]]
           E(f) == f = [L \in Loops |-> IF L = 0 THEN {} ELSE {L} \union f[Around(L)]]
<1>2. p \in [1 .. n -> Nat] /\ \A x \in 1 .. n : p[x] < x
  BY <1>1, AroundFacts
<1>3. step \in [1 .. n -> [V -> V]] /\ {} \in V
  BY <1>1
<1>4. PICK f \in [0 .. n -> V] : f[0] = {} /\ \A x \in 1 .. n : f[x] = step[x][f[p[x]]]
  <2> HIDE DEF p, step, V
  <2>1. Steps(n, V, {}, p, step)
    BY <1>1, <1>2, <1>3 DEF Steps
  <2>2. \E f : Along(f, n, V, {}, p, step)
    BY <2>1, AlongExists, Zenon
  <2> QED
    BY <2>2 DEF Along
<1>5. E(f)
  <2>1. \A x \in 1 .. n : f[x] = {x} \union f[Around(x)]
    <3> SUFFICES ASSUME NEW x \in 1 .. n PROVE f[x] = {x} \union f[Around(x)]
      OBVIOUS
    <3>1. p[x] = Around(x) /\ p[x] \in 0 .. n
      BY <1>1, <1>2
    <3>2. f[p[x]] \in V
      BY <3>1
    <3>3. f[x] = step[x][f[p[x]]]
      BY <1>4
    <3> QED
      BY <3>1, <3>2, <3>3
  <2>2. \A x \in Loops : f[x] = IF x = 0 THEN {} ELSE {x} \union f[Around(x)]
    BY <1>1, <1>4, <2>1
  <2>3. f = [x \in Loops |-> f[x]]
    BY <1>1
  <2> QED
    BY <2>2, <2>3
<1>6. E(Enclosing)
  <2>1. Enclosing = CHOOSE g : E(g)
    BY DEF Enclosing, Loops
  <2> HIDE DEF E
  <2> QED
    BY <1>5, <2>1
<1> DEFINE g == Enclosing
<1>7. \A L \in Loops : g[L] = IF L = 0 THEN {} ELSE {L} \union g[Around(L)]
  BY <1>6
<1>8. \A L \in Loops : g[L] \subseteq Loops
  <2> DEFINE S == {L \in Loops : ~(g[L] \subseteq Loops)}
  <2>1. S = {}
    <3> SUFFICES ASSUME S # {} PROVE FALSE
      OBVIOUS
    <3>1. S \in SUBSET Nat
      BY <1>1
    <3>2. PICK L \in S : \A M \in S : L <= M
      <4> HIDE DEF S
      <4> QED
        BY <3>1, LeastExists
    <3>3. L # 0
      BY <1>7
    <3>4. Around(L) \in Loops /\ Around(L) < L
      BY <3>3, AroundFacts
    <3>5. g[Around(L)] \subseteq Loops
      BY <1>1, <3>2, <3>4
    <3> QED
      BY <1>7, <3>3, <3>5
  <2> QED
    BY <2>1
<1>9. DOMAIN g = Loops /\ g = [L \in Loops |-> g[L]]
  BY <1>6
<1> QED
  BY <1>7, <1>8, <1>9

\* The loops around a loop come before it.
LEMMA EnclosingBelow ==
  ASSUME ValidFunction(func), NEW L \in Loops, NEW M \in Enclosing[L]
  PROVE  M \in Loops /\ M <= L
<1>1. Loops \subseteq Nat /\ Enclosing \in [Loops -> SUBSET Loops]
      /\ \A X \in Loops : Enclosing[X] = IF X = 0 THEN {} ELSE {X} \union Enclosing[Around(X)]
  BY FunctionFacts, EnclosingIs
<1> DEFINE S == {X \in Loops : \E Y \in Enclosing[X] : ~(Y <= X)}
<1>2. S = {}
  <2> SUFFICES ASSUME S # {} PROVE FALSE
    OBVIOUS
  <2>1. S \in SUBSET Nat
    BY <1>1
  <2>2. PICK X \in S : \A Z \in S : X <= Z
    <3> HIDE DEF S
    <3> QED
      BY <2>1, LeastExists
  <2>3. PICK Y \in Enclosing[X] : ~(Y <= X)
    OBVIOUS
  <2>4. X \in Loops /\ X \in Nat
    BY <1>1
  <2>5. X # 0 /\ Y \in Loops /\ Y \in Nat /\ Y # X
    BY <1>1, <2>3, <2>4
  <2>6. Around(X) \in Loops /\ Around(X) < X /\ Y \in Enclosing[Around(X)]
    BY <1>1, <2>3, <2>4, <2>5, AroundFacts
  <2>7. Around(X) \in Nat /\ ~(X <= Around(X))
    <3>1. \A a \in Loops : a < X => a \in Nat /\ ~(X <= a)
      BY <1>1, <2>4
    <3> QED
      BY <2>6, <3>1
  <2>8. Around(X) \notin S
    BY <2>2, <2>7
  <2>9. Y <= Around(X)
    BY <2>6, <2>8
  <2> QED
    BY <2>3, <2>4, <2>5, <2>6, <2>7, <2>9
<1>3. M \in Loops
  BY <1>1
<1> QED
  BY <1>2, <1>3

\* The last call has planted all that it has looked at, and its paths are direct.
LEMMA GrowingCall ==
  ASSUME PlantInv, NoLoopFails, FitPlanting, calls # <<>>
  PROVE  /\ ~Pusher.anyFail /\ Len(Pusher.branches) = Pusher.i - 1 /\ Descends(Pusher)
         /\ \A j \in DOMAIN Pusher.branches : Pusher.branches[j] \in DOMAIN trees /\ In(Pusher.branches[j], Pusher.loop)
         /\ \A j \in DOMAIN Pusher.subLoops : /\ Pusher.subLoops[j] \in RealLoops /\ Clean(Pusher.subLoops[j])
                                              /\ Outer[Pusher.subLoops[j]] = Pusher.loop
         /\ Pusher.loop # 0 => Pusher.loop \in func.affine /\ Clean(Pusher.loop)
         /\ Len(calls) = 1 <=> Pusher.loop = 0
         /\ depth # Running => depth > 0
<1> DEFINE p == Pusher
           n == Len(calls)
<1>1. CallsOK /\ ValidFunction(func) /\ CallsWhole
  BY Valid DEF PlantInv, FitPlanting
<1>2. /\ n \in Nat /\ n > 0 /\ n \in DOMAIN calls /\ p = calls[n] /\ CallOK(p) /\ p.loop \in Loops
      /\ p.i \in Nat \ {0} /\ Len(p.subLoops) \in Nat /\ DOMAIN p.subLoops = 1 .. Len(p.subLoops)
  BY <1>1, PusherFacts
<1>3. ~p.anyFail /\ \A j \in DOMAIN p.branches : In(p.branches[j], p.loop)
  BY <1>1, <1>2 DEF CallsWhole
<1>4. n # 1 <=> p.loop # 0
  BY <1>2, CallSubLoops
<1>5. Len(p.subLoops) <= Len(func.subLoops[p.loop]) /\ Len(func.subLoops[p.loop]) \in Nat
  BY <1>1, <1>2, CallSubLoops, FunctionFacts
<1>6. \A j \in DOMAIN p.branches : p.branches[j] \in DOMAIN trees
  BY BranchFacts DEF Among
<1>7. ASSUME NEW j \in DOMAIN p.subLoops
      PROVE  p.subLoops[j] \in RealLoops /\ Clean(p.subLoops[j]) /\ Outer[p.subLoops[j]] = p.loop
  <2>1. p.subLoops[j] \in Loops /\ p.subLoops[j] # 0
    BY <1>2, CallLoops
  <2>2. PICK k \in DOMAIN func.subLoops[p.loop] : p.subLoops[j] = func.subLoops[p.loop][k]
    <3>1. PICK o \in Nat : \A x \in 1 .. Len(p.subLoops) :
            x + o \in DOMAIN func.subLoops[p.loop] /\ p.subLoops[x] = func.subLoops[p.loop][x + o]
      <4>1. n \in DOMAIN calls /\ p = calls[n]
        BY <1>2
      <4> HIDE DEF p, n
      <4>2. \E o \in Nat : \A x \in 1 .. Len(calls[n].subLoops) :
              x + o \in DOMAIN func.subLoops[calls[n].loop] /\ calls[n].subLoops[x] = func.subLoops[calls[n].loop][x + o]
        BY <4>1, CallSubLoops
      <4> QED
        BY <4>1, <4>2
    <3>2. j \in 1 .. Len(p.subLoops)
      BY <1>2
    <3> HIDE DEF p
    <3> QED
      BY <3>1, <3>2
  <2>3. Outer[p.subLoops[j]] = p.loop
    <3>1. Around(p.subLoops[j]) = p.loop
      BY <1>1, <1>2, <2>2, AroundIs
    <3> QED
      BY <2>1, <3>1 DEF Outer
  <2>4. p.subLoops[j] \in RealLoops
    BY <2>1 DEF RealLoops, Loops
  <2> QED
    BY <1>1, <2>3, <2>4, AllClean
<1>8. p.loop # 0 => p.loop \in func.affine /\ Clean(p.loop)
  <2>1. p.loop # 0 => p.loop \in RealLoops
    BY <1>2 DEF RealLoops, Loops
  <2> QED
    BY <1>1, <2>1, AllClean
<1>9. depth # Running => depth > 0
  <2>1. depth # Running => p.i <= Len(p.subLoops) /\ (depth > 0 <=> Clean(p.subLoops[p.i]))
    BY <1>1 DEF CallsOK
  <2>2. p.i <= Len(p.subLoops) => p.i \in DOMAIN p.subLoops
    BY <1>2
  <2> HIDE DEF p
  <2> QED
    BY <1>7, <2>1, <2>2
<1>10. Len(p.branches) = p.i - 1 /\ p.H = Spot(p.loop, p.i, 1) /\ p.i <= Len(p.subLoops) + 1
  BY <1>2, <1>3 DEF CallOK
<1> HIDE DEF p, n
<1>11. Descends(p)
  <2>1. p.i \in 1 .. Len(func.subLoops[p.loop]) + 1
    BY <1>2, <1>5, <1>10
  <2>2. func.direct[p.loop][p.i]
    BY <1>1, <1>2, <2>1, AllClean
  <2> QED
    BY <2>2 DEF Descends
<1> QED
  BY <1>2, <1>3, <1>4, <1>6, <1>7, <1>8, <1>9, <1>10, <1>11 DEF p, n

\* The last call returns a tree for its loop.
LEMMA TreeGrows ==
  ASSUME PlantInv, NoLoopFails, FitPlanting, calls # <<>>, running = "plant",
         NEW r, r.loop = Pusher.loop, r.subLoops = Pusher.branches,
         r.loop # 0 => r.loops = AffineNest[r.loop],
         trees' = Append(trees, r), calls' = Butlast(calls), depth' \in Nat \ {0},
         loopForests' = IF Len(calls) > 1 THEN loopForests ELSE Append(loopForests, Len(trees) + 1),
         UNCHANGED <<func, running, refs, loopOmega>>
  PROVE  FitPlanting'
<1> DEFINE N == Len(trees)
           m == N + 1
           n == Len(calls)
<1>1. CallsOK /\ ValidFunction(func) /\ TreesOK /\ HeldOnce /\ NestsWhole /\ RootsBare /\ HoldersAround /\ CallsWhole
  BY Valid DEF PlantInv, FitPlanting
<1>2. /\ DOMAIN trees' = 1 .. m /\ Len(trees') = m /\ N \in Nat
      /\ DOMAIN trees = 1 .. N /\ trees'[m] = r /\ \A t \in DOMAIN trees : trees'[t] = trees[t]
  BY NewTree
<1>3. /\ n \in Nat /\ DOMAIN calls' = 1 .. n - 1 /\ Len(calls') = n - 1 /\ \A k \in 1 .. n - 1 : calls'[k] = calls[k]
  BY Popped
<1>4. /\ \A j \in DOMAIN Pusher.branches : Pusher.branches[j] \in DOMAIN trees /\ In(Pusher.branches[j], Pusher.loop)
      /\ n = 1 <=> Pusher.loop = 0
  BY GrowingCall
<1>5. n > 0 /\ DOMAIN calls = 1 .. n /\ Pusher = calls[n]
  BY <1>1, PusherFacts
<1>6. AffineNest' = AffineNest
  BY SameNests
<1> HIDE DEF N, n, m
<1>20. m = N + 1 /\ m \notin DOMAIN trees /\ \A t \in DOMAIN trees' : t \in DOMAIN trees \/ t = m
  <2>1. m = N + 1
    BY DEF m
  <2> QED
    BY <1>2, <2>1
<1>7. NestsWhole'
  BY <1>1, <1>2, <1>6, <1>20 DEF NestsWhole
<1>8. Outer' = Outer
  BY SameNests
<1>9. RootsBare'
  <2> SUFFICES ASSUME NEW t \in DOMAIN trees', HeldByForest(t)' PROVE trees'[t].loop = 0
    BY DEF RootsBare
  <2>1. CASE n > 1
    <3>1. loopForests' = loopForests
      BY <2>1 DEF n
    <3>2. HeldByForest(t)
      BY <3>1 DEF HeldByForest
    <3>3. t \in DOMAIN trees
      BY <1>1, <1>2, <1>20, <3>2 DEF HeldOnce
    <3> QED
      BY <1>1, <1>2, <3>2, <3>3 DEF RootsBare
  <2>2. CASE ~(n > 1)
    <3>1. loopForests' = Append(loopForests, m) /\ n = 1
      BY <1>3, <1>5, <2>2 DEF n, N, m
    <3>2. m \in Nat
      BY <1>2, <1>20
    <3>3. ~HeldByForest(m)
      BY <1>1, <1>20, <3>2 DEF HeldOnce
    <3>4. HeldByForest(t) \/ t = m
      BY <3>1, <3>2, <3>3, NewForest
    <3>5. r.loop = 0
      BY <1>4, <3>1
    <3> QED
      BY <1>1, <1>2, <1>20, <3>4, <3>5 DEF RootsBare
  <2> QED
    BY <2>1, <2>2
<1>10. HoldersAround'
  <2> SUFFICES ASSUME NEW p \in DOMAIN trees', NEW t \in DOMAIN trees', Holds(p, t)'
               PROVE  trees'[t].loop # 0 /\ Outer[trees'[t].loop] = trees'[p].loop
    BY <1>8 DEF HoldersAround, In
  <2>1. CASE p = m
    <3>1. PICK j \in DOMAIN Pusher.branches : Pusher.branches[j] = t
      BY <1>2, <2>1 DEF Holds, Among
    <3> QED
      BY <1>2, <1>4, <2>1, <3>1 DEF In
  <2>2. CASE p # m
    <3>1. p \in DOMAIN trees /\ trees'[p] = trees[p]
      BY <1>2, <1>20, <2>2
    <3>2. Holds(p, t)
      BY <3>1 DEF Holds, Among
    <3>3. t \in DOMAIN trees
      BY <1>1, <3>1, <3>2, TreeFacts DEF Holds, Among
    <3> QED
      BY <1>1, <1>2, <3>1, <3>2, <3>3 DEF HoldersAround, In
  <2> QED
    BY <2>1, <2>2
<1>11. CallsWhole'
  <2> SUFFICES ASSUME NEW c \in DOMAIN calls'
               PROVE  ~calls'[c].anyFail
                      /\ \A j \in DOMAIN calls'[c].branches : LET t == calls'[c].branches[j]
                                                            IN  trees'[t].loop # 0 /\ Outer[trees'[t].loop] = calls'[c].loop
    BY <1>8 DEF CallsWhole, In
  <2>1. c \in DOMAIN calls /\ calls'[c] = calls[c]
    BY <1>3, <1>5
  <2>2. ASSUME NEW j \in DOMAIN calls[c].branches
        PROVE  LET t == calls[c].branches[j] IN trees'[t].loop # 0 /\ Outer[trees'[t].loop] = calls[c].loop
    <3>1. HeldByCall(calls[c].branches[j]) /\ calls[c].branches[j] \in Nat
      BY <1>1, <2>1, CallFacts DEF HeldByCall
    <3>2. calls[c].branches[j] \in DOMAIN trees
      BY <1>1, <3>1 DEF HeldOnce
    <3>3. In(calls[c].branches[j], calls[c].loop)
      BY <1>1, <2>1 DEF CallsWhole
    <3> QED
      BY <1>2, <3>2, <3>3 DEF In
  <2> QED
    BY <1>1, <2>1, <2>2 DEF CallsWhole
<1>12. JustMade'
  <2> SUFFICES ASSUME Pending' PROVE trees'[Len(trees')].loop = Pusher'.subLoops[Pusher'.i]
    BY DEF JustMade
  <2>1. calls' # <<>>
    BY DEF Pending
  <2>2. n - 1 # 0 /\ n - 1 \in 1 .. n - 1
    <3>1. Len(calls') # 0
      <4>1. calls' \in Seq(CallRecord)
        BY <1>1 DEF CallsOK, Butlast
      <4> QED
        BY <2>1, <4>1
    <3> QED
      BY <1>3, <1>5, <3>1
  <2>3. Pusher' = calls[n - 1]
    BY <1>3, <2>2 DEF Pusher, LastOf
  <2>4. Made(calls[n - 1], calls[n])
    <3>1. (n - 1) + 1 = n /\ n - 1 \in 1 .. Len(calls) - 1
      BY <1>3, <2>2 DEF n
    <3>2. Made(calls[n - 1], calls[(n - 1) + 1])
      BY <1>1, <3>1 DEF CallsOK
    <3> QED
      BY <3>1, <3>2
  <2> QED
    BY <1>2, <1>5, <2>3, <2>4 DEF Made
<1> QED
  BY <1>7, <1>9, <1>10, <1>11, <1>12 DEF FitPlanting

\* The last call goes on with its next sub loop.
LEMMA CallGrows ==
  ASSUME PlantInv, NoLoopFails, FitPlanting, SubLoopJoins
  PROVE  FitPlanting'
<1> DEFINE p == Pusher
           n == Len(trees)
           N == Len(calls)
           c == [p EXCEPT !.interiorDepth = IF @ < depth THEN depth ELSE @, !.i = @ + 1,
                          !.branches = Append(@, Len(trees)), !.branchBlocks = Append(@, Descent(p)),
                          !.H = Spot(p.loop, p.i + 1, 1)]
<1>1. /\ Returned /\ depth > 0 /\ calls' = Calling(c) /\ depth' = Running
      /\ UNCHANGED <<func, trees, loopForests, forest, parsing, loopOmega, refs, cut, running>>
  BY DEF SubLoopJoins
<1>2. /\ calls # <<>> /\ running = "plant" /\ CallsOK /\ NestsWhole /\ RootsBare /\ HoldersAround /\ CallsWhole /\ JustMade
      /\ refs = <<>> /\ loopOmega = <<>>
  BY <1>1 DEF FitPlanting, PlantInv, Returned
<1>3. /\ p.branches \in Seq(Nat \ {0}) /\ p.i \in 1 .. Len(p.subLoops) /\ Len(p.subLoops) \in Nat
      /\ Pusher.i \in DOMAIN Pusher.subLoops
      /\ N \in Nat /\ N > 0 /\ DOMAIN calls = 1 .. N /\ calls \in Seq(CallRecord)
      /\ p = [loop |-> p.loop, subLoops |-> p.subLoops, i |-> p.i, H |-> p.H,
              branches |-> p.branches, branchBlocks |-> p.branchBlocks, anyFail |-> p.anyFail,
              interiorDepth |-> p.interiorDepth]
  BY <1>1, <1>2, PusherFacts, ReturnedFacts DEF CallsOK
<1>4. /\ ~p.anyFail
      /\ \A j \in DOMAIN p.branches : In(p.branches[j], p.loop)
      /\ p.subLoops[p.i] \in RealLoops /\ Outer[p.subLoops[p.i]] = p.loop
  BY <1>2, <1>3, GrowingCall
<1>5. In(n, p.loop)
  <2>1. Pending
    BY <1>1, <1>2 DEF Pending
  <2>2. trees[n].loop = p.subLoops[p.i]
    BY <1>2, <2>1 DEF JustMade
  <2>3. trees[n].loop # 0 /\ Outer[trees[n].loop] = p.loop
    BY <1>4, <2>2 DEF RealLoops
  <2> QED
    BY <2>3 DEF In
<1> HIDE DEF p, n
<1>6. ~c.anyFail /\ c.loop = p.loop /\ c.branches = Append(p.branches, n)
  BY <1>3, <1>4 DEF n
<1> HIDE DEF c, N
<1>7. \A j \in DOMAIN c.branches : In(c.branches[j], c.loop)
  <2>1. \A j \in DOMAIN c.branches : c.branches[j] = n \/ \E k \in DOMAIN p.branches : c.branches[j] = p.branches[k]
    BY <1>3, <1>6
  <2> QED
    BY <1>4, <1>5, <1>6, <2>1
<1>8. /\ DOMAIN calls' = 1 .. N /\ calls'[N] = c /\ \A k \in 1 .. N - 1 : calls'[k] = calls[k]
  <2>1. calls' = Append(SubSeq(calls, 1, N - 1), c)
    BY <1>1 DEF Calling, Butlast, N
  <2>2. SubSeq(calls, 1, N - 1) \in Seq(CallRecord) /\ Len(SubSeq(calls, 1, N - 1)) = N - 1
        /\ \A k \in 1 .. N - 1 : SubSeq(calls, 1, N - 1)[k] = calls[k]
    BY <1>3 DEF N
  <2> DEFINE s == SubSeq(calls, 1, N - 1)
  <2> HIDE DEF s
  <2>3. Len(Append(s, c)) = N /\ Append(s, c)[N] = c /\ DOMAIN Append(s, c) = 1 .. N /\ \A k \in 1 .. N - 1 : Append(s, c)[k] = s[k]
    BY <1>3, <2>2 DEF s
  <2> QED
    BY <2>1, <2>2, <2>3 DEF s
<1>9. UNCHANGED <<Outer, AffineNest>>
  BY <1>1, SameNests
<1>10. CallsWhole'
  <2> SUFFICES ASSUME NEW k \in DOMAIN calls'
               PROVE  ~calls'[k].anyFail
                      /\ \A j \in DOMAIN calls'[k].branches : LET t == calls'[k].branches[j]
                                                            IN  trees[t].loop # 0 /\ Outer[trees[t].loop] = calls'[k].loop
    BY <1>1, <1>9 DEF CallsWhole, In
  <2>1. CASE k = N
    BY <1>6, <1>7, <1>8, <2>1 DEF In
  <2>2. CASE k # N
    <3>1. k \in 1 .. N - 1 /\ k \in DOMAIN calls
      BY <1>3, <1>8, <2>2
    <3> QED
      BY <1>2, <1>8, <3>1 DEF CallsWhole, In
  <2> QED
    BY <2>1, <2>2
<1>11. ~Pending'
  BY <1>1 DEF Pending, Running
<1>12. NestsWhole' /\ RootsBare' /\ JustMade' /\ refs' = <<>> /\ loopOmega' = <<>>
  BY <1>1, <1>2, <1>9, <1>11 DEF NestsWhole, RootsBare, JustMade, HeldByForest
<1>13. HoldersAround'
  BY <1>1, <1>2, <1>9 DEF HoldersAround, Holds, Among, In
<1> QED
  BY <1>10, <1>12, <1>13 DEF FitPlanting

\* Where every loop can be represented, the other ways to leave a sub loop are not taken.
LEMMA NoneFails ==
  ASSUME PlantInv, NoLoopFails, FitPlanting
  PROVE  ~InitFails /\ ~NoPath /\ ~SubLoopFails /\ ~GiveUp
<1>1. CallsOK
  BY DEF PlantInv
<1>2. calls = <<>> => ~Childless /\ ~Returned /\ ~Through
  <2>1. running = "plant" /\ calls = <<>> => depth # Running
    BY <1>1 DEF CallsOK
  <2> QED
    BY <2>1 DEF Childless, Returned, Through
<1>3. SUFFICES ASSUME calls # <<>> PROVE ~InitFails /\ ~NoPath /\ ~SubLoopFails /\ ~GiveUp
  BY <1>2 DEF InitFails, NoPath, SubLoopFails, GiveUp
<1>4. /\ ~Pusher.anyFail /\ Descends(Pusher)
      /\ Pusher.loop # 0 => Pusher.loop \in func.affine
      /\ Len(calls) = 1 <=> Pusher.loop = 0
      /\ depth # Running => depth > 0
  BY <1>3, GrowingCall
<1>5. Pusher.subLoops = <<>> => Pusher.loop # 0
  <2>1. Len(calls) = 1 => Pusher.subLoops = TopLoops /\ TopLoops # <<>>
    BY <1>1, <1>3 DEF CallsOK, Pusher, LastOf
  <2> QED
    BY <1>4, <2>1
<1>6. ~InitFails
  BY <1>4, <1>5 DEF InitFails, Childless
<1>7. ~NoPath /\ ~GiveUp
  BY <1>4 DEF NoPath, GiveUp, Whole
<1>8. ~SubLoopFails
  <2>1. SubLoopFails => depth # Running /\ ~(depth > 0)
    BY DEF SubLoopFails, Returned, Running
  <2> QED
    BY <1>4, <2>1
<1> QED
  BY <1>6, <1>7, <1>8

LEMMA InitialCall ==
  ASSUME PlantInv, NoLoopFails, FitPlanting, forest = <<>>, initializeLoopForest
  PROVE  FitInv'
<1>1. /\ trees = <<>> /\ loopForests = <<>> /\ calls = <<>> /\ depth = Running /\ running = "new"
      /\ UNCHANGED <<func, depth, trees, loopForests, forest, parsing, loopOmega, refs, cut>>
      /\ \/ running' = "end" /\ calls' = calls
         \/ running' = "plant" /\ calls' = <<Call(0, TopLoops)>>
  BY DEF initializeLoopForest, PlantInv, CallsOK
<1>2. refs' = <<>> /\ loopOmega' = <<>> /\ DOMAIN trees' = {} /\ DOMAIN loopForests' = {}
  BY <1>1 DEF FitPlanting
<1>3. parsing' = <<>> /\ cut' = NoTree
  BY <1>1 DEF PlantInv, ParsingOK
<1>4. ~Pending'
  BY <1>1 DEF Pending, Running
<1>5. CASE running' = "end"
  <2>1. FitPlanted'
    BY <1>2 DEF FitPlanted, ParentsKnown, AllHeldFit, RootsGone
  <2>2. FitParsed'
    BY <1>2, <1>3 DEF FitParsed, RefsOK, BlocksOK, IsSequence
  <2>3. StackFit'
    <3>1. Len(parsing') = 0 /\ Len(loopOmega') = 0 /\ Len(loopForests') = 0
      BY <1>1, <1>2, <1>3 DEF FitPlanting
    <3>2. LastForest' = 0
      BY <1>1, <3>1 DEF LastForest
    <3> QED
      BY <1>3, <1>5, <3>1, <3>2 DEF StackFit, CutTo
  <2> QED
    BY <1>5, <2>1, <2>2, <2>3 DEF FitInv, Planting
<1>6. CASE running' = "plant" /\ calls' = <<Call(0, TopLoops)>>
  <2>1. \A k \in DOMAIN calls' : ~calls'[k].anyFail /\ calls'[k].branches = <<>>
    BY <1>6 DEF Call
  <2>2. CallsWhole'
    BY <2>1 DEF CallsWhole
  <2>3. FitPlanting'
    BY <1>2, <1>4, <2>2 DEF FitPlanting, NestsWhole, RootsBare, HoldersAround, JustMade
  <2> QED
    BY <1>1, <1>6, <2>3 DEF FitInv, Planting
<1> QED
  BY <1>1, <1>5, <1>6

LEMMA CallMade ==
  ASSUME PlantInv, NoLoopFails, FitPlanting, PushSubLoop
  PROVE  FitPlanting'
<1> DEFINE c == Call(Pusher.subLoops[Pusher.i], func.subLoops[Pusher.subLoops[Pusher.i]])
           N == Len(calls)
<1>1. /\ calls' = Append(calls, c) /\ depth = Running
      /\ UNCHANGED <<func, depth, trees, loopForests, forest, parsing, loopOmega, refs, cut, running>>
  BY DEF PushSubLoop, Descending
<1>2. /\ CallsOK /\ NestsWhole /\ RootsBare /\ HoldersAround /\ CallsWhole /\ refs = <<>> /\ loopOmega = <<>>
  BY DEF FitPlanting, PlantInv
<1>3. c.branches = <<>> /\ ~c.anyFail
  BY DEF Call
<1> HIDE DEF c
<1>4. calls'[N + 1] = c /\ \A k \in DOMAIN calls : calls'[k] = calls[k]
  <2>1. calls \in Seq(CallRecord)
    BY <1>2 DEF CallsOK
  <2> QED
    BY <1>1, <2>1
<1>10. \A k \in DOMAIN calls' : k \in DOMAIN calls \/ k = N + 1
  <2>1. calls \in Seq(CallRecord)
    BY <1>2 DEF CallsOK
  <2>2. DOMAIN calls' = 1 .. N + 1 /\ DOMAIN calls = 1 .. N /\ N \in Nat
    BY <1>1, <2>1
  <2> HIDE DEF N
  <2> QED
    BY <2>2, OneMore
<1> HIDE DEF N
<1>5. UNCHANGED <<Outer, AffineNest>>
  BY <1>1, SameNests
<1>6. CallsWhole'
  <2> SUFFICES ASSUME NEW k \in DOMAIN calls'
               PROVE  ~calls'[k].anyFail
                      /\ \A j \in DOMAIN calls'[k].branches : LET t == calls'[k].branches[j]
                                                            IN  trees[t].loop # 0 /\ Outer[trees[t].loop] = calls'[k].loop
    BY <1>1, <1>5 DEF CallsWhole, In
  <2>1. CASE k \in DOMAIN calls
    BY <1>2, <1>4, <2>1 DEF CallsWhole, In
  <2>2. CASE k = N + 1
    BY <1>3, <1>4, <2>2
  <2>3. k \in DOMAIN calls \/ k = N + 1
    BY <1>10
  <2> QED
    BY <2>1, <2>2, <2>3
<1>7. ~Pending'
  BY <1>1 DEF Pending, Running
<1>8. NestsWhole' /\ RootsBare' /\ JustMade' /\ refs' = <<>> /\ loopOmega' = <<>>
  BY <1>1, <1>2, <1>5, <1>7 DEF NestsWhole, RootsBare, JustMade, HeldByForest
<1>9. HoldersAround'
  BY <1>1, <1>2, <1>5 DEF HoldersAround, Holds, Among, In
<1> QED
  BY <1>6, <1>8, <1>9 DEF FitPlanting

LEMMA NestMade ==
  ASSUME PlantInv, NoLoopFails, FitPlanting, initLoopTree
  PROVE  FitPlanting'
<1> DEFINE r == Tree(Pusher.loop, <<>>, <<Descent(Pusher)>>, AffineNest[Pusher.loop])
<1>1. /\ running = "plant" /\ depth = Running /\ Pusher.subLoops = <<>>
      /\ trees' = Append(trees, r) /\ depth' = 1 /\ calls' = Butlast(calls)
      /\ UNCHANGED <<func, loopForests, forest, parsing, loopOmega, refs, cut, running>>
  BY DEF initLoopTree, Childless
<1>2. CallsOK /\ ValidFunction(func)
  BY Valid DEF PlantInv
<1>3. calls # <<>>
  BY <1>1, <1>2 DEF CallsOK
<1>4. /\ ~Pusher.anyFail /\ Len(Pusher.branches) = Pusher.i - 1 /\ (Len(calls) = 1 <=> Pusher.loop = 0)
  BY <1>3, GrowingCall
<1>5. Pusher.branches = <<>>
  <2>1. /\ Pusher.branches \in Seq(Nat \ {0}) /\ Pusher.i \in Nat \ {0} /\ Pusher.i <= Len(Pusher.subLoops) + 1
        /\ Len(Pusher.branches) \in Nat
    BY <1>2, <1>3, PusherFacts DEF CallOK
  <2>2. Len(Pusher.subLoops) = 0
    BY <1>1
  <2>3. Len(Pusher.branches) = 0
    BY <1>4, <2>1, <2>2
  <2> QED
    BY <2>1, <2>3
<1>6. Len(calls) > 1
  <2>1. Len(calls) = 1 => Pusher.subLoops = TopLoops /\ TopLoops # <<>>
    BY <1>2, <1>3 DEF CallsOK, Pusher, LastOf
  <2>2. Len(calls) \in Nat /\ Len(calls) > 0
    BY <1>2, <1>3, PusherFacts
  <2>3. Len(calls) # 1
    BY <1>1, <2>1
  <2>4. \A n \in Nat : n > 0 /\ n # 1 => n > 1
    OBVIOUS
  <2> HIDE DEF r
  <2> QED
    BY <2>2, <2>3, <2>4
<1>7. r.loop = Pusher.loop /\ r.subLoops = Pusher.branches /\ r.loops = AffineNest[r.loop]
  BY <1>5 DEF Tree
<1> HIDE DEF r
<1> QED
  BY <1>1, <1>3, <1>6, <1>7, TreeGrows

LEMMA NestGrows ==
  ASSUME PlantInv, NoLoopFails, FitPlanting, Plant
  PROVE  FitPlanting'
<1> DEFINE r == Tree(Pusher.loop, Pusher.branches, Append(Pusher.branchBlocks, Descent(Pusher)),
                     Fewer(trees[Pusher.branches[1]].loops))
<1>1. /\ running = "plant" /\ depth = Running /\ Pusher.subLoops # <<>> /\ Pusher.i > Len(Pusher.subLoops)
      /\ trees' = Append(trees, r) /\ depth' = Pusher.interiorDepth + 1 /\ calls' = Butlast(calls)
      /\ loopForests' = IF Len(calls) > 1 THEN loopForests ELSE Append(loopForests, Len(trees) + 1)
      /\ UNCHANGED <<func, forest, parsing, loopOmega, refs, cut, running>>
  BY DEF Plant, Through
<1>2. CallsOK /\ ValidFunction(func) /\ NestsWhole /\ TreesOK
  BY Valid DEF PlantInv, FitPlanting
<1>3. calls # <<>>
  BY <1>1, <1>2 DEF CallsOK
<1>4. /\ Len(Pusher.branches) = Pusher.i - 1
      /\ \A j \in DOMAIN Pusher.branches : Pusher.branches[j] \in DOMAIN trees /\ In(Pusher.branches[j], Pusher.loop)
      /\ Pusher.loop # 0 => Pusher.loop \in func.affine
  BY <1>3, GrowingCall
<1>5. /\ Pusher.branches \in Seq(Nat \ {0}) /\ Pusher.i \in Nat \ {0} /\ Len(Pusher.subLoops) \in Nat
      /\ Pusher.subLoops \in Seq(Loops) /\ DOMAIN Pusher.branches = 1 .. Len(Pusher.branches) /\ Pusher.interiorDepth \in Nat
      /\ Pusher.loop \in Loops
  BY <1>2, <1>3, PusherFacts
<1>6. 1 \in DOMAIN Pusher.branches
  <2>1. Len(Pusher.subLoops) # 0
    BY <1>1, <1>5
  <2>2. Len(Pusher.branches) >= 1 /\ Len(Pusher.branches) \in Nat
    <3> DEFINE l == Len(Pusher.subLoops)
               i == Pusher.i
               b == Len(Pusher.branches)
    <3>1. l \in Nat /\ l # 0 /\ i \in Nat /\ i > l /\ b = i - 1
      BY <1>1, <1>4, <1>5, <2>1
    <3> HIDE DEF l, i
    <3> QED
      BY <3>1
  <2> QED
    BY <1>5, <2>2
<1>7. r.loop = Pusher.loop /\ r.subLoops = Pusher.branches /\ r.loops = Fewer(trees[Pusher.branches[1]].loops)
  BY DEF Tree
<1>8. r.loop # 0 => r.loops = AffineNest[r.loop]
  <2> DEFINE b == Pusher.branches[1]
             B == trees[b].loop
  <2>1. b \in DOMAIN trees /\ In(b, Pusher.loop)
    BY <1>4, <1>6
  <2>2. B # 0 /\ Outer[B] = Pusher.loop /\ B \in Loops /\ trees[b].loops = AffineNest[B]
    BY <1>2, <2>1, TreeFacts DEF In, NestsWhole
  <2> HIDE DEF b, B, r
  <2>3. Around(B) = Pusher.loop
    BY <2>2 DEF Outer
  <2>4. Pusher.loop # 0 => AffineNest[B] = 1 + AffineNest[Pusher.loop] /\ AffineNest[Pusher.loop] \in Nat
    BY <1>2, <1>4, <1>5, <2>2, <2>3, AffineNestIs
  <2>5. ASSUME NEW a \in Nat PROVE Fewer(1 + a) = a
    BY DEF Fewer
  <2>6. Pusher.loop # 0 => Fewer(trees[b].loops) = AffineNest[Pusher.loop]
    BY <2>2, <2>4, <2>5
  <2> QED
    BY <1>7, <2>6 DEF b
<1>9. depth' \in Nat \ {0}
  BY <1>1, <1>5
<1> HIDE DEF r
<1> QED
  BY <1>1, <1>3, <1>7, <1>8, <1>9, TreeGrows

\* The trees are done: each is held, and its nest is one loop longer than that of its holder.
LEMMA ParentsLinked ==
  ASSUME PlantInv, NoLoopFails, FitPlanting, forest = <<>>, LinkParents
  PROVE  FitInv'
<1> DEFINE F == [t \in DOMAIN trees |-> [trees[t] EXCEPT !.parentLoop = Parent(t)]]
<1>1. /\ running = "plant" /\ calls = <<>> /\ trees' = F /\ running' \in {"parse", "end"}
      /\ UNCHANGED <<func, calls, depth, loopForests, forest, parsing, loopOmega, refs, cut>>
  BY DEF LinkParents
<1>2. TreesOK /\ TreesOnce /\ HeldOnce /\ ValidFunction(func) /\ NestsWhole /\ RootsBare /\ HoldersAround /\ refs = <<>> /\ loopOmega = <<>>
      /\ parsing = <<>> /\ cut = NoTree
  BY <1>1, Valid DEF PlantInv, FitPlanting, ParsingOK
<1>3. ASSUME NEW t \in DOMAIN trees
      PROVE  /\ F[t].loop = trees[t].loop /\ F[t].subLoops = trees[t].subLoops /\ F[t].loops = trees[t].loops
             /\ F[t].parentLoop = Parent(t)
  <2>1. F[t] = [trees[t] EXCEPT !.parentLoop = Parent(t)] /\ trees[t] \in TreeRecord
    BY <1>2, TreeFacts
  <2> QED
    BY <2>1 DEF TreeRecord
<1>4. DOMAIN trees' = DOMAIN trees
  BY <1>1
<1>5. \A t \in DOMAIN trees : /\ trees'[t].loop = trees[t].loop /\ trees'[t].subLoops = trees[t].subLoops
                              /\ trees'[t].loops = trees[t].loops /\ trees'[t].parentLoop = Parent(t)
  BY <1>1, <1>3
<1> HIDE DEF F
<1>6. \A t : HeldByTree(t)' <=> HeldByTree(t)
  BY <1>4, <1>5 DEF HeldByTree
<1>7. UNCHANGED <<Outer, AffineNest>>
  BY <1>1, SameNests
<1>8. \A t \in DOMAIN trees : trees[t].loop # 0 => HeldByTree(t)
  <2> SUFFICES ASSUME NEW t \in DOMAIN trees, trees[t].loop # 0 PROVE HeldByTree(t)
    OBVIOUS
  <2>1. t \in Nat /\ ~HeldByCall(t) /\ ~Pending
    BY <1>1, <1>2, TreeFacts DEF HeldByCall, Pending
  <2>2. HeldByTree(t) \/ HeldByForest(t)
    BY <1>2, <2>1 DEF HeldOnce
  <2> QED
    BY <1>2, <2>2 DEF RootsBare
<1>9. ParentsKnown'
  <2> SUFFICES ASSUME NEW t \in DOMAIN trees PROVE Parent(t) = NoTree <=> ~HeldByTree(t)
    BY <1>4, <1>5, <1>6 DEF ParentsKnown
  <2> DEFINE of == {p \in DOMAIN trees : \E i \in DOMAIN trees[p].subLoops : trees[p].subLoops[i] = t}
  <2>1. HeldByTree(t) <=> of # {}
    BY DEF HeldByTree
  <2>2. Parent(t) = IF of = {} THEN NoTree ELSE CHOOSE p \in of : TRUE
    BY DEF Parent
  <2>3. \A p \in of : p # 0
    BY <1>2, TreeFacts
  <2> HIDE DEF of
  <2> QED
    BY <2>1, <2>2, <2>3 DEF NoTree
<1>10. ASSUME NEW p \in DOMAIN trees, NEW t \in DOMAIN trees, Holds(p, t)
       PROVE  /\ trees[t].loop # 0 /\ Outer[trees[t].loop] = trees[p].loop
              /\ trees[t].loops = 1 + (IF trees[p].loop # 0 THEN trees[p].loops ELSE 0)
  <2> DEFINE M == trees[t].loop
             L == trees[p].loop
  <2>1. M # 0 /\ Outer[M] = L /\ M \in Loops /\ L \in Loops
    BY <1>2, <1>10, TreeFacts DEF HoldersAround, In
  <2>2. trees[t].loops = AffineNest[M] /\ (L # 0 => trees[p].loops = AffineNest[L])
    BY <1>2, <2>1 DEF NestsWhole
  <2> HIDE DEF M, L
  <2>3. Around(M) = L
    BY <2>1 DEF Outer
  <2>4. AffineNest[M] = IF L \in func.affine THEN 1 + AffineNest[L] ELSE 1
    BY <1>2, <2>1, <2>3, AffineNestIs
  <2>5. L \in func.affine <=> L # 0
    BY <1>2, <2>1, AllClean, FunctionFacts DEF RealLoops, Loops
  <2> QED
    BY <2>1, <2>2, <2>4, <2>5 DEF M, L
<1>11. AllHeldFit'
  <2> SUFFICES ASSUME NEW p \in DOMAIN trees, NEW t \in DOMAIN trees, Holds(p, t)' PROVE HeldFit(p, t)'
    BY <1>4 DEF AllHeldFit
  <2>1. Holds(p, t)
    BY <1>5 DEF Holds, Among
  <2>2. Rest'[p] = IF trees[p].loop # 0 THEN trees[p].loops ELSE 0
    <3>1. Rest' = [u \in DOMAIN trees |-> IF trees'[u].loop # 0 /\ HeldByTree(u) THEN trees'[u].loops ELSE 0]
      BY <1>4, <1>6 DEF Rest
    <3>2. Rest'[p] = IF trees'[p].loop # 0 /\ HeldByTree(p) THEN trees'[p].loops ELSE 0
      BY <3>1
    <3> QED
      BY <1>5, <1>8, <3>2
  <2>3. 0 \in Gone'
    BY DEF Gone
  <2> QED
    BY <1>5, <1>7, <1>10, <2>1, <2>2, <2>3 DEF HeldFit
<1>12. RootsGone'
  BY <1>4, <1>5, <1>6, <1>8 DEF RootsGone
<1>13. FitParsed'
  BY <1>1, <1>2 DEF FitParsed, RefsOK, BlocksOK, IsSequence
<1>14. StackFit'
  <2>1. Len(parsing') = 0 /\ Len(loopOmega') = 0
    BY <1>1, <1>2
  <2>2. \A k \in 1 .. LastForest' : trees'[loopForests'[k]].loop = 0
    <3> SUFFICES ASSUME NEW k \in 1 .. Len(loopForests) PROVE trees'[loopForests[k]].loop = 0
      BY <1>1 DEF LastForest
    <3> DEFINE t == loopForests[k]
    <3>1. DOMAIN loopForests = 1 .. Len(loopForests)
      BY <1>2 DEF TreesOK
    <3>2. HeldByForest(t) /\ t \in DOMAIN trees
      <4>1. loopForests \in Seq(DOMAIN trees) /\ k \in 1 .. Len(loopForests)
        BY <1>2 DEF TreesOK
      <4>2. loopForests[k] \in DOMAIN trees
        BY <4>1
      <4> QED
        BY <3>1, <4>2 DEF HeldByForest
    <3> HIDE DEF t
    <3>3. trees[t].loop = 0
      BY <1>2, <3>2 DEF RootsBare
    <3> QED
      BY <1>5, <3>2, <3>3 DEF t
  <2>3. running' # "undefined" /\ cut' = NoTree /\ parsing' = <<>>
    BY <1>1, <1>2
  <2> QED
    BY <2>1, <2>2, <2>3 DEF StackFit, CutTo
<1> QED
  BY <1>1, <1>9, <1>11, <1>12, <1>13, <1>14 DEF FitInv, Planting, FitPlanted

\* Sequences of anything.
LEMMA SequenceIs ==
  ASSUME NEW s
  PROVE  /\ IsSequence(s) => s \in Seq({s[k] : k \in 1 .. Len(s)}) /\ Len(s) \in Nat /\ DOMAIN s = 1 .. Len(s)
         /\ \A S : s \in Seq(S) => IsSequence(s)
<1>1. ASSUME NEW S, s \in Seq(S) PROVE IsSequence(s)
  BY <1>1 DEF IsSequence
<1>2. ASSUME IsSequence(s) PROVE s \in Seq({s[k] : k \in 1 .. Len(s)}) /\ Len(s) \in Nat /\ DOMAIN s = 1 .. Len(s)
  <2> DEFINE S == {s[k] : k \in 1 .. Len(s)}
             n == Len(s)
  <2>1. n \in Nat /\ s = [k \in 1 .. n |-> s[k]] /\ \A k \in 1 .. n : s[k] \in S
    BY <1>2 DEF IsSequence
  <2> HIDE DEF S, n
  <2>2. s \in Seq(S) /\ DOMAIN s = 1 .. n
    BY <2>1
  <2> QED
    BY <2>1, <2>2 DEF S, n
<1> QED
  BY <1>1, <1>2

LEMMA Appended ==
  ASSUME NEW s, IsSequence(s), NEW x
  PROVE  /\ IsSequence(Append(s, x)) /\ Len(Append(s, x)) = Len(s) + 1
         /\ \A k \in 1 .. Len(Append(s, x)) : Append(s, x)[k] = x \/ \E j \in 1 .. Len(s) : Append(s, x)[k] = s[j]
<1> DEFINE S == {s[k] : k \in 1 .. Len(s)}
           T == S \union {x}
           n == Len(s)
           a == Append(s, x)
<1>1. s \in Seq(S) /\ n \in Nat
  BY SequenceIs
<1> HIDE DEF S, n
<1>2. s \in Seq(T) /\ x \in T
  BY <1>1
<1> HIDE DEF T
<1>3. a \in Seq(T) /\ Len(a) = n + 1 /\ a[n + 1] = x /\ \A k \in 1 .. n : a[k] = s[k]
  BY <1>1, <1>2 DEF n
<1> HIDE DEF a
<1>4. IsSequence(a)
  BY <1>3, SequenceIs
<1>5. \A k : k \in 1 .. n + 1 <=> k \in 1 .. n \/ k = n + 1
  BY <1>1, OneMore
<1> QED
  BY <1>3, <1>4, <1>5 DEF a, n

LEMMA Fronted ==
  ASSUME NEW s, IsSequence(s), NEW m \in Int, m <= Len(s)
  PROVE  /\ IsSequence(SubSeq(s, 1, m)) /\ (m >= 0 => Len(SubSeq(s, 1, m)) = m)
         /\ \A k \in 1 .. Len(SubSeq(s, 1, m)) : k \in 1 .. Len(s) /\ SubSeq(s, 1, m)[k] = s[k]
<1> DEFINE S == {s[k] : k \in 1 .. Len(s)}
           n == Len(s)
           a == SubSeq(s, 1, m)
<1>1. s \in Seq(S) /\ n \in Nat
  BY SequenceIs
<1> HIDE DEF S
<1>2. a \in Seq(S) /\ Len(a) = (IF m >= 0 THEN m ELSE 0) /\ \A k \in 1 .. m : a[k] = s[k]
  BY <1>1
<1> HIDE DEF a
<1>3. \A k \in 1 .. Len(a) : k \in 1 .. n /\ k \in 1 .. m
  BY <1>1, <1>2 DEF n
<1>4. IsSequence(a)
  BY <1>2, SequenceIs
<1> QED
  BY <1>2, <1>3, <1>4 DEF a

LEMMA Backed ==
  ASSUME NEW s, IsSequence(s), NEW n \in Nat
  PROVE  /\ IsSequence(SubSeq(s, n + 1, Len(s))) /\ (n <= Len(s) => Len(SubSeq(s, n + 1, Len(s))) = Len(s) - n)
<1> DEFINE S == {s[k] : k \in 1 .. Len(s)}
           a == SubSeq(s, n + 1, Len(s))
<1>1. s \in Seq(S) /\ Len(s) \in Nat
  BY SequenceIs
<1> HIDE DEF S
<1>2. a \in Seq(S) /\ (n <= Len(s) => Len(a) = Len(s) - n)
  BY <1>1
<1> HIDE DEF a
<1>3. IsSequence(a)
  BY <1>2, SequenceIs
<1> QED
  BY <1>2, <1>3 DEF a

LEMMA Replaced ==
  ASSUME NEW s, IsSequence(s), NEW j, NEW x
  PROVE  IsSequence([s EXCEPT ![j] = x]) /\ Len([s EXCEPT ![j] = x]) = Len(s)
<1> DEFINE S == {s[k] : k \in 1 .. Len(s)} \union {x}
           n == Len(s)
           a == [s EXCEPT ![j] = x]
<1>1. n \in Nat /\ s = [k \in 1 .. n |-> s[k]] /\ \A k \in 1 .. n : s[k] \in S
  BY DEF IsSequence
<1>2. a = [k \in 1 .. n |-> IF k = j THEN x ELSE s[k]] /\ x \in S
  BY <1>1
<1> HIDE DEF S, n
<1>3. a \in [1 .. n -> S]
  BY <1>1, <1>2
<1> HIDE DEF a
<1>4. a \in Seq(S) /\ Len(a) = n
  BY <1>1, <1>3, SeqOf
<1>5. IsSequence(a)
  BY <1>4, SequenceIs
<1> QED
  BY <1>4, <1>5 DEF a, n

Numbered(f, n) == n \in Nat /\ f = [k \in 1 .. n |-> f[k]]
LEMMA Extended ==
  ASSUME NEW s, IsSequence(s), NEW n, NEW f, Numbered(f, n)
  PROVE  /\ IsSequence(s \o f)
         /\ \A k \in 1 .. Len(s \o f) : (\E j \in 1 .. Len(s) : (s \o f)[k] = s[j]) \/ (\E j \in 1 .. n : (s \o f)[k] = f[j])
<1> DEFINE S == {s[k] : k \in 1 .. Len(s)}
           F == {f[k] : k \in 1 .. n}
           T == S \union F
           m == Len(s)
           a == s \o f
<1>1. s \in Seq(S) /\ m \in Nat
  BY SequenceIs
<1>2. f \in [1 .. n -> F] /\ n \in Nat
  BY DEF Numbered
<1> HIDE DEF S, F, m
<1>3. s \in Seq(T) /\ f \in [1 .. n -> T]
  BY <1>1, <1>2
<1> HIDE DEF T
<1>4. f \in Seq(T) /\ Len(f) = n
  BY <1>2, <1>3, SeqOf
<1>5. a \in Seq(T) /\ Len(a) = m + n /\ (\A k \in 1 .. m : a[k] = s[k]) /\ (\A k \in m + 1 .. m + n : a[k] = f[k - m])
  BY <1>1, <1>2, <1>3, <1>4 DEF m
<1> HIDE DEF a
<1>6. IsSequence(a)
  BY <1>5, SequenceIs
<1>7. ASSUME NEW k \in 1 .. Len(a)
      PROVE  (\E j \in 1 .. m : a[k] = s[j]) \/ (\E j \in 1 .. n : a[k] = f[j])
  <2>1. CASE k \in 1 .. m
    BY <1>5, <2>1
  <2>2. CASE k \notin 1 .. m
    <3>1. k \in m + 1 .. m + n /\ k - m \in 1 .. n
      BY <1>1, <1>2, <1>5, <2>2
    <3> QED
      BY <1>5, <3>1
  <2> QED
    BY <2>1, <2>2
<1> QED
  BY <1>6, <1>7 DEF a, m

\* What is parsed of a tree.
LEMMA ParseBlocks ==
  ASSUME TreesOK, AllUnbroken, NEW t \in DOMAIN trees, NEW i \in Nat \ {0}
  PROVE  Parse(t, i).blocks \in Seq(Where)
<1> DEFINE s == trees[t].subLoops
           p == trees[t].paths
<1>1. p \in Seq(Seq(Where)) /\ Len(p) = Len(s) + 1 /\ Len(s) \in Nat
  BY TreeFacts DEF TreesOK, TreeOK, Routes
<1>2. Parse(t, i).blocks = IF i <= Len(s) THEN p[i] ELSE p[Len(p)]
  BY DEF Parse, LastOf
<1> HIDE DEF s, p
<1>3. (IF i <= Len(s) THEN i ELSE Len(p)) \in 1 .. Len(p)
  BY <1>1
<1>4. \A k \in 1 .. Len(p) : p[k] \in Seq(Where)
  BY <1>1
<1> QED
  BY <1>2, <1>3, <1>4

LEMMA ReadFacts ==
  ASSUME ValidFunction(func), NEW b \in Where
  PROVE  Read(b) \in Nat
<1> DEFINE K == Kinds(b)
           A == {"affine", "noBase", "notInst"}
<1>1. K \in Seq(A)
  <2>1. b[1] \in Loops /\ b[2] \in Nat \ {0} /\ b[3] \in 1 .. 2 /\ b = <<b[1], b[2], b[3]>> /\ b[2] <= Len(func.subLoops[b[1]]) + 1
    BY DEF Where
  <2>2. Len(func.subLoops[b[1]]) \in Nat
    BY <2>1, FunctionFacts
  <2>3. b[2] \in 1 .. Len(func.subLoops[b[1]]) + 1
    BY <2>1, <2>2
  <2>5. \A L \in Loops : \A i \in 1 .. Len(func.subLoops[L]) + 1, e \in 1 .. 2 : func.kind[<<L, i, e>>] \in Seq(A)
    BY DEF ValidFunction, Loops
  <2>4. func.kind[<<b[1], b[2], b[3]>>] \in Seq(A)
    <3> DEFINE L == b[1]
               i == b[2]
               e == b[3]
    <3>1. L \in Loops /\ i \in 1 .. Len(func.subLoops[L]) + 1 /\ e \in 1 .. 2
      BY <2>1, <2>3
    <3> HIDE DEF L, i, e, A
    <3>2. func.kind[<<L, i, e>>] \in Seq(A)
      BY <2>5, <3>1
    <3> QED
      BY <3>2 DEF L, i, e
  <2> QED
    BY <2>1, <2>4 DEF Kinds
<1> HIDE DEF A
<1>2. Len(K) \in Nat /\ DOMAIN K = 1 .. Len(K)
  BY <1>1
<1> DEFINE S == {k \in DOMAIN K : K[k] # "affine"}
           Q(k) == k \in DOMAIN K /\ K[k] # "affine" /\ \A l \in 1 .. k - 1 : K[l] = "affine"
<1>3. Read(b) = IF \E k \in DOMAIN K : K[k] # "affine"
                THEN (CHOOSE k \in DOMAIN K : K[k] # "affine" /\ \A l \in 1 .. k - 1 : K[l] = "affine") - 1 ELSE Len(K)
  BY DEF Read
<1> HIDE DEF K
<1>4. CASE S = {}
  BY <1>2, <1>3, <1>4
<1>5. CASE S # {}
  <2>1. S \in SUBSET Nat
    BY <1>2
  <2>2. PICK k \in S : \A l \in S : k <= l
    <3> HIDE DEF S
    <3> QED
      BY <1>5, <2>1, LeastExists
  <2>3. \A l \in 1 .. k - 1 : K[l] = "affine"
    <3> SUFFICES ASSUME NEW l \in 1 .. k - 1, K[l] # "affine" PROVE FALSE
      OBVIOUS
    <3>1. k \in 1 .. Len(K)
      BY <1>2, <2>2
    <3>2. l \in DOMAIN K /\ l \in Nat /\ ~(k <= l)
      BY <1>2, <3>1
    <3> QED
      BY <2>2, <3>2
  <2>4. Q(k)
    BY <2>2, <2>3
  <2> DEFINE c == CHOOSE j \in DOMAIN K : K[j] # "affine" /\ \A l \in 1 .. j - 1 : K[l] = "affine"
  <2>5. c \in DOMAIN K
    BY <2>4
  <2>6. Read(b) = c - 1
    BY <1>3, <1>5
  <2> HIDE DEF c
  <2> QED
    BY <1>2, <2>5, <2>6
<1> QED
  BY <1>4, <1>5

\* A step of parseNest or the end of conditionOnLoop leaves the nests.
LEMMA StillFit ==
  ASSUME PlantInv, FitPlanted, UNCHANGED <<func, trees>>,
         cut = NoTree \/ (cut \in DOMAIN trees /\ ~HeldByTree(cut))
  PROVE  FitPlanted'
<1>1. \A t : HeldByTree(t)' <=> HeldByTree(t)
  BY DEF HeldByTree
<1>2. Outer' = Outer /\ Loops' = Loops
  BY SameNests, SameFunction
<1>3. TreesOK
  BY DEF PlantInv
<1>4. Gone \subseteq Gone'
  <2> SUFFICES ASSUME NEW M \in Loops, NEW u \in TreesOf(M), ~HeldByTree(u) \/ u = cut
               PROVE  M \in Gone'
    BY DEF Gone
  <2>1. u \in DOMAIN trees /\ u # 0
    BY <1>3, TreeFacts DEF TreesOf
  <2>2. ~HeldByTree(u)
    BY <2>1 DEF NoTree
  <2>3. u \in TreesOf(M)'
    BY DEF TreesOf
  <2> QED
    BY <1>1, <1>2, <2>2, <2>3 DEF Gone
<1>5. Rest' = Rest
  BY <1>1 DEF Rest
<1>6. ParentsKnown'
  BY <1>1 DEF FitPlanted, ParentsKnown
<1>7. AllHeldFit'
  <2> SUFFICES ASSUME NEW p \in DOMAIN trees, NEW t \in DOMAIN trees, Holds(p, t) PROVE HeldFit(p, t)'
    BY DEF AllHeldFit, Holds, Among
  <2>1. HeldFit(p, t)
    BY DEF FitPlanted, AllHeldFit
  <2> QED
    BY <1>2, <1>4, <1>5, <2>1 DEF HeldFit
<1>8. RootsGone'
  BY <1>1, <1>2, <1>4 DEF FitPlanted, RootsGone
<1> QED
  BY <1>6, <1>7, <1>8 DEF FitPlanted

\* RefOK after the step.
RefNext(r) ==
  /\ r = [at |-> r.at, tree |-> r.tree, omega |-> r.omega]
  /\ r.tree \in DOMAIN trees' /\ trees'[r.tree].loop # 0 /\ IsSequence(r.omega)
  /\ running' # "undefined" /\ r.tree \in Inner' => Len(r.omega) = trees'[r.tree].loops + 1

LEMMA RefsNext ==
  ASSUME IsSequence(refs'), \A k \in 1 .. Len(refs') : RefNext(refs'[k])
  PROVE  RefsOK'
<1>1. IsSequence(refs)'
  BY DEF IsSequence
<1>2. \A k \in 1 .. Len(refs') : RefOK(refs[k])'
  BY DEF RefNext, RefOK, IsSequence
<1> QED
  BY <1>1, <1>2 DEF RefsOK

LEMMA StillFound ==
  ASSUME UNCHANGED <<func, trees>>, running' # "undefined" => running # "undefined"
  PROVE  \A r : RefOK(r) => RefNext(r)
<1>1. Inner' = Inner
  BY DEF Inner, HeldByTree
<1>2. ASSUME NEW r, RefOK(r) PROVE RefNext(r)
  BY <1>1, <1>2 DEF RefOK, RefNext
<1> QED
  BY <1>2

LEMMA SameRefs ==
  ASSUME RefsOK, UNCHANGED <<func, trees, refs>>, running' # "undefined" => running # "undefined"
  PROVE  RefsOK'
<1>1. IsSequence(refs') /\ \A k \in 1 .. Len(refs') : RefOK(refs'[k])
  BY DEF RefsOK
<1>2. \A k \in 1 .. Len(refs') : RefNext(refs'[k])
  BY <1>1, StillFound
<1> QED
  BY <1>1, <1>2, RefsNext

\* The calls of parseLoop that are left and the one that goes on.
LEMMA BlocksNext ==
  ASSUME func' = func, NEW b, IsSequence(b), \A k \in 1 .. Len(b) : b[k].blocks \in Seq(Where),
         NEW x, x.blocks \in Seq(Where), parsing' = Append(b, x)
  PROVE  BlocksOK'
<1> DEFINE q == Append(b, x)
<1>1. \A k \in 1 .. Len(q) : q[k] = x \/ \E j \in 1 .. Len(b) : q[k] = b[j]
  BY Appended
<1>2. Where' = Where
  BY SameFunction
<1> HIDE DEF q
<1>3. \A k \in 1 .. Len(q) : q[k].blocks \in Seq(Where)
  BY <1>1
<1>4. parsing' = q
  BY DEF q
<1> QED
  BY <1>2, <1>3, <1>4 DEF BlocksOK

LEMMA ParseForestFits ==
  ASSUME PlantInv, NoLoopFails, FitPlanted, FitParsed, ParseForest
  PROVE  FitPlanted' /\ FitParsed' /\ ~Planting'
<1>1. /\ running = "parse" /\ cut = NoTree /\ parsing = <<>> /\ running' \in {"parse", "end"}
      /\ UNCHANGED <<func, calls, depth, trees, loopForests, refs, cut>>
  BY DEF ParseForest, Parsing
<1>2. TreesOK /\ ParsingOK /\ ValidFunction(func) /\ AllUnbroken
  BY Valid, AllClean DEF PlantInv
<1> DEFINE f == IF forest = <<>> THEN <<1, Len(loopForests)>> ELSE <<forest[1] + 1, forest[2]>>
<1>3. \/ parsing' = parsing /\ loopOmega' = loopOmega
      \/ f[1] <= f[2] /\ parsing' = <<Parse(loopForests[f[1]], 1)>> /\ loopOmega' = <<0>>
  <2>1. \/ f[1] > f[2] /\ parsing' = parsing /\ loopOmega' = loopOmega
        \/ ~(f[1] > f[2]) /\ parsing' = <<Parse(loopForests[f[1]], 1)>> /\ loopOmega' = <<0>>
    BY DEF ParseForest
  <2>2. f[1] \in Int /\ f[2] \in Int
    <3>1. Len(loopForests) \in Nat
      BY <1>2 DEF TreesOK
    <3> QED
      BY <1>2, <3>1 DEF ParsingOK
  <2> HIDE DEF f
  <2> QED
    BY <2>1, <2>2
<1>4. FitPlanted'
  BY <1>1, StillFit
<1>5. RefsOK'
  BY <1>1, SameRefs DEF FitParsed
<1>6. IsSequence(loopOmega)'
  <2>1. IsSequence(<<0>>)
    BY DEF IsSequence
  <2>2. IsSequence(loopOmega')
    BY <1>3, <2>1 DEF FitParsed
  <2> QED
    BY <2>2 DEF IsSequence
<1>7. BlocksOK'
  <2>1. CASE parsing' = parsing
    BY <1>1, <2>1 DEF BlocksOK
  <2>2. CASE f[1] <= f[2] /\ parsing' = <<Parse(loopForests[f[1]], 1)>>
    <3>1. f[1] \in 1 .. Len(loopForests)
      <4>1. f[1] \in Nat \ {0} /\ f[2] \in Nat /\ f[2] <= Len(loopForests) /\ Len(loopForests) \in Nat
        <5>1. Len(loopForests) \in Nat
          BY <1>2 DEF TreesOK
        <5> QED
          BY <1>2, <5>1 DEF ParsingOK
      <4> HIDE DEF f
      <4> QED
        BY <2>2, <4>1
    <3> HIDE DEF f
    <3>2. loopForests[f[1]] \in DOMAIN trees
      BY <1>2, <3>1 DEF TreesOK
    <3>3. Parse(loopForests[f[1]], 1).blocks \in Seq(Where)
      BY <1>2, <3>2, ParseBlocks
    <3>4. IsSequence(<<>>) /\ \A k \in 1 .. Len(<<>>) : <<>>[k].blocks \in Seq(Where)
      BY DEF IsSequence
    <3>5. parsing' = Append(<<>>, Parse(loopForests[f[1]], 1))
      <4> DEFINE y == Parse(loopForests[f[1]], 1)
      <4> HIDE DEF y
      <4>1. <<y>> = Append(<<>>, y)
        OBVIOUS
      <4> QED
        BY <2>2, <4>1 DEF y
    <3> QED
      BY <1>1, <3>3, <3>4, <3>5, BlocksNext
  <2> QED
    BY <1>3, <2>1, <2>2
<1> QED
  BY <1>1, <1>4, <1>5, <1>6, <1>7 DEF FitParsed, Planting

LEMMA ParseSubLoopFits ==
  ASSUME PlantInv, NoLoopFails, FitPlanted, FitParsed, ParseSubLoop
  PROVE  FitPlanted' /\ FitParsed' /\ ~Planting'
<1> DEFINE t == Parser.tree
           x == Parse(trees[t].subLoops[Parser.i], 1)
<1>1. /\ running = "parse" /\ cut = NoTree /\ parsing # <<>> /\ Parser.i <= Len(trees[t].subLoops)
      /\ parsing' = Append(parsing, x) /\ loopOmega' = Append(loopOmega, 0)
      /\ UNCHANGED <<func, calls, depth, trees, loopForests, forest, refs, cut, running>>
  BY DEF ParseSubLoop, Parsing
<1>2. TreesOK /\ ParsingOK /\ ValidFunction(func) /\ AllUnbroken /\ IsSequence(parsing) /\ BlocksOK /\ IsSequence(loopOmega)
  BY Valid, AllClean DEF PlantInv, ParsingOK, FitParsed
<1>3. FitPlanted'
  BY <1>1, StillFit
<1>4. RefsOK'
  BY <1>1, SameRefs DEF FitParsed
<1>5. IsSequence(loopOmega)'
  <2>1. IsSequence(Append(loopOmega, 0))
    BY <1>2, Appended
  <2>2. IsSequence(loopOmega')
    BY <1>1, <2>1
  <2> QED
    BY <2>2 DEF IsSequence
<1>6. x.blocks \in Seq(Where)
  <2>1. t \in DOMAIN trees /\ Parser.i \in Nat \ {0}
    BY <1>1, ParserFacts DEF ParseOK
  <2>2. trees[t].subLoops[Parser.i] \in DOMAIN trees
    <3>1. trees[t].subLoops \in Seq(DOMAIN trees) /\ Len(trees[t].subLoops) \in Nat
      BY <1>2, <2>1, TreeFacts
    <3>2. Parser.i \in 1 .. Len(trees[t].subLoops)
      BY <1>1, <2>1, <3>1
    <3> HIDE DEF t
    <3> QED
      BY <3>1, <3>2
  <2> QED
    BY <1>2, <2>2, ParseBlocks
<1> HIDE DEF x
<1>7. BlocksOK'
  BY <1>1, <1>2, <1>6, BlocksNext DEF BlocksOK
<1> QED
  BY <1>1, <1>3, <1>4, <1>5, <1>7 DEF FitParsed, Planting

LEMMA ParsedLoopFits ==
  ASSUME PlantInv, NoLoopFails, FitPlanted, FitParsed, ParsedLoop
  PROVE  FitPlanted' /\ FitParsed' /\ ~Planting'
<1> DEFINE n == Len(parsing)
           p == parsing[n - 1]
           x == Parse(p.tree, p.i + 1)
           o == Butlast(loopOmega)
<1>1. /\ running = "parse" /\ cut = NoTree /\ parsing # <<>>
      /\ IF n = 1 THEN parsing' = <<>> /\ loopOmega' = <<>>
         ELSE parsing' = Append(SubSeq(parsing, 1, n - 2), x) /\ loopOmega' = [o EXCEPT ![Len(o)] = @ + 1]
      /\ UNCHANGED <<func, calls, depth, trees, loopForests, forest, refs, cut, running>>
  BY DEF ParsedLoop, Parsing, NextPlace
<1>2. TreesOK /\ ParsingOK /\ ValidFunction(func) /\ AllUnbroken /\ IsSequence(parsing) /\ BlocksOK /\ IsSequence(loopOmega)
      /\ \A k \in 1 .. n : ParseOK(parsing[k])
  BY Valid, AllClean DEF PlantInv, ParsingOK, FitParsed
<1>3. FitPlanted'
  BY <1>1, StillFit
<1>4. RefsOK'
  BY <1>1, SameRefs DEF FitParsed
<1>5. n \in Nat /\ n > 0
  BY <1>1, ParserFacts
<1> HIDE DEF n, x
<1>6. IsSequence(loopOmega)'
  <2>1. IsSequence(<<>>)
    BY DEF IsSequence
  <2>2. IsSequence(o)
    <3>1. Len(loopOmega) \in Nat
      BY <1>2, SequenceIs
    <3>2. Len(loopOmega) - 1 \in Int /\ Len(loopOmega) - 1 <= Len(loopOmega)
      BY <3>1
    <3>3. IsSequence(SubSeq(loopOmega, 1, Len(loopOmega) - 1))
      BY <1>2, <3>2, Fronted
    <3> QED
      BY <3>3 DEF Butlast
  <2> HIDE DEF o
  <2>3. IsSequence([o EXCEPT ![Len(o)] = @ + 1])
    <3>1. \A v : IsSequence([o EXCEPT ![Len(o)] = v])
      BY <2>2, Replaced
    <3> QED
      BY <3>1
  <2>4. IsSequence(loopOmega')
    BY <1>1, <2>1, <2>3
  <2> QED
    BY <2>4 DEF IsSequence
<1>7. BlocksOK'
  <2>1. CASE n = 1
    BY <1>1, <2>1 DEF BlocksOK
  <2>2. CASE n # 1
    <3> DEFINE b == SubSeq(parsing, 1, n - 2)
    <3>1. IsSequence(b) /\ \A k \in 1 .. Len(b) : k \in 1 .. n /\ b[k] = parsing[k]
      <4>1. n - 2 \in Int /\ n - 2 <= n
        BY <1>5
      <4> QED
        BY <1>2, <4>1, Fronted DEF n
    <3> HIDE DEF b
    <3>2. \A k \in 1 .. Len(b) : b[k].blocks \in Seq(Where)
      BY <1>2, <3>1 DEF BlocksOK, n
    <3>3. x.blocks \in Seq(Where)
      <4>1. n - 1 \in 1 .. n
        BY <1>5, <2>2
      <4>2. ParseOK(p)
        BY <1>2, <4>1
      <4> HIDE DEF p
      <4>3. p.tree \in DOMAIN trees /\ p.i + 1 \in Nat \ {0}
        BY <4>2 DEF ParseOK
      <4> QED
        BY <1>2, <4>3, ParseBlocks DEF x
    <3>4. parsing' = Append(b, x)
      BY <1>1, <2>2 DEF b
    <3> QED
      BY <1>1, <3>1, <3>2, <3>3, <3>4, BlocksNext
  <2> QED
    BY <2>1, <2>2
<1> QED
  BY <1>1, <1>3, <1>4, <1>6, <1>7 DEF FitParsed, Planting

LEMMA ConditionedOnRootFits ==
  ASSUME PlantInv, FitPlanted, FitParsed, ConditionedOnRoot, ~Planting
  PROVE  FitPlanted' /\ FitParsed' /\ ~Planting'
<1>1. cut # NoTree /\ trees[cut].parentLoop = NoTree
      /\ UNCHANGED <<func, calls, depth, trees, loopForests, forest, parsing, loopOmega, refs, running>>
  BY DEF ConditionedOnRoot
<1>2. cut \in DOMAIN trees
  BY <1>1 DEF PlantInv, ParsingOK
<1>3. ~HeldByTree(cut)
  BY <1>1, <1>2 DEF FitPlanted, ParentsKnown
<1>4. FitPlanted'
  BY <1>1, <1>2, <1>3, StillFit
<1>5. RefsOK'
  BY <1>1, SameRefs DEF FitParsed
<1>6. Where' = Where
  BY <1>1, SameFunction
<1> QED
  BY <1>1, <1>4, <1>5, <1>6 DEF FitParsed, Planting, IsSequence, BlocksOK

LEMMA ParseBBFits ==
  ASSUME PlantInv, NoLoopFails, FitPlanted, FitParsed, parseBB
  PROVE  FitPlanted' /\ FitParsed' /\ ~Planting'
<1> DEFINE e == Parser
           t == e.tree
           b == Head(e.blocks)
           x == [e EXCEPT !.blocks = Tail(e.blocks)]
           n == Read(b)
           new == [k \in 1 .. n |-> [at |-> Append(b, k), tree |-> t, omega |-> Counted(k - 1)]]
<1>1. /\ running = "parse" /\ cut = NoTree /\ parsing # <<>> /\ e.blocks # <<>>
      /\ parsing' = Append(Butlast(parsing), x)
      /\ \/ loopOmega' = loopOmega /\ refs' = refs /\ running' = running
         \/ /\ trees[t].loop # 0 /\ refs' = refs \o new /\ loopOmega' = Counted(n)
            /\ running' = IF n > 0 /\ Len(loopOmega) # trees[t].loops + 1 THEN "undefined" ELSE running
      /\ UNCHANGED <<func, calls, depth, trees, loopForests, forest>>
  BY DEF parseBB, Parsing, Recorded
<1>2. TreesOK /\ ParsingOK /\ ValidFunction(func) /\ AllUnbroken /\ IsSequence(parsing) /\ BlocksOK /\ IsSequence(loopOmega)
      /\ RefsOK
  BY Valid, AllClean DEF PlantInv, ParsingOK, FitParsed
<1>3. /\ Len(parsing) \in Nat /\ Len(parsing) > 0 /\ e = parsing[Len(parsing)] /\ ParseOK(e)
  BY <1>1, ParserFacts
<1>4. e.blocks \in Seq(Where) /\ t \in DOMAIN trees /\ e = [tree |-> e.tree, i |-> e.i, blocks |-> e.blocks]
  BY <1>2, <1>3 DEF BlocksOK, ParseOK
<1> HIDE DEF e
<1>5. b \in Where /\ Tail(e.blocks) \in Seq(Where)
  BY <1>1, <1>4
<1>6. n \in Nat
  BY <1>2, <1>5, ReadFacts
<1>7. FitPlanted'
  BY <1>1, StillFit
<1>8. \A k : IsSequence(Counted(k)) /\ Len(Counted(k)) = Len(loopOmega)
  <2> TAKE k
  <2>1. \A v : IsSequence([loopOmega EXCEPT ![Len(loopOmega)] = v]) /\ Len([loopOmega EXCEPT ![Len(loopOmega)] = v]) = Len(loopOmega)
    BY <1>2, Replaced
  <2>2. Counted(k) = [loopOmega EXCEPT ![Len(loopOmega)] = loopOmega[Len(loopOmega)] + k]
    BY DEF Counted
  <2> QED
    BY <2>1, <2>2
<1>9. IsSequence(loopOmega)'
  <2>1. IsSequence(loopOmega')
    BY <1>1, <1>2, <1>8
  <2> QED
    BY <2>1 DEF IsSequence
<1>10. BlocksOK'
  <2> DEFINE p == Butlast(parsing)
  <2>1. IsSequence(p) /\ \A k \in 1 .. Len(p) : k \in 1 .. Len(parsing) /\ p[k] = parsing[k]
    <3>1. Len(parsing) - 1 \in Int /\ Len(parsing) - 1 <= Len(parsing)
      BY <1>3
    <3>2. IsSequence(SubSeq(parsing, 1, Len(parsing) - 1))
          /\ \A k \in 1 .. Len(SubSeq(parsing, 1, Len(parsing) - 1)) :
               k \in 1 .. Len(parsing) /\ SubSeq(parsing, 1, Len(parsing) - 1)[k] = parsing[k]
      BY <1>2, <3>1, Fronted
    <3> QED
      BY <3>2 DEF Butlast
  <2> HIDE DEF p
  <2>2. \A k \in 1 .. Len(p) : p[k].blocks \in Seq(Where)
    BY <1>2, <2>1 DEF BlocksOK
  <2>3. x.blocks \in Seq(Where)
    <3>1. x.blocks = Tail(e.blocks)
      BY <1>4
    <3> QED
      BY <1>5, <3>1
  <2>4. parsing' = Append(p, x)
    BY <1>1 DEF p
  <2> HIDE DEF x
  <2> QED
    BY <1>1, <2>1, <2>2, <2>3, <2>4, BlocksNext
<1>11. RefsOK'
  <2>1. CASE refs' = refs /\ running' = running
    BY <1>1, <1>2, <2>1, SameRefs
  <2>2. CASE /\ trees[t].loop # 0 /\ refs' = refs \o new
             /\ running' = IF n > 0 /\ Len(loopOmega) # trees[t].loops + 1 THEN "undefined" ELSE running
    <3>1. \A r : RefOK(r) => RefNext(r)
      BY <1>1, StillFound
    <3>2. \A k \in 1 .. n : RefNext(new[k])
      <4> TAKE k \in 1 .. n
      <4> DEFINE r == new[k]
      <4>1. r = [at |-> Append(b, k), tree |-> t, omega |-> Counted(k - 1)]
        OBVIOUS
      <4> HIDE DEF r, b
      <4>2. r = [at |-> r.at, tree |-> r.tree, omega |-> r.omega] /\ r.tree = t /\ r.omega = Counted(k - 1)
        BY <4>1
      <4>3. IsSequence(r.omega) /\ Len(r.omega) = Len(loopOmega)
        BY <1>8, <4>2
      <4>4. n > 0
        BY <1>6
      <4>5. running' # "undefined" => Len(r.omega) = trees[t].loops + 1
        BY <2>2, <4>3, <4>4
      <4> HIDE DEF n
      <4>6. RefNext(r)
        BY <1>1, <1>4, <2>2, <4>2, <4>3, <4>5 DEF RefNext
      <4> QED
        BY <4>6 DEF r
    <3>3. Numbered(new, n)
      BY <1>6 DEF Numbered
    <3> HIDE DEF new, n
    <3>7. IsSequence(refs)
      BY <1>2 DEF RefsOK
    <3>4. IsSequence(refs \o new)
          /\ \A k \in 1 .. Len(refs \o new) : (\E j \in 1 .. Len(refs) : (refs \o new)[k] = refs[j])
                                              \/ (\E j \in 1 .. n : (refs \o new)[k] = new[j])
      BY <3>3, <3>7, Extended
    <3> DEFINE q == refs \o new
    <3>5. refs' = q
      BY <2>2
    <3> HIDE DEF q
    <3>6. \A k \in 1 .. Len(q) : RefNext(q[k])
      BY <1>2, <3>1, <3>2, <3>4 DEF RefsOK, q
    <3> QED
      BY <3>4, <3>5, <3>6, RefsNext DEF q
  <2> QED
    BY <1>1, <2>1, <2>2
<1>12. running' \in {"parse", "undefined"}
  BY <1>1
<1> QED
  BY <1>7, <1>9, <1>10, <1>11, <1>12 DEF FitParsed, Planting

----------------------------------------------------------------------------
(* The trees in a tree.                                                    *)

LEMMA ReachEnd ==
  ASSUME NEW D, NEW next \in [D -> SUBSET D], NEW x \in D, NEW y \in Reach(next, x), y # x
  PROVE  \E z \in Reach(next, x) : y \in next[z]
<1>1. PICK p : Links(next, p, x, y)
  BY DEF Reach
<1> DEFINE n == Len(p)
           q == SubSeq(p, 1, n - 1)
<1>2. p \in Seq(D) /\ n > 0 /\ n \in Nat /\ p[1] = x /\ p[n] = y /\ \A i \in 1 .. n - 1 : p[i + 1] \in next[p[i]]
  BY <1>1 DEF Links
<1>3. n # 1
  BY <1>2
<1>4. q \in Seq(D) /\ Len(q) = n - 1 /\ \A i \in 1 .. n - 1 : q[i] = p[i]
  BY <1>2
<1> HIDE DEF n, q
<1>5. n - 1 \in Nat /\ n - 1 > 0 /\ 1 \in 1 .. n - 1 /\ n - 1 \in 1 .. n - 1 /\ (n - 1) + 1 = n
  BY <1>2, <1>3
<1> DEFINE z == p[n - 1]
<1>6. z \in D /\ y \in next[z]
  <2>1. y \in next[z]
    BY <1>2, <1>5
  <2>2. z \in D
    BY <1>4, <1>5
  <2> QED
    BY <2>1, <2>2
<1>7. \A i \in 1 .. (n - 1) - 1 : i \in 1 .. n - 1 /\ i + 1 \in 1 .. n - 1
  BY <1>5
<1>8. Links(next, q, x, z)
  <2>1. \A i \in 1 .. Len(q) - 1 : q[i + 1] \in next[q[i]]
    BY <1>2, <1>4, <1>7
  <2>2. q[1] = x /\ q[Len(q)] = z
    BY <1>2, <1>4, <1>5
  <2> QED
    BY <1>4, <1>5, <2>1, <2>2 DEF Links
<1> HIDE DEF z
<1> QED
  BY <1>6, <1>8 DEF Reach

\* What a tree holds, no other does, and it is less.
LEMMA HolderFacts ==
  ASSUME TreesOK, TreesOnce, NEW p \in DOMAIN trees, NEW t, Holds(p, t)
  PROVE  /\ t \in DOMAIN trees /\ t \in Nat /\ p \in Nat /\ t < p /\ HeldByTree(t) /\ t \in Below[p]
         /\ \A q \in DOMAIN trees : Holds(q, t) => q = p
<1>1. PICK i \in DOMAIN trees[p].subLoops : trees[p].subLoops[i] = t
  BY DEF Holds, Among
<1>2. trees[p].subLoops \in Seq(DOMAIN trees) /\ p \in Nat /\ TreeOK(p)
  BY TreeFacts DEF TreesOK
<1>3. t \in DOMAIN trees /\ t < p
  BY <1>1, <1>2 DEF TreeOK
<1>4. HeldByTree(t) /\ t \in Below[p]
  BY <1>1 DEF HeldByTree, Below, Elements
<1>5. \A q \in DOMAIN trees : Holds(q, t) => q = p
  BY <1>1 DEF TreesOnce, Holds, Among
<1>6. t \in Nat
  BY <1>3, TreeFacts
<1> QED
  BY <1>2, <1>3, <1>4, <1>5, <1>6

LEMMA HolderIs ==
  ASSUME NEW t
  PROVE  HeldByTree(t) <=> \E p \in DOMAIN trees : Holds(p, t)
  BY DEF HeldByTree, Holds, Among

LEMMA BelowIs ==
  ASSUME NEW p \in DOMAIN trees, NEW t
  PROVE  t \in Below[p] <=> Holds(p, t)
  BY DEF Below, Elements, Holds, Among

\* By the greatest tree of the nest that does not.
LEMMA HeldLoops ==
  ASSUME TreesOK, TreesOnce, AllHeldFit, NEW t \in DOMAIN trees, HeldByTree(t)
  PROVE  trees[t].loop # 0 /\ trees[t].loops \in Nat /\ trees[t].loops > 0 /\ Rest[t] = trees[t].loops
<1> DEFINE S == {u \in DOMAIN trees : HeldByTree(u) /\ ~(trees[u].loops \in Nat /\ trees[u].loops > 0)}
<1>1. S = {}
  <2> SUFFICES ASSUME S # {} PROVE FALSE
    OBVIOUS
  <2>1. PICK u \in S : \A v \in S : v <= u
    <3>1. S \in SUBSET (0 .. Len(trees)) /\ Len(trees) \in Nat
      BY DEF TreesOK
    <3> HIDE DEF S
    <3> QED
      BY <3>1, GreatestExists
  <2>2. PICK p \in DOMAIN trees : Holds(p, u)
    BY <2>1, HolderIs
  <2>3. u \in Nat /\ p \in Nat /\ u < p
    BY <2>2, HolderFacts
  <2>4. p \notin S
    BY <2>1, <2>3
  <2>5. trees[u].loops = 1 + Rest[p]
    BY <2>1, <2>2 DEF AllHeldFit, HeldFit
  <2>6. Rest[p] \in Nat
    BY <2>4 DEF Rest
  <2> HIDE DEF S
  <2>7. trees[u].loops \in Nat /\ trees[u].loops > 0
    BY <2>5, <2>6
  <2> QED
    BY <2>1, <2>7 DEF S
<1>2. trees[t].loop # 0
  <2>1. PICK p \in DOMAIN trees : Holds(p, t)
    BY HolderIs
  <2> QED
    BY <2>1 DEF AllHeldFit, HeldFit
<1> QED
  BY <1>1, <1>2 DEF Rest

LEMMA InSubtree ==
  ASSUME TreesOK, TreesOnce, AllHeldFit, NEW u \in DOMAIN trees, HeldByTree(u), NEW y \in Subtree[u]
  PROVE  /\ y \in DOMAIN trees /\ y <= u /\ HeldByTree(y) /\ trees[y].loops >= trees[u].loops
         /\ y = u \/ \E x \in Subtree[u] : Holds(x, y)
<1>1. Below \in [DOMAIN trees -> SUBSET DOMAIN trees] /\ Subtree[u] = Reach(Below, u)
  BY SubtreeIs
<1>2. ASSUME NEW z \in Subtree[u], z # u
      PROVE  \E x \in Subtree[u] : x \in DOMAIN trees /\ Holds(x, z)
  <2>1. PICK x \in Reach(Below, u) : z \in Below[x]
    BY <1>1, <1>2, ReachEnd
  <2>2. x \in DOMAIN trees
    BY <1>1, <2>1 DEF Reach
  <2> QED
    BY <1>1, <2>1, <2>2, BelowIs
<1> DEFINE Between(z) == z <= u /\ HeldByTree(z) /\ trees[z].loops >= trees[u].loops
           S == {z \in Subtree[u] : ~Between(z)}
<1>3. Subtree[u] \subseteq DOMAIN trees
  BY <1>1 DEF Reach
<1>4. S = {}
  <2> SUFFICES ASSUME S # {} PROVE FALSE
    OBVIOUS
  <2>1. PICK z \in S : \A v \in S : v <= z
    <3>1. S \in SUBSET (0 .. Len(trees)) /\ Len(trees) \in Nat
      BY <1>3 DEF TreesOK
    <3> HIDE DEF S
    <3> QED
      BY <3>1, GreatestExists
  <2>2. z # u
    <3>1. u \in Nat /\ trees[u].loops \in Nat
      BY TreeFacts, HeldLoops
    <3>2. Between(u)
      BY <3>1
    <3> QED
      BY <2>1, <3>2
  <2>3. PICK x \in Subtree[u] : x \in DOMAIN trees /\ Holds(x, z)
    BY <1>2, <2>1, <2>2
  <2>4. z \in Nat /\ x \in Nat /\ z < x /\ HeldByTree(z) /\ z \in DOMAIN trees
    BY <2>3, HolderFacts
  <2>5. x \notin S
    BY <2>1, <2>4
  <2>6. Between(x)
    BY <2>3, <2>5
  <2>7. trees[z].loops = 1 + trees[x].loops /\ trees[x].loops \in Nat
    <3>1. trees[z].loops = 1 + Rest[x]
      BY <2>3, <2>4 DEF AllHeldFit, HeldFit
    <3> QED
      BY <2>3, <2>6, <3>1, HeldLoops
  <2>8. u \in Nat /\ trees[u].loops \in Nat
    BY TreeFacts, HeldLoops
  <2>9. z <= u /\ trees[z].loops >= trees[u].loops
    <3> DEFINE a == trees[z].loops
               b == trees[x].loops
               c == trees[u].loops
    <3>1. a = 1 + b /\ b \in Nat /\ c \in Nat /\ b >= c
      BY <2>6, <2>7, <2>8
    <3> HIDE DEF a, b, c
    <3>2. a >= c
      BY <3>1
    <3>3. z <= u
      BY <2>4, <2>6, <2>8
    <3> QED
      BY <3>2, <3>3 DEF a, c
  <2> QED
    BY <2>1, <2>4, <2>9
<1>5. Between(y)
  BY <1>4
<1> QED
  BY <1>2, <1>3, <1>5

\* A family: some trees that h holds with what is in them.
Family(T) == UNION {Subtree[u] : u \in T}

LEMMA FamilyFacts ==
  ASSUME TreesOK, TreesOnce, AllHeldFit, NEW h \in DOMAIN trees, NEW T, \A u \in T : Holds(h, u)
  PROVE  /\ T \subseteq Family(T) /\ Family(T) \subseteq DOMAIN trees
         /\ \A y \in Family(T) : y < h /\ HeldByTree(y) /\ trees[y].loops >= 1 + Rest[h]
         /\ \A y \in Family(T), p \in DOMAIN trees : Holds(p, y) => IF p = h THEN y \in T ELSE p \in Family(T)
         /\ \A p \in Family(T) : \A y : Holds(p, y) => y \in Family(T)
<1>1. \A u \in T : u \in DOMAIN trees /\ u < h /\ HeldByTree(u) /\ u \in Nat /\ h \in Nat /\ trees[u].loops = 1 + Rest[h]
  <2> TAKE u \in T
  <2>1. u \in DOMAIN trees /\ u < h /\ HeldByTree(u) /\ u \in Nat /\ h \in Nat
    BY HolderFacts
  <2> QED
    BY <2>1 DEF AllHeldFit, HeldFit
<1>2. Below \in [DOMAIN trees -> SUBSET DOMAIN trees] /\ \A u \in DOMAIN trees : Subtree[u] = Reach(Below, u)
  BY SubtreeIs
<1>3. T \subseteq Family(T)
  <2> SUFFICES ASSUME NEW u \in T PROVE u \in Family(T)
    OBVIOUS
  <2>1. u \in Subtree[u]
    BY <1>1, <1>2, ReachSelf
  <2> QED
    BY <2>1 DEF Family
<1>4. Family(T) \subseteq DOMAIN trees
  BY <1>1, <1>2 DEF Family, Reach
<1>5. ASSUME NEW y \in Family(T)
      PROVE  y < h /\ HeldByTree(y) /\ trees[y].loops >= 1 + Rest[h]
  <2>1. PICK u \in T : y \in Subtree[u]
    BY DEF Family
  <2>2. y \in DOMAIN trees /\ y <= u /\ HeldByTree(y) /\ trees[y].loops >= trees[u].loops
    BY <1>1, <2>1, InSubtree
  <2>3. y \in Nat
    BY <2>2, TreeFacts
  <2>4. y < h
    BY <1>1, <2>2, <2>3
  <2> QED
    BY <1>1, <2>2, <2>4
<1>6. ASSUME NEW y \in Family(T), NEW p \in DOMAIN trees, Holds(p, y)
      PROVE  IF p = h THEN y \in T ELSE p \in Family(T)
  <2>1. PICK u \in T : y \in Subtree[u]
    BY DEF Family
  <2>2. y = u \/ \E x \in Subtree[u] : Holds(x, y)
    BY <1>1, <2>1, InSubtree
  <2>3. CASE y = u
    <3>1. p = h
      BY <1>6, <2>1, <2>3, HolderFacts
    <3> QED
      BY <2>3, <3>1
  <2>4. CASE \E x \in Subtree[u] : Holds(x, y)
    <3>1. PICK x \in Subtree[u] : Holds(x, y)
      BY <2>4
    <3>2. x \in Family(T) /\ x \in DOMAIN trees
      BY <1>4, <2>1, <3>1 DEF Family
    <3>3. p = x
      BY <1>6, <3>1, <3>2, HolderFacts
    <3>4. x # h
      <4>1. x < h /\ x \in Nat
        BY <1>5, <3>2, TreeFacts
      <4> QED
        BY <4>1
    <3> QED
      BY <3>2, <3>3, <3>4
  <2> QED
    BY <2>2, <2>3, <2>4
<1>7. ASSUME NEW p \in Family(T), NEW y, Holds(p, y)
      PROVE  y \in Family(T)
  <2>1. PICK u \in T : p \in Subtree[u]
    BY DEF Family
  <2>2. y \in Below[p]
    BY <1>4, <1>7, BelowIs
  <2>3. y \in Subtree[u]
    BY <1>1, <1>2, <2>1, <2>2, ReachLast
  <2> QED
    BY <2>1, <2>3 DEF Family
<1> QED
  BY <1>3, <1>4, <1>5, <1>6, <1>7

\* What is behind the tree taken out.
LEMMA BehindIs ==
  ASSUME TreesOK, TreesOnce, NEW q \in DOMAIN trees, NEW at \in DOMAIN trees[q].subLoops
  PROVE  /\ \A u : u \in Behind(trees[q], at) <=> at # 1 /\ \E i \in DOMAIN trees[q].subLoops : i > at /\ trees[q].subLoops[i] = u
         /\ \A u \in Behind(trees[q], at) : Holds(q, u) /\ u # trees[q].subLoops[at]
<1> DEFINE s == trees[q].subLoops
           l == Len(s)
           b == SubSeq(s, at + 1, l)
<1>1. s \in Seq(DOMAIN trees) /\ l \in Nat /\ DOMAIN s = 1 .. l /\ at \in 1 .. l
  BY TreeFacts
<1>2. \A i, j \in DOMAIN s : s[i] = s[j] => i = j
  BY DEF TreesOnce
<1> HIDE DEF s
<1>3. DOMAIN b = 1 .. l - at /\ \A i \in 1 .. l - at : b[i] = s[i + at]
  BY <1>1
<1> HIDE DEF b, l
<1>4. /\ \A i \in 1 .. l - at : i + at \in 1 .. l /\ i + at > at
      /\ \A i \in 1 .. l : i > at => i - at \in 1 .. l - at /\ (i - at) + at = i
  BY <1>1
<1>5. \A u : u \in Elements(b) <=> \E i \in 1 .. l : i > at /\ s[i] = u
  <2> SUFFICES ASSUME NEW u PROVE u \in Elements(b) <=> \E i \in 1 .. l : i > at /\ s[i] = u
    OBVIOUS
  <2>1. ASSUME u \in Elements(b) PROVE \E i \in 1 .. l : i > at /\ s[i] = u
    BY <1>3, <1>4, <2>1 DEF Elements
  <2>2. ASSUME NEW i \in 1 .. l, i > at, s[i] = u PROVE u \in Elements(b)
    <3>1. b[i - at] = u /\ i - at \in DOMAIN b
      BY <1>3, <1>4, <2>2
    <3> QED
      BY <3>1 DEF Elements
  <2> QED
    BY <2>1, <2>2
<1>6. \A u : u \in Behind(trees[q], at) <=> at # 1 /\ \E i \in DOMAIN s : i > at /\ s[i] = u
  BY <1>1, <1>5 DEF Behind, b, s, l
<1>7. \A i \in 1 .. l : i > at => i # at
  BY <1>1
<1>8. ASSUME NEW u \in Behind(trees[q], at) PROVE Holds(q, u) /\ u # s[at]
  <2>1. PICK i \in DOMAIN s : i > at /\ s[i] = u
    BY <1>6
  <2>2. i # at
    BY <1>1, <1>7, <2>1
  <2>3. u # s[at]
    BY <1>1, <1>2, <2>1, <2>2
  <2> QED
    BY <2>1, <2>3 DEF Holds, Among, s
<1> QED
  BY <1>6, <1>8 DEF s

\* The loops that each tree loses when conditionOnLoop takes one out.
LEMMA Losses ==
  ASSUME TreesOK, TreesOnce, AllHeldFit, NEW q, NEW at, NEW n, Conditions(q, at, n), n = Loss(q, at)
  PROVE  /\ Holds(q, cut) /\ HeldByTree(cut) /\ trees[cut].loops \in Nat /\ trees[cut].loops > 0
         /\ n \in [DOMAIN trees -> Nat] /\ n[cut] = 0 /\ n[q] = 0
         /\ \A t \in DOMAIN trees : n[t] # 0 => HeldByTree(t) /\ t < q
         /\ \A t \in DOMAIN trees : HeldByTree(t) => n[t] <= trees[t].loops
         /\ \A p, t \in DOMAIN trees : Holds(p, t) /\ t # cut =>
              n[t] = IF p = cut THEN trees[cut].loops
                     ELSE IF p = q THEN (IF t \in Behind(trees[q], at) THEN trees[cut].loops - 1 ELSE 0)
                     ELSE n[p]
<1> DEFINE B == Behind(trees[q], at)
           C == Elements(trees[cut].subLoops)
           F == Family(B)
           G == Family(C)
           c == trees[cut].loops
<1>1. /\ cut \in DOMAIN trees /\ q \in DOMAIN trees /\ at \in DOMAIN trees[q].subLoops
      /\ trees[q].subLoops[at] = cut /\ cut < q /\ cut # q /\ cut \in Nat /\ q \in Nat
  <2>1. cut \in DOMAIN trees /\ q \in DOMAIN trees /\ at \in DOMAIN trees[q].subLoops /\ trees[q].subLoops[at] = cut /\ cut < q
    BY DEF Conditions
  <2>2. cut \in Nat /\ q \in Nat
    BY <2>1, TreeFacts
  <2> QED
    BY <2>1, <2>2
<1>2. Holds(q, cut) /\ HeldByTree(cut)
  BY <1>1 DEF Holds, Among, HeldByTree
<1>3. c \in Nat /\ c > 0 /\ Rest[cut] = c
  BY <1>1, <1>2, HeldLoops
<1>4. Rest[q] = c - 1
  <2>1. c = 1 + Rest[q]
    BY <1>1, <1>2 DEF AllHeldFit, HeldFit
  <2>2. Rest[q] \in Int
    BY <1>1, TreeFacts DEF Rest
  <2> HIDE DEF c
  <2> QED
    BY <2>1, <2>2
<1>5. /\ B \subseteq F /\ F \subseteq DOMAIN trees
      /\ \A y \in F : y < q /\ HeldByTree(y) /\ trees[y].loops >= 1 + Rest[q]
      /\ \A y \in F, p \in DOMAIN trees : Holds(p, y) => IF p = q THEN y \in B ELSE p \in F
      /\ \A p \in F : \A y : Holds(p, y) => y \in F
  <2>1. \A u \in B : Holds(q, u)
    BY <1>1, BehindIs
  <2> HIDE DEF B
  <2> QED
    BY <1>1, <2>1, FamilyFacts
<1>6. cut \notin B
  BY <1>1, BehindIs
<1>7. /\ C \subseteq G /\ G \subseteq DOMAIN trees
      /\ \A y \in G : y < cut /\ HeldByTree(y) /\ trees[y].loops >= 1 + Rest[cut]
      /\ \A y \in G, p \in DOMAIN trees : Holds(p, y) => IF p = cut THEN y \in C ELSE p \in G
      /\ \A p \in G : \A y : Holds(p, y) => y \in G
  <2>1. \A u \in C : Holds(cut, u)
    BY DEF Elements, Holds, Among
  <2> HIDE DEF C
  <2> QED
    BY <1>1, <2>1, FamilyFacts
<1>8. \A t : Holds(cut, t) => t \in C
  BY DEF Elements, Holds, Among
<1>9. n = [t \in DOMAIN trees |-> IF t \in F THEN c - 1 ELSE IF t \in G THEN c ELSE 0]
  <2> DEFINE m == peelOuterLoops(<<C, c>>, NoPeel)
  <2>1. m = [t \in DOMAIN trees |-> IF t \in G THEN c ELSE 0]
    BY DEF peelOuterLoops, NoPeel, Family
  <2>2. n = peelOuterLoops(<<B, c - 1>>, m)
    <3>1. c # 0
      BY <1>3
    <3>2. BehindPeel(trees[cut]) = c - 1
      BY <3>1 DEF BehindPeel, Fewer
    <3> HIDE DEF c
    <3> QED
      BY <3>2 DEF Loss, c
  <2> HIDE DEF m, B, C, c
  <2>3. n = [t \in DOMAIN trees |-> IF t \in F THEN c - 1 ELSE m[t]]
    BY <2>2 DEF peelOuterLoops, Family
  <2> HIDE DEF F, G
  <2> QED
    BY <2>1, <2>3
<1> HIDE DEF B, C, F, G, c
<1>10. cut \notin F /\ cut \notin G
  <2>1. cut \notin F
    BY <1>1, <1>2, <1>5, <1>6
  <2>2. ~(cut < cut)
    BY <1>1
  <2> QED
    BY <1>7, <2>1, <2>2
<1>11. q \notin F /\ q \notin G
  <2>1. ~(q < q) /\ ~(q < cut)
    BY <1>1
  <2> QED
    BY <1>5, <1>7, <2>1
<1>12. c - 1 \in Nat /\ c - 1 <= c
  BY <1>3
<1>13. n \in [DOMAIN trees -> Nat] /\ n[cut] = 0 /\ n[q] = 0
  BY <1>1, <1>3, <1>9, <1>10, <1>11, <1>12
<1>14. ASSUME NEW t \in DOMAIN trees, n[t] # 0 PROVE HeldByTree(t) /\ t < q
  <2>1. t \in F \/ t \in G
    BY <1>9, <1>14
  <2>2. t \in Nat
    BY <1>1, TreeFacts
  <2>3. HeldByTree(t) /\ (t < q \/ t < cut)
    BY <1>5, <1>7, <2>1
  <2> QED
    BY <1>1, <2>2, <2>3
<1>15. ASSUME NEW t \in DOMAIN trees, HeldByTree(t)
       PROVE  n[t] <= trees[t].loops
  <2> DEFINE a == trees[t].loops
  <2>1. a \in Nat
    BY <1>15, HeldLoops
  <2>2. t \in F => a >= 1 + (c - 1)
    BY <1>4, <1>5
  <2>3. t \in G => a >= 1 + c
    BY <1>3, <1>7
  <2> HIDE DEF a
  <2>4. n[t] <= a
    BY <1>3, <1>9, <2>1, <2>2, <2>3
  <2> QED
    BY <2>4 DEF a
<1>16. ASSUME NEW p \in DOMAIN trees, NEW t \in DOMAIN trees, Holds(p, t), t # cut
       PROVE  n[t] = IF p = cut THEN c ELSE IF p = q THEN (IF t \in B THEN c - 1 ELSE 0) ELSE n[p]
  <2>1. CASE p = cut
    <3>1. t \in G
      BY <1>7, <1>8, <1>16, <2>1
    <3>2. t \notin F
      BY <1>1, <1>5, <1>10, <1>16, <2>1
    <3> QED
      BY <1>9, <2>1, <3>1, <3>2
  <2>2. CASE p = q
    <3>1. t \notin G
      BY <1>1, <1>7, <1>11, <1>16, <2>2
    <3>2. t \in F <=> t \in B
      BY <1>5, <1>16, <2>2
    <3> QED
      BY <1>1, <1>9, <2>2, <3>1, <3>2
  <2>3. CASE p # cut /\ p # q
    <3>1. t \in F <=> p \in F
      BY <1>5, <1>16, <2>3
    <3>2. t \in G <=> p \in G
      BY <1>7, <1>16, <2>3
    <3> QED
      BY <1>9, <2>3, <3>1, <3>2
  <2> QED
    BY <2>1, <2>2, <2>3
<1> QED
  BY <1>2, <1>3, <1>13, <1>14, <1>15, <1>16 DEF B, c

\* What each tree holds when one is taken out of q.
LEMMA NowHolds ==
  ASSUME PlantInv, NEW q, NEW at, NEW n, Conditions(q, at, n), NEW p \in DOMAIN trees', NEW t, Holds(p, t)'
  PROVE  IF p \in DOMAIN trees THEN Holds(p, t) /\ t # cut /\ (p = q => t \notin Behind(trees[q], at))
         ELSE t \in Behind(trees[q], at) /\ trees'[p].loop = 0
<1> DEFINE s == trees[q].subLoops
           l == Len(s)
<1>1. /\ cut \in DOMAIN trees /\ q \in DOMAIN trees /\ at \in DOMAIN s /\ s[at] = cut /\ TreesOK /\ TreesOnce
  BY DEF Conditions, PlantInv
<1>2. DOMAIN s = 1 .. l /\ l \in Nat
  BY <1>1, TreeFacts
<1>3. PICK i \in DOMAIN trees'[p].subLoops : trees'[p].subLoops[i] = t
  BY DEF Holds, Among
<1>4. CASE p \in DOMAIN trees /\ p # q
  <2>1. Holds(p, t)
    <3>1. trees'[p].subLoops = trees[p].subLoops
      BY <1>4, ConditionedHolders
    <3> QED
      BY <1>3, <3>1 DEF Holds, Among
  <2>2. t # cut
    <3>1. Holds(q, cut)
      BY <1>1 DEF Holds, Among
    <3> QED
      BY <1>1, <1>4, <2>1, <3>1, HolderFacts
  <2> QED
    BY <1>4, <2>1, <2>2
<1>5. CASE p = q
  <2>1. trees'[q] = CutBefore(trees[q], at) /\ Remains(CutBefore(trees[q], at), trees[q], at)
    <3>1. q # cut
      <4>1. q \in Nat /\ cut \in Nat /\ cut < q
        BY <1>1, TreeFacts DEF Conditions
      <4> QED
        BY <4>1
    <3> QED
      BY <1>1, <3>1, ConditionedTrees DEF NowAt
  <2> DEFINE j == IF at = 1 THEN i + 1 ELSE i
             k == Kept(trees[q], at)
  <2>2. DOMAIN trees'[q].subLoops = 1 .. k /\ \A x \in 1 .. k : trees'[q].subLoops[x] = s[IF at = 1 THEN x + 1 ELSE x]
    BY <2>1 DEF Remains
  <2>3. i \in 1 .. k /\ s[j] = t
    BY <1>3, <1>5, <2>2
  <2>4. j \in 1 .. l /\ j # at /\ (at # 1 => j < at) /\ j \in Nat /\ at \in Nat
    <3>1. k = IF at = 1 THEN l - 1 ELSE at - 1
      BY DEF Kept
    <3> HIDE DEF k, s, l
    <3> QED
      BY <1>1, <1>2, <2>3, <3>1
  <2> HIDE DEF j
  <2>5. Holds(q, t)
    BY <1>2, <2>3, <2>4 DEF Holds, Among
  <2>6. \A x \in DOMAIN s : s[x] = t => x = j
    BY <1>1, <1>2, <2>3, <2>4 DEF TreesOnce
  <2>7. t # cut
    BY <1>1, <2>4, <2>6
  <2>8. t \notin Behind(trees[q], at)
    <3> SUFFICES ASSUME t \in Behind(trees[q], at) PROVE FALSE
      OBVIOUS
    <3>1. at # 1 /\ \E x \in DOMAIN s : x > at /\ s[x] = t
      BY <1>1, BehindIs
    <3>2. j > at
      BY <2>6, <3>1
    <3> QED
      BY <2>4, <3>1, <3>2
  <2> QED
    BY <1>1, <1>5, <2>5, <2>7, <2>8
<1>6. CASE p \notin DOMAIN trees
  <2>1. Split(trees[q], at) /\ p = Len(trees) + 1
    BY <1>6, ConditionedHolders
  <2>2. SplitFrom(trees'[p], trees[q], at)
    BY <2>1, ConditionedTrees
  <2>3. trees'[p].loop = 0 /\ i \in 1 .. l - at /\ s[i + at] = t
    BY <1>3, <2>2 DEF SplitFrom
  <2> HIDE DEF s, l
  <2>4. i + at \in 1 .. l /\ i + at > at
    BY <1>1, <1>2, <2>3
  <2>5. at # 1
    BY <2>1 DEF Split
  <2>6. t \in Behind(trees[q], at)
    <3>1. \E x \in DOMAIN s : x > at /\ s[x] = t
      BY <1>2, <2>3, <2>4
    <3> QED
      BY <1>1, <2>5, <3>1, BehindIs DEF s
  <2> QED
    BY <1>6, <2>3, <2>6
<1> QED
  BY <1>4, <1>5, <1>6

\* The loops that are left of the nests of the trees that are held.
LEMMA LoopsLeft ==
  ASSUME PlantInv, AllHeldFit, NEW q, NEW at, NEW n, Conditions(q, at, n), n = Loss(q, at)
  PROVE  /\ trees'[cut].loops = trees[cut].loops
         /\ \A t \in DOMAIN trees : HeldByTree(t) => trees'[t].loops = trees[t].loops - n[t]
<1>1. TreesOK /\ TreesOnce /\ cut \in DOMAIN trees /\ q \in DOMAIN trees /\ at \in DOMAIN trees[q].subLoops
  BY DEF PlantInv, Conditions
<1>2. \A t \in DOMAIN trees : trees'[t] = NowAt(q, at, n, t)
  BY ConditionedTrees
<1>3. trees[cut] \in TreeRecord /\ trees[q] \in TreeRecord
  BY <1>1, TreeFacts
<1>4. trees'[cut].loops = trees[cut].loops
  <2>1. trees'[cut] = [trees[cut] EXCEPT !.parentLoop = NoTree]
    BY <1>1, <1>2 DEF NowAt
  <2> QED
    BY <1>3, <2>1 DEF TreeRecord
<1>5. n \in [DOMAIN trees -> Nat] /\ n[cut] = 0 /\ n[q] = 0 /\ \A t \in DOMAIN trees : HeldByTree(t) => n[t] <= trees[t].loops
  BY <1>1, Losses
<1>6. ASSUME NEW t \in DOMAIN trees, HeldByTree(t)
      PROVE  trees'[t].loops = trees[t].loops - n[t]
  <2> DEFINE a == trees[t].loops
             m == n[t]
  <2>1. a \in Nat /\ m \in Nat /\ m <= a /\ trees[t] \in TreeRecord
    BY <1>1, <1>5, <1>6, HeldLoops, TreeFacts
  <2>2. CASE t = cut
    <3>1. m = 0 /\ trees'[t].loops = a
      BY <1>4, <1>5, <2>2
    <3> HIDE DEF a, m
    <3>2. trees'[t].loops = a - m
      BY <2>1, <3>1
    <3> QED
      BY <3>2 DEF a, m
  <2>3. CASE t # cut /\ t = q
    <3>1. trees'[t] = CutBefore(trees[t], at) /\ m = 0
      BY <1>2, <1>5, <2>3 DEF NowAt
    <3>2. trees'[t].loops = a
      BY <2>1, <3>1 DEF CutBefore, TreeRecord
    <3> HIDE DEF a, m
    <3>3. trees'[t].loops = a - m
      BY <2>1, <3>1, <3>2
    <3> QED
      BY <3>3 DEF a, m
  <2>4. CASE t # cut /\ t # q
    <3>1. trees'[t] = peelTree(t, m)
      BY <1>2, <2>4 DEF NowAt
    <3>2. trees'[t].loops = IF m >= a THEN 0 ELSE a - m
      BY <2>1, <3>1 DEF peelTree, TreeRecord
    <3> HIDE DEF a, m
    <3>3. trees'[t].loops = a - m
      BY <2>1, <3>2
    <3> QED
      BY <3>3 DEF a, m
  <2> QED
    BY <2>2, <2>3, <2>4
<1> QED
  BY <1>4, <1>6

LEMMA ConditionOnLoopFits ==
  ASSUME PlantInv, NoLoopFails, FitPlanted, FitParsed, conditionOnLoop, ~Planting
  PROVE  FitPlanted' /\ FitParsed' /\ ~Planting'
<1>1. /\ TreesOK /\ TreesOnce /\ HeldOnce /\ AllHeldFit /\ ParentsKnown /\ RootsGone /\ RefsOK
      /\ UNCHANGED <<func, calls, depth, forest, parsing, loopOmega, running>>
  BY DEF PlantInv, conditionOnLoop, FitPlanted, FitParsed
<1>2. PICK q, at, n : /\ Conditions(q, at, n) /\ n = Loss(q, at)
                      /\ refs' = [k \in DOMAIN refs |-> peelLoops(refs[k], n[refs[k].tree])]
  BY Conditioned
<1> DEFINE c == trees[cut].loops
           B == Behind(trees[q], at)
<1>3. cut \in DOMAIN trees /\ q \in DOMAIN trees /\ at \in DOMAIN trees[q].subLoops /\ cut' = q
      /\ trees[q].subLoops[at] = cut /\ cut # q
  <2>1. cut \in DOMAIN trees /\ q \in DOMAIN trees /\ at \in DOMAIN trees[q].subLoops /\ cut' = q
        /\ trees[q].subLoops[at] = cut /\ cut < q
    BY <1>2 DEF Conditions
  <2>2. cut \in Nat /\ q \in Nat
    BY <1>1, <2>1, TreeFacts
  <2> QED
    BY <2>1, <2>2
<1>4. /\ \A t \in DOMAIN trees : /\ trees'[t].loop = trees[t].loop
                                 /\ trees'[t].parentLoop = IF t = cut THEN NoTree ELSE trees[t].parentLoop
      /\ \A t : HeldByTree(t)' <=> HeldByTree(t) /\ t # cut
      /\ \A L : L # 0 => TreesOf(L)' = TreesOf(L)
      /\ \A t : t \in DOMAIN trees' <=> t \in DOMAIN trees \/ (Split(trees[q], at) /\ t = Len(trees) + 1)
  BY <1>2, ConditionedHolders
<1>5. Split(trees[q], at) =>
        /\ trees'[Len(trees) + 1].loop = 0 /\ trees'[Len(trees) + 1].parentLoop = NoTree
        /\ Len(trees) + 1 \notin DOMAIN trees /\ ~HeldByTree(Len(trees) + 1)
  <2>1. Len(trees) + 1 \notin DOMAIN trees
    BY <1>1 DEF TreesOK
  <2>2. ~HeldByTree(Len(trees) + 1)
    BY <1>1, <2>1, HolderIs, HolderFacts
  <2> QED
    BY <1>2, <2>1, <2>2, ConditionedTrees DEF SplitFrom
<1>6. /\ Holds(q, cut) /\ HeldByTree(cut) /\ c \in Nat /\ c > 0
      /\ n \in [DOMAIN trees -> Nat] /\ n[cut] = 0 /\ n[q] = 0
      /\ \A t \in DOMAIN trees : n[t] # 0 => HeldByTree(t)
      /\ \A t \in DOMAIN trees : HeldByTree(t) => n[t] <= trees[t].loops
      /\ \A p, t \in DOMAIN trees : Holds(p, t) /\ t # cut =>
           n[t] = IF p = cut THEN c ELSE IF p = q THEN (IF t \in B THEN c - 1 ELSE 0) ELSE n[p]
  BY <1>1, <1>2, Losses
<1>7. trees'[cut].loops = c /\ \A t \in DOMAIN trees : HeldByTree(t) => trees'[t].loops = trees[t].loops - n[t]
  BY <1>1, <1>2, LoopsLeft
<1>8. Outer' = Outer /\ Loops' = Loops
  BY <1>1, SameNests, SameFunction
<1>9. Gone \subseteq Gone' /\ \A t \in {cut, q} : trees[t].loop \in Gone'
  <2>1. ASSUME NEW M \in Loops, NEW u \in TreesOf(M), ~HeldByTree(u) \/ u = cut \/ u = q
        PROVE  M \in Gone'
    <3>1. CASE M = 0
      BY <3>1 DEF Gone
    <3>2. CASE M # 0
      <4>1. u \in TreesOf(M)' /\ (~HeldByTree(u)' \/ u = cut')
        BY <1>3, <1>4, <2>1, <3>2
      <4> QED
        BY <1>8, <4>1 DEF Gone
    <3> QED
      BY <3>1, <3>2
  <2>2. Gone \subseteq Gone'
    BY <2>1 DEF Gone
  <2>3. \A t \in {cut, q} : trees[t].loop \in Loops /\ t \in TreesOf(trees[t].loop)
    BY <1>1, <1>3, TreeFacts DEF TreesOf
  <2> QED
    BY <2>1, <2>2, <2>3
<1>10. HeldFit(q, cut)
  BY <1>1, <1>3, <1>6 DEF AllHeldFit
<1>11. ParentsKnown'
  <2> SUFFICES ASSUME NEW t \in DOMAIN trees'
               PROVE  trees'[t].parentLoop = NoTree <=> ~HeldByTree(t)'
    BY DEF ParentsKnown
  <2>1. CASE t \in DOMAIN trees
    BY <1>1, <1>4, <2>1 DEF ParentsKnown
  <2>2. CASE t \notin DOMAIN trees
    BY <1>4, <1>5, <2>2
  <2> QED
    BY <2>1, <2>2
<1>12. RootsGone'
  <2> SUFFICES ASSUME NEW t \in DOMAIN trees', trees'[t].loop # 0, ~HeldByTree(t)'
               PROVE  Outer[trees'[t].loop] \in Gone'
    BY <1>8 DEF RootsGone
  <2>1. t \in DOMAIN trees /\ trees'[t].loop = trees[t].loop
    BY <1>4, <1>5
  <2>2. CASE t = cut
    BY <1>9, <1>10, <2>1, <2>2 DEF HeldFit
  <2>3. CASE t # cut
    BY <1>1, <1>4, <1>9, <2>1, <2>3 DEF RootsGone
  <2> QED
    BY <2>2, <2>3
<1>13. \A p \in DOMAIN trees' : Rest'[p] = IF trees'[p].loop # 0 /\ HeldByTree(p)' THEN trees'[p].loops ELSE 0
  BY DEF Rest
<1>14. AllHeldFit'
  <2> SUFFICES ASSUME NEW p \in DOMAIN trees', NEW t \in DOMAIN trees', Holds(p, t)'
               PROVE  HeldFit(p, t)'
    BY DEF AllHeldFit
  <2>1. IF p \in DOMAIN trees THEN Holds(p, t) /\ t # cut /\ (p = q => t \notin B) ELSE t \in B /\ trees'[p].loop = 0
    BY <1>2, NowHolds
  <2>2. \A u \in B : Holds(q, u) /\ u # cut
    BY <1>1, <1>3, BehindIs
  <2> HIDE DEF B
  <2> DEFINE r == IF p \in DOMAIN trees THEN p ELSE q
  <2>3. r \in DOMAIN trees /\ Holds(r, t) /\ t # cut
    BY <1>3, <2>1, <2>2
  <2>4. t \in DOMAIN trees /\ HeldByTree(t)
    BY <1>1, <2>3, HolderFacts
  <2>5. HeldFit(r, t)
    BY <1>1, <2>3, <2>4 DEF AllHeldFit
  <2>6. trees'[t].loop = trees[t].loop /\ trees[t].loop # 0 /\ trees'[t].loops = (1 + Rest[r]) - n[t]
    BY <1>4, <1>7, <2>4, <2>5 DEF HeldFit
  <2>7. c = 1 + Rest[q] /\ Rest[cut] = c
    BY <1>1, <1>3, <1>6, <1>10, HeldLoops DEF HeldFit
  <2>8. IF trees'[p].loop # 0 THEN Outer[trees[t].loop] = trees'[p].loop ELSE Outer[trees[t].loop] \in Gone'
    <3>1. CASE p \in DOMAIN trees
      BY <1>4, <1>9, <2>5, <3>1 DEF HeldFit
    <3>2. CASE p \notin DOMAIN trees
      BY <1>3, <1>9, <2>1, <2>5, <3>2 DEF HeldFit
    <3> QED
      BY <3>1, <3>2
  <2>9. Rest[r] \in Int /\ Rest[q] \in Int
    <3>1. \A x \in DOMAIN trees : Rest[x] \in Int
      BY <1>1, TreeFacts DEF Rest
    <3> HIDE DEF r
    <3> QED
      BY <1>3, <2>3, <3>1
  <2>10. trees'[t].loops = 1 + Rest'[p]
    <3>1. CASE p \notin DOMAIN trees
      <4>1. Rest'[p] = 0 /\ n[t] = c - 1 /\ r = q
        BY <1>3, <1>6, <1>13, <2>1, <2>3, <2>4, <3>1
      <4> HIDE DEF c, r
      <4> QED
        BY <1>6, <2>6, <2>7, <2>9, <4>1
    <3>2. CASE p = cut
      <4>1. Rest'[p] = 0 /\ n[t] = c /\ r = cut
        BY <1>3, <1>4, <1>6, <1>13, <2>3, <2>4, <3>2
      <4> HIDE DEF c, r
      <4> QED
        BY <1>6, <2>6, <2>7, <2>9, <4>1
    <3>3. CASE p \in DOMAIN trees /\ p # cut
      <4>1. n[t] = n[p] /\ r = p
        <5>1. p = q => n[t] = 0
          BY <1>3, <1>6, <2>1, <2>3, <2>4, <3>3
        <5> QED
          BY <1>3, <1>6, <2>3, <2>4, <3>3, <5>1
      <4>2. n[p] \in Nat /\ trees[p].loops \in Int
        BY <1>1, <1>6, <3>3, TreeFacts
      <4>3. Rest'[p] = Rest[p] - n[p]
        <5>1. CASE HeldByTree(p)
          <6>1. trees[p].loop # 0
            BY <1>1, <3>3, <5>1, HeldLoops
          <6> QED
            BY <1>4, <1>7, <1>13, <3>3, <5>1, <6>1 DEF Rest
        <5>2. CASE ~HeldByTree(p)
          <6>1. n[p] = 0 /\ Rest[p] = 0 /\ Rest'[p] = 0
            BY <1>4, <1>6, <1>13, <3>3, <5>2 DEF Rest
          <6> QED
            BY <6>1
        <5> QED
          BY <5>1, <5>2
      <4> HIDE DEF r
      <4>4. Rest[p] \in Int
        BY <2>9, <4>1
      <4> QED
        BY <2>6, <4>1, <4>2, <4>3, <4>4
    <3> QED
      BY <3>1, <3>2, <3>3
  <2> QED
    BY <1>8, <2>6, <2>8, <2>10 DEF HeldFit
<1>15. RefsOK'
  <2> DEFINE l == Len(refs)
  <2>1. l \in Nat /\ DOMAIN refs = 1 .. l /\ \A k \in 1 .. l : RefOK(refs[k])
    <3>1. DOMAIN refs = 1 .. Len(refs) /\ Len(refs) \in Nat
      BY <1>1, SequenceIs DEF RefsOK
    <3> QED
      BY <1>1, <3>1 DEF RefsOK
  <2> HIDE DEF l
  <2>2. refs' = [k \in 1 .. l |-> peelLoops(refs[k], n[refs[k].tree])]
    BY <1>2, <2>1
  <2>3. Len(refs') = l /\ IsSequence(refs')
    <3>1. Len(refs') = l
      BY <2>1, <2>2
    <3> QED
      BY <2>1, <2>2, <3>1 DEF IsSequence
  <2>4. ASSUME NEW k \in 1 .. l
        PROVE  RefNext(refs'[k])
    <3> DEFINE r == refs[k]
               x == n[r.tree]
    <3>1. RefOK(r) /\ refs'[k] = peelLoops(r, x)
      BY <2>1, <2>2
    <3> HIDE DEF r
    <3>2. /\ r = [at |-> r.at, tree |-> r.tree, omega |-> r.omega] /\ r.tree \in DOMAIN trees /\ trees[r.tree].loop # 0
          /\ IsSequence(r.omega)
          /\ running # "undefined" /\ r.tree \in Inner => Len(r.omega) = trees[r.tree].loops + 1
      BY <3>1 DEF RefOK
    <3>3. x \in Nat
      BY <1>6, <3>2
    <3> HIDE DEF x
    <3> DEFINE o == SubSeq(r.omega, x + 1, Len(r.omega))
    <3>4. IsSequence(o) /\ (x <= Len(r.omega) => Len(o) = Len(r.omega) - x)
      BY <3>2, <3>3, Backed
    <3>5. refs'[k] = [at |-> r.at, tree |-> r.tree, omega |-> o]
      BY <3>1, <3>2 DEF peelLoops
    <3> HIDE DEF o
    <3>6. ASSUME running' # "undefined", r.tree \in Inner' PROVE Len(o) = trees'[r.tree].loops + 1
      <4>1. HeldByTree(r.tree) /\ r.tree \in Inner /\ running # "undefined"
        BY <1>1, <1>4, <3>2, <3>6 DEF Inner
      <4> DEFINE a == trees[r.tree].loops
                 e == Len(r.omega)
      <4>2. a \in Nat /\ x <= a /\ e = a + 1 /\ trees'[r.tree].loops = a - x
        BY <1>1, <1>6, <1>7, <3>2, <4>1, HeldLoops DEF x
      <4> HIDE DEF a
      <4>3. x <= e
        BY <3>3, <4>2
      <4>4. Len(o) = e - x
        BY <3>4, <4>3
      <4> HIDE DEF e
      <4> QED
        BY <3>3, <4>2, <4>4
    <3>7. refs'[k].at = r.at /\ refs'[k].tree = r.tree /\ refs'[k].omega = o
      BY <3>5
    <3>8. r.tree \in DOMAIN trees' /\ trees'[r.tree].loop # 0
      BY <1>4, <3>2
    <3> QED
      BY <3>4, <3>5, <3>6, <3>7, <3>8 DEF RefNext
  <2> QED
    BY <2>3, <2>4, RefsNext
<1>16. BlocksOK' /\ IsSequence(loopOmega)'
  <2>1. Where' = Where
    BY <1>1, SameFunction
  <2> QED
    BY <1>1, <2>1 DEF FitParsed, BlocksOK, IsSequence
<1> QED
  BY <1>1, <1>11, <1>12, <1>14, <1>15, <1>16 DEF FitPlanted, FitParsed, Planting

----------------------------------------------------------------------------
(* Omegas count along the trees that parseLoop is in.                      *)

LEMMA StackIs ==
  ASSUME PlantInv
  PROVE  /\ Len(parsing) \in Nat /\ DOMAIN parsing = 1 .. Len(parsing)
         /\ \A k \in 1 .. Len(parsing) : Stack[k] = parsing[k].tree /\ Stack[k] \in DOMAIN trees
         /\ \A t : HeldByTree(t) <=> HeldIn(trees, t)
<1>1. IsSequence(parsing) /\ \A k \in 1 .. Len(parsing) : ParseOK(parsing[k])
  BY DEF PlantInv, ParsingOK
<1>2. Len(parsing) \in Nat /\ DOMAIN parsing = 1 .. Len(parsing)
  BY <1>1, SequenceIs
<1>3. \A t : HeldByTree(t) <=> HeldIn(trees, t)
  BY DEF HeldByTree, HeldIn
<1> QED
  BY <1>1, <1>2, <1>3 DEF Stack, ParseOK

LEMMA LevelsStay ==
  ASSUME NEW F, NEW S, NEW T, NEW n \in Nat, \A k \in 1 .. n : Level(F, S, k) /\ T[k] = S[k]
  PROVE  \A k \in 1 .. n : Level(F, T, k)
<1> SUFFICES ASSUME NEW k \in 1 .. n PROVE Level(F, T, k)
  OBVIOUS
<1>1. k # 1 => k - 1 \in 1 .. n
  OBVIOUS
<1>2. (\A j \in 1 .. k - 1 : j \in 1 .. n) /\ \A j \in 2 .. k - 1 : j \in 1 .. n
  OBVIOUS
<1>3. Level(F, S, k) /\ T[k] = S[k] /\ (\A j \in 1 .. k - 1 : T[j] = S[j]) /\ (\A j \in 2 .. k - 1 : T[j] = S[j])
      /\ (k # 1 => T[k - 1] = S[k - 1])
  BY <1>1, <1>2
<1> QED
  BY <1>3 DEF Level

\* The calls up to m and one more.
LEMMA Shortened ==
  ASSUME NEW s, IsSequence(s), NEW m \in Nat, m <= Len(s), NEW x
  PROVE  LET a == Append(SubSeq(s, 1, m), x)
         IN  Len(a) = m + 1 /\ a[m + 1] = x /\ \A k \in 1 .. m : a[k] = s[k]
<1> DEFINE S == {s[k] : k \in 1 .. Len(s)}
           b == SubSeq(s, 1, m)
           a == Append(b, x)
<1>1. s \in Seq(S) /\ Len(s) \in Nat
  BY SequenceIs
<1> HIDE DEF S
<1>2. b \in Seq(S) /\ Len(b) = m /\ \A k \in 1 .. m : b[k] = s[k]
  BY <1>1
<1> HIDE DEF b
<1>3. b \in Seq(S \union {x}) /\ x \in S \union {x}
  BY <1>2
<1>4. Len(a) = m + 1 /\ a[m + 1] = x /\ \A k \in 1 .. m : a[k] = b[k]
  BY <1>2, <1>3
<1> QED
  BY <1>2, <1>4 DEF b

\* The call for a tree that the last one holds.
LEMMA NextLevel ==
  ASSUME PlantInv, FitPlanted, StackFit, parsing # <<>>,
         NEW t, Holds(Stack[Len(parsing)], t), NEW T, T[Len(parsing) + 1] = t, \A k \in 1 .. Len(parsing) : T[k] = Stack[k]
  PROVE  Level(trees, T, Len(parsing) + 1)
<1> DEFINE n == Len(parsing)
           p == Stack[n]
<1>1. n \in Nat /\ (\A k \in 1 .. n : Stack[k] \in DOMAIN trees) /\ (\A x : HeldByTree(x) <=> HeldIn(trees, x)) /\ n # 0
  <2>1. IsSequence(parsing)
    BY DEF PlantInv, ParsingOK
  <2>2. n # 0
    BY <2>1 DEF IsSequence
  <2> QED
    BY <2>2, StackIs
<1>2. TreesOK /\ TreesOnce /\ AllHeldFit
  BY DEF PlantInv, FitPlanted
<1>3. \A k \in 1 .. n : Level(trees, Stack, k)
  BY DEF StackFit
<1>4. n \in 1 .. n /\ p \in DOMAIN trees
  BY <1>1
<1>5. t \in DOMAIN trees /\ t \in Nat /\ p \in Nat /\ t < p
  BY <1>2, <1>4, HolderFacts
<1>6. trees[t].loop # 0 /\ trees[t].loops = 1 + Rest[p]
  BY <1>2, <1>4, <1>5 DEF AllHeldFit, HeldFit
<1>7. \A j \in 1 .. n : t < Stack[j]
  <2> TAKE j \in 1 .. n
  <2>1. CASE j = n
    BY <1>5, <2>1
  <2>2. CASE j # n
    <3>1. j \in 1 .. n - 1
      BY <1>1, <2>2
    <3>2. p < Stack[j]
      BY <1>3, <1>4, <3>1 DEF Level
    <3>3. Stack[j] \in Nat
      BY <1>1, <1>2, TreeFacts
    <3> HIDE DEF p
    <3> QED
      BY <1>5, <3>2, <3>3
  <2> QED
    BY <2>1, <2>2
<1>8. ASSUME \A j \in 2 .. n : HeldIn(trees, Stack[j])
      PROVE  trees[t].loops = n
  <2>1. CASE n = 1
    <3>1. trees[p].loop = 0
      BY <1>3, <1>4, <2>1 DEF Level
    <3>2. Rest[p] = 0
      BY <1>4, <3>1 DEF Rest
    <3> QED
      BY <1>6, <2>1, <3>2
  <2>2. CASE n # 1
    <3>1. n \in 2 .. n /\ \A j \in 2 .. n - 1 : j \in 2 .. n
      <4>1. n \in Nat /\ n # 0 /\ n # 1
        BY <1>1, <2>2
      <4> HIDE DEF n
      <4> QED
        BY <4>1
    <3>2. HeldByTree(p) /\ \A j \in 2 .. n - 1 : HeldIn(trees, Stack[j])
      BY <1>1, <1>8, <3>1
    <3>3. trees[p].loops = n - 1 /\ trees[p].loop # 0
      BY <1>3, <1>4, <2>2, <3>2 DEF Level
    <3>4. Rest[p] = n - 1
      BY <1>4, <3>2, <3>3 DEF Rest
    <3> HIDE DEF n, p
    <3> QED
      BY <1>1, <1>6, <3>4
  <2> QED
    BY <2>1, <2>2
<1>9. T[n + 1] = t /\ \A k \in 1 .. n : T[k] = Stack[k]
  OBVIOUS
<1>10. n + 1 # 1 /\ (n + 1) - 1 = n /\ \A j \in 2 .. n : j \in 1 .. n
  BY <1>1
<1>11. Among(trees[p].subLoops, t)
  BY DEF Holds
<1> HIDE DEF n
<1>12. T[n] = p
  BY <1>4, <1>9
<1> HIDE DEF p
<1>13. (\A j \in 2 .. n : HeldIn(trees, T[j])) => trees[t].loops = n
  BY <1>8, <1>9, <1>10
<1>14. \A j \in 1 .. n : t < T[j]
  BY <1>7, <1>9
<1>15. Level(trees, T, n + 1)
  BY <1>6, <1>9, <1>10, <1>11, <1>12, <1>13, <1>14 DEF Level
<1> QED
  BY <1>15 DEF n

\* A step of parseNest that leaves the trees.
LEMMA StackNext ==
  ASSUME PlantInv, UNCHANGED <<trees, loopForests, cut>>, cut = NoTree, running' # "undefined",
         LastForest' = LastForest, Len(loopOmega') = Len(parsing'), parsing' # <<>> => forest' # <<>>,
         \A k \in 1 .. LastForest : trees[loopForests[k]].loop = 0,
         \A k \in 1 .. Len(parsing') : Level(trees, Stack', k)
  PROVE  StackFit'
BY DEF StackFit, CutTo

LEMMA ParseForestStack ==
  ASSUME PlantInv, FitPlanted, StackFit, ParseForest
  PROVE  StackFit'
<1> DEFINE f == IF forest = <<>> THEN <<1, Len(loopForests)>> ELSE <<forest[1] + 1, forest[2]>>
           x == Parse(loopForests[f[1]], 1)
<1>1. /\ running = "parse" /\ cut = NoTree /\ parsing = <<>> /\ running' \in {"parse", "end"}
      /\ UNCHANGED <<func, calls, depth, trees, loopForests, refs, cut>>
  BY DEF ParseForest, Parsing
<1>2. TreesOK /\ ParsingOK
  BY DEF PlantInv
<1>3. f[1] \in Nat \ {0} /\ f[2] \in Nat /\ f = <<f[1], f[2]>> /\ f[2] = LastForest
  <2>1. Len(loopForests) \in Nat
    BY <1>2 DEF TreesOK
  <2> QED
    BY <1>2, <2>1 DEF ParsingOK, LastForest
<1>4. \/ parsing' = parsing /\ loopOmega' = loopOmega /\ forest' = forest
      \/ f[1] <= f[2] /\ forest' = f /\ parsing' = <<x>> /\ loopOmega' = <<0>>
  <2>1. \/ f[1] > f[2] /\ parsing' = parsing /\ loopOmega' = loopOmega /\ forest' = forest
        \/ ~(f[1] > f[2]) /\ forest' = f /\ parsing' = <<x>> /\ loopOmega' = <<0>>
    BY DEF ParseForest
  <2> HIDE DEF f, x
  <2> QED
    BY <1>3, <2>1
<1>5. x.tree = loopForests[f[1]]
  BY DEF Parse
<1> HIDE DEF f, x
<1>6. LastForest' = LastForest
  <2>1. CASE forest' = forest
    BY <1>1, <2>1 DEF LastForest
  <2>2. CASE forest' = f
    <3>1. f # <<>>
      BY <1>3
    <3> QED
      BY <1>3, <2>2, <3>1 DEF LastForest
  <2> QED
    BY <1>4, <2>1, <2>2
<1>7. CASE parsing' = parsing /\ loopOmega' = loopOmega
  <2>1. Len(parsing') = 0 /\ Len(loopOmega') = Len(parsing')
    BY <1>1, <1>7 DEF StackFit
  <2>2. parsing' = <<>>
    BY <1>1, <1>7
  <2>3. \A k \in 1 .. Len(parsing') : Level(trees, Stack', k)
    BY <2>1
  <2> QED
    BY <1>1, <1>6, <2>1, <2>2, <2>3, StackNext DEF StackFit
<1>8. CASE f[1] <= f[2] /\ forest' = f /\ parsing' = <<x>> /\ loopOmega' = <<0>>
  <2>1. Len(parsing') = 1 /\ Len(loopOmega') = 1
    BY <1>8
  <2>2. Stack'[1] = loopForests[f[1]]
    <3>1. Stack' = [k \in 1 .. Len(parsing') |-> parsing'[k].tree]
      BY DEF Stack
    <3>2. parsing'[1] = x /\ 1 \in 1 .. Len(parsing')
      BY <1>8, <2>1
    <3> QED
      BY <1>5, <3>1, <3>2
  <2>3. trees[Stack'[1]].loop = 0
    <3>1. f[1] \in 1 .. LastForest
      BY <1>3, <1>8
    <3> QED
      BY <2>2, <3>1 DEF StackFit
  <2>4. Level(trees, Stack', 1)
    <3> DEFINE S == Stack'
    <3> HIDE DEF S
    <3>1. trees[S[1]].loop = 0 /\ \A j \in 1 .. 1 - 1 : FALSE
      BY <2>3 DEF S
    <3>2. Level(trees, S, 1)
      BY <3>1 DEF Level
    <3> QED
      BY <3>2 DEF S
  <2>5. \A k \in 1 .. Len(parsing') : Level(trees, Stack', k)
    BY <2>1, <2>4
  <2>6. forest' # <<>>
    BY <1>3, <1>8
  <2> QED
    BY <1>1, <1>6, <2>1, <2>5, <2>6, StackNext DEF StackFit
<1> QED
  BY <1>4, <1>7, <1>8

LEMMA ParseSubLoopStack ==
  ASSUME PlantInv, FitPlanted, FitParsed, StackFit, ParseSubLoop
  PROVE  StackFit'
<1> DEFINE n == Len(parsing)
           t == Parser.tree
           u == trees[t].subLoops[Parser.i]
           x == Parse(u, 1)
<1>1. /\ running = "parse" /\ cut = NoTree /\ parsing # <<>> /\ Parser.i <= Len(trees[t].subLoops)
      /\ parsing' = Append(parsing, x) /\ loopOmega' = Append(loopOmega, 0)
      /\ UNCHANGED <<func, calls, depth, trees, loopForests, forest, refs, cut, running>>
  BY DEF ParseSubLoop, Parsing
<1>2. n \in Nat /\ n > 0 /\ Parser = parsing[n] /\ t \in DOMAIN trees /\ Parser.i \in Nat \ {0}
      /\ IsSequence(parsing) /\ TreesOK
  BY <1>1, ParserFacts DEF ParseOK, PlantInv
<1>3. Holds(Stack[n], u)
  <2>1. Parser.i \in DOMAIN trees[t].subLoops
    <3>1. DOMAIN trees[t].subLoops = 1 .. Len(trees[t].subLoops) /\ Len(trees[t].subLoops) \in Nat
      BY <1>2, TreeFacts
    <3> HIDE DEF t
    <3> QED
      BY <1>1, <1>2, <3>1
  <2>2. Stack[n] = t
    <3>1. n \in 1 .. n
      BY <1>2
    <3> QED
      BY <1>2, <3>1, StackIs
  <2> HIDE DEF t, n
  <2> QED
    BY <2>1, <2>2 DEF Holds, Among
<1>4. x.tree = u
  BY DEF Parse
<1> HIDE DEF x, u, t
<1>5. Len(parsing') = n + 1 /\ parsing'[n + 1] = x /\ \A k \in 1 .. n : parsing'[k] = parsing[k]
  <2>1. parsing \in Seq({parsing[k] : k \in 1 .. Len(parsing)})
    BY <1>2, SequenceIs
  <2> QED
    BY <1>1, <2>1
<1>6. Len(loopOmega') = n + 1
  <2>1. Len(loopOmega) = n
    BY DEF StackFit
  <2>2. Len(Append(loopOmega, 0)) = Len(loopOmega) + 1
    BY Appended DEF FitParsed
  <2> QED
    BY <1>1, <2>1, <2>2
<1>7. Stack'[n + 1] = u /\ \A k \in 1 .. n : Stack'[k] = Stack[k]
  <2>1. Stack' = [k \in 1 .. Len(parsing') |-> parsing'[k].tree] /\ Stack = [k \in 1 .. n |-> parsing[k].tree]
    BY DEF Stack
  <2>2. n + 1 \in 1 .. n + 1 /\ \A k \in 1 .. n : k \in 1 .. n + 1
    BY <1>2
  <2> HIDE DEF n
  <2> QED
    BY <1>4, <1>5, <2>1, <2>2
<1>8. \A k \in 1 .. n : Level(trees, Stack', k)
  <2>1. \A k \in 1 .. n : Level(trees, Stack, k) /\ Stack'[k] = Stack[k]
    BY <1>7 DEF StackFit
  <2> HIDE DEF n
  <2> QED
    BY <1>2, <2>1, LevelsStay
<1>9. Level(trees, Stack', n + 1)
  BY <1>1, <1>3, <1>7, NextLevel
<1>10. \A k \in 1 .. Len(parsing') : Level(trees, Stack', k)
  BY <1>2, <1>5, <1>8, <1>9, OneMore
<1>11. LastForest' = LastForest /\ forest' # <<>>
  BY <1>1 DEF LastForest, StackFit
<1> QED
  BY <1>1, <1>5, <1>6, <1>10, <1>11, StackNext DEF StackFit

LEMMA ParsedLoopStack ==
  ASSUME PlantInv, FitPlanted, FitParsed, StackFit, ParsedLoop
  PROVE  StackFit'
<1> DEFINE n == Len(parsing)
           p == parsing[n - 1]
           x == Parse(p.tree, p.i + 1)
           o == Butlast(loopOmega)
<1>1. /\ running = "parse" /\ cut = NoTree /\ parsing # <<>>
      /\ IF n = 1 THEN parsing' = <<>> /\ loopOmega' = <<>>
         ELSE parsing' = Append(SubSeq(parsing, 1, n - 2), x) /\ loopOmega' = [o EXCEPT ![Len(o)] = o[Len(o)] + 1]
      /\ UNCHANGED <<func, calls, depth, trees, loopForests, forest, refs, cut, running>>
  BY DEF ParsedLoop, Parsing, NextPlace
<1>2. n \in Nat /\ n > 0 /\ IsSequence(parsing) /\ IsSequence(loopOmega) /\ Len(loopOmega) = n
  BY <1>1, ParserFacts DEF FitParsed, StackFit
<1>3. LastForest' = LastForest /\ forest' # <<>>
  BY <1>1 DEF LastForest, StackFit
<1>4. CASE n = 1
  <2>1. Len(parsing') = 0 /\ Len(loopOmega') = Len(parsing')
    BY <1>1, <1>4
  <2>2. \A k \in 1 .. Len(parsing') : Level(trees, Stack', k)
    BY <2>1
  <2> QED
    BY <1>1, <1>3, <2>1, <2>2, StackNext DEF StackFit
<1>5. CASE n # 1
  <2>1. n - 2 \in Nat /\ n - 2 <= n /\ n - 1 \in Nat /\ n - 1 <= n /\ n - 1 \in 1 .. n /\ n - 1 > 0
        /\ (n - 2) + 1 = n - 1 /\ (\A k \in 1 .. n - 1 : k = n - 1 \/ k \in 1 .. n - 2) /\ \A k \in 1 .. n - 1 : k \in 1 .. n
    <3>1. n \in Nat /\ n > 0 /\ n # 1
      BY <1>2, <1>5
    <3> HIDE DEF n
    <3> QED
      BY <3>1
  <2>3. x.tree = p.tree
    BY DEF Parse
  <2> HIDE DEF x
  <2>4. Len(parsing') = n - 1 /\ parsing'[n - 1] = x /\ \A k \in 1 .. n - 2 : parsing'[k] = parsing[k]
    <3> DEFINE a == Append(SubSeq(parsing, 1, n - 2), x)
    <3>1. Len(a) = (n - 2) + 1 /\ a[(n - 2) + 1] = x /\ \A k \in 1 .. n - 2 : a[k] = parsing[k]
      <4> DEFINE m == n - 2
      <4>1. m \in Nat /\ m <= Len(parsing)
        BY <2>1
      <4> HIDE DEF m, x
      <4>2. LET s == Append(SubSeq(parsing, 1, m), x)
            IN  Len(s) = m + 1 /\ s[m + 1] = x /\ \A k \in 1 .. m : s[k] = parsing[k]
        BY <1>2, <4>1, Shortened
      <4> QED
        BY <4>2 DEF m
    <3>2. parsing' = a
      BY <1>1, <1>5
    <3> HIDE DEF a, n
    <3> QED
      BY <2>1, <3>1, <3>2
  <2>5. Len(loopOmega') = n - 1
    <3>1. IsSequence(o) /\ Len(o) = n - 1
      BY <1>2, <2>1, Fronted DEF Butlast
    <3> HIDE DEF o
    <3>2. \A v : Len([o EXCEPT ![Len(o)] = v]) = Len(o)
      BY <3>1, Replaced
    <3> QED
      BY <1>1, <1>5, <3>1, <3>2
  <2>6. \A k \in 1 .. n - 1 : Stack'[k] = Stack[k]
    <3>1. Stack' = [k \in 1 .. Len(parsing') |-> parsing'[k].tree] /\ Stack = [k \in 1 .. n |-> parsing[k].tree]
      BY DEF Stack
    <3> HIDE DEF n
    <3>2. \A k \in 1 .. n - 1 : k \in 1 .. n
      BY <2>1
    <3>3. \A k \in 1 .. n - 1 : parsing'[k].tree = parsing[k].tree
      BY <2>1, <2>3, <2>4
    <3> QED
      BY <2>4, <3>1, <3>2, <3>3
  <2>7. \A k \in 1 .. n - 1 : Level(trees, Stack', k)
    <3>1. \A k \in 1 .. n - 1 : k \in 1 .. n
      <4> HIDE DEF n
      <4> QED
        BY <2>1
    <3>2. \A k \in 1 .. n - 1 : Level(trees, Stack, k) /\ Stack'[k] = Stack[k]
      BY <2>6, <3>1 DEF StackFit
    <3> HIDE DEF n
    <3> QED
      BY <2>1, <3>2, LevelsStay
  <2> HIDE DEF n
  <2> QED
    BY <1>1, <1>3, <2>4, <2>5, <2>7, StackNext DEF StackFit
<1> QED
  BY <1>4, <1>5

\* An omega that does not fit counts a loop that conditionOnLoop has taken out.
LEMMA ParseBBStack ==
  ASSUME PlantInv, FitPlanted, FitParsed, StackFit, parseBB
  PROVE  StackFit'
<1> DEFINE n == Len(parsing)
           e == Parser
           t == e.tree
           b == Head(e.blocks)
           x == [e EXCEPT !.blocks = Tail(e.blocks)]
           m == Read(b)
<1>1. /\ running = "parse" /\ cut = NoTree /\ parsing # <<>>
      /\ parsing' = Append(Butlast(parsing), x)
      /\ \/ loopOmega' = loopOmega /\ cut' = cut /\ running' = running
         \/ /\ trees[t].loop # 0 /\ loopOmega' = Counted(m) /\ cut' \in {t, NoTree}
            /\ running' = IF m > 0 /\ Len(loopOmega) # trees[t].loops + 1 THEN "undefined" ELSE running
      /\ UNCHANGED <<func, calls, depth, trees, loopForests, forest>>
  BY DEF parseBB, Parsing
<1>2. /\ n \in Nat /\ n > 0 /\ e = parsing[n] /\ ParseOK(e) /\ IsSequence(parsing) /\ IsSequence(loopOmega)
      /\ Len(loopOmega) = n
  BY <1>1, ParserFacts DEF FitParsed, StackFit
<1>3. x.tree = t
  <2>1. e = [tree |-> e.tree, i |-> e.i, blocks |-> e.blocks]
    BY <1>2 DEF ParseOK
  <2> HIDE DEF e
  <2> QED
    BY <2>1
<1> HIDE DEF x, m, b
<1>4. Len(parsing') = n /\ \A k \in 1 .. n : parsing'[k].tree = parsing[k].tree
  <2> DEFINE a == Append(SubSeq(parsing, 1, n - 1), x)
  <2>1. n - 1 \in Nat /\ n - 1 <= n /\ (n - 1) + 1 = n /\ \A k \in 1 .. n : k = n \/ k \in 1 .. n - 1
    <3>1. n \in Nat /\ n > 0
      BY <1>2
    <3> HIDE DEF n
    <3> QED
      BY <3>1
  <2>2. Len(a) = (n - 1) + 1 /\ a[(n - 1) + 1] = x /\ \A k \in 1 .. n - 1 : a[k] = parsing[k]
    BY <1>2, <2>1, Shortened
  <2>3. parsing' = a
    BY <1>1 DEF Butlast
  <2> HIDE DEF a, n, e
  <2> QED
    BY <1>2, <1>3, <2>1, <2>2, <2>3
<1>5. Len(loopOmega') = n
  <2>1. \A v : Len([loopOmega EXCEPT ![Len(loopOmega)] = v]) = Len(loopOmega)
    BY <1>2, Replaced
  <2>2. Counted(m) = [loopOmega EXCEPT ![Len(loopOmega)] = loopOmega[Len(loopOmega)] + m]
    BY DEF Counted
  <2> QED
    BY <1>1, <1>2, <2>1, <2>2
<1>6. Stack' = Stack
  <2>1. Stack' = [k \in 1 .. Len(parsing') |-> parsing'[k].tree] /\ Stack = [k \in 1 .. n |-> parsing[k].tree]
    BY DEF Stack
  <2> HIDE DEF n
  <2> QED
    BY <1>4, <2>1
<1>7. LastForest' = LastForest /\ forest' # <<>>
  BY <1>1 DEF LastForest, StackFit
<1>8. Stack[n] = t /\ n \in 1 .. n
  <2>1. n \in 1 .. n
    BY <1>2
  <2> QED
    BY <1>2, <2>1, StackIs
<1>9. CutTo(trees, Stack, n, cut')
  <2>1. cut' \in {t, NoTree}
    BY <1>1
  <2>2. \A k \in n + 1 .. n : FALSE
    BY <1>2
  <2> HIDE DEF n, e
  <2> QED
    BY <1>8, <2>1, <2>2 DEF CutTo
<1>10. running' = "undefined" => Missing(trees, Stack, n)
  <2> SUFFICES ASSUME running' = "undefined" PROVE Missing(trees, Stack, n)
    OBVIOUS
  <2>1. trees[t].loop # 0 /\ n # trees[t].loops + 1
    BY <1>1, <1>2
  <2>2. Level(trees, Stack, n)
    BY <1>8 DEF StackFit
  <2> HIDE DEF n, e
  <2>3. n # 1 /\ trees[t].loops # n - 1
    <3>1. n # 1
      BY <1>8, <2>1, <2>2 DEF Level
    <3>2. trees[t].loops = n - 1 => n = trees[t].loops + 1
      BY <1>2
    <3> QED
      BY <2>1, <3>1, <3>2
  <2>4. ~(\A k \in 2 .. n - 1 : HeldIn(trees, Stack[k]))
    BY <1>8, <2>2, <2>3 DEF Level
  <2> QED
    BY <2>4 DEF Missing
<1>11. \A k \in 1 .. n : Level(trees, Stack, k)
  BY DEF StackFit
<1> HIDE DEF n
<1> QED
  BY <1>1, <1>4, <1>5, <1>6, <1>7, <1>9, <1>10, <1>11 DEF StackFit

\* The trees from q outwards keep what they have.
LEMMA ConditionOnLoopStack ==
  ASSUME PlantInv, FitPlanted, StackFit, conditionOnLoop
  PROVE  StackFit'
<1> DEFINE N == Len(parsing)
<1>1. /\ TreesOK /\ TreesOnce /\ AllHeldFit
      /\ UNCHANGED <<func, calls, depth, forest, parsing, loopOmega, running>>
  BY DEF PlantInv, conditionOnLoop, FitPlanted
<1>2. PICK q, at, n : Conditions(q, at, n) /\ n = Loss(q, at)
  BY Conditioned
<1>3. /\ cut \in DOMAIN trees /\ q \in DOMAIN trees /\ at \in DOMAIN trees[q].subLoops /\ cut' = q /\ cut < q
      /\ cut \in Nat /\ q \in Nat /\ cut # NoTree
      /\ loopForests' = Append(loopForests, cut) \o [k \in DOMAIN BehindTree(trees[q], at) |-> Len(trees) + 1]
  <2>1. cut \in DOMAIN trees /\ q \in DOMAIN trees /\ at \in DOMAIN trees[q].subLoops /\ cut' = q /\ cut < q
        /\ loopForests' = Append(loopForests, cut) \o [k \in DOMAIN BehindTree(trees[q], at) |-> Len(trees) + 1]
    BY <1>2 DEF Conditions
  <2>2. cut \in Nat /\ q \in Nat /\ cut > 0
    BY <1>1, <2>1, TreeFacts
  <2> QED
    BY <2>1, <2>2 DEF NoTree
<1>4. /\ \A t \in DOMAIN trees : /\ trees'[t].loop = trees[t].loop
                                 /\ t # q => trees'[t].subLoops = trees[t].subLoops
      /\ \A t : HeldByTree(t)' <=> HeldByTree(t) /\ t # cut
      /\ \A t : t \in DOMAIN trees => t \in DOMAIN trees'
  BY <1>2, ConditionedHolders
<1>5. /\ N \in Nat /\ (\A k \in 1 .. N : Stack[k] \in DOMAIN trees) /\ (\A t : HeldByTree(t) <=> HeldIn(trees, t))
      /\ (\A k \in 1 .. N : Stack[k] \in Nat)
  BY <1>1, StackIs, TreeFacts
<1>6. \A t : HeldIn(trees', t) <=> HeldIn(trees, t) /\ t # cut
  <2>1. \A t : HeldIn(trees', t) <=> HeldByTree(t)'
    BY DEF HeldIn, HeldByTree
  <2> QED
    BY <1>4, <1>5, <2>1
<1>7. \A k \in 1 .. N : Level(trees, Stack, k)
  BY DEF StackFit
<1>8. PICK m \in 1 .. N : Stack[m] = cut /\ \A k \in m + 1 .. N : ~HeldIn(trees, Stack[k])
  BY <1>3 DEF StackFit, CutTo
<1>9. /\ Holds(q, cut) /\ HeldByTree(cut)
      /\ n \in [DOMAIN trees -> Nat] /\ n[cut] = 0
      /\ \A t \in DOMAIN trees : n[t] # 0 => t < q
  BY <1>1, <1>2, Losses
<1>10. trees[cut].loop # 0
  BY <1>1, <1>3, <1>9, HeldLoops
<1>11. Stack' = Stack /\ parsing' = parsing
  BY <1>1 DEF Stack
<1> HIDE DEF N
\* The tree around is that of the call before.
<1>12. m # 1 /\ m - 1 \in 1 .. N /\ Stack[m - 1] = q
  <2>1. m # 1
    BY <1>7, <1>8, <1>10 DEF Level
  <2>2. m - 1 \in 1 .. N
    BY <1>5, <2>1
  <2>3. Among(trees[Stack[m - 1]].subLoops, cut)
    <3>1. HeldIn(trees, Stack[m])
      BY <1>5, <1>8, <1>9
    <3> QED
      BY <1>7, <1>8, <2>1, <3>1 DEF Level
  <2>4. Stack[m - 1] = q
    BY <1>1, <1>3, <1>5, <1>9, <2>2, <2>3, HolderFacts DEF Holds
  <2> QED
    BY <2>1, <2>2, <2>4
<1>13. \A k \in 1 .. N : k <= m - 1 => Stack[k] >= q /\ n[Stack[k]] = 0
  <2> SUFFICES ASSUME NEW k \in 1 .. N, k <= m - 1 PROVE Stack[k] >= q /\ n[Stack[k]] = 0
    OBVIOUS
  <2>1. Stack[k] >= q
    <3>1. CASE k = m - 1
      BY <1>3, <1>12, <3>1
    <3>2. CASE k # m - 1
      <4>1. k \in 1 .. (m - 1) - 1
        BY <1>5, <3>2
      <4>2. Level(trees, Stack, m - 1)
        BY <1>7, <1>12
      <4>3. Stack[m - 1] < Stack[k]
        BY <4>1, <4>2 DEF Level
      <4> QED
        BY <1>3, <1>5, <1>12, <4>3
    <3> QED
      BY <3>1, <3>2
  <2>2. ~(Stack[k] < q)
    BY <1>3, <1>5, <2>1
  <2> QED
    BY <1>5, <1>9, <2>1, <2>2
<1>14. ASSUME NEW t \in DOMAIN trees, n[t] = 0, trees[t].loops \in Nat
       PROVE  trees'[t].loops = trees[t].loops
  <2>1. trees'[t] = NowAt(q, at, n, t) /\ trees[t] \in TreeRecord
    BY <1>1, <1>2, <1>14, ConditionedTrees, TreeFacts
  <2>2. CASE t = cut
    BY <2>1, <2>2 DEF NowAt, TreeRecord
  <2>3. CASE t # cut /\ t = q
    <3>1. trees'[t] = CutBefore(trees[t], at)
      BY <2>1, <2>3 DEF NowAt
    <3> QED
      BY <2>1, <3>1 DEF CutBefore, TreeRecord
  <2>4. CASE t # cut /\ t # q
    <3>1. trees'[t] = peelTree(t, 0)
      BY <1>14, <2>1, <2>4 DEF NowAt
    <3>2. trees'[t].loops = IF 0 >= trees[t].loops THEN 0 ELSE trees[t].loops - 0
      BY <2>1, <3>1 DEF peelTree, TreeRecord
    <3> QED
      BY <1>14, <3>2
  <2> QED
    BY <2>2, <2>3, <2>4
<1>15. ASSUME NEW k \in 1 .. N
       PROVE  Level(trees', Stack, k)
  <2> DEFINE S == Stack
             t == S[k]
  <2>1. Level(trees, S, k) /\ t \in DOMAIN trees /\ trees'[t].loop = trees[t].loop
    BY <1>4, <1>5, <1>7
  <2>2. ASSUME k # 1, HeldIn(trees', t) PROVE Among(trees'[S[k - 1]].subLoops, t)
    <3>1. HeldIn(trees, t) /\ t # cut
      BY <1>6, <2>2
    <3>2. Among(trees[S[k - 1]].subLoops, t)
      BY <2>1, <2>2, <3>1 DEF Level
    <3>3. k - 1 \in 1 .. N /\ k <= m - 1
      <4>1. ~(k \in m + 1 .. N) /\ k # m
        BY <1>8, <3>1
      <4> QED
        BY <1>5, <2>2, <4>1
    <3>4. S[k - 1] # q
      <4>1. CASE k = m - 1
        <5>1. k - 1 \in 1 .. k - 1
          BY <2>2
        <5>2. t < S[k - 1]
          BY <2>1, <5>1 DEF Level
        <5>3. t = q
          BY <1>12, <4>1
        <5> QED
          BY <1>3, <5>2, <5>3
      <4>2. CASE k # m - 1
        <5>1. k - 1 \in 1 .. (m - 1) - 1
          BY <1>5, <3>3, <4>2
        <5>2. Level(trees, S, m - 1)
          BY <1>7, <1>12
        <5>3. S[m - 1] < S[k - 1]
          BY <5>1, <5>2 DEF Level
        <5> QED
          BY <1>3, <1>12, <5>3
      <4> QED
        BY <4>1, <4>2
    <3>5. trees'[S[k - 1]].subLoops = trees[S[k - 1]].subLoops
      BY <1>4, <1>5, <3>3, <3>4
    <3> QED
      BY <3>2, <3>5
  <2>3. ASSUME k # 1, \A j \in 2 .. k - 1 : HeldIn(trees', S[j]) PROVE trees'[t].loops = k - 1
    <3>1. k <= m
      <4>1. ~(m \in 2 .. k - 1)
        BY <1>6, <1>8, <2>3
      <4> QED
        BY <1>12, <4>1
    <3>2. trees[t].loops = k - 1
      <4>1. \A j \in 2 .. k - 1 : HeldIn(trees, S[j])
        BY <1>6, <2>3
      <4> QED
        BY <2>1, <2>3, <4>1 DEF Level
    <3>3. n[t] = 0
      <4>1. CASE k = m
        BY <1>8, <1>9, <4>1
      <4>2. CASE k # m
        <5>1. k <= m - 1
          BY <3>1, <4>2
        <5> QED
          BY <1>13, <5>1
      <4> QED
        BY <4>1, <4>2
    <3>4. trees[t].loops \in Nat
      BY <3>2
    <3> QED
      BY <1>14, <2>1, <3>2, <3>3, <3>4
  <2> HIDE DEF S
  <2>4. (k = 1 <=> trees[t].loop = 0) /\ \A j \in 1 .. k - 1 : t < S[j]
    BY <2>1 DEF Level
  <2>5. Level(trees', S, k)
    BY <2>1, <2>2, <2>3, <2>4 DEF Level
  <2> QED
    BY <2>5 DEF S
<1>16. LastForest' = LastForest /\ \A k \in 1 .. LastForest : trees'[loopForests'[k]].loop = 0
  <2> DEFINE l == Len(loopForests)
             d == [k \in DOMAIN BehindTree(trees[q], at) |-> Len(trees) + 1]
  <2>1. forest # <<>> /\ forest[2] \in Nat /\ forest[2] <= l /\ l \in Nat /\ loopForests \in Seq(DOMAIN trees)
    <3>1. parsing # <<>>
      BY <1>5, <1>8 DEF N
    <3>2. forest # <<>>
      BY <3>1 DEF StackFit
    <3> QED
      BY <1>1, <3>2 DEF PlantInv, ParsingOK, TreesOK
  <2>2. LastForest = forest[2] /\ LastForest' = forest[2]
    BY <1>1, <2>1 DEF LastForest
  <2>3. \A k \in 1 .. l : loopForests'[k] = loopForests[k]
    <3>1. Append(loopForests, cut) \in Seq(DOMAIN trees) /\ Len(Append(loopForests, cut)) = l + 1
          /\ \A k \in 1 .. l : Append(loopForests, cut)[k] = loopForests[k]
      BY <1>3, <2>1
    <3>2. d \in Seq({Len(trees) + 1})
      <4>1. BehindTree(trees[q], at) = <<>> \/ \E y : BehindTree(trees[q], at) = <<y>>
        BY DEF BehindTree
      <4>2. DOMAIN BehindTree(trees[q], at) = 1 .. Len(BehindTree(trees[q], at)) /\ Len(BehindTree(trees[q], at)) \in Nat
        BY <4>1
      <4> DEFINE z == Len(BehindTree(trees[q], at))
      <4>3. d = [k \in 1 .. z |-> Len(trees) + 1] /\ z \in Nat
        BY <4>2
      <4> HIDE DEF d, z
      <4> QED
        BY <4>3
    <3> DEFINE a == Append(loopForests, cut)
               V == DOMAIN trees \union {Len(trees) + 1}
    <3>3. a \in Seq(V) /\ d \in Seq(V) /\ loopForests' = a \o d
      BY <1>3, <3>1, <3>2
    <3> HIDE DEF a, d, V
    <3>4. \A k \in 1 .. Len(a) : (a \o d)[k] = a[k]
      BY <3>3
    <3>5. \A k \in 1 .. l : k \in 1 .. Len(a)
      BY <2>1, <3>1 DEF a
    <3> QED
      BY <3>1, <3>3, <3>4, <3>5 DEF a
  <2>4. \A k \in 1 .. forest[2] : k \in 1 .. l
    BY <2>1
  <2>5. \A k \in 1 .. l : loopForests[k] \in DOMAIN trees
    BY <2>1
  <2>6. \A k \in 1 .. LastForest : trees[loopForests[k]].loop = 0
    BY DEF StackFit
  <2> HIDE DEF l
  <2> QED
    BY <1>4, <2>2, <2>3, <2>4, <2>5, <2>6
<1>17. CutTo(trees', Stack, N, q)
  <2> SUFFICES ASSUME NEW k \in (m - 1) + 1 .. N PROVE ~HeldIn(trees', Stack[k])
    BY <1>12 DEF CutTo
  <2>1. k = m \/ k \in m + 1 .. N
    BY <1>5
  <2> QED
    BY <1>6, <1>8, <2>1
<1>18. running = "undefined" => Missing(trees', Stack, N)
  BY <1>6 DEF StackFit, Missing, N
<1> QED
  BY <1>1, <1>3, <1>11, <1>15, <1>16, <1>17, <1>18 DEF StackFit, N

LEMMA ConditionedOnRootStack ==
  ASSUME PlantInv, StackFit, ConditionedOnRoot
  PROVE  StackFit'
<1>1. cut' = NoTree /\ UNCHANGED <<trees, loopForests, forest, parsing, loopOmega, running>>
  BY DEF ConditionedOnRoot
<1>2. Stack' = Stack /\ LastForest' = LastForest
  BY <1>1 DEF Stack, LastForest
<1> QED
  BY <1>1, <1>2 DEF StackFit, CutTo

----------------------------------------------------------------------------
(* The nests fit in every state.                                           *)

LEMMA InitFits ==
  ASSUME TurboInit
  PROVE  FitInv
<1>1. /\ calls = <<>> /\ trees = <<>> /\ loopForests = <<>> /\ refs = <<>> /\ loopOmega = <<>> /\ running = "new"
      /\ forest = <<>>
  BY DEF TurboInit, Pass
<1>2. NestsWhole /\ RootsBare /\ HoldersAround /\ CallsWhole /\ JustMade
  BY <1>1 DEF NestsWhole, RootsBare, HeldByForest, HoldersAround, CallsWhole, JustMade, Pending
<1> QED
  BY <1>1, <1>2 DEF FitInv, Planting, FitPlanting

LEMMA StutterFits ==
  ASSUME PlantInv, FitInv, UNCHANGED turboVars
  PROVE  FitInv'
<1>1. UNCHANGED <<func, calls, depth, trees, loopForests, forest, parsing, loopOmega, refs, cut, running>>
  BY DEF turboVars
<1>2. SUFFICES ASSUME NoLoopFails
               PROVE  IF Planting' THEN FitPlanting' /\ forest' = <<>> ELSE FitPlanted' /\ FitParsed' /\ StackFit'
  BY <1>1, SameNests DEF FitInv
<1>3. Planting' <=> Planting
  BY <1>1 DEF Planting
<1>4. CASE Planting
  <2>1. NestsWhole /\ RootsBare /\ HoldersAround /\ CallsWhole /\ JustMade /\ refs = <<>> /\ loopOmega = <<>>
        /\ forest = <<>>
    BY <1>2, <1>4 DEF FitInv, FitPlanting
  <2>2. Outer' = Outer /\ AffineNest' = AffineNest
    BY <1>1, SameNests
  <2>3. \A t, L : In(t, L)' <=> In(t, L)
    BY <1>1, <2>2 DEF In
  <2>4. NestsWhole' /\ RootsBare' /\ HoldersAround'
    BY <1>1, <2>1, <2>2 DEF NestsWhole, RootsBare, HeldByForest, HoldersAround, Holds, Among, In
  <2>5. CallsWhole'
    BY <1>1, <2>1, <2>2 DEF CallsWhole, In
  <2>6. JustMade'
    BY <1>1, <2>1 DEF JustMade, Pending, Pusher, LastOf
  <2> QED
    BY <1>1, <1>3, <1>4, <2>1, <2>4, <2>5, <2>6 DEF FitPlanting
<1>5. CASE ~Planting
  <2>1. FitPlanted /\ FitParsed /\ StackFit
    BY <1>2, <1>5 DEF FitInv
  <2>2. Outer' = Outer /\ Loops' = Loops /\ Where' = Where
    BY <1>1, SameNests, SameFunction
  <2>3. Gone' = Gone
    BY <1>1, <2>2 DEF Gone, TreesOf, HeldByTree
  <2>4. Rest' = Rest
    BY <1>1 DEF Rest, HeldByTree
  <2>5. FitPlanted'
    BY <1>1, <2>1, <2>2, <2>3, <2>4 DEF FitPlanted, ParentsKnown, AllHeldFit, RootsGone, HeldFit, HeldByTree, Holds, Among
  <2>6. RefsOK'
    BY <1>1, <2>1, SameRefs DEF FitParsed
  <2>7. BlocksOK' /\ IsSequence(loopOmega)'
    BY <1>1, <2>1, <2>2 DEF FitParsed, BlocksOK, IsSequence
  <2>8. StackFit'
    <3>1. Stack' = Stack /\ LastForest' = LastForest
      BY <1>1 DEF Stack, LastForest
    <3> QED
      BY <1>1, <2>1, <3>1 DEF StackFit
  <2> QED
    BY <1>3, <1>5, <2>5, <2>6, <2>7, <2>8 DEF FitParsed
<1> QED
  BY <1>4, <1>5

LEMMA NextFits ==
  ASSUME PlantInv, FitInv, [TurboNext]_turboVars
  PROVE  FitInv'
<1>1. CASE UNCHANGED turboVars
  BY <1>1, StutterFits
<1>2. CASE TurboNext
  <2>1. func' = func
    BY <1>2 DEF TurboNext, initializeLoopForest, PushSubLoop, initLoopTree, InitFails, SubLoopJoins, NoPath, SubLoopFails,
       Plant, GiveUp, LinkParents, ParseForest, parseBB, ParseSubLoop, ParsedLoop, conditionOnLoop, ConditionedOnRoot
  <2>2. CASE ~NoLoopFails
    BY <2>1, <2>2, SameNests DEF FitInv
  <2>3. CASE NoLoopFails /\ Planting
    <3>1. FitPlanting /\ forest = <<>>
      BY <2>3 DEF FitInv
    <3>2. cut = NoTree /\ parsing = <<>>
      BY <2>3 DEF PlantInv, ParsingOK, Planting
    <3>3. ~ParseForest /\ ~parseBB /\ ~ParseSubLoop /\ ~ParsedLoop /\ ~conditionOnLoop /\ ~ConditionedOnRoot
      BY <2>3, <3>2 DEF Planting, ParseForest, parseBB, ParseSubLoop, ParsedLoop, Parsing, conditionOnLoop, ConditionedOnRoot
    <3>4. CASE initializeLoopForest \/ LinkParents
      BY <2>3, <3>1, <3>4, InitialCall, ParentsLinked
    <3>5. CASE PushSubLoop \/ initLoopTree \/ SubLoopJoins \/ Plant
      <4>1. FitPlanting'
        BY <2>3, <3>1, <3>5, CallMade, NestMade, CallGrows, NestGrows
      <4>2. running' = running /\ forest' = forest
        BY <3>5 DEF PushSubLoop, initLoopTree, SubLoopJoins, Plant
      <4> QED
        BY <2>3, <3>1, <4>1, <4>2 DEF FitInv, Planting
    <3>6. ~InitFails /\ ~NoPath /\ ~SubLoopFails /\ ~GiveUp
      BY <2>3, <3>1, NoneFails
    <3> QED
      BY <1>2, <3>3, <3>4, <3>5, <3>6 DEF TurboNext
  <2>4. CASE NoLoopFails /\ ~Planting
    <3>1. FitPlanted /\ FitParsed /\ StackFit
      BY <2>4 DEF FitInv
    <3>2. calls = <<>>
      BY <2>4 DEF PlantInv, CallsOK, Planting
    <3>3. ~initializeLoopForest /\ ~PushSubLoop /\ ~initLoopTree /\ ~InitFails /\ ~SubLoopJoins /\ ~NoPath /\ ~SubLoopFails
          /\ ~Plant /\ ~GiveUp /\ ~LinkParents
      BY <2>4 DEF Planting, initializeLoopForest, PushSubLoop, initLoopTree, InitFails, SubLoopJoins, NoPath, SubLoopFails,
         Plant, GiveUp, LinkParents, Descending, Childless, Returned, Through
    <3>4. FitPlanted' /\ FitParsed' /\ ~Planting'
      <4>1. CASE ParseForest \/ parseBB \/ ParseSubLoop \/ ParsedLoop
        BY <2>4, <3>1, <4>1, ParseForestFits, ParseBBFits, ParseSubLoopFits, ParsedLoopFits
      <4>2. CASE conditionOnLoop \/ ConditionedOnRoot
        BY <2>4, <3>1, <4>2, ConditionOnLoopFits, ConditionedOnRootFits
      <4> QED
        BY <1>2, <3>3, <4>1, <4>2 DEF TurboNext
    <3>5. StackFit'
      <4>1. CASE ParseForest \/ parseBB \/ ParseSubLoop \/ ParsedLoop
        BY <3>1, <4>1, ParseForestStack, ParseBBStack, ParseSubLoopStack, ParsedLoopStack
      <4>2. CASE conditionOnLoop \/ ConditionedOnRoot
        BY <3>1, <4>2, ConditionOnLoopStack, ConditionedOnRootStack
      <4> QED
        BY <1>2, <3>3, <4>1, <4>2 DEF TurboNext
    <3> QED
      BY <3>4, <3>5 DEF FitInv
  <2> QED
    BY <2>2, <2>3, <2>4
<1> QED
  BY <1>1, <1>2

\* Where a loop is gone, so are those around it; by the least that is gone and is
\* within one that is not.
LEMMA GoneAround ==
  ASSUME PlantInv, FitPlanted, cut = NoTree, NEW M \in Gone, M # 0, NEW X \in Enclosing[M]
  PROVE  CutOff(X)
<1>1. /\ TreesOK /\ ValidFunction(func) /\ ParentsKnown /\ RootsGone
      /\ Loops \subseteq Nat /\ Enclosing \in [Loops -> SUBSET Loops]
      /\ \A L \in Loops : Enclosing[L] = IF L = 0 THEN {} ELSE {L} \union Enclosing[Around(L)]
  BY Valid, FunctionFacts, EnclosingIs DEF PlantInv, FitPlanted
<1> DEFINE S == {L \in Gone : L # 0 /\ \E Y \in Enclosing[L] : ~CutOff(Y)}
<1>2. S = {}
  <2> SUFFICES ASSUME S # {} PROVE FALSE
    OBVIOUS
  <2>1. S \in SUBSET Nat
    BY <1>1, FunctionFacts DEF Gone
  <2>2. PICK L \in S : \A K \in S : L <= K
    <3> HIDE DEF S
    <3> QED
      BY <2>1, LeastExists
  <2>3. L \in Loops /\ L # 0 /\ L \in Nat /\ L \in Gone
    BY <1>1, <2>2 DEF Gone
  <2>4. PICK u \in TreesOf(L) : ~HeldByTree(u)
    <3>1. PICK u \in TreesOf(L) : ~HeldByTree(u) \/ u = cut
      BY <2>3 DEF Gone
    <3>2. u # cut
      BY <1>1, <3>1, TreeFacts DEF TreesOf, NoTree
    <3> QED
      BY <3>1, <3>2
  <2>5. u \in DOMAIN trees /\ trees[u].loop = L
    BY <2>4 DEF TreesOf
  <2>6. CutOff(L)
    BY <1>1, <2>4, <2>5 DEF CutOff, ParentsKnown
  <2>7. Around(L) \in Gone
    BY <1>1, <2>3, <2>4, <2>5 DEF RootsGone, Outer
  <2>8. Around(L) \notin S
    <3>1. Around(L) \in Loops /\ Around(L) < L
      BY <1>1, <2>3, AroundFacts
    <3>2. ~(L <= Around(L))
      <4>1. \A a \in Nat : a < L => ~(L <= a)
        BY <2>3
      <4> QED
        BY <1>1, <3>1, <4>1
    <3> QED
      BY <2>2, <3>2
  <2>9. \A Y \in Enclosing[Around(L)] : CutOff(Y)
    <3>1. CASE Around(L) = 0
      <4>1. Enclosing[Around(L)] = {}
        BY <1>1, <3>1, FunctionFacts
      <4> QED
        BY <4>1
    <3>2. CASE Around(L) # 0
      BY <2>7, <2>8, <3>2
    <3> QED
      BY <3>1, <3>2
  <2>10. \A Y \in Enclosing[L] : CutOff(Y)
    BY <1>1, <2>3, <2>6, <2>9
  <2> QED
    BY <2>2, <2>10
<1> QED
  BY <1>2

\* The loops around one that are left, where it is left itself.
Left == [L \in Loops |-> {M \in Enclosing[L] : ~CutOff(M)}]

LEMMA LeftFacts ==
  ASSUME PlantInv, FitPlanted, cut = NoTree, NEW t \in DOMAIN trees, trees[t].loop # 0, ~CutOff(trees[t].loop)
  PROVE  IsFiniteSet(Left[trees[t].loop]) /\ trees[t].loops = Cardinality(Left[trees[t].loop])
<1>1. /\ TreesOK /\ TreesOnce /\ PlantedOnce /\ ValidFunction(func) /\ ParentsKnown /\ AllHeldFit
      /\ Loops \subseteq Nat /\ Enclosing \in [Loops -> SUBSET Loops]
      /\ \A L \in Loops : Enclosing[L] = IF L = 0 THEN {} ELSE {L} \union Enclosing[Around(L)]
  BY Valid, FunctionFacts, EnclosingIs DEF PlantInv, FitPlanted
<1> DEFINE AllLeft(u) == IsFiniteSet(Left[trees[u].loop]) /\ trees[u].loops = Cardinality(Left[trees[u].loop])
           S == {u \in DOMAIN trees : trees[u].loop # 0 /\ ~CutOff(trees[u].loop) /\ ~AllLeft(u)}
<1>2. S = {}
  <2> SUFFICES ASSUME S # {} PROVE FALSE
    OBVIOUS
  \* A tree that holds another is greater.
  <2>1. PICK u \in S : \A v \in S : v <= u
    <3>1. S \in SUBSET (0 .. Len(trees)) /\ Len(trees) \in Nat
      BY <1>1 DEF TreesOK
    <3> HIDE DEF S
    <3> QED
      BY <3>1, GreatestExists
  <2> DEFINE L == trees[u].loop
             A == Around(L)
  <2>2. u \in DOMAIN trees /\ L # 0 /\ ~CutOff(L) /\ ~AllLeft(u) /\ L \in Loops
    <3>1. u \in DOMAIN trees
      BY <2>1
    <3> QED
      BY <1>1, <2>1, <3>1, TreeFacts
  <2>3. HeldByTree(u)
    BY <1>1, <2>2 DEF CutOff, TreesOf, ParentsKnown
  <2>4. PICK p \in DOMAIN trees : Holds(p, u)
    BY <2>3, HolderIs
  <2>5. u < p /\ u \in Nat /\ p \in Nat
    BY <1>1, <2>4, HolderFacts
  <2>6. /\ IF trees[p].loop # 0 THEN Outer[L] = trees[p].loop ELSE Outer[L] \in Gone
        /\ trees[u].loops = 1 + Rest[p]
    BY <1>1, <2>2, <2>4 DEF AllHeldFit, HeldFit
  <2>7. A \in Loops /\ A < L /\ Outer[L] = A /\ A \in Nat /\ L \in Nat
    BY <1>1, <2>2, AroundFacts DEF Outer
  <2> HIDE DEF L, A
  <2>8. Left[L] = {L} \union Left[A] /\ L \notin Left[A]
    <3>1. L \notin Enclosing[A]
      <4>1. ~(L <= A)
        BY <2>7
      <4> QED
        BY <1>1, <2>7, <4>1, EnclosingBelow
    <3>2. Enclosing[L] = {L} \union Enclosing[A]
      BY <1>1, <2>2 DEF A
    <3> QED
      BY <2>2, <2>7, <3>1, <3>2 DEF Left
  <2>9. IsFiniteSet(Left[A]) /\ Rest[p] = Cardinality(Left[A])
    <3>1. CASE A \in Gone
      <4>1. Left[A] = {}
        <5>1. CASE A = 0
          <6>1. Enclosing[A] = {}
            BY <1>1, <2>7, <5>1
          <6> QED
            BY <2>7, <6>1 DEF Left
        <5>2. CASE A # 0
          <6>1. \A Y \in Enclosing[A] : CutOff(Y)
            BY <3>1, <5>2, GoneAround
          <6> QED
            BY <2>7, <6>1 DEF Left
        <5> QED
          BY <5>1, <5>2
      <4>2. Rest[p] = 0
        <5>1. CASE trees[p].loop = 0
          BY <5>1 DEF Rest
        <5>2. CASE trees[p].loop # 0
          <6>1. trees[p].loop = A /\ A # 0
            BY <2>6, <2>7, <5>2
          <6>2. PICK v \in TreesOf(A) : ~HeldByTree(v) \/ v = cut
            BY <3>1, <6>1 DEF Gone
          <6>3. v = p
            BY <1>1, <6>1, <6>2 DEF PlantedOnce, TreesOf
          <6>4. p # cut
            BY <2>4, <1>1, TreeFacts DEF NoTree
          <6> QED
            BY <6>2, <6>3, <6>4 DEF Rest
        <5> QED
          BY <5>1, <5>2
      <4>3. IsFiniteSet({}) /\ Cardinality({}) = 0
        BY FS_EmptySet
      <4> QED
        BY <4>1, <4>2, <4>3
    <3>2. CASE A \notin Gone
      <4>1. trees[p].loop = A /\ A # 0
        BY <2>6, <2>7, <3>2 DEF Gone
      <4>2. HeldByTree(p)
        <5>1. p \in TreesOf(A)
          BY <4>1 DEF TreesOf
        <5> QED
          BY <2>7, <3>2, <5>1 DEF Gone
      <4>3. ~CutOff(A)
        <5>1. \A v \in TreesOf(A) : v = p
          BY <1>1, <4>1 DEF PlantedOnce, TreesOf
        <5> QED
          BY <1>1, <4>2, <5>1 DEF CutOff, ParentsKnown
      <4>4. p \notin S
        <5>1. ~(p <= u)
          BY <2>5
        <5> QED
          BY <2>1, <5>1
      <4>5. AllLeft(p)
        BY <4>1, <4>3, <4>4
      <4> QED
        BY <4>1, <4>2, <4>5 DEF Rest
    <3> QED
      BY <3>1, <3>2
  <2>10. IsFiniteSet(Left[L]) /\ Cardinality(Left[L]) = Cardinality(Left[A]) + 1
    <3> DEFINE Y == Left[A]
    <3>1. IsFiniteSet(Y) /\ L \notin Y /\ Left[L] = Y \union {L}
      BY <2>8, <2>9
    <3> HIDE DEF Y
    <3>2. IsFiniteSet(Y \union {L}) /\ Cardinality(Y \union {L}) = Cardinality(Y) + 1
      BY <3>1, FS_AddElement
    <3> QED
      BY <3>1, <3>2 DEF Y
  <2>11. Cardinality(Left[A]) \in Nat
    BY <2>9, FS_CardinalityType
  <2>12. trees[u].loops = Cardinality(Left[L])
    BY <2>6, <2>9, <2>10, <2>11
  <2> QED
    BY <2>2, <2>10, <2>12 DEF L
<1>3. AllLeft(t)
  BY <1>2
<1> QED
  BY <1>3

LEMMA FitFacts ==
  ASSUME PlantInv, FitInv
  PROVE  NestsFit
<1> SUFFICES ASSUME Planted, NoLoopFails
             PROVE  /\ \A t \in InForest :
                         trees[t].loop # 0 /\ ~CutOff(trees[t].loop) =>
                           trees[t].loops = Cardinality({M \in Enclosing[trees[t].loop] : ~CutOff(M)})
                    /\ running = "undefined" => Overtaken
                    /\ running # "undefined" =>
                         \A k \in DOMAIN refs :
                           ~CutOff(trees[refs[k].tree].loop) => Len(refs[k].omega) = trees[refs[k].tree].loops + 1
  BY DEF NestsFit
<1>1. cut = NoTree /\ FitPlanted /\ FitParsed /\ StackFit /\ TreesOK /\ ParentsKnown
  BY DEF Planted, Planting, FitInv, PlantInv, FitPlanted
<1>2. InForest = DOMAIN trees
  <2>1. calls = <<>>
    BY DEF PlantInv, CallsOK, Planted
  <2> QED
    BY <2>1, AllInForest
<1>3. ASSUME NEW t \in DOMAIN trees, trees[t].loop # 0, ~CutOff(trees[t].loop)
      PROVE  trees[t].loops = Cardinality({M \in Enclosing[trees[t].loop] : ~CutOff(M)})
  <2>1. trees[t].loops = Cardinality(Left[trees[t].loop])
    BY <1>1, <1>3, LeftFacts
  <2>2. trees[t].loop \in Loops
    BY <1>1, TreeFacts
  <2> QED
    BY <2>1, <2>2 DEF Left
<1>4. ASSUME running # "undefined", NEW k \in DOMAIN refs, ~CutOff(trees[refs[k].tree].loop)
      PROVE  Len(refs[k].omega) = trees[refs[k].tree].loops + 1
  <2>1. DOMAIN refs = 1 .. Len(refs)
    BY <1>1, SequenceIs DEF FitParsed, RefsOK
  <2> DEFINE r == refs[k]
  <2>2. RefOK(r)
    BY <1>1, <1>4, <2>1 DEF FitParsed, RefsOK
  <2> HIDE DEF r
  <2>3. r.tree \in DOMAIN trees
    BY <2>2 DEF RefOK
  <2>4. HeldByTree(r.tree)
    BY <1>1, <1>4, <2>3 DEF CutOff, TreesOf, ParentsKnown, r
  <2>5. Len(r.omega) = trees[r.tree].loops + 1
    BY <1>4, <2>2, <2>3, <2>4 DEF RefOK, Inner
  <2> QED
    BY <2>5 DEF r
<1>5. ASSUME running = "undefined"
      PROVE  Overtaken
  <2>1. PICK k \in 2 .. Len(parsing) - 1 : ~HeldIn(trees, Stack[k])
    BY <1>1, <1>5 DEF StackFit, Missing
  <2>2. Len(parsing) \in Nat /\ DOMAIN parsing = 1 .. Len(parsing)
    BY StackIs
  <2>3. k \in DOMAIN parsing /\ k \in 1 .. Len(parsing) /\ k # Len(parsing) /\ k # 1
    <3> DEFINE n == Len(parsing)
    <3> HIDE DEF n
    <3>1. n \in Nat /\ k \in 2 .. n - 1
      BY <2>2 DEF n
    <3>2. k \in 1 .. n /\ k # n /\ k # 1
      BY <3>1
    <3> QED
      BY <2>2, <3>2 DEF n
  <2> DEFINE t == parsing[k].tree
  <2>4. Stack[k] = t /\ t \in DOMAIN trees /\ ~HeldByTree(t)
    BY <2>1, <2>3, StackIs
  <2>5. trees[t].loop # 0
    BY <1>1, <2>3, <2>4 DEF StackFit, Level
  <2> HIDE DEF t
  <2>6. CutOff(trees[t].loop)
    BY <1>1, <2>4 DEF CutOff, TreesOf, ParentsKnown
  <2> QED
    BY <2>3, <2>5, <2>6 DEF Overtaken, t
<1> QED
  BY <1>2, <1>3, <1>4, <1>5

(* In every function whose loops can all be represented, wherever accesses  *)
(* of it cannot: the nest of a tree holds the loops around it that are      *)
(* left, also after conditionOnLoop has taken any of them out, in whatever  *)
(* order; and the omega that parseNest counts for an access has a place for *)
(* each of them and the whole, but where a loop that parseLoop is still in  *)
(* has been taken out: only there does an omega break the invariant of      *)
(* ArrayIndex::construct.                                                   *)
THEOREM NestsAlwaysFit == TurboSpec => []NestsFit
<1>1. TurboInit => PlantInv /\ FitInv
  BY InitPlants, InitFits
<1>2. (PlantInv /\ FitInv) /\ [TurboNext]_turboVars => (PlantInv /\ FitInv)'
  BY NextPlants, NextFits
<1>3. PlantInv /\ FitInv => NestsFit
  BY FitFacts
<1> QED
  BY <1>1, <1>2, <1>3, PTL DEF TurboSpec
=============================================================================
