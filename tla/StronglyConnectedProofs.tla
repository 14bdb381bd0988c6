---------------------- MODULE StronglyConnectedProofs ----------------------
(***************************************************************************)
(* Proofs about StronglyConnected for every graph with vertices 0 .. n:    *)
(* although indices repeat, the stack always holds the active calls in     *)
(* order, a component never joins two strongly connected components, and   *)
(* across strongly connected components the order is topological.          *)
(***************************************************************************)
EXTENDS StronglyConnected, SequenceTheorems, WellFoundedInduction, TLAPS

----------------------------------------------------------------------------
(* Helpers.                                                                *)

\* Every nonempty set of naturals has a least member.
LEMMA MinExists ==
  ASSUME NEW S \in SUBSET Nat, S # {}
  PROVE  \E x \in S : \A y \in S : x <= y
<1> DEFINE R == {ss \in Nat \X Nat : ss[1] < ss[2]}
<1>1. IsWellFoundedOn(R, Nat)
  BY NatLessThanWellFounded DEF OpToRel
<1>2. PICK x \in S : \A y \in S : <<y, x>> \notin R
  <2> HIDE DEF R
  <2> QED
    BY <1>1, WFMin
<1>3. ASSUME NEW y \in S
      PROVE  x <= y
  <2>1. x \in Nat /\ y \in Nat /\ ~(y < x)
    BY <1>2
  <2> QED
    BY <2>1
<1> QED
  BY <1>3

\* First picks a member.
LEMMA FirstIn ==
  ASSUME NEW S \in SUBSET Node, S # {}
  PROVE  First(S) \in S
<1>1. S \in SUBSET Nat
  BY NodeAssumption DEF Node
<1>2. \E x \in S : \A y \in S : x <= y
  BY <1>1, MinExists
<1> QED
  BY <1>2 DEF First, Min

----------------------------------------------------------------------------
(* Reachability, as an operator of the adjacency.                          *)

Path(nb, u, v) ==
  \A S \in SUBSET Node : u \in S /\ (\A x \in S : nb[x] \subseteq S) => v \in S

\* A vertex reaches itself.
LEMMA PathRefl ==
  ASSUME NEW nb, NEW u
  PROVE  Path(nb, u, u)
  BY DEF Path

\* Paths compose.
LEMMA PathTrans ==
  ASSUME NEW nb, NEW u, NEW v, NEW w, Path(nb, u, v), Path(nb, v, w)
  PROVE  Path(nb, u, w)
  BY DEF Path

\* An edge is a path.
LEMMA PathStep ==
  ASSUME NEW nb, NEW u, NEW v \in nb[u]
  PROVE  Path(nb, u, v)
  BY DEF Path

----------------------------------------------------------------------------
(* The inductive invariant, part by part, as operators of the state.       *)

TableType ==
  [Node -> [index : Nat, lowLink : Nat, onStack : BOOLEAN, visited : BOOLEAN]]
FramesType == Seq([v : Node, todo : SUBSET Node])

On(st) == {st[i] : i \in 1 .. Len(st)}
All(C) == UNION {C[i] : i \in 1 .. Len(C)}
Place(st, v) == CHOOSE i \in 1 .. Len(st) : st[i] = v

\* The flags say where a vertex is.
Flags(T, st, C) ==
  /\ \A v \in Node : T[v].onStack <=> v \in On(st)
  /\ \A v \in Node : T[v].visited <=> v \in On(st) \/ v \in All(C)
  /\ \A v \in Node : ~(v \in On(st) /\ v \in All(C))

Distinct(st) == \A i, j \in 1 .. Len(st) : st[i] = st[j] => i = j

\* The active calls lie on the stack in call order.
CallsInOrder(st, fr) ==
  /\ \A k \in 1 .. Len(fr) : fr[k].v \in On(st)
  /\ \A j, k \in 1 .. Len(fr) : j < k => Place(st, fr[j].v) < Place(st, fr[k].v)

\* An active call reaches every vertex above it on the stack.
ReachesAbove(nb, st, fr) ==
  \A k \in 1 .. Len(fr), i \in 1 .. Len(st) :
    Place(st, fr[k].v) <= i => Path(nb, fr[k].v, st[i])

\* Every vertex on the stack reaches an active call at or below it.
ReachesCall(nb, st, fr) ==
  \A i \in 1 .. Len(st) : \E k \in 1 .. Len(fr) :
    Place(st, fr[k].v) <= i /\ Path(nb, st[i], fr[k].v)

\* The lowLink of an active call is the index of a vertex on the stack that
\* the call reaches.
LowLinks(nb, T, st, fr) ==
  \A k \in 1 .. Len(fr) : \E i \in 1 .. Len(st) :
    Path(nb, fr[k].v, st[i]) /\ T[fr[k].v].lowLink = T[st[i]].index

LowIsLow(T) == \A v \in Node : T[v].lowLink <= T[v].index

\* Indices above an active call are greater than its own, repeated or not.
IndexAbove(T, st, fr) ==
  \A k \in 1 .. Len(fr), i \in 1 .. Len(st) :
    Place(st, fr[k].v) < i => T[fr[k].v].index < T[st[i]].index

\* What a visited vertex leads to was visited or is still to be looked at.
Explored(nb, T, fr) ==
  \A x \in Node : T[x].visited =>
    \A w \in nb[x] : T[w].visited \/ \E k \in 1 .. Len(fr) : fr[k].v = x /\ w \in fr[k].todo

\* What a call has left to look at are neighbours of its vertex.
TodoLeft(nb, fr) == \A k \in 1 .. Len(fr) : fr[k].todo \subseteq nb[fr[k].v]

Within(nb, C) ==
  \A i \in 1 .. Len(C) : \A u, v \in C[i] : Path(nb, u, v) /\ Path(nb, v, u)

Ordered(nb, C) ==
  \A i \in 1 .. Len(C) : \A v \in C[i] : \A w \in nb[v] :
    w \in UNION {C[j] : j \in 1 .. i} \/ (Path(nb, v, w) /\ Path(nb, w, v))

OnTheStack(nb, T, st, fr) ==
  /\ Distinct(st) /\ CallsInOrder(st, fr)
  /\ ReachesAbove(nb, st, fr) /\ ReachesCall(nb, st, fr)
  /\ LowLinks(nb, T, st, fr) /\ LowIsLow(T) /\ IndexAbove(T, st, fr)

SearchInv(nb, T, st, fr, C) ==
  /\ Flags(T, st, C) /\ OnTheStack(nb, T, st, fr) /\ Explored(nb, T, fr) /\ TodoLeft(nb, fr)
  /\ Within(nb, C) /\ Ordered(nb, C)

IInv == TypeOK /\ SearchInv(inNeighbors, iLLOS, stack, frames, components)

----------------------------------------------------------------------------
(* Places on the stack.                                                    *)

\* Every vertex on the stack has a place there, and only one.
LEMMA PlaceIn ==
  ASSUME NEW st \in Seq(Node), NEW v \in On(st)
  PROVE  Place(st, v) \in 1 .. Len(st) /\ st[Place(st, v)] = v
  BY DEF Place, On

\* The place of the vertex at i is i.
LEMMA PlaceIs ==
  ASSUME NEW st \in Seq(Node), Distinct(st), NEW i \in 1 .. Len(st)
  PROVE  Place(st, st[i]) = i
<1>1. st[i] \in On(st)
  BY DEF On
<1>2. Place(st, st[i]) \in 1 .. Len(st) /\ st[Place(st, st[i])] = st[i]
  BY <1>1, PlaceIn
<1> QED
  BY <1>2 DEF Distinct

\* Pushing a new vertex moves no other.
LEMMA PushPlaces ==
  ASSUME NEW st \in Seq(Node), Distinct(st), NEW v \in Node, v \notin On(st)
  PROVE  LET s2 == Append(st, v)
         IN  /\ s2 \in Seq(Node) /\ Len(s2) = Len(st) + 1 /\ Distinct(s2)
             /\ \A i \in 1 .. Len(st) : s2[i] = st[i]
             /\ s2[Len(st) + 1] = v
             /\ On(s2) = On(st) \union {v}
             /\ Place(s2, v) = Len(st) + 1
             /\ \A u \in On(st) : Place(s2, u) = Place(st, u)
<1> DEFINE s2 == Append(st, v)
<1>1. /\ s2 \in Seq(Node) /\ Len(s2) = Len(st) + 1 /\ Len(st) \in Nat
      /\ \A i \in 1 .. Len(st) : s2[i] = st[i]
      /\ s2[Len(st) + 1] = v
  OBVIOUS
<1> HIDE DEF s2
<1>2. On(s2) = On(st) \union {v}
  <2>1. ASSUME NEW x \in On(s2) PROVE x \in On(st) \union {v}
    BY <1>1, <2>1 DEF On
  <2>2. ASSUME NEW x \in On(st) PROVE x \in On(s2)
    BY <1>1, <2>2 DEF On
  <2>3. v \in On(s2)
    BY <1>1 DEF On
  <2> QED
    BY <2>1, <2>2, <2>3
<1>3. Distinct(s2)
  <2> SUFFICES ASSUME NEW i \in 1 .. Len(s2), NEW j \in 1 .. Len(s2), s2[i] = s2[j]
               PROVE  i = j
    BY DEF Distinct
  <2>1. \A n \in 1 .. Len(st) : st[n] # v
    BY DEF On
  <2>2. i \in 1 .. Len(st) /\ j \in 1 .. Len(st) => i = j
    BY <1>1 DEF Distinct
  <2>3. (i \in 1 .. Len(st) \/ i = Len(st) + 1) /\ (j \in 1 .. Len(st) \/ j = Len(st) + 1)
    BY <1>1
  <2> QED
    BY <1>1, <2>1, <2>2, <2>3
<1>4. Place(s2, v) = Len(st) + 1
  BY <1>1, <1>3, PlaceIs
<1>5. ASSUME NEW u \in On(st) PROVE Place(s2, u) = Place(st, u)
  <2>1. Place(st, u) \in 1 .. Len(st) /\ st[Place(st, u)] = u
    BY PlaceIn
  <2>2. Place(st, u) \in 1 .. Len(s2) /\ s2[Place(st, u)] = u
    BY <1>1, <2>1
  <2> QED
    BY <1>1, <1>3, <2>2, PlaceIs
<1> QED
  BY <1>1, <1>2, <1>3, <1>4, <1>5 DEF s2

\* Popping down to v leaves what is below v where it was.
LEMMA PopPlaces ==
  ASSUME NEW st \in Seq(Node), Distinct(st), NEW n \in 1 .. Len(st)
  PROVE  LET s2  == SubSeq(st, 1, n - 1)
             out == {st[i] : i \in n .. Len(st)}
         IN  /\ s2 \in Seq(Node) /\ Len(s2) = n - 1 /\ Distinct(s2)
             /\ \A i \in 1 .. n - 1 : s2[i] = st[i]
             /\ On(s2) = On(st) \ out /\ out \subseteq On(st)
             /\ \A u \in On(st) : u \in On(s2) <=> Place(st, u) < n
             /\ \A u \in On(s2) : Place(s2, u) = Place(st, u)
<1> DEFINE s2 == SubSeq(st, 1, n - 1)
           out == {st[i] : i \in n .. Len(st)}
<1>1. /\ s2 \in Seq(Node) /\ Len(s2) = n - 1 /\ Len(st) \in Nat
      /\ \A i \in 1 .. n - 1 : s2[i] = st[i]
  OBVIOUS
<1> HIDE DEF s2
<1>2. Distinct(s2)
  BY <1>1 DEF Distinct
<1>3. \A u : u \in On(s2) <=> \E i \in 1 .. n - 1 : u = st[i]
  BY <1>1 DEF On
<1>4. \A u : u \in out <=> \E i \in n .. Len(st) : u = st[i]
  OBVIOUS
<1>5. \A u : u \in On(st) <=> \E i \in 1 .. Len(st) : u = st[i]
  BY DEF On
<1>6. On(s2) = On(st) \ out /\ out \subseteq On(st)
  <2> HIDE DEF out
  <2>1. ASSUME NEW u \in On(s2) PROVE u \in On(st) /\ u \notin out
    <3>1. PICK i \in 1 .. n - 1 : u = st[i]
      BY <1>3
    <3>2. i \in 1 .. Len(st)
      BY <1>1
    <3>3. ASSUME u \in out PROVE FALSE
      <4>1. PICK j \in n .. Len(st) : u = st[j]
        BY <1>4, <3>3
      <4>2. j \in 1 .. Len(st) /\ i # j
        BY <1>1
      <4> QED
        BY <3>1, <3>2, <4>1, <4>2 DEF Distinct
    <3> QED
      BY <1>5, <3>1, <3>2, <3>3
  <2>2. ASSUME NEW u \in On(st), u \notin out PROVE u \in On(s2)
    <3>1. PICK i \in 1 .. Len(st) : u = st[i]
      BY <1>5
    <3>2. i \notin n .. Len(st)
      BY <1>4, <2>2, <3>1
    <3>3. i \in 1 .. n - 1
      BY <1>1, <3>2
    <3> QED
      BY <1>3, <3>1, <3>3
  <2>3. out \subseteq On(st)
    <3>1. \A i \in n .. Len(st) : i \in 1 .. Len(st)
      BY <1>1
    <3> QED
      BY <1>4, <1>5, <3>1
  <2> QED
    BY <2>1, <2>2, <2>3
<1>7. ASSUME NEW u \in On(st) PROVE u \in On(s2) <=> Place(st, u) < n
  <2>1. Place(st, u) \in 1 .. Len(st) /\ st[Place(st, u)] = u
    BY PlaceIn
  <2>2. Place(st, u) < n => u \in On(s2)
    BY <1>3, <2>1
  <2>3. ~(Place(st, u) < n) => u \in out
    BY <1>4, <2>1
  <2> QED
    BY <1>6, <2>2, <2>3
<1>8. ASSUME NEW u \in On(s2) PROVE Place(s2, u) = Place(st, u)
  <2>1. PICK i \in 1 .. n - 1 : u = st[i]
    BY <1>3
  <2>2. i \in 1 .. Len(st) /\ i \in 1 .. Len(s2) /\ s2[i] = u
    BY <1>1, <2>1
  <2>3. Place(st, u) = i
    BY <2>1, <2>2, PlaceIs
  <2>4. Place(s2, u) = i
    BY <1>1, <1>2, <2>2, PlaceIs
  <2> QED
    BY <2>3, <2>4
<1> QED
  BY <1>1, <1>2, <1>6, <1>7, <1>8 DEF s2

----------------------------------------------------------------------------
(* The steps keep the parts of the invariant.                              *)

\* What frames and tables hold.
LEMMA FrameFields ==
  ASSUME NEW fr \in FramesType, NEW k \in 1 .. Len(fr)
  PROVE  fr[k].v \in Node /\ fr[k].todo \in SUBSET Node
<1> DEFINE F == [v : Node, todo : SUBSET Node]
<1>1. fr[k] \in F
  <2>1. fr \in Seq(F)
    BY DEF FramesType
  <2> HIDE DEF F
  <2> QED
    BY <2>1, ElementOfSeq
<1> QED
  BY <1>1

\* The entries of the table have numbers as index and lowLink.
LEMMA TableFields ==
  ASSUME NEW T \in TableType, NEW v \in Node
  PROVE  /\ T[v].index \in Nat /\ T[v].lowLink \in Nat
         /\ T[v].onStack \in BOOLEAN /\ T[v].visited \in BOOLEAN
  BY DEF TableType

\* Where an active call lies.
LEMMA CallPlace ==
  ASSUME NEW st \in Seq(Node), NEW fr, CallsInOrder(st, fr), NEW k \in 1 .. Len(fr)
  PROVE  /\ fr[k].v \in On(st)
         /\ Place(st, fr[k].v) \in 1 .. Len(st) /\ st[Place(st, fr[k].v)] = fr[k].v
  BY PlaceIn DEF CallsInOrder

\* Every active call reaches the innermost one, whose index is the greatest.
LEMMA CallerFacts ==
  ASSUME NEW nb, NEW T \in TableType, NEW st \in Seq(Node), NEW fr \in FramesType,
         OnTheStack(nb, T, st, fr), NEW k \in 1 .. Len(fr)
  PROVE  LET u == fr[k].v  v == fr[Len(fr)].v
         IN  /\ Path(nb, u, v) /\ T[u].index <= T[v].index
             /\ Place(st, u) <= Place(st, v)
             /\ k # Len(fr) => T[u].index < T[v].index /\ Place(st, u) < Place(st, v)
<1> DEFINE u == fr[k].v  v == fr[Len(fr)].v
<1>1. Len(fr) \in Nat /\ Len(fr) \in 1 .. Len(fr) /\ k \in Nat /\ k <= Len(fr)
  BY DEF FramesType
<1>2. CallsInOrder(st, fr) /\ ReachesAbove(nb, st, fr) /\ IndexAbove(T, st, fr)
  BY DEF OnTheStack
<1>3. /\ u \in Node /\ v \in Node
      /\ Place(st, u) \in 1 .. Len(st) /\ st[Place(st, u)] = u
      /\ Place(st, v) \in 1 .. Len(st) /\ st[Place(st, v)] = v
  BY <1>1, <1>2, FrameFields, CallPlace
<1>4. T[u].index \in Nat /\ T[v].index \in Nat
  BY <1>3, TableFields
<1>5. k # Len(fr) => Place(st, u) < Place(st, v)
  BY <1>1, <1>2 DEF CallsInOrder
<1>6. Place(st, u) <= Place(st, v)
  BY <1>3, <1>5
<1>7. Path(nb, u, v)
  BY <1>2, <1>3, <1>6 DEF ReachesAbove
<1>8. k # Len(fr) => T[u].index < T[v].index
  BY <1>2, <1>3, <1>5 DEF IndexAbove
<1> QED
  BY <1>4, <1>5, <1>6, <1>7, <1>8

\* strongConnect is called on a vertex v that was not visited.
LEMMA EnterKeeps ==
  ASSUME NEW nb \in [Node -> SUBSET Node], NEW T \in TableType, NEW T2 \in TableType,
         NEW st \in Seq(Node), NEW fr \in FramesType, NEW fr2 \in FramesType, NEW C,
         SearchInv(nb, T, st, fr, C), NEW v \in Node, ~T[v].visited,
         \A u \in Node \ {v} : T2[u] = T[u],
         T2[v].onStack, T2[v].visited, T2[v].lowLink = T2[v].index,
         Len(fr2) = Len(fr) + 1,
         \A k \in 1 .. Len(fr) : /\ fr2[k].v = fr[k].v
                                  /\ fr[k].todo \subseteq fr2[k].todo \union {v}
                                  /\ fr2[k].todo \subseteq fr[k].todo,
         fr2[Len(fr) + 1].v = v, fr2[Len(fr) + 1].todo = nb[v],
         \A k \in 1 .. Len(fr) : Path(nb, fr[k].v, v) /\ T[fr[k].v].index < T2[v].index
  PROVE  SearchInv(nb, T2, Append(st, v), fr2, C)
<1> DEFINE s2 == Append(st, v)
<1>1. /\ Flags(T, st, C) /\ Distinct(st) /\ CallsInOrder(st, fr)
      /\ ReachesAbove(nb, st, fr) /\ ReachesCall(nb, st, fr)
      /\ LowLinks(nb, T, st, fr) /\ LowIsLow(T) /\ IndexAbove(T, st, fr)
      /\ Explored(nb, T, fr) /\ TodoLeft(nb, fr) /\ Within(nb, C) /\ Ordered(nb, C)
  BY DEF SearchInv, OnTheStack
<1>2. v \notin On(st) /\ v \notin All(C)
  BY <1>1 DEF Flags
<1>3. /\ s2 \in Seq(Node) /\ Len(s2) = Len(st) + 1 /\ Distinct(s2)
      /\ \A i \in 1 .. Len(st) : s2[i] = st[i]
      /\ s2[Len(st) + 1] = v
      /\ On(s2) = On(st) \union {v}
      /\ Place(s2, v) = Len(st) + 1
      /\ \A u \in On(st) : Place(s2, u) = Place(st, u)
  BY <1>1, <1>2, PushPlaces
<1> HIDE DEF s2
<1>4. Len(st) \in Nat /\ Len(fr) \in Nat
  BY DEF FramesType
<1>5. \A k \in 1 .. Len(fr) :
        /\ fr2[k].v = fr[k].v /\ fr[k].v \in On(st) /\ fr[k].v \in Node /\ fr[k].v # v
        /\ Place(s2, fr[k].v) = Place(st, fr[k].v) /\ Place(st, fr[k].v) \in 1 .. Len(st)
  <2> SUFFICES ASSUME NEW k \in 1 .. Len(fr)
               PROVE  /\ fr[k].v \in On(st) /\ fr[k].v \in Node /\ fr[k].v # v
                      /\ Place(s2, fr[k].v) = Place(st, fr[k].v)
                      /\ Place(st, fr[k].v) \in 1 .. Len(st)
    OBVIOUS
  <2>1. fr[k].v \in On(st) /\ fr[k].v \in Node /\ Place(st, fr[k].v) \in 1 .. Len(st)
    BY <1>1, CallPlace, FrameFields
  <2> QED
    BY <1>2, <1>3, <2>1
<1>6. \A i \in 1 .. Len(st) : s2[i] = st[i] /\ st[i] \in Node /\ st[i] # v
  BY <1>2, <1>3 DEF On
<1>7. /\ \A k \in 1 .. Len(fr2) : k \in 1 .. Len(fr) \/ k = Len(fr) + 1
      /\ \A i \in 1 .. Len(s2) : i \in 1 .. Len(st) \/ i = Len(st) + 1
      /\ \A k \in 1 .. Len(fr) : k \in 1 .. Len(fr2)
      /\ \A i \in 1 .. Len(st) : i \in 1 .. Len(s2)
      /\ Len(fr) + 1 \in 1 .. Len(fr2) /\ Len(st) + 1 \in 1 .. Len(s2)
  BY <1>3, <1>4
<1>8. Flags(T2, s2, C)
  BY <1>1, <1>2, <1>3 DEF Flags
<1>9. CallsInOrder(s2, fr2)
  <2>1. \A k \in 1 .. Len(fr2) : fr2[k].v \in On(s2)
    BY <1>3, <1>5, <1>7
  <2>2. ASSUME NEW j \in 1 .. Len(fr2), NEW k \in 1 .. Len(fr2), j < k
        PROVE  Place(s2, fr2[j].v) < Place(s2, fr2[k].v)
    <3>1. j \in 1 .. Len(fr)
      BY <1>4, <1>7, <2>2
    <3>2. CASE k \in 1 .. Len(fr)
      BY <1>1, <1>5, <2>2, <3>1, <3>2 DEF CallsInOrder
    <3>3. CASE k = Len(fr) + 1
      BY <1>3, <1>4, <1>5, <3>1, <3>3
    <3> QED
      BY <1>7, <3>2, <3>3
  <2> QED
    BY <2>1, <2>2 DEF CallsInOrder
<1>10. ReachesAbove(nb, s2, fr2)
  <2> SUFFICES ASSUME NEW k \in 1 .. Len(fr2), NEW i \in 1 .. Len(s2),
                      Place(s2, fr2[k].v) <= i
               PROVE  Path(nb, fr2[k].v, s2[i])
    BY DEF ReachesAbove
  <2>1. CASE k \in 1 .. Len(fr) /\ i \in 1 .. Len(st)
    BY <1>1, <1>5, <1>6, <2>1 DEF ReachesAbove
  <2>2. CASE k \in 1 .. Len(fr) /\ i = Len(st) + 1
    BY <1>3, <1>5, <2>2
  <2>3. CASE k = Len(fr) + 1
    BY <1>3, <1>4, <1>7, <2>3, PathRefl
  <2> QED
    BY <1>7, <2>1, <2>2, <2>3
<1>11. ReachesCall(nb, s2, fr2)
  <2> SUFFICES ASSUME NEW i \in 1 .. Len(s2)
               PROVE  \E k \in 1 .. Len(fr2) :
                        Place(s2, fr2[k].v) <= i /\ Path(nb, s2[i], fr2[k].v)
    BY DEF ReachesCall
  <2>1. CASE i \in 1 .. Len(st)
    <3>1. PICK k \in 1 .. Len(fr) : Place(st, fr[k].v) <= i /\ Path(nb, st[i], fr[k].v)
      BY <1>1, <2>1 DEF ReachesCall
    <3> QED
      BY <1>5, <1>6, <1>7, <2>1, <3>1
  <2>2. CASE i = Len(st) + 1
    BY <1>3, <1>4, <1>7, <2>2, PathRefl
  <2> QED
    BY <1>7, <2>1, <2>2
<1>12. LowLinks(nb, T2, s2, fr2)
  <2> SUFFICES ASSUME NEW k \in 1 .. Len(fr2)
               PROVE  \E i \in 1 .. Len(s2) :
                        Path(nb, fr2[k].v, s2[i]) /\ T2[fr2[k].v].lowLink = T2[s2[i]].index
    BY DEF LowLinks
  <2>1. CASE k \in 1 .. Len(fr)
    <3>1. PICK i \in 1 .. Len(st) : Path(nb, fr[k].v, st[i]) /\ T[fr[k].v].lowLink = T[st[i]].index
      BY <1>1, <2>1 DEF LowLinks
    <3>2. T2[fr[k].v] = T[fr[k].v] /\ T2[st[i]] = T[st[i]]
      BY <1>5, <1>6, <2>1
    <3>3. fr2[k].v = fr[k].v /\ s2[i] = st[i] /\ i \in 1 .. Len(s2)
      BY <1>5, <1>6, <1>7, <2>1
    <3>4. T2[fr2[k].v].lowLink = T2[s2[i]].index /\ Path(nb, fr2[k].v, s2[i])
      BY <3>1, <3>2, <3>3
    <3> QED
      BY <3>3, <3>4
  <2>2. CASE k = Len(fr) + 1
    BY <1>3, <1>7, <2>2, PathRefl
  <2> QED
    BY <1>7, <2>1, <2>2
<1>13. LowIsLow(T2)
  <2> SUFFICES ASSUME NEW u \in Node PROVE T2[u].lowLink <= T2[u].index
    BY DEF LowIsLow
  <2>1. T2[u].lowLink \in Nat /\ T2[u].index \in Nat
    BY TableFields
  <2>2. CASE u = v
    BY <2>1, <2>2
  <2>3. CASE u # v
    BY <1>1, <2>3 DEF LowIsLow
  <2> QED
    BY <2>2, <2>3
<1>14. IndexAbove(T2, s2, fr2)
  <2> SUFFICES ASSUME NEW k \in 1 .. Len(fr2), NEW i \in 1 .. Len(s2),
                      Place(s2, fr2[k].v) < i
               PROVE  T2[fr2[k].v].index < T2[s2[i]].index
    BY DEF IndexAbove
  <2>1. k \in 1 .. Len(fr)
    BY <1>3, <1>4, <1>7
  <2>2. T2[fr[k].v] = T[fr[k].v] /\ fr2[k].v = fr[k].v
    BY <1>5, <2>1
  <2>3. CASE i \in 1 .. Len(st)
    <3>1. T2[st[i]] = T[st[i]] /\ s2[i] = st[i]
      BY <1>6, <2>3
    <3> QED
      BY <1>1, <1>5, <2>1, <2>2, <2>3, <3>1 DEF IndexAbove
  <2>4. CASE i = Len(st) + 1
    BY <1>3, <2>1, <2>2, <2>4
  <2> QED
    BY <1>7, <2>3, <2>4
<1>15. Explored(nb, T2, fr2)
  <2> SUFFICES ASSUME NEW x \in Node, T2[x].visited, NEW w \in nb[x], ~T2[w].visited
               PROVE  \E k \in 1 .. Len(fr2) : fr2[k].v = x /\ w \in fr2[k].todo
    BY DEF Explored
  <2>1. w \in Node /\ w # v /\ ~T[w].visited
    <3>1. w \in Node
      OBVIOUS
    <3>2. w # v
      OBVIOUS
    <3> QED
      BY <3>1, <3>2
  <2>2. CASE x = v
    BY <1>7, <2>2
  <2>3. CASE x # v
    <3>1. PICK k \in 1 .. Len(fr) : fr[k].v = x /\ w \in fr[k].todo
      BY <1>1, <2>1, <2>3 DEF Explored
    <3> QED
      BY <1>5, <1>7, <2>1, <3>1
  <2> QED
    BY <2>2, <2>3
<1>16. TodoLeft(nb, fr2)
  <2> SUFFICES ASSUME NEW k \in 1 .. Len(fr2) PROVE fr2[k].todo \subseteq nb[fr2[k].v]
    BY DEF TodoLeft
  <2>1. CASE k \in 1 .. Len(fr)
    BY <1>1, <1>5, <2>1 DEF TodoLeft
  <2>2. CASE k = Len(fr) + 1
    BY <2>2
  <2> QED
    BY <1>7, <2>1, <2>2
<1> QED
  BY <1>1, <1>3, <1>8, <1>9, <1>10, <1>11, <1>12, <1>13, <1>14, <1>15, <1>16
  DEF SearchInv, OnTheStack, s2

\* Indices stay, and the lowLink of u may become the index of a vertex on the
\* stack that u reaches.
Lowered(nb, T, T2, st, u) ==
  /\ \A x \in Node : T2[x].index = T[x].index
  /\ \A x \in Node \ {u} : T2[x].lowLink = T[x].lowLink
  /\ \/ T2[u].lowLink = T[u].lowLink
     \/ /\ T2[u].lowLink <= T[u].index
        /\ \E i \in 1 .. Len(st) : Path(nb, u, st[i]) /\ T2[u].lowLink = T[st[i]].index

\* Calls may end while a lowLink is lowered.
LEMMA LowerKeeps ==
  ASSUME NEW nb, NEW T \in TableType, NEW T2 \in TableType,
         NEW st \in Seq(Node), NEW fr \in FramesType, NEW fr2 \in FramesType,
         CallsInOrder(st, fr), LowLinks(nb, T, st, fr), LowIsLow(T), IndexAbove(T, st, fr),
         Len(fr2) <= Len(fr), \A k \in 1 .. Len(fr2) : fr2[k].v = fr[k].v,
         NEW u \in Node, Lowered(nb, T, T2, st, u)
  PROVE  LowLinks(nb, T2, st, fr2) /\ LowIsLow(T2) /\ IndexAbove(T2, st, fr2)
<1>1. \A k \in 1 .. Len(fr2) : k \in 1 .. Len(fr) /\ fr2[k].v = fr[k].v /\ fr[k].v \in Node
  <2>1. Len(fr) \in Nat /\ Len(fr2) \in Nat
    BY DEF FramesType
  <2> QED
    BY <2>1, FrameFields
<1>2. \A i \in 1 .. Len(st) : st[i] \in Node
  OBVIOUS
<1>0. /\ \A x \in Node : T2[x].index = T[x].index
      /\ \A x \in Node \ {u} : T2[x].lowLink = T[x].lowLink
      /\ \/ T2[u].lowLink = T[u].lowLink
         \/ /\ T2[u].lowLink <= T[u].index
            /\ \E i \in 1 .. Len(st) : Path(nb, u, st[i]) /\ T2[u].lowLink = T[st[i]].index
  BY DEF Lowered
<1>3. LowLinks(nb, T2, st, fr2)
  <2> SUFFICES ASSUME NEW k \in 1 .. Len(fr2)
               PROVE  \E i \in 1 .. Len(st) :
                        Path(nb, fr2[k].v, st[i]) /\ T2[fr2[k].v].lowLink = T2[st[i]].index
    BY DEF LowLinks
  <2>1. CASE T2[fr[k].v].lowLink = T[fr[k].v].lowLink
    BY <1>0, <1>1, <1>2, <2>1 DEF LowLinks
  <2>2. CASE T2[fr[k].v].lowLink # T[fr[k].v].lowLink
    BY <1>0, <1>1, <1>2, <2>2
  <2> QED
    BY <2>1, <2>2
<1>4. LowIsLow(T2)
  BY <1>0 DEF LowIsLow
<1>5. IndexAbove(T2, st, fr2)
  BY <1>0, <1>1, <1>2 DEF IndexAbove
<1> QED
  BY <1>3, <1>4, <1>5

\* A step that leaves the calls, the stack and the components as they are, and
\* looks at the visited neighbour w.
LEMMA MeetKeeps ==
  ASSUME NEW nb \in [Node -> SUBSET Node], NEW T \in TableType, NEW T2 \in TableType,
         NEW st \in Seq(Node), NEW fr \in FramesType, NEW fr2 \in FramesType, NEW C,
         SearchInv(nb, T, st, fr, C),
         Len(fr2) = Len(fr), NEW w \in Node, T[w].visited,
         \A k \in 1 .. Len(fr) : /\ fr2[k].v = fr[k].v
                                  /\ fr[k].todo \subseteq fr2[k].todo \union {w}
                                  /\ fr2[k].todo \subseteq fr[k].todo,
         \A x \in Node : T2[x].onStack = T[x].onStack /\ T2[x].visited = T[x].visited,
         NEW u \in Node, Lowered(nb, T, T2, st, u)
  PROVE  SearchInv(nb, T2, st, fr2, C)
<1>1. /\ Flags(T, st, C) /\ Distinct(st) /\ CallsInOrder(st, fr)
      /\ ReachesAbove(nb, st, fr) /\ ReachesCall(nb, st, fr)
      /\ LowLinks(nb, T, st, fr) /\ LowIsLow(T) /\ IndexAbove(T, st, fr)
      /\ Explored(nb, T, fr) /\ TodoLeft(nb, fr) /\ Within(nb, C) /\ Ordered(nb, C)
  BY DEF SearchInv, OnTheStack
<1>2. Len(fr2) \in Nat /\ Len(fr2) <= Len(fr)
  BY DEF FramesType
<1>3. LowLinks(nb, T2, st, fr2) /\ LowIsLow(T2) /\ IndexAbove(T2, st, fr2)
  <2>1. \A k \in 1 .. Len(fr2) : fr2[k].v = fr[k].v
    OBVIOUS
  <2> QED
    BY <1>1, <1>2, <2>1, LowerKeeps
<1>4. CallsInOrder(st, fr2)
  BY <1>1 DEF CallsInOrder
<1>5. ReachesAbove(nb, st, fr2)
  BY <1>1 DEF ReachesAbove
<1>6. ReachesCall(nb, st, fr2)
  BY <1>1 DEF ReachesCall
<1>7. Flags(T2, st, C)
  BY <1>1 DEF Flags
<1>8. Explored(nb, T2, fr2)
  <2> SUFFICES ASSUME NEW x \in Node, T2[x].visited, NEW y \in nb[x], ~T2[y].visited
               PROVE  \E k \in 1 .. Len(fr2) : fr2[k].v = x /\ y \in fr2[k].todo
    BY DEF Explored
  <2>1. y \in Node
    OBVIOUS
  <2>2. T[x].visited /\ ~T[y].visited /\ y # w
    BY <2>1
  <2>3. PICK k \in 1 .. Len(fr) : fr[k].v = x /\ y \in fr[k].todo
    BY <1>1, <2>2 DEF Explored
  <2>4. fr2[k].v = x /\ y \in fr2[k].todo
    BY <2>2, <2>3
  <2> QED
    BY <2>4
<1>9. TodoLeft(nb, fr2)
  BY <1>1 DEF TodoLeft
<1> QED
  BY <1>1, <1>3, <1>4, <1>5, <1>6, <1>7, <1>8, <1>9 DEF SearchInv, OnTheStack

\* A call whose lowLink is below its index reaches an active call below it.
LEMMA InnerReaches ==
  ASSUME NEW nb, NEW T \in TableType, NEW st \in Seq(Node), NEW fr \in FramesType,
         OnTheStack(nb, T, st, fr), NEW n, n = Len(fr), n \in 1 .. n,
         T[fr[n].v].index # T[fr[n].v].lowLink
  PROVE  \E k \in 1 .. n - 1 :
           Place(st, fr[k].v) < Place(st, fr[n].v) /\ Path(nb, fr[n].v, fr[k].v)
<1> DEFINE v == fr[n].v
<1>1. /\ Distinct(st) /\ CallsInOrder(st, fr) /\ ReachesCall(nb, st, fr)
      /\ LowLinks(nb, T, st, fr) /\ LowIsLow(T) /\ IndexAbove(T, st, fr)
  BY DEF OnTheStack
<1>2. /\ n \in Nat /\ n \in 1 .. Len(fr) /\ v \in Node
      /\ Place(st, v) \in 1 .. Len(st) /\ st[Place(st, v)] = v
  BY <1>1, CallPlace, FrameFields
<1>3. PICK i \in 1 .. Len(st) : Path(nb, v, st[i]) /\ T[v].lowLink = T[st[i]].index
  BY <1>1, <1>2 DEF LowLinks
<1>4. T[v].lowLink < T[v].index
  <2>1. T[v].lowLink \in Nat /\ T[v].index \in Nat
    BY <1>2, TableFields
  <2>2. T[v].lowLink <= T[v].index
    BY <1>1, <1>2 DEF LowIsLow
  <2> QED
    BY <2>1, <2>2
<1>5. i < Place(st, v)
  <2>1. i # Place(st, v)
    BY <1>2, <1>3
  <2>2. ~(Place(st, v) < i)
    <3>1. ASSUME Place(st, v) < i PROVE T[v].index < T[st[i]].index
      BY <1>1, <1>2, <3>1 DEF IndexAbove
    <3>2. T[st[i]].index \in Nat /\ T[v].index \in Nat
      <4>1. st[i] \in Node
        OBVIOUS
      <4> QED
        BY <1>2, <4>1, TableFields
    <3> QED
      BY <1>3, <1>4, <3>1, <3>2
  <2> QED
    BY <1>2, <2>1, <2>2
<1>6. PICK k \in 1 .. Len(fr) : Place(st, fr[k].v) <= i /\ Path(nb, st[i], fr[k].v)
  BY <1>1 DEF ReachesCall
<1>7. Place(st, fr[k].v) \in 1 .. Len(st)
  BY <1>1, CallPlace
<1>8. Place(st, fr[k].v) < Place(st, v)
  BY <1>2, <1>5, <1>6, <1>7
<1>9. k # n
  BY <1>2, <1>8
<1>10. k \in 1 .. n - 1
  BY <1>2, <1>9
<1> QED
  BY <1>3, <1>6, <1>8, <1>10, PathTrans

\* The innermost call returns and its vertex stays on the stack.
LEMMA LeaveInnerKeeps ==
  ASSUME NEW nb \in [Node -> SUBSET Node], NEW T \in TableType, NEW T2 \in TableType,
         NEW st \in Seq(Node), NEW fr \in FramesType, NEW fr2 \in FramesType, NEW C,
         SearchInv(nb, T, st, fr, C), NEW n, n = Len(fr), n \in 1 .. n,
         Len(fr2) = n - 1, \A k \in 1 .. n - 1 : fr2[k] = fr[k],
         fr[n].todo = {}, T[fr[n].v].index # T[fr[n].v].lowLink,
         \A x \in Node : T2[x].onStack = T[x].onStack /\ T2[x].visited = T[x].visited,
         NEW u \in Node, Lowered(nb, T, T2, st, u)
  PROVE  SearchInv(nb, T2, st, fr2, C)
<1> DEFINE v == fr[n].v
<1>1. /\ Flags(T, st, C) /\ Distinct(st) /\ CallsInOrder(st, fr)
      /\ ReachesAbove(nb, st, fr) /\ ReachesCall(nb, st, fr)
      /\ LowLinks(nb, T, st, fr) /\ LowIsLow(T) /\ IndexAbove(T, st, fr)
      /\ Explored(nb, T, fr) /\ TodoLeft(nb, fr) /\ Within(nb, C) /\ Ordered(nb, C) /\ OnTheStack(nb, T, st, fr)
  BY DEF SearchInv, OnTheStack
<1>2. /\ n \in Nat /\ n \in 1 .. Len(fr) /\ v \in Node /\ v \in On(st)
      /\ Place(st, v) \in 1 .. Len(st) /\ st[Place(st, v)] = v
  BY <1>1, CallPlace, FrameFields
<1>3. /\ Len(fr2) \in Nat /\ Len(fr2) <= Len(fr)
      /\ \A k \in 1 .. Len(fr2) : k \in 1 .. Len(fr) /\ fr2[k] = fr[k]
      /\ \A k \in 1 .. Len(fr) : k = n \/ k \in 1 .. Len(fr2)
  BY <1>2
<1>4. LowLinks(nb, T2, st, fr2) /\ LowIsLow(T2) /\ IndexAbove(T2, st, fr2)
  <2>1. \A k \in 1 .. Len(fr2) : fr2[k].v = fr[k].v
    BY <1>3
  <2> QED
    BY <1>1, <1>3, <2>1, LowerKeeps
<1>5. CallsInOrder(st, fr2)
  BY <1>1, <1>3 DEF CallsInOrder
<1>6. ReachesAbove(nb, st, fr2)
  BY <1>1, <1>3 DEF ReachesAbove
<1>7. Flags(T2, st, C)
  BY <1>1 DEF Flags
<1>8. Explored(nb, T2, fr2)
  <2> SUFFICES ASSUME NEW x \in Node, T2[x].visited, NEW y \in nb[x], ~T2[y].visited
               PROVE  \E k \in 1 .. Len(fr2) : fr2[k].v = x /\ y \in fr2[k].todo
    BY DEF Explored
  <2>1. y \in Node
    OBVIOUS
  <2>2. T[x].visited /\ ~T[y].visited
    BY <2>1
  <2>3. PICK k \in 1 .. Len(fr) : fr[k].v = x /\ y \in fr[k].todo
    BY <1>1, <2>2 DEF Explored
  <2>4. k \in 1 .. Len(fr2) /\ fr2[k] = fr[k]
    BY <1>3, <2>3
  <2> QED
    BY <2>3, <2>4
<1>9. ReachesCall(nb, st, fr2)
  <2> SUFFICES ASSUME NEW i \in 1 .. Len(st)
               PROVE  \E k \in 1 .. Len(fr2) :
                        Place(st, fr2[k].v) <= i /\ Path(nb, st[i], fr2[k].v)
    BY DEF ReachesCall
  <2>1. PICK k \in 1 .. Len(fr) : Place(st, fr[k].v) <= i /\ Path(nb, st[i], fr[k].v)
    BY <1>1 DEF ReachesCall
  <2>2. CASE k \in 1 .. Len(fr2)
    BY <1>3, <2>1, <2>2
  <2>3. CASE k = n
    <3>1. PICK j \in 1 .. n - 1 : Place(st, fr[j].v) < Place(st, v) /\ Path(nb, v, fr[j].v)
      BY <1>1, InnerReaches
    <3>2. j \in 1 .. Len(fr2) /\ fr2[j] = fr[j] /\ j \in 1 .. Len(fr)
      BY <1>3, <3>1
    <3>3. Place(st, fr[j].v) \in 1 .. Len(st)
      BY <1>1, <3>2, CallPlace
    <3>4. Place(st, fr[j].v) <= i
      BY <1>2, <2>1, <2>3, <3>1, <3>3
    <3>5. Path(nb, st[i], fr[j].v)
      BY <2>1, <2>3, <3>1, PathTrans
    <3> QED
      BY <3>2, <3>4, <3>5
  <2> QED
    BY <1>3, <2>2, <2>3
<1>10. TodoLeft(nb, fr2)
  BY <1>1, <1>3 DEF TodoLeft
<1> QED
  BY <1>1, <1>4, <1>5, <1>6, <1>7, <1>8, <1>9, <1>10 DEF SearchInv, OnTheStack

\* Appending a component.
LEMMA AppendComponent ==
  ASSUME NEW C \in Seq(SUBSET Node), NEW out \in SUBSET Node
  PROVE  LET C2 == Append(C, out)
         IN  /\ C2 \in Seq(SUBSET Node) /\ Len(C2) = Len(C) + 1 /\ Len(C) \in Nat
             /\ \A i \in 1 .. Len(C) : C2[i] = C[i]
             /\ C2[Len(C) + 1] = out
             /\ All(C2) = All(C) \union out
             /\ \A i \in 1 .. Len(C) :
                  UNION {C2[j] : j \in 1 .. i} = UNION {C[j] : j \in 1 .. i}
             /\ UNION {C2[j] : j \in 1 .. Len(C) + 1} = All(C) \union out
<1> DEFINE C2 == Append(C, out)
<1>1. /\ C2 \in Seq(SUBSET Node) /\ Len(C2) = Len(C) + 1 /\ Len(C) \in Nat
      /\ \A i \in 1 .. Len(C) : C2[i] = C[i]
      /\ C2[Len(C) + 1] = out
  <2> DEFINE N == SUBSET Node
  <2>1. C \in Seq(N) /\ out \in N
    OBVIOUS
  <2> HIDE DEF N
  <2>2. /\ C2 \in Seq(N) /\ Len(C2) = Len(C) + 1 /\ Len(C) \in Nat
        /\ \A i \in 1 .. Len(C) : C2[i] = C[i]
        /\ C2[Len(C) + 1] = out
    BY <2>1
  <2> QED
    BY <2>2 DEF N
<1> HIDE DEF C2
<1>2. UNION {C2[j] : j \in 1 .. Len(C) + 1} = All(C) \union out
  <2>1. ASSUME NEW x, x \in UNION {C2[j] : j \in 1 .. Len(C) + 1} PROVE x \in All(C) \union out
    <3>1. PICK j \in 1 .. Len(C) + 1 : x \in C2[j]
      BY <2>1
    <3>2. j \in 1 .. Len(C) \/ j = Len(C) + 1
      BY <1>1
    <3> QED
      BY <1>1, <3>1, <3>2 DEF All
  <2>2. ASSUME NEW x, x \in All(C) PROVE x \in UNION {C2[j] : j \in 1 .. Len(C) + 1}
    <3>1. PICK j \in 1 .. Len(C) : x \in C[j]
      BY <2>2 DEF All
    <3>2. j \in 1 .. Len(C) + 1 /\ x \in C2[j]
      BY <1>1, <3>1
    <3> QED
      BY <3>2
  <2>3. ASSUME NEW x, x \in out PROVE x \in UNION {C2[j] : j \in 1 .. Len(C) + 1}
    <3>1. Len(C) + 1 \in 1 .. Len(C) + 1 /\ x \in C2[Len(C) + 1]
      BY <1>1, <2>3
    <3> QED
      BY <3>1
  <2> QED
    BY <2>1, <2>2, <2>3
<1>3. All(C2) = All(C) \union out
  BY <1>1, <1>2 DEF All
<1>4. ASSUME NEW i \in 1 .. Len(C)
      PROVE  UNION {C2[j] : j \in 1 .. i} = UNION {C[j] : j \in 1 .. i}
  <2>1. \A j \in 1 .. i : C2[j] = C[j]
    BY <1>1
  <2> QED
    BY <2>1
<1> QED
  BY <1>1, <1>2, <1>3, <1>4 DEF C2

\* The innermost call and what lies above it on the stack reach each other.
LEMMA RootReaches ==
  ASSUME NEW nb, NEW T \in TableType, NEW st \in Seq(Node), NEW fr \in FramesType,
         OnTheStack(nb, T, st, fr), NEW n, n = Len(fr), n \in 1 .. n,
         NEW i \in Place(st, fr[n].v) .. Len(st)
  PROVE  Path(nb, fr[n].v, st[i]) /\ Path(nb, st[i], fr[n].v)
<1>1. CallsInOrder(st, fr) /\ ReachesAbove(nb, st, fr) /\ ReachesCall(nb, st, fr)
  BY DEF OnTheStack
<1>2. n \in 1 .. Len(fr) /\ Place(st, fr[n].v) \in 1 .. Len(st)
  BY <1>1, CallPlace
<1>3. i \in 1 .. Len(st) /\ Place(st, fr[n].v) <= i
  BY <1>2
<1>4. PICK k \in 1 .. Len(fr) : Path(nb, st[i], fr[k].v)
  BY <1>1, <1>3 DEF ReachesCall
<1>5. Path(nb, fr[k].v, fr[n].v)
  BY CallerFacts
<1>6. Path(nb, fr[n].v, st[i])
  BY <1>1, <1>2, <1>3 DEF ReachesAbove
<1> QED
  BY <1>4, <1>5, <1>6, PathTrans

\* The innermost call returns as the root of a component.
LEMMA LeaveRootKeeps ==
  ASSUME NEW nb \in [Node -> SUBSET Node], NEW T \in TableType, NEW T2 \in TableType,
         NEW st \in Seq(Node), NEW fr \in FramesType, NEW fr2 \in FramesType,
         NEW C \in Seq(SUBSET Node),
         SearchInv(nb, T, st, fr, C), NEW n, n = Len(fr), n \in 1 .. n,
         Len(fr2) = n - 1, \A k \in 1 .. n - 1 : fr2[k] = fr[k],
         fr[n].todo = {}, NEW m, m = Place(st, fr[n].v),
         NEW out, out = {st[i] : i \in m .. Len(st)},
         \A x \in Node : /\ T2[x].index = T[x].index /\ T2[x].lowLink = T[x].lowLink
                         /\ T2[x].visited = T[x].visited
                         /\ T2[x].onStack <=> T[x].onStack /\ x \notin out
  PROVE  SearchInv(nb, T2, SubSeq(st, 1, m - 1), fr2, Append(C, out))
<1> DEFINE v == fr[n].v  s2 == SubSeq(st, 1, m - 1)  C2 == Append(C, out)
<1>1. /\ Flags(T, st, C) /\ Distinct(st) /\ CallsInOrder(st, fr)
      /\ ReachesAbove(nb, st, fr) /\ ReachesCall(nb, st, fr)
      /\ LowLinks(nb, T, st, fr) /\ LowIsLow(T) /\ IndexAbove(T, st, fr)
      /\ Explored(nb, T, fr) /\ TodoLeft(nb, fr) /\ Within(nb, C) /\ Ordered(nb, C) /\ OnTheStack(nb, T, st, fr)
  BY DEF SearchInv, OnTheStack
<1>2. /\ n \in Nat /\ n \in 1 .. Len(fr) /\ v \in Node /\ v \in On(st)
      /\ m \in 1 .. Len(st) /\ st[m] = v /\ Len(st) \in Nat
  BY <1>1, CallPlace, FrameFields
<1>3. /\ s2 \in Seq(Node) /\ Len(s2) = m - 1 /\ Distinct(s2)
      /\ \A i \in 1 .. m - 1 : s2[i] = st[i]
      /\ On(s2) = On(st) \ out /\ out \subseteq On(st)
      /\ \A u \in On(st) : u \in On(s2) <=> Place(st, u) < m
      /\ \A u \in On(s2) : Place(s2, u) = Place(st, u)
  <2>1. st \in Seq(Node) /\ Distinct(st) /\ m \in 1 .. Len(st)
    BY <1>1, <1>2
  <2>2. out = {st[i] : i \in m .. Len(st)}
    OBVIOUS
  <2> QED
    BY ONLY <2>1, <2>2, PopPlaces DEF s2
<1>4. out \in SUBSET Node
  <2>1. \A i \in 1 .. Len(st) : st[i] \in Node
    OBVIOUS
  <2>2. \A i \in m .. Len(st) : i \in 1 .. Len(st)
    BY <1>2
  <2> QED
    BY <2>1, <2>2
<1>5. /\ Len(C2) = Len(C) + 1 /\ Len(C) \in Nat
      /\ \A i \in 1 .. Len(C) : C2[i] = C[i]
      /\ C2[Len(C) + 1] = out
      /\ All(C2) = All(C) \union out
      /\ \A i \in 1 .. Len(C) : UNION {C2[j] : j \in 1 .. i} = UNION {C[j] : j \in 1 .. i}
      /\ UNION {C2[j] : j \in 1 .. Len(C) + 1} = All(C) \union out
  <2> HIDE DEF s2
  <2>1. C \in Seq(SUBSET Node)
    OBVIOUS
  <2> QED
    BY ONLY <1>4, <2>1, AppendComponent, Zenon DEF C2
<1> HIDE DEF s2, C2
<1>6. /\ \A k \in 1 .. Len(fr2) : k \in 1 .. Len(fr) /\ fr2[k] = fr[k] /\ k # n
      /\ \A k \in 1 .. Len(fr) : k = n \/ k \in 1 .. Len(fr2)
      /\ Len(fr2) \in Nat
  <2>1. n \in Nat /\ n = Len(fr) /\ Len(fr2) = n - 1
    BY <1>2
  <2>2. \A k \in 1 .. Len(fr2) : k \in 1 .. Len(fr) /\ k # n /\ k \in 1 .. n - 1
    BY <2>1
  <2>3. \A k \in 1 .. Len(fr) : k = n \/ k \in 1 .. Len(fr2)
    BY <2>1
  <2>4. \A k \in 1 .. Len(fr2) : fr2[k] = fr[k]
    BY <2>2
  <2>5. Len(fr2) \in Nat
    BY <2>1
  <2> QED
    BY <2>2, <2>3, <2>4, <2>5, Zenon
<1>7. \A k \in 1 .. Len(fr2) :
        /\ fr2[k].v \in Node /\ fr2[k].v \in On(st) /\ fr2[k].v \in On(s2)
        /\ Place(s2, fr2[k].v) = Place(st, fr2[k].v) /\ Place(st, fr2[k].v) < m
        /\ T[fr2[k].v].index < T[v].index
  <2> SUFFICES ASSUME NEW k \in 1 .. Len(fr2)
               PROVE  /\ fr[k].v \in Node /\ fr[k].v \in On(st) /\ fr[k].v \in On(s2)
                      /\ Place(s2, fr[k].v) = Place(st, fr[k].v) /\ Place(st, fr[k].v) < m
                      /\ T[fr[k].v].index < T[v].index
    BY <1>6
  <2>1. k \in 1 .. Len(fr) /\ k # Len(fr)
    BY <1>6
  <2>2. fr[k].v \in Node /\ fr[k].v \in On(st)
    BY <1>1, <2>1, CallPlace, FrameFields
  <2>3. Place(st, fr[k].v) < m /\ T[fr[k].v].index < T[v].index
    BY <1>1, <2>1, CallerFacts
  <2> QED
    BY <1>3, <2>2, <2>3
<1>8. \A i \in 1 .. Len(s2) : i \in 1 .. Len(st) /\ i < m /\ s2[i] = st[i] /\ s2[i] \in Node
  BY <1>2, <1>3
<1>9. Flags(T2, s2, C2)
  <2>1. ASSUME NEW x \in Node
        PROVE  /\ T2[x].onStack <=> x \in On(s2)
               /\ T2[x].visited <=> x \in On(s2) \/ x \in All(C2)
               /\ ~(x \in On(s2) /\ x \in All(C2))
    <3>1. /\ T[x].onStack <=> x \in On(st)
          /\ T[x].visited <=> x \in On(st) \/ x \in All(C)
          /\ ~(x \in On(st) /\ x \in All(C))
      BY <1>1 DEF Flags
    <3>2. T2[x].onStack <=> T[x].onStack /\ x \notin out
      OBVIOUS
    <3>3. T2[x].visited = T[x].visited
      OBVIOUS
    <3>4. x \in On(s2) <=> x \in On(st) /\ x \notin out
      BY <1>3
    <3>5. x \in All(C2) <=> x \in All(C) \/ x \in out
      BY <1>5
    <3>6. x \in out => x \in On(st)
      BY <1>3
    <3> QED
      BY <3>1, <3>2, <3>3, <3>4, <3>5, <3>6
  <2> QED
    BY <2>1 DEF Flags
<1>10. CallsInOrder(s2, fr2)
  <2>1. \A k \in 1 .. Len(fr2) : fr2[k].v \in On(s2)
    BY <1>7
  <2>2. ASSUME NEW j \in 1 .. Len(fr2), NEW k \in 1 .. Len(fr2), j < k
        PROVE  Place(s2, fr2[j].v) < Place(s2, fr2[k].v)
    <3>1. Place(st, fr[j].v) < Place(st, fr[k].v)
      BY <1>1, <1>6, <2>2 DEF CallsInOrder
    <3> QED
      BY <1>6, <1>7, <3>1
  <2> QED
    BY <2>1, <2>2 DEF CallsInOrder
<1>11. ReachesAbove(nb, s2, fr2)
  <2> SUFFICES ASSUME NEW k \in 1 .. Len(fr2), NEW i \in 1 .. Len(s2),
                      Place(s2, fr2[k].v) <= i
               PROVE  Path(nb, fr2[k].v, s2[i])
    BY DEF ReachesAbove
  <2>1. Place(st, fr[k].v) <= i
    BY <1>6, <1>7
  <2>2. Path(nb, fr[k].v, st[i])
    BY <1>1, <1>6, <1>8, <2>1 DEF ReachesAbove
  <2> QED
    BY <1>6, <1>8, <2>2
<1>12. ReachesCall(nb, s2, fr2)
  <2> SUFFICES ASSUME NEW i \in 1 .. Len(s2)
               PROVE  \E k \in 1 .. Len(fr2) :
                        Place(s2, fr2[k].v) <= i /\ Path(nb, s2[i], fr2[k].v)
    BY DEF ReachesCall
  <2>1. i \in 1 .. Len(st) /\ i < m /\ s2[i] = st[i]
    BY <1>8
  <2>2. PICK k \in 1 .. Len(fr) : Place(st, fr[k].v) <= i /\ Path(nb, st[i], fr[k].v)
    BY <1>1, <2>1 DEF ReachesCall
  <2>3. k # n
    BY <1>2, <2>1, <2>2
  <2>4. k \in 1 .. Len(fr2) /\ fr2[k] = fr[k]
    BY <1>6, <2>3
  <2>5. Place(s2, fr2[k].v) <= i
    BY <1>7, <2>2, <2>4
  <2> QED
    BY <2>1, <2>2, <2>4, <2>5
<1>13. LowLinks(nb, T2, s2, fr2)
  <2> SUFFICES ASSUME NEW k \in 1 .. Len(fr2)
               PROVE  \E i \in 1 .. Len(s2) :
                        Path(nb, fr2[k].v, s2[i]) /\ T2[fr2[k].v].lowLink = T2[s2[i]].index
    BY DEF LowLinks
  <2> DEFINE u == fr[k].v
  <2>1. fr2[k].v = u /\ k \in 1 .. Len(fr) /\ u \in Node /\ T[u].index < T[v].index
    BY <1>6, <1>7
  <2>2. PICK i \in 1 .. Len(st) : Path(nb, u, st[i]) /\ T[u].lowLink = T[st[i]].index
    BY <1>1, <2>1 DEF LowLinks
  <2>3. T[u].lowLink <= T[u].index
    BY <1>1, <2>1 DEF LowIsLow
  <2>4. st[i] \in Node
    OBVIOUS
  <2>5. T[u].lowLink \in Nat /\ T[u].index \in Nat /\ T[v].index \in Nat /\ T[st[i]].index \in Nat
    BY <1>2, <2>1, <2>4, TableFields
  <2>6. T[st[i]].index < T[v].index
    BY <2>1, <2>2, <2>3, <2>5
  <2>7. i # m
    BY <1>2, <2>5, <2>6
  <2>8. ~(m < i)
    <3>1. m < i => T[v].index < T[st[i]].index
      BY <1>1, <1>2 DEF IndexAbove
    <3> QED
      BY <2>5, <2>6, <3>1
  <2>9. i \in 1 .. Len(s2)
    BY <1>2, <1>3, <2>7, <2>8
  <2>10. s2[i] = st[i] /\ T2[u].lowLink = T[u].lowLink /\ T2[st[i]].index = T[st[i]].index
    BY <1>8, <2>1, <2>4, <2>9
  <2> HIDE DEF u
  <2> QED
    BY <2>1, <2>2, <2>9, <2>10
<1>14. LowIsLow(T2)
  BY <1>1 DEF LowIsLow
<1>15. IndexAbove(T2, s2, fr2)
  <2> SUFFICES ASSUME NEW k \in 1 .. Len(fr2), NEW i \in 1 .. Len(s2),
                      Place(s2, fr2[k].v) < i
               PROVE  T2[fr2[k].v].index < T2[s2[i]].index
    BY DEF IndexAbove
  <2>1. Place(st, fr[k].v) < i
    BY <1>6, <1>7
  <2>2. T[fr[k].v].index < T[st[i]].index
    BY <1>1, <1>6, <1>8, <2>1 DEF IndexAbove
  <2>3. fr2[k].v = fr[k].v /\ fr[k].v \in Node /\ s2[i] = st[i] /\ st[i] \in Node
    BY <1>6, <1>7, <1>8
  <2> QED
    BY <2>2, <2>3
<1>16. Explored(nb, T2, fr2)
  <2> SUFFICES ASSUME NEW x \in Node, T2[x].visited, NEW y \in nb[x], ~T2[y].visited
               PROVE  \E k \in 1 .. Len(fr2) : fr2[k].v = x /\ y \in fr2[k].todo
    BY DEF Explored
  <2>1. y \in Node
    OBVIOUS
  <2>2. T[x].visited /\ ~T[y].visited
    BY <2>1
  <2>3. PICK k \in 1 .. Len(fr) : fr[k].v = x /\ y \in fr[k].todo
    BY <1>1, <2>2 DEF Explored
  <2>4. k \in 1 .. Len(fr2) /\ fr2[k] = fr[k]
    BY <1>6, <2>3
  <2> QED
    BY <2>3, <2>4
<1>17. \A x \in out : Path(nb, v, x) /\ Path(nb, x, v)
  <2> SUFFICES ASSUME NEW i \in m .. Len(st)
               PROVE  Path(nb, v, st[i]) /\ Path(nb, st[i], v)
    OBVIOUS
  <2> QED
    BY <1>1, RootReaches
<1>18. \A i \in 1 .. Len(C2) : i \in 1 .. Len(C) \/ i = Len(C) + 1
  BY <1>5
<1>19. Within(nb, C2)
  <2> SUFFICES ASSUME NEW i \in 1 .. Len(C2), NEW x \in C2[i], NEW y \in C2[i]
               PROVE  Path(nb, x, y) /\ Path(nb, y, x)
    BY DEF Within
  <2>1. CASE i \in 1 .. Len(C)
    BY <1>1, <1>5, <2>1 DEF Within
  <2>2. CASE i = Len(C) + 1
    <3>1. x \in out /\ y \in out
      BY <1>5, <2>2
    <3> QED
      BY <1>17, <3>1, PathTrans
  <2> QED
    BY <1>18, <2>1, <2>2
<1>20. ASSUME NEW x \in out, NEW w \in nb[x]
       PROVE  w \in All(C) \union out \/ (Path(nb, x, w) /\ Path(nb, w, x))
  <2>1. x \in Node /\ w \in Node /\ x \in On(st)
    BY <1>3, <1>4
  <2>2. T[x].visited
    BY <1>1, <2>1 DEF Flags
  <2>3. T[w].visited
    <3> SUFFICES ASSUME ~T[w].visited PROVE FALSE
      OBVIOUS
    <3>1. PICK k \in 1 .. Len(fr) : fr[k].v = x /\ w \in fr[k].todo
      BY <1>1, <2>1, <2>2 DEF Explored
    <3>2. k \in 1 .. Len(fr2) /\ fr2[k] = fr[k]
      BY <1>6, <3>1
    <3>3. x \in On(s2)
      BY <1>7, <3>1, <3>2
    <3> QED
      BY <1>3, <3>3
  <2>4. w \in On(st) \/ w \in All(C)
    BY <1>1, <2>1, <2>3 DEF Flags
  <2>5. CASE w \in On(s2)
    <3>1. PICK i \in 1 .. Len(s2) : w = s2[i]
      BY <2>5 DEF On
    <3>2. PICK k \in 1 .. Len(fr) : Path(nb, st[i], fr[k].v)
      BY <1>1, <1>8 DEF ReachesCall
    <3>3. Path(nb, fr[k].v, v)
      BY <1>1, CallerFacts
    <3>4. Path(nb, w, v)
      BY <1>8, <3>1, <3>2, <3>3, PathTrans
    <3>5. Path(nb, w, x)
      BY <1>17, <3>4, PathTrans
    <3> QED
      BY <3>5, PathStep
  <2> QED
    BY <1>3, <2>4, <2>5
<1>21. Ordered(nb, C2)
  <2> SUFFICES ASSUME NEW i \in 1 .. Len(C2), NEW x \in C2[i], NEW w \in nb[x]
               PROVE  \/ w \in UNION {C2[j] : j \in 1 .. i}
                      \/ Path(nb, x, w) /\ Path(nb, w, x)
    BY DEF Ordered
  <2>1. CASE i \in 1 .. Len(C)
    <3>1. x \in C[i]
      BY <1>5, <2>1
    <3>2. w \in UNION {C[j] : j \in 1 .. i} \/ (Path(nb, x, w) /\ Path(nb, w, x))
      BY <1>1, <2>1, <3>1 DEF Ordered
    <3> QED
      BY <1>5, <2>1, <3>2
  <2>2. CASE i = Len(C) + 1
    BY <1>5, <1>20, <2>2
  <2> QED
    BY <1>18, <2>1, <2>2
<1>22. TodoLeft(nb, fr2)
  BY <1>1, <1>6 DEF TodoLeft
<1> QED
  BY <1>3, <1>9, <1>10, <1>11, <1>12, <1>13, <1>14, <1>15, <1>16, <1>19, <1>21, <1>22
  DEF SearchInv, OnTheStack, s2, C2

----------------------------------------------------------------------------
(* The steps of the specification keep the invariant.                      *)

\* A new frame, the entry of its vertex, and a frame that has looked at w.
NewFrame(v, todo) == [v |-> v, todo |-> todo]
NewEntry(T, v, ind) ==
  [T EXCEPT ![v] = [index |-> ind, lowLink |-> ind, onStack |-> TRUE, visited |-> TRUE]]
LookedAt(fr, n, w) == [fr EXCEPT ![n].todo = @ \ {w}]

\* Looking at a neighbour takes it off what the call has left and changes nothing else.
LEMMA LookedAtFacts ==
  ASSUME NEW fr \in FramesType, NEW n, n = Len(fr), n \in 1 .. n, NEW w \in Node
  PROVE  /\ LookedAt(fr, n, w) \in FramesType /\ Len(LookedAt(fr, n, w)) = Len(fr)
         /\ \A k \in 1 .. Len(fr) :
              /\ LookedAt(fr, n, w)[k].v = fr[k].v
              /\ fr[k].todo \subseteq LookedAt(fr, n, w)[k].todo \union {w}
              /\ LookedAt(fr, n, w)[k].todo \subseteq fr[k].todo
<1> DEFINE F == [v : Node, todo : SUBSET Node]
           g == [fr[n] EXCEPT !.todo = @ \ {w}]
           fr2 == LookedAt(fr, n, w)
<1>1. n \in Nat /\ n \in 1 .. Len(fr)
  BY DEF FramesType
<1>2. fr[n] \in F /\ fr[n].todo \in SUBSET Node
  <2>1. fr \in Seq(F)
    BY DEF FramesType
  <2>2. fr[n] \in F
    <3> HIDE DEF F
    <3> QED
      BY <1>1, <2>1, ElementOfSeq
  <2> QED
    BY <1>1, <2>2, FrameFields
<1>3. g \in F /\ g.v = fr[n].v /\ g.todo = fr[n].todo \ {w}
  BY <1>2
<1>4. fr2 = [fr EXCEPT ![n] = g]
  BY DEF LookedAt
<1> HIDE DEF g, fr2
<1>5. /\ fr2 \in Seq(F) /\ Len(fr2) = Len(fr)
      /\ \A k \in 1 .. Len(fr) : fr2[k] = IF k = n THEN g ELSE fr[k]
  <2>1. fr \in Seq(F) /\ g \in F
    BY <1>3 DEF FramesType
  <2> HIDE DEF F
  <2>2. /\ [fr EXCEPT ![n] = g] \in Seq(F) /\ Len([fr EXCEPT ![n] = g]) = Len(fr)
        /\ \A j \in 1 .. Len(fr) : [fr EXCEPT ![n] = g][j] = IF j = n THEN g ELSE fr[j]
    <3>1. n \in 1 .. Len(fr)
      BY <1>1
    <3>2. [fr EXCEPT ![n] = g] \in Seq(F)
      BY ONLY <2>1, <3>1, ExceptSeq
    <3>3. Len([fr EXCEPT ![n] = g]) = Len(fr)
      BY ONLY <2>1, <3>1, ExceptSeq
    <3>4. ASSUME NEW j \in 1 .. Len(fr)
          PROVE  [fr EXCEPT ![n] = g][j] = IF j = n THEN g ELSE fr[j]
      BY ONLY <2>1, <3>1, ExceptSeq
    <3> QED
      BY <3>2, <3>3, <3>4
  <2> QED
    BY ONLY <1>4, <2>2, Zenon
<1>6. ASSUME NEW k \in 1 .. Len(fr)
      PROVE  /\ fr2[k].v = fr[k].v /\ fr[k].todo \subseteq fr2[k].todo \union {w}
             /\ fr2[k].todo \subseteq fr[k].todo
  <2>1. CASE k = n
    BY <1>3, <1>5, <2>1
  <2>2. CASE k # n
    BY <1>5, <2>2
  <2> QED
    BY <2>1, <2>2
<1>7. fr2 \in FramesType
  BY <1>5 DEF FramesType
<1> QED
  BY <1>5, <1>6, <1>7 DEF fr2

\* The frame of a new call.
LEMMA CallFacts ==
  ASSUME NEW fr \in FramesType, NEW v \in Node, NEW todo \in SUBSET Node
  PROVE  LET fr2 == Append(fr, NewFrame(v, todo))
         IN  /\ fr2 \in FramesType /\ Len(fr2) = Len(fr) + 1 /\ Len(fr) \in Nat
             /\ \A k \in 1 .. Len(fr) : fr2[k] = fr[k]
             /\ fr2[Len(fr) + 1].v = v /\ fr2[Len(fr) + 1].todo = todo
<1> DEFINE F == [v : Node, todo : SUBSET Node]  g == NewFrame(v, todo)
           fr2 == Append(fr, g)
<1>1. g \in F /\ g.v = v /\ g.todo = todo
  BY DEF NewFrame
<1>2. fr \in Seq(F) /\ fr2 = Append(fr, g)
  BY DEF FramesType
<1> HIDE DEF g, fr2
<1>3. /\ fr2 \in Seq(F) /\ Len(fr2) = Len(fr) + 1 /\ Len(fr) \in Nat
      /\ \A k \in 1 .. Len(fr) : fr2[k] = fr[k]
      /\ fr2[Len(fr) + 1] = g
  <2>1. g \in F
    BY <1>1
  <2> HIDE DEF F
  <2> QED
    BY <1>2, <2>1
<1> QED
  BY <1>1, <1>3 DEF FramesType, fr2, g

\* The frames without the innermost.
\* Dropping what follows a place in a sequence.
LEMMA Shorter ==
  ASSUME NEW S, NEW s \in Seq(S), NEW n \in 1 .. Len(s)
  PROVE  /\ SubSeq(s, 1, n - 1) \in Seq(S) /\ Len(SubSeq(s, 1, n - 1)) = n - 1
         /\ \A k \in 1 .. n - 1 : SubSeq(s, 1, n - 1)[k] = s[k]
  OBVIOUS

\* A return drops the innermost call and keeps the others.
LEMMA ReturnFacts ==
  ASSUME NEW fr \in FramesType, Len(fr) \in 1 .. Len(fr)
  PROVE  /\ SubSeq(fr, 1, Len(fr) - 1) \in FramesType
         /\ Len(SubSeq(fr, 1, Len(fr) - 1)) = Len(fr) - 1
         /\ \A k \in 1 .. Len(fr) - 1 : SubSeq(fr, 1, Len(fr) - 1)[k] = fr[k]
<1> DEFINE F == [v : Node, todo : SUBSET Node]
<1>1. fr \in Seq(F)
  BY DEF FramesType
<1>2. /\ SubSeq(fr, 1, Len(fr) - 1) \in Seq(F)
      /\ Len(SubSeq(fr, 1, Len(fr) - 1)) = Len(fr) - 1
      /\ \A k \in 1 .. Len(fr) - 1 : SubSeq(fr, 1, Len(fr) - 1)[k] = fr[k]
  <2> HIDE DEF F
  <2>1. Len(fr) \in 1 .. Len(fr)
    OBVIOUS
  <2> QED
    BY ONLY <1>1, <2>1, Shorter
<1> QED
  BY <1>2 DEF FramesType

\* The table when a call starts, and when a lowLink is lowered.
LEMMA EnterTable ==
  ASSUME NEW T \in TableType, NEW v \in Node, NEW ind \in Nat
  PROVE  LET T2 == NewEntry(T, v, ind)
         IN  /\ T2 \in TableType /\ \A u \in Node \ {v} : T2[u] = T[u]
             /\ T2[v].index = ind /\ T2[v].lowLink = ind /\ T2[v].onStack /\ T2[v].visited
  BY DEF TableType, NewEntry

\* Lowering a lowLink changes one field of one entry.
LEMMA LowerTable ==
  ASSUME NEW T \in TableType, NEW v \in Node, NEW n \in Nat
  PROVE  /\ Lower(T, v, n) \in TableType
         /\ \A u \in Node \ {v} : Lower(T, v, n)[u] = T[u]
         /\ Lower(T, v, n)[v].index = T[v].index /\ Lower(T, v, n)[v].onStack = T[v].onStack
         /\ Lower(T, v, n)[v].visited = T[v].visited
         /\ Lower(T, v, n)[v].lowLink = (IF n < T[v].lowLink THEN n ELSE T[v].lowLink)
<1> DEFINE x == IF n < T[v].lowLink THEN n ELSE T[v].lowLink
           R == [index : Nat, lowLink : Nat, onStack : BOOLEAN, visited : BOOLEAN]
           r == [T[v] EXCEPT !.lowLink = x]
<1>1. T[v] \in R /\ x \in Nat
  BY DEF TableType
<1>2. /\ r \in R /\ r.index = T[v].index /\ r.onStack = T[v].onStack
      /\ r.visited = T[v].visited /\ r.lowLink = x
  BY <1>1
<1>3. Lower(T, v, n) = [T EXCEPT ![v] = r]
  BY DEF Lower
<1> HIDE DEF r
<1>4. T \in [Node -> R]
  BY DEF TableType
<1> HIDE DEF R
<1>5. /\ Lower(T, v, n) \in [Node -> R] /\ Lower(T, v, n)[v] = r
      /\ \A u \in Node \ {v} : Lower(T, v, n)[u] = T[u]
  BY <1>2, <1>3, <1>4
<1> QED
  BY <1>2, <1>5 DEF TableType, R

\* The types of the variables, named.
LEMMA Types ==
  TypeOK <=> /\ inNeighbors \in [Node -> SUBSET Node] /\ nodeIds \in SUBSET Node
             /\ iLLOS \in TableType /\ LowIsLow(iLLOS)
             /\ stack \in Seq(Node) /\ components \in Seq(SUBSET Node)
             /\ frames \in FramesType /\ index \in Nat
  BY DEF TypeOK, TableType, FramesType, LowIsLow

\* The same of the next state.
LEMMA TypesNext ==
  TypeOK' <=> /\ inNeighbors' \in [Node -> SUBSET Node] /\ nodeIds' \in SUBSET Node
              /\ iLLOS' \in TableType /\ LowIsLow(iLLOS')
              /\ stack' \in Seq(Node) /\ components' \in Seq(SUBSET Node)
              /\ frames' \in FramesType /\ index' \in Nat
  BY DEF TypeOK, TableType, FramesType, LowIsLow

\* The innermost call.
LEMMA CallerIn ==
  ASSUME frames \in FramesType, frames # <<>>
  PROVE  /\ Depth = Len(frames) /\ Depth \in Nat /\ Depth \in 1 .. Depth
         /\ Caller = frames[Depth] /\ Caller.v \in Node /\ Caller.todo \in SUBSET Node
<1>1. Len(frames) \in 1 .. Len(frames) /\ Len(frames) \in Nat
  BY DEF FramesType
<1> QED
  BY <1>1, FrameFields DEF Depth, Caller

\* The types hold and the parts of the invariant are at hand.
LEMMA Unfold ==
  ASSUME IInv
  PROVE  /\ inNeighbors \in [Node -> SUBSET Node] /\ nodeIds \in SUBSET Node
         /\ iLLOS \in TableType /\ stack \in Seq(Node) /\ components \in Seq(SUBSET Node)
         /\ frames \in FramesType /\ index \in Nat
         /\ SearchInv(inNeighbors, iLLOS, stack, frames, components)
         /\ OnTheStack(inNeighbors, iLLOS, stack, frames)
  BY Types DEF IInv, SearchInv

\* How the invariant of the next state is put together.
LEMMA Fold ==
  ASSUME inNeighbors' \in [Node -> SUBSET Node], nodeIds' \in SUBSET Node,
         iLLOS' \in TableType, stack' \in Seq(Node), components' \in Seq(SUBSET Node),
         frames' \in FramesType, index' \in Nat,
         SearchInv(inNeighbors', iLLOS', stack', frames', components')
  PROVE  IInv'
<1>1. LowIsLow(iLLOS')
  BY DEF SearchInv, OnTheStack
<1>2. TypeOK'
  BY <1>1, TypesNext
<1> QED
  BY <1>2 DEF IInv

\* The outer loop starts a search with the stack empty.
LEMMA ConnectRootStep ==
  ASSUME IInv, ConnectRoot
  PROVE  IInv'
<1> DEFINE left == {v \in nodeIds : ~iLLOS[v].visited}  v == First(left)
<1>1. /\ inNeighbors \in [Node -> SUBSET Node] /\ nodeIds \in SUBSET Node
      /\ iLLOS \in TableType /\ stack \in Seq(Node) /\ components \in Seq(SUBSET Node)
      /\ frames \in FramesType /\ index \in Nat
      /\ SearchInv(inNeighbors, iLLOS, stack, frames, components)
  BY Unfold
<1>2. /\ frames = <<>> /\ left # {} /\ Enter(v, index, <<>>)
      /\ inNeighbors' = inNeighbors /\ nodeIds' = nodeIds /\ index' = index
  BY DEF ConnectRoot
<1>3. v \in Node /\ ~iLLOS[v].visited
  <2>1. left \in SUBSET Node
    BY <1>1
  <2>2. v \in left
    BY <1>2, <2>1, FirstIn
  <2> QED
    BY <2>1, <2>2
<1> HIDE DEF v
<1>4. /\ iLLOS' = NewEntry(iLLOS, v, index)
      /\ stack' = Append(stack, v)
      /\ frames' = Append(frames, NewFrame(v, inNeighbors[v]))
      /\ components' = components
  BY <1>2 DEF Enter, Neighbors, NewEntry, NewFrame
<1>5. inNeighbors[v] \in SUBSET Node
  BY <1>1, <1>3
<1>6. /\ frames' \in FramesType /\ Len(frames') = Len(frames) + 1
      /\ \A k \in 1 .. Len(frames) : frames'[k] = frames[k]
      /\ frames'[Len(frames) + 1].v = v /\ frames'[Len(frames) + 1].todo = inNeighbors[v]
  BY <1>1, <1>3, <1>4, <1>5, CallFacts
<1>7. /\ iLLOS' \in TableType /\ \A u \in Node \ {v} : iLLOS'[u] = iLLOS[u]
      /\ iLLOS'[v].index = index /\ iLLOS'[v].lowLink = index
      /\ iLLOS'[v].onStack /\ iLLOS'[v].visited
  BY <1>1, <1>3, <1>4, EnterTable
<1>8. \A k \in 1 .. Len(frames) : FALSE
  BY <1>2
<1>9. SearchInv(inNeighbors, iLLOS', Append(stack, v), frames', components)
  <2>1. iLLOS'[v].lowLink = iLLOS'[v].index
    BY <1>7
  <2> QED
    BY <1>1, <1>3, <1>6, <1>7, <1>8, <2>1, EnterKeeps
<1>10. stack' \in Seq(Node)
  BY <1>1, <1>3, <1>4
<1> QED
  BY <1>1, <1>2, <1>4, <1>6, <1>7, <1>9, <1>10, Fold

\* A recursive call pushes a vertex that its caller reaches.
LEMMA DescendStep ==
  ASSUME IInv, Descend
  PROVE  IInv'
<1> DEFINE w == First(Caller.todo)  v == Caller.v  ind == iLLOS[v].index + 1  fr == Looped(w)
<1>1. /\ inNeighbors \in [Node -> SUBSET Node] /\ nodeIds \in SUBSET Node
      /\ iLLOS \in TableType /\ stack \in Seq(Node) /\ components \in Seq(SUBSET Node)
      /\ frames \in FramesType /\ index \in Nat
      /\ SearchInv(inNeighbors, iLLOS, stack, frames, components)
      /\ OnTheStack(inNeighbors, iLLOS, stack, frames)
  BY Unfold
<1>2. /\ frames # <<>> /\ Caller.todo # {} /\ ~iLLOS[w].visited /\ Enter(w, ind, fr)
      /\ inNeighbors' = inNeighbors /\ nodeIds' = nodeIds /\ index' = index
  BY DEF Descend
<1>3. /\ Depth = Len(frames) /\ Depth \in Nat /\ Depth \in 1 .. Depth
      /\ Caller = frames[Depth] /\ v \in Node /\ Caller.todo \in SUBSET Node
  BY <1>1, <1>2, CallerIn
<1>4. w \in Caller.todo /\ w \in Node
  BY <1>2, <1>3, FirstIn
<1>5. /\ fr \in FramesType /\ Len(fr) = Len(frames)
      /\ \A k \in 1 .. Len(frames) :
           /\ fr[k].v = frames[k].v /\ frames[k].todo \subseteq fr[k].todo \union {w}
           /\ fr[k].todo \subseteq frames[k].todo
  <2>1. fr = LookedAt(frames, Depth, w)
    BY DEF Looped, LookedAt
  <2> QED
    BY <1>1, <1>3, <1>4, <2>1, LookedAtFacts
<1>6. ind \in Nat /\ iLLOS[v].index < ind /\ iLLOS[v].index \in Nat
  BY <1>1, <1>3, TableFields
<1> HIDE DEF fr, w, ind
<1>7. /\ iLLOS' = NewEntry(iLLOS, w, ind)
      /\ stack' = Append(stack, w)
      /\ frames' = Append(fr, NewFrame(w, inNeighbors[w]))
      /\ components' = components
  BY <1>2 DEF Enter, Neighbors, NewEntry, NewFrame
<1>8. inNeighbors[w] \in SUBSET Node
  BY <1>1, <1>4
<1>9. /\ frames' \in FramesType /\ Len(frames') = Len(fr) + 1
      /\ \A k \in 1 .. Len(fr) : frames'[k] = fr[k]
      /\ frames'[Len(fr) + 1].v = w /\ frames'[Len(fr) + 1].todo = inNeighbors[w]
  BY <1>4, <1>5, <1>7, <1>8, CallFacts
<1>10. /\ iLLOS' \in TableType /\ \A u \in Node \ {w} : iLLOS'[u] = iLLOS[u]
       /\ iLLOS'[w].index = ind /\ iLLOS'[w].lowLink = ind
       /\ iLLOS'[w].onStack /\ iLLOS'[w].visited
  <2>1. iLLOS \in TableType /\ w \in Node /\ ind \in Nat
    BY <1>1, <1>4, <1>6
  <2>2. /\ NewEntry(iLLOS, w, ind) \in TableType
        /\ \A u \in Node \ {w} : NewEntry(iLLOS, w, ind)[u] = iLLOS[u]
        /\ NewEntry(iLLOS, w, ind)[w].index = ind /\ NewEntry(iLLOS, w, ind)[w].lowLink = ind
        /\ NewEntry(iLLOS, w, ind)[w].onStack /\ NewEntry(iLLOS, w, ind)[w].visited
    BY ONLY <2>1, EnterTable
  <2> QED
    BY ONLY <1>7, <2>2
<1>11. w \in inNeighbors[v]
  <2>1. Depth \in 1 .. Len(frames) /\ frames[Depth].v = v /\ w \in frames[Depth].todo
    BY <1>3, <1>4
  <2> QED
    BY <1>1, <2>1 DEF SearchInv, TodoLeft
<1>12. \A k \in 1 .. Len(frames) :
         Path(inNeighbors, frames[k].v, w) /\ iLLOS[frames[k].v].index < iLLOS'[w].index
  <2> SUFFICES ASSUME NEW k \in 1 .. Len(frames)
               PROVE  Path(inNeighbors, frames[k].v, w) /\ iLLOS[frames[k].v].index < ind
    BY <1>10
  <2>1. Path(inNeighbors, frames[k].v, v) /\ iLLOS[frames[k].v].index <= iLLOS[v].index
    BY <1>1, <1>3, CallerFacts
  <2>2. iLLOS[frames[k].v].index \in Nat
    BY <1>1, FrameFields, TableFields
  <2> QED
    BY <1>6, <1>11, <2>1, <2>2, PathStep, PathTrans
<1>13. SearchInv(inNeighbors, iLLOS', Append(stack, w), frames', components)
  <2>1. iLLOS'[w].lowLink = iLLOS'[w].index
    BY <1>10
  <2>2. \A k \in 1 .. Len(frames) :
          /\ frames'[k].v = frames[k].v /\ frames[k].todo \subseteq frames'[k].todo \union {w}
          /\ frames'[k].todo \subseteq frames[k].todo
    BY <1>5, <1>9
  <2>3. /\ Len(frames') = Len(frames) + 1
        /\ frames'[Len(frames) + 1].v = w /\ frames'[Len(frames) + 1].todo = inNeighbors[w]
    BY <1>5, <1>9
  <2>4. ~iLLOS[w].visited
    BY <1>2
  <2> QED
    BY <1>1, <1>4, <1>9, <1>10, <1>12, <2>1, <2>2, <2>3, <2>4, EnterKeeps
<1>14. stack' \in Seq(Node)
  BY <1>1, <1>4, <1>7
<1> QED
  BY <1>1, <1>2, <1>7, <1>9, <1>10, <1>13, <1>14, Fold

\* A lowLink is only lowered to the index of a neighbour on the stack.
LEMMA MeetVisitedStep ==
  ASSUME IInv, MeetVisited
  PROVE  IInv'
<1> DEFINE w == First(Caller.todo)  v == Caller.v  low == Lower(iLLOS, v, iLLOS[w].index)
<1>1. /\ inNeighbors \in [Node -> SUBSET Node] /\ nodeIds \in SUBSET Node
      /\ iLLOS \in TableType /\ stack \in Seq(Node) /\ components \in Seq(SUBSET Node)
      /\ frames \in FramesType /\ index \in Nat
      /\ SearchInv(inNeighbors, iLLOS, stack, frames, components)
      /\ OnTheStack(inNeighbors, iLLOS, stack, frames)
  BY Unfold
<1>2. /\ frames # <<>> /\ Caller.todo # {} /\ iLLOS[w].visited
      /\ iLLOS' = IF iLLOS[w].onStack THEN low ELSE iLLOS
      /\ frames' = Looped(w)
      /\ inNeighbors' = inNeighbors /\ nodeIds' = nodeIds /\ index' = index
      /\ stack' = stack /\ components' = components
  BY DEF MeetVisited, MayLower
<1>3. /\ Depth = Len(frames) /\ Depth \in Nat /\ Depth \in 1 .. Depth
      /\ Caller = frames[Depth] /\ v \in Node /\ Caller.todo \in SUBSET Node
  BY <1>1, <1>2, CallerIn
<1>4. w \in Caller.todo /\ w \in Node
  BY <1>2, <1>3, FirstIn
<1>5. w \in inNeighbors[v]
  <2>1. Depth \in 1 .. Len(frames) /\ frames[Depth].v = v /\ w \in frames[Depth].todo
    BY <1>3, <1>4
  <2> QED
    BY <1>1, <2>1 DEF SearchInv, TodoLeft
<1>6. /\ frames' \in FramesType /\ Len(frames') = Len(frames)
      /\ \A k \in 1 .. Len(frames) :
           /\ frames'[k].v = frames[k].v
           /\ frames[k].todo \subseteq frames'[k].todo \union {w}
           /\ frames'[k].todo \subseteq frames[k].todo
  <2>1. frames' = LookedAt(frames, Depth, w)
    BY <1>2 DEF Looped, LookedAt
  <2>2. /\ LookedAt(frames, Depth, w) \in FramesType
        /\ Len(LookedAt(frames, Depth, w)) = Len(frames)
        /\ \A k \in 1 .. Len(frames) :
             /\ LookedAt(frames, Depth, w)[k].v = frames[k].v
             /\ frames[k].todo \subseteq LookedAt(frames, Depth, w)[k].todo \union {w}
             /\ LookedAt(frames, Depth, w)[k].todo \subseteq frames[k].todo
    BY <1>1, <1>3, <1>4, LookedAtFacts
  <2> QED
    BY <2>1, <2>2
<1> HIDE DEF w
<1>7. /\ iLLOS[w].index \in Nat /\ iLLOS[v].index \in Nat /\ iLLOS[v].lowLink \in Nat
  BY <1>1, <1>3, <1>4, TableFields
<1>8. /\ low \in TableType
      /\ \A u \in Node \ {v} : low[u] = iLLOS[u]
      /\ low[v].index = iLLOS[v].index /\ low[v].onStack = iLLOS[v].onStack
      /\ low[v].visited = iLLOS[v].visited
      /\ low[v].lowLink = (IF iLLOS[w].index < iLLOS[v].lowLink
                           THEN iLLOS[w].index ELSE iLLOS[v].lowLink)
  <2>1. iLLOS \in TableType /\ v \in Node /\ iLLOS[w].index \in Nat
    BY <1>1, <1>3, <1>7
  <2> QED
    BY ONLY <2>1, LowerTable DEF low
<1> HIDE DEF low
<1>9. iLLOS' \in TableType /\ \A x \in Node : /\ iLLOS'[x].index = iLLOS[x].index
                                              /\ iLLOS'[x].onStack = iLLOS[x].onStack
                                              /\ iLLOS'[x].visited = iLLOS[x].visited
  BY <1>1, <1>2, <1>8
<1>10. Lowered(inNeighbors, iLLOS, iLLOS', stack, v)
  <2>1. \A x \in Node \ {v} : iLLOS'[x].lowLink = iLLOS[x].lowLink
    BY <1>2, <1>8
  <2>2. CASE iLLOS'[v].lowLink = iLLOS[v].lowLink
    BY <1>9, <2>1, <2>2 DEF Lowered
  <2>3. CASE iLLOS'[v].lowLink # iLLOS[v].lowLink
    <3>1. iLLOS[w].onStack /\ iLLOS'[v].lowLink = iLLOS[w].index
          /\ iLLOS[w].index < iLLOS[v].lowLink
      BY <1>2, <1>8, <2>3
    <3>2. iLLOS[v].lowLink <= iLLOS[v].index
      BY <1>1, <1>3 DEF OnTheStack, LowIsLow
    <3>3. w \in On(stack)
      BY <1>1, <1>4, <3>1 DEF SearchInv, Flags
    <3>4. PICK i \in 1 .. Len(stack) : stack[i] = w
      BY <3>3 DEF On
    <3>5. Path(inNeighbors, v, stack[i]) /\ iLLOS'[v].lowLink = iLLOS[stack[i]].index
      BY <1>5, <3>1, <3>4, PathStep
    <3>6. iLLOS'[v].lowLink <= iLLOS[v].index
      BY <1>7, <3>1, <3>2
    <3> QED
      BY <1>9, <2>1, <3>5, <3>6 DEF Lowered
  <2> QED
    BY <2>2, <2>3
<1>11. SearchInv(inNeighbors, iLLOS', stack, frames', components)
  <2>1. \A x \in Node : iLLOS'[x].onStack = iLLOS[x].onStack /\ iLLOS'[x].visited = iLLOS[x].visited
    BY <1>9
  <2>2. iLLOS[w].visited /\ w \in Node /\ v \in Node /\ iLLOS' \in TableType
    BY <1>2, <1>3, <1>4, <1>9
  <2> HIDE DEF v
  <2> QED
    BY <1>1, <1>6, <1>10, <2>1, <2>2, MeetKeeps
<1> QED
  BY <1>1, <1>2, <1>6, <1>9, <1>11, Fold

\* A call that is no root hands its lowLink to its caller.
LEMMA LeaveInnerStep ==
  ASSUME IInv, LeaveInner
  PROVE  IInv'
<1> DEFINE v == Caller.v  u == IF Depth = 1 THEN v ELSE frames[Depth - 1].v
           low == Lower(iLLOS, u, iLLOS[v].lowLink)
<1>1. /\ inNeighbors \in [Node -> SUBSET Node] /\ nodeIds \in SUBSET Node
      /\ iLLOS \in TableType /\ stack \in Seq(Node) /\ components \in Seq(SUBSET Node)
      /\ frames \in FramesType /\ index \in Nat
      /\ SearchInv(inNeighbors, iLLOS, stack, frames, components)
      /\ OnTheStack(inNeighbors, iLLOS, stack, frames)
  BY Unfold
<1>2. /\ frames # <<>> /\ Caller.todo = {} /\ iLLOS[v].index # iLLOS[v].lowLink
      /\ frames' = SubSeq(frames, 1, Depth - 1)
      /\ iLLOS' = IF Depth = 1 THEN iLLOS ELSE low
      /\ index' = IF Depth = 1 THEN iLLOS[v].index + 1 ELSE index
      /\ inNeighbors' = inNeighbors /\ nodeIds' = nodeIds
      /\ stack' = stack /\ components' = components
  BY DEF LeaveInner, Leave, IsRoot
<1>3. /\ Depth = Len(frames) /\ Depth \in Nat /\ Depth \in 1 .. Depth
      /\ Caller = frames[Depth] /\ v \in Node /\ Caller.todo \in SUBSET Node
  BY <1>1, <1>2, CallerIn
<1>4. /\ frames' \in FramesType /\ Len(frames') = Depth - 1
      /\ \A k \in 1 .. Depth - 1 : frames'[k] = frames[k]
  <2>1. /\ SubSeq(frames, 1, Depth - 1) \in FramesType
        /\ Len(SubSeq(frames, 1, Depth - 1)) = Depth - 1
        /\ \A k \in 1 .. Depth - 1 : SubSeq(frames, 1, Depth - 1)[k] = frames[k]
    BY <1>1, <1>3, ReturnFacts
  <2> QED
    BY <1>2, <2>1
<1>5. u \in Node /\ Path(inNeighbors, u, v)
  <2>1. CASE Depth = 1
    BY <1>3, <2>1, PathRefl
  <2>2. CASE Depth # 1
    <3>1. Depth - 1 \in 1 .. Len(frames)
      BY <1>3, <2>2
    <3>2. frames[Depth - 1].v \in Node
      BY <1>1, <3>1, FrameFields
    <3>3. Path(inNeighbors, frames[Depth - 1].v, v)
      BY <1>1, <1>3, <3>1, CallerFacts
    <3> QED
      BY <2>2, <3>2, <3>3
  <2> QED
    BY <2>1, <2>2
<1> HIDE DEF u
<1>6. /\ iLLOS[v].lowLink \in Nat /\ iLLOS[v].index \in Nat
      /\ iLLOS[u].index \in Nat /\ iLLOS[u].lowLink \in Nat
  BY <1>1, <1>3, <1>5, TableFields
<1>7. /\ low \in TableType
      /\ \A x \in Node \ {u} : low[x] = iLLOS[x]
      /\ low[u].index = iLLOS[u].index /\ low[u].onStack = iLLOS[u].onStack
      /\ low[u].visited = iLLOS[u].visited
      /\ low[u].lowLink = (IF iLLOS[v].lowLink < iLLOS[u].lowLink
                           THEN iLLOS[v].lowLink ELSE iLLOS[u].lowLink)
  <2>1. iLLOS \in TableType /\ u \in Node /\ iLLOS[v].lowLink \in Nat
    BY <1>1, <1>5, <1>6
  <2> QED
    BY ONLY <2>1, LowerTable DEF low
<1>8. iLLOS' = iLLOS \/ iLLOS' = low
  BY <1>2
<1> HIDE DEF low
<1>9. iLLOS' \in TableType /\ \A x \in Node : /\ iLLOS'[x].index = iLLOS[x].index
                                              /\ iLLOS'[x].onStack = iLLOS[x].onStack
                                              /\ iLLOS'[x].visited = iLLOS[x].visited
  BY <1>1, <1>7, <1>8
<1>10. Lowered(inNeighbors, iLLOS, iLLOS', stack, u)
  <2>1. \A x \in Node \ {u} : iLLOS'[x].lowLink = iLLOS[x].lowLink
    BY <1>7, <1>8
  <2>2. CASE iLLOS'[u].lowLink = iLLOS[u].lowLink
    BY <1>9, <2>1, <2>2 DEF Lowered
  <2>3. CASE iLLOS'[u].lowLink # iLLOS[u].lowLink
    <3>1. iLLOS'[u].lowLink = iLLOS[v].lowLink /\ iLLOS[v].lowLink < iLLOS[u].lowLink
      BY <1>7, <1>8, <2>3
    <3>2. iLLOS[u].lowLink <= iLLOS[u].index
      BY <1>1, <1>5 DEF OnTheStack, LowIsLow
    <3>3. Depth \in 1 .. Len(frames) /\ frames[Depth].v = v
      BY <1>3
    <3>4. PICK i \in 1 .. Len(stack) :
            Path(inNeighbors, v, stack[i]) /\ iLLOS[v].lowLink = iLLOS[stack[i]].index
      BY <1>1, <3>3 DEF OnTheStack, LowLinks
    <3>5. Path(inNeighbors, u, stack[i]) /\ iLLOS'[u].lowLink = iLLOS[stack[i]].index
      BY <1>5, <3>1, <3>4, PathTrans
    <3>6. iLLOS'[u].lowLink <= iLLOS[u].index
      BY <1>6, <3>1, <3>2
    <3> QED
      BY <1>9, <2>1, <3>5, <3>6 DEF Lowered
  <2> QED
    BY <2>2, <2>3
<1>11. SearchInv(inNeighbors, iLLOS', stack, frames', components)
  <2>1. \A x \in Node : iLLOS'[x].onStack = iLLOS[x].onStack /\ iLLOS'[x].visited = iLLOS[x].visited
    BY <1>9
  <2>2. /\ frames[Depth].todo = {}
        /\ iLLOS[frames[Depth].v].index # iLLOS[frames[Depth].v].lowLink
    BY <1>2, <1>3
  <2> QED
    BY <1>1, <1>3, <1>4, <1>5, <1>9, <1>10, <2>1, <2>2, LeaveInnerKeeps
<1>12. index' \in Nat
  BY <1>1, <1>2, <1>6
<1> QED
  BY <1>1, <1>2, <1>4, <1>9, <1>11, <1>12, Fold

\* Taking vertices off the stack clears their flags and nothing else.
PoppedTable(T, out) == [x \in Node |-> [T[x] EXCEPT !.onStack = @ /\ x \notin out]]

\* What clearing the flags leaves as it was.
LEMMA PoppedFacts ==
  ASSUME NEW T \in TableType, NEW out
  PROVE  /\ PoppedTable(T, out) \in TableType
         /\ \A x \in Node :
              /\ PoppedTable(T, out)[x].index = T[x].index
              /\ PoppedTable(T, out)[x].lowLink = T[x].lowLink
              /\ PoppedTable(T, out)[x].visited = T[x].visited
              /\ PoppedTable(T, out)[x].onStack <=> T[x].onStack /\ x \notin out
<1> DEFINE R == [index : Nat, lowLink : Nat, onStack : BOOLEAN, visited : BOOLEAN]
<1>1. ASSUME NEW x \in Node
      PROVE  /\ PoppedTable(T, out)[x] \in R
             /\ PoppedTable(T, out)[x].index = T[x].index
             /\ PoppedTable(T, out)[x].lowLink = T[x].lowLink
             /\ PoppedTable(T, out)[x].visited = T[x].visited
             /\ PoppedTable(T, out)[x].onStack <=> T[x].onStack /\ x \notin out
  <2> DEFINE b == T[x].onStack /\ x \notin out
  <2>1. T[x] \in R /\ b \in BOOLEAN
    BY DEF TableType
  <2>2. PoppedTable(T, out)[x] = [T[x] EXCEPT !.onStack = b]
    BY DEF PoppedTable
  <2> HIDE DEF b
  <2>3. /\ [T[x] EXCEPT !.onStack = b] \in R
        /\ [T[x] EXCEPT !.onStack = b].index = T[x].index
        /\ [T[x] EXCEPT !.onStack = b].lowLink = T[x].lowLink
        /\ [T[x] EXCEPT !.onStack = b].visited = T[x].visited
        /\ [T[x] EXCEPT !.onStack = b].onStack = b
    BY <2>1
  <2> QED
    BY <2>2, <2>3 DEF b
<1>2. PoppedTable(T, out) = [x \in Node |-> PoppedTable(T, out)[x]]
  BY DEF PoppedTable
<1> HIDE DEF R
<1>3. PoppedTable(T, out) \in [Node -> R]
  BY <1>1, <1>2, Zenon
<1> QED
  BY <1>1, <1>3 DEF TableType, R

\* A call that returns as a root emits its component.
LEMMA LeaveRootStep ==
  ASSUME IInv, LeaveRoot
  PROVE  IInv'
<1> DEFINE v == Caller.v  m == Place(stack, v)
           out == {stack[i] : i \in m .. Len(stack)}
           T2 == PoppedTable(iLLOS, out)
           low == Lower(T2, frames[Depth - 1].v, T2[v].lowLink)
<1>1. /\ inNeighbors \in [Node -> SUBSET Node] /\ nodeIds \in SUBSET Node
      /\ iLLOS \in TableType /\ stack \in Seq(Node) /\ components \in Seq(SUBSET Node)
      /\ frames \in FramesType /\ index \in Nat
      /\ SearchInv(inNeighbors, iLLOS, stack, frames, components)
      /\ OnTheStack(inNeighbors, iLLOS, stack, frames)
  BY Unfold
<1>2. /\ frames # <<>> /\ Caller.todo = {} /\ iLLOS[v].index = iLLOS[v].lowLink
      /\ frames' = SubSeq(frames, 1, Depth - 1)
      /\ iLLOS' = IF Depth = 1 THEN T2 ELSE low
      /\ index' = IF Depth = 1 THEN T2[v].index + 1 ELSE index
      /\ inNeighbors' = inNeighbors /\ nodeIds' = nodeIds
      /\ stack' = SubSeq(stack, 1, m - 1) /\ components' = Append(components, out)
  BY DEF LeaveRoot, Leave, IsRoot, Popped, Position, Place, PoppedTable
<1>3. /\ Depth = Len(frames) /\ Depth \in Nat /\ Depth \in 1 .. Depth
      /\ Caller = frames[Depth] /\ v \in Node /\ Caller.todo \in SUBSET Node
  BY <1>1, <1>2, CallerIn
<1>4. /\ frames' \in FramesType /\ Len(frames') = Depth - 1
      /\ \A k \in 1 .. Depth - 1 : frames'[k] = frames[k]
  <2>1. /\ SubSeq(frames, 1, Depth - 1) \in FramesType
        /\ Len(SubSeq(frames, 1, Depth - 1)) = Depth - 1
        /\ \A k \in 1 .. Depth - 1 : SubSeq(frames, 1, Depth - 1)[k] = frames[k]
    BY <1>1, <1>3, ReturnFacts
  <2> QED
    BY <1>2, <2>1
<1>5. m = Place(stack, frames[Depth].v) /\ m \in 1 .. Len(stack)
  <2>1. CallsInOrder(stack, frames) /\ Depth \in 1 .. Len(frames)
    BY <1>1, <1>3 DEF OnTheStack
  <2>2. Place(stack, frames[Depth].v) \in 1 .. Len(stack)
    BY <1>1, <2>1, CallPlace
  <2> QED
    BY <1>3, <2>2
<1> HIDE DEF m
<1>6. out = {stack[i] : i \in m .. Len(stack)}
  OBVIOUS
<1>7. stack' \in Seq(Node) /\ out \in SUBSET Node
  <2>1. Distinct(stack)
    BY <1>1 DEF OnTheStack
  <2>2. SubSeq(stack, 1, m - 1) \in Seq(Node)
    BY <1>1, <1>5, Shorter
  <2>3. \A i \in 1 .. Len(stack) : stack[i] \in Node
    BY <1>1
  <2>4. \A i \in m .. Len(stack) : i \in 1 .. Len(stack)
    BY <1>1, <1>5
  <2> QED
    BY <1>2, <2>2, <2>3, <2>4
<1> HIDE DEF out
<1>8. /\ T2 \in TableType
      /\ \A x \in Node : /\ T2[x].index = iLLOS[x].index /\ T2[x].lowLink = iLLOS[x].lowLink
                         /\ T2[x].visited = iLLOS[x].visited
                         /\ T2[x].onStack <=> iLLOS[x].onStack /\ x \notin out
  BY <1>1, PoppedFacts
<1> HIDE DEF T2
<1>9. /\ iLLOS' \in TableType
      /\ \A x \in Node : /\ iLLOS'[x].index = T2[x].index /\ iLLOS'[x].lowLink = T2[x].lowLink
                         /\ iLLOS'[x].visited = T2[x].visited
                         /\ iLLOS'[x].onStack = T2[x].onStack
  <2>1. CASE Depth = 1
    BY <1>2, <1>8, <2>1
  <2>2. CASE Depth # 1
    <3> DEFINE u == frames[Depth - 1].v
    <3>1. Depth - 1 \in 1 .. Len(frames) /\ Depth - 1 # Len(frames)
      BY <1>3, <2>2
    <3>2. u \in Node
      BY <1>1, <3>1, FrameFields
    <3>3. iLLOS[u].index < iLLOS[frames[Len(frames)].v].index
      BY <1>1, <3>1, CallerFacts
    <3>4. frames[Len(frames)].v = v
      BY <1>3
    <3>5. iLLOS[u].lowLink <= iLLOS[u].index
      BY <1>1, <3>2 DEF OnTheStack, LowIsLow
    <3> HIDE DEF u
    <3>6. /\ iLLOS[v].lowLink \in Nat /\ iLLOS[v].index \in Nat
          /\ iLLOS[u].index \in Nat /\ iLLOS[u].lowLink \in Nat
      BY <1>1, <1>3, <3>2, TableFields
    <3>7. iLLOS[u].lowLink < iLLOS[v].lowLink
      BY <1>2, <3>3, <3>4, <3>5, <3>6
    <3>8. T2[v].lowLink \in Nat /\ ~(T2[v].lowLink < T2[u].lowLink)
      BY <1>3, <1>8, <3>2, <3>6, <3>7
    <3>9. low = Lower(T2, u, T2[v].lowLink)
      BY DEF u
    <3>10. /\ Lower(T2, u, T2[v].lowLink) \in TableType
           /\ \A x \in Node \ {u} : Lower(T2, u, T2[v].lowLink)[x] = T2[x]
           /\ Lower(T2, u, T2[v].lowLink)[u].index = T2[u].index
           /\ Lower(T2, u, T2[v].lowLink)[u].onStack = T2[u].onStack
           /\ Lower(T2, u, T2[v].lowLink)[u].visited = T2[u].visited
           /\ Lower(T2, u, T2[v].lowLink)[u].lowLink =
                (IF T2[v].lowLink < T2[u].lowLink THEN T2[v].lowLink ELSE T2[u].lowLink)
      <4>1. T2 \in TableType /\ u \in Node /\ T2[v].lowLink \in Nat
        BY <1>8, <3>2, <3>8
      <4> QED
        BY ONLY <4>1, LowerTable
    <3> HIDE DEF low
    <3>11. low[u].lowLink = T2[u].lowLink
      BY <3>8, <3>9, <3>10
    <3>12. low \in TableType /\ iLLOS' = low
      BY <1>2, <2>2, <3>9, <3>10
    <3> QED
      BY <3>2, <3>9, <3>10, <3>11, <3>12
  <2> QED
    BY <2>1, <2>2
<1> HIDE DEF low
<1>10. \A x \in Node : /\ iLLOS'[x].index = iLLOS[x].index
                       /\ iLLOS'[x].lowLink = iLLOS[x].lowLink
                       /\ iLLOS'[x].visited = iLLOS[x].visited
                       /\ iLLOS'[x].onStack <=> iLLOS[x].onStack /\ x \notin out
  BY <1>8, <1>9
<1>11. SearchInv(inNeighbors, iLLOS', SubSeq(stack, 1, m - 1), frames', Append(components, out))
  <2>1. frames[Depth].todo = {}
    BY <1>2, <1>3
  <2>2. iLLOS' \in TableType
    BY <1>9
  <2>3. Depth = Len(frames) /\ Depth \in 1 .. Depth
    BY <1>3
  <2>4. m = Place(stack, frames[Depth].v)
    BY <1>5
  <2>5. /\ inNeighbors \in [Node -> SUBSET Node] /\ iLLOS \in TableType /\ stack \in Seq(Node)
        /\ frames \in FramesType /\ components \in Seq(SUBSET Node)
        /\ SearchInv(inNeighbors, iLLOS, stack, frames, components)
    BY <1>1
  <2> QED
    BY ONLY <1>4, <1>6, <1>10, <2>1, <2>2, <2>3, <2>4, <2>5, LeaveRootKeeps
<1>12. index' \in Nat
  <2>1. iLLOS[v].index \in Nat
    BY <1>1, <1>3, TableFields
  <2>2. T2[v].index = iLLOS[v].index
    BY <1>3, <1>8
  <2> HIDE DEF v
  <2>3. T2[v].index + 1 \in Nat
    BY <2>1, <2>2
  <2> QED
    BY <1>1, <1>2, <2>3
<1>13. components' \in Seq(SUBSET Node)
  <2>1. Append(components, out) \in Seq(SUBSET Node)
    BY <1>1, <1>7
  <2> QED
    BY <1>2, <2>1
<1> QED
  <2>1. SearchInv(inNeighbors', iLLOS', stack', frames', components')
    BY <1>2, <1>11
  <2> QED
    BY <1>1, <1>2, <1>4, <1>7, <1>9, <1>12, <1>13, <2>1, Fold

----------------------------------------------------------------------------
(* The invariant is inductive.                                             *)

\* Nothing was visited yet: no call is active and nothing is on the stack.
LEMMA InitStep ==
  ASSUME SccInit
  PROVE  IInv
<1>1. /\ inNeighbors \in [Node -> SUBSET Node] /\ nodeIds \in SUBSET Node
      /\ iLLOS = [v \in Node |-> [index |-> 0, lowLink |-> 0,
                                  onStack |-> FALSE, visited |-> FALSE]]
      /\ stack = <<>> /\ components = <<>> /\ frames = <<>> /\ index = 0
  BY GraphAssumption DEF SccInit, SccStart
<1>2. TypeOK
  <2>1. stack \in Seq(Node) /\ components \in Seq(SUBSET Node) /\ frames \in FramesType
    BY <1>1 DEF FramesType
  <2>2. iLLOS \in TableType /\ LowIsLow(iLLOS)
    BY <1>1 DEF TableType, LowIsLow
  <2> QED
    BY <1>1, <2>1, <2>2, Types
<1>3. /\ \A v \in Node : ~iLLOS[v].onStack /\ ~iLLOS[v].visited
      /\ Len(stack) = 0 /\ Len(components) = 0 /\ Len(frames) = 0
      /\ 1 .. 0 = {}
  BY <1>1
<1>4. On(stack) = {} /\ All(components) = {}
  BY <1>3 DEF On, All
<1>5. Flags(iLLOS, stack, components) /\ Explored(inNeighbors, iLLOS, frames)
  BY <1>3, <1>4 DEF Flags, Explored
<1>6. /\ Distinct(stack) /\ CallsInOrder(stack, frames)
      /\ ReachesAbove(inNeighbors, stack, frames) /\ ReachesCall(inNeighbors, stack, frames)
      /\ LowLinks(inNeighbors, iLLOS, stack, frames) /\ IndexAbove(iLLOS, stack, frames)
      /\ TodoLeft(inNeighbors, frames)
  BY <1>3 DEF Distinct, CallsInOrder, ReachesAbove, ReachesCall, LowLinks, IndexAbove, TodoLeft
<1>7. Within(inNeighbors, components) /\ Ordered(inNeighbors, components)
  BY <1>3 DEF Within, Ordered
<1>8. LowIsLow(iLLOS)
  BY <1>2, Types
<1> QED
  BY <1>2, <1>5, <1>6, <1>7, <1>8 DEF IInv, SearchInv, OnTheStack

\* A step that changes nothing keeps the invariant.
LEMMA StutterStep ==
  ASSUME IInv, UNCHANGED sccVars
  PROVE  IInv'
<1>1. /\ inNeighbors' = inNeighbors /\ nodeIds' = nodeIds /\ iLLOS' = iLLOS
      /\ stack' = stack /\ components' = components /\ frames' = frames /\ index' = index
  BY DEF sccVars
<1> QED
  BY <1>1, Unfold, Fold

\* Every step of the search keeps the invariant.
LEMMA NextStep ==
  ASSUME IInv, [SccNext]_sccVars
  PROVE  IInv'
<1>1. CASE ConnectRoot
  BY <1>1, ConnectRootStep
<1>2. CASE MeetVisited
  BY <1>2, MeetVisitedStep
<1>3. CASE Descend
  BY <1>3, DescendStep
<1>4. CASE LeaveRoot
  BY <1>4, LeaveRootStep
<1>5. CASE LeaveInner
  BY <1>5, LeaveInnerStep
<1>6. CASE UNCHANGED sccVars
  BY <1>6, StutterStep
<1> QED
  BY <1>1, <1>2, <1>3, <1>4, <1>5, <1>6 DEF SccNext

\* The invariant holds in every state.
LEMMA Inductive == SccSpec => []IInv
<1>1. SccInit => IInv
  BY InitStep
<1>2. IInv /\ [SccNext]_sccVars => IInv'
  BY NextStep
<1> QED
  BY <1>1, <1>2, PTL DEF SccSpec

----------------------------------------------------------------------------
(* What the invariant says of the search.                                  *)

\* The names of the model for the stack's contents.
LEMMA Names ==
  /\ Emitted = All(components)
  /\ {stack[i] : i \in 1 .. Len(stack)} = On(stack)
  /\ \A v : Position(v) = Place(stack, v)
  /\ \A u, v : Reaches(u, v) <=> Path(inNeighbors, u, v)
  /\ Depth = Len(frames)
  BY DEF Emitted, All, On, Position, Place, Reaches, Path, Depth

\* The flags, the stack and the active calls agree.
LEMMA StackFromInv ==
  ASSUME IInv
  PROVE  StackHoldsCalls
<1>1. /\ Flags(iLLOS, stack, components) /\ Distinct(stack) /\ CallsInOrder(stack, frames)
      /\ frames \in FramesType
  BY Unfold DEF SearchInv, OnTheStack
<1>2. /\ \A v \in Node : iLLOS[v].onStack <=> v \in {stack[i] : i \in 1 .. Len(stack)}
      /\ \A v \in Node : iLLOS[v].visited <=> iLLOS[v].onStack \/ v \in Emitted
      /\ \A v \in Node : ~(iLLOS[v].onStack /\ v \in Emitted)
  BY <1>1, Names DEF Flags
<1>3. \A i, j \in 1 .. Len(stack) : stack[i] = stack[j] => i = j
  BY <1>1 DEF Distinct
<1>4. \A k \in 1 .. Depth : iLLOS[frames[k].v].onStack
  <2> SUFFICES ASSUME NEW k \in 1 .. Len(frames) PROVE iLLOS[frames[k].v].onStack
    BY Names
  <2>1. frames[k].v \in Node /\ frames[k].v \in On(stack)
    BY <1>1, FrameFields DEF CallsInOrder
  <2> QED
    BY <1>1, <2>1 DEF Flags
<1>5. \A k \in 1 .. Depth - 1 : Position(frames[k].v) < Position(frames[k + 1].v)
  <2> SUFFICES ASSUME NEW k \in 1 .. Len(frames) - 1
               PROVE  Place(stack, frames[k].v) < Place(stack, frames[k + 1].v)
    BY Names
  <2>1. Len(frames) \in Nat
    BY <1>1 DEF FramesType
  <2>2. k \in 1 .. Len(frames) /\ k + 1 \in 1 .. Len(frames) /\ k < k + 1
    BY <2>1
  <2> QED
    BY <1>1, <2>2 DEF CallsInOrder
<1> QED
  BY <1>2, <1>3, <1>4, <1>5 DEF StackHoldsCalls

\* The components are as sound as the invariant says.
LEMMA OrderFromInv ==
  ASSUME IInv
  PROVE  ComponentsWithinSCC /\ OrderedAcrossSCCs
<1>1. Within(inNeighbors, components) /\ Ordered(inNeighbors, components)
  BY Unfold DEF SearchInv
<1>2. ComponentsWithinSCC
  BY <1>1, Names DEF Within, ComponentsWithinSCC, SameSCC
<1>3. OrderedAcrossSCCs
  BY <1>1, Names DEF Ordered, OrderedAcrossSCCs, SameSCC
<1> QED
  BY <1>2, <1>3

----------------------------------------------------------------------------
(* The theorems.                                                           *)

\* In every state the search's data has its type and no lowLink exceeds the
\* index of its vertex, for every set of graphs and portions.
THEOREM TypeCorrect == SccSpec => []TypeOK
<1>1. IInv => TypeOK
  BY DEF IInv
<1> QED
  BY <1>1, Inductive, PTL

\* The flags of iLLOS say which visited vertices are on the stack and which are
\* in a component, no vertex is there twice, and the active calls of
\* strongConnect lie on the stack in call order: the loop that pops a component
\* always meets its root, on every graph.
THEOREM CallsOnStack == SccSpec => []StackHoldsCalls
<1>1. IInv => StackHoldsCalls
  BY StackFromInv
<1> QED
  BY <1>1, Inductive, PTL

\* Whatever indices the vertices share, the vertices of a component of any graph
\* all reach each other.
THEOREM ComponentsSound == SccSpec => []ComponentsWithinSCC
<1>1. IInv => ComponentsWithinSCC
  BY OrderFromInv
<1> QED
  BY <1>1, Inductive, PTL

\* On every graph, an edge from a component to a later one lies on a cycle: across
\* strongly connected components the order that breakGraph uses is topological.
THEOREM OrderSound == SccSpec => []OrderedAcrossSCCs
<1>1. IInv => OrderedAcrossSCCs
  BY OrderFromInv
<1> QED
  BY <1>1, Inductive, PTL
=============================================================================
