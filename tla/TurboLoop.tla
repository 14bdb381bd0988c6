----------------------------- MODULE TurboLoop -----------------------------
(***************************************************************************)
(* TurboLoop.hpp and LoopForest.hpp: the pass plants the loops of a        *)
(* function that it can represent in trees (pushLoopTree) and collects     *)
(* their memory accesses with the place of each in the program             *)
(* (parseNest).  An access it cannot represent removes the loop and those  *)
(* around it (conditionOnLoop).                                            *)
(*                                                                         *)
(* The function is loop 0.  Gap i of a loop is the code before its i-th    *)
(* sub loop, or after the last one; its blocks <<loop, i, 1>> and          *)
(* <<loop, i, 2>> are where it begins (the header, or the exit of a sub    *)
(* loop) and where it ends (a preheader, or the exit of the loop).         *)
(***************************************************************************)
EXTENDS Integers, Sequences, FiniteSets

CONSTANTS
  Functions  \* [subLoops, affine, direct, entered, left, kind]

\* A loop is in one place of the loop around it and has the greater number.
ValidFunction(f) ==
  LET loops == DOMAIN f.subLoops
      inside(L) == DOMAIN f.subLoops[L]
  IN  /\ \E n \in loops : loops = 0 .. n
      /\ f.subLoops \in [loops -> Seq(loops)]
      /\ \A L \in loops : \A i \in inside(L) : L < f.subLoops[L][i]
      /\ \A L, M \in loops : \A i \in inside(L), j \in inside(M) :
           f.subLoops[L][i] = f.subLoops[M][j] => L = M /\ i = j
      /\ \A M \in loops \ {0} : \E L \in loops : \E i \in inside(L) : f.subLoops[L][i] = M
      /\ f.affine \subseteq loops \ {0}
      /\ \A L \in loops : f.direct[L] \in [1 .. Len(f.subLoops[L]) + 1 -> BOOLEAN]
      /\ \A L \in loops : \A i \in 1 .. Len(f.subLoops[L]) + 1, e \in 1 .. 2 :
           f.kind[<<L, i, e>>] \in Seq({"affine", "noBase", "notInst"})
ASSUME TurboAssumption == \A f \in Functions : ValidFunction(f)

VARIABLES
  func,
  calls,        \* of pushLoopTree, outermost first
  depth,        \* what the last of them returned
  trees,        \* the LoopTree objects, by address
  loopForests,
  forest,       \* the one that is parsed
  parsing,      \* calls of parseLoop, outermost first
  loopOmega,    \* the vector omega, which counts along the nest
  refs,         \* the memory accesses, in the order they are found
  cut,          \* what conditionOnLoop is called with
  running

turboVars == <<func, calls, depth, trees, loopForests, forest, parsing, loopOmega, refs, cut, running>>

NoTree == 0
Running == -1
Spot(L, gap, end) == <<L, gap, end>>
Preheader(L, i) == Spot(L, i, 2)
LastOf(s) == s[Len(s)]
Butlast(s) == SubSeq(s, 1, Len(s) - 1)

----------------------------------------------------------------------------
(* pushLoopTree.                                                           *)

Call(L, subLoops) ==
  [loop |-> L, subLoops |-> subLoops, i |-> 1, H |-> Spot(L, 1, 1),
   branches |-> <<>>, branchBlocks |-> <<>>, anyFail |-> FALSE, interiorDepth |-> 0]
Pusher == LastOf(calls)
Calling(c) == Append(Butlast(calls), c)

\* Parser level loops before the first with a preheader and after the last with an
\* exit are dropped.
TopLoops ==
  LET L == func.subLoops[0]
      ends == {i \in DOMAIN L : L[i] \in func.left}
      last == CHOOSE i \in ends : \A j \in ends : j <= i
      starts == {i \in 1 .. last : L[i] \in func.entered}
      first == CHOOSE i \in starts : \A j \in starts : i <= j
  IN  IF ends = {} THEN <<>> ELSE IF starts = {} THEN <<>> ELSE SubSeq(L, first, last)

initializeLoopForest ==
  /\ running = "new"
  /\ IF TopLoops = <<>> THEN running' = "end" /\ UNCHANGED calls
     ELSE calls' = <<Call(0, TopLoops)>> /\ running' = "plant"
  /\ UNCHANGED <<func, depth, trees, loopForests, forest, parsing, loopOmega, refs, cut>>

\* Predicate::Map::descend from H to the end of gap i.
Descends(c) == c.H = Preheader(c.loop, c.i) \/ func.direct[c.loop][c.i]
Descent(c) == IF c.H = Preheader(c.loop, c.i) THEN <<c.H>> ELSE <<c.H, Preheader(c.loop, c.i)>>

Tree(L, subs, paths, loops) == [loop |-> L, subLoops |-> subs, paths |-> paths, loops |-> loops, parentLoop |-> NoTree]

\* split: a tree of its own, without a loop, whose last path stays at H.
split(subs, paths, H) ==
  IF subs = <<>> THEN UNCHANGED <<trees, loopForests>>
  ELSE /\ trees' = Append(trees, Tree(0, subs, Append(paths, <<H>>), 0))
       /\ loopForests' = Append(loopForests, Len(trees) + 1)

Descending == running = "plant" /\ depth = Running /\ Pusher.i <= Len(Pusher.subLoops)

PushSubLoop ==
  /\ Descending
  /\ calls' = Append(calls, Call(Pusher.subLoops[Pusher.i], func.subLoops[Pusher.subLoops[Pusher.i]]))
  /\ UNCHANGED <<func, depth, trees, loopForests, forest, parsing, loopOmega, refs, cut, running>>

Around(L) == CHOOSE M \in DOMAIN func.subLoops : \E i \in DOMAIN func.subLoops[M] : func.subLoops[M][i] = L
\* AffineLoopNest::construct goes out as far as trip counts are affine.
AffineNest[L \in DOMAIN func.subLoops] == IF L # 0 /\ Around(L) \in func.affine THEN 1 + AffineNest[Around(L)] ELSE 1

Childless == running = "plant" /\ depth = Running /\ Pusher.subLoops = <<>>
initLoopTree ==
  /\ Childless /\ Pusher.loop \in func.affine /\ Descends(Pusher)
  /\ trees' = Append(trees, Tree(Pusher.loop, <<>>, <<Descent(Pusher)>>, AffineNest[Pusher.loop]))
  /\ depth' = 1
  /\ calls' = Butlast(calls)
  /\ UNCHANGED <<func, loopForests, forest, parsing, loopOmega, refs, cut, running>>
InitFails ==
  /\ Childless /\ ~(Pusher.loop \in func.affine /\ Descends(Pusher))
  /\ depth' = 0
  /\ calls' = Butlast(calls)
  /\ UNCHANGED <<func, trees, loopForests, forest, parsing, loopOmega, refs, cut, running>>

Returned == running = "plant" /\ depth # Running /\ calls # <<>>
\* H after a sub loop that does not join: where the next one begins.
NextH == IF Pusher.i < Len(Pusher.subLoops) THEN Preheader(Pusher.loop, Pusher.i + 1) ELSE Pusher.H

SubLoopJoins ==
  /\ Returned /\ depth > 0 /\ Descends(Pusher)
  /\ calls' = Calling([Pusher EXCEPT !.interiorDepth = IF @ < depth THEN depth ELSE @, !.i = @ + 1,
                                     !.branches = Append(@, Len(trees)), !.branchBlocks = Append(@, Descent(Pusher)),
                                     !.H = Spot(Pusher.loop, Pusher.i + 1, 1)])
  /\ depth' = Running
  /\ UNCHANGED <<func, trees, loopForests, forest, parsing, loopOmega, refs, cut, running>>

\* No direct path to the sub loop: those before it are split off, and it stays.
NoPath ==
  /\ Returned /\ depth > 0 /\ ~Descends(Pusher)
  /\ calls' = Calling([Pusher EXCEPT !.i = @ + 1, !.branches = <<Len(trees)>>, !.H = NextH, !.anyFail = TRUE,
                                     !.branchBlocks = IF Pusher.branches = <<>> THEN @ ELSE <<>>])
  /\ depth' = Running
  /\ split(Pusher.branches, Pusher.branchBlocks, Pusher.H)
  /\ UNCHANGED <<func, forest, parsing, loopOmega, refs, cut, running>>

\* Mutant: what was planted before the sub loop that failed stays.
FailedKeeps == [Pusher EXCEPT !.i = @ + 1, !.H = NextH, !.anyFail = TRUE]
Failed ==
  [Pusher EXCEPT !.i = @ + 1, !.branches = <<>>, !.H = NextH, !.anyFail = TRUE,
                 !.branchBlocks = IF Pusher.branches = <<>> THEN @ ELSE <<>>]
SubLoopFails ==
  /\ Returned /\ depth = 0
  /\ calls' = Calling(Failed)
  /\ depth' = Running
  /\ split(Pusher.branches, Pusher.branchBlocks, Pusher.H)
  /\ UNCHANGED <<func, forest, parsing, loopOmega, refs, cut, running>>

Through == running = "plant" /\ depth = Running /\ Pusher.subLoops # <<>> /\ Pusher.i > Len(Pusher.subLoops)
Whole == ~Pusher.anyFail /\ Descends(Pusher)

\* Loops are counted in an unsigned; the greatest is more than any nest has.
MaxUnsigned == 65535
Fewer(n) == IF n = 0 THEN MaxUnsigned ELSE n - 1

\* The nest is that of the first sub loop without its innermost loop.
Plant ==
  /\ Through /\ Whole
  /\ trees' = Append(trees, Tree(Pusher.loop, Pusher.branches, Append(Pusher.branchBlocks, Descent(Pusher)),
                                 Fewer(trees[Pusher.branches[1]].loops)))
  /\ loopForests' = IF Len(calls) > 1 THEN loopForests ELSE Append(loopForests, Len(trees) + 1)
  /\ depth' = Pusher.interiorDepth + 1
  /\ calls' = Butlast(calls)
  /\ UNCHANGED <<func, forest, parsing, loopOmega, refs, cut, running>>
GiveUp ==
  /\ Through /\ ~Whole
  /\ split(Pusher.branches, Pusher.branchBlocks, Pusher.H)
  /\ depth' = 0
  /\ calls' = Butlast(calls)
  /\ UNCHANGED <<func, forest, parsing, loopOmega, refs, cut, running>>

\* LinkParents tells every tree the one it is in.
Parent(t) ==
  LET of == {p \in DOMAIN trees : \E i \in DOMAIN trees[p].subLoops : trees[p].subLoops[i] = t}
  IN  IF of = {} THEN NoTree ELSE CHOOSE p \in of : TRUE
LinkParents ==
  /\ running = "plant" /\ calls = <<>>
  /\ trees' = [t \in DOMAIN trees |-> [trees[t] EXCEPT !.parentLoop = Parent(t)]]
  /\ running' = IF loopForests = <<>> THEN "end" ELSE "parse"
  /\ UNCHANGED <<func, calls, depth, loopForests, forest, parsing, loopOmega, refs, cut>>

----------------------------------------------------------------------------
(* parseNest.                                                              *)

\* A call of parseLoop before sub loop i, or after the last one.
Parse(t, i) ==
  [tree |-> t, i |-> i, blocks |-> IF i <= Len(trees[t].subLoops) THEN trees[t].paths[i] ELSE LastOf(trees[t].paths)]
Parser == LastOf(parsing)
Parsing == running = "parse" /\ cut = NoTree

\* The loop over the forests goes to the end that it saw at its beginning: forest
\* is <<next, end>>.  Up to six forests are in the vector itself and can still be read
\* when push_back moves to the heap; where parsing starts with more, a push_back may
\* free what is read here, which is not modelled.
ParseForest ==
  /\ Parsing /\ parsing = <<>>
  /\ LET f == IF forest = <<>> THEN <<1, Len(loopForests)>> ELSE <<forest[1] + 1, forest[2]>>
     IN  IF f[1] > f[2] THEN running' = "end" /\ UNCHANGED <<forest, parsing, loopOmega>>
         ELSE /\ forest' = f
              /\ parsing' = <<Parse(loopForests[f[1]], 1)>>
              /\ loopOmega' = <<0>>
              /\ UNCHANGED running
  /\ UNCHANGED <<func, calls, depth, trees, loopForests, refs, cut>>

\* addRef: the accesses of a block up to one that cannot be represented.
Kinds(b) == func.kind[b]
Read(b) == IF \E k \in DOMAIN Kinds(b) : Kinds(b)[k] # "affine"
           THEN (CHOOSE k \in DOMAIN Kinds(b) : Kinds(b)[k] # "affine" /\ \A l \in 1 .. k - 1 : Kinds(b)[l] = "affine") - 1
           ELSE Len(Kinds(b))
Stops(b) == IF Read(b) = Len(Kinds(b)) THEN "affine" ELSE Kinds(b)[Read(b) + 1]
Counted(n) == [loopOmega EXCEPT ![Len(loopOmega)] = @ + n]
Recorded(b, n) == refs \o [k \in 1 .. n |-> [at |-> Append(b, k), tree |-> Parser.tree, omega |-> Counted(k - 1)]]

parseBB ==
  /\ Parsing /\ parsing # <<>> /\ Parser.blocks # <<>>
  /\ LET b == Head(Parser.blocks)
         inLoop == trees[Parser.tree].loop # 0
     IN  /\ parsing' = Append(Butlast(parsing), [Parser EXCEPT !.blocks = Tail(@)])
         /\ IF ~inLoop THEN UNCHANGED <<loopOmega, refs, cut, running>>
            ELSE /\ refs' = Recorded(b, Read(b))
                 /\ loopOmega' = Counted(Read(b))
                 /\ cut' = IF Stops(b) = "noBase" THEN Parser.tree ELSE NoTree
                 \* The invariant of ArrayIndex::construct breaks: each loop of the nest and
                 \* the whole have a place.
                 /\ running' = IF Read(b) > 0 /\ Len(loopOmega) # trees[Parser.tree].loops + 1 THEN "undefined" ELSE running
  /\ UNCHANGED <<func, calls, depth, trees, loopForests, forest>>

ParseSubLoop ==
  /\ Parsing /\ parsing # <<>> /\ Parser.blocks = <<>> /\ Parser.i <= Len(trees[Parser.tree].subLoops)
  /\ parsing' = Append(parsing, Parse(trees[Parser.tree].subLoops[Parser.i], 1))
  /\ loopOmega' = Append(loopOmega, 0)
  /\ UNCHANGED <<func, calls, depth, trees, loopForests, forest, refs, cut, running>>

\* parseLoop returns, to parseNest or to the loop over the sub loops.
\* Mutant: the place is not counted.
NextPlaceSame(o) == o
NextPlace(o) == [o EXCEPT ![Len(o)] = @ + 1]
ParsedLoop ==
  /\ Parsing /\ parsing # <<>> /\ Parser.blocks = <<>> /\ Parser.i > Len(trees[Parser.tree].subLoops)
  /\ IF Len(parsing) = 1 THEN parsing' = <<>> /\ loopOmega' = <<>>
     ELSE LET p == parsing[Len(parsing) - 1]
          IN  /\ parsing' = Append(SubSeq(parsing, 1, Len(parsing) - 2), Parse(p.tree, p.i + 1))
              /\ loopOmega' = NextPlace(Butlast(loopOmega))
  /\ UNCHANGED <<func, calls, depth, trees, loopForests, forest, refs, cut, running>>

----------------------------------------------------------------------------
(* conditionOnLoop, for one loop; it goes on with the one around.          *)

Elements(s) == {s[i] : i \in DOMAIN s}
Subtree[t \in DOMAIN trees] == {t} \union UNION {Subtree[u] : u \in Elements(trees[t].subLoops)}

\* peelOuterLoops: the loops that the trees in T and their accesses lose.
peelOuterLoops(p, n) ==
  [t \in DOMAIN trees |-> IF t \in UNION {Subtree[u] : u \in p[1]} THEN p[2] ELSE n[t]]
NoPeel == [t \in DOMAIN trees |-> 0]
peelTree(t, n) == [trees[t] EXCEPT !.loops = IF n >= @ THEN 0 ELSE @ - n]
peelLoops(r, n) == [r EXCEPT !.omega = SubSeq(@, n + 1, Len(@))]

\* What stays of the tree around LT, and what is split off behind it.
CutBefore(PT, at) ==
  IF at = 1 THEN [PT EXCEPT !.subLoops = Tail(@), !.paths = Tail(@)]
  ELSE [PT EXCEPT !.subLoops = SubSeq(@, 1, at - 1), !.paths = SubSeq(@, 1, at)]
Behind(PT, at) ==
  IF at = 1 THEN {} ELSE Elements(SubSeq(PT.subLoops, at + 1, Len(PT.subLoops)))
BehindTree(PT, at) ==
  IF Behind(PT, at) = {} THEN <<>>
  ELSE <<Tree(0, SubSeq(PT.subLoops, at + 1, Len(PT.subLoops)), SubSeq(PT.paths, at + 1, Len(PT.paths)), 0)>>

\* Mutant: what is behind keeps the loops around it.
BehindPeelNot(LT) == 0
BehindPeel(LT) == Fewer(LT.loops)

conditionOnLoop ==
  /\ cut # NoTree
  /\ trees[cut].parentLoop # NoTree
  /\ LET LT == trees[cut]
         PT == trees[LT.parentLoop]
     IN  \E at \in {i \in DOMAIN PT.subLoops : PT.subLoops[i] = cut} :
           LET n == peelOuterLoops(<<Behind(PT, at), BehindPeel(LT)>>, peelOuterLoops(<<Elements(LT.subLoops), LT.loops>>, NoPeel))
           IN  /\ trees' = [t \in DOMAIN trees |->
                              IF t = cut THEN [LT EXCEPT !.parentLoop = NoTree]
                              ELSE IF t = LT.parentLoop THEN CutBefore(PT, at)
                              ELSE peelTree(t, n[t])] \o BehindTree(PT, at)
               /\ loopForests' = Append(loopForests, cut) \o [k \in DOMAIN BehindTree(PT, at) |-> Len(trees) + 1]
               /\ refs' = [k \in DOMAIN refs |-> peelLoops(refs[k], n[refs[k].tree])]
               /\ cut' = LT.parentLoop
  /\ UNCHANGED <<func, calls, depth, forest, parsing, loopOmega, running>>

ConditionedOnRoot ==
  /\ cut # NoTree /\ trees[cut].parentLoop = NoTree
  /\ cut' = NoTree
  /\ UNCHANGED <<func, calls, depth, trees, loopForests, forest, parsing, loopOmega, refs, running>>

Pass(f) ==
  /\ func = f
  /\ calls = <<>> /\ depth = Running
  /\ trees = <<>> /\ loopForests = <<>> /\ forest = <<>>
  /\ parsing = <<>> /\ loopOmega = <<>> /\ refs = <<>>
  /\ cut = NoTree /\ running = "new"

TurboInit == \E f \in Functions : Pass(f)

TurboNext ==
  \/ initializeLoopForest \/ PushSubLoop \/ initLoopTree \/ InitFails \/ SubLoopJoins \/ NoPath \/ SubLoopFails
  \/ Plant \/ GiveUp \/ LinkParents \/ ParseForest \/ parseBB \/ ParseSubLoop \/ ParsedLoop
  \/ conditionOnLoop \/ ConditionedOnRoot

TurboSpec == TurboInit /\ [][TurboNext]_turboVars

----------------------------------------------------------------------------
(* Properties.                                                             *)

RealLoops == DOMAIN func.subLoops \ {0}
Enclosed[L \in DOMAIN func.subLoops] == {L} \union UNION {Enclosed[M] : M \in Elements(func.subLoops[L])}
\* Every part of a loop can be represented.
Clean(L) ==
  \A M \in Enclosed[L] :
    /\ func.subLoops[M] = <<>> => M \in func.affine
    /\ \A i \in 1 .. Len(func.subLoops[M]) + 1 : func.direct[M][i]
TreesOf(L) == {t \in DOMAIN trees : trees[t].loop = L}
InForest == UNION {Subtree[t] : t \in Elements(loopForests)}

Planted == running \notin {"new", "plant"} /\ cut = NoTree
Unbroken(L) == \A i \in DOMAIN func.subLoops[L] : func.direct[L][i]

(* The loops that can be represented, and no others, are planted, each in  *)
(* one place of one forest; a tree has a path before each sub loop and one *)
(* behind them (split's assert), except where a sub loop that is itself    *)
(* planted cannot be reached from the one before: NoPath leaves two trees  *)
(* to one path.                                                            *)
LoopsPlanted ==
  /\ Planted =>
       /\ \A L \in RealLoops : TreesOf(L) # {} <=> \E T \in Elements(TopLoops) : L \in Enclosed[T] /\ Clean(L)
       /\ \A L \in RealLoops : \A t, u \in TreesOf(L) : t = u /\ t \in InForest
       /\ \A t \in InForest : \A p, q \in InForest : t \in Elements(trees[p].subLoops) \cap Elements(trees[q].subLoops) => p = q
  /\ (\A L \in DOMAIN func.subLoops : Unbroken(L)) =>
       \A t \in DOMAIN trees : Len(trees[t].paths) = Len(trees[t].subLoops) + 1

\* A place in the program.
IndexIn(L) == CHOOSE i \in DOMAIN func.subLoops[Around(L)] : func.subLoops[Around(L)][i] = L
Place[L \in DOMAIN func.subLoops] ==
  IF L = 0 THEN <<>> ELSE Append(Place[Around(L)], 2 * IndexIn(L))
PlaceOf(at) == Place[at[1]] \o <<2 * at[2] - 1, at[3], at[4]>>
Comes(u, v) == \E k \in DOMAIN u : k \in DOMAIN v /\ u[k] < v[k] /\ \A l \in 1 .. k - 1 : u[l] = v[l]
SameForest(t, u) == \E f \in Elements(loopForests) : {t, u} \subseteq Subtree[f]
Represented(kinds) == \A b \in DOMAIN func.kind : \A k \in DOMAIN Kinds(b) : Kinds(b)[k] \in kinds

\* A loop around a planted one is planted where its trip count is affine, and not
\* planted where it is not: AffineNest counts the loops that the trees hold.
NestsMatch ==
  \A L \in RealLoops :
    TreesOf(L) # {} /\ Around(L) # 0 => (Around(L) \in func.affine <=> TreesOf(Around(L)) # {})

(* In a function whose accesses are all affine, the omegas order those of  *)
(* a forest as the program runs them, and each access of a planted loop is *)
(* found once, as long as no omega breaks the invariant of                 *)
(* ArrayIndex::construct; none does where the nests match, and that they   *)
(* do not is the only way for one to break it.                             *)
AccessesPlaced ==
  Represented({"affine"}) =>
    /\ NestsMatch => running # "undefined"
    /\ \A j, k \in DOMAIN refs :
         j < k /\ SameForest(refs[j].tree, refs[k].tree) =>
           Comes(PlaceOf(refs[j].at), PlaceOf(refs[k].at)) /\ Comes(refs[j].omega, refs[k].omega)
    /\ running = "end" =>
         \A t \in InForest : trees[t].loop # 0 =>
           \A i \in 1 .. Len(func.subLoops[trees[t].loop]) + 1, e \in 1 .. 2 :
             \A k \in DOMAIN Kinds(Spot(trees[t].loop, i, e)) :
               \E j \in DOMAIN refs : refs[j].at = <<trees[t].loop, i, e, k>>

\* The loops around L; a root that has a loop was cut.
Enclosing[L \in DOMAIN func.subLoops] == IF L = 0 THEN {} ELSE {L} \union Enclosing[Around(L)]
CutOff(L) == \E t \in TreesOf(L) : trees[t].parentLoop = NoTree
NoLoopFails == RealLoops \subseteq func.affine /\ \A L \in DOMAIN func.subLoops : \A i \in DOMAIN func.direct[L] : func.direct[L][i]

\* conditionOnLoop took out a loop that parseLoop is still in, by one of its sub loops.
Overtaken == \E k \in DOMAIN parsing : k # Len(parsing) /\ trees[parsing[k].tree].loop # 0 /\ CutOff(trees[parsing[k].tree].loop)

(* In a function whose loops can all be represented, a nest holds the      *)
(* loops around it that are left, also after conditionOnLoop.  The omega   *)
(* of an access has a place for each of them and the whole, except for one *)
(* found below a loop that conditionOnLoop took out while parseLoop was in *)
(* it: the invariant of ArrayIndex::construct breaks there, and only       *)
(* there.                                                                  *)
NestsFit ==
  Planted /\ NoLoopFails =>
    /\ \A t \in InForest :
         trees[t].loop # 0 /\ ~CutOff(trees[t].loop) =>
           trees[t].loops = Cardinality({M \in Enclosing[trees[t].loop] : ~CutOff(M)})
    /\ IF running = "undefined" THEN Overtaken
       ELSE \A k \in DOMAIN refs :
              ~CutOff(trees[refs[k].tree].loop) => Len(refs[k].omega) = trees[refs[k].tree].loops + 1

(* ArrayIndex::construct asserts of every access, invariant(o.size(),      *)
(* numLoops + 1): the omega that parseNest counts has a place for each     *)
(* loop of the nest and the whole.                                         *)
OmegasFit == running # "undefined"
=============================================================================
