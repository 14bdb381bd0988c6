------------------------------ MODULE LoopNest ------------------------------
(***************************************************************************)
(* Loops.hpp: AffineLoopNest, a polyhedron A x >= 0 over the constant one, *)
(* the symbols and the loops from the outermost in.  A nest is asked       *)
(* whether its innermost loop would run if a loop around it went one       *)
(* further (zeroExtraItersUponExtending), which removes the other loops    *)
(* one at a time, or it is made into another nest.                         *)
(***************************************************************************)
EXTENDS Polyhedra

CONSTANTS
  Questions,  \* [op, nest] and what op takes: loop and lower, or R and offsets
  Steps       \* values of a loop

VARIABLES
  question,
  tmp,       \* the nest of the loop and the innermost one
  reply      \* the answer, or the nest that was made

nestVars == <<question, tmp, reply>>

NoReply == <<>>

\* getNumSymbols: the columns before the loops, the constant among them.
numConst == Len(original.A[1]) - original.dyn

----------------------------------------------------------------------------
(* zeroExtraItersUponExtending.                                            *)

\* Loop v, from zero, is eliminated; pruneBounds follows.
Remove(v) ==
  /\ poly' = [poly EXCEPT !.A = fourierMotzkin(@, numConst + v + 1, poly.nonNegative), !.dyn = @ - 1]
  /\ plan' = "prune"
  /\ UNCHANGED <<original, before, left, cmp, oj, oi>>

Settled == question.op = "extend" /\ plan \in {"new", "pruned", "emptied"} /\ reply = NoReply

\* tmp loses the first loop that is neither the one asked about nor the innermost.
RemoveOthers ==
  /\ Settled /\ tmp = <<>> /\ poly.dyn > 2
  /\ Remove(IF original.dyn - poly.dyn >= question.loop THEN 1 ELSE 0)
  /\ UNCHANGED nestVars

Independent == \A n \in DOMAIN poly.A : poly.A[n][numConst + 1] = 0 \/ poly.A[n][numConst + 2] = 0

IndependentOf ==
  /\ Settled /\ tmp = <<>> /\ poly.dyn = 2 /\ Independent
  /\ reply' = <<FALSE>>
  /\ UNCHANGED <<polyVars, question, tmp>>

\* margi: the bounds of the loop asked about.
RemoveInner ==
  /\ Settled /\ tmp = <<>> /\ poly.dyn = 2 /\ ~Independent
  /\ tmp' = <<poly>>
  /\ Remove(1)
  /\ UNCHANGED <<question, reply>>

\* What bounds the innermost loop, with the loop asked about set to a bound.
Inner(rows) == [tmp[1] EXCEPT !.A = SelectSeq(rows, LAMBDA u : u[numConst + 2] # 0)]
Put(u, b, d, bound) == [k \in DOMAIN u |-> IF k = Len(u) \/ d = 0 THEN u[k] ELSE b * u[k] - d * bound[k]]
Extended(g, sign) ==
  LET bound == Scaled(sign, [g EXCEPT ![1] = @ + 1])
  IN  Inner([n \in DOMAIN tmp[1].A |->
               Put(tmp[1].A[n], bound[numConst + 1], tmp[1].A[n][numConst + 1], bound)])
\* The implicit lower bound is extended to -1.
BelowZero ==
  Inner([n \in DOMAIN tmp[1].A |->
           LET u == tmp[1].A[n] IN [u EXCEPT ![1] = @ - u[numConst + 1], ![numConst + 1] = 0]])

calcIsEmpty(p) == isEmpty(Comparator(p))

\* Mutant: the bounds on the other side are extended.
OutwardBackwards(g, sign) == sign * g[numConst + 1] < 0
Outward(g, sign) == sign * g[numConst + 1] > 0

zeroExtraIters ==
  LET sign == IF question.lower THEN 1 ELSE -1
  IN  /\ \A c \in DOMAIN poly.A : Outward(poly.A[c], sign) => calcIsEmpty(Extended(poly.A[c], sign))
      /\ poly.nonNegative /\ question.lower => calcIsEmpty(BelowZero)

Extend ==
  /\ Settled /\ tmp # <<>> /\ poly.dyn = 1
  /\ reply' = <<zeroExtraIters>>
  /\ UNCHANGED <<polyVars, question, tmp>>

----------------------------------------------------------------------------
(* A nest out of a nest.                                                   *)

LoopPart(u) == SubSeq(u, numConst + 1, Len(u))
FixedPart(u) == SubSeq(u, 1, numConst)

\* Mutant: the offsets are added.
ShiftedForth(u, offsets) == Dot(LoopPart(u), offsets)
Shifted(u, offsets) == -Dot(LoopPart(u), offsets)

\* rotate: A(_, loops) * R, moved by the offsets; the rows of R are the lower bounds.
rotated(u, R, offsets) ==
  LET v == FixedPart(u) \o Times(<<LoopPart(u)>>, R)[1] IN [v EXCEPT ![1] = @ + Shifted(u, offsets)]
LowerBounds(p) == [k \in 1 .. p.dyn |-> Unit(numConst + p.dyn, numConst + k)]
rotate(p, R, offsets) ==
  LET rows == p.A \o (IF p.nonNegative THEN LowerBounds(p) ELSE <<>>)
  IN  [p EXCEPT !.A = [n \in DOMAIN rows |-> rotated(rows[n], R, offsets)], !.nonNegative = FALSE]

explicitLowerBounds(p) == [p EXCEPT !.A = IF p.nonNegative THEN @ \o LowerBounds(p) ELSE @, !.nonNegative = FALSE]

\* addZeroLowerBounds does nothing to a nest without bounds or with implicit ones.
addZeroLowerBounds(p) == IF p.A = <<>> \/ p.nonNegative THEN p ELSE [p EXCEPT !.A = @ \o LowerBounds(p)]

\* removeInnerMost: the bounds of the innermost loop go.
removeInnerMost(p) ==
  LET z[m \in 1 .. Len(p.A) + 1] ==
        IF m > Len(p.A) THEN p.A
        ELSE LET B == z[m + 1] IN IF B[m][Len(B[m])] # 0 THEN eraseConstraint(B, m) ELSE B
  IN  [p EXCEPT !.A = [n \in DOMAIN z[1] |-> SubSeq(z[1][n], 1, Len(z[1][n]) - 1)], !.dyn = @ - 1]

Make ==
  /\ question.op # "extend" /\ reply = NoReply
  /\ reply' = <<CASE question.op = "rotate" -> rotate(poly, question.R, question.offsets)
                  [] question.op = "explicit" -> explicitLowerBounds(poly)
                  [] question.op = "addZero" -> addZeroLowerBounds(poly)
                  [] question.op = "removeInner" -> removeInnerMost(poly)>>
  /\ UNCHANGED <<polyVars, question, tmp>>

NestIdle == question = [op |-> "none"] /\ tmp = <<>> /\ reply = NoReply
NestAsks(q) ==
  /\ PolyStart(q.nest)
  /\ question = q /\ tmp = <<>> /\ reply = NoReply
NestInit == \E q \in Questions : NestAsks(q)

NestNext ==
  \/ RemoveOthers \/ IndependentOf \/ RemoveInner \/ Extend \/ Make
  \/ (((plan = "prune" /\ pruneBounds) \/ Compare \/ CompareVariables) /\ UNCHANGED nestVars)

----------------------------------------------------------------------------
(* Properties.                                                             *)

\* Values of the symbols, then of the loops.
Vectors(n) == [1 .. n -> Reach]
Inside(p, x) ==
  /\ \A n \in DOMAIN p.A : Dot(p.A[n], x) >= 0
  /\ p.nonNegative => \A k \in numConst + 1 .. Len(x) : x[k] >= 0

(* When the innermost loop is said to have no extra iteration, it has none *)
(* one beyond the last value of the loop asked about, whatever the symbols *)
(* are, where the bounds of that loop have the coefficient one: others are *)
(* scaled, but not the innermost loop beside them.                         *)
UnitBounds == \A c \in DOMAIN poly.A : poly.A[c][numConst + 1] \in -1 .. 1
ZeroExtraTruthful ==
  question.op = "extend" /\ reply = <<TRUE>> /\ UnitBounds =>
    \A s \in Vectors(numConst - 1) :
      LET at(i) == <<1>> \o s \o <<i>>
          runs == {i \in Steps : Inside(poly, at(i))}
          next == {i \in Steps : (IF question.lower THEN i + 1 ELSE i - 1) \in runs} \ runs
      IN  \A i \in next : ~\E j \in Steps :
            /\ poly.nonNegative => j >= 0
            /\ \A n \in DOMAIN Inner(tmp[1].A).A : Dot(Inner(tmp[1].A).A[n], at(i) \o <<j>>) >= 0

(* The nest that is made has the points that it should: an iteration y of  *)
(* a rotated nest is R y - offsets in the one it comes from, and without   *)
(* the innermost loop every bound of the others is kept.                   *)
NestKeepsPoints ==
  question.op \notin {"none", "extend"} /\ reply # NoReply =>
    \A s \in Vectors(numConst - 1), y \in Vectors(original.dyn) :
      LET x == <<1>> \o s \o y
          old == <<1>> \o s \o [k \in DOMAIN y |-> Dot(question.R[k], y) - question.offsets[k]]
      IN  CASE question.op = "rotate" -> Inside(reply[1], x) = Inside(original, old)
            [] question.op \in {"explicit", "addZero"} ->
                 Inside(reply[1], x) = Inside([original EXCEPT !.nonNegative = TRUE], x)
            [] question.op = "removeInner" ->
                 Inside(reply[1], SubSeq(x, 1, Len(x) - 1)) =
                   Inside([original EXCEPT !.A = SelectSeq(@, LAMBDA u : u[Len(u)] = 0)], [x EXCEPT ![Len(x)] = 0])
=============================================================================
