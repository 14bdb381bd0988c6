------------------------------ MODULE Tableau ------------------------------
(***************************************************************************)
(* The steps of Math/Simplex.hpp on a tableau: a cost row and rows of      *)
(* <<constant, coefficients>>, the basic variable of each constraint and   *)
(* the constraint of each basic variable, with 0 for none.                 *)
(***************************************************************************)
EXTENDS Elimination, FiniteSets

Tableaux == [tab : Seq(Seq(Int)), basicVars : Seq(Int), basicCons : Seq(Int)]

Vars(T) == 1 .. Len(T[1]) - 1
Cons(T) == 1 .. Len(T) - 1
Minimum(S) == CHOOSE x \in S : \A y \in S : x <= y

\* The row of the only number of a column, if that number is positive.
SingleRow(C, v) ==
  LET full == {i \in DOMAIN C : C[i][v + 1] # 0}
  IN  IF Cardinality(full) = 1 /\ C[Minimum(full)][v + 1] > 0 THEN Minimum(full) ELSE 0

\* What the equations leave, their constants made positive.
PositiveRows(S, numVar) ==
  [i \in 1 .. numNonZeroRows(S, numVar + 1) |-> IF S[i][1] >= 0 THEN S[i] ELSE Scaled(-1, S[i])]
SolvedRows(sub, numVar) == PositiveRows(solveColumns(sub, 2, numVar + 1), numVar)

\* The basic variable that each row has already, 0 for none.
FoundBasic(single, m) ==
  [i \in 1 .. m |-> LET found == {v \in DOMAIN single : single[v] = i}
                     IN  IF found = {} THEN 0 ELSE Minimum(found)]
RowsWithout(bv) == SelectSeq([i \in DOMAIN bv |-> i], LAMBDA i : bv[i] = 0)

CostOf(C, aug, n) ==
  LET sum[k \in 0 .. Len(aug)] == IF k = 0 THEN Zero(n) ELSE Combine(1, sum[k - 1], -1, C[aug[k]])
  IN  sum[Len(aug)]

\* A variable is added for each row of aug, at a cost.
WithAugments(C, single, bv, aug) ==
  [basicVars |-> [i \in DOMAIN C |-> IF bv[i] # 0 THEN bv[i]
                                     ELSE Len(single) + (CHOOSE k \in DOMAIN aug : aug[k] = i)],
   basicCons |-> [v \in DOMAIN single |-> IF single[v] # 0 /\ bv[single[v]] = v THEN single[v] ELSE 0] \o aug,
   tab |-> <<CostOf(C, aug, Len(single) + 1) \o Zero(Len(aug))>>
             \o [i \in DOMAIN C |-> C[i] \o [k \in DOMAIN aug |-> IF aug[k] = i THEN 1 ELSE 0]]]

\* initiateFeasible up to its simplex, in three stages.
AugmentedRows(C, single, bv) == WithAugments(C, single, bv, RowsWithout(bv))
BasicRows(C, single) == AugmentedRows(C, single, FoundBasic(single, Len(C)))
SingleRows(C, numVar) == BasicRows(C, [v \in 1 .. numVar |-> SingleRow(C, v)])
Initiated(sub) == SingleRows(SolvedRows(sub, Len(sub[1]) - 1), Len(sub[1]) - 1)

\* Mutant: the second variable is the first one that is looked at.
EnteringSecond(T, n) ==
  LET neg == {v \in 2 .. n : T[1][v + 1] < 0} IN IF neg = {} THEN 0 ELSE Minimum(neg)

\* getEnteringVariable, among the first n variables; 0 for none.
Entering(T, n) ==
  LET neg == {v \in 1 .. n : T[1][v + 1] < 0} IN IF neg = {} THEN 0 ELSE Minimum(neg)

\* Mutant: the row with the largest coefficient leaves.
LeavingLargest(T, ev) ==
  LET cand == {i \in Cons(T) : T[i + 1][ev + 1] > 0}
      best == {i \in cand : \A k \in cand : T[k + 1][ev + 1] <= T[i + 1][ev + 1]}
  IN  IF cand = {} THEN 0 ELSE Minimum(best)

\* getLeavingVariable: the first row with the least ratio; 0 for none.
Leaving(T, ev) ==
  LET cand == {i \in Cons(T) : T[i + 1][ev + 1] > 0}
      best == {i \in cand : \A k \in cand : T[i + 1][1] * T[k + 1][ev + 1] <= T[k + 1][1] * T[i + 1][ev + 1]}
  IN  IF cand = {} THEN 0 ELSE Minimum(best)

\* The rows of set, zeroed at column k by constraint c.
Zeroed(T, c, k, set) ==
  [i \in DOMAIN T |-> IF i \in set /\ i # c + 1 THEN zeroWithRowOp(T[i], T[c + 1], k, 0).row ELSE T[i]]

\* makeBasic: ev takes the place of the basic variable of constraint c.
Pivoted(t, c, ev) ==
  [tab |-> Zeroed(t.tab, c, ev + 1, DOMAIN t.tab),
   basicVars |-> [t.basicVars EXCEPT ![c] = ev],
   basicCons |-> [t.basicCons EXCEPT ![t.basicVars[c]] = 0, ![ev] = c]]

\* runCore on the augment variables, which have the only costs, to its end.
Augmented[t \in Tableaux] ==
  LET ev == Entering(t.tab, Len(t.tab[1]) - 1)
  IN  IF ev = 0 THEN t ELSE Augmented[Pivoted(t, Leaving(t.tab, ev), ev)]

\* initiateFeasible succeeds.
Feasible(T) == Head(Head(T)) = 0

\* positiveVariables(A) has a value: A x <= its first column for some x that is
\* nowhere negative.  slackEqualityConstraints puts a slack before each row.
positiveVariables(A) ==
  Feasible(Augmented[Initiated(
    [i \in DOMAIN A |-> <<A[i][1]>> \o Identity(Len(A))[i] \o Tail(A[i])])].tab)

\* unSatisfiable and unSatisfiableZeroRem: some variables move to the constants,
\* and those behind them stay or are left out.
Fixed(S, off, x, zeroRem) ==
  [i \in DOMAIN S |->
     LET u == S[i]
         rest == IF zeroRem THEN <<>> ELSE SubSeq(u, 2 + off + Len(x), Len(u))
     IN  <<u[1] - Dot(SubSeq(u, 2 + off, 1 + off + Len(x)), x)>> \o SubSeq(u, 2, 1 + off) \o rest]
=============================================================================
