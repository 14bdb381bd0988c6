------------------------------ MODULE Simplex ------------------------------
(***************************************************************************)
(* Math/Simplex.hpp: the tableau that the scheduler and the comparators    *)
(* ask whether constraints on variables that are not negative can be met,  *)
(* and for the solution that is least from the last variable backwards.    *)
(* Rows are <<constant, coefficients>> of equations; row 1 is the cost.    *)
(***************************************************************************)
EXTENDS Tableau

CONSTANTS
  System,  \* the equations to try
  Fixing,  \* the questions of unSatisfiable, as <<offset, values, zero the rest>>
  Top,     \* how far solutions are looked for
  Parts    \* and in which fractions

VARIABLES
  system,     \* the equations that came in
  fixed,      \* the variables that were given a value
  tab,        \* the tableau with the cost row
  basicVars,  \* the basic variable of each constraint, 0 for none
  basicCons,  \* the constraint of each basic variable, 0 for none
  varCap,     \* the columns there is memory for
  numVar,     \* the variables of the problem, without the augment variables
  lexVar,     \* the variable that rLexMin minimizes
  phase,
  met         \* history: the bases since costs were last set

simVars == <<system, fixed, tab, basicVars, basicCons, varCap, numVar, lexVar, phase, met>>

CreateTableau(S, q) ==
  LET sub == IF q = <<>> THEN S ELSE Fixed(S, q[1], q[2], q[3])
  IN  /\ system = S
      /\ fixed = q
      /\ tab = <<Zero(Len(sub[1]))>> \o sub
      /\ numVar = Len(sub[1]) - 1
      /\ varCap = numVar + Len(S)
      /\ basicVars = <<>> /\ basicCons = <<>> /\ lexVar = 0
      /\ phase = "new" /\ met = {}

----------------------------------------------------------------------------
(* initiateFeasible, in steps.                                              *)

Tab == [tab |-> tab, basicVars |-> basicVars, basicCons |-> basicCons]

BecomesTab(t) ==
  /\ tab' = t.tab
  /\ basicVars' = t.basicVars
  /\ basicCons' = t.basicCons

InitiateFeasible ==
  /\ phase = "new"
  /\ \E made \in {Initiated(Tail(tab))} :
       /\ BecomesTab(made)
       /\ phase' = IF Len(made.basicCons) = numVar THEN "feasible" ELSE "augment"
  /\ UNCHANGED <<system, fixed, varCap, numVar, lexVar, met>>

Pivot(c, ev) ==
  /\ BecomesTab(Pivoted(Tab, c, ev))
  /\ met' = met \union {basicVars}

\* runCore on the augment variables, one pivot.
AugmentPivot ==
  LET ev == Entering(tab, Len(tab[1]) - 1)
  IN  /\ phase = "augment" /\ ev # 0
      /\ Pivot(Leaving(tab, ev), ev)
      /\ UNCHANGED <<system, fixed, varCap, numVar, lexVar, phase>>

\* An augment variable that is still basic, at zero, is replaced by the last
\* variable that can be; the columns of the augment variables are dropped.
Replaced(T, bv, bc) ==
  LET z[c \in 0 .. Len(bv)] ==
        IF c = 0 THEN <<T, bv, bc>>
        ELSE LET p == z[c - 1]
                 can == {v \in 1 .. numVar : p[1][c + 1][v + 1] # 0 /\ p[3][v] = 0}
                 v == CHOOSE v \in can : \A u \in can : u <= v
                 S == IF p[1][c + 1][v + 1] < 0 THEN [p[1] EXCEPT ![c + 1] = Scaled(-1, @)] ELSE p[1]
             IN  IF p[2][c] <= numVar \/ can = {} THEN p
                 ELSE <<Zeroed(S, c, v + 1, 2 .. Len(S)), [p[2] EXCEPT ![c] = v], [p[3] EXCEPT ![v] = c]>>
  IN  z[Len(bv)]

AugmentDone ==
  LET p == Replaced(tab, basicVars, basicCons)
  IN  /\ phase = "augment" /\ Entering(tab, Len(tab[1]) - 1) = 0
      /\ IF Feasible(tab)
         THEN /\ tab' = Columns(p[1], 1, numVar + 1)
              /\ basicVars' = p[2]
              /\ basicCons' = SubSeq(p[3], 1, numVar)
              /\ phase' = "feasible"
         ELSE phase' = "infeasible" /\ UNCHANGED <<tab, basicVars, basicCons>>
      /\ met' = {}
      /\ UNCHANGED <<system, fixed, varCap, numVar, lexVar>>

----------------------------------------------------------------------------
(* rLexMinStop: rLexMin for each variable from the last one down to the      *)
(* first.                                                                    *)

\* The cost is the variable as the ones before it make it.
LexStart ==
  LET v == IF phase = "feasible" THEN numVar ELSE lexVar - 1
  IN  /\ phase \in {"feasible", "next"} /\ v > 0
      /\ lexVar' = v
      /\ IF basicCons[v] = 0 \/ v = 1
         THEN phase' = "next" /\ UNCHANGED tab
         ELSE /\ tab' = [tab EXCEPT ![1] =
                           [k \in DOMAIN @ |-> IF k <= v THEN -tab[basicCons[v] + 1][k] ELSE 0]]
              /\ phase' = "lex"
      /\ met' = {}
      /\ UNCHANGED <<system, fixed, basicVars, basicCons, varCap, numVar>>

\* Mutant: a variable whose cost is zero enters, too.
LexEnteringAtZero ==
  LET low == {v \in 1 .. lexVar - 2 : tab[1][v + 1] <= 0} IN IF low = {} THEN 0 ELSE Minimum(low)

\* The range of columns that rLexCore looks at leaves out variable v - 1.
LexEntering == Entering(tab, lexVar - 2)

LexPivot ==
  /\ phase = "lex" /\ LexEntering # 0
  /\ Leaving(tab, LexEntering) # 0
  /\ Pivot(Leaving(tab, LexEntering), LexEntering)
  /\ UNCHANGED <<system, fixed, varCap, numVar, lexVar, phase>>

\* makeZeroBasic: a variable that is basic at zero gives its place to the first
\* one before it that can take it.
MakeZeroBasic ==
  LET c == basicCons[lexVar]
      can == {v \in 1 .. lexVar - 1 : basicCons[v] = 0 /\ tab[c + 1][v + 1] # 0}
      v == Minimum(can)
      S == IF tab[c + 1][v + 1] < 0 THEN [tab EXCEPT ![c + 1] = Scaled(-1, @)] ELSE tab
  IN  /\ phase = "lex"
      /\ IF LexEntering = 0 THEN TRUE ELSE Leaving(tab, LexEntering) = 0
      /\ phase' = "next"
      /\ IF c = 0 THEN UNCHANGED <<tab, basicVars, basicCons>>
         ELSE IF tab[c + 1][1] # 0 \/ can = {} THEN UNCHANGED <<tab, basicVars, basicCons>>
         ELSE /\ tab' = Zeroed(S, c, v + 1, 2 .. Len(S))
              /\ basicVars' = [basicVars EXCEPT ![c] = v]
              /\ basicCons' = [basicCons EXCEPT ![lexVar] = 0, ![v] = c]
      /\ UNCHANGED <<system, fixed, varCap, numVar, lexVar, met>>

SimInit == \E S \in System, q \in Fixing \union {<<>>} : CreateTableau(S, q)

SimNext == InitiateFeasible \/ AugmentPivot \/ AugmentDone \/ LexStart \/ LexPivot \/ MakeZeroBasic

SimSpec == SimInit /\ [][SimNext]_simVars

----------------------------------------------------------------------------
(* Properties.                                                              *)

\* The solution of the tableau, as a numerator and a denominator.
Value(v) == IF basicCons[v] = 0 THEN <<0, 1>> ELSE <<tab[basicCons[v] + 1][1], tab[basicCons[v] + 1][v + 1]>>

\* The fractions y / d that solve the equations with what was fixed.
SubSystem ==
  IF fixed = <<>> THEN system ELSE Fixed(system, fixed[1], fixed[2], fixed[3])
Solutions(d) ==
  LET S == SubSystem
  IN  {y \in [1 .. numVar -> 0 .. Top * d] : \A i \in DOMAIN S : Dot(Tail(S[i]), y) = d * S[i][1]}

(* Every tableau that initiateFeasible or a step of rLexMin leaves behind   *)
(* is canonical, fits into its memory, and its solution is one of the       *)
(* equations that came in: no pivot loses a constraint or makes a constant  *)
(* negative.                                                                *)
CanonicalTableau ==
  phase \notin {"new", "infeasible"} =>
    /\ Len(tab[1]) - 1 <= varCap
    /\ \A i \in Cons(tab) :
         /\ tab[i + 1][1] >= 0
         /\ basicVars[i] \in Vars(tab) =>
              /\ basicCons[basicVars[i]] = i
              /\ tab[i + 1][basicVars[i] + 1] > 0
              /\ \A k \in Cons(tab) : k # i => tab[k + 1][basicVars[i] + 1] = 0
    /\ phase # "augment" =>
         /\ \A i \in Cons(tab) : basicVars[i] \in 1 .. numVar
         /\ LET D[v \in 0 .. numVar] == IF v = 0 THEN 1 ELSE lcm(D[v - 1], Value(v)[2])
                y == [v \in 1 .. numVar |-> Value(v)[1] * Quotient(D[numVar], Value(v)[2])]
            IN  \A i \in DOMAIN SubSystem : Dot(Tail(SubSystem[i]), y) = D[numVar] * SubSystem[i][1]

(* Constraints are called infeasible only when nothing satisfies them: a    *)
(* dependence that is dropped as empty, or a loop bound as redundant, is.   *)
EmptyIfInfeasible == phase = "infeasible" => \A d \in Parts : Solutions(d) = {}

(* The search for a solution is right either way: what it calls a solution *)
(* solves the equations, and what it calls infeasible has none.            *)
TableauSolves == CanonicalTableau /\ EmptyIfInfeasible

(* "Bland's algorithm; guaranteed to terminate": although ties are broken    *)
(* by the order of the rows, no basis is met twice while costs stay as they  *)
(* are, so that pivoting ends.                                               *)
NeverCycles == [][phase = phase' /\ basicVars' # <<>> /\ met' # met => basicVars' \notin met']_simVars

(* "reverse lexicographic ally minimize vars"                               *)
LexMinimal ==
  phase = "next" /\ lexVar = 1 =>
    \A d \in Parts : \A y \in Solutions(d) :
      LET differ == {v \in 1 .. numVar : y[v] * Value(v)[2] # d * Value(v)[1]}
          last == CHOOSE v \in differ : \A u \in differ : u <= v
      IN  differ = {} \/ y[last] * Value(last)[2] > d * Value(last)[1]
=============================================================================
