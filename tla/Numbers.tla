------------------------------ MODULE Numbers ------------------------------
(***************************************************************************)
(* Math/Rational.hpp, whose sums and products are checked for overflow,    *)
(* and Math/LinearDiophantine.hpp.  An accumulator goes through any        *)
(* sequence of operations; integers have Bits bits.                        *)
(***************************************************************************)
EXTENDS Gcd

CONSTANTS
  Bits,     \* the width of an integer
  Operand,  \* the rationals that the client computes with, as <<n, d>>
  Equation  \* what is asked of linearDiophantine, as <<d, a>>

ASSUME NumbersAssumption == Bits \in Nat /\ Bits > 1

VARIABLES
  acc,      \* numerator and denominator of the accumulator
  exact,    \* history: what the last operation makes of it, by its definition
  sane,     \* history: no operation left what the code checks for
  solved    \* what was asked of linearDiophantine last, and what it returned

numVars == <<acc, exact, sane, solved>>

Overflows(x) == ~(-(2 ^ (Bits - 1)) <= x /\ x < 2 ^ (Bits - 1))
Lowest == -(2 ^ (Bits - 1))
Empty == <<>>

\* create: a rational in lowest terms, with the sign on top.
create(n, d) ==
  LET g == gcd(n, d)
  IN  IF n = 0 THEN <<0, 1>>
      ELSE IF d > 0 THEN <<Quotient(n, g), Quotient(d, g)>> ELSE <<Quotient(-n, g), Quotient(-d, g)>>

\* Mutant: the sum over the common denominator is not reduced.
sumUnreduced(x, y, sign) ==
  LET p == divgcd(x[2], y[2])
      a == x[1] * p[2]
      b == y[1] * p[1]
      d == x[2] * p[2]
      n == a + sign * b
  IN  IF Overflows(a) \/ Overflows(b) \/ Overflows(d) \/ Overflows(n) THEN Empty
      ELSE IF n = 0 THEN <<0, 1>> ELSE <<n, d>>

\* safeAdd with sign 1, safeSub with sign -1; Empty for an overflow.
safeSum(x, y, sign) ==
  LET p == divgcd(x[2], y[2])
      a == x[1] * p[2]
      b == y[1] * p[1]
      d == x[2] * p[2]
      n == a + sign * b
  IN  IF Overflows(a) \/ Overflows(b) \/ Overflows(d) \/ Overflows(n) THEN Empty
      ELSE IF n = 0 THEN <<0, 1>> ELSE divgcd(n, d)

safeMul(x, y) ==
  LET p == divgcd(x[1], y[2])
      q == divgcd(x[2], y[1])
      n == p[1] * q[2]
      d == q[1] * p[2]
  IN  IF x[1] = 0 \/ y[1] = 0 THEN <<0, 1>>
      ELSE IF Overflows(n) \/ Overflows(d) THEN Empty ELSE <<n, d>>

\* The product with an integer.
safeScale(x, y) ==
  LET p == divgcd(x[2], y)
      n == x[1] * p[2]
  IN  IF Overflows(n) THEN Empty ELSE <<n, p[1]>>

inv(x) == IF x[1] > 0 THEN <<x[2], x[1]>> ELSE <<-x[2], -x[1]>>

\* n / d in lowest terms, by the definition.
InLowestTerms(n, d) ==
  LET common == {k \in 1 .. constexpr_abs(d) : n % k = 0 /\ d % k = 0}
      g == copySign(CHOOSE k \in common : \A j \in common : j <= k, d)
  IN  <<Quotient(n, g), Quotient(d, g)>>

Unasked == <<0, <<1>>, <<0>>>>

\* The result of a checked operation; an overflow leaves the accumulator alone.
Becomes(x, n, d) ==
  /\ solved = Unasked
  /\ IF x = Empty THEN UNCHANGED <<acc, exact>> ELSE acc' = x /\ exact' = InLowestTerms(n, d)
  /\ sane' = (x = Empty \/ x[1] # Lowest)
  /\ UNCHANGED solved

Create(n, d) == Becomes(create(n, d), n, d)

Add(y) == Becomes(safeSum(acc, y, 1), acc[1] * y[2] + y[1] * acc[2], acc[2] * y[2])
Sub(y) == Becomes(safeSum(acc, y, -1), acc[1] * y[2] - y[1] * acc[2], acc[2] * y[2])
Mul(y) == Becomes(safeMul(acc, y), acc[1] * y[1], acc[2] * y[2])
Scale(k) == Becomes(safeScale(acc, k), acc[1] * k, acc[2])

\* safeDiv takes the product out of the optional before it looks at it: an
\* overflow is undefined, and div never reports one.
Div(y) ==
  /\ y[1] # 0 /\ solved = Unasked
  /\ LET x == safeMul(acc, inv(y))
     IN  IF x = Empty
         THEN sane' = FALSE /\ UNCHANGED <<acc, exact, solved>>
         ELSE Becomes(x, acc[1] * y[2], acc[2] * y[1])

\* fnmadd: acc - a * b, where either step may overflow.
Fnmadd(a, b) ==
  LET ab == safeMul(a, b)
  IN  Becomes(IF ab = Empty THEN Empty ELSE safeSum(acc, ab, -1),
              acc[1] * a[2] * b[2] - a[1] * b[1] * acc[2], acc[2] * a[2] * b[2])

----------------------------------------------------------------------------
(* linearDiophantine(d, a): some x with a . x = d, or Empty.               *)

dio1(d, a) ==
  IF d = 0 THEN <<0>>
  ELSE IF a # 0 /\ a * Quotient(d, a) = d THEN <<Quotient(d, a)>> ELSE Empty

\* Mutant: that the divisor divides the right side is taken for granted.
dio2Unchecked(c, a, b) ==
  LET g == gcdx(a, b)
      q == Quotient(c, g[1])
  IN  IF c = 0 THEN <<0, 0>> ELSE IF a = 0 /\ b = 0 THEN Empty ELSE <<g[2] * q, g[3] * q>>

dio2(c, a, b) ==
  LET g == gcdx(a, b)
      q == Quotient(c, g[1])
  IN  IF c = 0 THEN <<0, 0>>
      ELSE IF a = 0 /\ b = 0 THEN Empty
      ELSE IF q * g[1] = c THEN <<g[2] * q, g[3] * q>> ELSE Empty

\* The first two coefficients are replaced by their divisor, or left out when
\* both are zero.
dioOf[d \in Int, a \in Seq(Int)] ==
  LET q    == gcd(a[1], a[2])
      rest == SubSeq(a, 3, Len(a))
      none == dioOf[d, rest]
      some == dioOf[d, <<q>> \o rest]
      two  == dio2(some[1], Quotient(a[1], q), Quotient(a[2], q))
  IN  IF Len(a) = 1 THEN dio1(d, a[1])
      ELSE IF Len(a) = 2 THEN dio2(d, a[1], a[2])
      ELSE IF a[1] = 0 /\ a[2] = 0 THEN IF none = Empty THEN Empty ELSE <<0, 0>> \o none
      ELSE IF some = Empty THEN Empty
      ELSE IF two = Empty THEN Empty ELSE two \o Tail(some)

linearDiophantine(d, a) == dioOf[d, a]

\* The accumulator has no part in it: one is followed, or the other.
Solve(d, a) ==
  /\ acc = <<0, 1>> /\ solved = Unasked
  /\ solved' = <<d, a, linearDiophantine(d, a)>>
  /\ UNCHANGED <<acc, exact, sane>>

NumInit ==
  /\ acc = <<0, 1>>
  /\ exact = <<0, 1>>
  /\ sane = TRUE
  /\ solved = Unasked

NumNext ==
  \/ \E y \in Operand :
       \/ Create(y[1], y[2])
       \/ Add(y) \/ Sub(y) \/ Mul(y) \/ Scale(y[1]) \/ Div(y)
       \/ \E b \in Operand : Fnmadd(y, b)
  \/ \E e \in Equation : Solve(e[1], e[2])

----------------------------------------------------------------------------
(* Properties.                                                             *)

(* A rational is the exact result of the operation that made it, in lowest *)
(* terms with a positive denominator that fits, however many operations    *)
(* came before and whichever of them overflowed; the simplex's pivots and  *)
(* comparisons by == rely on the lowest terms.                             *)
ExactRational ==
  sane =>
    /\ acc = exact
    /\ ~Overflows(acc[1]) /\ ~Overflows(acc[2])

(* linearDiophantine returns a solution when there is one, which is when   *)
(* the greatest common divisor of the coefficients divides the right side. *)
EquationSolved ==
  LET d == solved[1]  a == solved[2]  x == solved[3]
      common == {k \in 1 .. constexpr_abs(d) : \A i \in DOMAIN a : a[i] % k = 0}
      divides == d = 0 \/ \E k \in common : /\ d % k = 0
                                            /\ \E u \in {-1, 0, 1} \X (-12 .. 12) \X (-12 .. 12) :
                                                 Dot(a, SubSeq(u, 1, Len(a))) = k
  IN  IF x = Empty THEN ~divides ELSE Len(x) = Len(a) /\ Dot(a, x) = d

(* What is computed from integers is exact or is known to have overflowed: *)
(* rationals, and the solutions of Diophantine equations.                  *)
NumbersExact == ExactRational /\ EquationSolved
=============================================================================
