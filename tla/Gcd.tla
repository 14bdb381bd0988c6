-------------------------------- MODULE Gcd --------------------------------
(***************************************************************************)
(* Math/GreatestCommonDivisor.hpp and VectorGreatestCommonDivisor.hpp: the *)
(* integer functions that everything exact in the code is built on.        *)
(***************************************************************************)
EXTENDS Integers, Sequences

constexpr_abs(x) == IF x < 0 THEN -x ELSE x
Least(a, b) == IF a < b THEN a ELSE b
Most(a, b) == IF a > b THEN a ELSE b

\* Division of C++, which rounds towards zero.
Quotient(a, b) ==
  IF (a < 0) = (b < 0) THEN constexpr_abs(a) \div constexpr_abs(b) ELSE -(constexpr_abs(a) \div constexpr_abs(b))

copySign(x, s) == IF s >= 0 THEN constexpr_abs(x) ELSE -constexpr_abs(x)

countr_zero[x \in Nat] == IF x % 2 = 1 \/ x = 0 THEN 0 ELSE 1 + countr_zero[x \div 2]

\* The loop of the binary algorithm; b is odd.
binaryGcd[a, b \in Nat] ==
  IF a = 0 THEN b
  ELSE LET odd == a \div 2 ^ countr_zero[a]
       IN  binaryGcd[constexpr_abs(odd - b), Least(odd, b)]

gcd(x, y) ==
  LET a == constexpr_abs(x)
      b == constexpr_abs(y)
      k == Least(countr_zero[a], countr_zero[b])
  IN  IF x = 0 THEN b
      ELSE IF y = 0 THEN a
      ELSE binaryGcd[a, b \div 2 ^ countr_zero[b]] * 2 ^ k

lcm(x, y) ==
  LET a == constexpr_abs(x)
      b == constexpr_abs(y)
  IN  IF a = 1 THEN b ELSE IF b = 1 \/ a = b THEN a ELSE a * (b \div gcd(a, b))

\* The loop of dgcdx: remainders and the coefficients that make them.
euclid[r, s, t \in Int \X Int] ==
  IF r[2] = 0 THEN <<r, s, t>>
  ELSE LET q == Quotient(r[1], r[2])
       IN  euclid[<<r[2], r[1] - q * r[2]>>, <<s[2], s[1] - q * s[2]>>, <<t[2], t[1] - q * t[2]>>]

\* The divisor, its two coefficients, and the two numbers divided by it.
Bezout(e, a, b) == <<e[1][1], e[2][1], e[3][1], copySign(e[3][2], a), copySign(e[2][2], b)>>
dgcdx(a, b) == Bezout(euclid[<<a, b>>, <<1, 0>>, <<0, 1>>], a, b)

gcdx(a, b) == SubSeq(dgcdx(a, b), 1, 3)
divgcd(a, b) == SubSeq(dgcdx(a, b), 4, 5)

\* Of a vector; the loop may stop at one.
gcdOf(v) == LET g[n \in 0 .. Len(v)] == IF n = 0 THEN 0 ELSE gcd(g[n - 1], v[n]) IN g[Len(v)]
lcmOf(v) == LET l[n \in 1 .. Len(v)] == IF n = 1 THEN v[1] ELSE lcm(l[n - 1], v[n]) IN l[Len(v)]

\* A vector of one element becomes one, whatever its sign.
normalizeByGCD(v) ==
  LET g == gcdOf(v)
  IN  IF Len(v) = 1 THEN <<1>> ELSE IF g > 1 THEN [n \in DOMAIN v |-> Quotient(v[n], g)] ELSE v

----------------------------------------------------------------------------
(* Vectors and matrices, as sequences of rows.                             *)

Combine(x, u, y, v) == [k \in DOMAIN u |-> x * u[k] + y * v[k]]
Scaled(x, u) == [k \in DOMAIN u |-> x * u[k]]
Dot(u, v) == LET d[k \in 0 .. Len(u)] == IF k = 0 THEN 0 ELSE d[k - 1] + u[k] * v[k] IN d[Len(u)]
Column(M, c) == [i \in DOMAIN M |-> M[i][c]]
Times(M, N) == [i \in DOMAIN M |-> [j \in DOMAIN N[1] |-> Dot(M[i], Column(N, j))]]
Columns(M, from, to) == [i \in DOMAIN M |-> SubSeq(M[i], from, to)]
SwapRows(M, i, j) == [M EXCEPT ![i] = M[j], ![j] = M[i]]
Identity(n) == [i \in 1 .. n |-> [j \in 1 .. n |-> IF i = j THEN 1 ELSE 0]]
Zero(n) == [k \in 1 .. n |-> 0]
IsZero(u) == \A k \in DOMAIN u : u[k] = 0
=============================================================================
