----------------------------- MODULE MCSimplex -----------------------------
(***************************************************************************)
(* Two equations on three variables, all of them or with the first one     *)
(* fixed; and equations on four for the least solution.                    *)
(***************************************************************************)
EXTENDS Simplex

\* The first column is the constant.
systems == ({0, 2} \X (-1 .. 2) \X (-1 .. 1) \X (-1 .. 1)) \X ({-1, 2} \X (-1 .. 2) \X {-1, 1, 2} \X (-1 .. 1))
questions == {<<0, <<1>>, FALSE>>, <<1, <<1>>, TRUE>>}
fractions == {2, 3}

\* x_4 is the sum of x_1 and x_2, or their difference.
lexSystems ==
  {<<<<0, a, b, 0, 1>>, <<1, c, d, 1, 1>>>> : a, b \in {-1, 1}, c, d \in -1 .. 1}
noFixing == {}
=============================================================================
