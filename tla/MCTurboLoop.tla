---------------------------- MODULE MCTurboLoop ----------------------------
(***************************************************************************)
(* Functions of up to five loops in nests of up to three: any of them with *)
(* trip counts that are not affine, a path that is missing, or an access   *)
(* that cannot be represented.                                             *)
(***************************************************************************)
EXTENDS TurboLoop, TLC, FiniteSets

shapes == {
  0 :> <<1, 3>> @@ 1 :> <<2>> @@ 2 :> <<>> @@ 3 :> <<>>,
  0 :> <<1>> @@ 1 :> <<2, 3, 4>> @@ 2 :> <<>> @@ 3 :> <<>> @@ 4 :> <<>>,
  0 :> <<1>> @@ 1 :> <<2, 4>> @@ 2 :> <<3>> @@ 3 :> <<>> @@ 4 :> <<5>> @@ 5 :> <<>>,
  0 :> <<1, 2, 3>> @@ 1 :> <<>> @@ 2 :> <<>> @@ 3 :> <<>>}
Gaps(s) == UNION {{<<L, i>> : i \in 1 .. Len(s[L]) + 1} : L \in DOMAIN s}
Function(s, rough, missing, b, kind) ==
  [subLoops |-> s, affine |-> DOMAIN s \ ({0} \union rough),
   direct |-> [L \in DOMAIN s |-> [i \in 1 .. Len(s[L]) + 1 |-> <<L, i>> \notin missing]],
   entered |-> Elements(s[0]), left |-> Elements(s[0]),
   kind |-> [x \in {<<g[1], g[2], e>> : g \in Gaps(s), e \in 1 .. 2} |->
               IF x = b THEN <<"affine", kind, "affine">> ELSE <<"affine">>]]
NoFunction == Function(0 :> <<>>, {}, {}, <<>>, "affine")
functions ==
  UNION {{Function(s, rough, missing, <<>>, "affine") :
            rough \in {R \in SUBSET (DOMAIN s \ {0}) : Cardinality(R) < 3},
            missing \in {M \in SUBSET Gaps(s) : Cardinality(M) < 2}} : s \in shapes}
    \union
  UNION {{Function(s, {}, {}, <<g[1], g[2], e>>, kind) : g \in Gaps(s), e \in 1 .. 2, kind \in {"noBase", "notInst"}} : s \in shapes}
    \union
  {[Function(s, {}, {}, <<>>, "affine") EXCEPT !.entered = X, !.left = Y] :
     s \in {s \in shapes : Len(s[0]) > 1}, X \in SUBSET (1 .. 3), Y \in SUBSET (1 .. 3)}
=============================================================================
