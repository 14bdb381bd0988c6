---------------------------- MODULE MCGraphBuild ----------------------------
(***************************************************************************)
(* Blocks of two loads, two operations and up to three stores of two       *)
(* arrays.  Operation o uses x and y, p uses o, or a constant is stored.   *)
(* Blocks of a phi node, what it becomes and two stores of either.         *)
(***************************************************************************)
EXTENDS GraphBuild, TLC

Program(order, loads, arrays, uses) ==
  [memory |-> order, loads |-> loads, array |-> arrays,
   loops |-> [u \in DOMAIN arrays |-> IF u \in {"y", "s"} THEN 2 ELSE 1], operands |-> uses]

NoUse == <<>>
twoStores ==
  {Program(n[1], {"x", "y"}, [x |-> "A", y |-> n[2], s |-> n[3], t |-> "A"],
           [x |-> NoUse, y |-> NoUse, o |-> o, p |-> <<"o", "y">>, s |-> <<v[1]>>, t |-> <<v[2]>>]) :
     n \in {<<<<"x", "y", "s", "t">>, "A", "B">>, <<<<"x", "y", "s", "t">>, "B", "A">>, <<<<"x", "s", "t">>, "A", "A">>},
     o \in {<<>>, <<"x", "y">>, <<"x", "x">>}, v \in {<<"x", "o">>, <<"o", "p">>, <<"p", "o">>, <<"p", "p">>}}
threeStores ==
  {Program(<<"x", "s", "t", "u">>, {"x"}, [x |-> "A", s |-> "B", t |-> "A", u |-> d],
           [x |-> NoUse, o |-> <<"x">>, p |-> <<"o", "x">>, q |-> q, s |-> <<"o">>, t |-> <<"p">>, u |-> <<"q">>]) :
     d \in {"A", "B"}, q \in {<<"o", "p">>, <<"x">>}}
\* i and o are a phi node and what it is in the next iteration, or x, y or i again.
counters ==
  {Program(<<"x", "s", "t">>, {"x"}, [x |-> "B", s |-> "A", t |-> d],
           [x |-> NoUse, i |-> i, o |-> <<"i">>, s |-> <<v[1]>>, t |-> <<v[2]>>]) :
     d \in {"A", "B"}, i \in {<<"o">>, <<"x", "o">>}, v \in {<<"i", "o">>, <<"o", "o">>, <<"x", "i">>}}
blocks == twoStores \union threeStores \union counters
directions == {{}, {TRUE}, BOOLEAN}

NoProgram == Program(<<>>, {}, <<>>, <<>>)
=============================================================================
