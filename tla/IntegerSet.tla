----------------------------- MODULE IntegerSet -----------------------------
(***************************************************************************)
(* What Containers/BitSets.hpp promises: "a set of size_t elements".  A    *)
(* client holds some sets and calls one operation at a time; answer is the *)
(* value the last call returned.  A call outside the contract of the class *)
(* leaves everything unspecified from then on.                             *)
(***************************************************************************)
EXTENDS Integers

CONSTANTS
  Name,   \* the client's sets
  Member, \* what may be inserted
  Limit   \* how many of the least integers dense is asked for at most

VARIABLES set, answer, defined

vars == <<set, answer, defined>>

None == <<>>

Init ==
  /\ set = [s \in Name |-> {}]
  /\ answer = None
  /\ defined = TRUE

Call(s, new, value) ==
  /\ set' = [set EXCEPT ![s] = new]
  /\ answer' = value
  /\ UNCHANGED defined

Insert(s, n) == Call(s, set[s] \union {n}, <<n \in set[s]>>)
Remove(s, n) == Call(s, set[s] \ {n}, <<n \in set[s]>>)
Contains(s, n) == Call(s, set[s], <<n \in set[s]>>)
Union(s, t) == Call(s, set[s] \union set[t], None)
Intersect(s, t) == Call(s, set[s] \intersect set[t], None)
Subtract(s, t) == Call(s, set[s] \ set[t], None)
Dense(s, n) == Call(s, {k \in Member : k < n}, None)

\* The client walks over a set; the walk answers what it passed.
Walk(s) == answer' = <<"passed", set[s]>> /\ UNCHANGED <<set, defined>>

Outside == defined' = FALSE

Next ==
  \/ defined /\ \E s, t \in Name : Union(s, t) \/ Intersect(s, t) \/ Subtract(s, t)
  \/ defined /\ \E s \in Name, n \in Member : Insert(s, n) \/ Remove(s, n) \/ Contains(s, n)
  \/ defined /\ \E s \in Name, n \in 0 .. Limit : Dense(s, n)
  \/ defined /\ \E s \in Name : Walk(s)
  \/ Outside

Spec == Init /\ [][Next]_vars
=============================================================================
