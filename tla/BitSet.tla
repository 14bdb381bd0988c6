------------------------------- MODULE BitSet -------------------------------
(***************************************************************************)
(* Containers/BitSets.hpp: sets of integers as words of bits, in a fixed   *)
(* array (the sets of nodes, edges and accesses) or in a Vector that grows *)
(* (BitSet<>), and the iterator that walks over them.  A word is the set   *)
(* of its one bits.  Asserts are compiled out of the pass, so that what    *)
(* they guard against is a call outside the contract.                      *)
(***************************************************************************)
EXTENDS Integers, Sequences, FiniteSets

CONSTANTS
  WordBits,  \* 64 in the code
  Words,     \* words of a fixed array, and the most a Vector grows to here
  Name       \* the sets that a client holds

ASSUME BitSetAssumption == WordBits \in Nat \ {0} /\ Words \in Nat \ {0}

VARIABLES
  canResize,  \* whether the data is a Vector
  data,       \* the words of each set
  answer,     \* what the last call returned
  iter,       \* the iterator under way, or Idle
  contract    \* history: every call was inside the contract

bitVars == <<canResize, data, answer, iter, contract>>

None == <<>>
Idle == <<>>
NoElement == -1  \* the largest size_t
Element == 0 .. WordBits * Words - 1
Word == SUBSET (0 .. WordBits - 1)

\* What a client inserts; nothing keeps it from going past a fixed array.
Argument == IF canResize THEN Element ELSE 0 .. WordBits * Words

word(n) == n \div WordBits + 1
bit(n) == n % WordBits

Members(ws) == {n \in Element : word(n) <= Len(ws) /\ bit(n) \in ws[word(n)]}

numElementsNeeded(n) == (n + WordBits - 1) \div WordBits

\* Mutant: a Vector keeps what was in the words it grows into.
resizeDirty(ws, k) == [i \in 1 .. k |-> IF i <= Len(ws) THEN ws[i] ELSE {0}]

\* resize64 of a Vector; a fixed array keeps its length.
resize(ws, k) == [i \in 1 .. k |-> IF i <= Len(ws) THEN ws[i] ELSE {}]
resize64(ws, k) == IF canResize THEN resize(ws, k) ELSE ws
AtLeast(ws, k) == IF k > Len(ws) THEN resize64(ws, k) ELSE ws

NotWalking == iter = Idle

Does(s, ws, value) ==
  /\ NotWalking
  /\ data' = [data EXCEPT ![s] = ws]
  /\ answer' = value
  /\ UNCHANGED <<canResize, iter, contract>>

\* The call reads or writes a word that is not there.
Undefined ==
  /\ NotWalking
  /\ contract' = FALSE
  /\ UNCHANGED <<canResize, data, answer, iter>>

contains(ws, n) == ws # <<>> /\ bit(n) \in ws[word(n)]

Insert(s, n) ==
  LET ws == AtLeast(data[s], word(n))
  IN  IF word(n) > Len(ws) THEN Undefined
      ELSE Does(s, [ws EXCEPT ![word(n)] = @ \union {bit(n)}], <<contains(ws, n)>>)

Remove(s, n) ==
  IF word(n) > Len(data[s]) THEN Undefined
  ELSE Does(s, [data[s] EXCEPT ![word(n)] = @ \ {bit(n)}], <<contains(data[s], n)>>)

Contains(s, n) ==
  IF data[s] # <<>> /\ word(n) > Len(data[s]) THEN Undefined
  ELSE Does(s, data[s], <<contains(data[s], n)>>)

\* s |= t and s.setUnion(t).
Union(s, t) ==
  LET ws == AtLeast(data[s], Len(data[t]))
  IN  Does(s, [i \in DOMAIN ws |-> IF i <= Len(data[t]) THEN ws[i] \union data[t][i] ELSE ws[i]], None)

\* &= and -= first cut s down to the length of t.
Shortened(ws, t) == IF Len(data[t]) < Len(ws) THEN resize64(ws, Len(data[t])) ELSE ws

Intersect(s, t) ==
  LET ws == Shortened(data[s], t)
  IN  Does(s, [i \in DOMAIN ws |-> IF i <= Len(data[t]) THEN ws[i] \intersect data[t][i] ELSE ws[i]], None)

\* What lies beyond t is subtracted as well: the set is only right when nothing does.
Subtract(s, t) ==
  LET ws == Shortened(data[s], t)
  IN  /\ NotWalking
      /\ data' = [data EXCEPT ![s] = [i \in DOMAIN ws |-> ws[i] \ data[t][i]]]
      /\ answer' = None
      /\ contract' = (contract /\ Members(ws) = Members(data[s]))
      /\ UNCHANGED <<canResize, iter>>

\* BitSet::dense for a fixed array: every word but the last is filled, and the
\* last one gets the remainder, if there is one.
dense(n) ==
  LET M == numElementsNeeded(n)
  IN  [i \in 1 .. Words |->
         IF i < M THEN 0 .. WordBits - 1
         ELSE IF i = M THEN 0 .. (n % WordBits) - 1
         ELSE {}]

Dense(s, n) ==
  /\ ~canResize
  /\ NotWalking
  /\ data' = [data EXCEPT ![s] = dense(n)]
  /\ answer' = None
  /\ contract' = (contract /\ (n % WordBits # 0 \/ n = 0))
  /\ UNCHANGED <<canResize, iter>>

----------------------------------------------------------------------------
(* BitSetIterator: the bits of a word that are left, shifted down to bit 0,  *)
(* and the element that stands for bit 0 before the shift.                   *)

MinOf(set) == CHOOSE m \in set : \A k \in set : m <= k

\* Mutant: the bit that was passed stays in the word.
ShiftToBit(state) == MinOf(state)

\* tzp1.
Shift(state) == MinOf(state) + 1

\* operator++.  Shifting a word by its whole width is undefined: the machine
\* shifts by zero, or the word becomes empty.
Step(it, ws, s) ==
  LET ahead == {j \in it.at + 1 .. Len(ws) : ws[j] # {}}
      j     == IF it.state # {} THEN it.at ELSE IF ahead = {} THEN Len(ws) + 1 ELSE MinOf(ahead)
      state == IF it.state # {} THEN it.state ELSE IF j \in DOMAIN ws THEN ws[j] ELSE {}
      base  == IF it.state # {} THEN it.base ELSE WordBits * (j - 1)
      shift == Shift(state)
      left  == {b - shift : b \in {c \in state : c >= shift}}
  IN  IF j > Len(ws) THEN {[it EXCEPT !.at = j, !.done = TRUE]}
      ELSE {[set |-> s, at |-> j, state |-> l, base |-> base + shift, done |-> FALSE,
             passed |-> Append(it.passed, base + shift - 1)] :
              l \in IF shift = WordBits THEN {{}, state} ELSE {left}}

Start(s) == [set |-> s, at |-> 0, state |-> {}, base |-> 0, done |-> FALSE, passed |-> <<>>]

Begin(s) ==
  /\ NotWalking
  /\ iter' \in Step(Start(s), data[s], s)
  /\ UNCHANGED <<canResize, data, answer, contract>>

Walk ==
  /\ ~NotWalking
  /\ ~iter.done
  /\ Len(iter.passed) <= WordBits * Words
  /\ iter' \in Step(iter, data[iter.set], iter.set)
  /\ UNCHANGED <<canResize, data, answer, contract>>

TopBitAlone(ws) == \E i \in DOMAIN ws : ws[i] = {WordBits - 1}

Passed == {iter.passed[i] : i \in DOMAIN iter.passed}

\* The loop over a set ends, or has been cut off as endless.
Finish ==
  /\ ~NotWalking
  /\ iter.done \/ Len(iter.passed) > WordBits * Words
  /\ iter' = Idle
  /\ answer' = <<"passed", Passed>>
  /\ contract' = (contract /\ ~TopBitAlone(data[iter.set]))
  /\ UNCHANGED <<canResize, data>>

front(ws) ==
  LET full == {i \in DOMAIN ws : ws[i] # {}}
  IN  IF full = {} THEN NoElement ELSE WordBits * (MinOf(full) - 1) + MinOf(ws[MinOf(full)])

\* countl_zero of the last word only.
maxValue(ws) ==
  LET last == ws[Len(ws)]
  IN  IF ws = <<>> THEN 0
      ELSE WordBits * Len(ws) - (IF last = {} THEN WordBits
                                 ELSE WordBits - 1 - (CHOOSE b \in last : \A c \in last : c <= b))

\* Mutant: the elements of a word are counted, whatever they are.
sizeWords(ws) == Cardinality({i \in DOMAIN ws : ws[i] # {}})
popcount(ws) == LET n[i \in 0 .. Len(ws)] == IF i = 0 THEN 0 ELSE n[i - 1] + Cardinality(ws[i]) IN n[Len(ws)]
size(ws) == popcount(ws)

BitInit ==
  /\ canResize \in BOOLEAN
  /\ data = [s \in Name |-> IF canResize THEN <<>> ELSE [i \in 1 .. Words |-> {}]]
  /\ answer = None
  /\ iter = Idle
  /\ contract = TRUE

BitNext ==
  \/ \E s \in Name, n \in Argument : Insert(s, n) \/ Remove(s, n) \/ Contains(s, n)
  \/ \E s, t \in Name : Union(s, t) \/ Intersect(s, t) \/ Subtract(s, t)
  \/ \E s \in Name, n \in 0 .. WordBits * Words : Dense(s, n)
  \/ \E s \in Name : Begin(s)
  \/ Walk
  \/ Finish

BitSpec == BitInit /\ [][BitNext]_bitVars

----------------------------------------------------------------------------
(* Properties.                                                              *)

AbstractSet ==
  INSTANCE IntegerSet WITH
    Member <- 0 .. WordBits * Words, Limit <- WordBits * Words,
    set <- [s \in Name |-> Members(data[s])], defined <- contract

(* A BitSet is a set: insert, remove, contains, the operators on two sets,   *)
(* dense and a walk from begin to end do and answer what they do for a set,  *)
(* as long as no call left the contract: no word beyond the array, no dense  *)
(* of a full last word, no subtraction of a shorter set, no walk over a word *)
(* with nothing but its top bit.                                             *)
IsASet == AbstractSet!Spec

(* front is the least member, size the number of members, and maxValue is    *)
(* above every member, in particular when the last words are empty.          *)
QueriesTruthful ==
  \A s \in Name :
    LET M == Members(data[s])
    IN  /\ front(data[s]) = IF M = {} THEN NoElement ELSE MinOf(M)
        /\ size(data[s]) = Cardinality(M)
        /\ \A n \in M : n < maxValue(data[s])

(* A loop over a set passes its members in ascending order and never one     *)
(* twice, even in the middle of the walk; strongConnect and the scheduler    *)
(* rely on the order.                                                        *)
Ascending ==
  ~NotWalking /\ ~TopBitAlone(data[iter.set]) =>
    /\ \A i, j \in DOMAIN iter.passed : i < j => iter.passed[i] < iter.passed[j]
    /\ Passed = IF iter.done THEN Members(data[iter.set])
                ELSE {n \in Members(data[iter.set]) : n <= iter.passed[Len(iter.passed)]}

(* What a set says of itself, asked or walked over, is its members.          *)
ReadsMembers == QueriesTruthful /\ Ascending
=============================================================================
