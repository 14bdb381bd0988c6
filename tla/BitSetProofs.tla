---------------------------- MODULE BitSetProofs ----------------------------
(***************************************************************************)
(* Proofs about BitSet for every width of a word and every number of them: *)
(* a BitSet behaves like a set, and a walk passes its members in order.    *)
(***************************************************************************)
EXTENDS BitSet, FiniteSetTheorems, FunctionTheorems, SequenceTheorems, WellFoundedInduction, TLAPS

----------------------------------------------------------------------------
(* Numbers.                                                                *)

\* Division by the width of a word.
LEMMA DivFacts ==
  ASSUME NEW W \in Nat \ {0}, NEW n \in Nat
  PROVE  /\ n \div W \in Nat /\ n % W \in 0 .. W - 1 /\ n = W * (n \div W) + (n % W)
  OBVIOUS

\* Multiples of a width keep their order.
LEMMA MultiplesAscend ==
  ASSUME NEW W \in Nat \ {0}, NEW p \in Nat, NEW q \in Nat, p < q
  PROVE  W * p + W <= W * q
<1>1. PICK k \in Nat : q = p + 1 + k
  <2>1. q - p - 1 \in Nat /\ q = p + 1 + (q - p - 1)
    OBVIOUS
  <2> QED
    BY <2>1
<1>2. W * q = W * p + W + W * k
  BY <1>1
<1>3. W * k \in Nat
  OBVIOUS
<1> QED
  BY <1>2, <1>3

\* The quotient and the remainder are the only ones.
LEMMA DivUnique ==
  ASSUME NEW W \in Nat \ {0}, NEW q \in Nat, NEW r \in 0 .. W - 1
  PROVE  (W * q + r) \div W = q /\ (W * q + r) % W = r
<1> DEFINE n == W * q + r
           p == n \div W
           m == n % W
<1>1. n \in Nat
  OBVIOUS
<1>2. p \in Nat /\ m \in 0 .. W - 1 /\ n = W * p + m
  <2> HIDE DEF n
  <2> QED
    BY <1>1, DivFacts
<1> HIDE DEF p, m
<1>3. W * p \in Nat /\ W * q \in Nat
  BY <1>2
<1>4. ~ (p < q)
  <2> SUFFICES ASSUME p < q PROVE FALSE
    OBVIOUS
  <2>1. W * p + W <= W * q
    BY <1>2, MultiplesAscend
  <2> QED
    BY <1>2, <1>3, <2>1
<1>5. ~ (q < p)
  <2> SUFFICES ASSUME q < p PROVE FALSE
    OBVIOUS
  <2>1. W * q + W <= W * p
    BY <1>2, MultiplesAscend
  <2> QED
    BY <1>2, <1>3, <2>1
<1>6. p = q
  BY <1>2, <1>4, <1>5
<1>7. m = r
  BY <1>2, <1>3, <1>6
<1> QED
  BY <1>6, <1>7 DEF p, m

\* Every nonempty set of naturals has a least member, which MinOf picks.
LEMMA MinOfIn ==
  ASSUME NEW S \in SUBSET Nat, S # {}
  PROVE  MinOf(S) \in S /\ \A k \in S : MinOf(S) <= k
<1> DEFINE R == {ss \in Nat \X Nat : ss[1] < ss[2]}
<1>1. IsWellFoundedOn(R, Nat)
  BY NatLessThanWellFounded DEF OpToRel
<1>2. PICK x \in S : \A y \in S : <<y, x>> \notin R
  <2> HIDE DEF R
  <2> QED
    BY <1>1, WFMin
<1>3. ASSUME NEW y \in S
      PROVE  x <= y
  <2>1. x \in Nat /\ y \in Nat /\ ~ (y < x)
    BY <1>2
  <2> QED
    BY <2>1
<1>4. \E m \in S : \A k \in S : m <= k
  BY <1>3
<1> QED
  BY <1>4 DEF MinOf

----------------------------------------------------------------------------
(* Elements, words and bits.                                               *)

ElementAt(j, b) == WordBits * (j - 1) + b

\* The word and the bit of a number, which no other number has.
LEMMA PlaceFacts ==
  ASSUME NEW n \in Nat
  PROVE  /\ word(n) \in Nat \ {0} /\ bit(n) \in 0 .. WordBits - 1
         /\ n = ElementAt(word(n), bit(n))
<1>1. /\ n \div WordBits \in Nat /\ n % WordBits \in 0 .. WordBits - 1
      /\ n = WordBits * (n \div WordBits) + (n % WordBits)
  BY DivFacts, BitSetAssumption
<1>2. word(n) - 1 = n \div WordBits
  BY <1>1 DEF word
<1> QED
  BY <1>1, <1>2 DEF word, bit, ElementAt

LEMMA PlaceUnique ==
  ASSUME NEW j \in Nat \ {0}, NEW b \in 0 .. WordBits - 1
  PROVE  ElementAt(j, b) \in Nat /\ word(ElementAt(j, b)) = j /\ bit(ElementAt(j, b)) = b
<1>1. WordBits \in Nat \ {0} /\ j - 1 \in Nat
  BY BitSetAssumption
<1> DEFINE q == j - 1
<1>2. ElementAt(j, b) = WordBits * q + b
  BY DEF ElementAt
<1>3. WordBits * q + b \in Nat
  BY <1>1
<1>4. (WordBits * q + b) \div WordBits = q /\ (WordBits * q + b) % WordBits = b
  <2>1. q \in Nat
    BY <1>1
  <2> HIDE DEF q
  <2> QED
    BY <1>1, <2>1, DivUnique
<1>5. q + 1 = j
  BY <1>1
<1> QED
  BY <1>2, <1>3, <1>4, <1>5 DEF word, bit

\* Numbers are ordered by word, and by bit within a word.
LEMMA PlacesAscend ==
  ASSUME NEW i \in Nat \ {0}, NEW j \in Nat \ {0}, NEW b \in 0 .. WordBits - 1, NEW c \in 0 .. WordBits - 1
  PROVE  ElementAt(i, b) < ElementAt(j, c) <=> i < j \/ (i = j /\ b < c)
<1>1. WordBits \in Nat \ {0} /\ i - 1 \in Nat /\ j - 1 \in Nat
  BY BitSetAssumption
<1> DEFINE p == i - 1
           q == j - 1
<1>2. p \in Nat /\ q \in Nat /\ WordBits * p \in Nat /\ WordBits * q \in Nat
  BY <1>1
<1>3. ElementAt(i, b) = WordBits * p + b /\ ElementAt(j, c) = WordBits * q + c
  BY DEF ElementAt
<1>4. (i < j <=> p < q) /\ (i = j <=> p = q)
  OBVIOUS
<1> HIDE DEF p, q
<1>5. p < q => WordBits * p + WordBits <= WordBits * q
  BY <1>1, <1>2, MultiplesAscend
<1>6. q < p => WordBits * q + WordBits <= WordBits * p
  BY <1>1, <1>2, MultiplesAscend
<1>7. p < q \/ q < p \/ p = q
  BY <1>2
<1>8. CASE p < q
  BY <1>1, <1>2, <1>3, <1>4, <1>5, <1>8
<1>9. CASE q < p
  BY <1>1, <1>2, <1>3, <1>4, <1>6, <1>9
<1>10. CASE p = q
  BY <1>1, <1>2, <1>3, <1>4, <1>10
<1> QED
  BY <1>7, <1>8, <1>9, <1>10

\* The elements are the numbers whose word exists.
LEMMA ElementFacts ==
  ASSUME NEW n \in Nat
  PROVE  n \in Element <=> word(n) <= Words
<1>1. WordBits \in Nat \ {0} /\ Words \in Nat \ {0} /\ 0 \in 0 .. WordBits - 1 /\ Words + 1 \in Nat \ {0}
  BY BitSetAssumption
<1>2. word(n) \in Nat \ {0} /\ bit(n) \in 0 .. WordBits - 1 /\ n = ElementAt(word(n), bit(n))
  BY PlaceFacts
<1> DEFINE k == Words + 1
<1>3. ElementAt(word(n), bit(n)) < ElementAt(k, 0) <=> word(n) < k \/ (word(n) = k /\ bit(n) < 0)
  <2>1. k \in Nat \ {0}
    BY <1>1
  <2> HIDE DEF k
  <2> QED
    BY <1>1, <1>2, <2>1, PlacesAscend
<1>4. ElementAt(k, 0) = WordBits * Words
  BY <1>1 DEF ElementAt
<1>5. WordBits * Words \in Nat
  BY <1>1
<1>6. n < WordBits * Words <=> word(n) <= Words
  BY <1>1, <1>2, <1>3, <1>4
<1> QED
  BY <1>5, <1>6 DEF Element

----------------------------------------------------------------------------
(* What each change of the words does to the members.                      *)

Store == {ws \in Seq(Word) : Len(ws) <= Words}

\* A bit of a word stands for a member.
LEMMA BitIsMember ==
  ASSUME NEW ws \in Store, NEW j \in 1 .. Len(ws), NEW b \in ws[j]
  PROVE  ElementAt(j, b) \in Members(ws) /\ ElementAt(j, b) \in Nat
<1>1. j \in Nat \ {0} /\ j <= Words /\ ws[j] \in Word /\ Len(ws) \in Nat
  BY BitSetAssumption DEF Store
<1>2. b \in 0 .. WordBits - 1
  BY <1>1 DEF Word
<1>3. ElementAt(j, b) \in Nat /\ word(ElementAt(j, b)) = j /\ bit(ElementAt(j, b)) = b
  BY <1>1, <1>2, PlaceUnique
<1>4. ElementAt(j, b) \in Element
  BY <1>1, <1>3, ElementFacts
<1> QED
  BY <1>3, <1>4 DEF Members

LEMMA MemberFacts ==
  ASSUME NEW ws \in Store, NEW n \in Members(ws)
  PROVE  /\ n \in Nat /\ n \in Element /\ word(n) \in 1 .. Len(ws) /\ bit(n) \in ws[word(n)]
         /\ bit(n) \in 0 .. WordBits - 1 /\ n = ElementAt(word(n), bit(n))
<1>1. n \in Element /\ word(n) <= Len(ws) /\ bit(n) \in ws[word(n)]
  BY DEF Members
<1>2. n \in Nat
  BY <1>1 DEF Element
<1>3. word(n) \in Nat \ {0} /\ bit(n) \in 0 .. WordBits - 1 /\ n = ElementAt(word(n), bit(n))
  BY <1>2, PlaceFacts
<1>4. Len(ws) \in Nat
  BY DEF Store
<1> QED
  BY <1>1, <1>2, <1>3, <1>4

\* Words of the same length with other bits.
LEMMA WordsStored ==
  ASSUME NEW ws \in Store, NEW us, us = [i \in 1 .. Len(ws) |-> us[i]],
         \A i \in 1 .. Len(ws) : us[i] \in Word
  PROVE  us \in Store /\ Len(us) = Len(ws)
<1>1. Len(ws) \in Nat /\ Len(ws) <= Words
  BY DEF Store
<1>2. us \in [1 .. Len(ws) -> Word]
  BY Zenon
<1>3. us \in Seq(Word) /\ Len(us) = Len(ws)
  BY <1>1, <1>2
<1> QED
  BY <1>1, <1>3 DEF Store

LEMMA InsertMembers ==
  ASSUME NEW ws \in Store, NEW n \in Element, word(n) <= Len(ws)
  PROVE  LET us == [ws EXCEPT ![word(n)] = @ \union {bit(n)}]
         IN  us \in Store /\ Len(us) = Len(ws) /\ Members(us) = Members(ws) \union {n}
<1> DEFINE us == [ws EXCEPT ![word(n)] = @ \union {bit(n)}]
<1>1. ws \in Seq(Word) /\ Len(ws) \in Nat /\ Len(ws) <= Words
  BY DEF Store
<1>2. n \in Nat /\ word(n) \in 1 .. Len(ws) /\ bit(n) \in 0 .. WordBits - 1
  <2>1. n \in Nat
    BY DEF Element
  <2> QED
    BY <1>1, <2>1, PlaceFacts
<1>3. /\ us \in Seq(Word) /\ Len(us) = Len(ws)
      /\ \A i \in 1 .. Len(ws) : us[i] = IF i = word(n) THEN ws[i] \union {bit(n)} ELSE ws[i]
  <2> DEFINE p == word(n)
             x == ws[p] \union {bit(n)}
  <2>1. x \in Word /\ p \in 1 .. Len(ws) /\ us = [ws EXCEPT ![p] = x]
    BY <1>1, <1>2 DEF Word
  <2>2. \A i \in 1 .. Len(ws) : i = p => x = ws[i] \union {bit(n)}
    OBVIOUS
  <2>3. p = word(n)
    OBVIOUS
  <2> HIDE DEF p, x, us
  <2>4. us \in Seq(Word) /\ Len(us) = Len(ws) /\ \A i \in 1 .. Len(ws) : us[i] = IF i = p THEN x ELSE ws[i]
    BY <1>1, <2>1, ExceptSeq
  <2> QED
    BY <2>2, <2>3, <2>4
<1> HIDE DEF us
<1>4. us \in Store
  BY <1>1, <1>3 DEF Store
<1>5. ASSUME NEW k \in Element
      PROVE  k \in Members(us) <=> k \in Members(ws) \/ k = n
  <2>1. k \in Nat /\ word(k) \in Nat \ {0}
    <3>1. k \in Nat
      BY DEF Element
    <3> QED
      BY <3>1, PlaceFacts
  <2>2. word(k) = word(n) /\ bit(k) = bit(n) => k = n
    BY <1>2, <2>1, PlaceFacts
  <2>3. CASE word(k) <= Len(ws)
    <3>1. us[word(k)] = IF word(k) = word(n) THEN ws[word(k)] \union {bit(n)} ELSE ws[word(k)]
      <4>1. word(k) \in 1 .. Len(ws)
        BY <1>1, <2>1, <2>3
      <4> QED
        BY <1>3, <4>1
    <3>2. k = n => word(k) = word(n) /\ bit(k) = bit(n)
      OBVIOUS
    <3>3. k \in Members(us) <=> bit(k) \in us[word(k)]
      BY <1>3, <2>3 DEF Members
    <3>4. k \in Members(ws) <=> bit(k) \in ws[word(k)]
      BY <2>3 DEF Members
    <3> QED
      BY <2>2, <3>1, <3>2, <3>3, <3>4
  <2>4. CASE ~ (word(k) <= Len(ws))
    BY <1>2, <1>3, <2>4 DEF Members
  <2> QED
    BY <2>3, <2>4
<1>6. \A k \in Members(us) \union Members(ws) \union {n} : k \in Element
  BY DEF Members
<1>7. Members(us) = Members(ws) \union {n}
  BY <1>5, <1>6
<1> QED
  BY <1>3, <1>4, <1>7 DEF us

LEMMA RemoveMembers ==
  ASSUME NEW ws \in Store, NEW n \in Element, word(n) <= Len(ws)
  PROVE  LET us == [ws EXCEPT ![word(n)] = @ \ {bit(n)}]
         IN  us \in Store /\ Len(us) = Len(ws) /\ Members(us) = Members(ws) \ {n}
<1> DEFINE us == [ws EXCEPT ![word(n)] = @ \ {bit(n)}]
<1>1. ws \in Seq(Word) /\ Len(ws) \in Nat /\ Len(ws) <= Words
  BY DEF Store
<1>2. n \in Nat /\ word(n) \in 1 .. Len(ws) /\ bit(n) \in 0 .. WordBits - 1
  <2>1. n \in Nat
    BY DEF Element
  <2> QED
    BY <1>1, <2>1, PlaceFacts
<1>3. /\ us \in Seq(Word) /\ Len(us) = Len(ws)
      /\ \A i \in 1 .. Len(ws) : us[i] = IF i = word(n) THEN ws[i] \ {bit(n)} ELSE ws[i]
  <2> DEFINE p == word(n)
             x == ws[p] \ {bit(n)}
  <2>1. x \in Word /\ p \in 1 .. Len(ws) /\ us = [ws EXCEPT ![p] = x]
    BY <1>1, <1>2 DEF Word
  <2>2. \A i \in 1 .. Len(ws) : i = p => x = ws[i] \ {bit(n)}
    OBVIOUS
  <2>3. p = word(n)
    OBVIOUS
  <2> HIDE DEF p, x, us
  <2>4. us \in Seq(Word) /\ Len(us) = Len(ws) /\ \A i \in 1 .. Len(ws) : us[i] = IF i = p THEN x ELSE ws[i]
    BY <1>1, <2>1, ExceptSeq
  <2> QED
    BY <2>2, <2>3, <2>4
<1> HIDE DEF us
<1>4. us \in Store
  BY <1>1, <1>3 DEF Store
<1>5. ASSUME NEW k \in Element
      PROVE  k \in Members(us) <=> k \in Members(ws) /\ k # n
  <2>1. k \in Nat /\ word(k) \in Nat \ {0}
    <3>1. k \in Nat
      BY DEF Element
    <3> QED
      BY <3>1, PlaceFacts
  <2>2. word(k) = word(n) /\ bit(k) = bit(n) => k = n
    BY <1>2, <2>1, PlaceFacts
  <2>3. CASE word(k) <= Len(ws)
    <3>1. us[word(k)] = IF word(k) = word(n) THEN ws[word(k)] \ {bit(n)} ELSE ws[word(k)]
      <4>1. word(k) \in 1 .. Len(ws)
        BY <1>1, <2>1, <2>3
      <4> QED
        BY <1>3, <4>1
    <3>2. k = n => word(k) = word(n) /\ bit(k) = bit(n)
      OBVIOUS
    <3>3. k \in Members(us) <=> bit(k) \in us[word(k)]
      BY <1>3, <2>3 DEF Members
    <3>4. k \in Members(ws) <=> bit(k) \in ws[word(k)]
      BY <2>3 DEF Members
    <3> QED
      BY <2>2, <3>1, <3>2, <3>3, <3>4
  <2>4. CASE ~ (word(k) <= Len(ws))
    BY <1>3, <2>4 DEF Members
  <2> QED
    BY <2>3, <2>4
<1>6. \A k \in Members(us) \union Members(ws) : k \in Element
  BY DEF Members
<1>7. Members(us) = Members(ws) \ {n}
  BY <1>5, <1>6
<1> QED
  BY <1>3, <1>4, <1>7 DEF us

\* More words, or fewer of them.
LEMMA ResizeMembers ==
  ASSUME NEW ws \in Store, NEW k \in 0 .. Words
  PROVE  /\ resize(ws, k) \in Store /\ Len(resize(ws, k)) = k
         /\ \A i \in 1 .. k : resize(ws, k)[i] = IF i <= Len(ws) THEN ws[i] ELSE {}
         /\ Len(ws) <= k => Members(resize(ws, k)) = Members(ws)
<1> DEFINE us == resize(ws, k)
<1>1. ws \in Seq(Word) /\ Len(ws) \in Nat /\ Len(ws) <= Words /\ k \in Nat /\ k <= Words
  BY BitSetAssumption DEF Store
<1>2. \A i \in 1 .. k : us[i] = IF i <= Len(ws) THEN ws[i] ELSE {}
  BY DEF resize
<1>3. us \in Seq(Word) /\ Len(us) = k
  <2>1. \A i \in 1 .. k : (IF i <= Len(ws) THEN ws[i] ELSE {}) \in Word
    BY <1>1 DEF Word
  <2>2. us \in [1 .. k -> Word]
    BY <2>1 DEF resize
  <2> HIDE DEF us
  <2> QED
    BY <1>1, <2>2
<1> HIDE DEF us
<1>4. us \in Store
  BY <1>1, <1>3 DEF Store
<1>5. ASSUME Len(ws) <= k, NEW n \in Element
      PROVE  n \in Members(us) <=> n \in Members(ws)
  <2>1. word(n) \in Nat \ {0}
    <3>1. n \in Nat
      BY DEF Element
    <3> QED
      BY <3>1, PlaceFacts
  <2>2. CASE word(n) <= k
    BY <1>1, <1>2, <1>3, <1>5, <2>1, <2>2 DEF Members
  <2>3. CASE ~ (word(n) <= k)
    BY <1>1, <1>3, <1>5, <2>1, <2>3 DEF Members
  <2> QED
    BY <2>2, <2>3
<1>6. \A n \in Members(us) \union Members(ws) : n \in Element
  BY DEF Members
<1>7. Len(ws) <= k => Members(us) = Members(ws)
  BY <1>5, <1>6
<1> QED
  BY <1>2, <1>3, <1>4, <1>7 DEF us

\* Members read off the words, for words given one by one.
LEMMA WordsOfMembers ==
  ASSUME NEW ws \in Store, NEW us \in [1 .. Len(ws) -> Word]
  PROVE  /\ us \in Store /\ Len(us) = Len(ws)
         /\ \A n \in Element : n \in Members(us) <=> word(n) <= Len(ws) /\ bit(n) \in us[word(n)]
<1>1. Len(ws) \in Nat /\ Len(ws) <= Words
  BY DEF Store
<1>2. us \in Seq(Word) /\ Len(us) = Len(ws)
  BY <1>1
<1> QED
  BY <1>1, <1>2 DEF Store, Members

LEMMA UnionMembers ==
  ASSUME NEW ws \in Store, NEW ts \in Store, Len(ts) <= Len(ws)
  PROVE  LET us == [i \in DOMAIN ws |-> IF i <= Len(ts) THEN ws[i] \union ts[i] ELSE ws[i]]
         IN  us \in Store /\ Len(us) = Len(ws) /\ Members(us) = Members(ws) \union Members(ts)
<1> DEFINE f(i) == IF i <= Len(ts) THEN ws[i] \union ts[i] ELSE ws[i]
           us == [i \in DOMAIN ws |-> f(i)]
<1>1. Len(ws) \in Nat /\ Len(ts) \in Nat
  BY DEF Store
<1>2. \A i \in 1 .. Len(ws) : f(i) \in Word
  BY <1>1 DEF Store, Word
<1>3. us \in [1 .. Len(ws) -> Word] /\ \A i \in 1 .. Len(ws) : us[i] = f(i)
  <2> HIDE DEF f
  <2> QED
    BY <1>2 DEF Store
<1>4. \A n \in Element : word(n) \in Nat \ {0}
  BY PlaceFacts DEF Element
<1>5. \A n \in Members(us) \union Members(ws) \union Members(ts) : n \in Element
  BY DEF Members
<1>6. \A n \in Element : n \in Members(us) <=> n \in Members(ws) \/ n \in Members(ts)
  <2> HIDE DEF us
  <2>1. us \in Store /\ Len(us) = Len(ws)
    BY <1>3, WordsOfMembers
  <2>2. ASSUME NEW n \in Element, word(n) <= Len(ws)
        PROVE  word(n) \in 1 .. Len(ws)
    BY <1>1, <1>4, <2>2
  <2> QED
    BY <1>1, <1>3, <1>4, <2>1, <2>2 DEF Members
<1> HIDE DEF us
<1>7. Members(us) = Members(ws) \union Members(ts)
  BY <1>5, <1>6
<1> QED
  BY <1>3, <1>7, WordsOfMembers DEF us

LEMMA IntersectMembers ==
  ASSUME NEW ws \in Store, NEW ts \in Store, Len(ws) <= Len(ts)
  PROVE  LET us == [i \in DOMAIN ws |-> IF i <= Len(ts) THEN ws[i] \intersect ts[i] ELSE ws[i]]
         IN  us \in Store /\ Len(us) = Len(ws) /\ Members(us) = Members(ws) \intersect Members(ts)
<1> DEFINE f(i) == IF i <= Len(ts) THEN ws[i] \intersect ts[i] ELSE ws[i]
           us == [i \in DOMAIN ws |-> f(i)]
<1>1. Len(ws) \in Nat /\ Len(ts) \in Nat
  BY DEF Store
<1>2. \A i \in 1 .. Len(ws) : f(i) \in Word
  BY <1>1 DEF Store, Word
<1>3. us \in [1 .. Len(ws) -> Word] /\ \A i \in 1 .. Len(ws) : us[i] = f(i)
  <2> HIDE DEF f
  <2> QED
    BY <1>2 DEF Store
<1>4. \A n \in Element : word(n) \in Nat \ {0}
  BY PlaceFacts DEF Element
<1>5. \A n \in Members(us) \union (Members(ws) \intersect Members(ts)) : n \in Element
  BY DEF Members
<1>6. \A n \in Element : n \in Members(us) <=> n \in Members(ws) /\ n \in Members(ts)
  <2> HIDE DEF us
  <2>1. us \in Store /\ Len(us) = Len(ws)
    BY <1>3, WordsOfMembers
  <2>2. ASSUME NEW n \in Element, word(n) <= Len(ws)
        PROVE  word(n) \in 1 .. Len(ws)
    BY <1>1, <1>4, <2>2
  <2> QED
    BY <1>1, <1>3, <1>4, <2>1, <2>2 DEF Members
<1> HIDE DEF us
<1>7. Members(us) = Members(ws) \intersect Members(ts)
  BY <1>5, <1>6
<1> QED
  BY <1>3, <1>7, WordsOfMembers DEF us

LEMMA SubtractMembers ==
  ASSUME NEW ws \in Store, NEW ts \in Store, Len(ws) <= Len(ts)
  PROVE  LET us == [i \in DOMAIN ws |-> ws[i] \ ts[i]]
         IN  us \in Store /\ Len(us) = Len(ws) /\ Members(us) = Members(ws) \ Members(ts)
<1> DEFINE f(i) == ws[i] \ ts[i]
           us == [i \in DOMAIN ws |-> f(i)]
<1>1. Len(ws) \in Nat /\ Len(ts) \in Nat
  BY DEF Store
<1>2. \A i \in 1 .. Len(ws) : f(i) \in Word
  BY <1>1 DEF Store, Word
<1>3. us \in [1 .. Len(ws) -> Word] /\ \A i \in 1 .. Len(ws) : us[i] = f(i)
  <2> HIDE DEF f
  <2> QED
    BY <1>2 DEF Store
<1>4. \A n \in Element : word(n) \in Nat \ {0}
  BY PlaceFacts DEF Element
<1>5. \A n \in Members(us) \union Members(ws) : n \in Element
  BY DEF Members
<1>6. \A n \in Element : n \in Members(us) <=> n \in Members(ws) /\ n \notin Members(ts)
  <2> HIDE DEF us
  <2>1. us \in Store /\ Len(us) = Len(ws)
    BY <1>3, WordsOfMembers
  <2>2. ASSUME NEW n \in Element, word(n) <= Len(ws)
        PROVE  word(n) \in 1 .. Len(ws)
    BY <1>1, <1>4, <2>2
  <2> QED
    BY <1>1, <1>3, <1>4, <2>1, <2>2 DEF Members
<1> HIDE DEF us
<1>7. Members(us) = Members(ws) \ Members(ts)
  BY <1>5, <1>6
<1> QED
  BY <1>3, <1>7, WordsOfMembers DEF us

\* dense, unless the last word would be a full one.
LEMMA DenseMembers ==
  ASSUME NEW n \in 0 .. WordBits * Words
  PROVE  /\ dense(n) \in Store /\ Len(dense(n)) = Words
         /\ n % WordBits # 0 \/ n = 0 => Members(dense(n)) = {k \in 0 .. WordBits * Words : k < n}
<1> DEFINE M == numElementsNeeded(n)
           q == n \div WordBits
           r == n % WordBits
           us == dense(n)
<1>1. WordBits \in Nat \ {0} /\ Words \in Nat \ {0} /\ WordBits * Words \in Nat /\ n \in Nat
  BY BitSetAssumption
<1>2. q \in Nat /\ r \in 0 .. WordBits - 1 /\ n = WordBits * q + r
  BY <1>1, DivFacts
<1> HIDE DEF q, r
<1>3. us = [i \in 1 .. Words |-> IF i < M THEN 0 .. WordBits - 1 ELSE IF i = M THEN 0 .. r - 1 ELSE {}]
  BY DEF dense, r
<1> HIDE DEF us, M
<1>4. us \in Seq(Word) /\ Len(us) = Words
  <2>1. 0 .. r - 1 \in Word /\ 0 .. WordBits - 1 \in Word /\ {} \in Word
    BY <1>1, <1>2 DEF Word
  <2>2. us \in [1 .. Words -> Word]
    BY <1>3, <2>1
  <2> QED
    BY <1>1, <2>2
<1>5. us \in Store
  BY <1>1, <1>4 DEF Store
<1>6. ASSUME r # 0 \/ n = 0, NEW k \in Element
      PROVE  k \in Members(us) <=> k < n
  <2>1. k \in Nat /\ word(k) \in 1 .. Words /\ bit(k) \in 0 .. WordBits - 1 /\ k = ElementAt(word(k), bit(k))
    <3>1. k \in Nat
      BY DEF Element
    <3> QED
      BY <1>1, <3>1, PlaceFacts, ElementFacts
  <2>2. k \in Members(us) <=> word(k) < M \/ (word(k) = M /\ bit(k) < r)
    <3>1. k \in Members(us) <=> bit(k) \in us[word(k)]
      BY <1>4, <2>1 DEF Members
    <3>2. M \in Int
      BY <1>1, DivFacts DEF M, numElementsNeeded
    <3> QED
      BY <1>1, <1>2, <1>3, <2>1, <3>1, <3>2
  <2>3. CASE r # 0
    <3>1. M = q + 1
      <4> DEFINE s == r - 1
                 p == q + 1
      <4>1. s \in 0 .. WordBits - 1 /\ p \in Nat /\ n + WordBits - 1 = WordBits * p + s
        BY <1>1, <1>2, <2>3
      <4>2. (WordBits * p + s) \div WordBits = p
        <5> HIDE DEF s, p
        <5> QED
          BY <1>1, <4>1, DivUnique
      <4> QED
        BY <4>1, <4>2 DEF M, numElementsNeeded
    <3>2. n = ElementAt(M, r) /\ M \in Nat \ {0}
      BY <1>2, <3>1 DEF ElementAt
    <3>3. ElementAt(word(k), bit(k)) < ElementAt(M, r) <=> word(k) < M \/ (word(k) = M /\ bit(k) < r)
      <4>1. word(k) \in Nat \ {0} /\ bit(k) \in 0 .. WordBits - 1
        BY <1>1, <2>1
      <4> DEFINE w == word(k)
                 b == bit(k)
      <4>2. w \in Nat \ {0} /\ b \in 0 .. WordBits - 1
        BY <4>1
      <4> HIDE DEF w, b
      <4>3. ElementAt(w, b) < ElementAt(M, r) <=> w < M \/ (w = M /\ b < r)
        BY <1>2, <3>2, <4>2, PlacesAscend
      <4> QED
        BY <4>3 DEF w, b
    <3> QED
      BY <2>1, <2>2, <3>2, <3>3
  <2>4. CASE n = 0
    <3> DEFINE s == WordBits - 1
               p == 0
    <3>1. s \in 0 .. WordBits - 1 /\ p \in Nat /\ n + WordBits - 1 = WordBits * p + s
      BY <1>1, <2>4
    <3>2. (WordBits * p + s) \div WordBits = p
      <4> HIDE DEF s, p
      <4> QED
        BY <1>1, <3>1, DivUnique
    <3>3. M = 0
      BY <3>1, <3>2 DEF M, numElementsNeeded
    <3> QED
      BY <1>1, <2>1, <2>2, <2>4, <3>3
  <2> QED
    BY <1>6, <2>3, <2>4
<1>7. \A k \in Members(us) : k \in Element
  BY DEF Members
<1>8. \A k \in 0 .. WordBits * Words : k < n => k \in Element
  BY <1>1 DEF Element
<1>9. \A k \in Element : k \in 0 .. WordBits * Words
  BY <1>1 DEF Element
<1>10. r # 0 \/ n = 0 => Members(us) = {k \in 0 .. WordBits * Words : k < n}
  BY <1>6, <1>7, <1>8, <1>9
<1> QED
  BY <1>4, <1>5, <1>10 DEF us, r

----------------------------------------------------------------------------
(* The iterator.                                                           *)

IterType ==
  [set : Name, at : Nat, state : SUBSET Nat, base : Nat, done : BOOLEAN, passed : Seq(Nat)]

\* What the iterator passed are the members below base, in ascending order.
PassedBelow(it, ws) ==
  /\ \A i, j \in 1 .. Len(it.passed) : i < j => it.passed[i] < it.passed[j]
  /\ \A i \in 1 .. Len(it.passed) : it.passed[i] \in Members(ws) /\ it.passed[i] < it.base
  /\ \A n \in Members(ws) : n < it.base => \E i \in 1 .. Len(it.passed) : it.passed[i] = n
  /\ Len(it.passed) <= it.base
  /\ Len(it.passed) > 0 => it.passed[Len(it.passed)] = it.base - 1

\* What it has not passed are the bits that state keeps of the word it is at,
\* shifted down to base, and the words beyond.
Cursor(it, ws) ==
  /\ it \in IterType /\ ~ it.done
  /\ it.at <= Len(ws) /\ it.base <= WordBits * it.at
  /\ it.at = 0 => it.state = {}
  /\ it.at > 0 => WordBits * (it.at - 1) < it.base /\ Len(it.passed) > 0
  /\ \A c \in it.state : it.base + c < WordBits * it.at /\ it.base + c \in Members(ws)
  /\ \A n \in Members(ws) : n >= it.base => (word(n) = it.at /\ n - it.base \in it.state) \/ word(n) > it.at
  /\ PassedBelow(it, ws)

AtEnd(it, ws) ==
  /\ it \in IterType /\ it.done
  /\ \A n \in Members(ws) : n < it.base
  /\ it.base <= WordBits * Words
  /\ PassedBelow(it, ws)

\* One more element is passed.
LEMMA PassOne ==
  ASSUME NEW ws \in Store, NEW it \in IterType, PassedBelow(it, ws),
         NEW next \in IterType, NEW m \in Members(ws), it.base <= m,
         \A n \in Members(ws) : it.base <= n => m <= n,
         next.passed = Append(it.passed, m), next.base = m + 1
  PROVE  PassedBelow(next, ws) /\ Len(next.passed) = Len(it.passed) + 1
<1>1. /\ it.passed \in Seq(Nat) /\ it.base \in Nat /\ m \in Nat /\ Len(it.passed) \in Nat
      /\ next.base = m + 1 /\ it.base < next.base
  BY MemberFacts DEF IterType
<1> DEFINE k == Len(it.passed)
           p == it.passed
           q == next.passed
<1>2. Len(q) = k + 1 /\ q[k + 1] = m /\ \A i \in 1 .. k : q[i] = p[i]
  <2>1. q = Append(p, m) /\ p \in Seq(Nat)
    BY <1>1
  <2> HIDE DEF p, q
  <2> QED
    BY <1>1, <2>1, AppendProperties DEF p
<1>3. /\ \A i, j \in 1 .. k : i < j => p[i] < p[j]
      /\ \A i \in 1 .. k : p[i] \in Members(ws) /\ p[i] < it.base
      /\ \A n \in Members(ws) : n < it.base => \E i \in 1 .. k : p[i] = n
      /\ k <= it.base /\ k \in Nat
  BY <1>1 DEF PassedBelow
<1>4. \A n \in Members(ws) : n \in Nat
  BY MemberFacts
<1> HIDE DEF p, q, k
<1>5. \A i \in 1 .. k + 1 : (i \in 1 .. k /\ q[i] = p[i]) \/ (i = k + 1 /\ q[i] = m)
  BY <1>2, <1>3
<1>6. \A i \in 1 .. k : p[i] \in Nat /\ p[i] < m /\ p[i] < next.base
  <2> SUFFICES ASSUME NEW i \in 1 .. k PROVE p[i] \in Nat /\ p[i] < m /\ p[i] < next.base
    OBVIOUS
  <2>1. p[i] \in Nat /\ p[i] < it.base
    BY <1>3, <1>4
  <2> QED
    BY <1>1, <2>1
<1>7. \A i, j \in 1 .. k + 1 : i < j => q[i] < q[j]
  <2> SUFFICES ASSUME NEW i \in 1 .. k + 1, NEW j \in 1 .. k + 1, i < j PROVE q[i] < q[j]
    OBVIOUS
  <2>1. i \in 1 .. k /\ q[i] = p[i]
    BY <1>3, <1>5
  <2> QED
    BY <1>3, <1>5, <1>6, <2>1
<1>8. \A i \in 1 .. k + 1 : q[i] \in Members(ws) /\ q[i] < next.base
  <2> SUFFICES ASSUME NEW i \in 1 .. k + 1 PROVE q[i] \in Members(ws) /\ q[i] < next.base
    OBVIOUS
  <2>1. CASE i \in 1 .. k /\ q[i] = p[i]
    BY <1>3, <1>6, <2>1
  <2>2. CASE q[i] = m
    BY <1>1, <2>2
  <2> QED
    BY <1>5, <2>1, <2>2
<1>9. ASSUME NEW n \in Members(ws), n < next.base
      PROVE  \E i \in 1 .. k + 1 : q[i] = n
  <2>1. n \in Nat
    BY <1>4
  <2>2. CASE n < it.base
    <3>1. PICK i \in 1 .. k : p[i] = n
      BY <1>3, <2>2
    <3>2. i \in 1 .. k + 1 /\ q[i] = n
      BY <1>2, <1>3, <3>1
    <3> QED
      BY <3>2
  <2>3. CASE ~ (n < it.base)
    <3>1. n = m
      BY <1>1, <1>9, <2>1, <2>3
    <3>2. k + 1 \in 1 .. k + 1
      BY <1>3
    <3> QED
      BY <1>2, <3>1, <3>2
  <2> QED
    BY <2>2, <2>3
<1>10. k + 1 <= next.base
  BY <1>1, <1>3
<1>11. q[k + 1] = next.base - 1
  BY <1>1, <1>2
<1>12. PassedBelow(next, ws)
  BY <1>2, <1>7, <1>8, <1>9, <1>10, <1>11 DEF PassedBelow, q
<1> QED
  BY <1>2, <1>12 DEF q, k

\* The begin of a walk.
LEMMA StartFacts ==
  ASSUME NEW s \in Name, NEW ws \in Store
  PROVE  Cursor(Start(s), ws)
<1> DEFINE it == Start(s)
<1>1. it \in IterType /\ ~ it.done /\ it.at = 0 /\ it.base = 0 /\ it.state = {} /\ it.passed = <<>>
  BY DEF Start, IterType
<1>2. \A n \in Members(ws) : n \in Nat /\ word(n) > 0
  BY MemberFacts DEF Store
<1>3. Len(it.passed) = 0 /\ Len(ws) \in Nat /\ WordBits * 0 = 0
  BY <1>1, BitSetAssumption DEF Store
<1> HIDE DEF it
<1>4. PassedBelow(it, ws)
  BY <1>1, <1>2, <1>3 DEF PassedBelow
<1>5. Cursor(it, ws)
  BY <1>1, <1>2, <1>3, <1>4 DEF Cursor
<1> QED
  BY <1>5 DEF it

\* A number lies in its word.
LEMMA WordBounds ==
  ASSUME NEW n \in Nat
  PROVE  word(n) \in Nat \ {0} /\ WordBits * (word(n) - 1) <= n /\ n < WordBits * (word(n) - 1) + WordBits
<1>1. word(n) \in Nat \ {0} /\ bit(n) \in 0 .. WordBits - 1 /\ n = WordBits * (word(n) - 1) + bit(n)
  BY PlaceFacts DEF ElementAt
<1> DEFINE w == word(n)
           b == bit(n)
<1>2. WordBits * (w - 1) \in Nat /\ b \in 0 .. WordBits - 1 /\ n = WordBits * (w - 1) + b /\ w \in Nat \ {0}
  BY <1>1, BitSetAssumption
<1> HIDE DEF w, b
<1>3. WordBits * (w - 1) <= n /\ n < WordBits * (w - 1) + WordBits
  BY <1>2, BitSetAssumption
<1> QED
  BY <1>2, <1>3 DEF w

\* A member of a later word is beyond all of this one.
LEMMA LaterWord ==
  ASSUME NEW n \in Nat, NEW j \in Nat, word(n) > j
  PROVE  WordBits * j <= n
<1> DEFINE w == word(n) - 1
<1>1. w \in Nat /\ j <= w /\ WordBits * w <= n /\ WordBits * w \in Nat /\ WordBits * j \in Nat
  BY WordBounds, BitSetAssumption
<1> HIDE DEF w
<1>2. j < w => WordBits * j + WordBits <= WordBits * w
  BY <1>1, MultiplesAscend, BitSetAssumption
<1> QED
  BY <1>1, <1>2, BitSetAssumption

LEMMA PreviousMultiple ==
  ASSUME NEW W \in Nat, NEW a \in Nat \ {0}
  PROVE  W * (a - 1) \in Nat /\ W * (a - 1) + W = W * a
  OBVIOUS

\* The bits of the word at j that are left, with base for the first of them.
Ready(it, ws, j, state, base) ==
  /\ j \in 1 .. Len(ws) /\ state \in SUBSET Nat /\ state # {}
  /\ base \in Nat /\ it.base <= base /\ WordBits * (j - 1) <= base
  /\ \A c \in state : base + c < WordBits * j /\ base + c \in Members(ws)
  /\ \A n \in Members(ws) :
       n >= it.base => (word(n) = j /\ n >= base /\ n - base \in state) \/ word(n) > j

LeftOf(state) == {b - Shift(state) : b \in {c \in state : c >= Shift(state)}}

Passing(it, s, j, state, base, left) ==
  [set |-> s, at |-> j, state |-> left, base |-> base + Shift(state), done |-> FALSE,
   passed |-> Append(it.passed, base + Shift(state) - 1)]

LEMMA IterMade ==
  ASSUME NEW s \in Name, NEW j \in Nat, NEW left \in SUBSET Nat, NEW b \in Nat, NEW p \in Seq(Nat)
  PROVE  LET r == [set |-> s, at |-> j, state |-> left, base |-> b, done |-> FALSE, passed |-> p]
         IN  r \in IterType /\ ~ r.done /\ r.at = j /\ r.state = left /\ r.base = b /\ r.passed = p
  BY DEF IterType

LEMMA IterEnded ==
  ASSUME NEW it \in IterType, NEW j \in Nat
  PROVE  LET r == [it EXCEPT !.at = j, !.done = TRUE]
         IN  r \in IterType /\ r.done /\ r.base = it.base /\ r.passed = it.passed
  BY DEF IterType

\* The least bit that is left is passed, and the rest is shifted down.
LEMMA ShiftFacts ==
  ASSUME NEW ws \in Store, NEW it \in IterType, PassedBelow(it, ws), NEW s \in Name,
         NEW j, NEW state, NEW base, Ready(it, ws, j, state, base)
  PROVE  LET r == Passing(it, s, j, state, base, LeftOf(state))
         IN  Cursor(r, ws) /\ r.at > 0
<1> DEFINE m == MinOf(state)
           shift == Shift(state)
           left == LeftOf(state)
           r == Passing(it, s, j, state, base, left)
<1>0. /\ j \in 1 .. Len(ws) /\ state \in SUBSET Nat /\ state # {}
      /\ base \in Nat /\ it.base <= base /\ WordBits * (j - 1) <= base
      /\ \A c \in state : base + c < WordBits * j /\ base + c \in Members(ws)
      /\ \A n \in Members(ws) :
           n >= it.base => (word(n) = j /\ n >= base /\ n - base \in state) \/ word(n) > j
  BY DEF Ready
<1>r. /\ left = {b - shift : b \in {c \in state : c >= shift}}
      /\ r = [set |-> s, at |-> j, state |-> left, base |-> base + shift, done |-> FALSE,
              passed |-> Append(it.passed, base + shift - 1)]
  BY DEF LeftOf, Passing
<1> HIDE DEF r, left
<1>1. m \in Nat /\ m \in state /\ \A c \in state : m <= c
  BY <1>0, MinOfIn
<1>2. shift = m + 1 /\ shift \in Nat
  BY <1>1 DEF Shift
<1> HIDE DEF m, shift
<1>3. /\ j \in Nat /\ j > 0 /\ j <= Len(ws) /\ it.passed \in Seq(Nat) /\ it.base \in Nat
      /\ WordBits * j \in Nat /\ WordBits * (j - 1) \in Nat /\ \A n \in Members(ws) : n \in Nat
  <2>1. Len(ws) \in Nat
    BY DEF Store
  <2> QED
    <3>1. j \in Nat /\ j > 0 /\ j <= Len(ws)
      BY <1>0, <2>1
    <3>2. it.passed \in Seq(Nat) /\ it.base \in Nat /\ \A n \in Members(ws) : n \in Nat
      BY MemberFacts DEF IterType
    <3>3. WordBits * j \in Nat /\ WordBits * (j - 1) \in Nat
      <4>1. j - 1 \in Nat /\ WordBits \in Nat
        BY <3>1, BitSetAssumption
      <4> QED
        BY <3>1, <4>1
    <3> QED
      BY <3>1, <3>2, <3>3
<1>4. base + m \in Members(ws) /\ base + m < WordBits * j /\ base + shift - 1 = base + m
  BY <1>0, <1>1, <1>2
<1>5. left \in SUBSET Nat
  BY <1>0, <1>2, <1>r
<1>6. /\ r \in IterType /\ ~ r.done /\ r.at = j /\ r.state = left /\ r.base = base + m + 1
      /\ r.passed = Append(it.passed, base + m)
  <2> DEFINE p == Append(it.passed, base + m)
             b == base + m + 1
  <2>1. p \in Seq(Nat) /\ b \in Nat /\ b = base + shift
    BY <1>0, <1>1, <1>2, <1>3
  <2>2. r = [set |-> s, at |-> j, state |-> left, base |-> b, done |-> FALSE, passed |-> p]
    BY <1>4, <1>r, <2>1
  <2> HIDE DEF p, b
  <2>3. r \in IterType /\ ~ r.done /\ r.at = j /\ r.state = left /\ r.base = b /\ r.passed = p
    BY <1>3, <1>5, <2>1, <2>2, IterMade
  <2> QED
    BY <2>3 DEF p, b
<1>7. ASSUME NEW n \in Members(ws), it.base <= n PROVE base + m <= n
  <2>1. n \in Nat
    BY <1>3
  <2>2. CASE n >= base /\ n - base \in state
    BY <1>0, <1>1, <2>1, <2>2
  <2>3. CASE word(n) > j
    <3>1. WordBits * j <= n
      BY <1>3, <2>1, <2>3, LaterWord
    <3> QED
      BY <1>0, <1>1, <1>3, <1>4, <2>1, <3>1
  <2> QED
    BY <1>0, <1>3, <1>7, <2>1, <2>2, <2>3
<1>8. PassedBelow(r, ws) /\ Len(r.passed) > 0
  <2> DEFINE x == base + m
  <2>1. x \in Members(ws) /\ it.base <= x /\ r.passed = Append(it.passed, x) /\ r.base = x + 1
    BY <1>0, <1>1, <1>3, <1>4, <1>6
  <2>2. \A n \in Members(ws) : it.base <= n => x <= n
    BY <1>7
  <2>3. Len(it.passed) \in Nat
    BY DEF IterType
  <2> HIDE DEF x
  <2>4. PassedBelow(r, ws) /\ Len(r.passed) = Len(it.passed) + 1
    BY <1>6, <2>1, <2>2, PassOne
  <2> QED
    BY <2>3, <2>4
<1>9. r.at <= Len(ws) /\ r.base <= WordBits * r.at /\ r.at # 0 /\ WordBits * (r.at - 1) < r.base
  BY <1>0, <1>1, <1>3, <1>4, <1>6
<1>10. ASSUME NEW c \in r.state
       PROVE  r.base + c < WordBits * r.at /\ r.base + c \in Members(ws)
  <2>1. PICK b \in state : b >= shift /\ c = b - shift
    BY <1>6, <1>r
  <2>2. r.base + c = base + b
    BY <1>0, <1>1, <1>2, <1>6, <2>1
  <2> QED
    BY <1>0, <1>6, <2>1, <2>2
<1>11. ASSUME NEW n \in Members(ws), n >= r.base
       PROVE  (word(n) = r.at /\ n - r.base \in r.state) \/ word(n) > r.at
  <2>1. n \in Nat /\ n >= it.base
    BY <1>0, <1>1, <1>3, <1>6, <1>11
  <2>2. CASE word(n) = j /\ n >= base /\ n - base \in state
    <3> DEFINE b == n - base
    <3>1. b \in state /\ b >= shift /\ n - r.base = b - shift
      BY <1>0, <1>1, <1>2, <1>6, <1>11, <2>1, <2>2
    <3> QED
      BY <1>6, <1>r, <2>2, <3>1
  <2>3. CASE word(n) > j
    BY <1>6, <2>3
  <2> QED
    BY <1>0, <2>1, <2>2, <2>3
<1>12. Cursor(r, ws)
  BY <1>6, <1>8, <1>9, <1>10, <1>11 DEF Cursor
<1> QED
  BY <1>3, <1>6, <1>12 DEF r, left

\* One step of a walk: the next element is passed, or there is none.
LEMMA StepFacts ==
  ASSUME NEW ws \in Store, NEW it, Cursor(it, ws), ~ TopBitAlone(ws), NEW s \in Name,
         NEW r \in Step(it, ws, s)
  PROVE  (Cursor(r, ws) /\ r.at > 0) \/ AtEnd(r, ws)
<1> DEFINE ahead == {j \in it.at + 1 .. Len(ws) : ws[j] # {}}
           j     == IF it.state # {} THEN it.at ELSE IF ahead = {} THEN Len(ws) + 1 ELSE MinOf(ahead)
           state == IF it.state # {} THEN it.state ELSE IF j \in DOMAIN ws THEN ws[j] ELSE {}
           base  == IF it.state # {} THEN it.base ELSE WordBits * (j - 1)
           shift == Shift(state)
           next(l) == Passing(it, s, j, state, base, l)
<1>1. r \in IF j > Len(ws) THEN {[it EXCEPT !.at = j, !.done = TRUE]}
            ELSE {next(l) : l \in IF shift = WordBits THEN {{}, state} ELSE {LeftOf(state)}}
  BY DEF Step, Passing, LeftOf
<1>2. /\ it \in IterType /\ it.at \in Nat /\ it.base \in Nat /\ it.state \in SUBSET Nat /\ ~ it.done
      /\ it.at <= Len(ws) /\ Len(ws) \in Nat /\ Len(ws) <= Words /\ DOMAIN ws = 1 .. Len(ws)
      /\ \A k \in 1 .. Len(ws) : ws[k] \in SUBSET (0 .. WordBits - 1)
      /\ WordBits \in Nat \ {0} /\ Words \in Nat
  BY BitSetAssumption DEF Cursor, IterType, Store, Word
<1>3. /\ it.base <= WordBits * it.at
      /\ it.at = 0 => it.state = {}
      /\ it.at > 0 => WordBits * (it.at - 1) < it.base
      /\ \A c \in it.state : it.base + c < WordBits * it.at /\ it.base + c \in Members(ws)
      /\ \A n \in Members(ws) : n >= it.base => (word(n) = it.at /\ n - it.base \in it.state) \/ word(n) > it.at
      /\ PassedBelow(it, ws)
  BY DEF Cursor
<1>4. \A n \in Members(ws) : n \in Nat /\ word(n) \in 1 .. Len(ws) /\ bit(n) \in ws[word(n)] /\ n = ElementAt(word(n), bit(n))
  BY MemberFacts
<1>5. CASE it.state # {}
  <2>1. j = it.at /\ state = it.state /\ base = it.base /\ it.at \in 1 .. Len(ws)
    BY <1>2, <1>3, <1>5
  <2>2. WordBits * (it.at - 1) \in Nat /\ WordBits * (it.at - 1) + WordBits = WordBits * it.at
    <3> DEFINE a == it.at
    <3>1. WordBits \in Nat /\ a \in Nat \ {0}
      BY <1>2, <2>1
    <3> HIDE DEF a
    <3>2. WordBits * (a - 1) \in Nat /\ WordBits * (a - 1) + WordBits = WordBits * a
      BY <3>1, PreviousMultiple
    <3> QED
      BY <3>2 DEF a
  <2>3. shift # WordBits
    <3>1. MinOf(it.state) \in it.state /\ MinOf(it.state) \in Nat
      BY <1>2, <1>5, MinOfIn
    <3>2. it.base + MinOf(it.state) < WordBits * it.at /\ WordBits * (it.at - 1) < it.base
      BY <1>2, <1>3, <2>1, <3>1
    <3>3. shift = MinOf(it.state) + 1
      BY <2>1 DEF Shift
    <3> HIDE DEF shift, j, state, base
    <3> QED
      BY <1>2, <2>2, <3>1, <3>2, <3>3
  <2>4. r = next(LeftOf(state))
    <3>1. ~ (j > Len(ws))
      BY <2>1
    <3> HIDE DEF shift, j, state, base
    <3> QED
      BY <1>1, <2>3, <3>1
  <2>5. \A n \in Members(ws) : n >= it.base =>
          (word(n) = it.at /\ n >= it.base /\ n - it.base \in it.state) \/ word(n) > it.at
    BY <1>3
  <2>6. Ready(it, ws, j, state, base)
    <3> HIDE DEF j, state, base
    <3> QED
      BY <1>2, <1>3, <1>5, <2>1, <2>2, <2>5 DEF Ready
  <2> HIDE DEF shift, j, state, base
  <2> QED
    BY <1>2, <1>3, <2>4, <2>6, ShiftFacts
<1>6. CASE it.state = {} /\ ahead = {}
  <2>1. j = Len(ws) + 1 /\ r = [it EXCEPT !.at = Len(ws) + 1, !.done = TRUE]
    BY <1>1, <1>2, <1>6
  <2>2. r \in IterType /\ r.done /\ r.base = it.base /\ r.passed = it.passed
    <3> DEFINE a == Len(ws) + 1
    <3>1. a \in Nat /\ r = [it EXCEPT !.at = a, !.done = TRUE]
      BY <1>2, <2>1
    <3> HIDE DEF a
    <3> QED
      BY <1>2, <3>1, IterEnded
  <2>3. ASSUME NEW n \in Members(ws) PROVE n < it.base
    <3> SUFFICES ASSUME n >= it.base PROVE FALSE
      BY <1>2, <1>4
    <3>1. word(n) > it.at
      BY <1>3, <1>6
    <3>2. word(n) \in ahead
      BY <1>2, <1>4, <3>1
    <3> QED
      BY <1>6, <3>2
  <2>4. it.base <= WordBits * Words
    <3>1. it.at < Words => WordBits * it.at + WordBits <= WordBits * Words
      BY <1>2, MultiplesAscend
    <3>2. WordBits * it.at \in Nat /\ WordBits * Words \in Nat /\ (it.at < Words \/ it.at = Words)
      BY <1>2
    <3> QED
      BY <1>2, <1>3, <3>1, <3>2
  <2> QED
    BY <1>3, <2>2, <2>3, <2>4 DEF AtEnd, PassedBelow
<1>7. CASE it.state = {} /\ ahead # {}
  <2>1. /\ MinOf(ahead) \in ahead /\ \A k \in ahead : MinOf(ahead) <= k
    <3>1. ahead \in SUBSET Nat
      BY <1>2
    <3> HIDE DEF ahead
    <3> QED
      BY <1>7, <3>1, MinOfIn
  <2> DEFINE k == MinOf(ahead)
             st == ws[k]
             b0 == WordBits * (k - 1)
  <2>2. /\ k \in 1 .. Len(ws) /\ k > it.at /\ st # {} /\ st \in SUBSET (0 .. WordBits - 1)
        /\ \A i \in it.at + 1 .. Len(ws) : ws[i] # {} => k <= i
    <3>1. k \in ahead /\ \A i \in ahead : k <= i
      BY <2>1
    <3> HIDE DEF k
    <3>2. k \in it.at + 1 .. Len(ws) /\ st # {}
      BY <3>1
    <3>3. \A i \in it.at + 1 .. Len(ws) : ws[i] # {} => k <= i
      BY <3>1
    <3> HIDE DEF ahead
    <3>4. it.at \in Nat /\ Len(ws) \in Nat
      BY <1>2
    <3>5. k \in 1 .. Len(ws) /\ k > it.at
      BY <3>2, <3>4
    <3> QED
      BY <1>2, <3>2, <3>3, <3>5
  <2>3. j = k /\ state = st /\ base = b0 /\ shift = Shift(st)
    BY <1>2, <1>7, <2>2
  <2> HIDE DEF k
  <2>4. b0 \in Nat /\ b0 + WordBits = WordBits * k /\ WordBits * it.at <= b0
    <3> DEFINE q == k - 1
    <3>1. q \in Nat /\ (it.at < q \/ it.at = q)
      BY <1>2, <2>2
    <3>2. it.at < q => WordBits * it.at + WordBits <= WordBits * q
      <4> HIDE DEF q
      <4> QED
        BY <1>2, <3>1, MultiplesAscend
    <3>3. WordBits * q \in Nat /\ WordBits * it.at \in Nat
      BY <1>2, <3>1
    <3>4. WordBits * q + WordBits = WordBits * k
      BY <1>2, <2>2
    <3> QED
      BY <1>2, <3>1, <3>2, <3>3, <3>4
  <2>5. \A c \in st : b0 + c < WordBits * k /\ b0 + c \in Members(ws)
    <3> SUFFICES ASSUME NEW c \in st PROVE b0 + c < WordBits * k /\ b0 + c \in Members(ws)
      OBVIOUS
    <3>1. ElementAt(k, c) \in Members(ws)
      BY <2>2, BitIsMember
    <3> QED
      BY <1>2, <2>2, <2>4, <3>1 DEF ElementAt
  <2>6. \A n \in Members(ws) : n >= it.base => (word(n) = k /\ n >= b0 /\ n - b0 \in st) \/ word(n) > k
    <3> SUFFICES ASSUME NEW n \in Members(ws), n >= it.base
                 PROVE  (word(n) = k /\ n >= b0 /\ n - b0 \in st) \/ word(n) > k
      OBVIOUS
    <3>1. word(n) > it.at /\ word(n) \in it.at + 1 .. Len(ws) /\ ws[word(n)] # {}
      BY <1>2, <1>3, <1>4, <1>7
    <3>2. k <= word(n)
      BY <2>2, <3>1
    <3>3. CASE word(n) = k
      <4>1. n = b0 + bit(n) /\ bit(n) \in st /\ bit(n) \in Nat
        BY <1>2, <1>4, <2>2, <3>3 DEF ElementAt
      <4>2. n >= b0 /\ n - b0 = bit(n)
        BY <2>4, <4>1
      <4> QED
        BY <3>3, <4>1, <4>2
    <3> QED
      BY <1>2, <2>2, <3>1, <3>2, <3>3
  <2>7. shift # WordBits
    <3> SUFFICES ASSUME shift = WordBits PROVE FALSE
      OBVIOUS
    <3>1. st \in SUBSET Nat
      BY <1>2, <2>2
    <3>2. MinOf(st) \in st /\ \A c \in st : MinOf(st) <= c
      BY <2>2, <3>1, MinOfIn
    <3>3. MinOf(st) = WordBits - 1
      <4>1. MinOf(st) + 1 = WordBits
        BY <2>3 DEF Shift
      <4> HIDE DEF st, shift
      <4>2. MinOf(st) \in Nat
        BY <3>1, <3>2
      <4> QED
        BY <4>1, <4>2, BitSetAssumption
    <3>4. st = {WordBits - 1}
      BY <1>2, <2>2, <3>2, <3>3
    <3> QED
      BY <1>2, <2>2, <3>4 DEF TopBitAlone
  <2> HIDE DEF shift, j, state, base
  <2>8. r = next(LeftOf(state))
    <3>1. ~ (j > Len(ws))
      BY <1>2, <2>2, <2>3
    <3> QED
      BY <1>1, <2>7, <3>1
  <2>9. st \in SUBSET Nat /\ it.base <= b0 /\ WordBits * (k - 1) <= b0
    <3>1. WordBits * it.at \in Nat
      BY <1>2
    <3>2. st \in SUBSET Nat
      BY <1>2, <2>2
    <3> HIDE DEF st
    <3> QED
      BY <1>2, <1>3, <2>4, <3>1, <3>2
  <2>10. Ready(it, ws, k, st, b0)
    <3> HIDE DEF st, b0
    <3> QED
      BY <2>2, <2>4, <2>5, <2>6, <2>9 DEF Ready, b0
  <2> QED
    BY <1>2, <1>3, <2>3, <2>8, <2>10, ShiftFacts
<1> QED
  BY <1>5, <1>6, <1>7

\* Whatever the words are, a step makes an iterator over the same set.
LEMMA StepTyped ==
  ASSUME NEW ws \in Store, NEW it \in IterType, NEW r \in Step(it, ws, it.set)
  PROVE  r \in IterType /\ r.set = it.set
<1> DEFINE ahead == {j \in it.at + 1 .. Len(ws) : ws[j] # {}}
           j     == IF it.state # {} THEN it.at ELSE IF ahead = {} THEN Len(ws) + 1 ELSE MinOf(ahead)
           state == IF it.state # {} THEN it.state ELSE IF j \in DOMAIN ws THEN ws[j] ELSE {}
           base  == IF it.state # {} THEN it.base ELSE WordBits * (j - 1)
           shift == Shift(state)
           next(l) == Passing(it, it.set, j, state, base, l)
<1>1. r \in IF j > Len(ws) THEN {[it EXCEPT !.at = j, !.done = TRUE]}
            ELSE {next(l) : l \in IF shift = WordBits THEN {{}, state} ELSE {LeftOf(state)}}
  BY DEF Step, Passing, LeftOf
<1>2. /\ it.at \in Nat /\ it.base \in Nat /\ it.state \in SUBSET Nat /\ it.set \in Name /\ it.passed \in Seq(Nat)
      /\ Len(ws) \in Nat /\ DOMAIN ws = 1 .. Len(ws) /\ \A k \in 1 .. Len(ws) : ws[k] \in SUBSET Nat
      /\ WordBits \in Nat \ {0}
  BY BitSetAssumption DEF IterType, Store, Word
<1>3. it.state = {} /\ ahead # {} => MinOf(ahead) \in 1 .. Len(ws) /\ ws[MinOf(ahead)] # {}
  <2>1. ahead \in SUBSET Nat
    BY <1>2
  <2>2. \A k \in ahead : k \in 1 .. Len(ws) /\ ws[k] # {}
    BY <1>2
  <2> HIDE DEF ahead
  <2> QED
    BY <2>1, <2>2, MinOfIn
<1>4. j \in Nat /\ (it.state = {} => j > 0)
  <2> HIDE DEF ahead
  <2> QED
    BY <1>2, <1>3
<1>5. CASE j > Len(ws)
  <2> HIDE DEF j
  <2>1. r = [it EXCEPT !.at = j, !.done = TRUE]
    BY <1>1, <1>5
  <2> QED
    BY <1>4, <2>1 DEF IterType
<1>6. CASE ~ (j > Len(ws))
  <2>1. state \in SUBSET Nat /\ state # {}
    <3>1. it.state = {} => ahead # {} /\ j = MinOf(ahead)
      BY <1>2, <1>6
    <3> HIDE DEF ahead, j
    <3> QED
      BY <1>2, <1>3, <3>1
  <2>2. base \in Nat
    <3>1. j > 0 => WordBits * (j - 1) \in Nat
      <4> HIDE DEF j
      <4> QED
        BY <1>2, <1>4, PreviousMultiple
    <3> HIDE DEF j
    <3> QED
      BY <1>2, <1>4, <3>1
  <2> HIDE DEF state, base, j
  <2>3. MinOf(state) \in state /\ shift = MinOf(state) + 1
    BY <2>1, MinOfIn DEF Shift
  <2>4. shift \in Nat \ {0}
    <3>1. MinOf(state) \in Nat
      BY <2>1, <2>3
    <3> HIDE DEF shift
    <3> QED
      BY <2>3, <3>1
  <2> HIDE DEF shift
  <2>5. LeftOf(state) \in SUBSET Nat
    BY <2>1, <2>4 DEF LeftOf, shift
  <2>6. PICK l \in SUBSET Nat : r = next(l)
    <3> HIDE DEF next
    <3> QED
      BY <1>1, <1>6, <2>1, <2>5
  <2> DEFINE b == base + shift
             p == Append(it.passed, base + shift - 1)
  <2>7. b \in Nat /\ p \in Seq(Nat)
    <3>1. base + shift - 1 \in Nat
      BY <2>2, <2>4
    <3> QED
      BY <1>2, <2>2, <2>4, <3>1
  <2>8. r = [set |-> it.set, at |-> j, state |-> l, base |-> b, done |-> FALSE, passed |-> p]
    BY <2>6 DEF Passing, shift
  <2> HIDE DEF b, p
  <2> QED
    BY <1>2, <1>4, <2>7, <2>8 DEF IterType
<1> QED
  BY <1>5, <1>6

----------------------------------------------------------------------------
(* The inductive invariant: the words are words, as many as there may be,   *)
(* and an iterator has passed what lies below it, unless it ran into a word *)
(* with nothing but its top bit.                                            *)

BitInv ==
  /\ canResize \in BOOLEAN /\ contract \in BOOLEAN
  /\ data \in [Name -> Store]
  /\ ~ canResize => \A s \in Name : Len(data[s]) = Words
  /\ iter # Idle =>
       /\ iter \in IterType
       /\ \/ TopBitAlone(data[iter.set])
          \/ Cursor(iter, data[iter.set]) /\ iter.at > 0
          \/ AtEnd(iter, data[iter.set])

LEMMA DoesKeeps ==
  ASSUME BitInv, NEW s \in Name, NEW ws \in Store, ~ canResize => Len(ws) = Words,
         NEW value, Does(s, ws, value)
  PROVE  BitInv' /\ AbstractSet!Call(s, Members(ws), value)
<1>1. /\ data' = [data EXCEPT ![s] = ws] /\ answer' = value /\ iter = Idle
      /\ canResize' = canResize /\ iter' = iter /\ contract' = contract
  BY DEF Does, NotWalking
<1>2. data' \in [Name -> Store] /\ \A u \in Name : data'[u] = IF u = s THEN ws ELSE data[u]
  BY <1>1 DEF BitInv
<1>3. BitInv'
  BY <1>1, <1>2 DEF BitInv
<1>4. [u \in Name |-> Members(data'[u])] = [[u \in Name |-> Members(data[u])] EXCEPT ![s] = Members(ws)]
  BY <1>2
<1> QED
  BY <1>1, <1>3, <1>4 DEF AbstractSet!Call

LEMMA AtLeastFacts ==
  ASSUME BitInv, NEW s \in Name, NEW k \in 0 .. Words
  PROVE  LET ws == AtLeast(data[s], k)
         IN  /\ ws \in Store /\ Members(ws) = Members(data[s]) /\ Len(data[s]) <= Len(ws)
             /\ ~ canResize => ws = data[s] /\ Len(ws) = Words
             /\ k <= Len(ws)
<1>1. /\ data[s] \in Store /\ Len(data[s]) \in Nat /\ k \in Nat /\ k <= Words
      /\ ~ canResize => Len(data[s]) = Words
  BY BitSetAssumption DEF BitInv, Store
<1>2. CASE k > Len(data[s])
  <2>1. canResize /\ AtLeast(data[s], k) = resize(data[s], k)
    BY <1>1, <1>2, BitSetAssumption DEF AtLeast, resize64
  <2> QED
    BY <1>1, <1>2, <2>1, ResizeMembers
<1>3. CASE ~ (k > Len(data[s]))
  BY <1>1, <1>3 DEF AtLeast
<1> QED
  BY <1>2, <1>3

LEMMA ShortenedFacts ==
  ASSUME BitInv, NEW s \in Name, NEW t \in Name
  PROVE  LET ws == Shortened(data[s], t)
         IN  /\ ws \in Store /\ Len(ws) <= Len(data[t])
             /\ ~ canResize => Len(ws) = Words
             /\ Members(ws) = {n \in Members(data[s]) : word(n) <= Len(data[t])}
<1>1. /\ data[s] \in Store /\ Len(data[s]) \in Nat /\ data[t] \in Store /\ Len(data[t]) \in 0 .. Words
      /\ ~ canResize => Len(data[s]) = Words /\ Len(data[t]) = Words
  BY BitSetAssumption DEF BitInv, Store
<1>2. CASE Len(data[t]) < Len(data[s])
  <2> DEFINE k == Len(data[t])
             ws == resize(data[s], k)
  <2>1. canResize /\ Shortened(data[s], t) = ws
    BY <1>1, <1>2, BitSetAssumption DEF Shortened, resize64
  <2>2. ws \in Store /\ Len(ws) = k /\ \A i \in 1 .. k : ws[i] = data[s][i]
    <3> HIDE DEF k
    <3>1. /\ ws \in Store /\ Len(ws) = k
          /\ \A i \in 1 .. k : ws[i] = IF i <= Len(data[s]) THEN data[s][i] ELSE {}
      BY <1>1, ResizeMembers DEF k
    <3>2. \A i \in 1 .. k : i <= Len(data[s])
      BY <1>1, <1>2 DEF k
    <3> QED
      BY <3>1, <3>2
  <2> HIDE DEF ws
  <2>3. ASSUME NEW n \in Element
        PROVE  n \in Members(ws) <=> n \in Members(data[s]) /\ word(n) <= k
    <3>1. word(n) \in Nat \ {0}
      BY PlaceFacts DEF Element
    <3>2. CASE word(n) <= k
      <4>1. word(n) \in 1 .. k
        BY <1>1, <3>1, <3>2
      <4> QED
        BY <1>1, <1>2, <2>2, <3>2, <4>1 DEF Members
    <3>3. CASE ~ (word(n) <= k)
      BY <2>2, <3>3 DEF Members
    <3> QED
      BY <3>2, <3>3
  <2>4. \A n \in Members(ws) \union Members(data[s]) : n \in Element
    BY DEF Members
  <2>5. Members(ws) = {n \in Members(data[s]) : word(n) <= k}
    BY <2>3, <2>4
  <2> QED
    BY <1>1, <2>1, <2>2, <2>5
<1>3. CASE ~ (Len(data[t]) < Len(data[s]))
  <2>1. Shortened(data[s], t) = data[s] /\ Len(data[s]) <= Len(data[t])
    BY <1>1, <1>3 DEF Shortened
  <2>2. \A n \in Members(data[s]) : word(n) <= Len(data[t])
    <3> SUFFICES ASSUME NEW n \in Members(data[s]) PROVE word(n) <= Len(data[t])
      OBVIOUS
    <3>1. word(n) \in 1 .. Len(data[s])
      BY <1>1, MemberFacts
    <3> QED
      BY <1>1, <2>1, <3>1
  <2> QED
    BY <1>1, <2>1, <2>2
<1> QED
  BY <1>2, <1>3

----------------------------------------------------------------------------
(* Each operation does what it does for a set.                             *)

LEMMA UndefinedStep ==
  ASSUME BitInv, Undefined
  PROVE  BitInv' /\ AbstractSet!Outside
  BY DEF Undefined, BitInv, AbstractSet!Outside

\* What may be inserted into a Vector has a word that it may grow to.
LEMMA ArgumentFacts ==
  ASSUME NEW n \in Argument
  PROVE  /\ n \in Nat /\ n \in 0 .. WordBits * Words /\ word(n) \in Nat \ {0}
         /\ word(n) <= Words => n \in Element
         /\ canResize => word(n) <= Words
<1>1. WordBits * Words \in Nat
  BY BitSetAssumption
<1>2. n \in 0 .. WordBits * Words
  BY <1>1 DEF Argument, Element
<1>3. n \in Nat
  BY <1>1, <1>2
<1>4. canResize => n \in Element
  BY DEF Argument
<1> QED
  BY <1>2, <1>3, <1>4, PlaceFacts, ElementFacts

LEMMA ContainsFacts ==
  ASSUME NEW ws \in Store, NEW n \in Element, word(n) <= Len(ws)
  PROVE  contains(ws, n) <=> n \in Members(ws)
<1>1. Len(ws) \in Nat /\ word(n) \in Nat \ {0}
  BY PlaceFacts DEF Store, Element
<1>2. ws # <<>>
  BY <1>1
<1> QED
  BY <1>2 DEF contains, Members

\* A call that answers whether n was there, to a set that is now another.
LEMMA Answering ==
  ASSUME BitInv, NEW s \in Name, NEW ws \in Store, ~ canResize => Len(ws) = Words,
         NEW was, NEW n, was <=> n \in Members(data[s]), was \in BOOLEAN, Does(s, ws, <<was>>)
  PROVE  BitInv' /\ AbstractSet!Call(s, Members(ws), <<n \in [u \in Name |-> Members(data[u])][s]>>)
<1>1. was = (n \in [u \in Name |-> Members(data[u])][s])
  OBVIOUS
<1> QED
  BY <1>1, DoesKeeps

LEMMA InsertStep ==
  ASSUME BitInv, NEW s \in Name, NEW n \in Argument, Insert(s, n)
  PROVE  BitInv' /\ (AbstractSet!Insert(s, n) \/ AbstractSet!Outside)
<1> DEFINE w == word(n)
           ws == AtLeast(data[s], w)
           us == [ws EXCEPT ![w] = @ \union {bit(n)}]
           was == contains(ws, n)
<1>1. n \in Nat /\ w \in Nat \ {0} /\ (w <= Words => n \in Element) /\ (canResize => w <= Words)
  BY ArgumentFacts
<1>2. CASE w > Len(ws)
  <2>1. Undefined
    BY <1>2 DEF Insert
  <2> QED
    BY <2>1, UndefinedStep
<1>3. CASE ~ (w > Len(ws))
  <2>1. Does(s, us, <<was>>)
    BY <1>3 DEF Insert
  <2>2. data[s] \in Store /\ (~ canResize => Len(data[s]) = Words) /\ Len(data[s]) \in Nat /\ Words \in Nat
    BY BitSetAssumption DEF BitInv, Store
  <2>3. w <= Words
    <3>1. CASE canResize
      BY <1>1, <3>1
    <3>2. CASE ~ canResize
      <4>1. ws = data[s]
        BY <3>2 DEF AtLeast, resize64
      <4> HIDE DEF w, ws
      <4> QED
        BY <1>1, <1>3, <2>2, <3>2, <4>1
    <3> QED
      BY <3>1, <3>2
  <2>4. /\ ws \in Store /\ Members(ws) = Members(data[s]) /\ (~ canResize => Len(ws) = Words)
        /\ n \in Element /\ w <= Len(ws)
    <3>1. w \in 0 .. Words
      BY <1>1, <2>2, <2>3
    <3> HIDE DEF w
    <3> QED
      BY <1>1, <2>3, <3>1, AtLeastFacts
  <2>5. us \in Store /\ Len(us) = Len(ws) /\ Members(us) = Members(ws) \union {n}
    <3> HIDE DEF ws
    <3> QED
      BY <2>4, InsertMembers
  <2>6. (was <=> n \in Members(data[s])) /\ was \in BOOLEAN
    <3>1. was <=> n \in Members(ws)
      <4> HIDE DEF ws
      <4> QED
        BY <2>4, ContainsFacts
    <3>2. was \in BOOLEAN
      BY DEF contains
    <3> QED
      BY <2>4, <3>1, <3>2
  <2> HIDE DEF was, us
  <2>7. BitInv' /\ AbstractSet!Call(s, Members(us), <<n \in [u \in Name |-> Members(data[u])][s]>>)
    BY <2>1, <2>4, <2>5, <2>6, Answering
  <2>8. Members(us) = [u \in Name |-> Members(data[u])][s] \union {n}
    BY <2>4, <2>5
  <2> QED
    BY <2>7, <2>8 DEF AbstractSet!Insert
<1> QED
  BY <1>2, <1>3

LEMMA RemoveStep ==
  ASSUME BitInv, NEW s \in Name, NEW n \in Argument, Remove(s, n)
  PROVE  BitInv' /\ (AbstractSet!Remove(s, n) \/ AbstractSet!Outside)
<1> DEFINE w == word(n)
           ws == data[s]
           us == [ws EXCEPT ![w] = @ \ {bit(n)}]
           was == contains(ws, n)
<1>1. n \in Nat /\ w \in Nat \ {0} /\ (w <= Words => n \in Element) /\ (canResize => w <= Words)
  BY ArgumentFacts
<1>2. CASE w > Len(ws)
  <2>1. Undefined
    BY <1>2 DEF Remove
  <2> QED
    BY <2>1, UndefinedStep
<1>3. CASE ~ (w > Len(ws))
  <2>1. Does(s, us, <<was>>)
    BY <1>3 DEF Remove
  <2>2. ws \in Store /\ (~ canResize => Len(ws) = Words) /\ Len(ws) \in Nat /\ Words \in Nat /\ Len(ws) <= Words
    BY BitSetAssumption DEF BitInv, Store
  <2>3. w <= Len(ws) /\ n \in Element
    <3> HIDE DEF w, ws
    <3> QED
      BY <1>1, <1>3, <2>2
  <2>5. us \in Store /\ Len(us) = Len(ws) /\ Members(us) = Members(ws) \ {n}
    <3> HIDE DEF ws
    <3> QED
      BY <2>2, <2>3, RemoveMembers
  <2>6. (was <=> n \in Members(data[s])) /\ was \in BOOLEAN
    BY <2>2, <2>3, ContainsFacts DEF contains
  <2> HIDE DEF was, us
  <2>7. BitInv' /\ AbstractSet!Call(s, Members(us), <<n \in [u \in Name |-> Members(data[u])][s]>>)
    BY <2>1, <2>2, <2>5, <2>6, Answering
  <2>8. Members(us) = [u \in Name |-> Members(data[u])][s] \ {n}
    BY <2>5
  <2> QED
    BY <2>7, <2>8 DEF AbstractSet!Remove
<1> QED
  BY <1>2, <1>3

LEMMA ContainsStep ==
  ASSUME BitInv, NEW s \in Name, NEW n \in Argument, Contains(s, n)
  PROVE  BitInv' /\ (AbstractSet!Contains(s, n) \/ AbstractSet!Outside)
<1> DEFINE w == word(n)
           ws == data[s]
           was == contains(ws, n)
<1>1. n \in Nat /\ w \in Nat \ {0} /\ (w <= Words => n \in Element) /\ (canResize => w <= Words)
  BY ArgumentFacts
<1>2. CASE ws # <<>> /\ w > Len(ws)
  <2>1. Undefined
    BY <1>2 DEF Contains
  <2> QED
    BY <2>1, UndefinedStep
<1>3. CASE ~ (ws # <<>> /\ w > Len(ws))
  <2>1. Does(s, ws, <<was>>)
    BY <1>3 DEF Contains
  <2>2. ws \in Store /\ (~ canResize => Len(ws) = Words) /\ Len(ws) \in Nat /\ Words \in Nat /\ Len(ws) <= Words
    BY BitSetAssumption DEF BitInv, Store
  <2>3. was <=> n \in Members(data[s])
    <3>1. CASE ws = <<>>
      <4>1. ~ was /\ ~ (w <= Len(ws))
        BY <1>1, <3>1 DEF contains
      <4> QED
        BY <4>1 DEF Members
    <3>2. CASE ws # <<>>
      <4>1. w <= Len(ws) /\ n \in Element
        <5> HIDE DEF w, ws
        <5> QED
          BY <1>1, <1>3, <2>2, <3>2
      <4> QED
        BY <2>2, <4>1, ContainsFacts
    <3> QED
      BY <3>1, <3>2
  <2>4. was \in BOOLEAN
    BY DEF contains
  <2> HIDE DEF was
  <2>7. BitInv' /\ AbstractSet!Call(s, Members(ws), <<n \in [u \in Name |-> Members(data[u])][s]>>)
    BY <2>1, <2>2, <2>3, <2>4, Answering
  <2>8. Members(ws) = [u \in Name |-> Members(data[u])][s]
    OBVIOUS
  <2> QED
    BY <2>7, <2>8 DEF AbstractSet!Contains
<1> QED
  BY <1>2, <1>3

LEMMA UnionStep ==
  ASSUME BitInv, NEW s \in Name, NEW t \in Name, Union(s, t)
  PROVE  BitInv' /\ AbstractSet!Union(s, t)
<1> DEFINE ts == data[t]
           k == Len(ts)
           ws == AtLeast(data[s], k)
           us == [i \in DOMAIN ws |-> IF i <= Len(ts) THEN ws[i] \union ts[i] ELSE ws[i]]
<1>1. Does(s, us, None)
  BY DEF Union
<1>2. ts \in Store /\ k \in 0 .. Words
  BY BitSetAssumption DEF BitInv, Store
<1>3. /\ ws \in Store /\ Members(ws) = Members(data[s]) /\ (~ canResize => Len(ws) = Words)
      /\ k <= Len(ws)
  <2> HIDE DEF k
  <2> QED
    BY <1>2, AtLeastFacts
<1>4. us \in Store /\ Len(us) = Len(ws) /\ Members(us) = Members(ws) \union Members(ts)
  <2> HIDE DEF ws, ts
  <2> QED
    BY <1>2, <1>3, UnionMembers
<1> HIDE DEF us
<1>5. BitInv' /\ AbstractSet!Call(s, Members(us), None)
  BY <1>1, <1>3, <1>4, DoesKeeps
<1>6. Members(us) = [u \in Name |-> Members(data[u])][s] \union [u \in Name |-> Members(data[u])][t]
  BY <1>3, <1>4
<1> QED
  BY <1>5, <1>6 DEF AbstractSet!Union, AbstractSet!None, None

LEMMA IntersectStep ==
  ASSUME BitInv, NEW s \in Name, NEW t \in Name, Intersect(s, t)
  PROVE  BitInv' /\ AbstractSet!Intersect(s, t)
<1> DEFINE ts == data[t]
           ws == Shortened(data[s], t)
           us == [i \in DOMAIN ws |-> IF i <= Len(ts) THEN ws[i] \intersect ts[i] ELSE ws[i]]
<1>1. Does(s, us, None)
  BY DEF Intersect
<1>2. ts \in Store
  BY DEF BitInv
<1>3. /\ ws \in Store /\ Len(ws) <= Len(ts) /\ (~ canResize => Len(ws) = Words)
      /\ Members(ws) = {n \in Members(data[s]) : word(n) <= Len(ts)}
  BY ShortenedFacts
<1>4. us \in Store /\ Len(us) = Len(ws) /\ Members(us) = Members(ws) \intersect Members(ts)
  <2> HIDE DEF ws, ts
  <2> QED
    BY <1>2, <1>3, IntersectMembers
<1> HIDE DEF us
<1>5. BitInv' /\ AbstractSet!Call(s, Members(us), None)
  BY <1>1, <1>3, <1>4, DoesKeeps
<1>6. \A n \in Members(ts) : word(n) <= Len(ts)
  BY DEF Members
<1>7. Members(us) = [u \in Name |-> Members(data[u])][s] \intersect [u \in Name |-> Members(data[u])][t]
  BY <1>3, <1>4, <1>6
<1> QED
  BY <1>5, <1>7 DEF AbstractSet!Intersect, AbstractSet!None, None

LEMMA SubtractStep ==
  ASSUME BitInv, NEW s \in Name, NEW t \in Name, Subtract(s, t)
  PROVE  BitInv' /\ (AbstractSet!Subtract(s, t) \/ AbstractSet!Outside)
<1> DEFINE ts == data[t]
           ws == Shortened(data[s], t)
           us == [i \in DOMAIN ws |-> ws[i] \ ts[i]]
           kept == Members(ws) = Members(data[s])
<1>1. /\ data' = [data EXCEPT ![s] = us] /\ answer' = None /\ iter = Idle
      /\ contract' = (contract /\ kept) /\ canResize' = canResize /\ iter' = iter
  BY DEF Subtract, NotWalking
<1>2. ts \in Store
  BY DEF BitInv
<1>3. ws \in Store /\ Len(ws) <= Len(ts) /\ (~ canResize => Len(ws) = Words)
  BY ShortenedFacts
<1>4. us \in Store /\ Len(us) = Len(ws) /\ Members(us) = Members(ws) \ Members(ts)
  <2> HIDE DEF ws, ts
  <2> QED
    BY <1>2, <1>3, SubtractMembers
<1> HIDE DEF us, kept
<1>5. data' \in [Name -> Store] /\ \A u \in Name : data'[u] = IF u = s THEN us ELSE data[u]
  BY <1>1, <1>4 DEF BitInv
<1>6. BitInv'
  BY <1>1, <1>3, <1>4, <1>5 DEF BitInv
<1>7. CASE contract /\ kept
  <2>1. contract' = contract
    BY <1>1, <1>7
  <2>2. Members(us) = Members(data[s]) \ Members(data[t])
    BY <1>4, <1>7 DEF kept
  <2>3. [u \in Name |-> Members(data'[u])] =
          [[u \in Name |-> Members(data[u])] EXCEPT ![s] = [u \in Name |-> Members(data[u])][s]
                                                             \ [u \in Name |-> Members(data[u])][t]]
    BY <1>5, <2>2
  <2> QED
    BY <1>1, <1>6, <2>1, <2>3 DEF AbstractSet!Subtract, AbstractSet!Call, AbstractSet!None, None
<1>8. CASE ~ (contract /\ kept)
  BY <1>1, <1>6, <1>8 DEF AbstractSet!Outside
<1> QED
  BY <1>7, <1>8

LEMMA DenseStep ==
  ASSUME BitInv, NEW s \in Name, NEW n \in 0 .. WordBits * Words, Dense(s, n)
  PROVE  BitInv' /\ (AbstractSet!Dense(s, n) \/ AbstractSet!Outside)
<1> DEFINE us == dense(n)
           kept == n % WordBits # 0 \/ n = 0
<1>1. /\ data' = [data EXCEPT ![s] = us] /\ answer' = None /\ iter = Idle
      /\ contract' = (contract /\ kept) /\ canResize' = canResize /\ iter' = iter
  BY DEF Dense, NotWalking
<1>2. us \in Store /\ Len(us) = Words /\ (kept => Members(us) = {k \in 0 .. WordBits * Words : k < n})
  BY DenseMembers
<1> HIDE DEF us, kept
<1>3. data' \in [Name -> Store] /\ \A u \in Name : data'[u] = IF u = s THEN us ELSE data[u]
  BY <1>1, <1>2 DEF BitInv
<1>4. BitInv'
  BY <1>1, <1>2, <1>3 DEF BitInv
<1>5. CASE contract /\ kept
  <2>1. contract' = contract
    BY <1>1, <1>5
  <2>2. [u \in Name |-> Members(data'[u])] =
          [[u \in Name |-> Members(data[u])] EXCEPT ![s] = {k \in 0 .. WordBits * Words : k < n}]
    BY <1>2, <1>3, <1>5
  <2> QED
    BY <1>1, <1>4, <2>1, <2>2 DEF AbstractSet!Dense, AbstractSet!Call, AbstractSet!None, None
<1>6. CASE ~ (contract /\ kept)
  BY <1>1, <1>4, <1>6 DEF AbstractSet!Outside
<1> QED
  BY <1>5, <1>6

LEMMA BeginStep ==
  ASSUME BitInv, NEW s \in Name, Begin(s)
  PROVE  BitInv' /\ UNCHANGED AbstractSet!vars
<1> DEFINE ws == data[s]
           it == Start(s)
<1>1. iter' \in Step(it, ws, s) /\ UNCHANGED <<canResize, data, answer, contract>>
  BY DEF Begin
<1>2. ws \in Store
  BY DEF BitInv
<1>3. Cursor(it, ws) /\ it.set = s /\ it \in IterType
  BY <1>2, StartFacts DEF Start, Cursor
<1> HIDE DEF it, ws
<1>4. iter' \in IterType /\ iter'.set = s
  BY <1>1, <1>2, <1>3, StepTyped
<1>5. TopBitAlone(ws) \/ (Cursor(iter', ws) /\ iter'.at > 0) \/ AtEnd(iter', ws)
  BY <1>1, <1>2, <1>3, StepFacts
<1>6. data'[iter'.set] = ws
  BY <1>1, <1>4 DEF ws
<1>7. BitInv'
  BY <1>1, <1>4, <1>5, <1>6 DEF BitInv
<1> QED
  BY <1>1, <1>7 DEF AbstractSet!vars

LEMMA WalkStep ==
  ASSUME BitInv, Walk
  PROVE  BitInv' /\ UNCHANGED AbstractSet!vars
<1> DEFINE s == iter.set
           ws == data[s]
<1>1. /\ iter' \in Step(iter, ws, s) /\ UNCHANGED <<canResize, data, answer, contract>>
      /\ iter # Idle /\ ~ iter.done
  BY DEF Walk, NotWalking
<1>2. iter \in IterType /\ s \in Name
  BY <1>1 DEF BitInv, IterType
<1>3. ws \in Store
  BY <1>2 DEF BitInv
<1>4. TopBitAlone(ws) \/ Cursor(iter, ws)
  BY <1>1 DEF BitInv, AtEnd
<1> HIDE DEF ws
<1>5. iter' \in IterType /\ iter'.set = s
  BY <1>1, <1>2, <1>3, StepTyped
<1>6. TopBitAlone(ws) \/ (Cursor(iter', ws) /\ iter'.at > 0) \/ AtEnd(iter', ws)
  <2> HIDE DEF s
  <2> QED
    BY <1>1, <1>2, <1>3, <1>4, StepFacts
<1>7. data'[iter'.set] = ws
  BY <1>1, <1>5 DEF ws
<1>8. BitInv'
  BY <1>1, <1>5, <1>6, <1>7 DEF BitInv
<1> QED
  BY <1>1, <1>8 DEF AbstractSet!vars

\* An iterator is at the end before it could have passed more than there is.
LEMMA PassedAll ==
  ASSUME NEW ws \in Store, NEW it \in IterType, Cursor(it, ws) \/ AtEnd(it, ws)
  PROVE  /\ Len(it.passed) <= WordBits * Words
         /\ it.done => {it.passed[i] : i \in DOMAIN it.passed} = Members(ws)
         /\ it.base \in Nat /\ it.base <= WordBits * Words /\ PassedBelow(it, ws)
<1>1. /\ it.passed \in Seq(Nat) /\ Len(it.passed) \in Nat /\ DOMAIN it.passed = 1 .. Len(it.passed)
      /\ it.base \in Nat /\ it.at \in Nat
  BY DEF IterType
<1>2. Len(ws) \in Nat /\ Len(ws) <= Words /\ WordBits \in Nat \ {0} /\ Words \in Nat
  BY BitSetAssumption DEF Store
<1>3. PassedBelow(it, ws) /\ Len(it.passed) <= it.base
  BY DEF Cursor, AtEnd, PassedBelow
<1>4. it.base <= WordBits * Words
  <2>1. CASE Cursor(it, ws)
    <3>1. it.at <= Len(ws) /\ it.base <= WordBits * it.at
      BY <2>1 DEF Cursor
    <3>2. it.at < Words => WordBits * it.at + WordBits <= WordBits * Words
      BY <1>1, <1>2, MultiplesAscend
    <3>3. WordBits * it.at \in Nat /\ WordBits * Words \in Nat /\ (it.at < Words \/ it.at = Words)
      BY <1>1, <1>2, <3>1
    <3> QED
      BY <1>1, <1>2, <3>1, <3>2, <3>3
  <2>2. CASE AtEnd(it, ws)
    BY <2>2 DEF AtEnd
  <2> QED
    BY <2>1, <2>2
<1>5. ASSUME it.done
      PROVE  {it.passed[i] : i \in DOMAIN it.passed} = Members(ws)
  <2>1. \A n \in Members(ws) : n < it.base
    BY <1>5 DEF Cursor, AtEnd
  <2>2. /\ \A i \in 1 .. Len(it.passed) : it.passed[i] \in Members(ws)
        /\ \A n \in Members(ws) : n < it.base => \E i \in 1 .. Len(it.passed) : it.passed[i] = n
    BY <1>3 DEF PassedBelow
  <2> QED
    BY <1>1, <2>1, <2>2
<1>6. WordBits * Words \in Nat
  BY <1>2
<1> QED
  BY <1>1, <1>3, <1>4, <1>5, <1>6

LEMMA FinishStep ==
  ASSUME BitInv, Finish
  PROVE  BitInv' /\ ((\E s \in Name : AbstractSet!Walk(s)) \/ AbstractSet!Outside)
<1> DEFINE s == iter.set
           ws == data[s]
<1>1. /\ iter # Idle /\ (iter.done \/ Len(iter.passed) > WordBits * Words)
      /\ iter' = Idle /\ answer' = <<"passed", Passed>>
      /\ contract' = (contract /\ ~ TopBitAlone(ws)) /\ canResize' = canResize /\ data' = data
  BY DEF Finish, NotWalking
<1>2. iter \in IterType /\ s \in Name
  BY <1>1 DEF BitInv, IterType
<1>3. ws \in Store
  BY <1>2 DEF BitInv
<1>4. BitInv'
  BY <1>1 DEF BitInv
<1>5. CASE contract /\ ~ TopBitAlone(ws)
  <2>1. Cursor(iter, ws) \/ AtEnd(iter, ws)
    BY <1>1, <1>5 DEF BitInv
  <2> HIDE DEF ws
  <2>2. Len(iter.passed) <= WordBits * Words /\ (iter.done => Passed = Members(ws))
    BY <1>2, <1>3, <2>1, PassedAll DEF Passed
  <2>3. Len(iter.passed) \in Nat /\ WordBits * Words \in Nat
    BY <1>2, BitSetAssumption DEF IterType
  <2>4. Passed = Members(ws)
    BY <1>1, <2>2, <2>3
  <2>5. answer' = <<"passed", [u \in Name |-> Members(data[u])][s]>> /\ contract' = contract
    BY <1>1, <1>2, <1>5, <2>4 DEF ws
  <2>6. AbstractSet!Walk(s)
    BY <1>1, <2>5 DEF AbstractSet!Walk
  <2> QED
    BY <1>2, <1>4, <2>6
<1>6. CASE ~ (contract /\ ~ TopBitAlone(ws))
  BY <1>1, <1>4, <1>6 DEF AbstractSet!Outside
<1> QED
  BY <1>5, <1>6

LEMMA BitStep ==
  ASSUME BitInv, BitNext
  PROVE  BitInv' /\ (AbstractSet!Next \/ UNCHANGED AbstractSet!vars)
<1>1. ASSUME ~ contract PROVE AbstractSet!Outside
  <2>1. contract' = FALSE
    <3>1. \A s \in Name, n \in Argument : Insert(s, n) \/ Remove(s, n) \/ Contains(s, n) => contract' = FALSE
      BY <1>1 DEF Insert, Remove, Contains, Undefined, Does
    <3>2. \A s, t \in Name : Union(s, t) \/ Intersect(s, t) => contract' = FALSE
      BY <1>1 DEF Union, Intersect, Does
    <3>3. \A s, t \in Name : Subtract(s, t) => contract' = FALSE
      BY <1>1 DEF Subtract
    <3>4. \A s \in Name, n \in 0 .. WordBits * Words : Dense(s, n) => contract' = FALSE
      BY <1>1 DEF Dense
    <3>5. (\E s \in Name : Begin(s)) \/ Walk \/ Finish => contract' = FALSE
      BY <1>1 DEF Begin, Walk, Finish, BitInv
    <3> QED
      BY <3>1, <3>2, <3>3, <3>4, <3>5 DEF BitNext
  <2> QED
    BY <2>1 DEF AbstractSet!Outside
<1>2. ASSUME NEW s \in Name, NEW n \in Argument, Insert(s, n) \/ Remove(s, n) \/ Contains(s, n)
      PROVE  BitInv' /\ AbstractSet!Next
  <2>1. n \in 0 .. WordBits * Words
    BY ArgumentFacts
  <2>2. BitInv' /\ (AbstractSet!Insert(s, n) \/ AbstractSet!Remove(s, n) \/ AbstractSet!Contains(s, n)
                      \/ AbstractSet!Outside)
    BY <1>2, InsertStep, RemoveStep, ContainsStep
  <2> QED
    BY <1>1, <2>1, <2>2 DEF AbstractSet!Next
<1>3. ASSUME NEW s \in Name, NEW t \in Name, Union(s, t) \/ Intersect(s, t) \/ Subtract(s, t)
      PROVE  BitInv' /\ AbstractSet!Next
  <2>1. BitInv' /\ (AbstractSet!Union(s, t) \/ AbstractSet!Intersect(s, t) \/ AbstractSet!Subtract(s, t)
                      \/ AbstractSet!Outside)
    BY <1>3, UnionStep, IntersectStep, SubtractStep
  <2> QED
    BY <1>1, <2>1 DEF AbstractSet!Next
<1>4. ASSUME NEW s \in Name, NEW n \in 0 .. WordBits * Words, Dense(s, n)
      PROVE  BitInv' /\ AbstractSet!Next
  BY <1>1, <1>4, DenseStep DEF AbstractSet!Next
<1>5. CASE Finish
  BY <1>1, <1>5, FinishStep DEF AbstractSet!Next
<1> QED
  BY <1>2, <1>3, <1>4, <1>5, BeginStep, WalkStep DEF BitNext

LEMMA BitInitFacts ==
  ASSUME BitInit
  PROVE  BitInv /\ AbstractSet!Init
<1>1. /\ canResize \in BOOLEAN /\ answer = None /\ iter = Idle /\ contract = TRUE
      /\ data = [s \in Name |-> IF canResize THEN <<>> ELSE [i \in 1 .. Words |-> {}]]
  BY DEF BitInit
<1>2. Words \in Nat
  BY BitSetAssumption
<1>3. /\ <<>> \in Store /\ Len(<<>>) = 0
      /\ [i \in 1 .. Words |-> {}] \in Store /\ Len([i \in 1 .. Words |-> {}]) = Words
      /\ \A k \in 1 .. Words : [i \in 1 .. Words |-> {}][k] = {}
  <2> DEFINE ws == [i \in 1 .. Words |-> {}]
  <2>1. ws \in [1 .. Words -> Word]
    BY DEF Word
  <2> HIDE DEF ws
  <2>2. ws \in Seq(Word) /\ Len(ws) = Words
    BY <1>2, <2>1
  <2> QED
    BY <1>2, <2>2 DEF Store, ws
<1>4. Members(<<>>) = {} /\ Members([i \in 1 .. Words |-> {}]) = {}
  <2>1. \A n \in Element : word(n) \in Nat \ {0}
    BY PlaceFacts DEF Element
  <2> QED
    BY <1>2, <1>3, <2>1 DEF Members
<1>5. BitInv
  BY <1>1, <1>3 DEF BitInv
<1>6. [s \in Name |-> Members(data[s])] = [s \in Name |-> {}]
  BY <1>1, <1>4
<1> QED
  BY <1>1, <1>5, <1>6 DEF AbstractSet!Init, AbstractSet!None, None

(* A BitSet behaves like a set of integers: insert, remove, contains, the      *)
(* operators on two sets, dense and a walk, for every width of a word and      *)
(* every number of words, until a call leaves the contract of the class.       *)
THEOREM BitSetsAreSets == BitSpec => IsASet
<1>1. BitInit => BitInv /\ AbstractSet!Init
  BY BitInitFacts
<1>2. BitInv /\ [BitNext]_bitVars => BitInv' /\ [AbstractSet!Next]_(AbstractSet!vars)
  <2>1. CASE BitNext
    BY <2>1, BitStep
  <2>2. CASE UNCHANGED bitVars
    BY <2>2 DEF bitVars, BitInv, AbstractSet!vars
  <2> QED
    BY <2>1, <2>2
<1> QED
  BY <1>1, <1>2, PTL DEF BitSpec, IsASet, AbstractSet!Spec

----------------------------------------------------------------------------
(* What a set says of itself.                                              *)

\* Nothing but the least member is below all members.
LEMMA LeastIs ==
  ASSUME NEW S \in SUBSET Nat, NEW m \in S, \A k \in S : m <= k
  PROVE  MinOf(S) = m
<1>1. MinOf(S) \in S /\ \A k \in S : MinOf(S) <= k
  BY MinOfIn
<1>2. MinOf(S) \in Nat /\ m \in Nat /\ MinOf(S) <= m /\ m <= MinOf(S)
  BY <1>1
<1> QED
  BY <1>2

LEMMA FrontIsLeast ==
  ASSUME NEW ws \in Store
  PROVE  front(ws) = IF Members(ws) = {} THEN NoElement ELSE MinOf(Members(ws))
<1> DEFINE full == {i \in DOMAIN ws : ws[i] # {}}
<1>1. /\ Len(ws) \in Nat /\ DOMAIN ws = 1 .. Len(ws) /\ \A i \in 1 .. Len(ws) : ws[i] \in SUBSET Nat
      /\ \A n \in Members(ws) : n \in Nat
  BY MemberFacts DEF Store, Word
<1>2. full \in SUBSET Nat
  BY <1>1
<1>3. CASE full = {}
  <2>1. Members(ws) = {}
    <3> SUFFICES ASSUME NEW n \in Members(ws) PROVE FALSE
      OBVIOUS
    <3>1. word(n) \in full
      BY <1>1, MemberFacts
    <3> QED
      BY <1>3, <3>1
  <2> QED
    BY <1>3, <2>1 DEF front
<1>4. CASE full # {}
  <2> DEFINE j == MinOf(full)
             m == MinOf(ws[j])
  <2>1. j \in full /\ \A i \in full : j <= i
    BY <1>2, <1>4, MinOfIn
  <2> HIDE DEF j
  <2>2. j \in 1 .. Len(ws) /\ ws[j] \in SUBSET Nat /\ ws[j] # {}
    BY <1>1, <2>1
  <2>3. m \in ws[j] /\ m \in Nat /\ \A b \in ws[j] : m <= b
    BY <2>2, MinOfIn
  <2> HIDE DEF m
  <2>4. ElementAt(j, m) \in Members(ws) /\ ElementAt(j, m) \in Nat
    BY <2>2, <2>3, BitIsMember
  <2>5. ASSUME NEW n \in Members(ws) PROVE ElementAt(j, m) <= n
    <3>1. /\ word(n) \in full /\ bit(n) \in ws[word(n)] /\ n \in Nat /\ word(n) \in Nat \ {0} /\ j \in Nat \ {0}
          /\ bit(n) \in 0 .. WordBits - 1 /\ n = ElementAt(word(n), bit(n)) /\ m \in 0 .. WordBits - 1
      BY <1>1, <2>2, <2>3, MemberFacts DEF Store, Word
    <3>2. j <= word(n) /\ (j = word(n) => m <= bit(n))
      BY <2>1, <2>3, <3>1
    <3> DEFINE w == word(n)
               b == bit(n)
    <3>3. w \in Nat \ {0} /\ b \in 0 .. WordBits - 1 /\ ~ (w < j \/ (w = j /\ b < m)) /\ n = ElementAt(w, b)
      BY <3>1, <3>2
    <3> HIDE DEF w, b
    <3>4. ~ (ElementAt(w, b) < ElementAt(j, m))
      BY <3>1, <3>3, PlacesAscend
    <3> QED
      BY <2>4, <3>1, <3>3, <3>4
  <2>6. MinOf(Members(ws)) = ElementAt(j, m)
    <3> DEFINE S == Members(ws)
               x == ElementAt(j, m)
    <3>1. S \in SUBSET Nat /\ x \in S /\ \A k \in S : x <= k
      BY <1>1, <2>4, <2>5
    <3> HIDE DEF S, x
    <3>2. MinOf(S) = x
      BY <3>1, LeastIs
    <3> QED
      BY <3>2 DEF S, x
  <2>7. front(ws) = ElementAt(j, m)
    <3>1. front(ws) = WordBits * (MinOf(full) - 1) + MinOf(ws[MinOf(full)])
      BY <1>4 DEF front
    <3> QED
      BY <3>1 DEF ElementAt, j, m
  <2> QED
    BY <2>4, <2>6, <2>7
<1> QED
  BY <1>3, <1>4

\* A nonempty word has a top bit.
LEMMA TopBit ==
  ASSUME NEW W \in Nat, NEW S \in SUBSET (0 .. W), S # {}
  PROVE  LET b == CHOOSE b \in S : \A c \in S : c <= b IN b \in S /\ \A c \in S : c <= b
<1> DEFINE D == {W - k : k \in S}
<1>1. D \in SUBSET Nat /\ D # {}
  <2>1. \A k \in S : W - k \in Nat
    OBVIOUS
  <2> QED
    BY <2>1
<1>2. MinOf(D) \in D /\ \A y \in D : MinOf(D) <= y
  <2> HIDE DEF D
  <2> QED
    BY <1>1, MinOfIn
<1>3. PICK m \in S : MinOf(D) = W - m
  BY <1>2
<1>4. ASSUME NEW k \in S PROVE k <= m
  <2>1. W - k \in D
    OBVIOUS
  <2>2. W - m <= W - k
    BY <1>2, <1>3, <2>1
  <2>3. k \in 0 .. W /\ m \in 0 .. W
    OBVIOUS
  <2> QED
    BY <2>2, <2>3
<1> QED
  BY <1>4

LEMMA BelowMaxValue ==
  ASSUME NEW ws \in Store, NEW n \in Members(ws)
  PROVE  n < maxValue(ws)
<1>1. /\ n \in Nat /\ word(n) \in 1 .. Len(ws) /\ bit(n) \in ws[word(n)]
      /\ bit(n) \in 0 .. WordBits - 1 /\ n = ElementAt(word(n), bit(n)) /\ Len(ws) \in Nat
      /\ WordBits \in Nat \ {0} /\ \A i \in 1 .. Len(ws) : ws[i] \in SUBSET (0 .. WordBits - 1)
  BY MemberFacts, BitSetAssumption DEF Store, Word
<1> DEFINE L == Len(ws)
           last == ws[L]
           top == CHOOSE b \in last : \A c \in last : c <= b
           k == L - 1
           w == word(n) - 1
<1>2. /\ L \in Nat \ {0} /\ ws # <<>> /\ last \in SUBSET (0 .. WordBits - 1)
      /\ k \in Nat /\ w \in Nat /\ (w < k \/ w = k) /\ (w = k => bit(n) \in last)
      /\ n = WordBits * w + bit(n)
  <2>1. L \in Nat \ {0} /\ L \in 1 .. L /\ word(n) \in Nat /\ word(n) >= 1 /\ word(n) <= L
    BY <1>1
  <2>2. ws # <<>> /\ last \in SUBSET (0 .. WordBits - 1)
    BY <1>1, <2>1
  <2>3. n = WordBits * w + bit(n)
    BY <1>1 DEF ElementAt
  <2>4. k \in Nat /\ w \in Nat /\ (w < k \/ w = k) /\ (w = k => word(n) = L)
    <3> HIDE DEF L
    <3> QED
      BY <2>1
  <2> HIDE DEF w, k
  <2> QED
    BY <1>1, <2>1, <2>2, <2>3, <2>4
<1>3. maxValue(ws) = WordBits * L - (IF last = {} THEN WordBits ELSE WordBits - 1 - top)
  BY <1>2 DEF maxValue
<1>4. last # {} => top \in last /\ \A c \in last : c <= top
  <2> DEFINE W == WordBits - 1
  <2>1. W \in Nat /\ last \in SUBSET (0 .. W)
    BY <1>1, <1>2
  <2> HIDE DEF W, last
  <2> QED
    BY <2>1, TopBit
<1>5. WordBits * L = WordBits * k + WordBits /\ WordBits * k \in Nat /\ WordBits * w \in Nat
  <2>1. WordBits \in Nat /\ L \in Nat \ {0} /\ w \in Nat
    BY <1>1, <1>2
  <2> HIDE DEF w, L
  <2>2. WordBits * w \in Nat
    BY <2>1
  <2> QED
    BY <2>1, <2>2, PreviousMultiple
<1> HIDE DEF last, top, k, w, L
<1>6. w < k => WordBits * w + WordBits <= WordBits * k
  BY <1>1, <1>2, MultiplesAscend
<1>7. CASE last = {}
  <2>1. maxValue(ws) = WordBits * k
    BY <1>1, <1>3, <1>5, <1>7
  <2> QED
    BY <1>1, <1>2, <1>5, <1>6, <1>7, <2>1
<1>8. CASE last # {}
  <2>1. top \in 0 .. WordBits - 1 /\ (w = k => bit(n) <= top)
    BY <1>2, <1>4, <1>8
  <2>2. maxValue(ws) = WordBits * k + 1 + top
    BY <1>1, <1>3, <1>5, <1>8, <2>1
  <2>3. w < k => n < WordBits * k
    BY <1>1, <1>2, <1>5, <1>6
  <2>4. w = k => n <= WordBits * k + top
    BY <1>1, <1>2, <1>5, <2>1
  <2> QED
    BY <1>1, <1>2, <1>5, <2>1, <2>2, <2>3, <2>4
<1> QED
  BY <1>7, <1>8

\* The members in the first words.
FirstOf(ws, i) == {n \in Members(ws) : word(n) <= i}

LEMMA CountWord ==
  ASSUME NEW ws \in Store, NEW i \in 1 .. Len(ws)
  PROVE  /\ IsFiniteSet(FirstOf(ws, i)) /\ Cardinality(FirstOf(ws, i)) \in Nat
         /\ Cardinality(FirstOf(ws, i)) = Cardinality(FirstOf(ws, i - 1)) + Cardinality(ws[i])
<1> DEFINE A == FirstOf(ws, i - 1)
           B == {n \in Members(ws) : word(n) = i}
           f == [b \in ws[i] |-> ElementAt(i, b)]
<1>1. /\ i \in Nat \ {0} /\ Len(ws) \in Nat /\ ws[i] \in SUBSET (0 .. WordBits - 1) /\ WordBits \in Nat
      /\ \A n \in Members(ws) : n \in Nat /\ n \in Element /\ word(n) \in Nat
      /\ IsFiniteSet(Element)
  <2>1. WordBits * Words - 1 \in Int
    BY BitSetAssumption
  <2>2. IsFiniteSet(Element)
    BY <2>1, FS_Interval DEF Element
  <2>3. \A n \in Members(ws) : n \in Nat /\ n \in Element /\ word(n) \in Nat
    BY MemberFacts DEF Store
  <2> QED
    BY <2>2, <2>3, BitSetAssumption DEF Store, Word
<1>2. FirstOf(ws, i) = A \union B /\ A \intersect B = {}
  BY <1>1 DEF FirstOf
<1>3. A \subseteq Element /\ B \subseteq Element /\ FirstOf(ws, i) \subseteq Element
  BY <1>1 DEF FirstOf
<1>4. IsFiniteSet(A) /\ IsFiniteSet(B) /\ IsFiniteSet(FirstOf(ws, i))
  BY <1>1, <1>3, FS_Subset
<1>5. f \in Bijection(ws[i], B)
  <2>1. ASSUME NEW b \in ws[i]
        PROVE  /\ f[b] = ElementAt(i, b) /\ f[b] \in B /\ bit(f[b]) = b
    <3>1. b \in 0 .. WordBits - 1
      BY <1>1
    <3>2. word(ElementAt(i, b)) = i /\ bit(ElementAt(i, b)) = b
      BY <1>1, <3>1, PlaceUnique
    <3>3. ElementAt(i, b) \in Members(ws)
      BY BitIsMember
    <3> QED
      BY <3>2, <3>3
  <2>2. \A a, b \in ws[i] : f[a] = f[b] => a = b
    BY <2>1
  <2>3. ASSUME NEW n \in B PROVE \E b \in ws[i] : f[b] = n
    <3>1. bit(n) \in ws[i] /\ n = ElementAt(i, bit(n))
      BY MemberFacts
    <3> QED
      BY <3>1
  <2>4. f \in [ws[i] -> B]
    BY <2>1
  <2> HIDE DEF f, B
  <2> QED
    BY <2>2, <2>3, <2>4, Fun_IsBij
<1>6. IsFiniteSet(ws[i]) /\ Cardinality(B) = Cardinality(ws[i])
  <2>1. IsFiniteSet(0 .. WordBits - 1)
    <3>1. WordBits - 1 \in Int
      BY <1>1
    <3> QED
      BY <3>1, FS_Interval
  <2>2. IsFiniteSet(ws[i])
    BY <1>1, <2>1, FS_Subset
  <2>3. ExistsBijection(ws[i], B)
    BY <1>5 DEF ExistsBijection
  <2> HIDE DEF B
  <2> QED
    BY <2>2, <2>3, FS_Bijection
<1> HIDE DEF A, B
<1>7. /\ Cardinality(A \union B) = Cardinality(A) + Cardinality(B) - Cardinality(A \intersect B)
      /\ Cardinality(A) \in Nat /\ Cardinality(B) \in Nat /\ Cardinality(A \intersect B) = 0
  BY <1>2, <1>4, FS_Union, FS_CardinalityType, FS_EmptySet
<1> QED
  BY <1>2, <1>4, <1>6, <1>7, FS_CardinalityType DEF A

\* size counts the members.
LEMMA SizeIsCardinality ==
  ASSUME NEW ws \in Store
  PROVE  size(ws) = Cardinality(Members(ws))
<1> DEFINE L == Len(ws)
           Counts(f) == f = [i \in 0 .. L |-> IF i = 0 THEN 0 ELSE f[i - 1] + Cardinality(ws[i])]
           g == [i \in 0 .. L |-> Cardinality(FirstOf(ws, i))]
<1>1. L \in Nat
  BY DEF Store
<1>2. FirstOf(ws, 0) = {} /\ FirstOf(ws, L) = Members(ws)
  <2>1. \A n \in Members(ws) : word(n) \in 1 .. Len(ws)
    BY MemberFacts
  <2> QED
    BY <1>1, <2>1 DEF FirstOf
<1>3. /\ g[0] = 0 /\ g[L] = Cardinality(Members(ws))
      /\ \A i \in 1 .. L : i - 1 \in 0 .. L /\ g[i] = g[i - 1] + Cardinality(ws[i])
  <2>1. g[0] = 0 /\ g[L] = Cardinality(Members(ws))
    BY <1>1, <1>2, FS_EmptySet
  <2>2. ASSUME NEW i \in 1 .. L
        PROVE  i - 1 \in 0 .. L /\ g[i] = g[i - 1] + Cardinality(ws[i])
    <3>1. Cardinality(FirstOf(ws, i)) = Cardinality(FirstOf(ws, i - 1)) + Cardinality(ws[i])
      BY CountWord
    <3>2. i - 1 \in 0 .. L /\ i \in 0 .. L
      BY <1>1
    <3> QED
      BY <3>1, <3>2
  <2> QED
    BY <2>1, <2>2
<1>4. g = [i \in 0 .. L |-> g[i]]
  OBVIOUS
<1> HIDE DEF g, L
<1>5. Counts(g)
  <2>1. \A i \in 0 .. L : g[i] = IF i = 0 THEN 0 ELSE g[i - 1] + Cardinality(ws[i])
    BY <1>1, <1>3
  <2> QED
    BY <1>4, <2>1
<1>6. ASSUME NEW f, Counts(f)
      PROVE  f = g
  <2> DEFINE D == {i \in 0 .. L : f[i] # g[i]}
  <2>1. \A i \in 0 .. L : f[i] = IF i = 0 THEN 0 ELSE f[i - 1] + Cardinality(ws[i])
    BY <1>6
  <2>2. D = {}
    <3> SUFFICES ASSUME D # {} PROVE FALSE
      OBVIOUS
    <3> DEFINE i == MinOf(D)
    <3>1. i \in D /\ \A k \in D : i <= k
      <4>1. D \in SUBSET Nat
        BY <1>1
      <4> HIDE DEF D
      <4> QED
        BY <4>1, MinOfIn
    <3> HIDE DEF i
    <3>2. i \in 0 .. L /\ f[i] # g[i]
      BY <3>1
    <3>3. i # 0
      BY <1>1, <1>3, <2>1, <3>2
    <3>4. i \in 1 .. L
      BY <1>1, <3>2, <3>3
    <3>5. i - 1 \notin D /\ i - 1 \in 0 .. L
      BY <1>1, <1>3, <3>1, <3>4
    <3>6. f[i - 1] = g[i - 1]
      BY <3>5
    <3> QED
      BY <1>3, <2>1, <3>2, <3>3, <3>4, <3>6
  <2>3. \A i \in 0 .. L : f[i] = g[i]
    BY <2>2
  <2>4. f = [i \in 0 .. L |-> IF i = 0 THEN 0 ELSE f[i - 1] + Cardinality(ws[i])]
    BY <1>6
  <2> HIDE DEF Counts, D
  <2>5. f = [i \in 0 .. L |-> f[i]]
    BY <2>1, <2>4
  <2> QED
    BY <1>4, <2>3, <2>5
<1>7. popcount(ws) = g[L]
  BY <1>5, <1>6, Zenon DEF popcount, L
<1> QED
  BY <1>3, <1>7 DEF size

\* What is known of a walk that has not run into a word with only its top bit.
LEMMA WalkAscends ==
  ASSUME BitInv
  PROVE  Ascending
<1> SUFFICES ASSUME iter # Idle, ~ TopBitAlone(data[iter.set])
             PROVE  /\ \A i, j \in DOMAIN iter.passed : i < j => iter.passed[i] < iter.passed[j]
                    /\ Passed = IF iter.done THEN Members(data[iter.set])
                                ELSE {n \in Members(data[iter.set]) : n <= iter.passed[Len(iter.passed)]}
  BY DEF Ascending, NotWalking
<1> DEFINE ws == data[iter.set]
           p == iter.passed
           k == Len(p)
<1>1. iter \in IterType /\ iter.set \in Name /\ ((Cursor(iter, ws) /\ iter.at > 0) \/ AtEnd(iter, ws))
  BY DEF BitInv, IterType
<1>2. ws \in Store
  BY <1>1 DEF BitInv
<1> HIDE DEF ws
<1>3. PassedBelow(iter, ws) /\ (iter.done => Passed = Members(ws))
  BY <1>1, <1>2, PassedAll DEF Passed
<1>4. p \in Seq(Nat) /\ k \in Nat /\ DOMAIN p = 1 .. k /\ iter.base \in Nat
  BY <1>1 DEF IterType
<1>5. /\ \A i, j \in 1 .. k : i < j => p[i] < p[j]
      /\ \A i \in 1 .. k : p[i] \in Members(ws) /\ p[i] < iter.base
      /\ \A n \in Members(ws) : n < iter.base => \E i \in 1 .. k : p[i] = n
      /\ k > 0 => p[k] = iter.base - 1
  BY <1>3 DEF PassedBelow
<1>6. ~ iter.done => k > 0
  BY <1>1 DEF Cursor, AtEnd
<1>7. \A n \in Members(ws) : n \in Nat
  BY <1>2, MemberFacts
<1>8. Passed = {p[i] : i \in 1 .. k}
  BY <1>4 DEF Passed
<1> HIDE DEF p, k
<1>9. ASSUME ~ iter.done
      PROVE  Passed = {n \in Members(ws) : n <= p[k]}
  <2>1. p[k] = iter.base - 1 /\ k \in 1 .. k
    BY <1>4, <1>5, <1>6, <1>9
  <2>2. \A n \in Members(ws) : n < iter.base <=> n <= p[k]
    BY <1>4, <1>7, <2>1
  <2> QED
    BY <1>5, <1>8, <2>2
<1>10. \A i, j \in DOMAIN p : i < j => p[i] < p[j]
  BY <1>4, <1>5
<1> QED
  BY <1>3, <1>9, <1>10 DEF p, k, ws

(* What a BitSet says of itself is true, for every width of a word: front,     *)
(* size and maxValue of BitSets.hpp, and the order of the iterator that the    *)
(* scheduler and strongConnect loop with.                                      *)
THEOREM BitSetsReadMembers == BitSpec => []ReadsMembers
<1>1. BitInit => BitInv
  BY BitInitFacts
<1>2. BitInv /\ [BitNext]_bitVars => BitInv'
  <2>1. CASE BitNext
    BY <2>1, BitStep
  <2>2. CASE UNCHANGED bitVars
    BY <2>2 DEF bitVars, BitInv
  <2> QED
    BY <2>1, <2>2
<1>3. BitInv => ReadsMembers
  <2> SUFFICES ASSUME BitInv PROVE ReadsMembers
    OBVIOUS
  <2>1. \A s \in Name : data[s] \in Store
    BY DEF BitInv
  <2>2. QueriesTruthful
    BY <2>1, FrontIsLeast, SizeIsCardinality, BelowMaxValue DEF QueriesTruthful
  <2> QED
    BY <2>2, WalkAscends DEF ReadsMembers
<1> QED
  BY <1>1, <1>2, <1>3, PTL DEF BitSpec
==============================================================================
