--------------------------- MODULE MatrixOpsProofs ---------------------------
(***************************************************************************)
(* Proofs about MatrixOps for matrices of every size: the elements that    *)
(* lie a stride apart in a buffer are the grid of numbers of MatrixSpec.   *)
(***************************************************************************)
EXTENDS MatrixOps, TLAPS

----------------------------------------------------------------------------
(* Numbers.                                                                *)

\* Products of naturals.
LEMMA ProductFacts ==
  ASSUME NEW x \in Nat, NEW p \in Nat, NEW q \in Nat
  PROVE  /\ p * x \in Nat /\ q * x \in Nat /\ (p + 1) * x = p * x + x
         /\ p < q => p * x + x <= q * x
         /\ p <= q => p * x <= q * x
<1>1. p * x \in Nat /\ q * x \in Nat /\ (p + 1) * x = p * x + x
  OBVIOUS
<1>2. ASSUME p < q PROVE p * x + x <= q * x
  <2>1. PICK k \in Nat : q = p + 1 + k
    <3>1. q - p - 1 \in Nat /\ q = p + 1 + (q - p - 1)
      BY <1>2
    <3> QED
      BY <3>1
  <2>2. q * x = p * x + x + k * x /\ k * x \in Nat
    BY <2>1
  <2> QED
    BY <1>1, <2>2
<1>3. p = q => p * x <= q * x
  BY <1>1
<1>4. p <= q => p < q \/ p = q
  OBVIOUS
<1> QED
  BY <1>1, <1>2, <1>3, <1>4

\* The row and the column that an address holds.
LEMMA RowColumn ==
  ASSUME NEW d, d.x \in Nat, NEW r \in Nat, NEW c \in Nat, c < d.x
  PROVE  RowOf(r * d.x + c, d) = r /\ ColOf(r * d.x + c, d) = c
<1> DEFINE x == d.x
           a == r * x + c
           p == a \div x
           b == a % x
<1>1. x \in Nat \ {0} /\ r * x \in Nat /\ a \in Nat /\ a = r * x + c /\ c < x
  OBVIOUS
<1> HIDE DEF x, a
<1>2. p \in Nat /\ b \in 0 .. x - 1 /\ a = x * p + b
  BY <1>1
<1>3. x * p = p * x
  BY <1>1, <1>2
<1> HIDE DEF p, b
<1>4. p < r => p * x + x <= r * x
  BY <1>1, <1>2, ProductFacts
<1>5. r < p => r * x + x <= p * x
  BY <1>1, <1>2, ProductFacts
<1>6. p * x \in Nat
  BY <1>1, <1>2
<1>7. p = r
  BY <1>1, <1>2, <1>3, <1>4, <1>5, <1>6
<1>8. b = c
  BY <1>1, <1>2, <1>3, <1>6, <1>7
<1> QED
  BY <1>7, <1>8 DEF RowOf, ColOf, p, b, a, x

----------------------------------------------------------------------------
(* The buffer.                                                             *)

Buffer(b, n) == n \in Nat /\ b = [a \in 0 .. n - 1 |-> b[a]]

\* The largest address says how much there is.
LEMMA CapacityFacts ==
  ASSUME NEW n, Buffer(buf, n)
  PROVE  capacity = n /\ (buf = <<>> <=> n = 0)
<1>1. n \in Nat /\ buf = [a \in 0 .. n - 1 |-> buf[a]] /\ DOMAIN buf = 0 .. n - 1
  BY DEF Buffer
<1>2. CASE n = 0
  <2>1. 0 .. n - 1 = {}
    BY <1>2
  <2>2. buf = <<>>
    BY <1>1, <2>1
  <2> QED
    BY <1>2, <2>2 DEF capacity
<1>3. CASE n # 0
  <2> DEFINE top == CHOOSE a \in DOMAIN buf : \A b \in DOMAIN buf : b <= a
  <2>1. n - 1 \in DOMAIN buf /\ \A b \in DOMAIN buf : b <= n - 1
    BY <1>1, <1>3
  <2>2. top \in DOMAIN buf /\ \A b \in DOMAIN buf : b <= top
    BY <2>1
  <2>3. top = n - 1
    <3>1. top \in 0 .. n - 1 /\ n - 1 <= top
      BY <1>1, <2>1, <2>2
    <3> HIDE DEF top
    <3> QED
      BY <1>1, <3>1
  <2>4. buf # <<>>
    <3>1. DOMAIN buf # {}
      BY <2>1
    <3> QED
      BY <3>1
  <2> HIDE DEF top
  <2>5. 1 + top = n
    BY <1>1, <2>3
  <2> QED
    BY <1>3, <2>4, <2>5 DEF capacity, top
<1> QED
  BY <1>2, <1>3

\* The inductive invariant: the rows fit in the buffer, a stride apart.
MatInv ==
  /\ isDense \in BOOLEAN /\ intact \in BOOLEAN
  /\ dims \in [m : Nat, n : Nat, x : Nat] /\ dims.n <= dims.x /\ (isDense => dims.x = dims.n)
  /\ \E n \in Nat : Buffer(buf, n) /\ dims.m * dims.x <= n

LEMMA DimsFacts ==
  ASSUME MatInv
  PROVE  /\ dims.m \in Nat /\ dims.n \in Nat /\ dims.x \in Nat /\ dims.n <= dims.x
         /\ isDense => dims.x = dims.n
         /\ dims = [m |-> dims.m, n |-> dims.n, x |-> dims.x]
         /\ capacity \in Nat /\ Buffer(buf, capacity) /\ dims.m * dims.x <= capacity
         /\ DOMAIN buf = 0 .. capacity - 1 /\ (buf = <<>> <=> capacity = 0)
<1>1. PICK n \in Nat : Buffer(buf, n) /\ dims.m * dims.x <= n
  BY DEF MatInv
<1>2. capacity = n /\ (buf = <<>> <=> n = 0)
  BY <1>1, CapacityFacts
<1>3. DOMAIN buf = 0 .. n - 1
  BY <1>1 DEF Buffer
<1> QED
  BY <1>1, <1>2, <1>3 DEF MatInv

\* A place of the grid lies in the buffer.
LEMMA InBuffer ==
  ASSUME NEW m \in Nat, NEW x \in Nat, NEW n \in Nat, m * x <= n,
         NEW r \in Nat, r < m, NEW c \in Nat, c < x
  PROVE  r * x + c \in 0 .. n - 1 /\ r * x + c < m * x
<1>1. r * x + x <= m * x /\ r * x \in Nat /\ m * x \in Nat
  BY ProductFacts
<1> QED
  BY <1>1

LEMMA PlaceInBuffer ==
  ASSUME MatInv, NEW r \in Nat, r < dims.m, NEW c \in Nat, c < dims.n
  PROVE  /\ r * dims.x + c \in DOMAIN buf /\ At(r, c) = buf[r * dims.x + c]
         /\ r * dims.x + c < dims.m * dims.x /\ c < dims.x /\ dims.x > 0
<1> DEFINE x == dims.x
           m == dims.m
           C == capacity
<1>1. x \in Nat /\ m \in Nat /\ c < x /\ C \in Nat /\ m * x <= C /\ DOMAIN buf = 0 .. C - 1 /\ r < m
  BY DimsFacts
<1> HIDE DEF x, m, C
<1>2. r * x + c \in 0 .. C - 1 /\ r * x + c < m * x
  BY <1>1, InBuffer
<1> QED
  BY <1>1, <1>2 DEF At, Fetch, x, m

\* The same for the matrix that a step leaves.
LEMMA PlaceAfter ==
  ASSUME MatInv', NEW r \in Nat, r < dims'.m, NEW c \in Nat, c < dims'.n
  PROVE  /\ r * dims'.x + c \in DOMAIN buf' /\ At(r, c)' = buf'[r * dims'.x + c]
         /\ RowOf(r * dims'.x + c, dims') = r /\ ColOf(r * dims'.x + c, dims') = c
         /\ dims'.x \in Nat /\ dims'.x > 0 /\ c < dims'.x
<1> DEFINE x == dims'.x
           m == dims'.m
<1>1. PICK n \in Nat : Buffer(buf', n) /\ dims'.m * dims'.x <= n
  BY DEF MatInv
<1>2. x \in Nat /\ m \in Nat /\ c < x /\ DOMAIN buf' = 0 .. n - 1 /\ r < m /\ m * x <= n
  BY <1>1 DEF MatInv, Buffer
<1> HIDE DEF x, m
<1>3. r * x + c \in 0 .. n - 1
  BY <1>2, InBuffer
<1>4. r * x + c \in DOMAIN buf'
  BY <1>2, <1>3
<1>5. At(r, c)' = buf'[r * dims'.x + c]
  BY <1>4 DEF At, Fetch, x
<1>6. RowOf(r * dims'.x + c, dims') = r /\ ColOf(r * dims'.x + c, dims') = c
  BY <1>2, RowColumn DEF x
<1> QED
  BY <1>2, <1>4, <1>5, <1>6 DEF x

\* Dimensions and a buffer that holds them keep the invariant.
LEMMA FitsAfter ==
  ASSUME MatInv, UNCHANGED isDense, intact' \in BOOLEAN,
         dims' \in [m : Nat, n : Nat, x : Nat], dims'.n <= dims'.x, isDense => dims'.x = dims'.n,
         NEW N \in Nat, Buffer(buf', N), dims'.m * dims'.x <= N
  PROVE  MatInv'
BY DEF MatInv

----------------------------------------------------------------------------
(* One lemma for each operation: the invariant, and what each place shows. *)

\* resize asks for a stride that is large enough.
LEMMA StrideFacts ==
  ASSUME MatInv, NEW m \in Nat, NEW n \in Nat
  PROVE  /\ Dims(m, n) \in [m : Nat, n : Nat, x : Nat] /\ Dims(m, n).m = m /\ Dims(m, n).n = n
         /\ n <= Dims(m, n).x /\ (isDense => Dims(m, n).x = n)
         /\ m * Dims(m, n).x \in Nat
<1>1. Dims(m, n).x \in Nat /\ n <= Dims(m, n).x /\ (isDense => Dims(m, n).x = n)
  BY DimsFacts DEF Dims, Larger
<1>2. \A x \in Nat : m * x \in Nat
  OBVIOUS
<1> QED
  BY <1>1, <1>2 DEF Dims

LEMMA ResizeKeeps ==
  ASSUME MatInv, NEW m \in Nat, NEW n \in Nat, ResizeMatrix(m, n)
  PROVE  MatInv'
<1> DEFINE d == Dims(m, n)
           len == d.m * d.x
           C == capacity
           N == IF len > C THEN len ELSE C
<1>1. /\ d \in [m : Nat, n : Nat, x : Nat] /\ d.n <= d.x /\ (isDense => d.x = d.n) /\ len \in Nat
      /\ dims' = d /\ UNCHANGED isDense /\ intact' \in BOOLEAN
  BY StrideFacts DEF ResizeMatrix, MatInv
<1>2. C \in Nat /\ Buffer(buf, C)
  BY DimsFacts
<1>3. CASE len = 0
  <2>1. buf' = buf
    BY <1>3 DEF ResizeMatrix
  <2>2. dims'.m * dims'.x <= C
    BY <1>1, <1>2, <1>3
  <2> QED
    BY <1>1, <1>2, <2>1, <2>2, FitsAfter
<1>4. CASE len # 0
  <2>1. Buffer(buf', N)
    BY <1>1, <1>2, <1>4 DEF ResizeMatrix, Buf, Buffer
  <2>2. N \in Nat /\ len <= N /\ dims'.m * dims'.x <= N
    BY <1>1, <1>2
  <2> QED
    BY <1>1, <2>1, <2>2, FitsAfter
<1> QED
  BY <1>3, <1>4

LEMMA ResizeShows ==
  ASSUME MatInv, NEW m \in Nat, NEW n \in Nat, ResizeMatrix(m, n), intact',
         NEW r \in 0 .. m - 1, NEW c \in 0 .. n - 1
  PROVE  At(r, c)' = IF r < dims.m /\ c < dims.n THEN At(r, c) ELSE 0
<1> DEFINE d == Dims(m, n)
           x == d.x
           a == r * x + c
           len == d.m * d.x
           C == capacity
           newAlloc == len > C
           forward == x <= dims.x \/ newAlloc
<1>1. d.m = m /\ d.n = n /\ x \in Nat /\ n <= x /\ dims' = d /\ MatInv' /\ C \in Nat
  BY StrideFacts, ResizeKeeps, DimsFacts DEF ResizeMatrix
<1>2. a \in DOMAIN buf' /\ At(r, c)' = buf'[a] /\ RowOf(a, d) = r /\ ColOf(a, d) = c
  BY <1>1, PlaceAfter
<1>3. len # 0
  <2>1. 0 * x + x <= m * x
    BY <1>1, ProductFacts
  <2> QED
    BY <1>1, <2>1
<1>4. DOMAIN buf' = 0 .. (IF newAlloc THEN len ELSE C) - 1
  BY <1>3 DEF ResizeMatrix, Buf
<1>5. CASE forward
  <2>1. buf'[a] = FilledForward(d, a, IF newAlloc THEN NoData ELSE buf[a])
    <3> HIDE DEF a
    <3> QED
      BY <1>2, <1>3, <1>4, <1>5 DEF ResizeMatrix, Buf
  <2> HIDE DEF a, d
  <2> QED
    BY <1>1, <1>2, <2>1 DEF FilledForward
<1>6. CASE ~forward
  <2>1. buf'[a] = FilledBackward(d, a, buf[a])
    <3> HIDE DEF a
    <3> QED
      BY <1>2, <1>3, <1>4, <1>6 DEF ResizeMatrix, Buf
  <2>2. Smaller(dims.m, m) = 0 \/ (Smaller(dims.m, m) = 1 /\ n <= dims.n)
    BY <1>1, <1>3, <1>6 DEF ResizeMatrix
  <2>3. dims.m \in Nat /\ dims.n \in Nat /\ dims.x \in Nat
    BY DimsFacts
  <2>4. CASE r >= dims.m
    <3> HIDE DEF a, d
    <3> QED
      BY <1>1, <1>2, <2>1, <2>3, <2>4 DEF FilledBackward
  <2>5. CASE r < dims.m
    <3>1. r = 0 /\ Smaller(dims.m, m) = 1 /\ n <= dims.n
      BY <2>2, <2>3, <2>5 DEF Smaller
    <3>2. a = c /\ r * dims.x + c = c /\ c < dims.n
      BY <1>1, <2>3, <3>1
    <3>3. At(r, c) = buf[c]
      BY <2>5, <3>2, PlaceInBuffer
    <3>4. buf'[a] = buf[a]
      <4> HIDE DEF a, d
      <4> QED
        BY <1>1, <1>2, <2>1, <2>3, <2>5, <3>1, <3>2 DEF FilledBackward
    <3> QED
      BY <1>2, <2>5, <3>2, <3>3, <3>4
  <2> QED
    BY <2>3, <2>4, <2>5
<1> QED
  BY <1>5, <1>6

LEMMA OverwriteKeeps ==
  ASSUME MatInv, NEW m \in Nat, NEW n \in Nat, OverwriteMatrix(m, n)
  PROVE  /\ MatInv'
         /\ \A r \in 0 .. m - 1, c \in 0 .. n - 1 : At(r, c)' = NoData
<1> DEFINE d == Dims(m, n)
           len == d.m * d.x
           C == capacity
           N == IF len > C THEN len ELSE C
<1>1. /\ d \in [m : Nat, n : Nat, x : Nat] /\ d.n <= d.x /\ (isDense => d.x = d.n) /\ len \in Nat
      /\ d.m = m /\ d.n = n /\ dims' = d /\ UNCHANGED isDense /\ intact' \in BOOLEAN
  BY StrideFacts DEF OverwriteMatrix, MatInv
<1>2. buf' = [a \in 0 .. N - 1 |-> NoData]
  BY DEF OverwriteMatrix, Buf
<1>3. N \in Nat /\ dims'.m * dims'.x <= N
  BY <1>1, DimsFacts
<1>4. Buffer(buf', N)
  BY <1>2, <1>3 DEF Buffer
<1>5. MatInv'
  BY <1>1, <1>3, <1>4, FitsAfter
<1>6. ASSUME NEW r \in 0 .. m - 1, NEW c \in 0 .. n - 1 PROVE At(r, c)' = NoData
  <2> DEFINE a == r * d.x + c
  <2>1. a \in DOMAIN buf' /\ At(r, c)' = buf'[a]
    BY <1>1, <1>5, PlaceAfter
  <2> HIDE DEF a
  <2> QED
    BY <1>2, <2>1
<1> QED
  BY <1>5, <1>6

LEMMA AssignKeeps ==
  ASSUME MatInv, Assign
  PROVE  /\ MatInv'
         /\ \A r \in 0 .. dims.m - 1, c \in 0 .. dims.n - 1 : At(r, c)' = 1 + r * MaxCol + c
<1> DEFINE C == capacity
<1>1. C \in Nat /\ Buffer(buf, C) /\ dims.m * dims.x <= C /\ DOMAIN buf = 0 .. C - 1
  BY DimsFacts
<1>2. Buffer(buf', C) /\ dims' = dims
  BY <1>1 DEF Assign, Buffer
<1>3. MatInv'
  BY <1>1, <1>2, FitsAfter DEF Assign, MatInv
<1>4. ASSUME NEW r \in 0 .. dims.m - 1, NEW c \in 0 .. dims.n - 1
      PROVE  At(r, c)' = 1 + r * MaxCol + c
  <2> DEFINE a == r * dims.x + c
  <2>1. dims.m \in Nat /\ dims.n \in Nat /\ r < dims.m /\ c < dims.n
    BY DimsFacts
  <2>2. /\ a \in DOMAIN buf' /\ At(r, c)' = buf'[a] /\ RowOf(a, dims) = r /\ ColOf(a, dims) = c
        /\ dims.x > 0
    BY <1>2, <1>3, <2>1, PlaceAfter
  <2> HIDE DEF a
  <2>3. buf'[a] = IF dims.x > 0 /\ RowOf(a, dims) < dims.m /\ ColOf(a, dims) < dims.n
                  THEN 1 + RowOf(a, dims) * MaxCol + ColOf(a, dims) ELSE buf[a]
    BY <2>2 DEF Assign
  <2> QED
    BY <2>1, <2>2, <2>3
<1> QED
  BY <1>3, <1>4

\* reserve changes neither the dimensions nor what they show.
LEMMA ReserveKeeps ==
  ASSUME MatInv, NEW m \in Nat, NEW n \in Nat, ReserveMatrix(m, n)
  PROVE  /\ MatInv'
         /\ \A r \in 0 .. dims.m - 1, c \in 0 .. dims.n - 1 : At(r, c)' = At(r, c)
<1> DEFINE len == m * Dims(m, n).x
           C == capacity
<1>1. C \in Nat /\ Buffer(buf, C) /\ dims.m * dims.x <= C /\ dims.m * dims.x \in Nat /\ len \in Nat /\ len > C
  BY DimsFacts, StrideFacts DEF ReserveMatrix
<1>2. buf' = [a \in 0 .. len - 1 |-> IF a < dims.m * dims.x THEN Fetch(a) ELSE NoData] /\ dims' = dims
  BY DEF ReserveMatrix, Buf
<1> HIDE DEF len, C
<1>3. Buffer(buf', len) /\ dims'.m * dims'.x <= len
  BY <1>1, <1>2 DEF Buffer
<1>4. MatInv'
  BY <1>1, <1>2, <1>3, FitsAfter DEF ReserveMatrix, MatInv
<1>5. ASSUME NEW r \in 0 .. dims.m - 1, NEW c \in 0 .. dims.n - 1
      PROVE  At(r, c)' = At(r, c)
  <2> DEFINE a == r * dims.x + c
  <2>1. dims.m \in Nat /\ dims.n \in Nat /\ r < dims.m /\ c < dims.n
    BY DimsFacts
  <2>2. a \in DOMAIN buf' /\ At(r, c)' = buf'[a]
    BY <1>2, <1>4, <2>1, PlaceAfter
  <2>3. a < dims.m * dims.x
    BY <2>1, PlaceInBuffer
  <2>4. At(r, c) = Fetch(a)
    BY DEF At
  <2> HIDE DEF a
  <2> QED
    BY <1>2, <2>2, <2>3, <2>4
<1> QED
  BY <1>4, <1>5

LEMMA TruncateKeeps ==
  ASSUME MatInv, NEW m \in Nat, NEW n \in Nat, TruncateMatrix(m, n)
  PROVE  /\ MatInv'
         /\ \A r \in 0 .. m - 1, c \in 0 .. n - 1 : At(r, c)' = At(r, c)
<1> DEFINE d == [m |-> m, n |-> n, x |-> IF isDense THEN n ELSE dims.x]
           C == capacity
           moves == isDense /\ n > 0 /\ n # dims.n
<1>1. /\ dims.m \in Nat /\ dims.n \in Nat /\ dims.x \in Nat /\ dims.n <= dims.x
      /\ (isDense => dims.x = dims.n) /\ C \in Nat /\ Buffer(buf, C) /\ dims.m * dims.x <= C
      /\ dims' = d /\ m <= dims.m /\ n <= dims.n /\ DOMAIN buf = 0 .. C - 1 /\ (buf = <<>> <=> C = 0)
  BY DimsFacts DEF TruncateMatrix
<1>2. d.x \in Nat /\ d.x <= dims.x /\ d.m = m /\ d.n = n /\ n <= d.x
  BY <1>1
<1>3. m * d.x <= C
  <2> DEFINE x == d.x
             y == dims.x
             k == dims.m
  <2>1. x \in Nat /\ y \in Nat /\ k \in Nat /\ x <= y /\ m <= k /\ k * y <= C
    BY <1>1, <1>2
  <2> HIDE DEF x, y, k, d
  <2>2. m * x <= k * x /\ m * x \in Nat /\ k * x \in Nat
    BY <2>1, ProductFacts
  <2>3. x * k <= y * k
    BY <2>1, ProductFacts
  <2>4. k * x = x * k /\ k * y = y * k /\ k * y \in Nat
    BY <2>1
  <2>5. m * x <= C
    BY <1>1, <2>1, <2>2, <2>3, <2>4
  <2> QED
    BY <2>5 DEF x
<1>4. /\ Buffer(buf', C)
      /\ \A a \in DOMAIN buf' :
           buf'[a] = IF moves /\ RowOf(a, d) < m THEN At(RowOf(a, d), ColOf(a, d)) ELSE buf[a]
  <2>1. CASE buf = <<>>
    <3>1. buf' = buf /\ C = 0 /\ DOMAIN buf' = {}
      BY <1>1, <2>1 DEF TruncateMatrix
    <3> QED
      BY <1>1, <3>1
  <2>2. CASE buf # <<>>
    <3>1. buf' = [a \in 0 .. C - 1 |->
                    IF moves /\ RowOf(a, d) < m THEN At(RowOf(a, d), ColOf(a, d)) ELSE buf[a]]
      BY <2>2 DEF TruncateMatrix, Buf
    <3> HIDE DEF C, d, moves
    <3> QED
      BY <1>1, <3>1 DEF Buffer
  <2> QED
    BY <2>1, <2>2
<1>5. MatInv'
  <2>1. d \in [m : Nat, n : Nat, x : Nat] /\ (isDense => d.x = d.n)
    BY <1>1, <1>2
  <2>2. UNCHANGED <<isDense, intact>> /\ intact \in BOOLEAN
    BY DEF TruncateMatrix, MatInv
  <2> HIDE DEF d, C
  <2> QED
    BY <1>1, <1>2, <1>3, <1>4, <2>1, <2>2, FitsAfter
<1>6. ASSUME NEW r \in 0 .. m - 1, NEW c \in 0 .. n - 1
      PROVE  At(r, c)' = At(r, c)
  <2> DEFINE a == r * d.x + c
  <2>0. r \in Nat /\ c \in Nat /\ r < dims'.m /\ c < dims'.n /\ r < dims.m /\ c < dims.n
    <3> HIDE DEF d
    <3> QED
      BY <1>1, <1>2
  <2>1. a \in DOMAIN buf' /\ At(r, c)' = buf'[a] /\ RowOf(a, d) = r /\ ColOf(a, d) = c
    <3> HIDE DEF d
    <3> QED
      BY <1>1, <1>5, <2>0, PlaceAfter
  <2>2. At(r, c) = buf[r * dims.x + c]
    BY <2>0, PlaceInBuffer
  <2>3. ~moves => d.x = dims.x
    BY <1>1
  <2>4. buf'[a] = IF moves THEN At(r, c) ELSE buf[a]
    <3> HIDE DEF a, d, moves
    <3> QED
      BY <1>4, <2>1
  <2> QED
    BY <2>1, <2>2, <2>3, <2>4
<1> QED
  BY <1>5, <1>6

LEMMA EraseRowKeeps ==
  ASSUME MatInv, NEW k \in Nat, EraseRow(k)
  PROVE  /\ MatInv'
         /\ \A r \in 0 .. dims.m - 2, c \in 0 .. dims.n - 1 :
              At(r, c)' = At(IF r < k THEN r ELSE r + 1, c)
<1> DEFINE x == dims.x
           C == capacity
           m == dims.m
           last == m - 1
           gone == dims.n = 0 \/ k = last
<1>1. /\ m \in Nat /\ dims.n \in Nat /\ x \in Nat /\ dims.n <= x /\ (isDense => x = dims.n)
      /\ C \in Nat /\ Buffer(buf, C) /\ m * x <= C /\ DOMAIN buf = 0 .. C - 1 /\ k < m
  BY DimsFacts DEF EraseRow
<1>2. /\ last \in Nat /\ last < m
      /\ dims' \in [m : Nat, n : Nat, x : Nat] /\ dims'.m = last /\ dims'.n = dims.n /\ dims'.x = x
  BY <1>1 DEF EraseRow, MatInv
<1>3. gone => buf' = buf
  BY DEF EraseRow
<1>4. ~gone => buf' = [a \in 0 .. C - 1 |-> IF k * x <= a /\ a < last * x THEN Fetch(a + x) ELSE Fetch(a)]
  BY DEF EraseRow, LastMoved, Buf
<1>5. isDense \in BOOLEAN /\ intact \in BOOLEAN /\ UNCHANGED <<isDense, intact>>
  BY DEF EraseRow, MatInv
<1> HIDE DEF x, C, m, last, gone
<1>6. last * x <= C
  <2>1. last * x + x <= m * x /\ last * x \in Nat /\ m * x \in Nat
    BY <1>1, <1>2, ProductFacts
  <2> QED
    BY <1>1, <2>1
<1>7. Buffer(buf', C)
  BY <1>1, <1>3, <1>4 DEF Buffer
<1>8. MatInv'
  BY <1>1, <1>2, <1>5, <1>6, <1>7, FitsAfter DEF x
<1>9. ASSUME NEW r \in 0 .. dims.m - 2, NEW c \in 0 .. dims.n - 1
      PROVE  At(r, c)' = At(IF r < k THEN r ELSE r + 1, c)
  <2> DEFINE a == r * x + c
             y == r + 1
  <2>1. r \in Nat /\ c \in Nat /\ y \in Nat /\ r < last /\ c < dims.n /\ c < x /\ ~(dims.n = 0)
    BY <1>1 DEF last, m
  <2>2. r < dims'.m /\ c < dims'.n
    BY <1>2, <2>1
  <2>3. a \in DOMAIN buf' /\ At(r, c)' = buf'[a]
    BY <1>2, <1>8, <2>1, <2>2, PlaceAfter
  <2>4. a \in 0 .. C - 1 /\ buf[a] = Fetch(a)
    BY <1>1, <1>7, <2>3 DEF Buffer, Fetch
  <2>5. At(r, c) = Fetch(a) /\ At(y, c) = Fetch(y * x + c)
    BY DEF At, x
  <2>6. r * x \in Nat /\ k * x \in Nat /\ last * x \in Nat /\ y * x = r * x + x
    BY <1>1, <1>2, <2>1
  <2>7. r * x + x <= last * x
    BY <1>1, <1>2, <2>1, ProductFacts
  <2>8. CASE r < k
    <3>1. r * x + x <= k * x
      BY <1>1, <2>1, <2>8, ProductFacts
    <3>2. ~(k * x <= a)
      BY <1>1, <2>1, <2>6, <3>1
    <3> HIDE DEF a
    <3>3. buf'[a] = Fetch(a)
      BY <1>3, <1>4, <2>4, <3>2
    <3> QED
      BY <2>3, <2>5, <2>8, <3>3
  <2>9. CASE ~(r < k)
    <3>1. k * x <= r * x
      BY <1>1, <2>1, <2>9, ProductFacts
    <3>2. k * x <= a /\ a < last * x /\ a + x = y * x + c
      <4> HIDE DEF y
      <4>1. k * x <= a
        BY <1>1, <2>1, <2>6, <3>1
      <4>2. a < last * x
        BY <1>1, <2>1, <2>6, <2>7
      <4>3. a + x = y * x + c
        BY <1>1, <2>1, <2>6
      <4> QED
        BY <4>1, <4>2, <4>3
    <3>3. ~gone
      BY <1>1, <1>2, <2>1, <2>9 DEF gone
    <3> HIDE DEF a, y
    <3>4. buf'[a] = Fetch(a + x)
      BY <1>4, <2>4, <3>2, <3>3
    <3>5. buf'[a] = Fetch(y * x + c)
      BY <3>2, <3>4
    <3> QED
      BY <2>3, <2>5, <2>9, <3>5 DEF y
  <2> QED
    BY <2>8, <2>9
<1> QED
  BY <1>8, <1>9 DEF m

LEMMA EraseColKeeps ==
  ASSUME MatInv, NEW k \in Nat, EraseCol(k)
  PROVE  /\ MatInv'
         /\ intact' => \A r \in 0 .. dims.m - 1, c \in 0 .. dims.n - 2 :
                         At(r, c)' = At(r, IF c < k THEN c ELSE c + 1)
<1> DEFINE x == dims.x
           y == IF isDense THEN x - 1 ELSE x
           C == capacity
           m == dims.m
           n == dims.n
           d == [dims EXCEPT !.n = n - 1, !.x = y]
           gone == k = n - 1 \/ m = 0
<1>1. /\ m \in Nat /\ n \in Nat /\ x \in Nat /\ n <= x /\ (isDense => x = n)
      /\ C \in Nat /\ Buffer(buf, C) /\ m * x <= C /\ DOMAIN buf = 0 .. C - 1 /\ k < n
  BY DimsFacts DEF EraseCol
<1>2. y \in Nat /\ y <= x /\ n - 1 \in Nat /\ n - 1 <= y /\ (isDense => y = n - 1)
  BY <1>1
<1>3. /\ dims' = d /\ d \in [m : Nat, n : Nat, x : Nat]
      /\ d.m = m /\ d.n = n - 1 /\ d.x = y
  <2>1. dims \in [m : Nat, n : Nat, x : Nat]
    BY DEF MatInv
  <2>2. dims' = d
    BY DEF EraseCol
  <2>3. d.m = m /\ d.n = n - 1 /\ d.x = y
    BY <2>1
  <2>4. d \in [m : Nat, n : Nat, x : Nat]
    <3> HIDE DEF x, y, m, n
    <3> QED
      BY <1>1, <1>2, <2>1
  <2> QED
    BY <2>2, <2>3, <2>4
<1>4. gone => buf' = buf
  BY DEF EraseCol
<1>5. ~gone => buf' = [a \in 0 .. C - 1 |->
                         IF d.x > 0 /\ RowOf(a, d) < m /\ ColOf(a, d) >= k /\ ColOf(a, d) < d.n
                         THEN Fetch(RowOf(a, d) * x + ColOf(a, d) + 1) ELSE Fetch(a)]
  BY DEF EraseCol, Buf
<1>6. isDense \in BOOLEAN /\ intact' \in BOOLEAN /\ UNCHANGED isDense
  BY DEF EraseCol, MatInv
<1>7. intact' => ~isDense \/ m <= 1 \/ k = 0
  BY DEF EraseCol
<1> HIDE DEF x, y, C, m, n, d, gone
<1>8. m * y <= C
  <2>1. y * m <= x * m /\ y * m \in Nat /\ x * m \in Nat
    BY <1>1, <1>2, ProductFacts
  <2>2. m * y = y * m /\ m * x = x * m
    BY <1>1, <1>2
  <2> QED
    BY <1>1, <2>1, <2>2
<1>9. Buffer(buf', C)
  BY <1>1, <1>4, <1>5 DEF Buffer
<1>10. MatInv'
  BY <1>1, <1>2, <1>3, <1>6, <1>8, <1>9, FitsAfter
<1>11. ASSUME intact', NEW r \in 0 .. m - 1, NEW c \in 0 .. n - 2
       PROVE  At(r, c)' = At(r, IF c < k THEN c ELSE c + 1)
  <2> DEFINE a == r * y + c
             e == c + 1
  <2>1. r \in Nat /\ c \in Nat /\ e \in Nat /\ r < m /\ c < n - 1 /\ m > 0
    BY <1>1
  <2>2. /\ a \in DOMAIN buf' /\ At(r, c)' = buf'[a] /\ RowOf(a, d) = r /\ ColOf(a, d) = c
        /\ d.x > 0
    BY <1>3, <1>10, <2>1, PlaceAfter
  <2>3. a \in 0 .. C - 1 /\ buf[a] = Fetch(a)
    BY <1>1, <1>9, <2>2 DEF Buffer, Fetch
  <2>4. At(r, c) = Fetch(r * x + c) /\ At(r, e) = Fetch(r * x + e)
    BY DEF At, x
  <2>5. CASE c < k
    <3>1. a = r * x + c
      <4>1. CASE ~isDense
        BY <4>1 DEF y
      <4>2. CASE m <= 1
        <5>1. r = 0
          BY <1>1, <2>1, <4>2
        <5> QED
          BY <1>1, <1>2, <2>1, <5>1
      <4> QED
        BY <1>7, <1>11, <2>1, <2>5, <4>1, <4>2
    <3> HIDE DEF a
    <3>2. buf'[a] = Fetch(a)
      <4>1. ~(ColOf(a, d) >= k)
        BY <2>1, <2>2, <2>5
      <4> QED
        BY <1>4, <1>5, <2>3, <4>1
    <3> QED
      BY <2>2, <2>4, <2>5, <3>1, <3>2
  <2>6. CASE ~(c < k)
    <3>1. ~gone /\ c >= k /\ c < d.n
      BY <1>1, <1>3, <2>1, <2>6 DEF gone
    <3> HIDE DEF a
    <3>2. buf'[a] = Fetch(r * x + c + 1)
      BY <1>5, <2>1, <2>2, <2>3, <3>1
    <3>3. r * x + c + 1 = r * x + e
      BY <1>1, <2>1
    <3> HIDE DEF e
    <3>4. buf'[a] = At(r, e)
      BY <2>4, <3>2, <3>3
    <3> QED
      BY <2>2, <2>6, <3>4 DEF e
  <2> QED
    BY <2>5, <2>6
<1> QED
  BY <1>10, <1>11 DEF m, n

LEMMA MoveLastKeeps ==
  ASSUME MatInv, NEW k \in Nat, MoveLast(k)
  PROVE  /\ MatInv'
         /\ \A r \in 0 .. dims.m - 1, c \in 0 .. dims.n - 1 :
              At(r, c)' = At(r, IF c < k THEN c ELSE IF c = dims.n - 1 THEN k ELSE c + 1)
<1> DEFINE C == capacity
           from(c) == IF c < k THEN c ELSE IF c = dims.n - 1 THEN k ELSE c + 1
<1>1. /\ dims.m \in Nat /\ dims.n \in Nat /\ dims.x \in Nat /\ dims.n <= dims.x
      /\ C \in Nat /\ Buffer(buf, C) /\ dims.m * dims.x <= C /\ DOMAIN buf = 0 .. C - 1
      /\ (buf = <<>> <=> C = 0) /\ dims' = dims
  BY DimsFacts DEF MoveLast
<1>2. buf = <<>> => buf' = buf
  BY DEF MoveLast
<1>3. buf # <<>> =>
        buf' = [a \in 0 .. C - 1 |->
                  IF RowOf(a, dims) >= dims.m \/ ColOf(a, dims) >= dims.n \/ ColOf(a, dims) < k THEN Fetch(a)
                  ELSE IF ColOf(a, dims) = dims.n - 1 THEN At(RowOf(a, dims), k)
                  ELSE At(RowOf(a, dims), ColOf(a, dims) + 1)]
  BY DEF MoveLast, Buf
<1>4. isDense \in BOOLEAN /\ intact \in BOOLEAN /\ UNCHANGED <<isDense, intact>> /\ k < dims.n
  BY DEF MoveLast, MatInv
<1> HIDE DEF C
<1>5. Buffer(buf', C)
  BY <1>1, <1>2, <1>3 DEF Buffer
<1>6. MatInv'
  BY <1>1, <1>4, <1>5 DEF MatInv
<1>7. ASSUME NEW r \in 0 .. dims.m - 1, NEW c \in 0 .. dims.n - 1
      PROVE  At(r, c)' = At(r, from(c))
  <2> DEFINE a == r * dims.x + c
  <2>1. r \in Nat /\ c \in Nat /\ r < dims.m /\ c < dims.n
    BY <1>1
  <2>2. a \in DOMAIN buf' /\ At(r, c)' = buf'[a] /\ RowOf(a, dims) = r /\ ColOf(a, dims) = c
    BY <1>1, <1>6, <2>1, PlaceAfter
  <2>3. At(r, c) = Fetch(a)
    BY DEF At
  <2> HIDE DEF a
  <2>4. a \in 0 .. C - 1
    BY <1>1, <1>5, <2>2 DEF Buffer
  <2>5. buf # <<>>
    BY <1>1, <2>4
  <2>6. buf'[a] = IF c < k THEN Fetch(a) ELSE IF c = dims.n - 1 THEN At(r, k) ELSE At(r, c + 1)
    BY <1>1, <1>3, <2>1, <2>2, <2>4, <2>5
  <2> QED
    BY <2>2, <2>3, <2>6
<1> QED
  BY <1>6, <1>7

----------------------------------------------------------------------------
(* The grid of MatrixSpec that the elements show.                          *)

Places(m, n) == (0 .. m - 1) \X (0 .. n - 1)
Grid == [p \in Places(dims.m, dims.n) |-> At(p[1], p[2])]

LEMMA PlaceFacts ==
  ASSUME NEW m, NEW n, NEW p \in Places(m, n)
  PROVE  p[1] \in 0 .. m - 1 /\ p[2] \in 0 .. n - 1
BY DEF Places

LEMMA GridShows ==
  ASSUME NEW r \in 0 .. dims.m - 1, NEW c \in 0 .. dims.n - 1
  PROVE  Grid[<<r, c>>] = At(r, c)
<1>1. <<r, c>> \in Places(dims.m, dims.n) /\ <<r, c>>[1] = r /\ <<r, c>>[2] = c
  BY DEF Places
<1> QED
  BY <1>1 DEF Grid

LEMMA ResizeIsResize ==
  ASSUME MatInv, NEW m \in 0 .. MaxRow, NEW n \in 0 .. MaxCol, ResizeMatrix(m, n), intact, intact'
  PROVE  AbstractGrid!Resize(m, n)
<1>1. m \in Nat /\ n \in Nat /\ dims.m \in Nat /\ dims.n \in Nat /\ dims'.m = m /\ dims'.n = n
  BY MatrixAssumption, DimsFacts DEF ResizeMatrix, Dims
<1>2. ASSUME NEW p \in Places(m, n)
      PROVE  At(p[1], p[2])' = IF p[1] < dims.m /\ p[2] < dims.n THEN Grid[<<p[1], p[2]>>] ELSE 0
  <2> DEFINE r == p[1]
             c == p[2]
  <2>1. r \in 0 .. m - 1 /\ c \in 0 .. n - 1
    BY PlaceFacts
  <2> HIDE DEF r, c
  <2>2. At(r, c)' = IF r < dims.m /\ c < dims.n THEN At(r, c) ELSE 0
    BY <1>1, <2>1, ResizeShows
  <2>3. r < dims.m /\ c < dims.n => Grid[<<r, c>>] = At(r, c)
    BY <1>1, <2>1, GridShows
  <2> QED
    BY <2>2, <2>3 DEF r, c
<1>3. Grid' = [p \in Places(m, n) |-> IF p[1] < dims.m /\ p[2] < dims.n THEN Grid[<<p[1], p[2]>>] ELSE 0]
  BY <1>1, <1>2 DEF Grid
<1> QED
  BY <1>1, <1>3 DEF AbstractGrid!Resize, AbstractGrid!Mapped, AbstractGrid!Becomes, Grid, Places

LEMMA TruncateIsResize ==
  ASSUME MatInv, NEW m \in 0 .. MaxRow, NEW n \in 0 .. MaxCol, TruncateMatrix(m, n)
  PROVE  AbstractGrid!Resize(m, n)
<1>1. /\ m \in Nat /\ n \in Nat /\ dims.m \in Nat /\ dims.n \in Nat /\ dims'.m = m /\ dims'.n = n
      /\ m <= dims.m /\ n <= dims.n /\ UNCHANGED intact
  BY MatrixAssumption, DimsFacts DEF TruncateMatrix
<1>2. ASSUME NEW p \in Places(m, n)
      PROVE  At(p[1], p[2])' = IF p[1] < dims.m /\ p[2] < dims.n THEN Grid[<<p[1], p[2]>>] ELSE 0
  <2> DEFINE r == p[1]
             c == p[2]
  <2>1. r \in 0 .. m - 1 /\ c \in 0 .. n - 1
    BY PlaceFacts
  <2> HIDE DEF r, c
  <2>2. At(r, c)' = At(r, c)
    BY <1>1, <2>1, TruncateKeeps
  <2>3. r < dims.m /\ c < dims.n /\ Grid[<<r, c>>] = At(r, c)
    BY <1>1, <2>1, GridShows
  <2> QED
    BY <2>2, <2>3 DEF r, c
<1>3. Grid' = [p \in Places(m, n) |-> IF p[1] < dims.m /\ p[2] < dims.n THEN Grid[<<p[1], p[2]>>] ELSE 0]
  BY <1>1, <1>2 DEF Grid
<1> QED
  BY <1>1, <1>3 DEF AbstractGrid!Resize, AbstractGrid!Mapped, AbstractGrid!Becomes, Grid, Places

LEMMA OverwriteIsOverwrite ==
  ASSUME MatInv, NEW m \in 0 .. MaxRow, NEW n \in 0 .. MaxCol, OverwriteMatrix(m, n)
  PROVE  AbstractGrid!Overwrite(m, n)
<1>1. m \in Nat /\ n \in Nat /\ dims'.m = m /\ dims'.n = n /\ UNCHANGED intact
  BY MatrixAssumption DEF OverwriteMatrix, Dims
<1>2. ASSUME NEW p \in Places(m, n) PROVE At(p[1], p[2])' = NoData
  BY <1>1, PlaceFacts, OverwriteKeeps
<1>3. Grid' = [p \in Places(m, n) |-> NoData]
  BY <1>1, <1>2 DEF Grid
<1> QED
  BY <1>1, <1>3 DEF AbstractGrid!Overwrite, AbstractGrid!Mapped, AbstractGrid!Becomes, Grid, Places

LEMMA AssignIsAssign ==
  ASSUME MatInv, Assign
  PROVE  AbstractGrid!Assign
<1>1. UNCHANGED <<dims, intact>>
  BY DEF Assign
<1>2. ASSUME NEW p \in Places(dims.m, dims.n) PROVE At(p[1], p[2])' = 1 + p[1] * MaxCol + p[2]
  BY PlaceFacts, AssignKeeps
<1>3. Grid' = [p \in Places(dims.m, dims.n) |-> 1 + p[1] * MaxCol + p[2]]
  BY <1>1, <1>2 DEF Grid
<1> QED
  BY <1>1, <1>3 DEF AbstractGrid!Assign, AbstractGrid!Mapped, AbstractGrid!Becomes, Grid, Places

LEMMA ReserveIsSilent ==
  ASSUME MatInv, NEW m \in Nat, NEW n \in Nat, ReserveMatrix(m, n)
  PROVE  UNCHANGED AbstractGrid!vars
<1>1. UNCHANGED <<dims, intact>>
  BY DEF ReserveMatrix
<1>2. ASSUME NEW p \in Places(dims.m, dims.n) PROVE At(p[1], p[2])' = At(p[1], p[2])
  BY PlaceFacts, ReserveKeeps
<1>3. Grid' = Grid
  BY <1>1, <1>2 DEF Grid
<1> QED
  BY <1>1, <1>3 DEF AbstractGrid!vars, Grid, Places

LEMMA EraseRowIsEraseRow ==
  ASSUME MatInv, NEW k \in Nat, EraseRow(k)
  PROVE  AbstractGrid!EraseRow(k)
<1>1. /\ dims.m \in Nat /\ dims.n \in Nat /\ dims'.m = dims.m - 1 /\ dims'.n = dims.n
      /\ k < dims.m /\ UNCHANGED intact
  BY DimsFacts DEF EraseRow, MatInv
<1>2. ASSUME NEW p \in Places(dims.m - 1, dims.n)
      PROVE  At(p[1], p[2])' = Grid[<<IF p[1] < k THEN p[1] ELSE p[1] + 1, p[2]>>]
  <2> DEFINE r == p[1]
             c == p[2]
             q == IF r < k THEN r ELSE r + 1
  <2>1. r \in 0 .. dims.m - 2 /\ c \in 0 .. dims.n - 1
    BY <1>1, PlaceFacts
  <2> HIDE DEF r, c
  <2>2. At(r, c)' = At(q, c)
    BY <2>1, EraseRowKeeps
  <2>3. q \in 0 .. dims.m - 1
    BY <1>1, <2>1
  <2> HIDE DEF q
  <2>4. Grid[<<q, c>>] = At(q, c)
    BY <2>1, <2>3, GridShows
  <2> QED
    BY <2>2, <2>4 DEF q, r, c
<1>3. Grid' = [p \in Places(dims.m - 1, dims.n) |-> Grid[<<IF p[1] < k THEN p[1] ELSE p[1] + 1, p[2]>>]]
  BY <1>1, <1>2 DEF Grid
<1> QED
  BY <1>1, <1>3 DEF AbstractGrid!EraseRow, AbstractGrid!Mapped, AbstractGrid!Becomes, Grid, Places

LEMMA EraseColIsEraseCol ==
  ASSUME MatInv, NEW k \in Nat, EraseCol(k), intact, intact'
  PROVE  AbstractGrid!EraseCol(k)
<1>1. /\ dims.m \in Nat /\ dims.n \in Nat /\ dims'.m = dims.m /\ dims'.n = dims.n - 1
      /\ k < dims.n
  BY DimsFacts DEF EraseCol, MatInv
<1>2. ASSUME NEW p \in Places(dims.m, dims.n - 1)
      PROVE  At(p[1], p[2])' = Grid[<<p[1], IF p[2] < k THEN p[2] ELSE p[2] + 1>>]
  <2> DEFINE r == p[1]
             c == p[2]
             q == IF c < k THEN c ELSE c + 1
  <2>1. r \in 0 .. dims.m - 1 /\ c \in 0 .. dims.n - 2
    BY <1>1, PlaceFacts
  <2> HIDE DEF r, c
  <2>2. At(r, c)' = At(r, q)
    BY <2>1, EraseColKeeps
  <2>3. q \in 0 .. dims.n - 1
    BY <1>1, <2>1
  <2> HIDE DEF q
  <2>4. Grid[<<r, q>>] = At(r, q)
    BY <2>1, <2>3, GridShows
  <2> QED
    BY <2>2, <2>4 DEF q, r, c
<1>3. Grid' = [p \in Places(dims.m, dims.n - 1) |-> Grid[<<p[1], IF p[2] < k THEN p[2] ELSE p[2] + 1>>]]
  BY <1>1, <1>2 DEF Grid
<1> QED
  BY <1>1, <1>3 DEF AbstractGrid!EraseCol, AbstractGrid!Mapped, AbstractGrid!Becomes, Grid, Places

LEMMA MoveLastIsMoveLast ==
  ASSUME MatInv, NEW k \in Nat, MoveLast(k)
  PROVE  AbstractGrid!MoveLast(k)
<1> DEFINE from(c) == IF c < k THEN c ELSE IF c = dims.n - 1 THEN k ELSE c + 1
<1>1. /\ dims.m \in Nat /\ dims.n \in Nat /\ dims' = dims /\ k < dims.n /\ UNCHANGED intact
  BY DimsFacts DEF MoveLast
<1>2. ASSUME NEW p \in Places(dims.m, dims.n) PROVE At(p[1], p[2])' = Grid[<<p[1], from(p[2])>>]
  <2> DEFINE r == p[1]
             c == p[2]
             q == from(c)
  <2>1. r \in 0 .. dims.m - 1 /\ c \in 0 .. dims.n - 1
    BY <1>1, PlaceFacts
  <2> HIDE DEF r, c
  <2>2. At(r, c)' = At(r, q)
    BY <2>1, MoveLastKeeps
  <2>3. q \in 0 .. dims.n - 1
    BY <1>1, <2>1
  <2> HIDE DEF q
  <2>4. Grid[<<r, q>>] = At(r, q)
    BY <2>1, <2>3, GridShows
  <2> QED
    BY <2>2, <2>4 DEF q, r, c
<1>3. Grid' = [p \in Places(dims.m, dims.n) |-> Grid[<<p[1], from(p[2])>>]]
  BY <1>1, <1>2 DEF Grid
<1> QED
  BY <1>1, <1>3 DEF AbstractGrid!MoveLast, AbstractGrid!Mapped, AbstractGrid!Becomes, Grid, Places

----------------------------------------------------------------------------
(* The refinement.                                                         *)

LEMMA MatInitFacts ==
  ASSUME MatInit
  PROVE  MatInv /\ AbstractGrid!Init
<1>1. dims.m = 0 /\ dims.n = 0 /\ dims.x = 0 /\ intact = TRUE
  BY DEF MatInit
<1>2. 0 .. 0 - 1 = {} /\ 0 * 0 <= 0
  OBVIOUS
<1>3. Buffer(buf, 0)
  <2>1. <<>> = [a \in {} |-> <<>>[a]]
    OBVIOUS
  <2> QED
    BY <1>2, <2>1 DEF MatInit, Buffer
<1>4. MatInv
  BY <1>1, <1>2, <1>3 DEF MatInit, MatInv
<1>5. [p \in (0 .. dims.m - 1) \X (0 .. dims.n - 1) |-> At(p[1], p[2])] = <<>>
  <2>1. (0 .. dims.m - 1) \X (0 .. dims.n - 1) = {}
    BY <1>1, <1>2
  <2> QED
    BY <2>1
<1> QED
  BY <1>1, <1>4, <1>5 DEF AbstractGrid!Init

\* What the arguments of the calls are.
LEMMA Arguments ==
  ASSUME NEW s \in Shape
  PROVE  s[1] \in 0 .. MaxRow /\ s[2] \in 0 .. MaxCol /\ s[1] \in Nat /\ s[2] \in Nat
BY MatrixAssumption

LEMMA MatNextFacts ==
  ASSUME MatInv, MatNext
  PROVE  /\ MatInv'
         /\ [intact => AbstractGrid!Next]_(AbstractGrid!vars)
<1> USE MatrixAssumption
<1>1. ASSUME NEW s \in Shape, ResizeMatrix(s[1], s[2])
      PROVE  MatInv' /\ (intact => AbstractGrid!Next)
  <2>1. MatInv'
    BY <1>1, Arguments, ResizeKeeps
  <2>2. intact /\ intact' => AbstractGrid!Resize(s[1], s[2])
    BY <1>1, Arguments, ResizeIsResize
  <2>3. intact' \in BOOLEAN
    BY <2>1 DEF MatInv
  <2> QED
    BY <2>1, <2>2, <2>3, Arguments DEF AbstractGrid!Next
<1>2. ASSUME NEW s \in Shape, OverwriteMatrix(s[1], s[2]) PROVE MatInv' /\ AbstractGrid!Next
  <2>1. MatInv'
    BY <1>2, Arguments, OverwriteKeeps
  <2>2. AbstractGrid!Overwrite(s[1], s[2])
    BY <1>2, Arguments, OverwriteIsOverwrite
  <2> QED
    BY <2>1, <2>2, Arguments DEF AbstractGrid!Next
<1>3. ASSUME NEW s \in Shape, TruncateMatrix(s[1], s[2]) PROVE MatInv' /\ AbstractGrid!Next
  <2>1. MatInv'
    BY <1>3, Arguments, TruncateKeeps
  <2>2. AbstractGrid!Resize(s[1], s[2])
    BY <1>3, Arguments, TruncateIsResize
  <2> QED
    BY <2>1, <2>2, Arguments DEF AbstractGrid!Next
<1>4. ASSUME ReserveMatrix(MaxRow, MaxCol) PROVE MatInv' /\ UNCHANGED AbstractGrid!vars
  BY <1>4, ReserveKeeps, ReserveIsSilent
<1>5. ASSUME Assign PROVE MatInv' /\ AbstractGrid!Next
  BY <1>5, AssignKeeps, AssignIsAssign DEF AbstractGrid!Next
<1>6. ASSUME NEW k \in 0 .. MaxRow - 1, EraseRow(k) PROVE MatInv' /\ AbstractGrid!Next
  <2>1. MatInv' /\ AbstractGrid!EraseRow(k)
    BY <1>6, EraseRowKeeps, EraseRowIsEraseRow
  <2> QED
    BY <2>1 DEF AbstractGrid!Next
<1>7. ASSUME NEW k \in 0 .. MaxCol - 1, EraseCol(k) PROVE MatInv' /\ (intact => AbstractGrid!Next)
  <2>1. MatInv'
    BY <1>7, EraseColKeeps
  <2>2. intact /\ intact' => AbstractGrid!EraseCol(k)
    BY <1>7, EraseColIsEraseCol
  <2>3. intact' \in BOOLEAN
    BY <2>1 DEF MatInv
  <2> QED
    BY <2>1, <2>2, <2>3 DEF AbstractGrid!Next
<1>8. ASSUME NEW k \in 0 .. MaxCol - 1, MoveLast(k) PROVE MatInv' /\ AbstractGrid!Next
  <2>1. MatInv' /\ AbstractGrid!MoveLast(k)
    BY <1>8, MoveLastKeeps, MoveLastIsMoveLast
  <2> QED
    BY <2>1 DEF AbstractGrid!Next
<1> QED
  BY <1>1, <1>2, <1>3, <1>4, <1>5, <1>6, <1>7, <1>8 DEF MatNext

LEMMA MatStutterFacts ==
  ASSUME MatInv, UNCHANGED matVars
  PROVE  MatInv' /\ UNCHANGED AbstractGrid!vars
BY DEF matVars, MatInv, AbstractGrid!vars, At, Fetch

(* Matrices of every size and stride are grids of numbers: resize, truncate, *)
(* the erasures and moveLast of Math/Array.hpp keep every number at its row  *)
(* and column and show zeroes where the grid grew, until one of the calls    *)
(* that the code does not handle is made.                                    *)
THEOREM MatricesAreGrids == MatSpec => IsAGrid
<1>1. MatInit => MatInv /\ AbstractGrid!Init
  BY MatInitFacts
<1>2. MatInv /\ [MatNext]_matVars => MatInv' /\ [intact => AbstractGrid!Next]_(AbstractGrid!vars)
  BY MatNextFacts, MatStutterFacts
<1> QED
  BY <1>1, <1>2, PTL DEF MatSpec, IsAGrid, AbstractGrid!Spec
=============================================================================
