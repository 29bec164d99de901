---------------------------- MODULE MatMulProofs ----------------------------
(***************************************************************************)
(* What one matmul guarantees for every shape, every size of blocks and    *)
(* tiles and registers of any number of lanes: whichever kernel runs, an   *)
(* element of the output has, at every moment, received the first so many  *)
(* of its products, in the order of the reference.  How many follows from  *)
(* the loop variables of the kernel that runs.                             *)
(***************************************************************************)
EXTENDS MatMul, TLAPS

-----------------------------------------------------------------------------
(* Rows and columns *)

\* Division with remainder, in the form the proofs use.
LEMMA DivMod ==
    ASSUME NEW a \in Nat, NEW b \in Nat, b > 0
    PROVE  /\ a \div b \in Nat /\ a % b \in 0..b-1
           /\ a = (a \div b) * b + (a % b)
  <1>1. a \div b \in Nat
    OBVIOUS
  <1>2. a % b \in 0..b-1
    OBVIOUS
  <1>3. a = (a \div b) * b + (a % b)
    OBVIOUS
  <1>4. QED
    BY <1>1, <1>2, <1>3

\* Products grow with their factors.
LEMMA TimesMonotone ==
    ASSUME NEW a \in Int, NEW b \in Int, NEW n \in Nat, a <= b
    PROVE  a * n <= b * n
  BY Z3

\* One row more is n elements more.
LEMMA NextRowAt ==
    ASSUME NEW r \in Nat, NEW n \in Nat
    PROVE  r * n \in Nat /\ (r + 1) * n = r * n + n
  BY Z3

\* Row and column inside a matrix give an element inside it.
LEMMA CellInMatrix ==
    ASSUME NEW m \in Nat, NEW n \in Nat, NEW r \in 0..m-1, NEW x \in 0..n-1
    PROVE  r * n + x \in 0..m*n-1
  <1>1. (r + 1) * n <= m * n
    BY TimesMonotone
  <1>2. r * n \in Nat /\ (r + 1) * n = r * n + n
    BY NextRowAt
  <1>3. m * n \in Nat
    BY NextRowAt
  <1>4. QED
    BY <1>1, <1>2, <1>3

\* No element is in two rows or in two columns.
LEMMA OneCell ==
    ASSUME NEW n \in Nat, NEW r \in Nat, NEW s \in Nat,
           NEW x \in 0..n-1, NEW y \in 0..n-1, r * n + x = s * n + y
    PROVE  r = s /\ x = y
  <1>1. r * n \in Nat /\ (r + 1) * n = r * n + n
    BY NextRowAt
  <1>2. s * n \in Nat /\ (s + 1) * n = s * n + n
    BY NextRowAt
  <1>3. ~(r < s)
    <2>1. SUFFICES ASSUME r + 1 <= s PROVE FALSE
      OBVIOUS
    <2>2. (r + 1) * n <= s * n
      BY <2>1, TimesMonotone
    <2>3. QED
      BY <1>1, <1>2, <2>2
  <1>4. ~(s < r)
    <2>1. SUFFICES ASSUME s + 1 <= r PROVE FALSE
      OBVIOUS
    <2>2. (s + 1) * n <= r * n
      BY <2>1, TimesMonotone
    <2>3. QED
      BY <1>1, <1>2, <2>2
  <1>5. r = s
    BY <1>3, <1>4
  <1>6. QED
    BY <1>1, <1>5

\* Every element of a matrix is in a row and in a column.
LEMMA CellOf ==
    ASSUME NEW m \in Nat, NEW n \in Nat, NEW o \in 0..m*n-1
    PROVE  \E r \in 0..m-1, x \in 0..n-1 : o = r * n + x
  <1>1. m * n \in Nat
    BY NextRowAt
  <1>2. n > 0
    <2>1. SUFFICES ASSUME n = 0 PROVE FALSE
      OBVIOUS
    <2>2. m * n = 0
      BY <2>1
    <2>3. QED
      BY <2>2
  <1> DEFINE r == o \div n
             x == o % n
  <1>3. r \in Nat /\ x \in 0..n-1 /\ o = r * n + x
    BY <1>1, <1>2, DivMod
  <1> HIDE DEF r, x
  <1>4. r < m
    <2>1. SUFFICES ASSUME m <= r PROVE FALSE
      BY <1>3
    <2>2. m * n <= r * n
      BY <1>3, <2>1, TimesMonotone
    <2>3. r * n \in Nat
      BY <1>3, NextRowAt
    <2>4. QED
      BY <1>1, <1>3, <2>2, <2>3
  <1>5. QED
    BY <1>3, <1>4

\* Quotient and remainder of an element are its row and its column.
LEMMA RowAndColumn ==
    ASSUME NEW r \in Nat, NEW n \in Nat, NEW x \in 0..n-1
    PROVE  (r * n + x) \div n = r /\ (r * n + x) % n = x
  <1>1. r * n \in Nat
    BY NextRowAt
  <1> DEFINE o == r * n + x
  <1>2. o \in Nat
    BY <1>1
  <1>3. PICK s, y : s = o \div n /\ y = o % n
    OBVIOUS
  <1>4. s \in Nat /\ y \in 0..n-1 /\ o = s * n + y
    BY <1>2, <1>3, DivMod
  <1>5. r = s /\ x = y
    BY <1>4, OneCell
  <1>6. QED
    BY <1>3, <1>5

-----------------------------------------------------------------------------
(* Sums of products *)

\* The product of column z of row r of A, which is in batch b, and row z of
\* column x of B; and the first count of these.
Term(n, k, b, r, x, z) == <<r * k + z, (b * k + z) * n + x>>
Sum(n, k, b, r, x, count) == [q \in 1..count |-> Term(n, k, b, r, x, q - 1)]

\* The more products after the first count.
Stretch(n, k, b, r, x, count, more) ==
    [q \in 1..more |-> Term(n, k, b, r, x, count + q - 1)]

Terms(n, k, b, r, x) == {Term(n, k, b, r, x, z) : z \in Nat}

\* Before any product is added there is none.
LEMMA SumOfNone == \A n, k, b, r, x : Sum(n, k, b, r, x, 0) = <<>>
  BY DEF Sum

\* A sum is a sequence of its products.
LEMMA SumIsSeq ==
    ASSUME NEW n, NEW k, NEW b, NEW r, NEW x, NEW count \in Nat
    PROVE  /\ Sum(n, k, b, r, x, count) \in Seq(Terms(n, k, b, r, x))
           /\ Len(Sum(n, k, b, r, x, count)) = count
           /\ DOMAIN Sum(n, k, b, r, x, count) = 1..count
           /\ \A q \in 1..count :
                Sum(n, k, b, r, x, count)[q] = Term(n, k, b, r, x, q - 1)
  <1>1. \A q \in 1..count : q - 1 \in Nat
    OBVIOUS
  <1>2. \A z \in Nat : Term(n, k, b, r, x, z) \in Terms(n, k, b, r, x)
    BY DEF Terms
  <1>3. QED
    BY <1>1, <1>2 DEF Sum

\* A sum grows by its next product.
LEMMA SumGrows ==
    ASSUME NEW n, NEW k, NEW b, NEW r, NEW x, NEW count \in Nat
    PROVE  Append(Sum(n, k, b, r, x, count), Term(n, k, b, r, x, count))
             = Sum(n, k, b, r, x, count + 1)
  <1> DEFINE s == Sum(n, k, b, r, x, count)
             t == Sum(n, k, b, r, x, count + 1)
             e == Term(n, k, b, r, x, count)
  <1>0. (count + 1) - 1 = count /\ count + 1 \in Nat
    OBVIOUS
  <1>1. /\ s \in Seq(Terms(n, k, b, r, x)) /\ Len(s) = count
        /\ \A q \in 1..count : s[q] = Term(n, k, b, r, x, q - 1)
    BY SumIsSeq
  <1>2. /\ t \in Seq(Terms(n, k, b, r, x)) /\ Len(t) = count + 1
        /\ \A q \in 1..count+1 : t[q] = Term(n, k, b, r, x, q - 1)
    BY <1>0, SumIsSeq
  <1>3. e \in Terms(n, k, b, r, x) /\ t[count + 1] = e
    <2>1. e \in Terms(n, k, b, r, x)
      BY DEF Terms
    <2>2. t[count + 1] = Term(n, k, b, r, x, (count + 1) - 1)
      BY <1>2
    <2>3. QED
      BY <1>0, <2>1, <2>2
  <1> HIDE DEF s, t, e
  <1>4. Append(s, e) \in Seq(Terms(n, k, b, r, x))
        /\ Len(Append(s, e)) = count + 1
    BY <1>1, <1>3
  <1>5. ASSUME NEW q \in 1..count+1 PROVE Append(s, e)[q] = t[q]
    BY <1>1, <1>2, <1>3
  <1>6. Append(s, e) = t
    BY <1>2, <1>4, <1>5
  <1>7. QED
    BY <1>6 DEF s, t, e

\* A sum grows by a stretch of products.
LEMMA SumGrowsBy ==
    ASSUME NEW n, NEW k, NEW b, NEW r, NEW x, NEW count \in Nat, NEW more \in Nat
    PROVE  Sum(n, k, b, r, x, count) \o Stretch(n, k, b, r, x, count, more)
             = Sum(n, k, b, r, x, count + more)
  <1> DEFINE new == Stretch(n, k, b, r, x, count, more)
             s == Sum(n, k, b, r, x, count)
             t == Sum(n, k, b, r, x, count + more)
             T == Terms(n, k, b, r, x)
  <1>1. /\ s \in Seq(T) /\ Len(s) = count
        /\ \A q \in 1..count : s[q] = Term(n, k, b, r, x, q - 1)
    BY SumIsSeq
  <1>2. /\ t \in Seq(T) /\ Len(t) = count + more
        /\ \A q \in 1..count+more : t[q] = Term(n, k, b, r, x, q - 1)
    <2>1. count + more \in Nat
      OBVIOUS
    <2>2. QED
      BY <2>1, SumIsSeq
  <1>3. /\ new \in Seq(T) /\ Len(new) = more
        /\ \A q \in 1..more : new[q] = Term(n, k, b, r, x, count + q - 1)
    <2>1. \A q \in 1..more : count + q - 1 \in Nat
      OBVIOUS
    <2>2. \A z \in Nat : Term(n, k, b, r, x, z) \in T
      BY DEF Terms
    <2> HIDE DEF T
    <2>3. QED
      BY <2>1, <2>2 DEF Stretch
  <1> HIDE DEF new, s, t, T
  <1>4. (s \o new) \in Seq(T) /\ Len(s \o new) = count + more
    <2>1. s \in Seq(T) /\ Len(s) = count /\ new \in Seq(T) /\ Len(new) = more
      BY <1>1, <1>3
    <2>2. QED
      BY <2>1
  <1>5. ASSUME NEW q \in 1..count+more PROVE (s \o new)[q] = t[q]
    <2>1. CASE q <= count
      BY <1>1, <1>2, <1>3, <2>1
    <2>2. CASE q > count
      <3>1. (s \o new)[q] = new[q - count] /\ q - count \in 1..more
        BY <1>1, <1>3, <2>2
      <3>2. count + (q - count) - 1 = q - 1
        OBVIOUS
      <3>3. QED
        BY <1>2, <1>3, <3>1, <3>2
    <2>3. q <= count \/ q > count
      OBVIOUS
    <2>4. QED
      BY <2>1, <2>2, <2>3
  <1>6. s \o new = t
    <2>1. PICK u : u = s \o new
      OBVIOUS
    <2>2. u \in Seq(T) /\ Len(u) = count + more /\ \A q \in 1..count+more : u[q] = t[q]
      BY <1>4, <1>5, <2>1
    <2>3. u = t
      BY <1>2, <2>2
    <2>4. QED
      BY <2>1, <2>3
  <1>7. QED
    BY <1>6 DEF new, s, t

\* A shorter sum is a prefix of a longer one.
LEMMA SumIsPrefix ==
    ASSUME NEW n, NEW k \in Nat, NEW b, NEW r, NEW x, NEW count \in 0..k
    PROVE  IsPrefix(Sum(n, k, b, r, x, count), Sum(n, k, b, r, x, k))
  <1> DEFINE s == Sum(n, k, b, r, x, count)
             t == Sum(n, k, b, r, x, k)
             T == Terms(n, k, b, r, x)
  <1>1. /\ s \in Seq(T) /\ Len(s) = count
        /\ \A q \in 1..count : s[q] = Term(n, k, b, r, x, q - 1)
    BY SumIsSeq
  <1>2. /\ t \in Seq(T) /\ Len(t) = k
        /\ \A q \in 1..k : t[q] = Term(n, k, b, r, x, q - 1)
    BY SumIsSeq
  <1> HIDE DEF s, t, T
  <1>3. SubSeq(s, 1, count) \in Seq(T) /\ Len(SubSeq(s, 1, count)) = count
        /\ \A q \in 1..count : SubSeq(s, 1, count)[q] = s[q]
    BY <1>1
  <1>4. SubSeq(t, 1, count) \in Seq(T) /\ Len(SubSeq(t, 1, count)) = count
        /\ \A q \in 1..count : SubSeq(t, 1, count)[q] = t[q]
    BY <1>2
  <1>5. \A q \in 1..count : q \in 1..k
    OBVIOUS
  <1>6. SubSeq(s, 1, count) = SubSeq(t, 1, count)
    BY <1>1, <1>2, <1>3, <1>4, <1>5
  <1>7. IsPrefix(s, t)
    BY <1>1, <1>2, <1>6 DEF IsPrefix
  <1>8. QED
    BY <1>7 DEF s, t

-----------------------------------------------------------------------------
(* The invariant *)

\* The arguments a kernel accepts.
Valid == params # NoParams /\ Conforming

Kernels == {"ref", "batched", "row", "packB", "packA", "tile"}
Errors == {"invalid_argument", "unsupported"}

Typed ==
    /\ context \in Contexts /\ params \in Arguments
    /\ pc \in Kernels \cup {"infer", "return", "threw"}
    /\ status \in {"none", "ok"} \cup Errors
    /\ (status = "none") <=> (pc # "return")
    /\ h \in Nat /\ i \in Nat /\ p \in Nat /\ j \in Nat
    /\ jc \in Nat /\ kb \in Nat /\ ic \in Nat

\* A kernel runs on arguments it accepts, the blocked ones in two dimensions.
Accepted ==
    /\ pc \in Kernels \cup {"threw"} \/ status = "ok" => Valid
    /\ pc \in {"row", "packB", "packA", "tile", "threw"} => Ranked(2)
    /\ pc = "row" => M = 1
    /\ pc = "infer" => h = 0 /\ i = 0 /\ p = 0 /\ j = 0 /\ jc = 0 /\ kb = 0

\* How far the loops go.
Loops ==
    /\ pc = "ref" => i <= M /\ p <= K /\ (i = M => p = 0)
    /\ pc = "batched" => i <= M /\ p <= K /\ (p = K => i = 0)
    /\ pc = "row" => /\ p <= K /\ j <= N /\ (p = K => j = 0)
                     /\ j < VectorEnd => \E g \in Nat : j = g * Lanes
    /\ pc \in {"packA", "tile"} => jc < N /\ kb < K
    /\ pc = "tile" => ic < M

\* What the packing buffers hold, and that it is of A and B.
PackedBlocks ==
    /\ pc \in {"packA", "tile"} =>
         packedB = [x \in 0..kc*nc-1 |-> (kb + x \div nc) * N + jc + (x % nc)]
    /\ pc = "tile" =>
         packedA = [x \in 0..mc*kc-1 |-> (ic + (x % mc)) * K + kb + (x \div mc)]

PackedInRange ==
    /\ \A x \in DOMAIN packedA : packedA[x] < Size(params.a)
    /\ \A x \in DOMAIN packedB : packedB[x] < Size(params.b)

\* The output keeps its elements.
SameElements == params # NoParams => DOMAIN c = 0..Size(params.c)-1

\* In an output, the element of batch b, row m and column x has received count
\* products.
Holds(output, b, m, x, count) ==
    output[(b * M + m) * N + x] = Sum(N, K, b, b * M + m, x, count)
Received(b, m, x, count) == Holds(c, b, m, x, count)

\* How many products an element has received, in each kernel.
RefCount(b, m) == IF b < h \/ (b = h /\ m < i) THEN K
                  ELSE IF b = h /\ m = i THEN p ELSE 0
BatchedCount(b, m) == IF b < h THEN K ELSE IF h < b THEN 0
                      ELSE IF m < i THEN p + 1 ELSE p
RowCount(x) == IF x < j THEN p + 1 ELSE p
BlockCount(x, done) == IF x < jc THEN K ELSE IF x < jc + NC THEN done ELSE 0
TileDone(m, x) ==
    \/ m < ic
    \/ m < ic + mc /\ (m < ic + i \/ (m < ic + i + MR /\ x < jc + j))

Progress ==
    \A b \in 0..Batch-1, m \in 0..M-1, x \in 0..N-1 :
        /\ pc = "ref" => Received(b, m, x, RefCount(b, m))
        /\ pc = "batched" => Received(b, m, x, BatchedCount(b, m))
        /\ pc = "row" => Received(b, m, x, RowCount(x))
        /\ pc = "packB" => Received(b, m, x, BlockCount(x, Least(kb, K)))
        /\ pc = "packA" =>
             Received(b, m, x, BlockCount(x, IF m < ic THEN kb + kc ELSE kb))
        /\ pc = "tile" =>
             Received(b, m, x, BlockCount(x, IF TileDone(m, x) THEN kb + kc
                                                               ELSE kb))
        /\ pc = "threw" => \E count \in 0..K : Received(b, m, x, count)
        /\ status = "ok" => Received(b, m, x, K)

\* Before a kernel runs, and if none does, the output is as it was.
Untouched ==
    pc = "infer" \/ status \in Errors => \A o \in DOMAIN c : c[o] = <<>>

IInv == /\ Typed /\ Accepted /\ Loops /\ PackedBlocks /\ PackedInRange
        /\ SameElements /\ Progress /\ Untouched

\* The extents of accepted arguments, and how many floats they stand for.
LEMMA Extents ==
    ASSUME params \in Arguments, Valid
    PROVE  /\ Batch \in Nat /\ M \in Nat /\ K \in Nat /\ N \in Nat
           /\ Ranked(2) => Batch = 1
           /\ Size(params.a) = (Batch * M) * K
           /\ Size(params.b) = (Batch * K) * N
           /\ Size(params.c) = (Batch * M) * N
  <1>1. params.a \in Shapes /\ params.b \in Shapes /\ params.c \in Shapes
    BY ArgumentsAssumption DEF Valid
  <1>2. params.a \in Seq(Nat) /\ params.b \in Seq(Nat) /\ params.c \in Seq(Nat)
    BY <1>1 DEF Shapes
  <1>3. CASE Ranked(2) /\ params.b = <<K, N>> /\ params.c = <<M, N>>
    <2>1. /\ Len(params.a) = 2 /\ Len(params.b) = 2 /\ Len(params.c) = 2
          /\ ~Ranked(3)
      BY <1>3 DEF Ranked
    <2>2. params.a[1] \in Nat /\ params.a[2] \in Nat /\ params.b[2] \in Nat
      <3>1. ASSUME NEW s \in Seq(Nat), NEW d \in 1..Len(s) PROVE s[d] \in Nat
        OBVIOUS
      <3>2. /\ 1 \in 1..Len(params.a) /\ 2 \in 1..Len(params.a)
            /\ 2 \in 1..Len(params.b)
        BY <2>1
      <3>3. QED
        BY <1>2, <3>1, <3>2
    <2>3. M = params.a[1] /\ K = params.a[2] /\ N = params.b[2] /\ Batch = 1
      BY <2>1, <2>2 DEF M, K, N, Batch
    <2>4. /\ params.b[1] = K /\ params.c[1] = M /\ params.c[2] = N
      BY <1>3
    <2>5. /\ Size(params.a) = M * K * 1 /\ Size(params.b) = K * N * 1
          /\ Size(params.c) = M * N * 1
      BY <2>1, <2>3, <2>4 DEF Size
    <2>6. /\ Batch * M = M /\ Batch * K = K
          /\ M * K \in Nat /\ K * N \in Nat /\ M * N \in Nat
      BY <2>2, <2>3, NextRowAt
    <2>7. Size(params.a) = M * K /\ Size(params.b) = K * N /\ Size(params.c) = M * N
      BY <2>5, <2>6
    <2>8. QED
      BY <2>2, <2>3, <2>6, <2>7
  <1>4. CASE Ranked(3) /\ params.b = <<Batch, K, N>> /\ params.c = <<Batch, M, N>>
    <2>1. /\ Len(params.a) = 3 /\ Len(params.b) = 3 /\ Len(params.c) = 3
          /\ ~Ranked(2)
      BY <1>4 DEF Ranked
    <2>2. /\ params.a[1] \in Nat /\ params.a[2] \in Nat /\ params.a[3] \in Nat
          /\ params.b[3] \in Nat
      <3>1. ASSUME NEW s \in Seq(Nat), NEW d \in 1..Len(s) PROVE s[d] \in Nat
        OBVIOUS
      <3>2. /\ 1 \in 1..Len(params.a) /\ 2 \in 1..Len(params.a)
            /\ 3 \in 1..Len(params.a) /\ 3 \in 1..Len(params.b)
        BY <2>1
      <3>3. QED
        BY <1>2, <3>1, <3>2
    <2>3. /\ Batch = params.a[1] /\ M = params.a[2] /\ K = params.a[3]
          /\ N = params.b[3]
      BY <1>4, <2>1, <2>2 DEF M, K, N, Batch
    <2>4. /\ params.b[1] = Batch /\ params.b[2] = K
          /\ params.c[1] = Batch /\ params.c[2] = M /\ params.c[3] = N
      BY <1>4
    <2>5. /\ Size(params.a) = Batch * M * K /\ Size(params.b) = Batch * K * N
          /\ Size(params.c) = Batch * M * N
      BY <2>1, <2>3, <2>4 DEF Size
    <2>6. QED
      BY <2>1, <2>2, <2>3, <2>5
  <1>5. QED
    BY <1>3, <1>4 DEF Valid, Conforming

\* The arguments do not change, nor what depends on them alone.
LEMMA SameArguments ==
    ASSUME [Next]_vars
    PROVE  /\ params' = params /\ context' = context
           /\ Batch' = Batch /\ M' = M /\ K' = K /\ N' = N
           /\ (Valid' <=> Valid) /\ (Ranked(2)' <=> Ranked(2))
  <1>1. params' = params /\ context' = context
    <2>1. CASE Refuse \/ Reference \/ Avx2
      BY <2>1 DEF Refuse, Reference, Avx2, Return, Enter, callVars
    <2>2. CASE RefLoop \/ BatchedLoop \/ RowLoop
      BY <2>2 DEF RefLoop, BatchedLoop, RowLoop, Return, callVars
    <2>3. CASE PackB \/ PackA
      BY <2>3 DEF PackB, PackA, Return, callVars
    <2>4. CASE MacroKernel \/ Throw \/ UNCHANGED vars
      BY <2>4 DEF MacroKernel, Throw, callVars, vars
    <2>5. QED
      BY <2>1, <2>2, <2>3, <2>4 DEF Next
  <1>2. QED
    BY <1>1 DEF Batch, M, K, N, Valid, Conforming, Ranked

-----------------------------------------------------------------------------
(* What is stored *)

\* The output has an element for every row and column.
LEMMA Elements ==
    ASSUME Typed, Valid, SameElements,
           NEW b \in 0..Batch-1, NEW m \in 0..M-1, NEW x \in 0..N-1
    PROVE  /\ b * M + m \in 0..Batch*M-1
           /\ (b * M + m) * N + x \in DOMAIN c
  <1>1. /\ Batch \in Nat /\ M \in Nat /\ K \in Nat /\ N \in Nat
        /\ Size(params.c) = (Batch * M) * N
    BY Extents DEF Typed
  <1>2. b * M + m \in 0..Batch*M-1
    BY <1>1, CellInMatrix
  <1>3. Batch * M \in Nat
    BY <1>1, NextRowAt
  <1>4. PICK r, rows : r = b * M + m /\ rows = Batch * M
    OBVIOUS
  <1>5. r * N + x \in 0..rows*N-1
    BY <1>1, <1>2, <1>3, <1>4, CellInMatrix
  <1>6. QED
    BY <1>1, <1>2, <1>4, <1>5 DEF SameElements, Valid

\* The elements of two rows or columns are two.
LEMMA Distinct ==
    ASSUME Typed, Valid,
           NEW b \in 0..Batch-1, NEW m \in 0..M-1, NEW x \in 0..N-1,
           NEW d \in 0..Batch-1, NEW l \in 0..M-1, NEW y \in 0..N-1,
           (b * M + m) * N + x = (d * M + l) * N + y
    PROVE  b = d /\ m = l /\ x = y
  <1>1. Batch \in Nat /\ M \in Nat /\ K \in Nat /\ N \in Nat
    BY Extents DEF Typed
  <1>2. b * M \in Nat /\ d * M \in Nat
    BY <1>1, NextRowAt
  <1>3. PICK r \in Nat, s \in Nat : r = b * M + m /\ s = d * M + l
    BY <1>1, <1>2
  <1>4. r = s /\ x = y
    BY <1>1, <1>3, OneCell
  <1>5. b = d /\ m = l
    BY <1>1, <1>3, <1>4, OneCell
  <1>6. QED
    BY <1>4, <1>5

\* The elements of some columns of a row get one product more each, no other
\* element does.
RowChanged(d, l, columns, oa, ob) ==
    /\ DOMAIN c' = DOMAIN c
    /\ \A b \in 0..Batch-1, m \in 0..M-1, x \in 0..N-1 :
         c'[(b * M + m) * N + x] =
           IF b = d /\ m = l /\ x \in columns
             THEN Append(c[(b * M + m) * N + x], <<oa, ob + x>>)
             ELSE c[(b * M + m) * N + x]

\* That is what AddRow does.
LEMMA RowAdded ==
    ASSUME Typed, Valid, SameElements,
           NEW d \in 0..Batch-1, NEW l \in 0..M-1,
           NEW columns \in SUBSET (0..N-1), NEW oa, NEW ob \in Nat,
           NEW row, row = d * M + l,
           c' = AddRow(row, oa, ob, columns)
    PROVE  RowChanged(d, l, columns, oa, ob)
  <1>1. Batch \in Nat /\ M \in Nat /\ K \in Nat /\ N \in Nat
    BY Extents DEF Typed
  <1> DEFINE stored == {row * N + x : x \in columns}
  <1>2. stored \subseteq DOMAIN c
    BY Elements
  <1>3. c' = [o \in DOMAIN c |->
                IF o \in stored THEN Append(c[o], <<oa, ob + (o - row * N)>>)
                                ELSE c[o]]
    BY <1>2 DEF AddRow, At
  <1>4. ASSUME NEW b \in 0..Batch-1, NEW m \in 0..M-1, NEW x \in 0..N-1
        PROVE  c'[(b * M + m) * N + x] =
                 IF b = d /\ m = l /\ x \in columns
                   THEN Append(c[(b * M + m) * N + x], <<oa, ob + x>>)
                   ELSE c[(b * M + m) * N + x]
    <2>1. PICK o : o = (b * M + m) * N + x
      OBVIOUS
    <2>2. o \in DOMAIN c
      BY <2>1, Elements
    <2>3. CASE b = d /\ m = l /\ x \in columns
      <3>1. o = row * N + x /\ o \in stored
        BY <2>1, <2>3
      <3>2. row * N \in Nat
        <4>1. d * M \in Nat
          BY <1>1, NextRowAt
        <4>2. row \in Nat
          BY <4>1
        <4>3. QED
          BY <1>1, <4>2, NextRowAt
      <3>3. ob + (o - row * N) = ob + x
        BY <3>1, <3>2
      <3> HIDE DEF stored
      <3>4. QED
        BY <1>3, <2>1, <2>2, <2>3, <3>1, <3>3
    <2>4. CASE ~(b = d /\ m = l /\ x \in columns)
      <3>1. o \notin stored
        <4>1. SUFFICES ASSUME NEW y \in columns, o = row * N + y PROVE FALSE
          OBVIOUS
        <4>2. b = d /\ m = l /\ x = y
          BY <2>1, <4>1, Distinct
        <4>3. QED
          BY <2>4, <4>2
      <3> HIDE DEF stored
      <3>2. QED
        BY <1>3, <2>1, <2>2, <2>4, <3>1
    <2>5. QED
      BY <2>3, <2>4
  <1> HIDE DEF stored
  <1>5. DOMAIN c' = DOMAIN c
    BY <1>3
  <1>6. QED
    BY <1>4, <1>5 DEF RowChanged

\* Such an element, having received z products, receives the next one, and the
\* others receive none.
RowGiven(d, l, columns, z) ==
    /\ DOMAIN c' = DOMAIN c
    /\ \A b \in 0..Batch-1, m \in 0..M-1, x \in 0..N-1, count \in Nat :
         /\ Received(b, m, x, count)
         /\ b = d /\ m = l /\ x \in columns => count = z
         => Holds(c', b, m, x,
              IF b = d /\ m = l /\ x \in columns THEN z + 1 ELSE count)

\* That is what one pass over a row does.
LEMMA RowReceived ==
    ASSUME Typed, Valid, SameElements,
           NEW d \in 0..Batch-1, NEW l \in 0..M-1,
           NEW columns \in SUBSET (0..N-1), NEW z \in Nat,
           c' = AddRow(d * M + l, (d * M + l) * K + z, (d * K + z) * N, columns)
    PROVE  RowGiven(d, l, columns, z)
  <1>1. Batch \in Nat /\ M \in Nat /\ K \in Nat /\ N \in Nat
    BY Extents DEF Typed
  <1>2. PICK row \in Nat : row = d * M + l
    BY <1>1, NextRowAt
  <1>3. PICK oa, ob : oa = row * K + z /\ ob = (d * K + z) * N /\ ob \in Nat
    <2>1. d * K \in Nat
      BY <1>1, NextRowAt
    <2>2. (d * K + z) * N \in Nat
      BY <1>1, <2>1, NextRowAt
    <2>3. QED
      BY <2>2
  <1>4. c' = AddRow(row, oa, ob, columns)
    BY <1>2, <1>3
  <1>5. RowChanged(d, l, columns, oa, ob)
    <2>1. /\ d \in 0..Batch-1 /\ l \in 0..M-1 /\ columns \in SUBSET (0..N-1)
          /\ ob \in Nat /\ row = d * M + l
      BY <1>2, <1>3
    <2>2. QED
      BY <1>4, <2>1, RowAdded
  <1>6. ASSUME NEW b \in 0..Batch-1, NEW m \in 0..M-1, NEW x \in 0..N-1,
               NEW count \in Nat, Received(b, m, x, count),
               b = d /\ m = l /\ x \in columns => count = z
        PROVE  Holds(c', b, m, x,
                 IF b = d /\ m = l /\ x \in columns THEN z + 1 ELSE count)
    <2>1. CASE b = d /\ m = l /\ x \in columns
      <3>1. c[(b * M + m) * N + x] = Sum(N, K, d, row, x, z)
        BY <1>2, <1>6, <2>1 DEF Received, Holds
      <3>2. <<oa, ob + x>> = Term(N, K, d, row, x, z)
        BY <1>3 DEF Term
      <3>3. c'[(b * M + m) * N + x] = Append(c[(b * M + m) * N + x], <<oa, ob + x>>)
        BY <1>5, <2>1 DEF RowChanged
      <3>4. c'[(b * M + m) * N + x] = Sum(N, K, d, row, x, z + 1)
        BY <3>1, <3>2, <3>3, SumGrows
      <3>5. QED
        BY <1>2, <2>1, <3>4 DEF Holds
    <2>2. CASE ~(b = d /\ m = l /\ x \in columns)
      <3>1. c'[(b * M + m) * N + x] = c[(b * M + m) * N + x]
        BY <1>5, <2>2 DEF RowChanged
      <3>2. QED
        BY <1>6, <2>2, <3>1 DEF Received, Holds
    <2>3. QED
      BY <2>1, <2>2
  <1>7. QED
    BY <1>5, <1>6 DEF RowChanged, RowGiven
\* Where a block ends: inside the matrix.
LEMMA BlockSizes ==
    ASSUME Typed, Valid, jc < N, kb < K
    PROVE  /\ kc \in Nat \ {0} /\ kb + kc <= K
           /\ nc \in Nat \ {0} /\ jc + nc <= N /\ nc <= NC
           /\ kb + kc = Least(kb + KC, K)
           /\ \A x \in 0..N-1 : x < jc + NC => x < jc + nc
           /\ ic < M => /\ mc \in Nat \ {0} /\ ic + mc <= M /\ mc <= MC
                        /\ \A m \in 0..M-1 : m < ic + MC => m < ic + mc
  <1>1. M \in Nat /\ K \in Nat /\ N \in Nat
    BY Extents DEF Typed
  <1>2. KC \in Nat \ {0} /\ NC \in Nat \ {0} /\ MC \in Nat \ {0}
    BY MatMulAssumption
  <1>3. kb \in Nat /\ jc \in Nat /\ ic \in Nat
    BY DEF Typed
  <1>4. kc \in Nat \ {0} /\ kb + kc <= K /\ kb + kc = Least(kb + KC, K)
    BY <1>1, <1>2, <1>3 DEF kc, Least
  <1>5. /\ nc \in Nat \ {0} /\ jc + nc <= N /\ nc <= NC
        /\ \A x \in 0..N-1 : x < jc + NC => x < jc + nc
    BY <1>1, <1>2, <1>3 DEF nc, Least
  <1>6. ic < M => /\ mc \in Nat \ {0} /\ ic + mc <= M /\ mc <= MC
                  /\ \A m \in 0..M-1 : m < ic + MC => m < ic + mc
    BY <1>1, <1>2, <1>3 DEF mc, Least
  <1>7. QED
    BY <1>4, <1>5, <1>6

\* The element of a packed buffer at row r and column x of width w.
LEMMA PackedAt ==
    ASSUME NEW w \in Nat, NEW r \in Nat, NEW x \in 0..w-1, NEW rows \in Nat,
           r < rows
    PROVE  /\ r * w + x \in 0..rows*w-1
           /\ (r * w + x) \div w = r /\ (r * w + x) % w = x
  BY CellInMatrix, RowAndColumn

\* The packed products of row m and column x of the block are those that
\* follow the first kb.
LEMMA PackedProducts ==
    ASSUME Typed, Valid, PackedBlocks, pc = "tile", jc < N, kb < K, ic < M,
           NEW m \in 0..mc-1, NEW x \in 0..nc-1, NEW q \in 1..kc
    PROVE  /\ Packed(packedA, (q - 1) * mc + m) = (ic + m) * K + (kb + q - 1)
           /\ Packed(packedB, (q - 1) * nc + x) = (kb + q - 1) * N + (jc + x)
  <1>1. /\ kc \in Nat /\ nc \in Nat /\ mc \in Nat
        /\ M \in Nat /\ K \in Nat /\ N \in Nat
        /\ kb \in Nat /\ jc \in Nat /\ ic \in Nat
    BY BlockSizes, Extents DEF Typed
  <1>2. q - 1 \in Nat /\ q - 1 < kc
    BY <1>1
  <1>3. PICK u, v : u = (q - 1) * mc + m /\ v = (q - 1) * nc + x
    OBVIOUS
  <1>4. u \in 0..kc*mc-1 /\ u \div mc = q - 1 /\ u % mc = m
    BY <1>1, <1>2, <1>3, PackedAt
  <1>5. v \in 0..kc*nc-1 /\ v \div nc = q - 1 /\ v % nc = x
    BY <1>1, <1>2, <1>3, PackedAt
  <1>6. kc * mc = mc * kc
    BY <1>1
  <1>7. packedA[u] = (ic + m) * K + kb + (q - 1) /\ u \in DOMAIN packedA
    BY <1>4, <1>6 DEF PackedBlocks
  <1>8. packedB[v] = (kb + (q - 1)) * N + jc + x /\ v \in DOMAIN packedB
    BY <1>5 DEF PackedBlocks
  <1>9. (ic + m) * K \in Nat /\ (kb + (q - 1)) * N \in Nat
    BY <1>1, <1>2, NextRowAt
  <1>10. kb + (q - 1) = kb + q - 1
    BY <1>1, <1>2
  <1>11. (ic + m) * K + kb + (q - 1) = (ic + m) * K + (kb + q - 1)
    BY <1>1, <1>2, <1>9
  <1>12. (kb + (q - 1)) * N + jc + x = (kb + q - 1) * N + (jc + x)
    BY <1>1, <1>9, <1>10
  <1>13. QED
    BY <1>3, <1>7, <1>8, <1>11, <1>12 DEF Packed

\* The rows and columns of the tile a micro kernel computes.
InTile(m, x) ==
    /\ m \in ic+i..ic+i+Least(MR, mc-i)-1
    /\ x \in jc+j..jc+j+Least(NR, nc-j)-1

\* The products of one block of K.
BlockProducts(m, x) == Stretch(N, K, 0, m, x, kb, kc)

\* The elements of a tile get the products of the block, no other does.
TileChanged ==
    /\ DOMAIN c' = DOMAIN c
    /\ \A m \in 0..M-1, x \in 0..N-1 :
         c'[m * N + x] = IF InTile(m, x) THEN c[m * N + x] \o BlockProducts(m, x)
                         ELSE c[m * N + x]

\* The kernel that has its shape built in computes whole tiles only.
LEMMA WhichTile ==
    ASSUME NEW ib, NEW jb
    PROVE  TileShape(ib, jb) = <<ib, jb>>
  BY MatMulAssumption DEF TileShape

\* That is what the micro kernels do.
LEMMA TileStored ==
    ASSUME Typed, Valid, Accepted, Loops, PackedBlocks, SameElements,
           pc = "tile", i < mc, j < nc,
           c' = Tile(TileShape(Least(MR, mc - i), Least(NR, nc - j)))
    PROVE  TileChanged
  <1> DEFINE ib == Least(MR, mc - i)
             jb == Least(NR, nc - j)
             shape == <<ib, jb>>
             tile == (0..shape[1]-1) \X (0..shape[2]-1)
             first == (ic + i) * N + jc + j
             place == [t \in tile |-> first + t[1] * N + t[2]]
             stored == Range(place)
             product(t, q) == <<Packed(packedA, (q - 1) * mc + i + t[1]),
                                Packed(packedB, (q - 1) * nc + j + t[2])>>
  <1>1. /\ kc \in Nat \ {0} /\ nc \in Nat \ {0} /\ mc \in Nat \ {0}
        /\ M \in Nat /\ K \in Nat /\ N \in Nat /\ Batch = 1
        /\ kb \in Nat /\ jc \in Nat /\ ic \in Nat /\ i \in Nat /\ j \in Nat
        /\ ic + mc <= M /\ jc + nc <= N
        /\ jc < N /\ kb < K /\ ic < M
    BY BlockSizes, Extents DEF Typed, Loops, Accepted
  <1>2. DOMAIN c = 0..M*N-1
    <2>1. Size(params.c) = (Batch * M) * N /\ Batch * M = M
      BY <1>1, Extents DEF Typed
    <2>2. QED
      BY <2>1 DEF SameElements, Valid
  <1>3. /\ ib \in Nat /\ jb \in Nat /\ i + ib <= mc /\ j + jb <= nc
    BY <1>1, MatMulAssumption DEF Least
  <1> HIDE DEF ib, jb
  <1>4. c' = [o \in DOMAIN c \cup stored |->
                IF o \notin stored THEN c[o]
                ELSE LET t == CHOOSE u \in tile : place[u] = o
                     IN At(o) \o [q \in 1..kc |-> product(t, q)]]
    <2>1. c' = Tile(shape)
      BY WhichTile DEF ib, jb
    <2> HIDE DEF shape
    <2>2. QED
      BY <2>1 DEF Tile
  <1>a. tile = (0..ib-1) \X (0..jb-1)
    OBVIOUS
  <1> HIDE DEF tile
  <1>5. ASSUME NEW t \in tile
        PROVE  /\ t[1] \in 0..ib-1 /\ t[2] \in 0..jb-1
               /\ place[t] = (ic + i + t[1]) * N + (jc + j + t[2])
               /\ ic + i + t[1] \in 0..M-1 /\ jc + j + t[2] \in 0..N-1
    <2>1. t[1] \in 0..ib-1 /\ t[2] \in 0..jb-1
      BY <1>a
    <2>2. ic + i + t[1] \in 0..M-1 /\ jc + j + t[2] \in 0..N-1
      BY <1>1, <1>3, <2>1
    <2>3. (ic + i + t[1]) * N = (ic + i) * N + t[1] * N
      <3>1. PICK e \in Nat, f \in Nat : e = ic + i /\ f = t[1]
        BY <1>1, <2>1
      <3>2. (e + f) * N = e * N + f * N
        BY <1>1, Z3
      <3>3. QED
        BY <3>1, <3>2
    <2>4. (ic + i) * N \in Nat /\ t[1] * N \in Nat
      <3>1. ic + i \in Nat /\ t[1] \in Nat
        BY <1>1, <2>1
      <3>2. QED
        BY <1>1, <3>1, NextRowAt
    <2>5. place[t] = (ic + i) * N + jc + j + t[1] * N + t[2]
      OBVIOUS
    <2>6. place[t] = (ic + i + t[1]) * N + (jc + j + t[2])
      <3> HIDE DEF place
      <3>1. QED
        BY <1>1, <2>1, <2>3, <2>4, <2>5
    <2>7. QED
      BY <2>1, <2>2, <2>6
  <1>6. DOMAIN place = tile /\ stored = {place[t] : t \in tile}
    BY DEF Range
  <1> HIDE DEF place, stored
  <1>7. stored \subseteq DOMAIN c
    <2>1. ASSUME NEW t \in tile PROVE place[t] \in DOMAIN c
      <3>1. PICK r \in 0..M-1, x \in 0..N-1 : place[t] = r * N + x
        BY <1>5
      <3>2. QED
        BY <1>1, <1>2, <3>1, CellInMatrix
    <2>2. QED
      BY <1>6, <2>1
  <1>8. DOMAIN c' = DOMAIN c
    <2> HIDE DEF product
    <2>1. QED
      BY <1>4, <1>7
  <1>9. ASSUME NEW m \in 0..M-1, NEW x \in 0..N-1, InTile(m, x)
        PROVE  c'[m * N + x] = c[m * N + x] \o BlockProducts(m, x)
    <2> DEFINE o == m * N + x
               t == CHOOSE u \in tile : place[u] = o
               w == <<m - (ic + i), x - (jc + j)>>
    <2>1. w \in tile /\ ic + i + w[1] = m /\ jc + j + w[2] = x
      BY <1>1, <1>3, <1>9, <1>a DEF InTile, ib, jb
    <2>2. place[w] = o
      BY <1>5, <2>1
    <2>3. t \in tile /\ place[t] = o
      BY <2>1, <2>2
    <2>4. ic + i + t[1] = m /\ jc + j + t[2] = x
      <3>1. PICK r \in 0..M-1, y \in 0..N-1 :
              r = ic + i + t[1] /\ y = jc + j + t[2] /\ place[t] = r * N + y
        BY <1>5, <2>3
      <3>2. r = m /\ y = x
        BY <1>1, <2>3, <3>1, OneCell
      <3>3. QED
        BY <3>1, <3>2
    <2>5. t[1] \in 0..ib-1 /\ t[2] \in 0..jb-1
      BY <1>5, <2>3
    <2> HIDE DEF t
    <2>6. ASSUME NEW q \in 1..kc
          PROVE  product(t, q) = Term(N, K, 0, m, x, kb + q - 1)
      <3>1. i + t[1] \in 0..mc-1 /\ j + t[2] \in 0..nc-1
        BY <1>1, <1>3, <2>5
      <3>2. /\ Packed(packedA, (q - 1) * mc + (i + t[1]))
                 = (ic + (i + t[1])) * K + (kb + q - 1)
            /\ Packed(packedB, (q - 1) * nc + (j + t[2]))
                 = (kb + q - 1) * N + (jc + (j + t[2]))
        BY <1>1, <3>1, PackedProducts
      <3>3. /\ (q - 1) * mc + (i + t[1]) = (q - 1) * mc + i + t[1]
            /\ (q - 1) * nc + (j + t[2]) = (q - 1) * nc + j + t[2]
        <4>1. q - 1 \in Nat
          BY <1>1
        <4>2. (q - 1) * mc \in Nat /\ (q - 1) * nc \in Nat
          BY <1>1, <4>1, NextRowAt
        <4>3. QED
          BY <1>1, <2>5, <4>2
      <3>4. ic + (i + t[1]) = m /\ jc + (j + t[2]) = x
        BY <1>1, <2>4, <2>5
      <3>5. 0 * K + (kb + q - 1) = kb + q - 1
        BY <1>1
      <3>6. QED
        BY <3>2, <3>3, <3>4, <3>5 DEF Term
    <2>7. [q \in 1..kc |-> product(t, q)] = BlockProducts(m, x)
      BY <2>6 DEF BlockProducts, Stretch
    <2>8. o \in stored /\ o \in DOMAIN c
      BY <1>6, <1>7, <2>1, <2>2
    <2> HIDE DEF o, w
    <2>9. c'[o] = c[o] \o [q \in 1..kc |-> product(t, q)]
      BY <1>4, <2>8 DEF At, t
    <2>10. QED
      BY <2>7, <2>9 DEF o
  <1>10. ASSUME NEW m \in 0..M-1, NEW x \in 0..N-1, ~InTile(m, x)
         PROVE  c'[m * N + x] = c[m * N + x]
    <2>1. PICK o : o = m * N + x
      OBVIOUS
    <2>2. o \in DOMAIN c
      BY <1>1, <1>2, <2>1, CellInMatrix
    <2>3. o \notin stored
      <3>1. SUFFICES ASSUME NEW t \in tile, place[t] = o PROVE FALSE
        BY <1>6
      <3>2. PICK r \in 0..M-1, y \in 0..N-1 :
              r = ic + i + t[1] /\ y = jc + j + t[2] /\ place[t] = r * N + y
        BY <1>5
      <3>3. r = m /\ y = x
        <4>1. r * N + y = m * N + x
          BY <2>1, <3>1, <3>2
        <4>2. QED
          BY <1>1, <4>1, OneCell
      <3>4. t[1] \in 0..ib-1 /\ t[2] \in 0..jb-1
        BY <1>5
      <3>5. QED
        BY <1>1, <1>3, <1>10, <3>2, <3>3, <3>4 DEF InTile, ib, jb
    <2> HIDE DEF product
    <2>4. c'[o] = c[o]
      BY <1>4, <2>2, <2>3
    <2>5. QED
      BY <2>1, <2>4
  <1>11. QED
    BY <1>8, <1>9, <1>10 DEF TileChanged

-----------------------------------------------------------------------------
(* Control *)

\* Every step keeps the types.
LEMMA TypedNext == Typed /\ [Next]_vars => Typed'
  <1> SUFFICES ASSUME Typed, [Next]_vars PROVE Typed'
    OBVIOUS
  <1>0. /\ KC \in Nat /\ NC \in Nat /\ MC \in Nat
        /\ MR \in Nat /\ NR \in Nat /\ Lanes \in Nat
    BY MatMulAssumption
  <1> USE <1>0 DEF Typed, Kernels, Errors
  <1>1. CASE Refuse \/ Reference \/ Avx2
    BY <1>1 DEF Refuse, Reference, Avx2, Return, Enter, callVars, blockVars
  <1>2. CASE RefLoop
    BY <1>2 DEF RefLoop, Return, callVars, blockVars
  <1>3. CASE BatchedLoop
    BY <1>3 DEF BatchedLoop, Return, callVars, blockVars
  <1>4. CASE RowLoop
    <2>1. CASE p = K /\ Return("ok")
      BY <1>4, <2>1 DEF RowLoop, Return, blockVars
    <2>2. CASE ~(p = K /\ Return("ok"))
      <3>1. /\ pc = "row" /\ p' \in {p, p + 1} /\ j' \in {0, j + Lanes, j + 1}
            /\ context' = context /\ params' = params /\ status' = status
            /\ pc' = pc /\ h' = h /\ i' = i
            /\ jc' = jc /\ kb' = kb /\ ic' = ic
        BY <1>4, <2>2 DEF RowLoop, callVars, blockVars
      <3>2. QED
        BY <3>1
    <2>3. QED
      BY <2>1, <2>2
  <1>5. CASE PackB
    BY <1>5 DEF PackB, Return, callVars, blockVars
  <1>6. CASE PackA
    BY <1>6 DEF PackA, callVars
  <1>7. CASE MacroKernel
    BY <1>7 DEF MacroKernel, callVars, blockVars
  <1>8. CASE Throw
    BY <1>8 DEF Throw, callVars, blockVars
  <1>9. CASE UNCHANGED vars
    BY <1>9 DEF vars
  <1>10. QED
    BY <1>1, <1>2, <1>3, <1>4, <1>5, <1>6, <1>7, <1>8, <1>9 DEF Next

\* A kernel is entered with arguments it accepts, and the loop variables at 0.
LEMMA AcceptedNext == Typed /\ Accepted /\ [Next]_vars => Accepted'
  <1> SUFFICES ASSUME Typed, Accepted, [Next]_vars PROVE Accepted'
    OBVIOUS
  <1>0. (Valid' <=> Valid) /\ (Ranked(2)' <=> Ranked(2)) /\ M' = M
    BY SameArguments
  <1> USE <1>0 DEF Accepted, Kernels, Errors
  <1>1. CASE Refuse \/ Reference
    BY <1>1 DEF Refuse, Reference, Return, Enter, callVars, blockVars, Valid
  <1>2. CASE Avx2
    <2>1. CASE ~Conforming \/ (Ranked(2) /\ (params.ta \/ params.tb))
      BY <1>2, <2>1 DEF Avx2, Return
    <2>2. CASE ~(~Conforming \/ (Ranked(2) /\ (params.ta \/ params.tb)))
      <3>1. Valid /\ (Ranked(2) \/ Ranked(3))
        BY <1>2, <2>2 DEF Avx2, Valid, Conforming
      <3>2. /\ pc' = IF Ranked(3) THEN "batched" ELSE IF M = 1 THEN "row" ELSE "packB"
            /\ status' = status /\ pc = "infer"
        BY <1>2, <2>2 DEF Avx2, Enter, callVars
      <3>3. status # "ok"
        BY <3>2 DEF Typed
      <3>4. QED
        BY <3>1, <3>2, <3>3
    <2>3. QED
      BY <2>1, <2>2
  <1>3. CASE RefLoop
    BY <1>3 DEF RefLoop, Return, callVars, Typed
  <1>4. CASE BatchedLoop
    BY <1>4 DEF BatchedLoop, Return, callVars, Typed
  <1>5. CASE RowLoop
    BY <1>5 DEF RowLoop, Return, callVars, Typed
  <1>6. CASE PackB
    BY <1>6 DEF PackB, Return, callVars, Typed
  <1>7. CASE PackA
    BY <1>7 DEF PackA, callVars, Typed
  <1>8. CASE MacroKernel
    BY <1>8 DEF MacroKernel, callVars, Typed
  <1>9. CASE Throw
    BY <1>9 DEF Throw, callVars, Typed
  <1>10. CASE UNCHANGED vars
    BY <1>10 DEF vars
  <1>11. QED
    BY <1>1, <1>2, <1>3, <1>4, <1>5, <1>6, <1>7, <1>8, <1>9, <1>10 DEF Next

\* A whole register more does not go past the last whole one.
LEMMA RegisterFits ==
    ASSUME N \in Nat, NEW g \in Nat, j = g * Lanes, j < VectorEnd
    PROVE  j + Lanes <= VectorEnd /\ VectorEnd <= N /\ j + Lanes = (g + 1) * Lanes
  <1>1. Lanes \in Nat /\ Lanes > 0
    BY MatMulAssumption
  <1>2. PICK d : d = N \div Lanes
    OBVIOUS
  <1>3. d \in Nat /\ VectorEnd = d * Lanes /\ VectorEnd <= N /\ VectorEnd \in Nat
    <2>1. d \in Nat /\ N % Lanes \in 0..Lanes-1 /\ N = d * Lanes + (N % Lanes)
      BY <1>1, <1>2, DivMod
    <2>2. VectorEnd = d * Lanes
      BY <1>2 DEF VectorEnd
    <2>3. d * Lanes \in Nat
      BY <1>1, <2>1, NextRowAt
    <2>4. QED
      BY <2>1, <2>2, <2>3
  <1>4. g < d
    <2>1. SUFFICES ASSUME d <= g PROVE FALSE
      BY <1>3
    <2>2. d * Lanes <= g * Lanes
      BY <1>1, <1>3, <2>1, TimesMonotone
    <2>3. g * Lanes \in Nat
      BY <1>1, NextRowAt
    <2>4. QED
      BY <1>3, <2>2, <2>3
  <1>5. (g + 1) * Lanes <= d * Lanes /\ (g + 1) * Lanes = g * Lanes + Lanes
    <2>1. g + 1 <= d /\ g + 1 \in Int /\ d \in Int
      BY <1>3, <1>4
    <2>2. (g + 1) * Lanes <= d * Lanes
      BY <1>1, <2>1, TimesMonotone
    <2>3. QED
      BY <1>1, <2>2, NextRowAt
  <1>6. QED
    BY <1>3, <1>5

\* The loops stay within the extents.
LEMMA LoopsNext == Typed /\ Accepted /\ Loops /\ [Next]_vars => Loops'
  <1> SUFFICES ASSUME Typed, Accepted, Loops, [Next]_vars PROVE Loops'
    OBVIOUS
  <1>0. M' = M /\ K' = K /\ N' = N /\ VectorEnd' = VectorEnd
    BY SameArguments DEF VectorEnd
  <1>a. ASSUME Valid PROVE M \in Nat /\ K \in Nat /\ N \in Nat
    BY <1>a, Extents DEF Typed
  <1>b. h \in Nat /\ i \in Nat /\ p \in Nat /\ j \in Nat /\ kb \in Nat
    BY DEF Typed
  <1>1. CASE Refuse
    BY <1>1 DEF Refuse, Return, Loops
  <1>2. CASE Reference
    <2>1. CASE Conforming
      <3>1. pc' = "ref" /\ i' = 0 /\ p' = 0 /\ Valid
        BY <1>2, <2>1 DEF Reference, Enter, Accepted, Valid
      <3>2. QED
        BY <1>0, <1>a, <3>1 DEF Loops
    <2>2. CASE ~Conforming
      BY <1>2, <2>2 DEF Reference, Return, Loops
    <2>3. QED
      BY <2>1, <2>2
  <1>3. CASE Avx2
    <2>1. CASE ~Conforming \/ (Ranked(2) /\ (params.ta \/ params.tb))
      BY <1>3, <2>1 DEF Avx2, Return, Loops
    <2>2. CASE ~(~Conforming \/ (Ranked(2) /\ (params.ta \/ params.tb)))
      <3>1. /\ pc' \in {"batched", "row", "packB"} /\ Valid
            /\ i' = 0 /\ p' = 0 /\ j' = 0
        BY <1>3, <2>2 DEF Avx2, Enter, Accepted, Valid
      <3>2. \E g \in Nat : 0 = g * Lanes
        <4>1. 0 = 0 * Lanes
          BY MatMulAssumption
        <4>2. QED
          BY <4>1
      <3>3. QED
        BY <1>0, <1>a, <3>1, <3>2 DEF Loops
    <2>3. QED
      BY <2>1, <2>2
  <1>4. CASE RefLoop
    <2>1. Valid
      BY <1>4 DEF RefLoop, Accepted, Kernels
    <2>2. QED
      BY <1>0, <1>a, <1>b, <1>4, <2>1 DEF RefLoop, Return, Loops
  <1>5. CASE BatchedLoop
    <2>1. Valid
      BY <1>5 DEF BatchedLoop, Accepted, Kernels
    <2>2. QED
      BY <1>0, <1>a, <1>b, <1>5, <2>1 DEF BatchedLoop, Return, Loops
  <1>6. CASE RowLoop
    <2>0. M \in Nat /\ K \in Nat /\ N \in Nat /\ pc = "row"
      BY <1>a, <1>6 DEF RowLoop, Accepted, Kernels
    <2>1. CASE p = K /\ Return("ok")
      BY <2>1 DEF Return, Loops
    <2>2. CASE p < K /\ j >= N /\ p' = p + 1 /\ j' = 0 /\ pc' = pc
      <3>1. 0 = 0 * Lanes
        BY MatMulAssumption
      <3>2. QED
        BY <1>0, <1>b, <2>0, <2>2, <3>1 DEF Loops
    <2>3. CASE p < K /\ j < VectorEnd /\ j' = j + Lanes /\ p' = p /\ pc' = pc
      <3>1. PICK g \in Nat : j = g * Lanes
        BY <2>0, <2>3 DEF Loops
      <3>2. j + Lanes <= VectorEnd /\ VectorEnd <= N /\ j + Lanes = (g + 1) * Lanes
        BY <2>0, <2>3, <3>1, RegisterFits
      <3>3. j' <= N /\ \E f \in Nat : j' = f * Lanes
        <4>1. Lanes \in Nat /\ VectorEnd \in Int
          BY <2>0, MatMulAssumption DEF VectorEnd
        <4>2. g + 1 \in Nat /\ j' = (g + 1) * Lanes
          BY <2>3, <3>2
        <4>3. j' <= N
          BY <1>b, <2>0, <2>3, <3>2, <4>1
        <4>4. QED
          BY <4>2, <4>3
      <3>4. QED
        BY <1>0, <1>b, <2>0, <2>3, <3>3 DEF Loops
    <2>4. CASE p < K /\ j >= VectorEnd /\ j < N /\ j' = j + 1 /\ p' = p /\ pc' = pc
      <3>1. VectorEnd \in Int
        BY <2>0, MatMulAssumption DEF VectorEnd
      <3>2. QED
        BY <1>0, <1>b, <2>0, <2>4, <3>1 DEF Loops
    <2>5. QED
      BY <1>6, <2>1, <2>2, <2>3, <2>4 DEF RowLoop, callVars
  <1>7. CASE PackB
    BY <1>0, <1>7 DEF PackB, Return, Loops
  <1>8. CASE PackA
    BY <1>0, <1>8 DEF PackA, Loops
  <1>9. CASE MacroKernel
    BY <1>0, <1>9 DEF MacroKernel, Loops, blockVars
  <1>10. CASE Throw
    BY <1>10 DEF Throw, Loops
  <1>11. CASE UNCHANGED vars
    BY <1>0, <1>11 DEF vars, Loops
  <1>12. QED
    BY <1>1, <1>2, <1>3, <1>4, <1>5, <1>6, <1>7, <1>8, <1>9, <1>10, <1>11 DEF Next

-----------------------------------------------------------------------------
(* The packed blocks, and the output as a whole *)

\* Only packing changes the buffers, and their block does not move while they
\* are in use.
LEMMA PackedBlocksNext ==
    PackedBlocks /\ [Next]_vars => PackedBlocks'
  <1> SUFFICES ASSUME PackedBlocks, [Next]_vars PROVE PackedBlocks'
    OBVIOUS
  <1>0. M' = M /\ K' = K /\ N' = N
    BY SameArguments
  <1>1. CASE Refuse \/ Reference \/ Avx2
    BY <1>1 DEF Refuse, Reference, Avx2, Return, Enter, PackedBlocks
  <1>2. CASE RefLoop \/ BatchedLoop \/ RowLoop
    BY <1>2 DEF RefLoop, BatchedLoop, RowLoop, Return, PackedBlocks
  <1>3. CASE PackB
    <2>1. CASE pc' \in {"packB", "return"}
      BY <2>1 DEF PackedBlocks
    <2>2. CASE pc' \notin {"packB", "return"}
      <3>1. /\ packedB' = [x \in 0..kc*nc-1 |->
                             (kb + x \div nc) * N + jc + (x % nc)]
            /\ pc' = "packA" /\ jc' = jc /\ kb' = kb
        BY <1>3, <2>2 DEF PackB, Return
      <3>2. kc' = kc /\ nc' = nc
        BY <1>0, <3>1 DEF kc, nc
      <3>3. QED
        BY <1>0, <3>1, <3>2 DEF PackedBlocks
    <2>3. QED
      BY <2>1, <2>2
  <1>4. CASE PackA
    <2>1. CASE pc' = "packB"
      BY <2>1 DEF PackedBlocks
    <2>2. CASE pc' # "packB"
      <3>1. /\ packedA' = [x \in 0..mc*kc-1 |->
                             (ic + (x % mc)) * K + kb + (x \div mc)]
            /\ pc = "packA" /\ pc' = "tile" /\ packedB' = packedB
            /\ jc' = jc /\ kb' = kb /\ ic' = ic
        BY <1>4, <2>2 DEF PackA
      <3>2. kc' = kc /\ nc' = nc /\ mc' = mc
        BY <1>0, <3>1 DEF kc, nc, mc
      <3>3. QED
        BY <1>0, <3>1, <3>2 DEF PackedBlocks
    <2>3. QED
      BY <2>1, <2>2
  <1>5. CASE MacroKernel
    <2>1. /\ pc = "tile" /\ pc' \in {"tile", "packA"} /\ packedB' = packedB
          /\ packedA' = packedA /\ jc' = jc /\ kb' = kb
          /\ pc' = "tile" => ic' = ic
      BY <1>5 DEF MacroKernel, blockVars
    <2>2. kc' = kc /\ nc' = nc
      BY <1>0, <2>1 DEF kc, nc
    <2>3. pc' = "tile" => mc' = mc
      BY <1>0, <2>1 DEF mc
    <2>4. QED
      BY <1>0, <2>1, <2>2, <2>3 DEF PackedBlocks
  <1>6. CASE Throw
    BY <1>6 DEF Throw, PackedBlocks
  <1>7. CASE UNCHANGED vars
    BY <1>0, <1>7 DEF vars, PackedBlocks, kc, nc, mc
  <1>8. QED
    BY <1>1, <1>2, <1>3, <1>4, <1>5, <1>6, <1>7 DEF Next

\* An offset of a matrix, by its row and column.
LEMMA OffsetOf ==
    ASSUME NEW rows \in Nat, NEW w \in Nat, NEW x \in 0..rows*w-1
    PROVE  x \div w \in 0..rows-1 /\ x % w \in 0..w-1
  <1>1. PICK r \in 0..rows-1, y \in 0..w-1 : x = r * w + y
    BY CellOf
  <1>2. x \div w = r /\ x % w = y
    BY <1>1, RowAndColumn
  <1>3. QED
    BY <1>1, <1>2

\* What is packed is of A and of B.
LEMMA PackedInRangeNext ==
    Typed /\ Accepted /\ Loops /\ PackedInRange /\ [Next]_vars => PackedInRange'
  <1> SUFFICES ASSUME Typed, Accepted, Loops, PackedInRange, [Next]_vars
               PROVE  PackedInRange'
    OBVIOUS
  <1>0. params' = params
    BY SameArguments
  <1>1. CASE packedA' = packedA /\ packedB' = packedB
    BY <1>0, <1>1 DEF PackedInRange, Size
  <1>2. CASE PackB /\ jc < N /\ kb < K /\ packedA' = packedA
             /\ packedB' = [x \in 0..kc*nc-1 |->
                              (kb + x \div nc) * N + jc + (x % nc)]
    <2>1. /\ Valid /\ Batch = 1 /\ N \in Nat /\ K \in Nat
          /\ Size(params.b) = (Batch * K) * N
          /\ kb \in Nat /\ jc \in Nat
      BY <1>2, Extents DEF PackB, Accepted, Typed, Kernels
    <2>2. kc \in Nat /\ kb + kc <= K /\ nc \in Nat /\ jc + nc <= N
      BY <1>2, <2>1, BlockSizes
    <2>3. ASSUME NEW x \in 0..kc*nc-1
          PROVE  (kb + x \div nc) * N + jc + (x % nc) < Size(params.b)
      <3>1. x \div nc \in 0..kc-1 /\ x % nc \in 0..nc-1
        BY <2>2, OffsetOf
      <3>2. PICK r \in 0..K-1, y \in 0..N-1 :
              r = kb + x \div nc /\ y = jc + (x % nc)
        <4>1. PICK q, w : q = x \div nc /\ w = x % nc
          OBVIOUS
        <4>2. kb + q \in 0..K-1 /\ jc + w \in 0..N-1
          BY <2>1, <2>2, <3>1, <4>1
        <4>3. QED
          BY <4>1, <4>2
      <3>3. r * N + y \in 0..K*N-1 /\ r * N \in Nat /\ K * N \in Nat
        BY <2>1, CellInMatrix, NextRowAt
      <3>4. (kb + x \div nc) * N + jc + (x % nc) = r * N + y
        BY <2>1, <3>1, <3>2, <3>3
      <3>5. Size(params.b) = K * N
        BY <2>1
      <3>6. QED
        BY <3>3, <3>4, <3>5
    <2>4. QED
      BY <1>0, <1>2, <2>3 DEF PackedInRange, Size
  <1>3. CASE PackA /\ ic < M /\ packedB' = packedB
             /\ packedA' = [x \in 0..mc*kc-1 |->
                              (ic + (x % mc)) * K + kb + (x \div mc)]
    <2>1. /\ Valid /\ Batch = 1 /\ M \in Nat /\ K \in Nat
          /\ Size(params.a) = (Batch * M) * K
          /\ kb \in Nat /\ ic \in Nat /\ jc < N /\ kb < K
      BY <1>3, Extents DEF PackA, Accepted, Loops, Typed, Kernels
    <2>2. kc \in Nat /\ kb + kc <= K /\ mc \in Nat /\ ic + mc <= M
      BY <1>3, <2>1, BlockSizes
    <2>3. ASSUME NEW x \in 0..mc*kc-1
          PROVE  (ic + (x % mc)) * K + kb + (x \div mc) < Size(params.a)
      <3>1. x \div mc \in 0..kc-1 /\ x % mc \in 0..mc-1
        <4>1. mc * kc = kc * mc
          BY <2>2
        <4>2. QED
          BY <2>2, <4>1, OffsetOf
      <3>2. PICK r \in 0..M-1, y \in 0..K-1 :
              r = ic + (x % mc) /\ y = kb + (x \div mc)
        <4>1. PICK q, w : q = x \div mc /\ w = x % mc
          OBVIOUS
        <4>2. ic + w \in 0..M-1 /\ kb + q \in 0..K-1
          BY <2>1, <2>2, <3>1, <4>1
        <4>3. QED
          BY <4>1, <4>2
      <3>3. r * K + y \in 0..M*K-1 /\ r * K \in Nat /\ M * K \in Nat
        BY <2>1, CellInMatrix, NextRowAt
      <3>4. (ic + (x % mc)) * K + kb + (x \div mc) = r * K + y
        BY <2>1, <3>1, <3>2, <3>3
      <3>5. Size(params.a) = M * K
        BY <2>1
      <3>6. QED
        BY <3>3, <3>4, <3>5
    <2>4. QED
      BY <1>0, <1>3, <2>3 DEF PackedInRange, Size
  <1>4. QED
    <2>1. CASE Refuse \/ Reference \/ Avx2
      BY <1>1, <2>1 DEF Refuse, Reference, Avx2, Return, Enter, blockVars
    <2>2. CASE RefLoop \/ BatchedLoop \/ RowLoop
      BY <1>1, <2>2 DEF RefLoop, BatchedLoop, RowLoop, Return, blockVars
    <2>3. CASE PackB
      BY <1>1, <1>2, <2>3 DEF PackB, Return, blockVars
    <2>4. CASE PackA
      BY <1>1, <1>3, <2>4 DEF PackA
    <2>5. CASE MacroKernel
      BY <1>1, <2>5 DEF MacroKernel, blockVars
    <2>6. CASE Throw \/ UNCHANGED vars
      BY <1>1, <2>6 DEF Throw, vars, blockVars
    <2>7. QED
      BY <2>1, <2>2, <2>3, <2>4, <2>5, <2>6 DEF Next

-----------------------------------------------------------------------------
(* Progress of the loops over rows *)

\* The output keeps its elements when its domain stays.
LEMMA DomainKept ==
    ASSUME SameElements, [Next]_vars, DOMAIN c' = DOMAIN c
    PROVE  SameElements'
  BY SameArguments DEF SameElements, Size

\* What an element has received it has as long as the output stays.
LEMMA StillReceived ==
    ASSUME c' = c
    PROVE  \A b, m, x, count : Received(b, m, x, count) => Holds(c', b, m, x, count)
  BY DEF Received, Holds

\* The reference loops: row i of batch h has p products.
LEMMA RefProgress ==
    ASSUME IInv, RefLoop
    PROVE  SameElements' /\ Progress'
  <1> USE DEF IInv
  <1>1. /\ Batch' = Batch /\ M' = M /\ K' = K /\ N' = N /\ [Next]_vars
    BY SameArguments DEF Next
  <1>2. /\ Valid /\ pc = "ref" /\ status = "none"
        /\ Batch \in Nat /\ M \in Nat /\ K \in Nat /\ N \in Nat
        /\ h \in Nat /\ i \in Nat /\ p \in Nat /\ i <= M
    <2>1. Valid /\ pc = "ref" /\ status = "none"
      BY DEF RefLoop, Accepted, Typed, Kernels
    <2>2. QED
      BY <2>1, Extents DEF Typed, Loops
  <1>3. ASSUME NEW b \in 0..Batch-1, NEW m \in 0..M-1, NEW x \in 0..N-1
        PROVE  /\ RefCount(b, m) \in Nat
               /\ Received(b, m, x, RefCount(b, m))
    BY <1>2 DEF Progress, RefCount
  <1>4. CASE h = Batch /\ Return("ok")
    <2>1. c' = c /\ pc' = "return"
      BY <1>4 DEF Return
    <2>2. ASSUME NEW b \in 0..Batch-1, NEW m \in 0..M-1, NEW x \in 0..N-1
          PROVE  Received(b, m, x, K)'
      <3>1. RefCount(b, m) = K
        BY <1>2, <1>4 DEF RefCount
      <3>2. Holds(c', b, m, x, K)
        BY <1>3, <2>1, <3>1, StillReceived
      <3>3. QED
        BY <1>1, <3>2 DEF Received, Holds
    <2>3. Progress'
      BY <1>1, <2>1, <2>2 DEF Progress
    <2>4. QED
      BY <1>1, <2>1, <2>3, DomainKept
  <1>5. CASE /\ h < Batch /\ i = M /\ h' = h + 1 /\ i' = 0 /\ p' = p
             /\ c' = c /\ pc' = pc /\ status' = status
    <2>1. ASSUME NEW b \in 0..Batch-1, NEW m \in 0..M-1, NEW x \in 0..N-1
          PROVE  Received(b, m, x, RefCount(b, m))'
      <3>1. RefCount(b, m) = RefCount(b, m)'
        BY <1>1, <1>2, <1>5 DEF RefCount, Loops
      <3>2. Holds(c', b, m, x, RefCount(b, m)')
        BY <1>3, <1>5, <3>1, StillReceived
      <3>3. QED
        BY <1>1, <3>2 DEF Received, Holds
    <2>2. Progress'
      BY <1>1, <1>2, <1>5, <2>1 DEF Progress
    <2>3. QED
      BY <1>1, <1>5, <2>2, DomainKept
  <1>6. CASE /\ h < Batch /\ i < M /\ p = K /\ i' = i + 1 /\ p' = 0 /\ h' = h
             /\ c' = c /\ pc' = pc /\ status' = status
    <2>1. ASSUME NEW b \in 0..Batch-1, NEW m \in 0..M-1, NEW x \in 0..N-1
          PROVE  Received(b, m, x, RefCount(b, m))'
      <3>1. RefCount(b, m) = RefCount(b, m)'
        BY <1>1, <1>2, <1>6 DEF RefCount
      <3>2. Holds(c', b, m, x, RefCount(b, m)')
        BY <1>3, <1>6, <3>1, StillReceived
      <3>3. QED
        BY <1>1, <3>2 DEF Received, Holds
    <2>2. Progress'
      BY <1>1, <1>2, <1>6, <2>1 DEF Progress
    <2>3. QED
      BY <1>1, <1>6, <2>2, DomainKept
  <1>7. CASE /\ h < Batch /\ i < M /\ p < K /\ p' = p + 1 /\ h' = h /\ i' = i
             /\ c' = RowStep(i, p) /\ pc' = pc /\ status' = status
    <2>1. RowGiven(h, i, 0..N-1, p)
      <3>1. c' = AddRow(h * M + i, (h * M + i) * K + p, (h * K + p) * N, 0..N-1)
        BY <1>7 DEF RowStep, Columns
      <3>2. h \in 0..Batch-1 /\ i \in 0..M-1 /\ 0..N-1 \in SUBSET (0..N-1)
        BY <1>2, <1>7
      <3>3. QED
        BY <1>2, <3>1, <3>2, RowReceived
    <2>2. ASSUME NEW b \in 0..Batch-1, NEW m \in 0..M-1, NEW x \in 0..N-1
          PROVE  Received(b, m, x, RefCount(b, m))'
      <3>1. PICK count \in Nat : count = RefCount(b, m)
        BY <1>3
      <3>2. Received(b, m, x, count)
        BY <1>3, <3>1
      <3>3. b = h /\ m = i /\ x \in 0..N-1 => count = p
        BY <1>2, <3>1 DEF RefCount
      <3>4. PICK now :
              /\ now = IF b = h /\ m = i /\ x \in 0..N-1 THEN p + 1 ELSE count
              /\ Holds(c', b, m, x, now)
        BY <2>1, <3>2, <3>3 DEF RowGiven
      <3>5. now = RefCount(b, m)'
        BY <1>1, <1>2, <1>7, <3>1, <3>4 DEF RefCount
      <3>6. QED
        BY <1>1, <3>4, <3>5 DEF Received, Holds
    <2>3. Progress'
      BY <1>1, <1>2, <1>7, <2>2 DEF Progress
    <2>4. QED
      BY <1>1, <2>1, <2>3, DomainKept DEF RowGiven
  <1>8. QED
    BY <1>2, <1>4, <1>5, <1>6, <1>7 DEF RefLoop, callVars

\* The batched loops: the first i rows of batch h have one product more.
LEMMA BatchedProgress ==
    ASSUME IInv, BatchedLoop
    PROVE  SameElements' /\ Progress'
  <1> USE DEF IInv
  <1>1. /\ Batch' = Batch /\ M' = M /\ K' = K /\ N' = N /\ [Next]_vars
    BY SameArguments DEF Next
  <1>2. /\ Valid /\ pc = "batched" /\ status = "none"
        /\ Batch \in Nat /\ M \in Nat /\ K \in Nat /\ N \in Nat
        /\ h \in Nat /\ i \in Nat /\ p \in Nat /\ i <= M
    <2>1. Valid /\ pc = "batched" /\ status = "none"
      BY DEF BatchedLoop, Accepted, Typed, Kernels
    <2>2. QED
      BY <2>1, Extents DEF Typed, Loops
  <1>3. ASSUME NEW b \in 0..Batch-1, NEW m \in 0..M-1, NEW x \in 0..N-1
        PROVE  /\ BatchedCount(b, m) \in Nat
               /\ Received(b, m, x, BatchedCount(b, m))
    BY <1>2 DEF Progress, BatchedCount
  <1>4. CASE h = Batch /\ Return("ok")
    <2>1. c' = c /\ pc' = "return"
      BY <1>4 DEF Return
    <2>2. ASSUME NEW b \in 0..Batch-1, NEW m \in 0..M-1, NEW x \in 0..N-1
          PROVE  Received(b, m, x, K)'
      <3>1. BatchedCount(b, m) = K
        BY <1>2, <1>4 DEF BatchedCount
      <3>2. Holds(c', b, m, x, K)
        BY <1>3, <2>1, <3>1, StillReceived
      <3>3. QED
        BY <1>1, <3>2 DEF Received, Holds
    <2>3. Progress'
      BY <1>1, <2>1, <2>2 DEF Progress
    <2>4. QED
      BY <1>1, <2>1, <2>3, DomainKept
  <1>5. CASE /\ h < Batch /\ p = K /\ h' = h + 1 /\ p' = 0 /\ i' = i
             /\ c' = c /\ pc' = pc /\ status' = status
    <2>1. ASSUME NEW b \in 0..Batch-1, NEW m \in 0..M-1, NEW x \in 0..N-1
          PROVE  Received(b, m, x, BatchedCount(b, m))'
      <3>1. BatchedCount(b, m) = BatchedCount(b, m)'
        BY <1>1, <1>2, <1>5 DEF BatchedCount, Loops
      <3>2. Holds(c', b, m, x, BatchedCount(b, m)')
        BY <1>3, <1>5, <3>1, StillReceived
      <3>3. QED
        BY <1>1, <3>2 DEF Received, Holds
    <2>2. Progress'
      BY <1>1, <1>2, <1>5, <2>1 DEF Progress
    <2>3. QED
      BY <1>1, <1>5, <2>2, DomainKept
  <1>6. CASE /\ h < Batch /\ p < K /\ i = M /\ p' = p + 1 /\ i' = 0 /\ h' = h
             /\ c' = c /\ pc' = pc /\ status' = status
    <2>1. ASSUME NEW b \in 0..Batch-1, NEW m \in 0..M-1, NEW x \in 0..N-1
          PROVE  Received(b, m, x, BatchedCount(b, m))'
      <3>1. BatchedCount(b, m) = BatchedCount(b, m)'
        BY <1>1, <1>2, <1>6 DEF BatchedCount
      <3>2. Holds(c', b, m, x, BatchedCount(b, m)')
        BY <1>3, <1>6, <3>1, StillReceived
      <3>3. QED
        BY <1>1, <3>2 DEF Received, Holds
    <2>2. Progress'
      BY <1>1, <1>2, <1>6, <2>1 DEF Progress
    <2>3. QED
      BY <1>1, <1>6, <2>2, DomainKept
  <1>7. CASE /\ h < Batch /\ p < K /\ i < M /\ i' = i + 1 /\ h' = h /\ p' = p
             /\ c' = RowStep(i, p) /\ pc' = pc /\ status' = status
    <2>1. RowGiven(h, i, 0..N-1, p)
      <3>1. c' = AddRow(h * M + i, (h * M + i) * K + p, (h * K + p) * N, 0..N-1)
        BY <1>7 DEF RowStep, Columns
      <3>2. h \in 0..Batch-1 /\ i \in 0..M-1 /\ 0..N-1 \in SUBSET (0..N-1)
        BY <1>2, <1>7
      <3>3. QED
        BY <1>2, <3>1, <3>2, RowReceived
    <2>2. ASSUME NEW b \in 0..Batch-1, NEW m \in 0..M-1, NEW x \in 0..N-1
          PROVE  Received(b, m, x, BatchedCount(b, m))'
      <3>1. PICK count \in Nat : count = BatchedCount(b, m)
        BY <1>3
      <3>2. Received(b, m, x, count)
        BY <1>3, <3>1
      <3>3. b = h /\ m = i /\ x \in 0..N-1 => count = p
        BY <1>2, <3>1 DEF BatchedCount
      <3>4. PICK now :
              /\ now = IF b = h /\ m = i /\ x \in 0..N-1 THEN p + 1 ELSE count
              /\ Holds(c', b, m, x, now)
        BY <2>1, <3>2, <3>3 DEF RowGiven
      <3>5. now = BatchedCount(b, m)'
        BY <1>1, <1>2, <1>7, <3>1, <3>4 DEF BatchedCount
      <3>6. QED
        BY <1>1, <3>4, <3>5 DEF Received, Holds
    <2>3. Progress'
      BY <1>1, <1>2, <1>7, <2>2 DEF Progress
    <2>4. QED
      BY <1>1, <2>1, <2>3, DomainKept DEF RowGiven
  <1>8. QED
    BY <1>2, <1>4, <1>5, <1>6, <1>7 DEF BatchedLoop, callVars

\* The streaming kernel: the first j columns have one product more.
LEMMA RowProgress ==
    ASSUME IInv, RowLoop
    PROVE  SameElements' /\ Progress'
  <1> USE DEF IInv
  <1>1. /\ Batch' = Batch /\ M' = M /\ K' = K /\ N' = N /\ [Next]_vars
    BY SameArguments DEF Next
  <1>2. /\ Valid /\ pc = "row" /\ status = "none"
        /\ Batch = 1 /\ M = 1 /\ K \in Nat /\ N \in Nat
        /\ p \in Nat /\ p <= K /\ j \in Nat /\ j <= N /\ (p = K => j = 0)
    <2>1. Valid /\ pc = "row" /\ status = "none" /\ Ranked(2) /\ M = 1
      BY DEF RowLoop, Accepted, Typed, Kernels
    <2>2. QED
      BY <2>1, Extents DEF Typed, Loops
  <1>3. ASSUME NEW b \in 0..Batch-1, NEW m \in 0..M-1, NEW x \in 0..N-1
        PROVE  /\ RowCount(x) \in Nat
               /\ Received(b, m, x, RowCount(x))
    BY <1>2 DEF Progress, RowCount
  <1>4. CASE p = K /\ Return("ok")
    <2>1. c' = c /\ pc' = "return"
      BY <1>4 DEF Return
    <2>2. ASSUME NEW b \in 0..Batch-1, NEW m \in 0..M-1, NEW x \in 0..N-1
          PROVE  Received(b, m, x, K)'
      <3>1. RowCount(x) = K
        BY <1>2, <1>4 DEF RowCount
      <3>2. Holds(c', b, m, x, K)
        BY <1>3, <2>1, <3>1, StillReceived
      <3>3. QED
        BY <1>1, <3>2 DEF Received, Holds
    <2>3. Progress'
      BY <1>1, <2>1, <2>2 DEF Progress
    <2>4. QED
      BY <1>1, <2>1, <2>3, DomainKept
  <1>5. CASE /\ p < K /\ j >= N /\ p' = p + 1 /\ j' = 0
             /\ c' = c /\ pc' = pc /\ status' = status
    <2>1. ASSUME NEW b \in 0..Batch-1, NEW m \in 0..M-1, NEW x \in 0..N-1
          PROVE  Received(b, m, x, RowCount(x))'
      <3>1. RowCount(x) = RowCount(x)'
        BY <1>2, <1>5 DEF RowCount
      <3>2. Holds(c', b, m, x, RowCount(x)')
        BY <1>3, <1>5, <3>1, StillReceived
      <3>3. QED
        BY <1>1, <3>2 DEF Received, Holds
    <2>2. Progress'
      BY <1>1, <1>2, <1>5, <2>1 DEF Progress
    <2>3. QED
      BY <1>1, <1>5, <2>2, DomainKept
  <1>6. ASSUME NEW width \in Nat, j + width <= N, p < K,
               c' = AddRow(0, p, p * N, j..j+width-1),
               j' = j + width, p' = p, pc' = pc, status' = status
        PROVE  SameElements' /\ Progress'
    <2>1. RowGiven(0, 0, j..j+width-1, p)
      <3>1. 0 * M + 0 = 0 /\ (0 * M + 0) * K + p = p /\ (0 * K + p) * N = p * N
        BY <1>2
      <3>2. c' = AddRow(0 * M + 0, (0 * M + 0) * K + p, (0 * K + p) * N,
                        j..j+width-1)
        BY <1>6, <3>1
      <3>3. /\ 0 \in 0..Batch-1 /\ 0 \in 0..M-1
            /\ j..j+width-1 \in SUBSET (0..N-1)
        BY <1>2, <1>6
      <3>4. QED
        BY <1>2, <3>2, <3>3, RowReceived
    <2>2. ASSUME NEW b \in 0..Batch-1, NEW m \in 0..M-1, NEW x \in 0..N-1
          PROVE  Received(b, m, x, RowCount(x))'
      <3>1. PICK count \in Nat : count = RowCount(x)
        BY <1>3
      <3>2. Received(b, m, x, count)
        BY <1>3, <3>1
      <3>3. b = 0 /\ m = 0 /\ x \in j..j+width-1 => count = p
        BY <1>2, <3>1 DEF RowCount
      <3>4. PICK now :
              /\ now = IF b = 0 /\ m = 0 /\ x \in j..j+width-1
                         THEN p + 1 ELSE count
              /\ Holds(c', b, m, x, now)
        BY <2>1, <3>2, <3>3 DEF RowGiven
      <3>5. now = RowCount(x)'
        BY <1>1, <1>2, <1>6, <3>1, <3>4 DEF RowCount
      <3>6. QED
        BY <1>1, <3>4, <3>5 DEF Received, Holds
    <2>3. Progress'
      BY <1>1, <1>2, <1>6, <2>2 DEF Progress
    <2>4. QED
      BY <1>1, <2>1, <2>3, DomainKept DEF RowGiven
  <1>7. CASE /\ p < K /\ j < VectorEnd /\ j' = j + Lanes /\ p' = p
             /\ c' = AddRow(0, p, p * N, j..j+Lanes-1)
             /\ pc' = pc /\ status' = status
    <2>1. PICK g \in Nat : j = g * Lanes
      BY <1>2, <1>7 DEF Loops
    <2>2. j + Lanes <= VectorEnd /\ VectorEnd <= N
      BY <1>2, <1>7, <2>1, RegisterFits
    <2>3. Lanes \in Nat /\ VectorEnd \in Int
      BY <1>2, MatMulAssumption DEF VectorEnd
    <2>4. j + Lanes <= N
      BY <1>2, <2>2, <2>3
    <2>5. QED
      BY <1>6, <1>7, <2>3, <2>4
  <1>8. CASE /\ p < K /\ j >= VectorEnd /\ j < N /\ j' = j + 1 /\ p' = p
             /\ c' = AddRow(0, p, p * N, {j}) /\ pc' = pc /\ status' = status
    <2>1. {j} = j..j+1-1 /\ j + 1 <= N
      BY <1>2, <1>8
    <2>2. c' = AddRow(0, p, p * N, j..j+1-1)
      BY <1>8, <2>1
    <2>3. QED
      BY <1>6, <1>8, <2>1, <2>2
  <1>9. QED
    BY <1>2, <1>4, <1>5, <1>7, <1>8 DEF RowLoop, callVars

-----------------------------------------------------------------------------
(* Progress of the blocked kernel *)

\* Between the tiles nothing is stored: the counts change their form only.
LEMMA PackBProgress ==
    ASSUME IInv, PackB
    PROVE  SameElements' /\ Progress'
  <1> USE DEF IInv
  <1>1. /\ Batch' = Batch /\ M' = M /\ K' = K /\ N' = N /\ [Next]_vars
    BY SameArguments DEF Next
  <1>2. /\ Valid /\ pc = "packB" /\ status = "none"
        /\ M \in Nat /\ K \in Nat /\ N \in Nat
        /\ jc \in Nat /\ kb \in Nat /\ KC \in Nat \ {0} /\ NC \in Nat \ {0}
    <2>1. Valid /\ pc = "packB" /\ status = "none"
      BY DEF PackB, Accepted, Typed, Kernels
    <2>2. QED
      BY <2>1, Extents, MatMulAssumption DEF Typed
  <1>3. ASSUME NEW b \in 0..Batch-1, NEW m \in 0..M-1, NEW x \in 0..N-1
        PROVE  Received(b, m, x, BlockCount(x, Least(kb, K)))
    BY <1>2 DEF Progress
  <1>4. c' = c
    BY DEF PackB, Return
  <1>5. CASE jc >= N /\ Return("ok")
    <2>1. ASSUME NEW b \in 0..Batch-1, NEW m \in 0..M-1, NEW x \in 0..N-1
          PROVE  Received(b, m, x, K)'
      <3>1. BlockCount(x, Least(kb, K)) = K
        BY <1>2, <1>5 DEF BlockCount
      <3>2. Holds(c', b, m, x, K)
        BY <1>3, <1>4, <3>1, StillReceived
      <3>3. QED
        BY <1>1, <3>2 DEF Received, Holds
    <2>2. Progress'
      BY <1>1, <1>5, <2>1 DEF Progress, Return
    <2>3. QED
      BY <1>1, <1>4, <2>2, DomainKept
  <1>6. CASE /\ jc < N /\ kb >= K /\ jc' = jc + NC /\ kb' = 0
             /\ pc' = pc /\ status' = status
    <2>1. ASSUME NEW b \in 0..Batch-1, NEW m \in 0..M-1, NEW x \in 0..N-1
          PROVE  Received(b, m, x, BlockCount(x, Least(kb, K)))'
      <3>1. BlockCount(x, Least(kb, K)) = BlockCount(x, Least(kb, K))'
        BY <1>1, <1>2, <1>6 DEF BlockCount, Least
      <3>2. Holds(c', b, m, x, BlockCount(x, Least(kb, K))')
        BY <1>3, <1>4, <3>1, StillReceived
      <3>3. QED
        BY <1>1, <3>2 DEF Received, Holds
    <2>2. Progress'
      BY <1>1, <1>2, <1>6, <2>1 DEF Progress
    <2>3. QED
      BY <1>1, <1>4, <2>2, DomainKept
  <1>7. CASE /\ jc < N /\ kb < K /\ jc' = jc /\ kb' = kb /\ ic' = 0
             /\ pc' = "packA" /\ status' = status
    <2>1. ASSUME NEW b \in 0..Batch-1, NEW m \in 0..M-1, NEW x \in 0..N-1
          PROVE  Received(b, m, x,
                   BlockCount(x, IF m < ic THEN kb + kc ELSE kb))'
      <3>1. BlockCount(x, Least(kb, K))
              = BlockCount(x, IF m < ic THEN kb + kc ELSE kb)'
        BY <1>1, <1>2, <1>7 DEF BlockCount, Least
      <3>2. Holds(c', b, m, x, BlockCount(x, IF m < ic THEN kb + kc ELSE kb)')
        BY <1>3, <1>4, <3>1, StillReceived
      <3>3. QED
        BY <1>1, <3>2 DEF Received, Holds
    <2>2. Progress'
      BY <1>1, <1>2, <1>7, <2>1 DEF Progress
    <2>3. QED
      BY <1>1, <1>4, <2>2, DomainKept
  <1>8. QED
    BY <1>2, <1>5, <1>6, <1>7 DEF PackB, callVars

\* A block of K is done for every row when the last rows are.
LEMMA PackAProgress ==
    ASSUME IInv, PackA
    PROVE  SameElements' /\ Progress'
  <1> USE DEF IInv
  <1>1. /\ Batch' = Batch /\ M' = M /\ K' = K /\ N' = N /\ [Next]_vars
    BY SameArguments DEF Next
  <1>2. /\ Valid /\ pc = "packA" /\ status = "none" /\ jc < N /\ kb < K
        /\ M \in Nat /\ K \in Nat /\ N \in Nat
        /\ jc \in Nat /\ kb \in Nat /\ ic \in Nat
        /\ KC \in Nat \ {0} /\ NC \in Nat \ {0}
    <2>1. Valid /\ pc = "packA" /\ status = "none" /\ jc < N /\ kb < K
      BY DEF PackA, Accepted, Typed, Kernels, Loops
    <2>2. QED
      BY <2>1, Extents, MatMulAssumption DEF Typed
  <1>3. ASSUME NEW b \in 0..Batch-1, NEW m \in 0..M-1, NEW x \in 0..N-1
        PROVE  Received(b, m, x, BlockCount(x, IF m < ic THEN kb + kc ELSE kb))
    BY <1>2 DEF Progress
  <1>4. c' = c
    BY DEF PackA
  <1>5. CASE /\ ic >= M /\ kb' = kb + KC /\ jc' = jc
             /\ pc' = "packB" /\ status' = status
    <2>1. ASSUME NEW b \in 0..Batch-1, NEW m \in 0..M-1, NEW x \in 0..N-1
          PROVE  Received(b, m, x, BlockCount(x, Least(kb, K)))'
      <3>1. kb + kc = Least(kb + KC, K)
        BY <1>2, BlockSizes
      <3>2. BlockCount(x, IF m < ic THEN kb + kc ELSE kb)
              = BlockCount(x, Least(kb, K))'
        BY <1>1, <1>2, <1>5, <3>1 DEF BlockCount, Least
      <3>3. Holds(c', b, m, x, BlockCount(x, Least(kb, K))')
        BY <1>3, <1>4, <3>2, StillReceived
      <3>4. QED
        BY <1>1, <3>3 DEF Received, Holds
    <2>2. Progress'
      BY <1>1, <1>2, <1>5, <2>1 DEF Progress
    <2>3. QED
      BY <1>1, <1>4, <2>2, DomainKept
  <1>6. CASE /\ ic < M /\ i' = 0 /\ j' = 0 /\ jc' = jc /\ kb' = kb /\ ic' = ic
             /\ pc' = "tile" /\ status' = status
    <2>0. kc' = kc /\ nc' = nc /\ mc' = mc
      BY <1>1, <1>6 DEF kc, nc, mc
    <2>1. ASSUME NEW b \in 0..Batch-1, NEW m \in 0..M-1, NEW x \in 0..N-1
          PROVE  Received(b, m, x,
                   BlockCount(x, IF TileDone(m, x) THEN kb + kc ELSE kb))'
      <3>1. x < jc \/ (TileDone(m, x)' <=> m < ic)
        BY <1>2, <1>6, <2>0 DEF TileDone
      <3>2. BlockCount(x, IF m < ic THEN kb + kc ELSE kb)
              = BlockCount(x, IF TileDone(m, x) THEN kb + kc ELSE kb)'
        BY <1>1, <1>2, <1>6, <2>0, <3>1 DEF BlockCount
      <3>3. Holds(c', b, m, x,
                  BlockCount(x, IF TileDone(m, x) THEN kb + kc ELSE kb)')
        BY <1>3, <1>4, <3>2, StillReceived
      <3>4. QED
        BY <1>1, <3>3 DEF Received, Holds
    <2>2. Progress'
      BY <1>1, <1>2, <1>6, <2>1 DEF Progress
    <2>3. QED
      BY <1>1, <1>4, <2>2, DomainKept
  <1>7. QED
    BY <1>2, <1>5, <1>6 DEF PackA, callVars

\* A tile gives each of its elements the products of the block of K.
LEMMA TileProgress ==
    ASSUME IInv, MacroKernel
    PROVE  SameElements' /\ Progress'
  <1> USE DEF IInv
  <1>1. /\ Batch' = Batch /\ M' = M /\ K' = K /\ N' = N /\ [Next]_vars
    BY SameArguments DEF Next
  <1>2. /\ Valid /\ pc = "tile" /\ status = "none"
        /\ jc < N /\ kb < K /\ ic < M /\ Batch = 1
        /\ M \in Nat /\ K \in Nat /\ N \in Nat
        /\ jc \in Nat /\ kb \in Nat /\ ic \in Nat /\ i \in Nat /\ j \in Nat
        /\ NC \in Nat \ {0} /\ MR \in Nat \ {0} /\ NR \in Nat \ {0}
        /\ MC \in Nat \ {0}
    <2>1. /\ Valid /\ pc = "tile" /\ status = "none"
          /\ jc < N /\ kb < K /\ ic < M /\ Ranked(2)
      BY DEF MacroKernel, Accepted, Typed, Kernels, Loops
    <2>2. QED
      BY <2>1, Extents, MatMulAssumption DEF Typed
  <1>3. /\ kc \in Nat /\ nc \in Nat /\ mc \in Nat
        /\ jc + nc <= N /\ ic + mc <= M /\ mc <= MC
        /\ \A x \in 0..N-1 : x < jc + NC => x < jc + nc
        /\ \A m \in 0..M-1 : m < ic + MC => m < ic + mc
    BY <1>2, BlockSizes
  <1>4. ASSUME NEW b \in 0..Batch-1, NEW m \in 0..M-1, NEW x \in 0..N-1
        PROVE  Received(b, m, x,
                 BlockCount(x, IF TileDone(m, x) THEN kb + kc ELSE kb))
    BY <1>2 DEF Progress
  <1>5. CASE /\ i >= mc /\ ic' = ic + MC /\ jc' = jc /\ kb' = kb /\ c' = c
             /\ pc' = "packA" /\ status' = status
    <2>0. kc' = kc
      BY <1>1, <1>5 DEF kc
    <2>1. ASSUME NEW b \in 0..Batch-1, NEW m \in 0..M-1, NEW x \in 0..N-1
          PROVE  Received(b, m, x,
                   BlockCount(x, IF m < ic THEN kb + kc ELSE kb))'
      <3>1. TileDone(m, x) <=> m < ic + MC
        <4>1. m < ic + MC => m < ic + mc
          BY <1>3
        <4>2. QED
          BY <1>2, <1>3, <1>5, <4>1 DEF TileDone
      <3>2. BlockCount(x, IF TileDone(m, x) THEN kb + kc ELSE kb)
              = BlockCount(x, IF m < ic THEN kb + kc ELSE kb)'
        BY <1>1, <1>2, <1>5, <2>0, <3>1 DEF BlockCount
      <3>3. Holds(c', b, m, x, BlockCount(x, IF m < ic THEN kb + kc ELSE kb)')
        BY <1>4, <1>5, <3>2, StillReceived
      <3>4. QED
        BY <1>1, <3>3 DEF Received, Holds
    <2>2. Progress'
      BY <1>1, <1>2, <1>5, <2>1 DEF Progress
    <2>3. QED
      BY <1>1, <1>5, <2>2, DomainKept
  <1>6. CASE /\ i < mc /\ j >= nc /\ i' = i + MR /\ j' = 0 /\ c' = c
             /\ jc' = jc /\ kb' = kb /\ ic' = ic /\ pc' = pc /\ status' = status
    <2>0. kc' = kc /\ mc' = mc
      BY <1>1, <1>6 DEF kc, mc
    <2>1. ASSUME NEW b \in 0..Batch-1, NEW m \in 0..M-1, NEW x \in 0..N-1
          PROVE  Received(b, m, x,
                   BlockCount(x, IF TileDone(m, x) THEN kb + kc ELSE kb))'
      <3>1. ASSUME ~(x < jc), x < jc + NC
            PROVE  TileDone(m, x) <=> TileDone(m, x)'
        <4>1. x < jc + nc
          BY <1>3, <3>1
        <4>2. QED
          BY <1>2, <1>3, <1>6, <2>0, <3>1, <4>1 DEF TileDone
      <3>2. BlockCount(x, IF TileDone(m, x) THEN kb + kc ELSE kb)
              = BlockCount(x, IF TileDone(m, x) THEN kb + kc ELSE kb)'
        BY <1>1, <1>2, <1>6, <2>0, <3>1 DEF BlockCount
      <3>3. Holds(c', b, m, x,
                  BlockCount(x, IF TileDone(m, x) THEN kb + kc ELSE kb)')
        BY <1>4, <1>6, <3>2, StillReceived
      <3>4. QED
        BY <1>1, <3>3 DEF Received, Holds
    <2>2. Progress'
      BY <1>1, <1>2, <1>6, <2>1 DEF Progress
    <2>3. QED
      BY <1>1, <1>6, <2>2, DomainKept
  <1>7. CASE /\ i < mc /\ j < nc
             /\ c' = Tile(TileShape(Least(MR, mc - i), Least(NR, nc - j)))
             /\ j' = j + NR /\ i' = i /\ jc' = jc /\ kb' = kb /\ ic' = ic
             /\ pc' = pc /\ status' = status
    <2>0. kc' = kc /\ mc' = mc
      BY <1>1, <1>7 DEF kc, mc
    <2>1. TileChanged
      BY <1>2, <1>7, TileStored
    <2>2. ASSUME NEW b \in 0..Batch-1, NEW m \in 0..M-1, NEW x \in 0..N-1
          PROVE  Received(b, m, x,
                   BlockCount(x, IF TileDone(m, x) THEN kb + kc ELSE kb))'
      <3>1. b = 0 /\ b * M + m = m
        BY <1>2
      <3>2. PICK before : /\ before = BlockCount(x, IF TileDone(m, x)
                                                      THEN kb + kc ELSE kb)
                          /\ c[m * N + x] = Sum(N, K, 0, m, x, before)
        BY <1>4, <3>1 DEF Received, Holds
      <3>3. PICK after : after = BlockCount(x, IF TileDone(m, x) THEN kb + kc
                                                                 ELSE kb)'
        OBVIOUS
      <3>4. CASE InTile(m, x)
        <4>1. /\ ic + i <= m /\ m < ic + i + MR /\ m < ic + mc
              /\ jc + j <= x /\ x < jc + j + NR /\ x < jc + nc /\ x < jc + NC
          BY <1>2, <1>3, <1>7, <3>4, BlockSizes DEF InTile, Least
        <4>2. ~TileDone(m, x) /\ TileDone(m, x)'
          BY <1>2, <1>3, <1>7, <2>0, <4>1 DEF TileDone
        <4>3. before = kb /\ after = kb + kc
          BY <1>1, <1>2, <1>7, <2>0, <3>2, <3>3, <4>1, <4>2 DEF BlockCount
        <4>4. c'[m * N + x] = c[m * N + x] \o BlockProducts(m, x)
          BY <2>1, <3>4 DEF TileChanged
        <4>5. c'[m * N + x] = Sum(N, K, 0, m, x, kb + kc)
          <5>1. PICK more \in Nat : more = kc
            BY <1>3
          <5>2. Sum(N, K, 0, m, x, kb) \o Stretch(N, K, 0, m, x, kb, more)
                  = Sum(N, K, 0, m, x, kb + more)
            BY <1>2, SumGrowsBy
          <5>3. QED
            BY <3>2, <4>3, <4>4, <5>1, <5>2 DEF BlockProducts
        <4>6. QED
          BY <1>1, <3>1, <3>3, <4>3, <4>5 DEF Received, Holds
      <3>5. CASE ~InTile(m, x)
        <4>1. ASSUME ~(x < jc), x < jc + NC
              PROVE  TileDone(m, x) <=> TileDone(m, x)'
          <5>1. x < jc + nc
            BY <1>3, <4>1
          <5>2. ~(/\ m >= ic + i /\ m < ic + i + MR /\ m < ic + mc
                  /\ x >= jc + j /\ x < jc + j + NR)
            BY <1>2, <1>3, <1>7, <3>5, <5>1 DEF InTile, Least
          <5>3. QED
            BY <1>2, <1>3, <1>7, <2>0, <4>1, <5>1, <5>2 DEF TileDone
        <4>2. after = before
          BY <1>1, <1>2, <1>7, <2>0, <3>2, <3>3, <4>1 DEF BlockCount
        <4>3. c'[m * N + x] = c[m * N + x]
          BY <2>1, <3>5 DEF TileChanged
        <4>4. QED
          BY <1>1, <3>1, <3>2, <3>3, <4>2, <4>3 DEF Received, Holds
      <3>6. QED
        BY <3>4, <3>5
    <2>3. Progress'
      BY <1>1, <1>2, <1>7, <2>2 DEF Progress
    <2>4. QED
      BY <1>1, <2>1, <2>3, DomainKept DEF TileChanged
  <1>8. QED
    BY <1>2, <1>5, <1>6, <1>7 DEF MacroKernel, callVars, blockVars

\* An exception leaves what was added.
LEMMA ThrowProgress ==
    ASSUME IInv, Throw
    PROVE  SameElements' /\ Progress'
  <1> USE DEF IInv
  <1>1. /\ Batch' = Batch /\ M' = M /\ K' = K /\ N' = N /\ [Next]_vars
    BY SameArguments DEF Next
  <1>2. /\ Valid /\ pc \in {"packB", "packA"} /\ status = "none"
        /\ pc' = "threw" /\ status' = status /\ c' = c
        /\ M \in Nat /\ K \in Nat /\ N \in Nat /\ kb \in Nat /\ jc \in Nat
        /\ pc = "packA" => jc < N /\ kb < K
    <2>1. /\ Valid /\ pc \in {"packB", "packA"} /\ status = "none"
          /\ pc' = "threw" /\ status' = status /\ c' = c
      BY DEF Throw, Accepted, Typed, Kernels, callVars
    <2>2. QED
      BY <2>1, Extents DEF Typed, Loops
  <1>3. ASSUME NEW b \in 0..Batch-1, NEW m \in 0..M-1, NEW x \in 0..N-1
        PROVE  (\E count \in 0..K : Received(b, m, x, count))'
    <2>1. PICK count \in 0..K : Received(b, m, x, count)
      <3>1. CASE pc = "packB"
        <4>1. Received(b, m, x, BlockCount(x, Least(kb, K)))
          BY <3>1 DEF Progress
        <4>2. BlockCount(x, Least(kb, K)) \in 0..K
          BY <1>2 DEF BlockCount, Least
        <4>3. QED
          BY <4>1, <4>2
      <3>2. CASE pc = "packA"
        <4>1. Received(b, m, x, BlockCount(x, IF m < ic THEN kb + kc ELSE kb))
          BY <3>2 DEF Progress
        <4>2. kc \in Nat /\ kb + kc <= K
          BY <1>2, <3>2, BlockSizes
        <4>3. BlockCount(x, IF m < ic THEN kb + kc ELSE kb) \in 0..K
          BY <1>2, <4>2 DEF BlockCount
        <4>4. QED
          BY <4>1, <4>3
      <3>3. QED
        BY <1>2, <3>1, <3>2
    <2>2. Holds(c', b, m, x, count)
      BY <1>2, <2>1, StillReceived
    <2>3. QED
      BY <1>1, <2>2 DEF Received, Holds
  <1>4. Progress'
    BY <1>1, <1>2, <1>3 DEF Progress
  <1>5. QED
    BY <1>1, <1>2, <1>4, DomainKept

\* A kernel is entered with an output that has received nothing.
LEMMA EntryProgress ==
    ASSUME IInv, Refuse \/ Reference \/ Avx2
    PROVE  SameElements' /\ Progress'
  <1> USE DEF IInv
  <1>1. /\ Batch' = Batch /\ M' = M /\ K' = K /\ N' = N /\ [Next]_vars
        /\ (Valid' <=> Valid)
    BY SameArguments DEF Next
  <1>2. /\ pc = "infer" /\ c' = c
        /\ h' = 0 /\ i' = 0 /\ p' = 0 /\ j' = 0 /\ jc' = 0 /\ kb' = 0
        /\ \/ pc' = "return" /\ status' \in Errors
           \/ pc' \in {"ref", "batched", "row", "packB"} /\ status' # "ok"
    BY DEF Refuse, Reference, Avx2, Return, Enter, Accepted, callVars, blockVars,
           Typed, Errors
  <1>3. CASE pc' = "return" /\ status' \in Errors
    <2>1. Progress'
      BY <1>3 DEF Progress, Errors
    <2>2. QED
      BY <1>1, <1>2, <2>1, DomainKept
  <1>4. CASE pc' \in {"ref", "batched", "row", "packB"} /\ status' # "ok"
    <2>1. Accepted'
      BY <1>1, AcceptedNext
    <2>2. Valid
      BY <1>1, <1>4, <2>1 DEF Accepted, Kernels
    <2>3. Batch \in Nat /\ M \in Nat /\ K \in Nat /\ N \in Nat
      BY <2>2, Extents DEF Typed
    <2>4. NC \in Nat \ {0}
      BY MatMulAssumption
    <2>5. ASSUME NEW b \in 0..Batch-1, NEW m \in 0..M-1, NEW x \in 0..N-1
          PROVE  /\ RefCount(b, m)' = 0 /\ BatchedCount(b, m)' = 0
                 /\ RowCount(x)' = 0 /\ BlockCount(x, Least(kb, K))' = 0
                 /\ Received(b, m, x, 0)'
      <3>1. (b * M + m) * N + x \in DOMAIN c
        BY <2>2, Elements
      <3>2. Received(b, m, x, 0)
        BY <1>2, <3>1, SumOfNone DEF Untouched, Received, Holds
      <3>3. Received(b, m, x, 0)'
        BY <1>1, <1>2, <3>2 DEF Received, Holds
      <3>4. QED
        BY <1>1, <1>2, <2>3, <2>4, <3>3
           DEF RefCount, BatchedCount, RowCount, BlockCount, Least
    <2>6. Progress'
      <3>1. ASSUME NEW b \in 0..Batch-1, NEW m \in 0..M-1, NEW x \in 0..N-1
            PROVE  /\ Received(b, m, x, RefCount(b, m))'
                   /\ Received(b, m, x, BatchedCount(b, m))'
                   /\ Received(b, m, x, RowCount(x))'
                   /\ Received(b, m, x, BlockCount(x, Least(kb, K)))'
        BY <2>5 DEF Received
      <3>2. QED
        BY <1>1, <1>4, <3>1 DEF Progress
    <2>7. QED
      BY <1>1, <1>2, <2>6, DomainKept
  <1>5. QED
    BY <1>2, <1>3, <1>4

\* The output keeps its elements, and every element keeps to its count.
LEMMA ProgressNext == IInv /\ [Next]_vars => SameElements' /\ Progress'
  <1> SUFFICES ASSUME IInv, [Next]_vars PROVE SameElements' /\ Progress'
    OBVIOUS
  <1>1. CASE UNCHANGED vars
    <2>1. /\ params' = params /\ Batch' = Batch /\ M' = M /\ K' = K /\ N' = N
      BY SameArguments
    <2>2. kc' = kc /\ nc' = nc /\ mc' = mc
      BY <1>1, <2>1 DEF vars, kc, nc, mc
    <2>3. \A b, m, x, count : Received(b, m, x, count)' <=> Received(b, m, x, count)
      BY <1>1, <2>1 DEF vars, Received, Holds
    <2>4. \A b, m, x : /\ RefCount(b, m)' = RefCount(b, m)
                       /\ BatchedCount(b, m)' = BatchedCount(b, m)
                       /\ RowCount(x)' = RowCount(x)
                       /\ TileDone(m, x)' <=> TileDone(m, x)
      BY <1>1, <2>1, <2>2
         DEF vars, RefCount, BatchedCount, RowCount, TileDone
    <2>5. \A x, count : BlockCount(x, count)' = BlockCount(x, count)
      BY <1>1, <2>1 DEF vars, BlockCount
    <2>6. Progress'
      <3>1. ASSUME NEW b \in 0..Batch-1, NEW m \in 0..M-1, NEW x \in 0..N-1
            PROVE  /\ pc = "ref" => Received(b, m, x, RefCount(b, m))'
                   /\ pc = "batched" => Received(b, m, x, BatchedCount(b, m))'
                   /\ pc = "row" => Received(b, m, x, RowCount(x))'
        BY <1>1, <2>1, <2>4 DEF vars, IInv, Progress, Received, Holds
      <3>2. ASSUME NEW b \in 0..Batch-1, NEW m \in 0..M-1, NEW x \in 0..N-1
            PROVE  /\ pc = "packB" => Received(b, m, x, BlockCount(x, Least(kb, K)))'
                   /\ pc = "packA" =>
                        Received(b, m, x,
                          BlockCount(x, IF m < ic THEN kb + kc ELSE kb))'
                   /\ pc = "tile" =>
                        Received(b, m, x,
                          BlockCount(x, IF TileDone(m, x) THEN kb + kc ELSE kb))'
        BY <1>1, <2>1, <2>2, <2>4
           DEF vars, IInv, Progress, Received, Holds, BlockCount, Least
      <3>3. ASSUME NEW b \in 0..Batch-1, NEW m \in 0..M-1, NEW x \in 0..N-1
            PROVE  /\ pc = "threw" => (\E count \in 0..K : Received(b, m, x, count))'
                   /\ status = "ok" => Received(b, m, x, K)'
        BY <1>1, <2>1 DEF vars, IInv, Progress, Received, Holds
      <3>4. pc' = pc /\ status' = status
        BY <1>1 DEF vars
      <3>5. QED
        BY <2>1, <3>1, <3>2, <3>3, <3>4 DEF Progress
    <2>7. QED
      BY <1>1, <2>6, DomainKept DEF vars, IInv
  <1>2. QED
    BY <1>1, EntryProgress, RefProgress, BatchedProgress, RowProgress,
       PackBProgress, PackAProgress, TileProgress, ThrowProgress DEF Next

\* Only a kernel stores to the output.
LEMMA UntouchedNext == IInv /\ [Next]_vars => Untouched'
  <1> SUFFICES ASSUME IInv, [Next]_vars,
                      pc' = "infer" \/ status' \in Errors
               PROVE  c' = c /\ (pc = "infer" \/ status \in Errors)
    BY DEF Untouched, IInv
  <1> USE DEF Errors, IInv, Typed
  <1>1. CASE Refuse \/ Reference \/ Avx2
    BY <1>1 DEF Refuse, Reference, Avx2, Return, Enter
  <1>2. CASE RefLoop \/ BatchedLoop \/ RowLoop
    BY <1>2 DEF RefLoop, BatchedLoop, RowLoop, Return, callVars
  <1>3. CASE PackB \/ PackA
    BY <1>3 DEF PackB, PackA, Return, callVars
  <1>4. CASE MacroKernel \/ Throw
    BY <1>4 DEF MacroKernel, Throw, callVars
  <1>5. CASE UNCHANGED vars
    BY <1>5 DEF vars
  <1>6. QED
    BY <1>1, <1>2, <1>3, <1>4, <1>5 DEF Next

\* Before infer has done anything there is nothing to relate.
LEMMA InvInit == Init => IInv
  <1> SUFFICES ASSUME Init PROVE IInv
    OBVIOUS
  <1>1. Typed
    BY DEF Init, Typed
  <1>2. Accepted /\ Loops /\ PackedBlocks
    BY DEF Init, Accepted, Loops, PackedBlocks, Kernels
  <1>3. PackedInRange
    BY DEF Init, PackedInRange
  <1>4. SameElements
    BY DEF Init, SameElements
  <1>5. Progress
    BY DEF Init, Progress
  <1>6. Untouched
    BY DEF Init, Untouched
  <1>7. QED
    BY <1>1, <1>2, <1>3, <1>4, <1>5, <1>6 DEF IInv

\* Every reachable state satisfies the invariant.
THEOREM Invariant == Spec => []IInv
  <1>1. IInv /\ [Next]_vars => IInv'
    BY TypedNext, AcceptedNext, LoopsNext, PackedBlocksNext, PackedInRangeNext,
       ProgressNext, UntouchedNext DEF IInv
  <1>2. QED
    BY <1>1, InvInit, PTL DEF Spec

-----------------------------------------------------------------------------
(* What it says *)

\* The variables have their types: what is packed is of A and of B, and no
\* kernel stores past the output.
THEOREM MatMulTypeCorrect == Spec => []TypeOK
  <1>1. IInv => TypeOK
    BY DEF IInv, Typed, PackedInRange, SameElements, Kernels, Errors, TypeOK
  <1>2. QED
    BY <1>1, Invariant, PTL

\* What an element must receive, by its batch, row and column.
LEMMA ExpectedSum ==
    ASSUME Typed, Valid, SameElements, NEW o \in DOMAIN c
    PROVE  \E b \in 0..Batch-1, m \in 0..M-1, x \in 0..N-1 :
              /\ o = (b * M + m) * N + x
              /\ Expected(o) = Sum(N, K, b, b * M + m, x, K)
  <1>1. /\ Batch \in Nat /\ M \in Nat /\ K \in Nat /\ N \in Nat
        /\ Size(params.c) = (Batch * M) * N
    BY Extents DEF Typed
  <1>2. PICK rows \in Nat : rows = Batch * M
    BY <1>1, NextRowAt
  <1>3. o \in 0..rows*N-1
    BY <1>1, <1>2 DEF SameElements, Valid
  <1>4. PICK r \in 0..rows-1, x \in 0..N-1 : o = r * N + x
    BY <1>1, <1>3, CellOf
  <1>5. PICK b \in 0..Batch-1, m \in 0..M-1 : r = b * M + m
    <2>1. r \in 0..Batch*M-1
      BY <1>2
    <2>2. QED
      BY <1>1, <2>1, CellOf
  <1>6. o \div N = r /\ o % N = x
    BY <1>1, <1>4, RowAndColumn
  <1>7. r \div M = b
    BY <1>1, <1>5, RowAndColumn
  <1>8. Expected(o) = Sum(N, K, b, r, x, K)
    <2>1. Expected(o) = [q \in 1..K |->
                          <<r * K + q - 1, (b * K + q - 1) * N + x>>]
      BY <1>6, <1>7 DEF Expected
    <2>2. r * K \in Nat /\ b * K \in Nat
      BY <1>1, <1>4, NextRowAt
    <2>3. ASSUME NEW q \in 1..K
          PROVE  <<r * K + q - 1, (b * K + q - 1) * N + x>>
                   = Term(N, K, b, r, x, q - 1)
      <3>1. r * K + q - 1 = r * K + (q - 1) /\ b * K + q - 1 = b * K + (q - 1)
        BY <1>1, <2>2
      <3>2. QED
        BY <3>1 DEF Term
    <2>4. QED
      BY <2>1, <2>3 DEF Sum
  <1>9. QED
    BY <1>4, <1>5, <1>8

\* An element that may be read has received some first products.
LEMMA ReceivedSome ==
    ASSUME IInv, pc # "infer", status \in {"none", "ok"},
           NEW b \in 0..Batch-1, NEW m \in 0..M-1, NEW x \in 0..N-1
    PROVE  \E count \in 0..K : Received(b, m, x, count)
  <1> USE DEF IInv
  <1>1. pc \in Kernels \cup {"threw"} \/ status = "ok"
    BY DEF Typed
  <1>2. Valid
    BY <1>1 DEF Accepted
  <1>3. Batch \in Nat /\ M \in Nat /\ K \in Nat /\ N \in Nat
    BY <1>2, Extents DEF Typed
  <1>4. CASE pc = "ref"
    <2>1. RefCount(b, m) \in 0..K /\ Received(b, m, x, RefCount(b, m))
      BY <1>3, <1>4 DEF Typed, Loops, Progress, RefCount
    <2>2. QED
      BY <2>1
  <1>5. CASE pc = "batched"
    <2>1. BatchedCount(b, m) \in 0..K
      BY <1>3, <1>5 DEF Typed, Loops, BatchedCount
    <2>2. QED
      BY <1>5, <2>1 DEF Progress
  <1>6. CASE pc = "row"
    <2>1. RowCount(x) \in 0..K
      BY <1>3, <1>6 DEF Typed, Loops, RowCount
    <2>2. QED
      BY <1>6, <2>1 DEF Progress
  <1>7. CASE pc = "packB"
    <2>1. BlockCount(x, Least(kb, K)) \in 0..K
      BY <1>3 DEF Typed, BlockCount, Least
    <2>2. QED
      BY <1>7, <2>1 DEF Progress
  <1>8. CASE pc \in {"packA", "tile"}
    <2>1. kb \in Nat /\ kc \in Nat /\ kb + kc <= K
      BY <1>2, <1>8, BlockSizes DEF Typed, Loops
    <2>2. \A done \in {kb, kb + kc} : BlockCount(x, done) \in 0..K
      BY <1>3, <2>1 DEF BlockCount
    <2>3. QED
      BY <1>8, <2>2 DEF Progress
  <1>9. CASE pc = "threw"
    BY <1>9 DEF Progress
  <1>10. CASE status = "ok"
    <2>1. K \in 0..K
      BY <1>3
    <2>2. QED
      BY <1>10, <2>1 DEF Progress
  <1>11. QED
    BY <1>1, <1>4, <1>5, <1>6, <1>7, <1>8, <1>9, <1>10 DEF Kernels

\* Whatever kernel runs, every element accumulates its own products in the
\* order of the reference, and holds the first so many at every moment.
THEOREM MatMulInOrder == Spec => []AccumulatesInOrder
  <1>1. IInv => AccumulatesInOrder
    <2>1. SUFFICES ASSUME IInv, pc # "infer", status \in {"none", "ok"},
                          NEW o \in DOMAIN c
                   PROVE  IsPrefix(c[o], Expected(o))
      BY DEF AccumulatesInOrder
    <2>2. Typed /\ Valid /\ SameElements
      BY <2>1 DEF IInv, Typed, Accepted
    <2>3. PICK b \in 0..Batch-1, m \in 0..M-1, x \in 0..N-1 :
              /\ o = (b * M + m) * N + x
              /\ Expected(o) = Sum(N, K, b, b * M + m, x, K)
      BY <2>1, <2>2, ExpectedSum
    <2>4. PICK count \in 0..K : Received(b, m, x, count)
      BY <2>1, ReceivedSome
    <2>5. K \in Nat
      BY <2>2, Extents DEF Typed
    <2>6. PICK r : r = b * M + m
      OBVIOUS
    <2>7. IsPrefix(Sum(N, K, b, r, x, count), Sum(N, K, b, r, x, K))
      BY <2>5, SumIsPrefix
    <2>8. QED
      BY <2>3, <2>4, <2>6, <2>7 DEF Received, Holds
  <1>2. QED
    BY <1>1, Invariant, PTL

\* Status ok means that every element has all its products.
THEOREM MatMulComplete == Spec => []CompleteWhenOk
  <1>1. IInv => CompleteWhenOk
    <2>1. SUFFICES ASSUME IInv, status = "ok", NEW o \in DOMAIN c
                   PROVE  c[o] = Expected(o)
      BY DEF CompleteWhenOk
    <2>2. Typed /\ Valid /\ SameElements
      BY <2>1 DEF IInv, Accepted
    <2>3. PICK b \in 0..Batch-1, m \in 0..M-1, x \in 0..N-1 :
              /\ o = (b * M + m) * N + x
              /\ Expected(o) = Sum(N, K, b, b * M + m, x, K)
      BY <2>1, <2>2, ExpectedSum
    <2>4. Received(b, m, x, K)
      BY <2>1 DEF IInv, Progress
    <2>5. QED
      BY <2>3, <2>4 DEF Received, Holds
  <1>2. QED
    BY <1>1, Invariant, PTL

\* An error leaves the output as it was.
THEOREM MatMulErrorsChangeNothing == Spec => []ErrorsChangeNothing
  <1>1. IInv => ErrorsChangeNothing
    BY DEF IInv, Untouched, Errors, ErrorsChangeNothing
  <1>2. QED
    BY <1>1, Invariant, PTL
=============================================================================
