--------------------------- MODULE BenchmarkProofs ---------------------------
(***************************************************************************)
(* What bench_ops and a single call of infer() guarantee for tensors of    *)
(* every shape, any number of lanes, every command line and every value of *)
(* LINUX_PERF.  The invariant says of each element of the output whether   *)
(* it is still what it was, already what the reference defines, or between *)
(* the two stores of softmax (Elements), of the sums what has gone into    *)
(* them (Sums), and of main what the runs so far have left (Progress,      *)
(* Profiles).  Products over a shape and the loop over the options are     *)
(* recursive functions: what they compute follows by induction, from the   *)
(* least element that every set of naturals has.                           *)
(***************************************************************************)
EXTENDS Benchmark, FiniteSetTheorems, WellFoundedInduction, TLAPS

\* Every nonempty set of naturals has a least element.
LEMMA Least ==
  ASSUME NEW T \in SUBSET Nat, T # {}
  PROVE  \E m \in T : \A k \in T : m <= k
<1> DEFINE R == OpToRel(<, Nat)
<1>1. IsWellFoundedOn(R, Nat)
  BY NatLessThanWellFounded
<1>2. T \subseteq Nat
  OBVIOUS
<1>3. \A x, y \in Nat : (<<y, x>> \in R) <=> y < x
  BY DEF OpToRel
<1> HIDE DEF R
<1>4. PICK x \in T : \A y \in T : ~ (<<y, x>> \in R)
  BY <1>1, <1>2, WFMin, Zenon
<1>5. \A y \in T : ~(y < x)
  BY <1>2, <1>3, <1>4
<1> QED BY <1>2, <1>5

\* Induction over the naturals up to n.
LEMMA UpTo ==
  ASSUME NEW n \in Nat, NEW T, 0 \in T, \A i \in 1..n : i - 1 \in T => i \in T
  PROVE  \A i \in 0..n : i \in T
<1> SUFFICES ASSUME NEW k \in 0..n, k \notin T PROVE FALSE
  OBVIOUS
<1>1. PICK U : U = {i \in 0..n : i \notin T}
  OBVIOUS
<1>2. PICK m \in U : \A j \in U : m <= j
  <2>1. U \in SUBSET Nat /\ U # {}
    BY <1>1
  <2> QED BY <2>1, Least
<1>3. m \in 1..n /\ m - 1 \in 0..n /\ ~(m <= m - 1)
  BY <1>1, <1>2
<1>4. m - 1 \in T
  BY <1>1, <1>2, <1>3
<1> QED BY <1>1, <1>2, <1>3, <1>4

\* f is what a loop over 1..n computes: it starts with a, and turn i makes
\* g[i] of what there was.
Loop(f, n, a, g) == f[0] = a /\ \A i \in 1..n : f[i] = g[i][f[i - 1]]

\* A function defined by recursion along 0..n exists.
LEMMA Recursion ==
  ASSUME NEW n \in Nat, NEW S, NEW a \in S, NEW g \in [1..n -> [S -> S]]
  PROVE  \E f \in [0..n -> S] : Loop(f, n, a, g)
<1> DEFINE T == {m \in 0..n : \E f \in [0..m -> S] : Loop(f, m, a, g)}
<1>1. 0 \in T
  <2>1. PICK f : f = [i \in 0..0 |-> a]
    OBVIOUS
  <2>2. f \in [0..0 -> S] /\ Loop(f, 0, a, g)
    BY <2>1 DEF Loop
  <2> QED BY <2>2
<1>2. ASSUME NEW m \in 1..n, m - 1 \in T PROVE m \in T
  <2>1. PICK f \in [0..m - 1 -> S] : Loop(f, m - 1, a, g)
    BY <1>2
  <2>2. PICK x \in S : x = g[m][f[m - 1]]
    <3>1. m - 1 \in 0..m - 1
      OBVIOUS
    <3> QED BY <3>1
  <2>3. PICK h : h = [i \in 0..m |-> IF i = m THEN x ELSE f[i]]
    OBVIOUS
  <2>4. h \in [0..m -> S]
    BY <2>3
  <2>5. h[0] = a
    BY <2>1, <2>3 DEF Loop
  <2>6. ASSUME NEW i \in 1..m PROVE h[i] = g[i][h[i - 1]]
    <3>1. h[i - 1] = f[i - 1]
      BY <2>3
    <3>2. CASE i = m
      BY <2>2, <2>3, <3>1, <3>2
    <3>3. CASE i # m
      <4>1. i \in 1..m - 1 /\ h[i] = f[i]
        BY <2>3, <3>3
      <4> QED BY <2>1, <3>1, <4>1 DEF Loop
    <3> QED BY <3>2, <3>3
  <2>7. Loop(h, m, a, g)
    BY <2>5, <2>6 DEF Loop
  <2> QED BY <2>4, <2>7
<1>3. \A m \in 1..n : m - 1 \in T => m \in T
  BY <1>2
<1>4. \A m \in 0..n : m \in T
  <2> HIDE DEF T
  <2> QED BY <1>1, <1>3, UpTo
<1> QED BY <1>4

\* The turns of a loop that multiplies the elements of a sequence.
LEMMA Multiplying ==
  ASSUME NEW n \in Nat, NEW d \in [1..n -> Nat]
  PROVE  \E g \in [1..n -> [Nat -> Nat]] : \A i \in 1..n, x \in Nat : g[i][x] = x * d[i]
<1>1. PICK g : g = [i \in 1..n |-> [x \in Nat |-> x * d[i]]]
  OBVIOUS
<1>2. \A i \in 1..n : [x \in Nat |-> x * d[i]] \in [Nat -> Nat]
  <2> TAKE i \in 1..n
  <2>1. PICK e \in Nat : e = d[i]
    OBVIOUS
  <2>2. \A x \in Nat : x * e \in Nat
    OBVIOUS
  <2> QED BY <2>1, <2>2
<1>3. g \in [1..n -> [Nat -> Nat]]
  BY <1>1, <1>2
<1>4. \A i \in 1..n, x \in Nat : g[i][x] = x * d[i]
  BY <1>1
<1> QED BY <1>3, <1>4

\* The equation that defines the running products of a sequence, and those products.
ProductsEq(f, n, d) == f = [i \in 0..n |-> IF i = 0 THEN 1 ELSE f[i - 1] * d[i]]
ProductsRun(f, n, d) ==
    /\ f \in [0..n -> Nat] /\ f[0] = 1
    /\ \A i \in 1..n : f[i] = f[i - 1] * d[i]

\* The equation has a solution.
LEMMA RunningProducts ==
  ASSUME NEW n \in Nat, NEW d \in [1..n -> Nat]
  PROVE  \E f : ProductsEq(f, n, d) /\ ProductsRun(f, n, d)
<1>1. PICK g \in [1..n -> [Nat -> Nat]] : \A i \in 1..n, x \in Nat : g[i][x] = x * d[i]
  BY Multiplying
<1>2. PICK f : f \in [0..n -> Nat] /\ Loop(f, n, 1, g)
  BY Recursion
<1>3. f[0] = 1
  BY <1>2 DEF Loop
<1>4. \A i \in 1..n : i \in 0..n /\ i - 1 \in 0..n /\ i # 0
  OBVIOUS
<1>5. \A i \in 0..n : i = 0 \/ i \in 1..n
  OBVIOUS
<1>6. ASSUME NEW i \in 1..n PROVE f[i] = f[i - 1] * d[i]
  <2>1. PICK x \in Nat : x = f[i - 1]
    BY <1>2, <1>4
  <2>2. f[i] = g[i][x] /\ g[i][x] = x * d[i]
    BY <1>1, <1>2, <2>1 DEF Loop
  <2> QED BY <2>1, <2>2
<1>7. f = [i \in 0..n |-> IF i = 0 THEN 1 ELSE f[i - 1] * d[i]]
  <2>1. ASSUME NEW i \in 0..n PROVE f[i] = IF i = 0 THEN 1 ELSE f[i - 1] * d[i]
    <3>1. CASE i = 0
      BY <1>3, <3>1, Zenon
    <3>2. CASE i # 0
      BY <1>5, <1>6, <3>2, Zenon
    <3> QED BY <3>1, <3>2, Zenon
  <2>2. f = [i \in 0..n |-> f[i]]
    BY <1>2, Zenon
  <2> QED BY <2>1, <2>2, Zenon
<1>8. \A i \in 1..n : f[i] = f[i - 1] * d[i]
  BY <1>6, Zenon
<1>9. ProductsEq(f, n, d)
  BY <1>7, Zenon DEF ProductsEq
<1>10. ProductsRun(f, n, d)
  BY <1>2, <1>3, <1>8, Zenon DEF ProductsRun
<1> QED BY <1>9, <1>10

\* The equation has no other solution.
LEMMA OnlyProducts ==
  ASSUME NEW n \in Nat, NEW d \in [1..n -> Nat], NEW h, ProductsEq(h, n, d)
  PROVE  ProductsRun(h, n, d)
<1>1. PICK f : ProductsRun(f, n, d)
  BY RunningProducts
<1>2. f[0] = 1 /\ \A i \in 1..n : f[i] = f[i - 1] * d[i]
  BY <1>1, Zenon DEF ProductsRun
<1>3. h = [i \in 0..n |-> IF i = 0 THEN 1 ELSE h[i - 1] * d[i]]
  BY Zenon DEF ProductsEq
<1> DEFINE T == {i \in 0..n : h[i] = f[i]}
<1>4. \A i \in 0..n : h[i] = IF i = 0 THEN 1 ELSE h[i - 1] * d[i]
  BY <1>3, Zenon
<1>5. \A i \in 1..n : i \in 0..n /\ i # 0
  OBVIOUS
<1>6. 0 \in 0..n
  OBVIOUS
<1>7. 0 \in T
  BY <1>2, <1>4, <1>6, Zenon
<1>8. ASSUME NEW i \in 1..n, i - 1 \in T PROVE i \in T
  <2>1. h[i - 1] = f[i - 1]
    BY <1>8, Zenon
  <2>2. h[i] = h[i - 1] * d[i]
    BY <1>4, <1>5, Zenon
  <2>3. h[i] = f[i]
    BY <1>2, <2>1, <2>2, Zenon
  <2> QED BY <1>5, <2>3, Zenon
<1>9. \A i \in 1..n : i - 1 \in T => i \in T
  BY <1>8, Zenon
<1>10. \A i \in 0..n : i \in T
  <2> HIDE DEF T
  <2> QED BY <1>7, <1>9, UpTo
<1>11. \A i \in 0..n : h[i] = f[i]
  BY <1>10, Zenon
<1>12. h = [i \in 0..n |-> h[i]] /\ f = [i \in 0..n |-> f[i]]
  BY <1>1, <1>3, Zenon DEF ProductsRun
<1>13. h = f
  BY <1>11, <1>12, Zenon
<1> QED BY <1>1, <1>13, Zenon

\* The product of the dimensions is that of a loop over them.
LEMMA NumelRuns ==
  ASSUME NEW shape \in Seq(Nat)
  PROVE  \E p \in [0..Len(shape) -> Nat] :
           /\ p[0] = 1 /\ \A i \in 1..Len(shape) : p[i] = p[i - 1] * shape[i]
           /\ Numel(shape) = p[Len(shape)]
<1>1. PICK n, d : n = Len(shape) /\ d = [i \in 1..n |-> shape[i]]
  OBVIOUS
<1>2. n \in Nat /\ d \in [1..n -> Nat] /\ \A i \in 1..n : d[i] = shape[i]
  BY <1>1
<1>3. \A p, i : i \in 0..n => (IF i = 0 THEN 1 ELSE p[i - 1] * shape[i])
                                 = IF i = 0 THEN 1 ELSE p[i - 1] * d[i]
  <2>1. \A i \in 0..n : i = 0 \/ i \in 1..n
    OBVIOUS
  <2> QED BY <1>2, <2>1, Zenon
<1>4. PICK p : /\ p = [i \in 0..n |-> IF i = 0 THEN 1 ELSE p[i - 1] * shape[i]]
               /\ Numel(shape) = p[n]
  <2>1. PICK p : ProductsEq(p, n, d)
    BY <1>2, RunningProducts
  <2>2. p = [i \in 0..n |-> IF i = 0 THEN 1 ELSE p[i - 1] * shape[i]]
    BY <1>3, <2>1, Zenon DEF ProductsEq
  <2> QED BY <1>1, <2>2 DEF Numel
<1>5. ProductsEq(p, n, d)
  BY <1>3, <1>4, Zenon DEF ProductsEq
<1>6. ProductsRun(p, n, d)
  BY <1>2, <1>5, OnlyProducts
<1>7. /\ p \in [0..n -> Nat] /\ p[0] = 1
      /\ \A i \in 1..n : p[i] = p[i - 1] * shape[i]
  BY <1>2, <1>6, Zenon DEF ProductsRun
<1> QED BY <1>1, <1>4, <1>7, Zenon

\* Any running product of the dimensions ends with their product.
LEMMA NumelIs ==
  ASSUME NEW shape \in Seq(Nat), NEW q \in [0..Len(shape) -> Nat], q[0] = 1,
         \A i \in 1..Len(shape) : q[i] = q[i - 1] * shape[i]
  PROVE  Numel(shape) = q[Len(shape)]
<1>1. PICK n \in Nat : n = Len(shape)
  OBVIOUS
<1>2. PICK p \in [0..n -> Nat] :
        /\ p[0] = 1 /\ \A i \in 1..n : p[i] = p[i - 1] * shape[i]
        /\ Numel(shape) = p[n]
  BY <1>1, NumelRuns
<1>3. q[0] = 1 /\ \A i \in 1..n : q[i] = q[i - 1] * shape[i]
  BY <1>1
<1> DEFINE T == {i \in 0..n : p[i] = q[i]}
<1>4. 0 \in T
  BY <1>2, <1>3
<1>5. \A i \in 1..n : i - 1 \in T => i \in T
  <2> TAKE i \in 1..n
  <2>1. i \in 0..n
    OBVIOUS
  <2>2. p[i] = p[i - 1] * shape[i] /\ q[i] = q[i - 1] * shape[i]
    BY <1>2, <1>3, Zenon
  <2> QED BY <2>1, <2>2, Zenon
<1>6. \A i \in 0..n : i \in T
  <2> HIDE DEF T
  <2> QED BY <1>4, <1>5, UpTo
<1>7. n \in 0..n
  OBVIOUS
<1> QED BY <1>1, <1>2, <1>6, <1>7, Zenon

\* The number of elements is a natural number.
LEMMA NumelTyped == ASSUME NEW shape \in Seq(Nat) PROVE Numel(shape) \in Nat
<1>1. PICK p \in [0..Len(shape) -> Nat] : Numel(shape) = p[Len(shape)]
  BY NumelRuns
<1>2. Len(shape) \in 0..Len(shape)
  OBVIOUS
<1> QED BY <1>1, <1>2

\* The product of the first m dimensions is that of the shape they make.
LEMMA NumelPrefix ==
  ASSUME NEW shape \in Seq(Nat), NEW p \in [0..Len(shape) -> Nat], p[0] = 1,
         \A i \in 1..Len(shape) : p[i] = p[i - 1] * shape[i],
         NEW m \in 0..Len(shape)
  PROVE  SubSeq(shape, 1, m) \in Seq(Nat) /\ Numel(SubSeq(shape, 1, m)) = p[m]
<1>1. PICK s : s = SubSeq(shape, 1, m)
  OBVIOUS
<1>2. s \in Seq(Nat) /\ Len(s) = m /\ \A i \in 1..m : s[i] = shape[i]
  BY <1>1
<1>3. PICK q : q = [i \in 0..m |-> p[i]]
  OBVIOUS
<1>4. q \in [0..m -> Nat] /\ \A i \in 0..m : q[i] = p[i]
  <2>1. \A i \in 0..m : i \in 0..Len(shape)
    OBVIOUS
  <2>2. \A i \in 0..m : p[i] \in Nat
    BY <2>1
  <2> QED BY <1>3, <2>2
<1>5. 0 \in 0..m /\ m \in 0..m
  OBVIOUS
<1>6. q[0] = 1 /\ q[m] = p[m]
  BY <1>4, <1>5
<1>7. \A i \in 1..m : q[i] = q[i - 1] * s[i]
  <2> TAKE i \in 1..m
  <2>1. i \in 0..m /\ i - 1 \in 0..m /\ i \in 1..Len(shape)
    OBVIOUS
  <2>2. q[i] = p[i] /\ q[i - 1] = p[i - 1] /\ s[i] = shape[i]
    BY <1>2, <1>4, <2>1
  <2> QED BY <2>1, <2>2, Zenon
<1>8. Numel(s) = q[m]
  BY <1>2, <1>4, <1>6, <1>7, NumelIs
<1> QED BY <1>1, <1>2, <1>6, <1>8

\* numel is the number of rows times the last dimension.
LEMMA NumelRows ==
  ASSUME NEW shape \in Seq(Nat), shape # <<>>
  PROVE  /\ Front(shape) \in Seq(Nat) /\ Numel(Front(shape)) \in Nat
         /\ Last(shape) \in Nat
         /\ Numel(shape) = Numel(Front(shape)) * Last(shape)
<1>1. PICK p \in [0..Len(shape) -> Nat] :
        /\ p[0] = 1 /\ \A i \in 1..Len(shape) : p[i] = p[i - 1] * shape[i]
        /\ Numel(shape) = p[Len(shape)]
  BY NumelRuns
<1>2. Len(shape) - 1 \in 0..Len(shape) /\ Len(shape) \in 1..Len(shape)
  OBVIOUS
<1>3. Front(shape) = SubSeq(shape, 1, Len(shape) - 1)
  BY DEF Front
<1>4. Front(shape) \in Seq(Nat) /\ Numel(Front(shape)) = p[Len(shape) - 1]
  BY <1>1, <1>2, <1>3, NumelPrefix
<1>5. Last(shape) = shape[Len(shape)] /\ Last(shape) \in Nat
  BY <1>2 DEF Last
<1>6. Numel(shape) = p[Len(shape) - 1] * shape[Len(shape)]
  BY <1>1, <1>2
<1> QED BY <1>4, <1>5, <1>6, NumelTyped
-----------------------------------------------------------------------------
(* Rows of a tensor *)

\* A whole number of rows: row r ends before the last one does.
LEMMA RowFits ==
  ASSUME NEW n \in Nat, NEW s \in Nat, NEW r \in 0..n - 1
  PROVE  \E b, e \in Nat : b = r * s /\ e = n * s /\ b + s <= e
<1>1. PICK d \in Nat : n = r + 1 + d
  <2>1. n - (r + 1) \in Nat /\ n = r + 1 + (n - (r + 1))
    OBVIOUS
  <2> QED BY <2>1
<1>2. r \in Nat
  OBVIOUS
<1>3. (r + 1 + d) * s = r * s + s + d * s
  BY <1>2
<1>4. PICK b \in Nat, x \in Nat : b = r * s /\ x = d * s
  BY <1>2
<1>5. PICK e \in Nat : e = b + s + x
  OBVIOUS
<1>6. b + s <= e
  BY <1>5
<1> QED BY <1>1, <1>3, <1>4, <1>5, <1>6

\* Row and column of an offset.
LEMMA RowAndColumn ==
  ASSUME NEW s \in Nat, NEW r \in Nat, NEW i \in Nat, i < s,
         NEW b \in Nat, b = r * s
  PROVE  (b + i) % s = i /\ (b + i) \div s = r
<1>1. PICK k \in Nat, q \in Int, m \in 0..s - 1 :
        k = b + i /\ q = k \div s /\ m = k % s /\ k = s * q + m
  <2>1. PICK k \in Nat : k = b + i
    OBVIOUS
  <2>2. s > 0
    OBVIOUS
  <2>3. k \div s \in Int /\ k % s \in 0..s - 1 /\ k = s * (k \div s) + (k % s)
    BY <2>2
  <2> QED BY <2>1, <2>3
<1>2. s * r + i = s * q + m
  BY <1>1
<1>3. q = r
  <2>1. CASE q < r
    <3>1. PICK d \in Nat : r = q + 1 + d
      <4>1. r - (q + 1) \in Nat /\ r = q + 1 + (r - (q + 1))
        BY <2>1
      <4> QED BY <4>1
    <3>2. s * (q + 1 + d) = s * q + s + s * d
      OBVIOUS
    <3>3. PICK x \in Int, y \in Nat : x = s * q /\ y = s * d
      OBVIOUS
    <3>4. x + s + y + i = x + m
      BY <1>2, <3>1, <3>2, <3>3
    <3> QED BY <1>1, <3>4
  <2>2. CASE q > r
    <3>1. PICK d \in Nat : q = r + 1 + d
      <4>1. q - (r + 1) \in Nat /\ q = r + 1 + (q - (r + 1))
        BY <2>2
      <4> QED BY <4>1
    <3>2. s * (r + 1 + d) = s * r + s + s * d
      OBVIOUS
    <3>3. PICK x \in Int, y \in Nat : x = s * r /\ y = s * d
      OBVIOUS
    <3>4. x + i = x + s + y + m
      BY <1>2, <3>1, <3>2, <3>3
    <3> QED BY <3>4
  <2> QED BY <2>1, <2>2
<1>4. m = i
  <2>1. PICK x \in Int : x = s * r
    OBVIOUS
  <2> QED BY <1>2, <1>3, <2>1
<1> QED BY <1>1, <1>3, <1>4

\* Bags of sets add up as the sets do.
LEMMA BagsAdd ==
  ASSUME NEW S, NEW T, S \cap T = {}
  PROVE  SetToBag(S) (+) SetToBag(T) = SetToBag(S \cup T)
  BY DEF SetToBag, (+)

\* Two facts about the bag of a set.
LEMMA EmptyBagOfSet == EmptyBag = SetToBag({})
  BY DEF EmptyBag

LEMMA SetOfBag == ASSUME NEW S PROVE BagToSet(SetToBag(S)) = S
  BY DEF BagToSet, SetToBag
Products == {"gemv", "matmul"}
Reset == {"gelu", "rope"} \cup Products
Measured == phase \in {"warm", "iter", "last"}

\* The element at offset k of the output, and how many there are.
Out(k) == mem[call.out][k]
Size == Numel(Shape(call.out))

\* bench_ops runs an operator more than once without resetting its output.
Rerun == Measured /\ call.op \notin Reset

\* Nothing but the output is ever stored to.
TensorsKept ==
    /\ mem = [t \in DOMAIN call.shape |-> mem[t]]
    /\ \A t \in DOMAIN call.shape \ {call.out} : mem[t] = Fresh(t, call.shape[t])
    /\ mem[call.out] = [k \in 0..Size - 1 |-> Out(k)]

\* Elements this run has not reached: as they were, or from an earlier run.
Untouched(k) == Out(k) = Original(call.out, k) \/ (Rerun /\ Out(k) = Result(k))

\* Elements that are through, and those of softmax between its two stores.
Here == row * Stride + (IF call.op = "rope" THEN 2 * col ELSE col)
Through(k) == k < row * Stride \/ (pc = "pass" /\ pass = Passes /\ k < Here)
Halfway(k) ==
    /\ pc = "pass" /\ call.op = "softmax" /\ k < row * Stride + Stride
    /\ (pass = 2 /\ k < Here) \/ (pass = 3 /\ k >= Here)
RowExp(k) == Exp(Was(k), {Was(n) : n \in RowOf(k)})
Element(k) == IF Through(k) THEN Out(k) = Result(k)
              ELSE IF Halfway(k) THEN Out(k) = RowExp(k)
              ELSE Untouched(k)
Elements ==
    /\ pc = "infer" => \A k \in 0..Size - 1 : Untouched(k)
    /\ pc \in {"row", "pass"} => \A k \in 0..Size - 1 : Element(k)

\* What the first two passes over a row have summed up.
RowMean(k) == SetToBag({Was(j) : j \in RowOf(k)})
Second(k) == IF call.op = "softmax" THEN RowExp(k) ELSE <<"square", Was(k), RowMean(k)>>
Summed(p) == IF pass = p THEN col ELSE IF pass > p THEN Width ELSE 0
Sums ==
    pc = "pass" /\ call.op \in RowWise =>
      /\ DOMAIN acc = 1..2
      /\ acc[1] = SetToBag({Was(At(i)) : i \in 0..Summed(1) - 1})
      /\ acc[2] = SetToBag({Second(At(i)) : i \in 0..Summed(2) - 1})

\* The counters of the loops.
Known(n) == call.ids[n] \in 0..Shape(X)[1] - 1
Counters ==
    pc \in {"row", "pass"} =>
      /\ Refusal = "none" /\ Accepted /\ call.op \notin Products
      /\ call.op \in RowWise => Width > 0
      /\ row \in 0..Rows
      /\ call.op = "token_embd" => \A n \in 1..row : Known(n)
      /\ pc = "pass" => /\ row < Rows /\ pass \in 1..Passes /\ col \in 0..Width
                        /\ call.backend = "x86_opt" => col \in {0, Width}
                        /\ call.op = "token_embd" => Known(row + 1)

\* What infer() has returned.
Answers ==
    /\ pc \in {"idle", "infer", "row", "pass", "returned"}
    /\ pc # "returned" => status = "none"
    /\ pc = "returned" =>
         /\ status \in {"ok", "invalid_argument", "unsupported", "crashed"}
         /\ status = "ok" => Refusal = "none" /\ \A k \in 0..Size - 1 : Out(k) = Result(k)
         /\ Measured => status = IF Refusal = "none" THEN "ok" ELSE "unsupported"
    /\ ErrorsKeepPrefix

\* The call under way.
Calling ==
    /\ phase = "library" => call \in Calls /\ pc # "idle"
    /\ phase = "start" => call = NoCall /\ pc = "idle" /\ printed = <<>> /\ ~attached
    /\ Measured =>
         /\ call = BenchCall(options) /\ ~Incomplete /\ ~Refused(options)
         /\ options.shape # <<>> /\ Len(options.shape) >= Indexed(options)

\* What parse_args has made of the arguments.
OptionsTyped ==
    /\ options = [op |-> options.op, shape |-> options.shape, backend |-> options.backend,
                  warmup |-> options.warmup, iters |-> options.iters, perf |-> options.perf]
    /\ options.shape \in Seq(Int) /\ (options.shape # <<>> => IsShape(options.shape))
    /\ options.warmup \in Nat /\ options.iters \in Nat
    /\ options.backend \in Backends /\ options.perf \in BOOLEAN

\* Where main and its loops are, and what the runs so far have left: the answer
\* of one run, or with a backend that is not supported nothing.
Failing == options.perf /\ environment # NoValue /\ Config.failed
Ran == count > 0 \/ phase = "last"
Places ==
    /\ count \in Nat /\ phase \in {"library", "start", "warm", "iter", "last"}
    /\ phase = "start" => count <= Len(argv) /\ argv \in Arguments
    /\ exit \in {"running", "0", "1", "undefined", "killed"}
    /\ exit = "running" => starved = FALSE
    /\ phase \in {"iter", "last"} => ~TooMany
Pristine ==
    Measured /\ Refusal # "none" => \A k \in 0..Size - 1 : Out(k) = Original(call.out, k)
Between ==
    Measured /\ pc = "idle" /\ exit = "running" =>
        \A k \in 0..Size - 1 : Out(k) = Result(k) \/ (~Ran /\ Out(k) = Original(call.out, k))
Succeeded ==
    /\ Measured /\ (Ran \/ printed # <<>>) => Refusal = "none"
    /\ Measured /\ phase # "warm" /\ (Ran \/ pc # "idle") => ~Failing
Printed ==
    /\ printed # <<>> => Measured /\ ~Failing /\ printed = <<Result(0)>>
    /\ phase = "last" => printed # <<>>
    /\ printed # <<>> /\ phase # "last" => exit # "running"
Progress == Places /\ Pristine /\ Between /\ Succeeded /\ Printed

\* What n profiles leave of the quota that dump sets.
Admitted == TraceAllowedOn(Config, cpu)
Traced(n) == IF ~Admitted \/ Config.dump = 0 THEN 0
             ELSE IF Config.dump < 0 THEN n
             ELSE Min({n, Config.dump})
Profiles ==
    /\ finished \in Nat /\ cpu \in Affinity
    /\ environment \in Environments \cup {NoValue}
    /\ ~attached => ~scope /\ finished = 0 /\ recorded = 0
    /\ attached => /\ environment # NoValue /\ ~Config.failed
                   /\ recorded = Traced(finished) /\ quota = Config.dump - recorded

\* The inductive invariant.
Started == phase # "start"
Kept == Started => TensorsKept
BenchInv == /\ Kept /\ Elements /\ Sums /\ Counters /\ Answers
            /\ Calling /\ OptionsTyped /\ Progress /\ Profiles /\ EndsAsDocumented

-----------------------------------------------------------------------------
(* The geometry of a call *)

\* What the loops rely on once the checks of a kernel have let a call through.
Geometry ==
    /\ Size \in Nat /\ Width \in Nat /\ Stride \in Nat /\ Rows \in Nat
    /\ Rows * Stride = Size
    /\ call.op # "rope" => Stride = Width
    /\ call.op = "rope" => /\ X = call.out /\ Rotary \in Nat
                           /\ 2 * Width = Rotary /\ Rotary <= Stride

\* The operands and how many elements each of them has.
Operands2 ==
    /\ call.out \in DOMAIN call.shape /\ X \in DOMAIN call.shape
    /\ call.op # "token_embd" => Numel(Shape(X)) = Size
    /\ call.op = "add" =>
         call.in[2] \in DOMAIN call.shape /\ Numel(Shape(call.in[2])) = Size
    /\ call.op = "layer_norm" => \A n \in {2, 3} :
         call.in[n] \in DOMAIN call.shape /\ Numel(Shape(call.in[n])) = Width
    /\ call.op = "token_embd" =>
         /\ X # call.out /\ Rows = Len(call.ids) /\ call.ids \in Seq(Int)
         /\ Shape(X)[1] \in Nat /\ Width = Shape(X)[2]
         /\ Shape(X)[1] * Width <= Numel(Shape(X)) /\ Numel(Shape(X)) \in Nat

\* The parts of a call that the checks do not depend on.
LEMMA CallParts ==
  ASSUME IsCall(call)
  PROVE  /\ \A t \in DOMAIN call.shape : Shape(t) \in Seq(Nat)
         /\ call.out \in DOMAIN call.shape
         /\ \A n \in 1..Operands(call.op) : call.in[n] \in DOMAIN call.shape
         /\ X \in DOMAIN call.shape
         /\ Size \in Nat
<1>1. \A t \in DOMAIN call.shape : Shape(t) \in Seq(Nat)
  BY DEF IsCall, Shape
<1>2. call.out \in DOMAIN call.shape
  BY DEF IsCall
<1>3. \A n \in 1..Operands(call.op) : call.in[n] \in DOMAIN call.shape
  BY DEF IsCall
<1>4. 1 \in 1..Operands(call.op)
  BY DEF Operands
<1>5. X \in DOMAIN call.shape
  BY <1>3, <1>4 DEF X
<1>6. Size \in Nat
  BY <1>1, <1>2, NumelTyped DEF Size
<1> QED BY <1>1, <1>2, <1>3, <1>5, <1>6

\* A whole number of rows divides into rows.
LEMMA RowsDivide ==
  ASSUME NEW f \in Nat, NEW w \in Nat, w > 0
  PROVE  (f * w) \div w = f
<1>1. PICK b \in Nat : b = f * w
  OBVIOUS
<1>2. (b + 0) \div w = f
  BY <1>1, RowAndColumn
<1> QED BY <1>1, <1>2

\* What a kernel accepts divides into whole rows.
LEMMA GeometryHolds ==
  ASSUME IsCall(call), Accepted, call.op \in RowWise => Width > 0
  PROVE  Geometry /\ Operands2
<1>1. /\ \A t \in DOMAIN call.shape : Shape(t) \in Seq(Nat)
      /\ call.out \in DOMAIN call.shape
      /\ \A n \in 1..Operands(call.op) : call.in[n] \in DOMAIN call.shape
      /\ X \in DOMAIN call.shape /\ Size \in Nat
  BY CallParts
<1>2. call.op \in RowWise \cup Elementwise \cup {"rope", "token_embd"}
  BY DEF IsCall
<1>3. CASE call.op = "add"
  <2>1. Width = Size /\ Stride = Size /\ Rows = 1
    BY <1>3 DEF Width, Stride, Rows, Size, Elementwise, RowWise
  <2>2. 1 \in 1..Operands(call.op) /\ 2 \in 1..Operands(call.op)
    BY <1>3 DEF Operands
  <2>3. 1 \in DOMAIN call.in /\ 2 \in DOMAIN call.in
    BY <1>3, <2>2 DEF IsCall
  <2>4. Shape(X) = Shape(call.out) /\ Shape(call.in[2]) = Shape(call.out)
    BY <1>3, <2>3 DEF Accepted, SameShapes, X
  <2> QED BY <1>1, <1>3, <2>1, <2>2, <2>4 DEF Geometry, Operands2, Size
<1>4. CASE call.op = "scale"
  <2>1. Width = Size /\ Stride = Size /\ Rows = 1
    BY <1>4 DEF Width, Stride, Rows, Size, Elementwise, RowWise
  <2>2. 1 \in DOMAIN call.in
    BY <1>4 DEF IsCall, Operands
  <2>3. Shape(X) = Shape(call.out)
    BY <1>4, <2>2 DEF Accepted, SameShapes, X
  <2> QED BY <1>1, <1>4, <2>1, <2>3 DEF Geometry, Operands2, Size
<1>5. CASE call.op = "gelu"
  <2>1. Width = Size /\ Stride = Size /\ Rows = 1
    BY <1>5 DEF Width, Stride, Rows, Size, Elementwise, RowWise
  <2>2. X = call.out
    BY <1>5 DEF IsCall, X
  <2> QED BY <1>1, <1>5, <2>1, <2>2 DEF Geometry, Operands2, Size
<1>6. CASE call.op \in RowWise
  <2>1. Shape(X) # <<>>
    BY <1>6 DEF Accepted, SoftmaxAccepted, NormAccepted, RowWise
  <2>2. Shape(X) \in Seq(Nat)
    BY <1>1
  <2>3. Width = Last(Shape(X)) /\ Stride = Width /\ Rows = Numel(Shape(X)) \div Width
    BY <1>6 DEF Width, Stride, Rows, RowWise, Elementwise
  <2>4. PICK f \in Nat, w \in Nat : w = Width /\ Numel(Shape(X)) = f * w
    BY <2>1, <2>2, <2>3, NumelRows
  <2>5. w > 0
    BY <1>6, <2>4
  <2>6. Rows = f
    BY <2>3, <2>4, <2>5, RowsDivide
  <2>7. Shape(X) = Shape(call.out)
    <3>1. CASE call.op = "softmax"
      <4>1. 1 \in DOMAIN call.in
        BY <3>1 DEF IsCall, Operands
      <4> QED BY <3>1, <4>1 DEF Accepted, SoftmaxAccepted, SameShapes, X
    <3>2. CASE call.op = "layer_norm"
      BY <3>2 DEF Accepted, NormAccepted
    <3> QED BY <1>6, <3>1, <3>2 DEF RowWise
  <2>8. Numel(Shape(X)) = Size
    BY <2>7 DEF Size
  <2>9. Geometry
    BY <1>1, <1>6, <2>3, <2>4, <2>6, <2>8 DEF Geometry, RowWise
  <2>10. call.op = "layer_norm" => \A n \in {2, 3} :
           call.in[n] \in DOMAIN call.shape /\ Numel(Shape(call.in[n])) = Width
    <3> SUFFICES ASSUME call.op = "layer_norm" PROVE \A n \in {2, 3} :
                   call.in[n] \in DOMAIN call.shape /\ Numel(Shape(call.in[n])) = Width
      OBVIOUS
    <3>1. \A n \in {2, 3} : n \in 1..Operands(call.op)
      BY DEF Operands
    <3>2. NormAccepted
      BY DEF Accepted
    <3> QED BY <1>1, <3>1, <3>2, Zenon DEF NormAccepted
  <2> QED BY <1>1, <1>6, <2>8, <2>9, <2>10 DEF Operands2, RowWise
<1>7. CASE call.op = "rope"
  <2>1. X = call.out
    BY <1>7 DEF IsCall, X
  <2>2. Stride = Last(Shape(X)) /\ Width = Rotary \div 2 /\ Rows = Numel(Front(Shape(X)))
    BY <1>7 DEF Width, Stride, Rows, RowWise, Elementwise
  <2>3. Len(Shape(X)) = 4 /\ Rotary % 2 = 0 /\ Rotary \in 1..Last(Shape(X))
    BY <1>7 DEF Accepted, RopeAccepted
  <2>4. Shape(X) \in Seq(Nat) /\ Shape(X) # <<>>
    <3>1. Shape(X) \in Seq(Nat)
      BY <1>1
    <3>2. Len(<<>>) = 0 /\ Len(Shape(X)) # 0
      BY <2>3
    <3> QED BY <3>1, <3>2, Zenon
  <2>5. Stride \in Nat /\ Rows \in Nat /\ Numel(Shape(X)) = Rows * Stride
    BY <2>2, <2>4, NumelRows
  <2>6. PICK r \in Nat : r = Rotary /\ r <= Stride
    BY <2>2, <2>3, <2>5
  <2>7. 2 * (r \div 2) = r /\ r \div 2 \in Nat
    BY <2>3, <2>6
  <2>8. Numel(Shape(X)) = Size
    BY <2>1 DEF Size
  <2> QED BY <1>1, <1>7, <2>1, <2>2, <2>5, <2>6, <2>7, <2>8 DEF Geometry, Operands2
<1>8. CASE call.op = "token_embd"
  <2>1. HasRows(call)
    BY <1>8 DEF IsCall
  <2>2. Width = Shape(X)[2] /\ Stride = Width /\ Rows = Len(call.ids)
    BY <1>8 DEF Width, Stride, Rows, RowWise, Elementwise
  <2>3. /\ call.out # X /\ Len(Shape(X)) >= 2
        /\ Shape(X)[1] * Shape(X)[2] <= Numel(Shape(X))
        /\ call.ids \in Seq(Int) /\ Size = Len(call.ids) * Shape(X)[2]
    BY <2>1 DEF HasRows, X, Shape, Size
  <2>4. Shape(X) \in Seq(Nat)
    BY <1>1
  <2>5. Shape(X)[1] \in Nat /\ Shape(X)[2] \in Nat /\ Len(call.ids) \in Nat
    BY <2>3, <2>4
  <2>6. Numel(Shape(X)) \in Nat
    BY <2>4, NumelTyped
  <2> QED BY <1>1, <1>8, <2>2, <2>3, <2>5, <2>6 DEF Geometry, Operands2
<1> QED BY <1>2, <1>3, <1>4, <1>5, <1>6, <1>7, <1>8 DEF RowWise, Elementwise

-----------------------------------------------------------------------------
(* One iteration over columns *)

\* The row under way starts at offset b.
RowBase(b) ==
    /\ b \in Nat /\ b = row * Stride /\ b + Stride <= Size
    /\ Here = b + (IF call.op = "rope" THEN 2 * col ELSE col)
    /\ \A i \in Nat : At(i) = b + i
    /\ \A k \in b..b + Stride - 1 :
         k % Stride = k - b /\ k \div Stride = row /\ RowOf(k) = b..b + Width - 1

\* Every row the loops reach has its place.
LEMMA RowBased ==
  ASSUME Geometry, row \in 0..Rows - 1, col \in Nat
  PROVE  \E b : RowBase(b)
<1>1. Size \in Nat /\ Width \in Nat /\ Stride \in Nat /\ Rows \in Nat /\ Rows * Stride = Size
  BY DEF Geometry
<1>2. PICK b \in Nat, e \in Nat : b = row * Stride /\ e = Rows * Stride /\ b + Stride <= e
  BY <1>1, RowFits
<1>3. \A i \in Nat : At(i) = b + i
  BY <1>2 DEF At
<1>4. ASSUME NEW k \in b..b + Stride - 1
      PROVE  k % Stride = k - b /\ k \div Stride = row /\ RowOf(k) = b..b + Width - 1
  <2>1. PICK i \in Nat : k = b + i /\ i < Stride
    <3>1. k - b \in Nat /\ k = b + (k - b) /\ k - b < Stride
      BY <1>1
    <3> QED BY <3>1
  <2>2. (b + i) % Stride = i /\ (b + i) \div Stride = row
    BY <1>1, <1>2, <2>1, RowAndColumn
  <2>3. k - (k % Stride) = b
    BY <2>1, <2>2
  <2>4. RowOf(k) = b..b + Width - 1
    BY <2>3 DEF RowOf
  <2> QED BY <2>1, <2>2, <2>4
<1>5. Here = b + (IF call.op = "rope" THEN 2 * col ELSE col)
  BY <1>2 DEF Here
<1>6. b + Stride <= Size
  BY <1>1, <1>2
<1> QED BY <1>2, <1>3, <1>4, <1>5, <1>6 DEF RowBase

\* The iteration is over n columns from col on.
Iterates(n) == /\ n \in Nat \ {0} /\ col + n <= Width
               /\ Chunk = col..col + n - 1 /\ Cardinality(Chunk) = n

\* An iteration takes at least one column, and none past the row.
LEMMA ChunkIterates ==
  ASSUME Geometry, col \in 0..Width - 1,
         call.backend = "x86_opt" => col \in {0, Width}
  PROVE  \E n : Iterates(n)
<1>1. Width \in Nat /\ Lanes \in Nat \ {0}
  BY LanesAssumption DEF Geometry
<1>2. CASE call.backend = "x86_opt"
  <2>1. col = 0
    BY <1>2
  <2>2. Chunk = 0..Width - 1
    BY <1>2 DEF Chunk
  <2>3. PICK w \in Nat \ {0} : w = Width
    BY <1>1, <2>1
  <2>4. Cardinality(0..w - 1) = w
    BY FS_Interval
  <2> QED BY <2>1, <2>2, <2>3, <2>4 DEF Iterates
<1>3. CASE call.backend # "x86_opt" /\ call.backend = "avx2" /\ col + Lanes <= Width
  <2>1. Chunk = col..col + Lanes - 1
    BY <1>3 DEF Chunk
  <2>2. Cardinality(col..col + Lanes - 1) = Lanes
    <3>1. PICK c \in Nat, l \in Nat \ {0} : c = col /\ l = Lanes
      BY <1>1
    <3>2. Cardinality(c..c + l - 1) = l
      <4>1. c + l - 1 \in Int /\ c <= c + l - 1 /\ (c + l - 1) - c + 1 = l
        OBVIOUS
      <4> QED BY <4>1, FS_Interval
    <3> QED BY <3>1, <3>2
  <2> QED BY <1>1, <1>3, <2>1, <2>2 DEF Iterates
<1>4. CASE call.backend # "x86_opt" /\ ~(call.backend = "avx2" /\ col + Lanes <= Width)
  <2>1. Chunk = {col}
    BY <1>4 DEF Chunk
  <2>2. Cardinality({col}) = 1
    BY FS_Singleton
  <2>3. {col} = col..col + 1 - 1
    BY <1>1
  <2>4. col + 1 <= Width
    BY <1>1
  <2> QED BY <2>1, <2>2, <2>3, <2>4 DEF Iterates
<1> QED BY <1>2, <1>3, <1>4

\* What a load finds: in a tensor that is not the output, and in the output
\* ahead of the stores of this run.
LEMMA LoadOther ==
  ASSUME TensorsKept, NEW t \in DOMAIN call.shape, t # call.out,
         NEW k \in 0..Numel(Shape(t)) - 1
  PROVE  Load(t, k) = Original(t, k)
<1>1. mem[t] = [j \in 0..Numel(Shape(t)) - 1 |-> Original(t, j)]
  BY DEF TensorsKept, Fresh, Shape
<1> QED BY <1>1 DEF Load

\* A load from the output finds what is there.
LEMMA LoadOut ==
  ASSUME TensorsKept, NEW k \in 0..Size - 1
  PROVE  Load(call.out, k) = Out(k)
<1>1. DOMAIN mem[call.out] = 0..Size - 1
  BY DEF TensorsKept
<1> QED BY <1>1 DEF Load, Out

\* Of a call that is made again without a reset no operand is the output.
Separate == Rerun => \A n \in 1..Operands(call.op) : call.in[n] # call.out

\* A load ahead of the stores of a run finds the tensor as it was.
LEMMA LoadAhead ==
  ASSUME TensorsKept, Elements, pc = "pass", NEW t \in DOMAIN call.shape,
         t = call.out => ~Rerun,
         NEW k \in 0..Size - 1, k \in 0..Numel(Shape(t)) - 1,
         ~Through(k), ~Halfway(k)
  PROVE  Load(t, k) = Original(t, k)
<1>1. CASE t # call.out
  BY <1>1, LoadOther
<1>2. CASE t = call.out
  <2>1. Element(k)
    BY DEF Elements
  <2>2. Untouched(k)
    BY <2>1 DEF Element
  <2>3. Out(k) = Original(call.out, k)
    BY <1>2, <2>2 DEF Untouched
  <2> QED BY <1>2, <2>3, LoadOut
<1> QED BY <1>1, <1>2

\* An iteration of a pass, over columns col to col + n - 1 of the row at b.
Iteration(b, n) ==
    /\ pc = "pass" /\ col \in Nat /\ col < Width /\ IsCall(call)
    /\ TensorsKept /\ Elements /\ Sums /\ Counters
    /\ Geometry /\ Operands2 /\ Separate
    /\ RowBase(b) /\ Iterates(n)

\* The offset of one of its columns.
Reached(b, i) ==
    /\ At(i) = b + i /\ b + i \in 0..Size - 1 /\ i \in 0..Width - 1
    /\ (b + i) % Stride = i /\ (b + i) \div Stride = row
    /\ RowOf(b + i) = b..b + Width - 1
    /\ ~Through(b + i) /\ (Halfway(b + i) <=> call.op = "softmax" /\ pass = 3)

\* Every column of an iteration is reached, none before its turn.
LEMMA Reaches ==
  ASSUME NEW b, NEW n, Iteration(b, n), call.op # "rope", NEW i \in col..col + n - 1
  PROVE  Reached(b, i) /\ i \in Nat
<1>1. /\ pc = "pass" /\ col \in Nat /\ n \in Nat /\ col + n <= Width
      /\ b \in Nat /\ b = row * Stride /\ b + Stride <= Size /\ Here = b + col
      /\ \A j \in Nat : At(j) = b + j
      /\ \A k \in b..b + Stride - 1 :
           k % Stride = k - b /\ k \div Stride = row /\ RowOf(k) = b..b + Width - 1
  BY DEF Iteration, Iterates, RowBase
<1>2. Width \in Nat /\ Stride = Width /\ Size \in Nat
  BY DEF Iteration, Geometry
<1>3. PICK w \in Nat, z \in Nat, c \in Nat, h \in Nat :
        w = Width /\ z = Size /\ c = col /\ h = n
  BY <1>1, <1>2
<1>4. i \in c..c + h - 1 /\ c + h <= w /\ b + w <= z /\ Stride = w
  BY <1>1, <1>2, <1>3
<1>5. i \in Nat /\ i < w /\ c <= i /\ i \in 0..w - 1
  BY <1>4
<1>6. /\ b + i \in b..b + w - 1 /\ b + i \in 0..z - 1 /\ (b + i) - b = i
      /\ ~(b + i < b) /\ ~(b + i < b + c) /\ b + i >= b + c /\ b + i < b + w
  <2>1. b \in Nat /\ i \in Nat /\ i < w /\ c <= i /\ b + w <= z
    BY <1>1, <1>4, <1>5
  <2> QED BY <2>1
<1>7. ~Through(b + i)
  BY <1>1, <1>3, <1>6 DEF Through
<1>9. Halfway(b + i) <=> call.op = "softmax" /\ pass = 3
  BY <1>1, <1>3, <1>4, <1>6 DEF Halfway
<1>8. /\ At(i) = b + i /\ (b + i) % Stride = i /\ (b + i) \div Stride = row
      /\ RowOf(b + i) = b..b + Width - 1
  BY <1>1, <1>3, <1>4, <1>5, <1>6
<1> QED BY <1>3, <1>4, <1>5, <1>6, <1>7, <1>8, <1>9 DEF Reached

\* Every operand is still as it was at the columns of the iteration.
LEMMA LoadColumn ==
  ASSUME NEW b, NEW n, Iteration(b, n), NEW i, Reached(b, i),
         NEW m \in 1..Operands(call.op), Numel(Shape(call.in[m])) = Size,
         ~(call.op = "softmax" /\ pass = 3)
  PROVE  Load(call.in[m], b + i) = Original(call.in[m], b + i)
<1>1. call.in[m] \in DOMAIN call.shape
  BY CallParts DEF Iteration
<1>2. call.in[m] = call.out => ~Rerun
  BY DEF Iteration, Separate
<1>3. b + i \in 0..Size - 1 /\ ~Through(b + i) /\ ~Halfway(b + i)
  BY DEF Reached
<1>4. TensorsKept /\ Elements /\ pc = "pass"
  BY DEF Iteration
<1> QED BY <1>1, <1>2, <1>3, <1>4, LoadAhead

\* The first pass, and operators of one pass, load what was there.
LEMMA LoadFirst ==
  ASSUME NEW b, NEW n, Iteration(b, n), NEW i, Reached(b, i),
         call.op # "token_embd", ~(call.op = "softmax" /\ pass = 3)
  PROVE  Load(X, At(i)) = Was(b + i)
<1>1. 1 \in 1..Operands(call.op)
  BY DEF Operands
<1>2. Numel(Shape(call.in[1])) = Size
  BY DEF Iteration, Operands2, X
<1>3. Load(call.in[1], b + i) = Original(call.in[1], b + i)
  BY <1>1, <1>2, LoadColumn
<1> QED BY <1>3 DEF X, Was, Reached

\* The value of a column, operator by operator.
LEMMA SumRight ==
  ASSUME NEW b, NEW n, Iteration(b, n), NEW i, Reached(b, i), call.op = "add"
  PROVE  Value(i) = Result(b + i)
<1>1. Load(X, At(i)) = Was(b + i)
  BY LoadFirst
<1>2. 2 \in 1..Operands(call.op)
  BY DEF Operands
<1>3. Numel(Shape(call.in[2])) = Size
  BY DEF Iteration, Operands2
<1>4. Load(call.in[2], At(i)) = Original(call.in[2], b + i)
  BY <1>2, <1>3, LoadColumn DEF Reached
<1> QED BY <1>1, <1>4 DEF Value, Sum, Result, RefAdd

\* The same of scale and of gelu.
LEMMA ScaleRight ==
  ASSUME NEW b, NEW n, Iteration(b, n), NEW i, Reached(b, i), call.op = "scale"
  PROVE  Value(i) = Result(b + i)
<1>1. Load(X, At(i)) = Was(b + i)
  BY LoadFirst
<1> QED BY <1>1 DEF Value, Scaled, Result, RefScale

LEMMA GeluRight ==
  ASSUME NEW b, NEW n, Iteration(b, n), NEW i, Reached(b, i), call.op = "gelu"
  PROVE  Value(i) = Result(b + i)
<1>1. Load(X, At(i)) = Was(b + i)
  BY LoadFirst
<1> QED BY <1>1 DEF Value, Gelu, Result, RefGelu

\* The sums of the passes that are through, as sets of the row's elements.
LEMMA RowSums ==
  ASSUME NEW b, NEW n, Iteration(b, n), call.op \in RowWise
  PROVE  /\ pass > 1 => acc[1] = SetToBag({Was(k) : k \in b..b + Width - 1})
         /\ pass > 2 => acc[2] = SetToBag({Second(k) : k \in b..b + Width - 1})
<1>1. /\ acc[1] = SetToBag({Was(At(i)) : i \in 0..Summed(1) - 1})
      /\ acc[2] = SetToBag({Second(At(i)) : i \in 0..Summed(2) - 1})
      /\ pass \in 1..Passes
  BY DEF Iteration, Sums, Counters
<1>2. pass \in 1..3
  BY <1>1 DEF Passes
<1>3. b \in Nat /\ \A i \in Nat : At(i) = b + i
  BY DEF Iteration, RowBase
<1>4. PICK w \in Nat : w = Width
  BY DEF Iteration, Geometry
<1>5. ASSUME pass > 1
      PROVE  {Was(At(i)) : i \in 0..Summed(1) - 1} = {Was(k) : k \in b..b + Width - 1}
  <2>1. Summed(1) = w
    BY <1>2, <1>4, <1>5 DEF Summed
  <2>2. \A i \in 0..w - 1 : At(i) = b + i /\ b + i \in b..b + w - 1
    BY <1>3
  <2>3. \A k \in b..b + w - 1 : k - b \in 0..w - 1 /\ At(k - b) = k
    BY <1>3
  <2> QED BY <1>4, <2>1, <2>2, <2>3, Zenon
<1>6. ASSUME pass > 2
      PROVE  {Second(At(i)) : i \in 0..Summed(2) - 1} = {Second(k) : k \in b..b + Width - 1}
  <2>1. Summed(2) = w
    BY <1>2, <1>4, <1>6 DEF Summed
  <2>2. \A i \in 0..w - 1 : At(i) = b + i /\ b + i \in b..b + w - 1
    BY <1>3
  <2>3. \A k \in b..b + w - 1 : k - b \in 0..w - 1 /\ At(k - b) = k
    BY <1>3
  <2> QED BY <1>4, <2>1, <2>2, <2>3, Zenon
<1> QED BY <1>1, <1>5, <1>6

\* What softmax stores in its second and in its third pass.
LEMMA SoftmaxRight ==
  ASSUME NEW b, NEW n, Iteration(b, n), NEW i, Reached(b, i), call.op = "softmax"
  PROVE  /\ pass = 1 => Value(i) = Was(b + i)
         /\ pass = 2 => Value(i) = RowExp(b + i)
         /\ pass = 3 => Value(i) = Result(b + i)
<1>1. call.op \in RowWise
  BY DEF RowWise
<1>2. /\ pass > 1 => acc[1] = SetToBag({Was(k) : k \in b..b + Width - 1})
      /\ pass > 2 => acc[2] = SetToBag({Second(k) : k \in b..b + Width - 1})
  BY <1>1, RowSums
<1>3. /\ At(i) = b + i /\ RowOf(b + i) = b..b + Width - 1 /\ b + i \in 0..Size - 1
      /\ ~Through(b + i) /\ (Halfway(b + i) <=> call.op = "softmax" /\ pass = 3)
  BY DEF Reached
<1>4. ASSUME pass = 1 PROVE Value(i) = Was(b + i)
  <2>1. Load(X, At(i)) = Was(b + i)
    BY <1>4, LoadFirst
  <2> QED BY <1>4, <2>1 DEF Value, Softmax
<1>5. ASSUME pass = 2 PROVE Value(i) = RowExp(b + i)
  <2>1. Load(X, At(i)) = Was(b + i)
    BY <1>5, LoadFirst
  <2>2. Maximum = {Was(k) : k \in b..b + Width - 1}
    BY <1>2, <1>5, SetOfBag DEF Maximum
  <2>3. Value(i) = Exp(Was(b + i), Maximum)
    BY <1>5, <2>1 DEF Value, Softmax
  <2> QED BY <1>3, <2>2, <2>3 DEF RowExp
<1>6. ASSUME pass = 3 PROVE Value(i) = Result(b + i)
  <2>1. Halfway(b + i)
    BY <1>3, <1>6
  <2>2. Element(b + i)
    BY <1>3 DEF Iteration, Elements
  <2>3. Load(call.out, At(i)) = RowExp(b + i)
    <3>1. Out(b + i) = RowExp(b + i)
      BY <1>3, <2>1, <2>2 DEF Element
    <3>2. TensorsKept
      BY DEF Iteration
    <3>3. Load(call.out, b + i) = Out(b + i)
      BY <1>3, <3>2, LoadOut
    <3> QED BY <1>3, <3>1, <3>3
  <2>4. Value(i) = <<"share", RowExp(b + i), acc[2]>>
    BY <1>6, <2>3 DEF Value, Softmax
  <2>5. \A k \in b..b + Width - 1 : Second(k) = Exp(Was(k), {Was(j) : j \in RowOf(b + i)})
    <3> TAKE k \in b..b + Width - 1
    <3>1. PICK w \in Nat : w = Width /\ Stride = w
      BY DEF Iteration, Geometry
    <3>2. RowOf(k) = b..b + Width - 1
      BY <3>1 DEF Iteration, RowBase
    <3> QED BY <1>3, <3>2 DEF Second, RowExp
  <2>6. acc[2] = SetToBag({Exp(Was(k), {Was(j) : j \in RowOf(b + i)}) : k \in RowOf(b + i)})
    <3> DEFINE E(k) == Exp(Was(k), {Was(j) : j \in RowOf(b + i)})
               R == b..b + Width - 1
    <3>2. \A k \in R : Second(k) = E(k)
      BY <2>5
    <3>3. RowOf(b + i) = R
      BY <1>3
    <3> HIDE DEF E, R
    <3>4. {Second(k) : k \in R} = {E(k) : k \in R}
      BY <3>2, Zenon
    <3>1. {Second(k) : k \in b..b + Width - 1}
            = {Exp(Was(k), {Was(j) : j \in RowOf(b + i)}) : k \in RowOf(b + i)}
      BY <3>3, <3>4, Zenon DEF E, R
    <3>5. acc[2] = SetToBag({Second(k) : k \in b..b + Width - 1})
      BY <1>2, <1>6
    <3> QED BY <3>1, <3>5, Zenon
  <2>7. Result(b + i) = RefSoftmax(b + i)
    BY DEF Result
  <2> QED BY <2>4, <2>6, <2>7 DEF RefSoftmax, RowExp
<1> QED BY <1>4, <1>5, <1>6

\* What layer_norm stores in its third pass.
LEMMA NormRight ==
  ASSUME NEW b, NEW n, Iteration(b, n), NEW i, Reached(b, i), call.op = "layer_norm"
  PROVE  /\ pass = 1 => Value(i) = Was(b + i)
         /\ pass = 2 => Value(i) = Second(b + i)
         /\ pass = 3 => Value(i) = Result(b + i)
<1>1. call.op \in RowWise
  BY DEF RowWise
<1>2. /\ pass > 1 => acc[1] = SetToBag({Was(k) : k \in b..b + Width - 1})
      /\ pass > 2 => acc[2] = SetToBag({Second(k) : k \in b..b + Width - 1})
  BY <1>1, RowSums
<1>3. /\ At(i) = b + i /\ RowOf(b + i) = b..b + Width - 1 /\ (b + i) % Stride = i
      /\ b + i \in 0..Size - 1 /\ ~Through(b + i) /\ i \in 0..Width - 1
      /\ ~Halfway(b + i)
  BY DEF Reached
<1>4. Load(X, At(i)) = Was(b + i)
  BY LoadFirst
<1>5. ASSUME pass = 1 PROVE Value(i) = Was(b + i)
  BY <1>4, <1>5 DEF Value, LayerNorm
<1>6. \A k \in b..b + Width - 1 : RowOf(k) = b..b + Width - 1
  <2>1. PICK w \in Nat : w = Width /\ Stride = w
    BY DEF Iteration, Geometry
  <2> QED BY <2>1 DEF Iteration, RowBase
<1>7. ASSUME pass > 1 PROVE acc[1] = RowMean(b + i)
  BY <1>2, <1>3, <1>7 DEF RowMean
<1>8. ASSUME pass = 2 PROVE Value(i) = Second(b + i)
  <2>1. acc[1] = RowMean(b + i)
    BY <1>7, <1>8
  <2> QED BY <1>4, <1>8, <2>1 DEF Value, LayerNorm, Second
<1>9. ASSUME pass = 3 PROVE Value(i) = Result(b + i)
  <2>1. acc[1] = RowMean(b + i)
    BY <1>7, <1>9
  <2>2. ASSUME NEW m \in {2, 3}
        PROVE  Load(call.in[m], i) = Original(call.in[m], i)
    <3>1. m \in 1..Operands(call.op)
      BY DEF Operands
    <3>2. call.in[m] \in DOMAIN call.shape /\ Numel(Shape(call.in[m])) = Width
      BY DEF Iteration, Operands2
    <3>3. TensorsKept /\ Elements /\ pc = "pass"
      BY DEF Iteration
    <3>4. CASE call.in[m] # call.out
      BY <1>3, <3>2, <3>3, <3>4, LoadOther
    <3>5. CASE call.in[m] = call.out
      <4>1. Size = Width
        BY <3>2, <3>5 DEF Size
      <4>2. b = 0
        BY <4>1 DEF Iteration, RowBase, Geometry
      <4>3. b + i = i /\ i \in 0..Size - 1
        BY <1>3, <4>1, <4>2
      <4>4. ~Rerun
        BY <3>1, <3>5 DEF Iteration, Separate
      <4>5. ~Through(i) /\ ~Halfway(i)
        BY <1>3, <4>3
      <4> QED BY <1>3, <3>2, <3>3, <4>3, <4>4, <4>5, LoadAhead
    <3> QED BY <3>4, <3>5
  <2>3. Value(i) = <<"norm", Was(b + i), RowMean(b + i), acc[2],
                     Original(call.in[2], i), Original(call.in[3], i)>>
    BY <1>4, <1>9, <2>1, <2>2 DEF Value, LayerNorm
  <2>4. \A k \in b..b + Width - 1 : Second(k) = <<"square", Was(k), RowMean(b + i)>>
    BY <1>3, <1>6 DEF Second, RowMean
  <2>5. acc[2] = SetToBag({<<"square", Was(k), RowMean(b + i)>> : k \in RowOf(b + i)})
    <3> DEFINE E(k) == <<"square", Was(k), RowMean(b + i)>>
               R == b..b + Width - 1
    <3>1. \A k \in R : Second(k) = E(k)
      BY <2>4
    <3>2. RowOf(b + i) = R
      BY <1>3
    <3>3. acc[2] = SetToBag({Second(k) : k \in R})
      BY <1>2, <1>9
    <3> HIDE DEF E, R
    <3>4. {Second(k) : k \in R} = {E(k) : k \in R}
      BY <3>1, Zenon
    <3> QED BY <3>2, <3>3, <3>4, Zenon DEF E
  <2>6. Result(b + i) = RefLayerNorm(b + i)
    BY DEF Result
  <2> QED BY <1>3, <2>3, <2>5, <2>6 DEF RefLayerNorm, RowMean
<1> QED BY <1>5, <1>8, <1>9

\* An offset within one of two rows of a table.
LEMMA InTable ==
  ASSUME NEW h \in Nat, NEW w \in Nat, NEW z \in Nat, h * w <= z,
         NEW r \in 0..h - 1, NEW i \in 0..w - 1
  PROVE  r * w + i \in 0..z - 1
<1>1. PICK p \in Nat, e \in Nat : p = r * w /\ e = h * w /\ p + w <= e
  BY RowFits
<1> QED BY <1>1

\* What token_embd copies.
LEMMA TokenRight ==
  ASSUME NEW b, NEW n, Iteration(b, n), NEW i, Reached(b, i), call.op = "token_embd"
  PROVE  Value(i) = Result(b + i)
<1>1. /\ X # call.out /\ call.ids \in Seq(Int) /\ Rows = Len(call.ids)
      /\ Shape(X)[1] \in Nat /\ Width = Shape(X)[2] /\ X \in DOMAIN call.shape
      /\ Shape(X)[1] * Width <= Numel(Shape(X)) /\ Numel(Shape(X)) \in Nat
  BY DEF Iteration, Operands2
<1>2. (b + i) % Stride = i /\ (b + i) \div Stride = row /\ i \in 0..Width - 1
  BY DEF Reached
<1>3. Width \in Nat /\ Stride = Width
  BY DEF Iteration, Geometry
<1>4. PICK r : r = Token /\ r \in 0..Shape(X)[1] - 1
  BY DEF Iteration, Counters, Known, Token
<1>5. r * Width + i \in 0..Numel(Shape(X)) - 1
  BY <1>1, <1>2, <1>3, <1>4, InTable
<1>6. TensorsKept
  BY DEF Iteration
<1>7. Load(X, r * Width + i) = Was(r * Width + i)
  BY <1>1, <1>5, <1>6, LoadOther DEF Was
<1>8. Value(i) = Was(r * Width + i)
  BY <1>4, <1>7 DEF Value, TokenRow
<1>9. Result(b + i) = Was(call.ids[(b + i) \div Stride + 1] * Width + ((b + i) % Stride))
  BY DEF Result, RefTokenEmbd
<1> QED BY <1>2, <1>4, <1>8, <1>9 DEF Token

\* All operators together.
LEMMA ValueRight ==
  ASSUME NEW b, NEW n, Iteration(b, n), NEW i, Reached(b, i), call.op # "rope"
  PROVE  /\ pass = Passes => Value(i) = Result(b + i)
         /\ call.op = "softmax" /\ pass = 2 => Value(i) = RowExp(b + i)
         /\ call.op \in RowWise /\ pass = 1 => Value(i) = Was(b + i)
         /\ call.op \in RowWise /\ pass = 2 => Value(i) = Second(b + i)
<1>1. call.op \in RowWise \cup Elementwise \cup {"token_embd"}
  BY DEF Iteration, IsCall
<1>2. CASE call.op = "softmax"
  BY <1>2, SoftmaxRight DEF Passes, RowWise, Second
<1>3. CASE call.op = "layer_norm"
  BY <1>3, NormRight DEF Passes, RowWise, Second
<1>4. CASE call.op \notin RowWise
  BY <1>1, <1>4, SumRight, ScaleRight, GeluRight, TokenRight DEF RowWise, Elementwise
<1> QED BY <1>2, <1>3, <1>4 DEF RowWise

\* rope turns one pair after the other.
LEMMA PairRight ==
  ASSUME NEW b, NEW n, Iteration(b, n), call.op = "rope"
  PROVE  /\ n = 1 /\ DOMAIN Stored = b + 2 * col..b + 2 * col + 1
         /\ \A k \in DOMAIN Stored : Stored[k] = Result(k)
<1>1. /\ pc = "pass" /\ col \in Nat /\ n \in Nat /\ col < Width /\ col + n <= Width
      /\ b \in Nat /\ b = row * Stride /\ b + Stride <= Size /\ Here = b + 2 * col
      /\ \A j \in Nat : At(j) = b + j
      /\ \A k \in b..b + Stride - 1 :
           k % Stride = k - b /\ k \div Stride = row /\ RowOf(k) = b..b + Width - 1
  BY DEF Iteration, Iterates, RowBase
<1>2. /\ Width \in Nat /\ Stride \in Nat /\ Size \in Nat /\ X = call.out /\ Rotary \in Nat
      /\ 2 * Width = Rotary /\ Rotary <= Stride
  BY DEF Iteration, Geometry
<1>3. Numel(Shape(X)) = Size /\ X \in DOMAIN call.shape /\ ~Rerun
  BY DEF Iteration, Operands2, Rerun, Reset
<1>4. PICK w \in Nat, s \in Nat, z \in Nat, c \in Nat, h \in Nat :
        w = Width /\ s = Stride /\ z = Size /\ c = col /\ h = 2 * col
        /\ h + 1 < Rotary /\ h + 1 < s /\ b + s <= z
  BY <1>1, <1>2
<1>5. h \in Nat /\ h + 1 \in Nat /\ h = 2 * c
  BY <1>4
<1>16. b \in Nat /\ 2 * col = h /\ col = c
  <2>1. b \in Nat
    BY <1>1
  <2> QED BY <1>4, <2>1
<1>6. ASSUME NEW i \in {h, h + 1}
      PROVE  /\ Load(X, At(i)) = Was(b + i) /\ At(i) = b + i
             /\ (b + i) % Stride = i /\ (b + i) \div Stride = row /\ i < Rotary
  <2>1. i \in Nat /\ i <= h + 1 /\ h <= i
    BY <1>5
  <2>2. b + i \in b..b + s - 1 /\ b + i \in 0..z - 1 /\ (b + i) - b = i /\ i < Rotary
    <3>1. b \in Nat /\ i < s /\ i \in Nat
      BY <1>1, <1>4, <2>1
    <3>2. i < Rotary
      BY <1>2, <1>4, <2>1
    <3> QED BY <1>4, <3>1, <3>2
  <2>3. At(i) = b + i /\ (b + i) % Stride = i /\ (b + i) \div Stride = row
    BY <1>1, <1>4, <2>1, <2>2
  <2>4. ~Through(b + i) /\ ~Halfway(b + i)
    <3>1. b \in Nat /\ ~(b + i < b) /\ ~(b + i < b + h)
      BY <1>5, <1>16, <2>1
    <3>2. ~Through(b + i)
      BY <1>1, <1>4, <3>1 DEF Through
    <3> QED BY <3>2 DEF Halfway
  <2>5. Load(X, b + i) = Original(X, b + i)
    BY <1>1, <1>3, <1>4, <2>2, <2>4, LoadAhead DEF Iteration
  <2> QED BY <2>2, <2>3, <2>5 DEF Was
<1>7. /\ At(2 * col) = b + h /\ At(2 * col + 1) = b + h + 1 /\ b + h # b + h + 1
      /\ b + (h + 1) = b + h + 1
  <2>1. 2 * col = h /\ 2 * col + 1 = h + 1 /\ b + (h + 1) = b + h + 1 /\ b + h # b + h + 1
    BY <1>5, <1>16
  <2>2. At(h) = b + h /\ At(h + 1) = b + (h + 1)
    BY <1>1, <1>5
  <2> QED BY <2>1, <2>2
<1>8. Load(X, At(2 * col)) = Was(b + h) /\ Load(X, At(2 * col + 1)) = Was(b + h + 1)
  <2>1. Load(X, At(h)) = Was(b + h) /\ At(h) = b + h
    BY <1>6
  <2>2. Load(X, At(h + 1)) = Was(b + (h + 1)) /\ At(h + 1) = b + (h + 1)
    BY <1>6
  <2> QED BY <1>7, <2>1, <2>2
<1> DEFINE A == row % Shape(X)[3]
<1>9. /\ DOMAIN Rotated(col) = {b + h, b + h + 1}
      /\ Rotated(col)[b + h] = <<"cos-sin", Was(b + h), Was(b + h + 1), A, col>>
      /\ Rotated(col)[b + h + 1] = <<"sin+cos", Was(b + h), Was(b + h + 1), A, col>>
  BY <1>7, <1>8 DEF Rotated
<1>10. Result(b + h) = <<"cos-sin", Was(b + h), Was(b + h + 1), A, col>>
  <2>1. /\ (b + h) % Stride = h /\ (b + h) \div Stride = row /\ ~(h >= Rotary)
        /\ h % 2 = 0 /\ h \div 2 = col
    <3>1. (b + h) % Stride = h /\ (b + h) \div Stride = row /\ h < Rotary
      BY <1>6
    <3>2. h % 2 = 0 /\ h \div 2 = c
      BY <1>5
    <3> QED BY <1>2, <1>4, <3>1, <3>2
  <2>2. (b + h) - 0 = b + h /\ (b + h) - 0 + 1 = b + h + 1
    BY <1>5, <1>16
  <2>3. Result(b + h) = RefRope(b + h)
    BY DEF Result
  <2> QED BY <2>1, <2>2, <2>3 DEF RefRope
<1>11. Result(b + h + 1) = <<"sin+cos", Was(b + h), Was(b + h + 1), A, col>>
  <2>1. /\ (b + h + 1) % Stride = h + 1 /\ (b + h + 1) \div Stride = row
        /\ ~(h + 1 >= Rotary)
    <3>1. /\ (b + (h + 1)) % Stride = h + 1 /\ (b + (h + 1)) \div Stride = row
          /\ h + 1 < Rotary
      BY <1>6
    <3> QED BY <1>2, <1>4, <1>7, <3>1
  <2>2. (h + 1) % 2 = 1 /\ (h + 1) \div 2 = col
    BY <1>4, <1>5
  <2>3. (b + h + 1) - 1 = b + h
    BY <1>1, <1>4
  <2>4. Result(b + h + 1) = RefRope(b + h + 1)
    BY DEF Result
  <2> QED BY <2>1, <2>2, <2>3, <2>4 DEF RefRope
<1>12. n = 1
  <2>1. call.backend \in {"automatic", "reference"}
    BY DEF Iteration, Counters, Refusal, Kernels
  <2>2. Chunk = {col}
    BY <2>1 DEF Chunk
  <2> QED BY <2>2, FS_Singleton DEF Iteration, Iterates
<1>13. Stored = Rotated(col)
  <2>1. Stores
    BY DEF Stores, RowWise
  <2> QED BY <2>1 DEF Stored
<1>14. b + 2 * col..b + 2 * col + 1 = {b + h, b + h + 1}
  BY <1>5, <1>16
<1>15. \A k \in DOMAIN Stored : Stored[k] = Result(k)
  BY <1>9, <1>10, <1>11, <1>13
<1> QED BY <1>9, <1>12, <1>13, <1>14, <1>15

\* What an iteration stores, and where.
LEMMA StoredRight ==
  ASSUME NEW b, NEW n, Iteration(b, n)
  PROVE  LET m == IF call.op = "rope" THEN 2 ELSE 1
         IN /\ DOMAIN Stored = IF Stores THEN b + m * col..b + m * (col + n) - 1 ELSE {}
            /\ \A k \in DOMAIN Stored :
                 Stored[k] = IF pass = Passes THEN Result(k) ELSE RowExp(k)
<1>1. CASE ~Stores
  <2>1. Stored = <<>>
    <3>1. call.op # "rope"
      BY <1>1 DEF Stores, RowWise
    <3> QED BY <1>1, <3>1 DEF Stored
  <2>2. DOMAIN Stored = {}
    BY <2>1
  <2> QED BY <1>1, <2>2
<1>2. CASE call.op = "rope"
  <2>1. Stores /\ Passes = 1 /\ pass = 1
    BY <1>2 DEF Stores, Passes, RowWise, Iteration, Counters
  <2>2. n = 1 /\ DOMAIN Stored = b + 2 * col..b + 2 * col + 1
        /\ \A k \in DOMAIN Stored : Stored[k] = Result(k)
    BY <1>2, PairRight
  <2>3. b + 2 * col + 1 = b + 2 * (col + n) - 1
    BY <2>2 DEF Iteration, RowBase
  <2> QED BY <1>2, <2>1, <2>2, <2>3
<1>3. CASE Stores /\ call.op # "rope"
  <2>1. Chunk = col..col + n - 1 /\ col \in Nat /\ n \in Nat /\ b \in Nat
        /\ \A j \in Nat : At(j) = b + j
    BY DEF Iteration, Iterates, RowBase
  <2>2. At(0) = b
    BY <2>1
  <2>3. {At(i) : i \in Chunk} = b + col..b + (col + n) - 1
    <3>1. \A i \in Chunk : At(i) \in b + col..b + (col + n) - 1
      <4> TAKE i \in Chunk
      <4>1. i \in Nat /\ col <= i /\ i <= col + n - 1
        BY <2>1
      <4>2. At(i) = b + i
        BY <2>1, <4>1
      <4>3. b + i \in b + col..b + (col + n) - 1
        BY <2>1, <4>1
      <4> QED BY <4>2, <4>3
    <3>2. \A k \in b + col..b + (col + n) - 1 : k - b \in Chunk /\ At(k - b) = k
      BY <2>1
    <3> QED BY <3>1, <3>2
  <2>4. Stored = [k \in b + col..b + (col + n) - 1 |-> Value(k - b)]
    BY <1>3, <2>2, <2>3 DEF Stored
  <2>5. ASSUME NEW k \in b + col..b + (col + n) - 1
        PROVE  Value(k - b) = IF pass = Passes THEN Result(k) ELSE RowExp(k)
    <3>1. PICK i : i = k - b /\ b + i = k /\ i \in col..col + n - 1
      BY <2>1
    <3>2. Reached(b, i)
      BY <1>3, <3>1, Reaches
    <3>3. /\ pass = Passes => Value(i) = Result(b + i)
          /\ call.op = "softmax" /\ pass = 2 => Value(i) = RowExp(b + i)
      BY <1>3, <3>2, ValueRight
    <3>4. pass = Passes \/ (call.op = "softmax" /\ pass = 2)
      <4>1. pass \in 1..Passes
        BY DEF Iteration, Counters
      <4> QED BY <1>3, <4>1 DEF Stores, Passes, RowWise
    <3> QED BY <3>1, <3>3, <3>4 DEF Passes
  <2>6. b + 1 * col = b + col /\ b + 1 * (col + n) - 1 = b + (col + n) - 1
    BY <2>1
  <2> QED BY <1>3, <2>4, <2>5, <2>6
<1> QED BY <1>1, <1>2, <1>3

-----------------------------------------------------------------------------
(* The steps of infer() *)

\* Nothing that only the call determines changes while the call does not.
LEMMA SameCall ==
  ASSUME UNCHANGED call
  PROVE  /\ X' = X /\ Size' = Size /\ Width' = Width /\ Stride' = Stride /\ Rows' = Rows
         /\ Passes' = Passes /\ Rotary' = Rotary /\ Refusal' = Refusal
         /\ Accepted' = Accepted /\ Geometry' = Geometry /\ Operands2' = Operands2
         /\ IsCall(call)' = IsCall(call)
         /\ \A t : Shape(t)' = Shape(t)
<1>1. X' = X
  BY DEF X
<1>2. \A t : Shape(t)' = Shape(t)
  BY DEF Shape
<1>3. Size' = Size
  BY <1>2 DEF Size
<1>4. Rotary' = Rotary
  BY <1>1, <1>2 DEF Rotary
<1>5. Width' = Width
  BY <1>1, <1>2, <1>4, Zenon DEF Width
<1>6. Stride' = Stride
  BY <1>1, <1>2, <1>5, Zenon DEF Stride
<1>7. Rows' = Rows
  BY <1>1, <1>2, <1>5, Zenon DEF Rows
<1>8. Passes' = Passes
  BY DEF Passes
<1>9. Refusal' = Refusal
  BY Zenon DEF Refusal, Kernels
<1>10. Accepted' = Accepted
  BY <1>1, <1>2, <1>4, <1>5, Zenon
     DEF Accepted, SameShapes, SoftmaxAccepted, NormAccepted, RopeAccepted
<1>11. Geometry' = Geometry
  BY <1>1, <1>3, <1>4, <1>5, <1>6, <1>7, Zenon DEF Geometry
<1>12. Operands2' = Operands2
  BY <1>1, <1>2, <1>3, <1>5, <1>7, Zenon DEF Operands2
<1>13. IsCall(call)' = IsCall(call)
  BY Zenon DEF IsCall, HasRows
<1> QED BY <1>1, <1>2, <1>3, <1>4, <1>5, <1>6, <1>7, <1>8, <1>9, <1>10, <1>11, <1>12, <1>13

\* Nor does what the output should be.
LEMMA SameResult ==
  ASSUME UNCHANGED call
  PROVE  /\ \A k : Result(k)' = Result(k) /\ RowExp(k)' = RowExp(k)
         /\ \A k : Was(k)' = Was(k) /\ Second(k)' = Second(k)
         /\ \A k : RowOf(k)' = RowOf(k)
<1>1. X' = X /\ Width' = Width /\ Stride' = Stride /\ Rotary' = Rotary
      /\ \A t : Shape(t)' = Shape(t)
  BY SameCall
<1>2. \A k : RowOf(k)' = RowOf(k)
  BY <1>1 DEF RowOf
<1>3. \A k : Was(k)' = Was(k)
  BY <1>1 DEF Was
<1>4. \A k : RowExp(k)' = RowExp(k)
  BY <1>2, <1>3, Zenon DEF RowExp
<1>5. \A k : RowMean(k)' = RowMean(k)
  BY <1>2, <1>3, Zenon DEF RowMean
<1>6. \A k : Second(k)' = Second(k)
  BY <1>3, <1>4, <1>5, Zenon DEF Second
<1>7. ASSUME NEW k PROVE Result(k)' = Result(k)
  <2>1. RefAdd(k)' = RefAdd(k) /\ RefScale(k)' = RefScale(k) /\ RefGelu(k)' = RefGelu(k)
    BY <1>3 DEF RefAdd, RefScale, RefGelu
  <2>2. RefSoftmax(k)' = RefSoftmax(k)
    BY <1>2, <1>3, Zenon DEF RefSoftmax
  <2>3. RefLayerNorm(k)' = RefLayerNorm(k)
    BY <1>1, <1>2, <1>3, Zenon DEF RefLayerNorm
  <2>4. RefTokenEmbd(k)' = RefTokenEmbd(k)
    BY <1>1, <1>3, Zenon DEF RefTokenEmbd
  <2>5. RefRope(k)' = RefRope(k)
    BY <1>1, <1>3, Zenon DEF RefRope
  <2> QED BY <2>1, <2>2, <2>3, <2>4, <2>5, Zenon DEF Result
<1> QED BY <1>2, <1>3, <1>4, <1>6, <1>7

\* Storing g over part of the output.
LEMMA StoreOver ==
  ASSUME TensorsKept, UNCHANGED call, call.out \in DOMAIN call.shape, Size \in Nat,
         NEW g, DOMAIN g \subseteq 0..Size - 1,
         mem' = [mem EXCEPT ![call.out] = [k \in DOMAIN @ \cup DOMAIN g |->
                    IF k \in DOMAIN g THEN g[k] ELSE @[k]]]
  PROVE  /\ TensorsKept'
         /\ \A k \in 0..Size - 1 : Out(k)' = IF k \in DOMAIN g THEN g[k] ELSE Out(k)
<1>1. Size' = Size
  BY SameCall
<1>2. DOMAIN mem = DOMAIN call.shape /\ DOMAIN mem[call.out] = 0..Size - 1
  BY DEF TensorsKept
<1>3. DOMAIN mem[call.out] \cup DOMAIN g = 0..Size - 1
  BY <1>2
<1>4. mem'[call.out] = [k \in 0..Size - 1 |->
                           IF k \in DOMAIN g THEN g[k] ELSE mem[call.out][k]]
  BY <1>2, <1>3
<1>5. \A k \in 0..Size - 1 : Out(k)' = IF k \in DOMAIN g THEN g[k] ELSE Out(k)
  BY <1>4 DEF Out
<1>6. mem' = [t \in DOMAIN call'.shape |-> mem'[t]]
  BY <1>2
<1>7. \A t \in DOMAIN call'.shape \ {call'.out} : mem'[t] = Fresh(t, call'.shape[t])
  BY <1>2 DEF TensorsKept
<1>8. mem'[call'.out] = [k \in 0..Size' - 1 |-> Out(k)']
  BY <1>1, <1>4 DEF Out
<1> QED BY <1>5, <1>6, <1>7, <1>8 DEF TensorsKept

\* From offset s up to e: what an iteration reaches.
Span(b, s, e) ==
    /\ b \in Nat /\ s \in Nat /\ e \in Nat
    /\ b <= s /\ s < e /\ e <= b + Stride /\ e <= Size
    /\ row * Stride = b /\ Here = s
    /\ DOMAIN Stored = IF Stores THEN s..e - 1 ELSE {}
    /\ \A k \in DOMAIN Stored : Stored[k] = IF pass = Passes THEN Result(k) ELSE RowExp(k)

\* Every iteration has such a span.
LEMMA Spans ==
  ASSUME NEW b, NEW n, Iteration(b, n), Visit
  PROVE  \E s, e : Span(b, s, e) /\ Here' = e
<1>1. /\ col \in Nat /\ n \in Nat \ {0} /\ col + n <= Width /\ Cardinality(Chunk) = n
      /\ b \in Nat /\ b = row * Stride /\ b + Stride <= Size
      /\ Here = b + (IF call.op = "rope" THEN 2 * col ELSE col)
  BY DEF Iteration, Iterates, RowBase
<1>2. /\ Width \in Nat /\ Stride \in Nat /\ Size \in Nat
      /\ call.op # "rope" => Stride = Width
      /\ call.op = "rope" => Rotary \in Nat /\ 2 * Width = Rotary /\ Rotary <= Stride
  BY DEF Iteration, Geometry
<1>3. UNCHANGED <<call, row>> /\ col' = col + n
  BY <1>1 DEF Visit
<1>4. Stride' = Stride
  BY <1>3, SameCall
<1> DEFINE m == IF call.op = "rope" THEN 2 ELSE 1
<1>5. PICK c \in Nat, h \in Nat, w \in Nat, q \in Nat :
        c = col /\ h = n /\ w = Width /\ q = Stride /\ h > 0 /\ c + h <= w /\ m * w <= q
  BY <1>1, <1>2
<1>6. PICK s \in Nat, e \in Nat : s = b + m * c /\ e = b + m * (c + h)
  BY <1>1, <1>5
<1>7. b <= s /\ s < e /\ e <= b + q
  BY <1>1, <1>5, <1>6
<1>8. Here = s
  BY <1>1, <1>5, <1>6
<1>9. Here' = e
  <2>1. row' * Stride' = b
    BY <1>1, <1>3, <1>4
  <2>2. Here' = b + (IF call.op = "rope" THEN 2 * (c + h) ELSE c + h)
    BY <1>3, <1>5, <2>1 DEF Here
  <2> QED BY <1>1, <1>5, <1>6, <2>2
<1>10. e <= Size
  BY <1>1, <1>2, <1>5, <1>6, <1>7
<1>11. /\ DOMAIN Stored = IF Stores THEN s..e - 1 ELSE {}
       /\ \A k \in DOMAIN Stored :
            Stored[k] = IF pass = Passes THEN Result(k) ELSE RowExp(k)
  <2>1. /\ DOMAIN Stored = IF Stores THEN b + m * col..b + m * (col + n) - 1 ELSE {}
        /\ \A k \in DOMAIN Stored :
             Stored[k] = IF pass = Passes THEN Result(k) ELSE RowExp(k)
    BY StoredRight
  <2>2. b + m * col = s /\ b + m * (col + n) - 1 = e - 1
    BY <1>1, <1>5, <1>6
  <2> HIDE DEF m
  <2>3. DOMAIN Stored = IF Stores THEN s..e - 1 ELSE {}
    BY <2>1, <2>2
  <2> QED BY <2>1, <2>3
<1> QED BY <1>1, <1>5, <1>6, <1>7, <1>8, <1>9, <1>10, <1>11 DEF Span

\* The elements and the tensors after an iteration.
LEMMA VisitElements ==
  ASSUME NEW b, NEW n, Iteration(b, n), Visit, UNCHANGED phase
  PROVE  TensorsKept' /\ Elements'
<1>1. PICK s, e : Span(b, s, e) /\ Here' = e
  BY Spans
<1>2. /\ b \in Nat /\ s \in Nat /\ e \in Nat
      /\ b <= s /\ s < e /\ e <= b + Stride /\ e <= Size
      /\ row * Stride = b /\ Here = s
      /\ DOMAIN Stored = IF Stores THEN s..e - 1 ELSE {}
      /\ \A k \in DOMAIN Stored :
           Stored[k] = IF pass = Passes THEN Result(k) ELSE RowExp(k)
  BY <1>1 DEF Span
<1>3. UNCHANGED <<call, pc, row, pass>> /\ pc = "pass"
      /\ mem' = [mem EXCEPT ![call.out] = [k \in DOMAIN @ \cup DOMAIN Stored |->
                    IF k \in DOMAIN Stored THEN Stored[k] ELSE @[k]]]
  BY DEF Visit
<1>4. TensorsKept /\ Elements /\ Size \in Nat /\ Stride \in Nat
      /\ call.out \in DOMAIN call.shape /\ pass \in 1..Passes
  BY DEF Iteration, Geometry, IsCall, Counters
<1>5. DOMAIN Stored \subseteq 0..Size - 1
  BY <1>2, <1>4
<1>6. /\ TensorsKept'
      /\ \A k \in 0..Size - 1 : Out(k)' = IF k \in DOMAIN Stored THEN Stored[k] ELSE Out(k)
  BY <1>3, <1>4, <1>5, StoreOver
<1>7. /\ Size' = Size /\ Stride' = Stride /\ Passes' = Passes
      /\ \A k : Result(k)' = Result(k) /\ RowExp(k)' = RowExp(k)
  BY <1>3, SameCall, SameResult
<1>8. Rerun' = Rerun
  BY <1>3 DEF Rerun, Measured
<1>9. ASSUME NEW k \in 0..Size - 1
      PROVE  Element(k)'
  <2>1. Element(k)
    BY <1>3, <1>4, <1>9 DEF Elements
  <2>2. Through(k) <=> k < b \/ (pass = Passes /\ k < s)
    BY <1>2, <1>3 DEF Through
  <2>3. Through(k)' <=> k < b \/ (pass = Passes /\ k < e)
    BY <1>1, <1>2, <1>3, <1>7 DEF Through
  <2>4. Halfway(k) <=> /\ call.op = "softmax" /\ k < b + Stride
                       /\ (pass = 2 /\ k < s) \/ (pass = 3 /\ k >= s)
    BY <1>2, <1>3 DEF Halfway
  <2>5. Halfway(k)' <=> /\ call.op = "softmax" /\ k < b + Stride
                        /\ (pass = 2 /\ k < e) \/ (pass = 3 /\ k >= e)
    BY <1>1, <1>2, <1>3, <1>7 DEF Halfway
  <2>6. Out(k)' = IF Stores /\ k \in s..e - 1
                    THEN IF pass = Passes THEN Result(k) ELSE RowExp(k)
                    ELSE Out(k)
    BY <1>2, <1>6
  <2>7. Out(k)' = Out(k) => Untouched(k)' = Untouched(k)
    <3>1. Original(call.out, k)' = Original(call.out, k)
      BY <1>3
    <3> QED BY <1>7, <1>8, <3>1 DEF Untouched
  <2>8. PICK z \in Nat, q \in Nat : z = k /\ q = b + Stride /\ e <= q
    BY <1>2, <1>4
  <2>9. Stores <=> \/ call.op = "softmax" /\ pass > 1
                   \/ call.op = "layer_norm" /\ pass = 3
                   \/ call.op \notin RowWise
    BY DEF Stores
  <2>10. Passes = (IF call.op \in RowWise THEN 3 ELSE 1) /\ pass \in 1..Passes
         /\ "softmax" \in RowWise /\ "layer_norm" \in RowWise
    BY <1>4 DEF Passes, RowWise
  <2>13. call.op \in RowWise => call.op \in {"softmax", "layer_norm"}
    BY DEF RowWise
  <2>11. CASE Stores /\ s <= z /\ z < e
    <3>1. Out(k)' = IF pass = Passes THEN Result(k) ELSE RowExp(k)
      BY <1>2, <2>6, <2>8, <2>11
    <3>2. CASE pass = Passes
      BY <1>2, <1>7, <2>3, <2>8, <2>11, <3>1, <3>2 DEF Element
    <3>3. CASE pass # Passes
      <4>1. call.op = "softmax" /\ pass = 2
        BY <2>9, <2>10, <2>11, <3>3
      <4>2. ~Through(k)' /\ Halfway(k)'
        BY <1>2, <2>3, <2>5, <2>8, <2>11, <3>3, <4>1
      <4> QED BY <1>7, <3>1, <3>3, <4>2 DEF Element
    <3> QED BY <3>2, <3>3
  <2>12. CASE ~(Stores /\ s <= z /\ z < e)
    <3>1. Out(k)' = Out(k)
      BY <1>2, <2>6, <2>8, <2>12
    <3>2. Through(k)' <=> Through(k)
      <4>1. pass = Passes => Stores
        BY <2>9, <2>10, <2>13
      <4> QED BY <1>2, <2>2, <2>3, <2>8, <2>12, <4>1
    <3>3. ~Through(k) => (Halfway(k)' <=> Halfway(k))
      BY <1>2, <2>2, <2>4, <2>5, <2>8, <2>9, <2>10, <2>12
    <3> QED BY <1>7, <2>1, <2>7, <3>1, <3>2, <3>3 DEF Element
  <2> QED BY <2>11, <2>12
<1> QED BY <1>3, <1>6, <1>7, <1>9 DEF Elements

\* The sums after an iteration.
Terms(f, i, j) == {f[l] : l \in i..j - 1}

\* The bag of a range is that of its two parts.
LEMMA Adding ==
  ASSUME NEW i \in Nat, NEW j \in Nat, i <= j, NEW f,
         \A k, l \in Nat : f[k] = f[l] => k = l
  PROVE  SetToBag(Terms(f, 0, i)) (+) SetToBag(Terms(f, i, j)) = SetToBag(Terms(f, 0, j))
<1>1. Terms(f, 0, i) \cap Terms(f, i, j) = {}
  BY DEF Terms
<1>2. Terms(f, 0, i) \cup Terms(f, i, j) = Terms(f, 0, j)
  BY DEF Terms
<1> QED BY <1>1, <1>2, BagsAdd

\* An iteration adds its columns to the sums.
LEMMA VisitSums ==
  ASSUME NEW b, NEW n, Iteration(b, n), Visit
  PROVE  Sums'
<1> SUFFICES ASSUME call.op \in RowWise PROVE Sums'
  BY DEF Visit, Sums
<1>1. /\ pc = "pass" /\ col \in Nat /\ n \in Nat \ {0} /\ col + n <= Width
      /\ b \in Nat /\ \A i \in Nat : At(i) = b + i
      /\ Chunk = col..col + n - 1 /\ Cardinality(Chunk) = n
  BY DEF Iteration, Iterates, RowBase
<1>2. /\ DOMAIN acc = 1..2
      /\ acc[1] = SetToBag({Was(At(i)) : i \in 0..Summed(1) - 1})
      /\ acc[2] = SetToBag({Second(At(i)) : i \in 0..Summed(2) - 1})
  BY DEF Iteration, Sums
<1>3. Width \in Nat /\ pass \in 1..3
  BY DEF Iteration, Geometry, Counters, Passes
<1>4. /\ UNCHANGED <<call, pc, row, pass>> /\ col' = col + n
      /\ acc' = IF pass < 3
                  THEN [acc EXCEPT ![pass] = @ (+) SetToBag({Value(i) : i \in Chunk})]
                  ELSE acc
  BY <1>1 DEF Visit
<1>5. /\ \A k : Was(k)' = Was(k) /\ Second(k)' = Second(k)
      /\ Width' = Width /\ \A i : At(i)' = At(i)
  BY <1>4, SameCall, SameResult DEF At
<1>6. DOMAIN acc' = 1..2
  BY <1>2, <1>4
<1>7. ASSUME NEW i \in Chunk
      PROVE  /\ pass = 1 => Value(i) = Was(At(i))
             /\ pass = 2 => Value(i) = Second(At(i))
  <2>1. Reached(b, i) /\ call.op # "rope"
    BY <1>1, Reaches DEF RowWise
  <2> QED BY <2>1, ValueRight DEF Reached
<1>11. PICK c \in Nat, e \in Nat : c = col /\ e = col + n /\ c <= e
  BY <1>1
<1>12. /\ Chunk = c..e - 1 /\ \A i \in 0..c - 1 : i \in Nat
       /\ \A i \in 0..e - 1 : i \in Nat
       /\ \A i \in Chunk : i \in Nat
  BY <1>1, <1>11
<1>8. acc'[1] = SetToBag({Was(At(i)) : i \in 0..Summed(1)' - 1})
  <2>1. CASE pass = 1
    <3> DEFINE f == [i \in Nat |-> Was(At(i))]
    <3>1. \A i, j \in Nat : f[i] = f[j] => i = j
      BY <1>1 DEF Was, Original
    <3>2. \A i \in Nat : f[i] = Was(At(i))
      OBVIOUS
    <3> HIDE DEF f
    <3>3. Summed(1) = c /\ Summed(1)' = e
      BY <1>4, <1>11, <2>1 DEF Summed
    <3>4. {Was(At(i)) : i \in 0..c - 1} = Terms(f, 0, c)
      BY <1>12, <3>2, Zenon DEF Terms
    <3>5. {Value(i) : i \in Chunk} = Terms(f, c, e)
      <4>1. \A i \in Chunk : Value(i) = f[i]
        BY <1>7, <1>12, <2>1, <3>2
      <4> QED BY <1>12, <4>1, Zenon DEF Terms
    <3>6. {Was(At(i)) : i \in 0..e - 1} = Terms(f, 0, e)
      BY <1>12, <3>2, Zenon DEF Terms
    <3>7. SetToBag(Terms(f, 0, c)) (+) SetToBag(Terms(f, c, e))
            = SetToBag(Terms(f, 0, e))
      BY <1>11, <3>1, Adding
    <3>8. acc'[1] = acc[1] (+) SetToBag({Value(i) : i \in Chunk})
      BY <1>2, <1>4, <2>1
    <3>9. acc[1] = SetToBag(Terms(f, 0, c))
      BY <1>2, <3>3, <3>4, Zenon
    <3>10. acc'[1] = SetToBag(Terms(f, 0, e))
      BY <3>5, <3>7, <3>8, <3>9
    <3> QED BY <3>3, <3>6, <3>10, Zenon
  <2>2. CASE pass # 1
    <3>1. acc'[1] = acc[1]
      BY <1>2, <1>4, <2>2
    <3>2. Summed(1)' = Summed(1)
      BY <1>3, <1>4, <1>5, <2>2 DEF Summed
    <3> QED BY <1>2, <3>1, <3>2
  <2> QED BY <2>1, <2>2
<1>9. acc'[2] = SetToBag({Second(At(i)) : i \in 0..Summed(2)' - 1})
  <2>1. CASE pass = 2
    <3> DEFINE f == [i \in Nat |-> Second(At(i))]
    <3>1. \A i, j \in Nat : f[i] = f[j] => i = j
      <4>1. \A k, l : Second(k) = Second(l) => Was(k) = Was(l)
        BY DEF Second, RowExp, Exp
      <4>2. \A k, l : Was(k) = Was(l) => k = l
        BY DEF Was, Original
      <4>3. \A i, j \in Nat : Second(At(i)) = Second(At(j)) => i = j
        <5> TAKE i, j \in Nat
        <5>1. Second(At(i)) = Second(At(j)) => At(i) = At(j)
          BY <4>1, <4>2, Zenon
        <5>2. At(i) = b + i /\ At(j) = b + j /\ b \in Nat
          BY <1>1
        <5> QED BY <5>1, <5>2
      <4> QED BY <4>3
    <3>2. \A i \in Nat : f[i] = Second(At(i))
      OBVIOUS
    <3> HIDE DEF f
    <3>3. Summed(2) = c /\ Summed(2)' = e
      BY <1>4, <1>11, <2>1 DEF Summed
    <3>4. {Second(At(i)) : i \in 0..c - 1} = Terms(f, 0, c)
      BY <1>12, <3>2, Zenon DEF Terms
    <3>5. {Value(i) : i \in Chunk} = Terms(f, c, e)
      <4>1. \A i \in Chunk : Value(i) = f[i]
        BY <1>7, <1>12, <2>1, <3>2
      <4> QED BY <1>12, <4>1, Zenon DEF Terms
    <3>6. {Second(At(i)) : i \in 0..e - 1} = Terms(f, 0, e)
      BY <1>12, <3>2, Zenon DEF Terms
    <3>7. SetToBag(Terms(f, 0, c)) (+) SetToBag(Terms(f, c, e))
            = SetToBag(Terms(f, 0, e))
      BY <1>11, <3>1, Adding
    <3>8. acc'[2] = acc[2] (+) SetToBag({Value(i) : i \in Chunk})
      BY <1>2, <1>4, <2>1
    <3>9. acc[2] = SetToBag(Terms(f, 0, c))
      BY <1>2, <3>3, <3>4, Zenon
    <3>10. acc'[2] = SetToBag(Terms(f, 0, e))
      BY <3>5, <3>7, <3>8, <3>9
    <3> QED BY <3>3, <3>6, <3>10, Zenon
  <2>2. CASE pass # 2
    <3>1. acc'[2] = acc[2]
      BY <1>2, <1>3, <1>4, <2>2
    <3>2. Summed(2)' = Summed(2)
      BY <1>3, <1>4, <1>5, <2>2 DEF Summed
    <3> QED BY <1>2, <3>1, <3>2
  <2> QED BY <2>1, <2>2
<1>10. /\ acc'[1] = SetToBag({Was(At(i))' : i \in 0..Summed(1)' - 1})
       /\ acc'[2] = SetToBag({Second(At(i))' : i \in 0..Summed(2)' - 1})
  <2>1. \A i : Was(At(i))' = Was(At(i)) /\ Second(At(i))' = Second(At(i))
    BY <1>5
  <2> QED BY <1>8, <1>9, <2>1
<1> QED BY <1>6, <1>10 DEF Sums

\* The counters after an iteration.
LEMMA VisitCounters ==
  ASSUME NEW b, NEW n, Iteration(b, n), Visit
  PROVE  Counters'
<1>1. /\ pc = "pass" /\ col \in Nat /\ n \in Nat \ {0} /\ col + n <= Width /\ col < Width
      /\ Chunk = col..col + n - 1 /\ Cardinality(Chunk) = n /\ Width \in Nat
  BY DEF Iteration, Iterates, RowBase, Geometry
<1>2. UNCHANGED <<call, pc, row, pass>> /\ col' = col + n
  BY <1>1 DEF Visit
<1>3. /\ Refusal' = Refusal /\ Accepted' = Accepted /\ Width' = Width /\ Rows' = Rows
      /\ Passes' = Passes /\ X' = X /\ \A t : Shape(t)' = Shape(t)
  BY <1>2, SameCall
<1>4. Counters
  BY DEF Iteration
<1>5. \A j : Known(j)' = Known(j)
  BY <1>2, <1>3 DEF Known
<1>6. col' \in 0..Width
  BY <1>1, <1>2
<1>7. call.backend = "x86_opt" => col' \in {0, Width}
  <2> SUFFICES ASSUME call.backend = "x86_opt" PROVE col + n = Width
    BY <1>2
  <2>1. Chunk = 0..Width - 1
    BY DEF Chunk
  <2>2. col = 0
    BY <1>1, <1>4 DEF Counters
  <2>3. Width - 1 \in Chunk /\ n - 1 \in Chunk
    BY <1>1, <2>1, <2>2
  <2> QED BY <1>1, <2>2, <2>3
<1> QED BY <1>1, <1>2, <1>3, <1>4, <1>5, <1>6, <1>7 DEF Counters

\* Tensors whose output is as promised up to offset n.
LEMMA Done ==
  ASSUME TensorsKept, NEW n,
         \A k \in 0..Size - 1 : Out(k) = IF k < n THEN Result(k) ELSE Original(call.out, k)
  PROVE  mem = DoneUpTo(n)
<1> DEFINE T(t) == [k \in 0..Numel(Shape(t)) - 1 |->
                      IF t = call.out /\ k < n THEN Result(k) ELSE Original(t, k)]
<1>1. mem = [t \in DOMAIN call.shape |-> mem[t]] /\ DOMAIN mem = DOMAIN call.shape
  BY DEF TensorsKept
<1>2. ASSUME NEW t \in DOMAIN call.shape PROVE mem[t] = T(t)
  <2>1. CASE t # call.out
    BY <2>1 DEF TensorsKept, Fresh, Shape
  <2>2. CASE t = call.out
    BY <2>2 DEF TensorsKept, Size
  <2> QED BY <2>1, <2>2
<1>3. DoneUpTo(n) = [t \in DOMAIN mem |-> T(t)]
  BY DEF DoneUpTo
<1> HIDE DEF T
<1> QED BY <1>1, <1>2, <1>3

\* A call is one of Calls or one that bench_ops makes, which no operator refuses
\* for its parameters.
Fits ==
    /\ Refusal \in {"none", "unsupported"}
    /\ call.op \notin Products =>
         /\ Accepted /\ (call.op \in RowWise => Width > 0)
         /\ call.op = "token_embd" => \A n \in 1..Rows : Known(n)
CallFits ==
    /\ call.out \in DOMAIN call.shape /\ Size \in Nat /\ Separate
    /\ call.op \notin Products => IsCall(call)
    /\ Measured => Fits
Runs == TensorsKept /\ Elements /\ Sums /\ Counters /\ Answers

\* A return on which the output is as promised up to offset n.
LEMMA Returns ==
  ASSUME Runs, CallFits, NEW s \in {"ok", "invalid_argument", "unsupported", "crashed"},
         Return(s), UNCHANGED phase, NEW n,
         \A k \in 0..Size - 1 : Out(k) = IF k < n THEN Result(k) ELSE Original(call.out, k),
         s = "ok" => Refusal = "none" /\ n = Size,
         s # "ok" => n = IF call.op = "token_embd" /\ Refusal = "none"
                           THEN KnownPrefix * Width ELSE 0,
         Measured => s = IF Refusal = "none" THEN "ok" ELSE "unsupported"
  PROVE  Runs'
<1>1. /\ pc' = "returned" /\ status' = s
      /\ UNCHANGED <<call, mem, row, pass, col, acc, phase>>
  BY DEF Return
<1>2. /\ X' = X /\ Size' = Size /\ Width' = Width /\ Refusal' = Refusal
      /\ \A t : Shape(t)' = Shape(t)
      /\ \A k : Result(k)' = Result(k) /\ Out(k)' = Out(k)
  BY <1>1, SameCall, SameResult DEF Out
<1>3. TensorsKept'
  BY <1>1, <1>2 DEF Runs, TensorsKept, Fresh
<1>4. Elements' /\ Sums' /\ Counters'
  BY <1>1 DEF Elements, Sums, Counters
<1>5. mem = DoneUpTo(n)
  BY Done DEF Runs
<1>6. s # "ok" => ErrorsKeepPrefix'
  <2> SUFFICES ASSUME s # "ok" PROVE ErrorsKeepPrefix'
    OBVIOUS
  <2>1. n = IF call.op = "token_embd" /\ Refusal = "none" THEN KnownPrefix * Width ELSE 0
    OBVIOUS
  <2>2. KnownPrefix' = KnownPrefix
    BY <1>1, <1>2 DEF KnownPrefix
  <2>3. DoneUpTo(n)' = DoneUpTo(n)
    BY <1>1, <1>2 DEF DoneUpTo
  <2>4. mem' = DoneUpTo(n)'
    BY <1>1, <1>5, <2>3
  <2>5. n = (IF call.op = "token_embd" /\ Refusal = "none" THEN KnownPrefix * Width ELSE 0)'
    BY <1>1, <1>2, <2>1, <2>2
  <2>6. ASSUME NEW x, x = n PROVE DoneUpTo(x)' = DoneUpTo(n)'
    BY <2>6
  <2> QED BY <2>4, <2>5, <2>6 DEF ErrorsKeepPrefix
<1>7. s = "ok" => ErrorsKeepPrefix'
  BY <1>1 DEF ErrorsKeepPrefix
<1>8. s = "ok" => \A k \in 0..Size - 1 : Out(k) = Result(k)
  BY DEF CallFits
<1>9. Measured' = Measured
  BY <1>1 DEF Measured
<1>10. Answers'
  BY <1>1, <1>2, <1>6, <1>7, <1>8, <1>9 DEF Answers
<1> QED BY <1>3, <1>4, <1>10 DEF Runs

\* The checks at the head of a call.
LEMMA InferRuns ==
  ASSUME Runs, CallFits, Pristine, Infer, UNCHANGED phase, call.op \notin Products
  PROVE  Runs'
<1>1. pc = "infer"
  BY DEF Infer
<1>2. \A k \in 0..Size - 1 : Untouched(k)
  BY <1>1 DEF Runs, Elements
<1>3. \A k \in 0..Size - 1 : ~(k < 0)
  BY DEF CallFits
<1>4. ~Measured => \A k \in 0..Size - 1 : Out(k) = Original(call.out, k)
  BY <1>2 DEF Untouched, Rerun
<1>5. CASE Refusal # "none"
  <2>1. Return(Refusal)
    BY <1>5 DEF Infer
  <2>2. Refusal \in {"invalid_argument", "unsupported"}
    BY <1>5 DEF Refusal
  <2>3. \A k \in 0..Size - 1 : Out(k) = Original(call.out, k)
    BY <1>4, <1>5 DEF Pristine
  <2>4. \A k \in 0..Size - 1 : Out(k) = IF k < 0 THEN Result(k) ELSE Original(call.out, k)
    BY <1>3, <2>3
  <2>5. Measured => Refusal = "unsupported"
    BY <1>5 DEF CallFits, Fits
  <2> QED BY <1>5, <2>1, <2>2, <2>4, <2>5, Returns
<1>6. CASE Refusal = "none" /\ (~Accepted \/ (call.op \in RowWise /\ Width = 0))
  <2>1. PICK s \in {"invalid_argument", "crashed"} : Return(s)
    BY <1>6 DEF Infer
  <2>2. ~Measured
    BY <1>6 DEF CallFits, Fits
  <2>3. call.op # "token_embd"
    BY <1>6 DEF Accepted, RowWise
  <2>4. \A k \in 0..Size - 1 : Out(k) = IF k < 0 THEN Result(k) ELSE Original(call.out, k)
    BY <1>3, <1>4, <2>2
  <2> QED BY <2>1, <2>2, <2>3, <2>4, Returns
<1>7. CASE Refusal = "none" /\ Accepted /\ ~(call.op \in RowWise /\ Width = 0)
  <2>1. /\ pc' = "row" /\ row' = 0
        /\ UNCHANGED <<call, status, mem, pass, col, acc, phase>>
    BY <1>7 DEF Infer
  <2>2. IsCall(call)
    BY DEF CallFits
  <2>3. call.op \in RowWise => Width > 0
    <3> SUFFICES ASSUME call.op \in RowWise PROVE Width > 0
      OBVIOUS
    <3>1. Shape(X) # <<>>
      BY <1>7 DEF Accepted, SoftmaxAccepted, NormAccepted, RowWise
    <3>2. Shape(X) \in Seq(Nat)
      BY <2>2, CallParts
    <3>3. Width = Last(Shape(X))
      BY DEF Width, RowWise, Elementwise
    <3>4. Width \in Nat
      BY <3>1, <3>2, <3>3, NumelRows
    <3> QED BY <1>7, <3>4
  <2>4. Geometry /\ Operands2
    BY <1>7, <2>2, <2>3, GeometryHolds
  <2>5. /\ Size' = Size /\ Width' = Width /\ Refusal' = Refusal /\ Accepted' = Accepted
        /\ Rows' = Rows /\ Stride' = Stride /\ Stride \in Nat /\ Rows \in Nat
        /\ \A t : Shape(t)' = Shape(t)
        /\ \A k : Result(k)' = Result(k) /\ Out(k)' = Out(k)
    BY <2>1, <2>4, SameCall, SameResult DEF Out, Geometry
  <2>6. TensorsKept'
    BY <2>1, <2>5 DEF Runs, TensorsKept, Fresh
  <2>7. Sums'
    BY <2>1 DEF Sums
  <2>8. Counters'
    BY <1>7, <2>1, <2>3, <2>5 DEF Counters
  <2>9. Elements'
    <3>1. ASSUME NEW k \in 0..Size - 1 PROVE Element(k)'
      <4>1. Untouched(k)'
        BY <1>2, <2>1, <2>5 DEF Untouched, Rerun, Measured
      <4>2. ~Through(k)'
        BY <2>1, <2>5, <3>1 DEF Through, CallFits
      <4>3. ~Halfway(k)'
        BY <2>1 DEF Halfway
      <4> QED BY <4>1, <4>2, <4>3 DEF Element
    <3> QED BY <2>1, <2>5, <3>1 DEF Elements
  <2>10. Answers'
    <3>1. status = "none"
      BY <1>1 DEF Runs, Answers
    <3> QED BY <2>1, <3>1 DEF Answers, ErrorsKeepPrefix
  <2> QED BY <2>6, <2>7, <2>8, <2>9, <2>10 DEF Runs
<1> QED BY <1>5, <1>6, <1>7

\* While a call is in its loops, the geometry holds.
LEMMA Looping ==
  ASSUME Runs, CallFits, pc \in {"row", "pass"}
  PROVE  /\ IsCall(call) /\ Geometry /\ Operands2 /\ Refusal = "none" /\ Accepted
         /\ call.op \notin Products /\ row \in 0..Rows /\ Stride \in Nat
         /\ status = "none" /\ (pc = "pass" => col \in 0..Width)
<1>1. /\ Refusal = "none" /\ Accepted /\ call.op \notin Products
      /\ call.op \in RowWise => Width > 0
      /\ row \in 0..Rows /\ (pc = "pass" => col \in 0..Width)
  BY DEF Runs, Counters
<1>2. IsCall(call)
  BY <1>1 DEF CallFits
<1>3. Geometry /\ Operands2
  BY <1>1, <1>2, GeometryHolds
<1>4. status = "none"
  BY DEF Runs, Answers
<1> QED BY <1>1, <1>2, <1>3, <1>4 DEF Geometry

\* The first unknown token is the one at which the rows end.
LEMMA KnownUpTo ==
  ASSUME call.ids \in Seq(Int), row \in 0..Len(call.ids) - 1,
         \A n \in 1..row : Known(n), ~Known(row + 1)
  PROVE  KnownPrefix = row
<1> DEFINE unknown == {n \in DOMAIN call.ids : ~Known(n)}
<1>1. row \in Nat /\ DOMAIN call.ids = 1..Len(call.ids) /\ Len(call.ids) \in Nat
  OBVIOUS
<1>2. row + 1 \in unknown
  BY <1>1
<1>3. \A n \in unknown : row + 1 <= n
  BY <1>1
<1>4. Min(unknown) = row + 1
  <2>1. \E n \in unknown : \A m \in unknown : n <= m
    BY <1>2, <1>3
  <2>2. Min(unknown) \in unknown /\ \A m \in unknown : Min(unknown) <= m
    BY <2>1 DEF Min
  <2>3. Min(unknown) \in Int
    BY <1>1, <2>2
  <2> HIDE DEF unknown
  <2>4. Min(unknown) <= row + 1 /\ row + 1 <= Min(unknown)
    BY <1>2, <1>3, <2>2
  <2> QED BY <1>1, <2>3, <2>4
<1>5. KnownPrefix = IF unknown = {} THEN Len(call.ids) ELSE Min(unknown) - 1
  BY DEF KnownPrefix, Known
<1> QED BY <1>1, <1>2, <1>4, <1>5

\* A row begins, or the call ends.
LEMMA BeginRowRuns ==
  ASSUME Runs, CallFits, BeginRow, UNCHANGED phase
  PROVE  Runs'
<1>1. pc = "row"
  BY DEF BeginRow
<1>2. /\ IsCall(call) /\ Geometry /\ Operands2 /\ Refusal = "none" /\ Accepted
      /\ call.op \notin Products /\ row \in 0..Rows /\ Stride \in Nat /\ status = "none"
  BY <1>1, Looping
<1>3. Rows \in Nat /\ Rows * Stride = Size /\ Size \in Nat /\ Width \in Nat
  BY <1>2 DEF Geometry
<1>4. ASSUME NEW k \in 0..Size - 1
      PROVE  IF k < row * Stride THEN Out(k) = Result(k) ELSE Untouched(k)
  BY <1>1, <1>4 DEF Runs, Elements, Element, Through, Halfway
<1>5. CASE row = Rows
  <2>1. Return("ok")
    BY <1>5 DEF BeginRow
  <2>2. \A k \in 0..Size - 1 : Out(k) = IF k < Size THEN Result(k) ELSE Original(call.out, k)
    BY <1>3, <1>4, <1>5
  <2> QED BY <1>2, <2>1, <2>2, Returns
<1>6. CASE row # Rows /\ call.op = "token_embd" /\ ~KnownToken
  <2>1. Return("invalid_argument")
    BY <1>6 DEF BeginRow
  <2>2. call.ids \in Seq(Int) /\ Rows = Len(call.ids) /\ Stride = Width
    BY <1>2, <1>6 DEF Operands2, Geometry
  <2>3. ~Known(row + 1) /\ \A n \in 1..row : Known(n)
    BY <1>1, <1>6 DEF Known, KnownToken, Token, Runs, Counters
  <2>4. row \in 0..Rows - 1
    BY <1>2, <1>3, <1>6
  <2>5. KnownPrefix = row
    BY <2>2, <2>3, <2>4, KnownUpTo
  <2>6. ~Measured
    <3>1. row + 1 \in 1..Rows
      BY <1>3, <2>4
    <3> QED BY <1>6, <2>3, <3>1, <1>2 DEF CallFits, Fits
  <2>7. \A k \in 0..Size - 1 : Out(k) = IF k < KnownPrefix * Width THEN Result(k)
                                          ELSE Original(call.out, k)
    BY <1>4, <2>2, <2>5, <2>6 DEF Untouched, Rerun
  <2> QED BY <1>2, <1>6, <2>1, <2>6, <2>7, Returns
<1>7. CASE row # Rows /\ ~(call.op = "token_embd" /\ ~KnownToken)
  <2>1. /\ pc' = "pass" /\ pass' = 1 /\ col' = 0 /\ acc' = [n \in 1..2 |-> EmptyBag]
        /\ UNCHANGED <<call, status, mem, row, phase>>
    BY <1>7 DEF BeginRow
  <2>2. /\ X' = X /\ Size' = Size /\ Width' = Width /\ Refusal' = Refusal
        /\ Accepted' = Accepted /\ Passes' = Passes
        /\ Rows' = Rows /\ Stride' = Stride
        /\ \A t : Shape(t)' = Shape(t)
        /\ \A k : Result(k)' = Result(k) /\ Out(k)' = Out(k)
    BY <2>1, SameCall, SameResult DEF Out
  <2>3. TensorsKept'
    BY <2>1, <2>2 DEF Runs, TensorsKept, Fresh
  <2>4. Sums'
    <3>1. Summed(1)' = 0 /\ Summed(2)' = 0
      BY <2>1 DEF Summed
    <3>2. {Was(At(i))' : i \in 0..Summed(1)' - 1} = {}
          /\ {Second(At(i))' : i \in 0..Summed(2)' - 1} = {}
      BY <3>1
    <3>3. acc'[1] = SetToBag({}) /\ acc'[2] = SetToBag({}) /\ DOMAIN acc' = 1..2
      BY <2>1, EmptyBagOfSet
    <3> QED BY <3>2, <3>3, Zenon DEF Sums
  <2>5. Counters'
    <3>1. row < Rows /\ Passes \in {1, 3} /\ row \in Nat
      BY <1>2, <1>3, <1>7 DEF Passes
    <3>2. call.op = "token_embd" => Known(row + 1)
      BY <1>7 DEF Known, KnownToken, Token
    <3>3. \A n : Known(n)' = Known(n)
      BY <2>1, <2>2 DEF Known
    <3> QED BY <1>1, <1>2, <1>3, <2>1, <2>2, <3>1, <3>2, <3>3 DEF Runs, Counters
  <2>6. Elements'
    <3>1. ASSUME NEW k \in 0..Size - 1 PROVE Element(k)'
      <4>1. Untouched(k)' = Untouched(k)
        BY <2>1, <2>2 DEF Untouched, Rerun, Measured
      <4>2. Here' = row * Stride \/ Here' = row * Stride + 0
        BY <2>1, <2>2 DEF Here
      <4>3. Through(k)' <=> k < row * Stride
        BY <1>2, <2>1, <2>2, <4>2 DEF Through
      <4>4. ~Halfway(k)'
        BY <2>1 DEF Halfway
      <4> QED BY <1>4, <2>1, <2>2, <4>1, <4>3, <4>4 DEF Element
    <3> QED BY <2>1, <2>2, <3>1 DEF Elements
  <2>7. Answers'
    BY <1>2, <2>1 DEF Answers, ErrorsKeepPrefix
  <2> QED BY <2>3, <2>4, <2>5, <2>6, <2>7 DEF Runs
<1> QED BY <1>5, <1>6, <1>7

\* An iteration over columns.
LEMMA VisitRuns ==
  ASSUME Runs, CallFits, Visit, UNCHANGED phase
  PROVE  Runs'
<1>1. pc = "pass" /\ col < Width
  BY DEF Visit
<1>2. /\ IsCall(call) /\ Geometry /\ Operands2 /\ Refusal = "none" /\ Accepted
      /\ call.op \notin Products /\ row \in 0..Rows /\ status = "none"
      /\ col \in 0..Width
  BY <1>1, Looping
<1>3. Rows \in Nat /\ Width \in Nat
  BY <1>2 DEF Geometry
<1>4. row \in 0..Rows - 1 /\ col \in 0..Width - 1 /\ col \in Nat
  BY <1>1, <1>2, <1>3 DEF Runs, Counters
<1>5. PICK b : RowBase(b)
  BY <1>2, <1>4, RowBased
<1>6. PICK n : Iterates(n)
  BY <1>1, <1>2, <1>4, ChunkIterates DEF Runs, Counters
<1>7. Iteration(b, n)
  BY <1>1, <1>2, <1>4, <1>5, <1>6 DEF Iteration, Runs, CallFits
<1>8. TensorsKept' /\ Elements' /\ Sums' /\ Counters'
  BY <1>7, VisitElements, VisitSums, VisitCounters
<1>9. Answers'
  <2>1. pc' = "pass" /\ status' = "none"
    BY <1>1, <1>2 DEF Visit
  <2> QED BY <2>1 DEF Answers, ErrorsKeepPrefix
<1> QED BY <1>8, <1>9 DEF Runs

\* What a pair of rope leaves alone: the columns from Rotary on.
LEMMA RopeRest ==
  ASSUME NEW b, RowBase(b), Geometry, call.op = "rope", ~Rerun,
         NEW k \in b + Rotary..b + Stride - 1, Untouched(k)
  PROVE  Out(k) = Result(k)
<1>1. /\ b \in Nat /\ Stride \in Nat /\ X = call.out /\ Rotary \in Nat
      /\ 2 * Width = Rotary /\ Rotary <= Stride
  BY DEF Geometry, RowBase
<1>2. PICK q \in Nat, r \in Nat : q = Stride /\ r = Rotary
  BY <1>1
<1>3. k \in b..b + Stride - 1 /\ k - b >= Rotary
  BY <1>1, <1>2
<1>4. k % Stride = k - b
  BY <1>3 DEF RowBase
<1>5. Result(k) = RefRope(k)
  BY DEF Result
<1>6. Result(k) = Was(k)
  BY <1>3, <1>4, <1>5 DEF RefRope
<1> QED BY <1>1, <1>6 DEF Untouched, Was

\* A pass ends, or a row.
LEMMA EndPassRuns ==
  ASSUME Runs, CallFits, EndPass, UNCHANGED phase
  PROVE  Runs'
<1>1. pc = "pass" /\ col >= Width /\ UNCHANGED <<call, status, mem, acc, phase>>
  BY DEF EndPass
<1>2. /\ IsCall(call) /\ Geometry /\ Operands2 /\ Refusal = "none" /\ Accepted
      /\ call.op \notin Products /\ row \in 0..Rows /\ status = "none"
      /\ col \in 0..Width
  BY <1>1, Looping
<1>3. /\ Rows \in Nat /\ Width \in Nat /\ Stride \in Nat /\ Size \in Nat
      /\ call.op # "rope" => Stride = Width
      /\ call.op = "rope" => Rotary \in Nat /\ 2 * Width = Rotary /\ Rotary <= Stride
  BY <1>2 DEF Geometry
<1>4. col = Width
  BY <1>1, <1>2, <1>3
<1>5. /\ row < Rows /\ row \in Nat /\ pass \in 1..Passes
      /\ call.op = "token_embd" => Known(row + 1) /\ \A n \in 1..row : Known(n)
  BY <1>1, <1>2, <1>3 DEF Runs, Counters
<1>6. /\ X' = X /\ Size' = Size /\ Width' = Width /\ Refusal' = Refusal
      /\ Accepted' = Accepted /\ Passes' = Passes
      /\ Rows' = Rows /\ Stride' = Stride
      /\ \A t : Shape(t)' = Shape(t)
      /\ \A k : Result(k)' = Result(k) /\ Out(k)' = Out(k) /\ RowExp(k)' = RowExp(k)
  BY <1>1, SameCall, SameResult DEF Out
<1>7. TensorsKept'
  BY <1>1, <1>6 DEF Runs, TensorsKept, Fresh
<1>8. \A k : Untouched(k)' = Untouched(k)
  BY <1>1, <1>6 DEF Untouched, Rerun, Measured
<1>9. \A n : Known(n)' = Known(n)
  BY <1>1, <1>6 DEF Known
<1>10. row \in 0..Rows - 1
  BY <1>3, <1>5
<1>11. PICK b : RowBase(b)
  BY <1>2, <1>4, <1>3, <1>10, RowBased
<1>12. /\ b \in Nat /\ b = row * Stride /\ b + Stride <= Size
       /\ Here = b + (IF call.op = "rope" THEN 2 * col ELSE col)
  BY <1>11 DEF RowBase
<1>13. Answers'
  <2>1. pc' \in {"pass", "row"} /\ status' = "none"
    BY <1>1, <1>2 DEF EndPass
  <2> QED BY <2>1 DEF Answers, ErrorsKeepPrefix
<1>14. \A k \in 0..Size - 1 : Element(k)
  BY <1>1 DEF Runs, Elements
<1>15. CASE pass < Passes
  <2>1. pass' = pass + 1 /\ col' = 0 /\ UNCHANGED <<pc, row>>
    BY <1>15 DEF EndPass
  <2>2. call.op \in RowWise /\ pass \in {1, 2} /\ Passes = 3 /\ call.op # "rope"
    BY <1>5, <1>15 DEF Passes, RowWise
  <2>3. Here' = b
    BY <1>1, <1>6, <1>12, <2>1, <2>2 DEF Here
  <2>4. Elements'
    <3>1. ASSUME NEW k \in 0..Size - 1 PROVE Element(k)'
      <4>1. Through(k) <=> k < b
        BY <1>12, <2>2 DEF Through
      <4>2. Through(k)' <=> k < b
        BY <1>6, <1>12, <2>1, <2>3 DEF Through
      <4>3. Halfway(k) <=> call.op = "softmax" /\ k < b + Stride /\ pass = 2
        BY <1>1, <1>3, <1>4, <1>12, <2>2, <3>1 DEF Halfway
      <4>4. k >= b => (Halfway(k)' <=> call.op = "softmax" /\ k < b + Stride /\ pass = 2)
        BY <1>1, <1>3, <1>6, <1>12, <2>1, <2>2, <2>3, <3>1 DEF Halfway
      <4>5. k < b \/ k >= b
        BY <1>12
      <4> QED BY <1>6, <1>8, <1>14, <3>1, <4>1, <4>2, <4>3, <4>4, <4>5 DEF Element
    <3> QED BY <1>1, <1>6, <2>1, <3>1 DEF Elements
  <2>5. Sums'
    <3>1. Summed(1)' = Summed(1) /\ Summed(2)' = Summed(2)
      BY <1>4, <1>6, <2>1, <2>2 DEF Summed
    <3>2. \A i : Was(At(i))' = Was(At(i)) /\ Second(At(i))' = Second(At(i))
      BY <1>1, <1>6, <2>1, SameResult DEF At
    <3>3. /\ DOMAIN acc = 1..2
          /\ acc[1] = SetToBag({Was(At(i)) : i \in 0..Summed(1) - 1})
          /\ acc[2] = SetToBag({Second(At(i)) : i \in 0..Summed(2) - 1})
      BY <1>1, <2>2 DEF Runs, Sums
    <3>4. /\ acc'[1] = SetToBag({Was(At(i))' : i \in 0..Summed(1)' - 1})
          /\ acc'[2] = SetToBag({Second(At(i))' : i \in 0..Summed(2)' - 1})
      BY <1>1, <3>1, <3>2, <3>3
    <3> QED BY <1>1, <3>3, <3>4, Zenon DEF Sums
  <2>6. Counters'
    BY <1>1, <1>2, <1>3, <1>5, <1>6, <1>9, <2>1, <2>2 DEF Runs, Counters
  <2> QED BY <1>7, <1>13, <2>4, <2>5, <2>6 DEF Runs
<1>16. CASE pass >= Passes
  <2>1. pc' = "row" /\ row' = row + 1 /\ UNCHANGED <<pass, col>> /\ pass = Passes
    BY <1>5, <1>16 DEF EndPass, Passes
  <2>2. row' * Stride' = b + Stride
    <3>1. PICK r \in Nat, q \in Nat : r = row /\ q = Stride
      BY <1>3, <1>5
    <3>2. (r + 1) * q = r * q + q
      OBVIOUS
    <3> QED BY <1>6, <1>12, <2>1, <3>1, <3>2
  <2>3. Elements'
    <3>1. ASSUME NEW k \in 0..Size - 1 PROVE Element(k)'
      <4>1. PICK q \in Nat, h \in Nat : q = b + Stride /\ h = Here /\ b <= h
        BY <1>3, <1>4, <1>12
      <4>2. Through(k)' <=> k < q
        BY <2>1, <2>2, <4>1 DEF Through
      <4>3. ~Halfway(k)'
        BY <2>1 DEF Halfway
      <4>4. Through(k) <=> k < h
        BY <1>1, <1>12, <2>1, <3>1, <4>1 DEF Through
      <4>5. call.op # "rope" => h = q
        BY <1>3, <1>4, <1>12, <4>1
      <4>6. call.op = "rope" => h = b + Rotary /\ h <= q
        BY <1>3, <1>4, <1>12, <4>1
      <4>7. CASE k < h
        <5>1. Out(k) = Result(k)
          BY <1>14, <4>4, <4>7 DEF Element
        <5>2. k < q
          BY <4>1, <4>5, <4>6, <4>7
        <5> QED BY <1>6, <4>2, <5>1, <5>2 DEF Element
      <4>8. CASE h <= k /\ k < q
        <5>1. call.op = "rope"
          BY <4>1, <4>5, <4>8
        <5>2. ~Halfway(k) /\ ~Through(k)
          BY <4>1, <4>4, <4>8, <5>1 DEF Halfway
        <5>3. Untouched(k)
          BY <1>14, <5>2 DEF Element
        <5>4. k \in b + Rotary..b + Stride - 1
          BY <1>3, <1>12, <4>1, <4>6, <4>8, <5>1
        <5>5. ~Rerun
          BY <5>1 DEF Rerun, Reset
        <5>6. Out(k) = Result(k)
          BY <1>2, <1>11, <5>1, <5>3, <5>4, <5>5, RopeRest
        <5> QED BY <1>6, <4>2, <4>8, <5>6 DEF Element
      <4>9. CASE k >= q
        <5>1. ~Through(k)
          BY <4>1, <4>4, <4>5, <4>6, <4>9
        <5>2. ~Halfway(k)
          BY <1>12, <4>1, <4>9 DEF Halfway
        <5>3. Untouched(k)'
          BY <1>8, <1>14, <5>1, <5>2 DEF Element
        <5>4. ~Through(k)'
          BY <4>1, <4>2, <4>9
        <5> QED BY <4>3, <5>3, <5>4 DEF Element
      <4> QED BY <4>1, <4>7, <4>8, <4>9
    <3> QED BY <1>6, <2>1, <3>1 DEF Elements
  <2>4. Sums'
    BY <2>1 DEF Sums
  <2>5. Counters'
    <3>1. row' \in 0..Rows'
      BY <1>3, <1>5, <1>6, <2>1
    <3>2. call.op = "token_embd" => \A n \in 1..row' : Known(n)'
      <4>1. 1..row' = 1..row \cup {row + 1}
        BY <1>5, <2>1
      <4> QED BY <1>5, <1>9, <4>1
    <3> QED BY <1>1, <1>2, <1>6, <2>1, <3>1, <3>2 DEF Runs, Counters
  <2> QED BY <1>7, <1>13, <2>3, <2>4, <2>5 DEF Runs
<1>17. pass < Passes \/ pass >= Passes
  BY <1>5 DEF Passes
<1> QED BY <1>15, <1>16, <1>17

\* gemv and matmul in one step.
LEMMA MultiplyRuns ==
  ASSUME Runs, CallFits, Pristine, Multiply, UNCHANGED phase,
         Measured, call = BenchCall(options), OptionsTyped
  PROVE  Runs'
<1>1. pc = "infer" /\ call.op \in {"gemv", "matmul"} /\ call.op \in Products
  BY DEF Multiply, Products
<1>2. /\ call.device = "cpu" /\ call.given = TRUE /\ call.out = "out"
  BY <1>1 DEF BenchCall
<1>3. Kernels = {"automatic", "reference", "avx2"}
  BY <1>1 DEF Kernels
<1>4. ASSUME NEW k \in 0..Size - 1 PROVE Out(k) = Original(call.out, k)
  BY <1>1 DEF Runs, Elements, Untouched, Rerun, Reset
<1>5. Size \in Nat /\ call.op # "token_embd"
  BY <1>1 DEF CallFits
<1>6. CASE call.backend = "x86_opt"
  <2>1. Return("unsupported")
    BY <1>6 DEF Multiply
  <2>2. Refusal = "unsupported"
    BY <1>2, <1>3, <1>6 DEF Refusal
  <2>3. \A k \in 0..Size - 1 : Out(k) = IF k < 0 THEN Result(k) ELSE Original(call.out, k)
    BY <1>4, <1>5
  <2> QED BY <1>5, <2>1, <2>2, <2>3, Returns
<1>7. CASE call.backend # "x86_opt"
  <2>1. /\ pc' = "returned" /\ status' = "ok"
        /\ mem' = [mem EXCEPT !["out"] = [k \in DOMAIN @ |->
                      IF call.op = "gemv" \/ @[k] = Original("out", k)
                        THEN <<"product", k>> ELSE <<"more", @[k]>>]]
        /\ UNCHANGED <<call, row, pass, col, acc, phase>>
    BY <1>7 DEF Multiply
  <2>2. /\ Size' = Size /\ Refusal' = Refusal /\ \A k : Result(k)' = Result(k)
    BY <2>1, SameCall, SameResult
  <2>3. /\ DOMAIN mem = DOMAIN call.shape /\ "out" \in DOMAIN mem
        /\ mem["out"] = [k \in 0..Size - 1 |-> Out(k)]
    BY <1>2 DEF Runs, TensorsKept, CallFits
  <2>4. mem'["out"] = [k \in 0..Size - 1 |-> <<"product", k>>]
    <3>1. \A k \in 0..Size - 1 : mem["out"][k] = Original("out", k)
      BY <1>2, <1>4, <2>3
    <3> QED BY <2>1, <2>3, <3>1
  <2>5. \A k : Result(k) = <<"product", k>>
    BY <1>1 DEF Result
  <2>6. TensorsKept'
    <3>1. mem' = [t \in DOMAIN call'.shape |-> mem'[t]]
      BY <2>1, <2>3
    <3>2. \A t \in DOMAIN call'.shape \ {call'.out} : mem'[t] = Fresh(t, call'.shape[t])
      BY <1>2, <2>1, <2>3 DEF Runs, TensorsKept
    <3>3. mem'[call'.out] = [k \in 0..Size' - 1 |-> Out(k)']
      BY <1>2, <2>1, <2>2, <2>4 DEF Out
    <3> QED BY <3>1, <3>2, <3>3 DEF TensorsKept
  <2>7. \A k \in 0..Size' - 1 : Out(k)' = Result(k)'
    BY <1>2, <2>1, <2>2, <2>4, <2>5 DEF Out
  <2>8. Elements' /\ Sums' /\ Counters'
    BY <2>1 DEF Elements, Sums, Counters
  <2>9. Refusal = "none"
    <3>1. call.backend = options.backend /\ options.backend \in Backends
      BY DEF BenchCall, OptionsTyped
    <3>2. call.backend \in Kernels
      BY <1>3, <1>7, <3>1 DEF Backends
    <3> QED BY <1>2, <3>2 DEF Refusal
  <2>10. Measured' = Measured
    BY <2>1 DEF Measured
  <2>11. Answers'
    BY <2>1, <2>2, <2>7, <2>9, <2>10 DEF Answers, ErrorsKeepPrefix
  <2> QED BY <2>6, <2>8, <2>11 DEF Runs
<1> QED BY <1>6, <1>7

-----------------------------------------------------------------------------
(* The calls of bench_ops *)

\* Shapes of one, two and three dimensions.
LEMMA NumelOne ==
  ASSUME NEW x \in Nat
  PROVE  <<x>> \in Seq(Nat) /\ Numel(<<x>>) = x
<1>1. <<x>> \in Seq(Nat) /\ Len(<<x>>) = 1 /\ <<x>>[1] = x
  OBVIOUS
<1>2. PICK p \in [0..1 -> Nat] :
        p[0] = 1 /\ (\A i \in 1..1 : p[i] = p[i - 1] * <<x>>[i]) /\ Numel(<<x>>) = p[1]
  BY <1>1, NumelRuns
<1>3. p[1] = 1 * x
  BY <1>1, <1>2
<1> QED BY <1>1, <1>2, <1>3

LEMMA NumelTwo ==
  ASSUME NEW x \in Nat, NEW y \in Nat
  PROVE  <<x, y>> \in Seq(Nat) /\ Numel(<<x, y>>) = x * y
<1>1. PICK s : s = <<x, y>>
  OBVIOUS
<1>2. s \in Seq(Nat) /\ Len(s) = 2 /\ s[1] = x /\ s[2] = y
  BY <1>1
<1>3. PICK p \in [0..2 -> Nat] :
        p[0] = 1 /\ (\A i \in 1..2 : p[i] = p[i - 1] * s[i]) /\ Numel(s) = p[2]
  BY <1>2, NumelRuns
<1>4. p[1] = p[0] * x /\ p[2] = p[1] * y
  BY <1>2, <1>3
<1> QED BY <1>1, <1>2, <1>3, <1>4

LEMMA NumelThree ==
  ASSUME NEW x \in Nat, NEW y \in Nat, NEW z \in Nat
  PROVE  <<x, y, z>> \in Seq(Nat) /\ Numel(<<x, y, z>>) = (x * y) * z
<1>1. PICK s : s = <<x, y, z>>
  OBVIOUS
<1>2. s \in Seq(Nat) /\ Len(s) = 3 /\ s[1] = x /\ s[2] = y /\ s[3] = z
  BY <1>1
<1>3. PICK p \in [0..3 -> Nat] :
        p[0] = 1 /\ (\A i \in 1..3 : p[i] = p[i - 1] * s[i]) /\ Numel(s) = p[3]
  BY <1>2, NumelRuns
<1>4. p[1] = p[0] * x /\ p[2] = p[1] * y /\ p[3] = p[2] * z
  BY <1>2, <1>3
<1>5. p[2] = x * y
  BY <1>3, <1>4
<1> QED BY <1>1, <1>2, <1>3, <1>4, <1>5

\* A factor of at least 1 makes no product smaller.
LEMMA Factor ==
  ASSUME NEW x \in Nat, NEW y \in Nat \ {0}
  PROVE  x <= x * y /\ x * y \in Nat /\ (x > 0 => x * y > 0)
<1>1. PICK z \in Nat : y = 1 + z
  <2>1. y - 1 \in Nat /\ y = 1 + (y - 1)
    OBVIOUS
  <2> QED BY <2>1
<1>2. x * z \in Nat /\ x * (1 + z) = x + x * z
  OBVIOUS
<1>3. PICK p \in Nat : p = x * z /\ x * y = x + p
  BY <1>1, <1>2
<1> QED BY <1>3

\* A shape of nothing but positive dimensions.
Positive(s) == s \in Seq(Nat) /\ s # <<>> /\ \A i \in 1..Len(s) : s[i] \in Nat \ {0}

\* Products over more and more of such a shape only grow.
LEMMA RunsGrow ==
  ASSUME NEW s, Positive(s), NEW p \in [0..Len(s) -> Nat], p[0] = 1,
         \A i \in 1..Len(s) : p[i] = p[i - 1] * s[i]
  PROVE  \A m \in 0..Len(s) : p[m] <= p[Len(s)] /\ p[m] > 0
<1>1. PICK n \in Nat : n = Len(s)
  BY DEF Positive
<1> DEFINE T == {k \in 0..n : p[k] > 0 /\ \A m \in 0..k : p[m] <= p[k] /\ p[m] > 0}
<1>2. 0 \in T
  <2>1. \A m \in 0..0 : m = 0
    OBVIOUS
  <2> QED BY <1>1, <2>1
<1>3. ASSUME NEW k \in 1..n, k - 1 \in T PROVE k \in T
  <2>1. k \in 0..n /\ k - 1 \in 0..n /\ s[k] \in Nat \ {0} /\ p[k] = p[k - 1] * s[k]
    BY <1>1 DEF Positive
  <2>2. PICK x \in Nat, y \in Nat \ {0} : x = p[k - 1] /\ y = s[k]
    BY <1>1, <2>1
  <2>3. p[k] = x * y /\ x > 0
    BY <1>3, <2>1, <2>2
  <2>4. p[k] \in Nat /\ x <= p[k] /\ p[k] > 0
    BY <2>2, <2>3, Factor
  <2>5. ASSUME NEW m \in 0..k PROVE p[m] <= p[k] /\ p[m] > 0
    <3>1. CASE m = k
      BY <2>4, <3>1
    <3>2. CASE m # k
      <4>1. m \in 0..k - 1 /\ p[m] \in Nat
        BY <1>1, <2>1, <3>2
      <4>2. p[m] <= p[k - 1] /\ p[m] > 0
        BY <1>3, <4>1
      <4> QED BY <2>2, <2>4, <4>1, <4>2
    <3> QED BY <3>1, <3>2
  <2> QED BY <2>1, <2>4, <2>5
<1>4. \A k \in 1..n : k - 1 \in T => k \in T
  BY <1>3
<1>5. \A k \in 0..n : k \in T
  <2> HIDE DEF T
  <2> QED BY <1>2, <1>4, UpTo
<1>6. n \in T
  <2>1. n \in 0..n
    OBVIOUS
  <2> QED BY <1>5, <2>1
<1> QED BY <1>1, <1>6

\* What the second loop of parse_shape makes of the product x and a dimension.
Product(x, d) == IF x = 0 \/ x > (MaxSize \div d) \div 4 THEN 0 ELSE x * d
CheckedEq(f, n, d) == f = [i \in 0..n |-> IF i = 0 THEN 1 ELSE Product(f[i - 1], d[i])]

\* What that loop computes exists.
LEMMA Checked ==
  ASSUME NEW n \in Nat, NEW d \in [1..n -> Nat]
  PROVE  \E f : CheckedEq(f, n, d) /\ f \in [0..n -> Nat]
<1>1. PICK g : g = [i \in 1..n |-> [x \in Nat |-> Product(x, d[i])]]
  OBVIOUS
<1>2. \A i \in 1..n : [x \in Nat |-> Product(x, d[i])] \in [Nat -> Nat]
  <2> TAKE i \in 1..n
  <2>1. PICK e \in Nat : e = d[i]
    OBVIOUS
  <2>2. ASSUME NEW x \in Nat PROVE Product(x, e) \in Nat
    <3>1. x * e \in Nat
      OBVIOUS
    <3> QED BY <3>1 DEF Product
  <2> QED BY <2>1, <2>2
<1>3. g \in [1..n -> [Nat -> Nat]]
  BY <1>1, <1>2
<1>4. \A i \in 1..n, x \in Nat : g[i][x] = Product(x, d[i])
  BY <1>1
<1>5. PICK f : f \in [0..n -> Nat] /\ Loop(f, n, 1, g)
  BY <1>3, Recursion
<1>6. ASSUME NEW i \in 0..n PROVE f[i] = IF i = 0 THEN 1 ELSE Product(f[i - 1], d[i])
  <2>1. CASE i = 0
    BY <1>5, <2>1 DEF Loop
  <2>2. CASE i # 0
    <3>1. i \in 1..n /\ f[i - 1] \in Nat
      BY <1>5, <2>2
    <3>2. f[i] = g[i][f[i - 1]]
      BY <1>5, <3>1 DEF Loop
    <3> QED BY <1>4, <2>2, <3>1, <3>2
  <2> QED BY <2>1, <2>2
<1>7. f = [i \in 0..n |-> f[i]]
  BY <1>5
<1>8. CheckedEq(f, n, d)
  BY <1>6, <1>7, Zenon DEF CheckedEq
<1> QED BY <1>5, <1>8

\* What --shape lets through is no more than malloc can be asked for.
LEMMA Fitting ==
  ASSUME NEW s, Positive(s), ~Overflows(s)
  PROVE  Numel(s) * 4 <= MaxSize
<1>0. PICK n \in Nat : n = Len(s)
  BY DEF Positive
<1>1. PICK d : n \in Nat /\ n = Len(s) /\ d = [i \in 1..n |-> s[i]]
  BY <1>0
<1>2. /\ d \in [1..n -> Nat] /\ \A i \in 1..n : d[i] = s[i] /\ s[i] \in Nat \ {0}
      /\ n > 0 /\ s \in Seq(Nat) /\ MaxSize \in Nat
  <2>1. Len(<<>>) = 0 /\ n # 0
    BY <1>1 DEF Positive
  <2> QED BY <1>1, <2>1, BenchmarkAssumption DEF Positive
<1>3. \A i \in 0..n : i = 0 \/ i \in 1..n
  OBVIOUS
<1>4. PICK f : /\ f = [i \in 0..n |->
                    IF i = 0 THEN 1
                    ELSE IF f[i - 1] = 0 \/ f[i - 1] > (MaxSize \div s[i]) \div 4 THEN 0
                    ELSE f[i - 1] * s[i]]
               /\ f[n] # 0
  <2>1. PICK h : CheckedEq(h, n, d)
    BY <1>2, Checked
  <2>2. h = [i \in 0..n |->
                    IF i = 0 THEN 1
                    ELSE IF h[i - 1] = 0 \/ h[i - 1] > (MaxSize \div s[i]) \div 4 THEN 0
                    ELSE h[i - 1] * s[i]]
    BY <1>2, <1>3, <2>1, Zenon DEF CheckedEq, Product
  <2> QED BY <1>1, <2>2 DEF Overflows
<1>5. PICK p \in [0..n -> Nat] :
        /\ p[0] = 1 /\ \A i \in 1..n : p[i] = p[i - 1] * s[i]
        /\ Numel(s) = p[n]
  BY <1>1, <1>2, NumelRuns
<1> DEFINE T == {i \in 0..n : f[i] # 0 => f[i] = p[i] /\ (i > 0 => p[i] * 4 <= MaxSize)}
<1>6. 0 \in T
  BY <1>4, <1>5
<1>7. ASSUME NEW i \in 1..n, i - 1 \in T PROVE i \in T
  <2>1. i \in 0..n /\ i - 1 \in 0..n /\ i # 0
    OBVIOUS
  <2>2. f[i] = IF f[i - 1] = 0 \/ f[i - 1] > (MaxSize \div s[i]) \div 4 THEN 0
               ELSE f[i - 1] * s[i]
    BY <1>4, <2>1
  <2> SUFFICES ASSUME f[i] # 0 PROVE f[i] = p[i] /\ p[i] * 4 <= MaxSize
    BY <2>1
  <2>3. /\ f[i - 1] # 0 /\ ~(f[i - 1] > (MaxSize \div s[i]) \div 4)
        /\ f[i] = f[i - 1] * s[i]
    BY <2>2
  <2>4. f[i - 1] = p[i - 1]
    BY <1>7, <2>3
  <2>5. PICK x \in Nat, e \in Nat \ {0}, q \in Nat :
          x = p[i - 1] /\ e = s[i] /\ q = MaxSize \div e
    <3>1. PICK x \in Nat, e \in Nat \ {0}, m \in Nat :
            x = p[i - 1] /\ e = s[i] /\ m = MaxSize
      BY <1>2, <1>5, <2>1
    <3>2. m \div e \in Nat
      OBVIOUS
    <3> QED BY <3>1, <3>2
  <2>6. p[i] = x * e /\ f[i] = x * e
    BY <1>5, <2>3, <2>4, <2>5
  <2>7. x * 4 <= q
    BY <2>3, <2>4, <2>5
  <2>8. PICK m \in Nat, r \in Nat : m = MaxSize /\ m = e * q + r
    <3>1. PICK m \in Nat : m = MaxSize
      BY <1>2
    <3>2. m = e * (m \div e) + (m % e) /\ m % e \in Nat
      OBVIOUS
    <3> QED BY <2>5, <3>1, <3>2
  <2>9. PICK y \in Nat : q = x * 4 + y
    <3>1. q - x * 4 \in Nat
      BY <2>7
    <3> QED BY <3>1
  <2>10. e * q = (x * e) * 4 + e * y /\ e * y \in Nat
    BY <2>9
  <2> QED BY <2>6, <2>8, <2>10
<1>8. \A i \in 1..n : i - 1 \in T => i \in T
  BY <1>7
<1>9. \A i \in 0..n : i \in T
  <2> HIDE DEF T
  <2> QED BY <1>6, <1>8, UpTo
<1>10. n \in 0..n /\ n > 0
  BY <1>2
<1>11. n \in T
  BY <1>9, <1>10, Zenon
<1> QED BY <1>4, <1>5, <1>10, <1>11

\* The options with which main gets as far as the tensors of an operator.
Usable(o) ==
    /\ o.op \in Ops /\ ~Refused(o) /\ Positive(o.shape) /\ ~Overflows(o.shape)
    /\ Len(o.shape) >= Indexed(o)
    /\ o.backend \in Backends

\* Small enough, and not empty.
Fit(s) == s \in Seq(Nat) /\ Numel(s) > 0 /\ Numel(s) * 4 <= MaxSize

\* Products of some of the dimensions are no larger than the product of all.
LEMMA Smaller ==
  ASSUME NEW s, Positive(s), ~Overflows(s)
  PROVE  /\ Fit(s)
         /\ \A x \in Nat \ {0} : x <= Numel(s) => Fit(<<x>>)
         /\ \A x, y \in Nat \ {0} : x * y <= Numel(s) => Fit(<<x, y>>)
         /\ \A x, y, z \in Nat \ {0} : (x * y) * z <= Numel(s) => Fit(<<x, y, z>>)
<1>1. s \in Seq(Nat) /\ Len(s) \in Nat
  BY DEF Positive
<1>2. PICK p \in [0..Len(s) -> Nat] :
        /\ p[0] = 1 /\ \A i \in 1..Len(s) : p[i] = p[i - 1] * s[i]
        /\ Numel(s) = p[Len(s)]
  BY <1>1, NumelRuns
<1>3. Len(s) \in 0..Len(s)
  BY <1>1
<1>4. PICK n \in Nat : n = Numel(s) /\ n > 0
  BY <1>2, <1>3, RunsGrow
<1>5. PICK m \in Nat : m = MaxSize /\ n * 4 <= m
  BY <1>4, Fitting, BenchmarkAssumption
<1>6. Fit(s)
  BY <1>1, <1>4, <1>5 DEF Fit
<1>7. ASSUME NEW x \in Nat \ {0}, x <= n PROVE Fit(<<x>>)
  BY <1>5, <1>7, NumelOne DEF Fit
<1>8. ASSUME NEW x \in Nat \ {0}, NEW y \in Nat \ {0}, x * y <= n PROVE Fit(<<x, y>>)
  <2>1. PICK q \in Nat : q = x * y /\ q > 0
    BY Factor
  <2> QED BY <1>5, <1>8, <2>1, NumelTwo DEF Fit
<1>9. ASSUME NEW x \in Nat \ {0}, NEW y \in Nat \ {0}, NEW z \in Nat \ {0},
             (x * y) * z <= n
      PROVE  Fit(<<x, y, z>>)
  <2>1. PICK r \in Nat : r = x * y /\ r > 0
    BY Factor
  <2>2. PICK q \in Nat : q = r * z /\ q > 0
    BY <2>1, Factor
  <2> QED BY <1>5, <1>9, <2>1, <2>2, NumelThree DEF Fit
<1> QED BY <1>4, <1>6, <1>7, <1>8, <1>9

\* The first dimensions and their products.
LEMMA Dimensions ==
  ASSUME NEW s, Positive(s)
  PROVE  /\ \A i \in 1..Len(s) : s[i] \in Nat \ {0}
         /\ Len(s) >= 1 => s[1] <= Numel(s)
         /\ Len(s) >= 2 => s[1] * s[2] <= Numel(s)
         /\ Len(s) >= 3 => (s[1] * s[2]) * s[3] <= Numel(s)
         /\ Len(s) = 3 => (s[1] * s[2]) * s[3] = Numel(s)
         /\ Len(s) = 4 => ((s[1] * s[2]) * s[3]) * s[4] = Numel(s)
<1>1. s \in Seq(Nat) /\ Len(s) \in Nat /\ \A i \in 1..Len(s) : s[i] \in Nat \ {0}
  BY DEF Positive
<1>2. PICK p \in [0..Len(s) -> Nat] :
        /\ p[0] = 1 /\ \A i \in 1..Len(s) : p[i] = p[i - 1] * s[i]
        /\ Numel(s) = p[Len(s)]
  BY <1>1, NumelRuns
<1>3. \A m \in 0..Len(s) : p[m] <= p[Len(s)]
  BY <1>2, RunsGrow
<1>4. Len(s) >= 1 => p[1] = s[1] /\ p[1] <= Numel(s)
  <2> SUFFICES ASSUME Len(s) >= 1 PROVE p[1] = s[1] /\ p[1] <= Numel(s)
    OBVIOUS
  <2>1. 1 \in 1..Len(s) /\ 1 \in 0..Len(s)
    BY <1>1
  <2>2. p[1] = 1 * s[1] /\ s[1] \in Nat
    BY <1>1, <1>2, <2>1
  <2> QED BY <1>2, <1>3, <2>1, <2>2
<1>5. Len(s) >= 2 => p[2] = s[1] * s[2] /\ p[2] <= Numel(s)
  <2> SUFFICES ASSUME Len(s) >= 2 PROVE p[2] = s[1] * s[2] /\ p[2] <= Numel(s)
    OBVIOUS
  <2>1. 2 \in 1..Len(s) /\ 2 \in 0..Len(s) /\ Len(s) >= 1
    BY <1>1
  <2> QED BY <1>2, <1>3, <1>4, <2>1
<1>6. Len(s) >= 3 => p[3] = (s[1] * s[2]) * s[3] /\ p[3] <= Numel(s)
  <2> SUFFICES ASSUME Len(s) >= 3 PROVE p[3] = (s[1] * s[2]) * s[3] /\ p[3] <= Numel(s)
    OBVIOUS
  <2>1. 3 \in 1..Len(s) /\ 3 \in 0..Len(s) /\ Len(s) >= 2
    BY <1>1
  <2> QED BY <1>2, <1>3, <1>5, <2>1
<1>7. Len(s) = 4 => p[4] = ((s[1] * s[2]) * s[3]) * s[4]
  <2> SUFFICES ASSUME Len(s) = 4 PROVE p[4] = ((s[1] * s[2]) * s[3]) * s[4]
    OBVIOUS
  <2>1. 4 \in 1..Len(s) /\ Len(s) >= 3
    BY <1>1
  <2>2. p[4] = p[3] * s[4]
    BY <1>2, <2>1
  <2>3. p[3] = (s[1] * s[2]) * s[3]
    BY <1>6, <2>1, Zenon
  <2> QED BY <2>2, <2>3, Zenon
<1>8. /\ Len(s) = 3 => Len(s) >= 3 /\ p[3] = Numel(s)
      /\ Len(s) = 4 => p[4] = Numel(s)
  <2>1. p[Len(s)] = Numel(s)
    BY <1>2
  <2> QED BY <2>1
<1> QED BY <1>1, <1>4, <1>5, <1>6, <1>7, <1>8, Zenon

\* Leaving out one of three factors.
LEMMA TwoOfThree ==
  ASSUME NEW x \in Nat \ {0}, NEW y \in Nat \ {0}, NEW z \in Nat \ {0}
  PROVE  /\ x * y <= (x * y) * z /\ y * z <= (x * y) * z /\ z * y <= (x * y) * z
         /\ x * z <= (x * y) * z
<1>1. x * y \in Nat /\ y * z \in Nat /\ x * z \in Nat
  OBVIOUS
<1>2. x * y <= (x * y) * z /\ y * z <= (y * z) * x /\ x * z <= (x * z) * y
  BY <1>1, Factor
<1>3. (y * z) * x = (x * y) * z /\ (x * z) * y = (x * y) * z /\ z * y = y * z
  OBVIOUS
<1> QED BY <1>2, <1>3

\* Every tensor of an operator fits.
LEMMA TensorsOf ==
  ASSUME NEW o, Usable(o)
  PROVE  \A t \in DOMAIN Tensors(o) : Fit(Tensors(o)[t])
<1>1. PICK s : s = o.shape
  OBVIOUS
<1>2. Positive(s) /\ ~Overflows(s) /\ o.op \in Ops /\ Len(s) \in Nat
  BY <1>1 DEF Usable, Positive
<1>3. /\ Fit(s)
      /\ \A x \in Nat \ {0} : x <= Numel(s) => Fit(<<x>>)
      /\ \A x, y \in Nat \ {0} : x * y <= Numel(s) => Fit(<<x, y>>)
      /\ \A x, y, z \in Nat \ {0} : (x * y) * z <= Numel(s) => Fit(<<x, y, z>>)
  BY <1>2, Smaller
<1>4. /\ \A i \in 1..Len(s) : s[i] \in Nat \ {0}
      /\ Len(s) >= 1 => s[1] <= Numel(s)
      /\ Len(s) >= 2 => s[1] * s[2] <= Numel(s)
      /\ Len(s) >= 3 => (s[1] * s[2]) * s[3] <= Numel(s)
      /\ Len(s) = 3 => (s[1] * s[2]) * s[3] = Numel(s)
      /\ Len(s) = 4 => ((s[1] * s[2]) * s[3]) * s[4] = Numel(s)
  BY <1>2, Dimensions
<1>5. CASE o.op \in {"add", "scale", "softmax", "gelu", "rope"}
  BY <1>1, <1>3, <1>5 DEF Tensors
<1>6. CASE o.op = "layer_norm"
  <2>1. Fit(<<Last(s)>>)
    <3>1. Last(s) = s[Len(s)] /\ Len(s) \in 1..Len(s) /\ s \in Seq(Nat)
      <4>1. Len(<<>>) = 0 /\ Len(s) # 0
        BY <1>2 DEF Positive
      <4> QED BY <1>2, <4>1 DEF Last, Positive
    <3>2. /\ Numel(s) = Numel(Front(s)) * Last(s) /\ Numel(Front(s)) \in Nat
          /\ Last(s) \in Nat \ {0} /\ Numel(s) > 0
      BY <1>2, <1>3, <1>4, <3>1, NumelRows DEF Positive, Fit
    <3>3. PICK f \in Nat, l \in Nat \ {0} : f = Numel(Front(s)) /\ l = Last(s)
      BY <3>2
    <3>4. f \in Nat \ {0}
      <4>1. f = 0 => f * l = 0
        OBVIOUS
      <4> QED BY <3>2, <3>3, <4>1
    <3>5. l <= l * f /\ l * f = f * l
      BY <3>4, Factor
    <3> QED BY <1>3, <3>2, <3>3, <3>5
  <2> QED BY <1>1, <1>3, <1>6, <2>1 DEF Tensors, LayerNormTensors
<1>7. CASE o.op = "gemv"
  <2>1. Len(s) >= 2
    BY <1>1, <1>7 DEF Usable, Indexed
  <2>2. 1 \in 1..Len(s) /\ 2 \in 1..Len(s) /\ Len(s) >= 1
    BY <1>2, <2>1
  <2>3. Fit(<<s[1], s[2]>>) /\ Fit(<<s[1]>>)
    BY <1>3, <1>4, <2>1, <2>2
  <2> QED BY <1>1, <1>7, <2>3 DEF Tensors, GemvTensors
<1>8. CASE o.op = "token_embd"
  <2>1. Len(s) >= 3
    BY <1>1, <1>8 DEF Usable, Indexed
  <2>2. 1 \in 1..Len(s) /\ 2 \in 1..Len(s) /\ 3 \in 1..Len(s)
    BY <1>2, <2>1
  <2>3. PICK x \in Nat \ {0}, y \in Nat \ {0}, z \in Nat \ {0} :
          x = s[1] /\ y = s[2] /\ z = s[3]
    BY <1>4, <2>2
  <2>4. (x * y) * z <= Numel(s)
    BY <1>4, <2>1, <2>3
  <2>5. z * y <= Numel(s)
    <3>1. (x * y) * z \in Nat /\ z * y \in Nat
      OBVIOUS
    <3>2. PICK a \in Nat, b \in Nat, n \in Nat :
            a = (x * y) * z /\ b = z * y /\ n = Numel(s)
      BY <1>2, <3>1, NumelTyped DEF Positive
    <3>3. b <= a
      BY <3>2, TwoOfThree
    <3> QED BY <2>4, <3>2, <3>3
  <2>6. SubSeq(s, 1, 3) = <<x, y, z>>
    <3>1. PICK r : r = SubSeq(s, 1, 3)
      OBVIOUS
    <3>2. r = [i \in 1..3 |-> s[i]]
      BY <1>2, <2>1, <3>1 DEF Positive
    <3>3. \A i \in 1..3 : s[i] = <<x, y, z>>[i]
      <4>1. \A i \in 1..3 : i = 1 \/ i = 2 \/ i = 3
        OBVIOUS
      <4> QED BY <2>3, <4>1
    <3>4. [i \in 1..3 |-> s[i]] = [i \in 1..3 |-> <<x, y, z>>[i]]
      BY <3>3, Zenon
    <3>5. <<x, y, z>> = [i \in 1..3 |-> <<x, y, z>>[i]]
      OBVIOUS
    <3> QED BY <3>1, <3>2, <3>4, <3>5, Zenon
  <2>7. Fit(SubSeq(s, 1, 3)) /\ Fit(<<s[3], s[2]>>)
    <3>3. s[3] = z /\ s[2] = y
      BY <2>3
    <3>1. Fit(<<x, y, z>>)
      BY <1>3, <2>4
    <3>2. Fit(<<z, y>>)
      BY <1>3, <2>5
    <3>4. <<s[3], s[2]>> = <<z, y>>
      BY <3>3, Zenon
    <3>5. Fit(<<s[3], s[2]>>)
      BY <3>2, <3>4, Zenon
    <3>6. Fit(SubSeq(s, 1, 3))
      BY <2>6, <3>1, Zenon
    <3> QED BY <3>5, <3>6
  <2>8. Tensors(o) = [x |-> SubSeq(s, 1, 3), out |-> <<s[3], s[2]>>]
    BY <1>1, <1>8 DEF Tensors, TokenEmbdTensors
  <2>9. PICK u, v : u = SubSeq(s, 1, 3) /\ v = <<s[3], s[2]>>
    OBVIOUS
  <2>10. Tensors(o) = [x |-> u, out |-> v] /\ Fit(u) /\ Fit(v)
    BY <2>7, <2>8, <2>9, Zenon
  <2> QED BY <2>10
<1>9. CASE o.op = "matmul"
  <2>1. Len(s) \in {3, 4}
    BY <1>1, <1>9 DEF Usable, Refused
  <2>2. CASE Len(s) = 3
    <3>1. PICK x \in Nat \ {0}, y \in Nat \ {0}, z \in Nat \ {0} :
            x = s[1] /\ y = s[2] /\ z = s[3]
      BY <1>4, <2>2
    <3>2. Fit(<<x, y>>) /\ Fit(<<y, z>>) /\ Fit(<<x, z>>)
      <4>1. (x * y) * z = Numel(s)
        BY <1>4, <2>2, <3>1
      <4>2. x * y <= Numel(s) /\ y * z <= Numel(s) /\ x * z <= Numel(s)
        BY <4>1, TwoOfThree
      <4> QED BY <1>3, <4>2, Zenon
    <3>3. Tensors(o) = [a |-> <<x, y>>, b |-> <<y, z>>, out |-> <<x, z>>]
      BY <1>1, <1>9, <2>2, <3>1 DEF Tensors, MatMulTensors
    <3> QED BY <3>2, <3>3
  <2>3. CASE Len(s) = 4
    <3>1. PICK w \in Nat \ {0}, x \in Nat \ {0}, y \in Nat \ {0}, z \in Nat \ {0} :
            w = s[1] /\ x = s[2] /\ y = s[3] /\ z = s[4]
      BY <1>4, <2>3
    <3>2. /\ (w * x) * y <= Numel(s) /\ (w * y) * z <= Numel(s)
          /\ (w * x) * z <= Numel(s)
      <4>1. ((w * x) * y) * z = Numel(s)
        BY <1>4, <2>3, <3>1
      <4>2. PICK a \in Nat \ {0}, b \in Nat \ {0}, c \in Nat \ {0} :
              a = w * x /\ b = w * y /\ c = y * z
        <5>1. w * x \in Nat \ {0} /\ w * y \in Nat \ {0} /\ y * z \in Nat \ {0}
          BY Factor
        <5> QED BY <5>1
      <4>3. /\ a * y <= (a * y) * z /\ a * z <= (a * y) * z
        BY TwoOfThree
      <4>4. b * z <= (b * z) * x /\ (b * z) * x = ((w * x) * y) * z
        <5>1. b * z \in Nat
          OBVIOUS
        <5>2. b * z <= (b * z) * x
          BY <5>1, Factor
        <5> QED BY <4>2, <5>2
      <4> QED BY <4>1, <4>2, <4>3, <4>4
    <3>3. Fit(<<w, x, y>>) /\ Fit(<<w, y, z>>) /\ Fit(<<w, x, z>>)
      BY <1>3, <3>2
    <3>4. Tensors(o) = [a |-> <<w, x, y>>, b |-> <<w, y, z>>, out |-> <<w, x, z>>]
      BY <1>1, <1>9, <2>3, <3>1 DEF Tensors, MatMulTensors
    <3> QED BY <3>3, <3>4
  <2> QED BY <2>1, <2>2, <2>3
<1> QED BY <1>2, <1>5, <1>6, <1>7, <1>8, <1>9 DEF Ops

\* A usable set of options makes a call that no operator refuses for its
\* parameters, and whose output is not empty.
LEMMA BenchFits ==
  ASSUME Usable(options), call = BenchCall(options), Measured
  PROVE  CallFits /\ Size > 0
<1> DEFINE s == options.shape
<1>1. /\ call.op = options.op /\ call.device = "cpu" /\ call.backend = options.backend
      /\ call.given = TRUE /\ call.in = Inputs(call.op) /\ call.shape = Tensors(options)
      /\ call.out = (IF call.op \in {"gelu", "rope"} THEN "x" ELSE "out")
      /\ call.typed = TRUE /\ call.positive = TRUE /\ call.rotary = 0
      /\ call.interleaved = TRUE
      /\ call.ids = IF call.op = "token_embd" THEN [n \in 1..s[3] |-> 0] ELSE <<>>
  BY DEF BenchCall
<1>2. \A t \in DOMAIN call.shape : Fit(Shape(t))
  BY <1>1, TensorsOf DEF Shape
<1>3. /\ call.op \in Ops /\ ~Refused(options) /\ Positive(s)
      /\ Len(s) >= Indexed(options) /\ call.backend \in Backends
  BY <1>1 DEF Usable
<1>4. /\ call.op = "add" => DOMAIN call.shape = {"x", "y", "out"}
      /\ call.op \in {"scale", "softmax", "token_embd"} => DOMAIN call.shape = {"x", "out"}
      /\ call.op \in {"gelu", "rope"} => DOMAIN call.shape = {"x"}
      /\ call.op = "layer_norm" => DOMAIN call.shape = {"x", "gamma", "beta", "out"}
      /\ call.op \in {"gemv", "matmul"} => "out" \in DOMAIN call.shape
  <2>1. call.op = "add" => DOMAIN call.shape = {"x", "y", "out"}
    BY <1>1 DEF Tensors
  <2>2. call.op \in {"scale", "softmax"} => DOMAIN call.shape = {"x", "out"}
    BY <1>1 DEF Tensors
  <2>3. call.op = "token_embd" => DOMAIN call.shape = {"x", "out"}
    BY <1>1 DEF Tensors, TokenEmbdTensors
  <2>4. call.op \in {"gelu", "rope"} => DOMAIN call.shape = {"x"}
    BY <1>1 DEF Tensors
  <2>5. call.op = "layer_norm" => DOMAIN call.shape = {"x", "gamma", "beta", "out"}
    BY <1>1 DEF Tensors, LayerNormTensors
  <2>6. call.op = "gemv" => "out" \in DOMAIN call.shape
    BY <1>1 DEF Tensors, GemvTensors
  <2>7. call.op = "matmul" => "out" \in DOMAIN call.shape
    <3>1. "out" \in DOMAIN MatMulTensors(s)
      BY DEF MatMulTensors
    <3> QED BY <1>1, <3>1 DEF Tensors
  <2> QED BY <2>1, <2>2, <2>3, <2>4, <2>5, <2>6, <2>7
<1>5. call.out \in DOMAIN call.shape
  BY <1>1, <1>3, <1>4 DEF Ops
<1>6. Size \in Nat /\ Size > 0
  BY <1>2, <1>5, NumelTyped DEF Fit, Size
<1>7. Refusal \in {"none", "unsupported"}
  BY <1>1 DEF Refusal
<1>8. Separate
  <2>1. call.op \notin Reset => \A n \in 1..Operands(call.op) : call.in[n] # call.out
    BY <1>1, <1>3 DEF Reset, Products, Ops, Inputs, Operands
  <2> QED BY <2>1 DEF Separate, Rerun
<1>9. CASE call.op \in Products
  BY <1>5, <1>6, <1>7, <1>8, <1>9 DEF CallFits, Fits
<1>10. CASE call.op \notin Products
  <2>1. call.op \in {"add", "scale", "gelu", "softmax", "layer_norm", "rope", "token_embd"}
    BY <1>3, <1>10 DEF Ops, Products
  <2>2. /\ X = "x" /\ "x" \in DOMAIN call.shape
    BY <1>1, <1>4, <2>1 DEF X, Inputs
  <2>3. /\ Len(call.in) = Operands(call.op) /\ call.in \in Seq(DOMAIN call.shape)
    <3>1. CASE call.op = "add"
      BY <1>1, <1>4, <3>1 DEF Inputs, Operands
    <3>2. CASE call.op = "layer_norm"
      <4>1. call.in = <<"x", "gamma", "beta">> /\ Operands(call.op) = 3
        BY <1>1, <3>2 DEF Inputs, Operands
      <4>2. \A S, a, b, c : a \in S /\ b \in S /\ c \in S =>
              <<a, b, c>> \in Seq(S) /\ Len(<<a, b, c>>) = 3
        OBVIOUS
      <4>3. /\ "x" \in DOMAIN call.shape /\ "gamma" \in DOMAIN call.shape
            /\ "beta" \in DOMAIN call.shape
        BY <1>4, <3>2
      <4> QED BY <4>1, <4>2, <4>3
    <3>3. CASE call.op \notin {"add", "layer_norm"}
      <4>1. call.in = <<"x">> /\ Operands(call.op) = 1
        BY <1>1, <3>3 DEF Inputs, Operands
      <4>2. \A S, a : a \in S => <<a>> \in Seq(S) /\ Len(<<a>>) = 1
        OBVIOUS
      <4>3. "x" \in DOMAIN call.shape
        BY <2>2
      <4> QED BY <4>1, <4>2, <4>3
    <3> QED BY <3>1, <3>2, <3>3
  <2>4. /\ s \in Seq(Nat) /\ s # <<>> /\ \A i \in 1..Len(s) : s[i] \in Nat \ {0}
        /\ Len(s) \in Nat
    BY <1>3 DEF Positive
  <2>5. Len(s) > 0 /\ Last(s) = s[Len(s)] /\ Last(s) \in Nat \ {0}
    <3>1. Len(<<>>) = 0 /\ Len(s) # 0
      BY <2>4
    <3> QED BY <2>4, <3>1 DEF Last
  <2>6. call.op # "token_embd" =>
          Shape(X) = s /\ (call.op # "layer_norm" => \A t \in DOMAIN call.shape : Shape(t) = s)
    BY <1>1, <2>1, <2>2 DEF Shape, Tensors, LayerNormTensors
  <2>7. call.op = "layer_norm" =>
          /\ Shape(call.out) = s /\ call.in[2] = "gamma" /\ call.in[3] = "beta"
          /\ Shape("gamma") = <<Last(s)>> /\ Shape("beta") = <<Last(s)>>
    BY <1>1 DEF Shape, Tensors, LayerNormTensors, Inputs
  <2>8. call.op = "token_embd" =>
          /\ Len(s) >= 3 /\ s[1] \in Nat \ {0} /\ s[2] \in Nat \ {0} /\ s[3] \in Nat \ {0}
          /\ Shape(X) = SubSeq(s, 1, 3) /\ Shape(call.out) = <<s[3], s[2]>>
          /\ call.ids = [n \in 1..s[3] |-> 0]
    <3> SUFFICES ASSUME call.op = "token_embd" PROVE
          /\ Len(s) >= 3 /\ s[1] \in Nat \ {0} /\ s[2] \in Nat \ {0} /\ s[3] \in Nat \ {0}
          /\ Shape(X) = SubSeq(s, 1, 3) /\ Shape(call.out) = <<s[3], s[2]>>
          /\ call.ids = [n \in 1..s[3] |-> 0]
      OBVIOUS
    <3>1. Len(s) >= 3
      BY <1>1, <1>3 DEF Indexed
    <3>2. 1 \in 1..Len(s) /\ 2 \in 1..Len(s) /\ 3 \in 1..Len(s)
      BY <2>4, <3>1
    <3>3. call.shape = [x |-> SubSeq(s, 1, 3), out |-> <<s[3], s[2]>>]
      BY <1>1 DEF Tensors, TokenEmbdTensors
    <3>4. Shape(X) = SubSeq(s, 1, 3) /\ Shape(call.out) = <<s[3], s[2]>>
      BY <1>1, <2>2, <3>3 DEF Shape
    <3> QED BY <1>1, <2>4, <3>1, <3>2, <3>4
  <2> HIDE DEF s
  <2>9. call.op = "token_embd" => HasRows(call) /\ Shape(X)[1] \in Nat \ {0}
    <3> SUFFICES ASSUME call.op = "token_embd"
                 PROVE  HasRows(call) /\ Shape(X)[1] \in Nat \ {0}
      OBVIOUS
    <3>1. PICK x \in Nat \ {0}, y \in Nat \ {0}, z \in Nat \ {0} :
            x = s[1] /\ y = s[2] /\ z = s[3]
      BY <2>8
    <3>2. PICK t : t = Shape(X)
      OBVIOUS
    <3>3. t \in Seq(Nat) /\ Len(t) = 3 /\ t[1] = x /\ t[2] = y /\ t[3] = z
      <4>1. t = [i \in 1..3 |-> s[i]] /\ \A i \in 1..3 : s[i] \in Nat
        BY <2>4, <2>8, <3>2
      <4> QED BY <3>1, <4>1
    <3>4. x * y <= Numel(t)
      <4>1. Positive(t)
        <5>1. Len(<<>>) = 0
          OBVIOUS
        <5>2. \A i \in 1..3 : i = 1 \/ i = 2 \/ i = 3
          OBVIOUS
        <5>3. \A i \in 1..Len(t) : t[i] \in Nat \ {0}
          BY <3>3, <5>2
        <5>4. t # <<>>
          <6>1. Len(t) # Len(<<>>)
            BY <3>3, <5>1
          <6> QED BY <6>1, Zenon
        <5> QED BY <3>3, <5>3, <5>4 DEF Positive
      <4>2. t[1] * t[2] <= Numel(t)
        BY <3>3, <4>1, Dimensions
      <4> QED BY <3>3, <4>2
    <3>5. Numel(Shape(call.out)) = z * y
      BY <2>8, <3>1, NumelTwo
    <3>6. call.ids \in Seq(Int) /\ Len(call.ids) = z
      BY <2>8, <3>1
    <3>7. call.shape[call.in[1]] = t /\ call.shape[call.out] = Shape(call.out)
          /\ call.out # call.in[1]
      BY <1>1, <2>2, <3>2 DEF Shape, X
    <3>8. HasRows(call)
      <4>1. t[1] * t[2] <= Numel(t) /\ Len(t) >= 2
        BY <3>3, <3>4
      <4>2. Numel(call.shape[call.out]) = Len(call.ids) * t[2]
        BY <3>3, <3>5, <3>6, <3>7
      <4> QED BY <3>6, <3>7, <4>1, <4>2 DEF HasRows
    <3> QED BY <3>2, <3>3, <3>8
  <2>10. IsCall(call)
    <3>1. call.shape \in [DOMAIN call.shape -> Seq(Nat)]
      <4>1. call.shape = [t \in DOMAIN call.shape |-> call.shape[t]]
        BY <1>1, <2>1 DEF Tensors, LayerNormTensors, TokenEmbdTensors
      <4> QED BY <1>2, <4>1 DEF Fit, Shape
    <3>2. call.op \in {"gelu", "rope"} => call.out = call.in[1]
      BY <1>1 DEF Inputs
    <3>3. call.op \in RowWise \cup Elementwise \cup {"rope", "token_embd"}
      BY <2>1 DEF RowWise, Elementwise
    <3>4. call.rotary \in Nat
      BY <1>1
    <3> QED BY <1>5, <2>3, <2>9, <3>1, <3>2, <3>3, <3>4 DEF IsCall
  <2>11. Accepted
    <3>1. CASE call.op \in {"add", "scale"}
      <4>1. \A n \in DOMAIN call.in : call.in[n] \in DOMAIN call.shape
        BY <2>3
      <4>2. SameShapes
        BY <1>5, <2>6, <3>1, <4>1 DEF SameShapes
      <4> QED BY <1>1, <3>1, <4>2 DEF Accepted
    <3>2. CASE call.op \in {"gelu", "token_embd"}
      BY <1>1, <3>2 DEF Accepted
    <3>3. CASE call.op = "softmax"
      <4>1. \A n \in DOMAIN call.in : call.in[n] \in DOMAIN call.shape
        BY <2>3
      <4>2. SameShapes
        BY <1>5, <2>6, <3>3, <4>1 DEF SameShapes
      <4>3. Shape(X) # <<>>
        BY <2>4, <2>6, <3>3
      <4> QED BY <1>1, <3>3, <4>2, <4>3 DEF Accepted, SoftmaxAccepted
    <3>4. CASE call.op = "layer_norm"
      <4>1. Width = Last(s)
        BY <2>6, <3>4 DEF Width, RowWise, Elementwise
      <4>2. Numel(<<Last(s)>>) = Last(s)
        BY <2>5, NumelOne
      <4>3. \A n \in {2, 3} : Numel(Shape(call.in[n])) = Width
        BY <2>7, <3>4, <4>1, <4>2
      <4>4. Shape(X) # <<>> /\ Shape(call.out) = Shape(X)
        BY <2>4, <2>6, <2>7, <3>4
      <4> QED BY <1>1, <3>4, <4>3, <4>4 DEF Accepted, NormAccepted
    <3>5. CASE call.op = "rope"
      <4>1. Shape(X) = s /\ Len(s) = 4 /\ s[4] % 2 = 0
        BY <1>1, <1>3, <2>6, <3>5 DEF Refused, RopeRefused, s
      <4>2. Rotary = Last(s) /\ Last(s) = s[4] /\ Last(s) \in Nat \ {0}
        BY <1>1, <2>5, <4>1 DEF Rotary
      <4> QED BY <1>1, <3>5, <4>1, <4>2 DEF Accepted, RopeAccepted
    <3> QED BY <2>1, <3>1, <3>2, <3>3, <3>4, <3>5
  <2>12. call.op \in RowWise => Width > 0
    BY <2>5, <2>6 DEF Width, RowWise, Elementwise
  <2>13. call.op = "token_embd" => \A n \in 1..Rows : Known(n)
    <3> SUFFICES ASSUME call.op = "token_embd" PROVE \A n \in 1..Rows : Known(n)
      OBVIOUS
    <3>1. PICK z \in Nat \ {0} : z = s[3]
      BY <2>8
    <3>2. Rows = z
      BY <2>8, <3>1 DEF Rows, RowWise, Elementwise
    <3>3. \A n \in 1..z : call.ids[n] = 0
      BY <2>8, <3>1
    <3> QED BY <2>9, <3>2, <3>3 DEF Known
  <2> QED BY <1>5, <1>6, <1>7, <1>8, <2>10, <2>11, <2>12, <2>13 DEF CallFits, Fits
<1> QED BY <1>6, <1>9, <1>10

\* Options that parse_args lets through and main does not refuse can be used.
LEMMA UsableOf ==
  ASSUME NEW o, o.op \in Ops, ~Refused(o), o.shape # <<>>, Len(o.shape) >= Indexed(o),
         o.shape \in Seq(Int), IsShape(o.shape), o.backend \in Backends
  PROVE  Usable(o)
<1> DEFINE s == o.shape
<1>3. \A n \in 1..Len(s) : s[n] \in Nat \ {0}
  <2>1. \A n \in DOMAIN s : s[n] \in 0..MaxSize /\ s[n] > 0
    BY DEF IsShape, IsSize
  <2>2. DOMAIN s = 1..Len(s) /\ \A n \in DOMAIN s : s[n] \in Int
    OBVIOUS
  <2> QED BY <2>1, <2>2
<1>4. s \in Seq(Nat)
  BY <1>3
<1>5. ~Overflows(s)
  BY DEF IsShape
<1> QED BY <1>3, <1>4, <1>5 DEF Usable, Positive

\* With what parse_args lets through main gets as far as the tensors.
LEMMA UsableOptions ==
  ASSUME Calling, OptionsTyped, Measured
  PROVE  Usable(options)
<1>1. /\ ~Incomplete /\ ~Refused(options) /\ options.shape # <<>>
      /\ Len(options.shape) >= Indexed(options)
      /\ options.shape \in Seq(Int) /\ IsShape(options.shape)
      /\ options.backend \in Backends
  BY DEF Calling, OptionsTyped
<1>2. options.op \in Ops
  BY <1>1 DEF Refused
<1> QED BY <1>1, <1>2, UsableOf

\* Every call under way fits.
LEMMA CallHolds ==
  ASSUME Calling, OptionsTyped, Places, Started
  PROVE  CallFits /\ (Measured => Size > 0)
<1>1. CASE Measured
  <2>1. call = BenchCall(options)
    BY <1>1 DEF Calling
  <2> QED BY <1>1, <2>1, UsableOptions, BenchFits
<1>2. CASE ~Measured
  <2>1. phase = "library"
    BY <1>2 DEF Measured, Started, Places
  <2>2. call \in Calls
    BY <2>1 DEF Calling
  <2>3. IsCall(call)
    BY <2>2, CallsAssumption
  <2>4. call.out \in DOMAIN call.shape /\ Size \in Nat
    BY <2>3, CallParts
  <2> QED BY <1>2, <2>3, <2>4 DEF CallFits, Separate, Rerun
<1> QED BY <1>1, <1>2

\* The conjuncts of the invariant that read nothing but the call and the
\* variables of main.
LEMMA SameMain ==
  ASSUME UNCHANGED <<benchVars, call>>
  PROVE  /\ OptionsTyped' = OptionsTyped /\ Places' = Places /\ Profiles' = Profiles
         /\ Failing' = Failing /\ Objection' = Objection /\ Measured' = Measured
         /\ EndsAsDocumented' = EndsAsDocumented
<1>1. UNCHANGED <<argv, environment, options, phase, exit, count, printed, starved,
                  attached, cpu, scope, quota, finished, recorded, call>>
  BY DEF benchVars
<1>2. Config' = Config
  BY <1>1 DEF Config
<1>3. Admitted' = Admitted
  BY <1>1, <1>2 DEF Admitted
<1>4. \A a : Meanings(a)' = Meanings(a)
  BY <1>1, Zenon DEF Meanings
<1>5. Refusal' = Refusal
  BY <1>1, SameCall
<1>6. Measured' = Measured
  BY <1>1 DEF Measured
<1>8. Failing' = Failing
  BY <1>1, <1>2 DEF Failing
<1>9. /\ Incomplete' = Incomplete /\ Refused(options)' = Refused(options)
      /\ TooMany' = TooMany
  BY <1>1 DEF Incomplete, TooMany
<1>10. Objection' = Objection
  BY <1>1, <1>2, <1>4, <1>5, <1>9, Zenon DEF Objection
<1>11. EndsAsDocumented' = EndsAsDocumented
  BY <1>1, <1>10, Zenon DEF EndsAsDocumented
<1>12. OptionsTyped' = OptionsTyped
  BY <1>1 DEF OptionsTyped
<1>13. Places' = Places
  BY <1>1, <1>6, <1>9 DEF Places
<1>14. Profiles' = Profiles
  <2>1. \A n : Traced(n)' = Traced(n)
    BY <1>2, <1>3 DEF Traced
  <2> QED BY <1>1, <1>2, <2>1 DEF Profiles
<1> QED BY <1>6, <1>8, <1>10, <1>11, <1>12, <1>13, <1>14, Zenon

\* A step of an operator leaves main alone and keeps its own part.
LEMMA OperatorRuns ==
  ASSUME BenchInv, Operator
  PROVE  /\ UNCHANGED <<benchVars, call>> /\ Runs' /\ pc # "idle" /\ pc' # "idle"
         /\ phase # "start" /\ (Measured /\ Refusal # "none" => UNCHANGED mem)
<1>1. UNCHANGED <<benchVars, call>> /\ UNCHANGED phase
  BY DEF Operator, Multiply, Step, Infer, BeginRow, Visit, EndPass, Return, benchVars
<1>2. pc # "idle"
  BY DEF Operator, Multiply, Step, Infer, BeginRow, Visit, EndPass
<1>3. phase # "start" /\ Started
  BY <1>2 DEF BenchInv, Calling, Started
<1>4. CallFits /\ Runs
  BY <1>3, CallHolds DEF BenchInv, Progress, Kept, Runs
<1>5. Pristine
  BY DEF BenchInv, Progress
<1>6. CASE call.op \in Products
  <2>1. Multiply
    BY <1>6 DEF Operator, Products
  <2>2. phase = "library" => IsCall(call)
    BY CallsAssumption DEF BenchInv, Calling
  <2>3. phase # "library"
    BY <1>6, <2>2 DEF Products, IsCall, RowWise, Elementwise
  <2>4. Measured
    BY <1>3, <2>3 DEF BenchInv, Progress, Places, Measured
  <2>5. call = BenchCall(options) /\ OptionsTyped
    BY <2>4 DEF BenchInv, Calling
  <2>6. Runs'
    BY <1>1, <1>4, <1>5, <2>1, <2>4, <2>5, MultiplyRuns
  <2>7. Refusal # "none" => UNCHANGED mem
    <3> SUFFICES ASSUME Refusal # "none" PROVE UNCHANGED mem
      OBVIOUS
    <3>1. Refusal = "unsupported"
      BY <1>4, <2>4 DEF CallFits, Fits
    <3>2. Kernels = {"automatic", "reference", "avx2"}
      BY <1>6 DEF Kernels, Products
    <3>3. call.device = "cpu" /\ call.backend \in Backends
      BY <2>5 DEF BenchCall, OptionsTyped
    <3>4. call.backend = "x86_opt"
      BY <3>1, <3>2, <3>3 DEF Refusal, Backends
    <3> QED BY <2>1, <3>4 DEF Multiply, Return
  <2>8. pc' # "idle"
    BY <2>1 DEF Multiply, Return
  <2> QED BY <1>1, <1>2, <1>3, <2>6, <2>7, <2>8
<1>7. CASE call.op \notin Products
  <2>1. Step
    BY <1>7 DEF Operator, Products
  <2>2. CASE Infer
    <3>1. Runs'
      BY <1>1, <1>4, <1>5, <1>7, <2>2, InferRuns
    <3> QED BY <1>1, <1>2, <1>3, <2>2, <3>1 DEF Infer, Return
  <2>3. CASE ~Infer
    <3>1. BeginRow \/ Visit \/ EndPass
      BY <2>1, <2>3 DEF Step
    <3>2. Runs'
      BY <1>1, <1>4, <3>1, BeginRowRuns, VisitRuns, EndPassRuns
    <3>3. pc' # "idle" /\ pc \in {"row", "pass"}
      BY <3>1 DEF BeginRow, Visit, EndPass, Return
    <3>4. Refusal = "none"
      BY <3>3 DEF BenchInv, Counters
    <3> QED BY <1>1, <1>2, <1>3, <3>2, <3>3, <3>4
  <2> QED BY <2>2, <2>3
<1> QED BY <1>6, <1>7

\* A step of an operator keeps the invariant.
LEMMA OperatorKeeps ==
  ASSUME BenchInv, Operator
  PROVE  BenchInv'
<1>1. /\ UNCHANGED <<benchVars, call>> /\ Runs' /\ pc # "idle" /\ pc' # "idle"
      /\ phase # "start" /\ (Measured /\ Refusal # "none" => UNCHANGED mem)
  BY OperatorRuns
<1>2. /\ UNCHANGED <<phase, exit, printed, count, attached, options>> /\ UNCHANGED call
  BY <1>1 DEF benchVars
<1>3. /\ OptionsTyped' = OptionsTyped /\ Places' = Places /\ Profiles' = Profiles
      /\ Failing' = Failing /\ Measured' = Measured
      /\ EndsAsDocumented' = EndsAsDocumented
  BY <1>1, SameMain
<1>4. /\ Size' = Size /\ Refusal' = Refusal
      /\ \A k : Result(k)' = Result(k)
  BY <1>1, SameCall, SameResult
<1>5. Calling'
  BY <1>1, <1>2, <1>3 DEF BenchInv, Calling, Incomplete
<1>6. Pristine'
  BY <1>1, <1>2, <1>3, <1>4 DEF BenchInv, Progress, Pristine, Out
<1>7. Between'
  BY <1>1, <1>2, <1>3 DEF Between
<1>8. Ran' = Ran
  BY <1>2 DEF Ran
<1>9. Succeeded' /\ Printed'
  BY <1>1, <1>2, <1>3, <1>4, <1>8 DEF BenchInv, Progress, Succeeded, Printed
<1>10. Kept'
  BY <1>1 DEF Kept, Runs
<1> QED BY <1>1, <1>3, <1>5, <1>6, <1>7, <1>9, <1>10 DEF BenchInv, Progress, Runs

-----------------------------------------------------------------------------
(* What Configuration makes of LINUX_PERF *)

\* The configurations there can be, and a turn of the loop over the options.
Configured == [dump : Int, switchCpu : BOOLEAN, mask : SUBSET Cpu, events : Nat,
               failed : BOOLEAN]
Applied(c, o) == IF c.failed THEN c ELSE ParseOption(c, o)
AppliedEq(f, e) ==
    f = [i \in 0..Len(e) |-> IF i = 0 THEN Unset ELSE Applied(f[i - 1], e[i])]

\* An option makes a configuration of a configuration.
LEMMA OptionTyped ==
  ASSUME NEW c \in Configured, NEW o \in Option
  PROVE  Applied(c, o) \in Configured
<1>1. Forever \in Int /\ Affinity \in SUBSET Cpu
  BY ConfigurationAssumption
<1>2. CASE c.failed
  BY <1>2 DEF Applied
<1>3. CASE ~c.failed
  <2> DEFINE d == ParseOption(c, o)
  <2>1. CASE o.key = "dump" /\ o.value = NoValue
    <3>1. d = [c EXCEPT !.dump = Forever]
      BY <2>1 DEF ParseOption, IsEvent, IsNamed, IsNumbers
    <3> QED BY <1>1, <1>3, <3>1 DEF Applied, Configured
  <2>2. CASE o.key = "dump" /\ IsNumbers(o.value) /\ Len(o.value) = 1
    <3>1. o.value # NoValue /\ o.value \in Seq(Int)
      BY <2>2 DEF IsNumbers, Option
    <3>2. o.value[1] \in Int
      BY <2>2, <3>1
    <3>3. d = [c EXCEPT !.dump = o.value[1]]
      BY <2>2, <3>1 DEF ParseOption, IsEvent, IsNamed, IsNumbers
    <3> QED BY <1>3, <3>2, <3>3 DEF Applied, Configured
  <2>3. CASE o.key = "switch-cpu"
    <3>1. d = [c EXCEPT !.switchCpu = TRUE, !.mask = Affinity]
      BY <2>3 DEF ParseOption, IsEvent, IsNamed, IsNumbers
    <3> QED BY <1>1, <1>3, <3>1 DEF Applied, Configured
  <2>4. CASE o.key = "cpus" /\ IsNumbers(o.value)
    <3>1. d = [c EXCEPT !.mask = ToSet(o.value) \cap Cpu]
      BY <2>4 DEF ParseOption, IsEvent, IsNamed, IsNumbers
    <3> QED BY <1>3, <3>1 DEF Applied, Configured
  <2>5. CASE IsEvent(o)
    <3>1. d = [c EXCEPT !.events = @ + 1]
      BY <2>5 DEF ParseOption, IsEvent, IsNamed, IsNumbers
    <3> QED BY <1>3, <3>1 DEF Applied, Configured
  <2>6. CASE /\ ~(o.key = "dump" /\ o.value = NoValue)
             /\ ~(o.key = "dump" /\ IsNumbers(o.value) /\ Len(o.value) = 1)
             /\ o.key # "switch-cpu" /\ ~(o.key = "cpus" /\ IsNumbers(o.value))
             /\ ~IsEvent(o)
    <3>1. d = [c EXCEPT !.failed = TRUE]
      BY <2>6, Zenon DEF ParseOption
    <3> QED BY <1>3, <3>1 DEF Applied, Configured
  <2> QED BY <1>1, <1>3, <2>1, <2>2, <2>3, <2>4, <2>5, <2>6 DEF Applied
<1> QED BY <1>2, <1>3

\* The configurations the constructor goes through exist.
LEMMA Parsing ==
  ASSUME NEW e \in Seq(Option)
  PROVE  \E p \in [0..Len(e) -> Configured] :
           /\ p[0] = Unset /\ \A i \in 1..Len(e) : p[i] = Applied(p[i - 1], e[i])
           /\ Parse(e) = p[Len(e)]
<1>1. PICK n \in Nat : n = Len(e)
  OBVIOUS
<1>2. PICK g : g = [i \in 1..n |-> [c \in Configured |-> Applied(c, e[i])]]
  OBVIOUS
<1>3. g \in [1..n -> [Configured -> Configured]]
  <2>1. \A i \in 1..n : e[i] \in Option
    BY <1>1
  <2>2. \A i \in 1..n : [c \in Configured |-> Applied(c, e[i])] \in [Configured -> Configured]
    BY <2>1, OptionTyped
  <2> QED BY <1>2, <2>2
<1>4. Unset \in Configured
  BY DEF Unset, Configured
<1>5. PICK f : f \in [0..n -> Configured] /\ Loop(f, n, Unset, g)
  BY <1>3, <1>4, Recursion
<1>6. ASSUME NEW i \in 0..n PROVE f[i] = IF i = 0 THEN Unset ELSE Applied(f[i - 1], e[i])
  <2>1. CASE i = 0
    BY <1>5, <2>1 DEF Loop
  <2>2. CASE i # 0
    <3>1. i \in 1..n /\ f[i - 1] \in Configured
      BY <1>5, <2>2
    <3>2. f[i] = g[i][f[i - 1]]
      BY <1>5, <3>1 DEF Loop
    <3> QED BY <1>2, <2>2, <3>1, <3>2
  <2> QED BY <2>1, <2>2
<1>7. AppliedEq(f, e)
  <2>1. f = [i \in 0..n |-> f[i]]
    BY <1>5
  <2>2. f = [i \in 0..n |-> IF i = 0 THEN Unset ELSE Applied(f[i - 1], e[i])]
    BY <1>6, <2>1, Zenon
  <2> QED BY <1>1, <2>2, Zenon DEF AppliedEq
<1>8. PICK p : AppliedEq(p, e) /\ Parse(e) = p[n]
  <2>1. \A h : AppliedEq(h, e) <=>
          h = [i \in 0..Len(e) |->
                IF i = 0 THEN Unset
                ELSE IF h[i - 1].failed THEN h[i - 1] ELSE ParseOption(h[i - 1], e[i])]
    BY Zenon DEF AppliedEq, Applied
  <2>2. PICK q : q = CHOOSE h : h = [i \in 0..Len(e) |->
                IF i = 0 THEN Unset
                ELSE IF h[i - 1].failed THEN h[i - 1] ELSE ParseOption(h[i - 1], e[i])]
    OBVIOUS
  <2>3. AppliedEq(q, e)
    BY <1>7, <2>1, <2>2, Zenon
  <2>4. Parse(e) = q[Len(e)]
    BY <2>2, Zenon DEF Parse
  <2> QED BY <1>1, <2>3, <2>4
<1>9. \A i \in 0..n : p[i] = IF i = 0 THEN Unset ELSE Applied(p[i - 1], e[i])
  BY <1>1, <1>8 DEF AppliedEq
<1> DEFINE T == {i \in 0..n : p[i] \in Configured}
<1>10. 0 \in T
  BY <1>4, <1>9
<1>11. ASSUME NEW i \in 1..n, i - 1 \in T PROVE i \in T
  <2>1. i \in 0..n /\ i # 0 /\ e[i] \in Option
    BY <1>1
  <2> QED BY <1>9, <1>11, <2>1, OptionTyped
<1>12. \A i \in 0..n : i \in T
  <2> HIDE DEF T
  <2> QED BY <1>10, <1>11, UpTo
<1>13. p \in [0..n -> Configured]
  <2>1. DOMAIN p = 0..n /\ p = [i \in 0..n |-> p[i]]
    BY <1>1, <1>8 DEF AppliedEq
  <2> QED BY <1>12, <2>1
<1>14. /\ p[0] = Unset /\ \A i \in 1..n : p[i] = Applied(p[i - 1], e[i])
  <2>1. 0 \in 0..n /\ \A i \in 1..n : i \in 0..n /\ i # 0
    OBVIOUS
  <2> QED BY <1>9, <2>1
<1> QED BY <1>1, <1>8, <1>13, <1>14

\* The last of the first i options with one of these keys; what an option that
\* is not at fault sets; a configuration made of the first i options of e.
LastOf(e, i, keys, n) ==
    n \in 1..i /\ e[n].key \in keys /\ \A m \in n + 1..i : e[m].key \notin keys
Limit(o) == IF o.value = NoValue THEN Forever ELSE o.value[1]
Mask(o) == IF o.key = "switch-cpu" THEN Affinity ELSE ToSet(o.value) \cap Cpu
Limits == {"dump"}
Masks == {"cpus", "switch-cpu"}
Without(e, i, keys) == \A m \in 1..i : e[m].key \notin keys
Follows(c, e, i) ==
    /\ \/ Without(e, i, Limits) /\ c.dump = 0
       \/ \E n \in 1..i : LastOf(e, i, Limits, n) /\ c.dump = Limit(e[n])
    /\ \/ Without(e, i, Masks) /\ c.mask = {}
       \/ \E n \in 1..i : LastOf(e, i, Masks, n) /\ c.mask = Mask(e[n])

\* An option sets its own field and no other.
LEMMA OptionFollows ==
  ASSUME NEW c \in Configured, NEW o \in Option, ~c.failed, ~Applied(c, o).failed
  PROVE  /\ Applied(c, o).dump = IF o.key \in Limits THEN Limit(o) ELSE c.dump
         /\ Applied(c, o).mask = IF o.key \in Masks THEN Mask(o) ELSE c.mask
<1> DEFINE d == ParseOption(c, o)
<1>1. Applied(c, o) = d
  BY DEF Applied
<1>2. CASE o.key = "dump" /\ o.value = NoValue
  <2>1. d = [c EXCEPT !.dump = Forever]
    BY <1>2 DEF ParseOption, IsEvent, IsNamed, IsNumbers
  <2> QED BY <1>1, <1>2, <2>1 DEF Configured, Limits, Masks, Limit
<1>3. CASE o.key = "dump" /\ IsNumbers(o.value) /\ Len(o.value) = 1
  <2>1. o.value # NoValue
    BY <1>3 DEF IsNumbers
  <2>2. d = [c EXCEPT !.dump = o.value[1]]
    BY <1>3, <2>1 DEF ParseOption, IsEvent, IsNamed, IsNumbers
  <2> QED BY <1>1, <1>3, <2>1, <2>2 DEF Configured, Limits, Masks, Limit
<1>4. CASE o.key = "switch-cpu"
  <2>1. d = [c EXCEPT !.switchCpu = TRUE, !.mask = Affinity]
    BY <1>4 DEF ParseOption, IsEvent, IsNamed, IsNumbers
  <2> QED BY <1>1, <1>4, <2>1 DEF Configured, Limits, Masks, Mask
<1>5. CASE o.key = "cpus" /\ IsNumbers(o.value)
  <2>1. d = [c EXCEPT !.mask = ToSet(o.value) \cap Cpu]
    BY <1>5 DEF ParseOption, IsEvent, IsNamed, IsNumbers
  <2> QED BY <1>1, <1>5, <2>1 DEF Configured, Limits, Masks, Mask
<1>6. CASE IsEvent(o)
  <2>1. d = [c EXCEPT !.events = @ + 1]
    BY <1>6 DEF ParseOption, IsEvent, IsNamed, IsNumbers
  <2>2. o.key \in {"named", "number"}
    BY <1>6 DEF IsEvent, IsNamed
  <2> QED BY <1>1, <2>1, <2>2 DEF Configured, Limits, Masks
<1>7. CASE /\ ~(o.key = "dump" /\ o.value = NoValue)
           /\ ~(o.key = "dump" /\ IsNumbers(o.value) /\ Len(o.value) = 1)
           /\ o.key # "switch-cpu" /\ ~(o.key = "cpus" /\ IsNumbers(o.value))
           /\ ~IsEvent(o)
  <2>1. d = [c EXCEPT !.failed = TRUE]
    BY <1>7, Zenon DEF ParseOption
  <2> QED BY <1>1, <2>1 DEF Configured
<1> QED BY <1>2, <1>3, <1>4, <1>5, <1>6, <1>7

\* One more option of which the last with one of these keys is known.
LEMMA LastStays ==
  ASSUME NEW e, NEW i \in Nat \ {0}, NEW keys
  PROVE  /\ e[i].key \in keys => LastOf(e, i, keys, i)
         /\ e[i].key \notin keys =>
              /\ \A n \in 1..i - 1 :
                   LastOf(e, i - 1, keys, n) => n \in 1..i /\ LastOf(e, i, keys, n)
              /\ Without(e, i - 1, keys) => Without(e, i, keys)
  BY DEF LastOf, Without

\* What has been parsed follows the last options.
LEMMA ParseFollows ==
  ASSUME NEW e \in Seq(Option), ~Parse(e).failed
  PROVE  Follows(Parse(e), e, Len(e))
<1>1. PICK n \in Nat : n = Len(e)
  OBVIOUS
<1>2. PICK p \in [0..n -> Configured] :
        /\ p[0] = Unset /\ \A i \in 1..n : p[i] = Applied(p[i - 1], e[i])
        /\ Parse(e) = p[n]
  BY <1>1, Parsing
<1> DEFINE T == {i \in 0..n : ~p[i].failed => Follows(p[i], e, i)}
<1>3. 0 \in T
  BY <1>2 DEF Follows, Without, Unset
<1>4. ASSUME NEW i \in 1..n, i - 1 \in T PROVE i \in T
  <2>1. /\ i \in 0..n /\ i - 1 \in 0..n /\ i \in Nat \ {0} /\ e[i] \in Option
        /\ p[i - 1] \in Configured
    BY <1>1, <1>2
  <2>2. PICK c \in Configured, o \in Option : c = p[i - 1] /\ o = e[i]
    BY <2>1
  <2>3. p[i] = Applied(c, o)
    BY <1>2, <2>2
  <2> SUFFICES ASSUME ~p[i].failed PROVE Follows(p[i], e, i)
    BY <2>1
  <2>4. ~c.failed
    BY <2>3 DEF Applied
  <2>5. Follows(c, e, i - 1)
    BY <1>4, <2>2, <2>4
  <2>6. /\ p[i].dump = (IF o.key \in Limits THEN Limit(o) ELSE c.dump)
        /\ p[i].mask = IF o.key \in Masks THEN Mask(o) ELSE c.mask
    BY <2>3, <2>4, OptionFollows
  <2>7. \/ Without(e, i, Limits) /\ p[i].dump = 0
        \/ \E m \in 1..i : LastOf(e, i, Limits, m) /\ p[i].dump = Limit(e[m])
    <3>1. CASE o.key \in Limits
      <4>1. i \in 1..i /\ LastOf(e, i, Limits, i)
        BY <2>1, <2>2, <3>1, LastStays
      <4> QED BY <2>2, <2>6, <3>1, <4>1
    <3>2. CASE o.key \notin Limits
      BY <2>1, <2>2, <2>5, <2>6, <3>2, LastStays DEF Follows
    <3> QED BY <3>1, <3>2
  <2>8. \/ Without(e, i, Masks) /\ p[i].mask = {}
        \/ \E m \in 1..i : LastOf(e, i, Masks, m) /\ p[i].mask = Mask(e[m])
    <3>1. CASE o.key \in Masks
      <4>1. i \in 1..i /\ LastOf(e, i, Masks, i)
        BY <2>1, <2>2, <3>1, LastStays
      <4> QED BY <2>2, <2>6, <3>1, <4>1
    <3>2. CASE o.key \notin Masks
      BY <2>1, <2>2, <2>5, <2>6, <3>2, LastStays DEF Follows
    <3> QED BY <3>1, <3>2
  <2> QED BY <2>7, <2>8 DEF Follows
<1>5. \A i \in 0..n : i \in T
  <2> HIDE DEF T
  <2> QED BY <1>3, <1>4, UpTo
<1>6. n \in 0..n
  OBVIOUS
<1>7. n \in T
  BY <1>5, <1>6, Zenon
<1> QED BY <1>1, <1>2, <1>7

\* What has been parsed is a configuration.
LEMMA ConfigTyped == ASSUME NEW e \in Seq(Option) PROVE Parse(e) \in Configured
<1>1. Len(e) \in 0..Len(e)
  OBVIOUS
<1> QED BY <1>1, Parsing

\* LastGiven finds the last one.
LEMMA LastFound ==
  ASSUME environment \in Seq(Option), NEW keys
  PROVE  /\ Without(environment, Len(environment), keys) => LastGiven(keys) = 0
         /\ \A n \in 1..Len(environment) :
              LastOf(environment, Len(environment), keys, n) => LastGiven(keys) = n
<1> DEFINE given == {n \in DOMAIN environment : environment[n].key \in keys}
<1>1. PICK l \in Nat : l = Len(environment)
  OBVIOUS
<1>2. given = {n \in 1..l : environment[n].key \in keys}
  BY <1>1
<1>3. LastGiven(keys) = IF given = {} THEN 0 ELSE Max(given)
  BY DEF LastGiven
<1>4. ASSUME NEW n \in 1..l, LastOf(environment, l, keys, n) PROVE LastGiven(keys) = n
  <2>1. n \in given /\ \A m \in given : n >= m
    BY <1>2, <1>4 DEF LastOf
  <2>2. \A m \in given : m \in Nat
    BY <1>2
  <2> HIDE DEF given
  <2>3. Max(given) \in given /\ \A m \in given : Max(given) >= m
    <3>1. \E x \in given : \A m \in given : x >= m
      BY <2>1
    <3> QED BY <3>1 DEF Max
  <2>4. PICK x \in Nat : x = Max(given) /\ x >= n
    BY <2>1, <2>2, <2>3
  <2>5. n >= x
    BY <2>1, <2>3, <2>4
  <2>6. Max(given) = n
    BY <2>4, <2>5
  <2> QED BY <1>3, <2>1, <2>6
<1>5. Without(environment, l, keys) => LastGiven(keys) = 0
  BY <1>2, <1>3 DEF Without
<1> QED BY <1>1, <1>4, <1>5

\* The smaller of two numbers.
LEMMA MinOf == ASSUME NEW a \in Int, NEW b \in Int
               PROVE  Min({a, b}) = IF a <= b THEN a ELSE b
<1>1. \E x \in {a, b} : \A y \in {a, b} : x <= y
  OBVIOUS
<1>2. Min({a, b}) \in {a, b} /\ \A y \in {a, b} : Min({a, b}) <= y
  BY <1>1 DEF Min
<1> QED BY <1>2

\* What has been traced follows the last options.
LEMMA FollowsOptions == ASSUME Profiles PROVE TraceFollowsOptions
<1> SUFFICES ASSUME attached PROVE TraceFollowsOptions
  BY DEF TraceFollowsOptions
<1> DEFINE e == environment
           dump == LastGiven({"dump"})
           limit == environment[dump].value
           mask == LastGiven({"cpus", "switch-cpu"})
           allowed == IF environment[mask].key = "switch-cpu" THEN Affinity
                      ELSE ToSet(environment[mask].value) \cap Cpu
           admitted == mask = 0 \/ allowed = {} \/ cpu \in allowed
           l == Len(environment)
<1>1. /\ environment \in Seq(Option) /\ ~Config.failed
      /\ recorded = Traced(finished) /\ finished \in Nat
  BY BenchmarkAssumption DEF Profiles
<1>2. Follows(Config, e, l) /\ Config \in Configured
  BY <1>1, ParseFollows, ConfigTyped DEF Config
<1>3. Config.dump \in Int /\ Forever \in Nat
  BY <1>2, ConfigurationAssumption DEF Configured
<1>4. admitted <=> Admitted
  <2>1. CASE Without(e, l, Masks) /\ Config.mask = {}
    <3>1. mask = 0
      BY <1>1, <2>1, LastFound DEF Masks
    <3> QED BY <2>1, <3>1 DEF Admitted, TraceAllowedOn
  <2>2. CASE \E n \in 1..l : LastOf(e, l, Masks, n) /\ Config.mask = Mask(e[n])
    <3>1. PICK n \in 1..l : LastOf(e, l, Masks, n) /\ Config.mask = Mask(e[n])
      BY <2>2
    <3>2. mask = n
      BY <1>1, <3>1, LastFound DEF Masks
    <3>3. e[mask] = e[n] /\ mask # 0
      BY <1>1, <3>2
    <3>4. Config.mask = allowed
      BY <3>1, <3>3, Zenon DEF Mask
    <3> QED BY <3>3, <3>4, Zenon DEF Admitted, TraceAllowedOn
  <2> QED BY <1>2, <2>1, <2>2 DEF Follows
<1>5. recorded = IF dump = 0 \/ ~admitted THEN 0
                 ELSE IF limit = NoValue THEN Min({finished, Forever})
                 ELSE IF limit[1] < 0 THEN finished
                 ELSE Min({finished, limit[1]})
  <2>1. CASE Without(e, l, Limits) /\ Config.dump = 0
    <3>1. dump = 0
      BY <1>1, <2>1, LastFound DEF Limits
    <3> QED BY <1>1, <2>1, <3>1 DEF Traced
  <2>2. CASE \E n \in 1..l : LastOf(e, l, Limits, n) /\ Config.dump = Limit(e[n])
    <3>1. PICK n \in 1..l : LastOf(e, l, Limits, n) /\ Config.dump = Limit(e[n])
      BY <2>2
    <3>2. dump = n /\ n # 0
      BY <1>1, <3>1, LastFound DEF Limits
    <3>3. Config.dump = IF limit = NoValue THEN Forever ELSE limit[1]
      BY <3>1, <3>2 DEF Limit
    <3>4. PICK f \in Nat, d \in Int : f = finished /\ d = Config.dump
      BY <1>1, <1>3
    <3>5. Min({f, 0}) = 0
      BY <3>4, MinOf
    <3>6. recorded = IF ~admitted THEN 0 ELSE IF d < 0 THEN f ELSE Min({f, d})
      <4>1. recorded = IF ~Admitted \/ d = 0 THEN 0 ELSE IF d < 0 THEN f ELSE Min({f, d})
        BY <1>1, <3>4, Zenon DEF Traced
      <4>2. d = 0 => ~(d < 0) /\ Min({f, d}) = 0
        BY <3>4, <3>5
      <4> HIDE DEF admitted
      <4> QED BY <1>4, <4>1, <4>2, Zenon
    <3>7. CASE limit = NoValue
      BY <1>3, <3>2, <3>3, <3>4, <3>6, <3>7
    <3>8. CASE limit # NoValue
      BY <3>2, <3>3, <3>4, <3>6, <3>8
    <3> QED BY <3>7, <3>8
  <2> QED BY <1>2, <2>1, <2>2 DEF Follows
<1> QED BY <1>5, Zenon DEF TraceFollowsOptions

-----------------------------------------------------------------------------
(* The steps of main *)

\* What main does before there is a call leaves nothing to show of the runs.
LEMMA BeforeTheCall ==
  ASSUME phase' = "start", call' = NoCall, pc' = "idle", status' = "none",
         printed' = <<>>, ~attached'
  PROVE  /\ Kept' /\ Elements' /\ Sums' /\ Counters' /\ Answers' /\ Calling'
         /\ Pristine' /\ Between' /\ Succeeded' /\ Printed'
<1>1. Kept' /\ Elements' /\ Sums' /\ Counters'
  BY DEF Kept, Started, Elements, Sums, Counters
<1>2. Answers'
  BY DEF Answers, ErrorsKeepPrefix
<1>3. ~Measured'
  BY DEF Measured
<1>4. Calling'
  BY <1>3 DEF Calling
<1>5. Pristine' /\ Between' /\ Succeeded' /\ Printed'
  BY <1>3 DEF Pristine, Between, Succeeded, Printed
<1> QED BY <1>1, <1>2, <1>4, <1>5

\* Steps that have nothing to do with profiles.
LEMMA SameProfiles ==
  ASSUME UNCHANGED <<environment, cpu>>, UNCHANGED traceVars, quota' = quota
  PROVE  Profiles' = Profiles
<1>1. UNCHANGED <<attached, scope, finished, recorded, quota>>
  BY DEF traceVars
<1>2. Config' = Config
  BY DEF Config
<1>3. Admitted' = Admitted
  BY <1>2 DEF Admitted
<1>4. \A n : Traced(n)' = Traced(n)
  BY <1>2, <1>3 DEF Traced
<1> QED BY <1>1, <1>2, <1>4 DEF Profiles

\* A shape of the command line.
LEMMA Words ==
  ASSUME argv \in Arguments, NEW n \in 1..Len(argv)
  PROVE  /\ n \in DOMAIN argv
         /\ argv[n].name = "--shape" =>
              argv[n].value = NoValue \/ argv[n].value \in Seq(Int) \ {<<>>}
<1>1. /\ argv \in Seq(ToSet(argv))
      /\ \A m \in DOMAIN argv : argv[m].name = "--shape"
           => argv[m].value = NoValue \/ argv[m].value \in Seq(Int) \ {<<>>}
  BY BenchmarkAssumption
<1>2. DOMAIN argv = 1..Len(argv)
  BY <1>1
<1> QED BY <1>1, <1>2

\* An argument that is let through leaves options that are.
LEMMA MeaningTyped ==
  ASSUME OptionsTyped, NEW a,
         a.name = "--shape" => a.value = NoValue \/ a.value \in Seq(Int) \ {<<>>},
         options' \in Meanings(a)
  PROVE  OptionsTyped'
<1>1. /\ options = [op |-> options.op, shape |-> options.shape,
                    backend |-> options.backend, warmup |-> options.warmup,
                    iters |-> options.iters, perf |-> options.perf]
      /\ options.shape \in Seq(Int) /\ (options.shape # <<>> => IsShape(options.shape))
      /\ options.warmup \in Nat /\ options.iters \in Nat
      /\ options.backend \in Backends /\ options.perf \in BOOLEAN
  BY DEF OptionsTyped
<1>2. \A n : IsSize(n) => n \in Nat
  BY BenchmarkAssumption DEF IsSize
<1>3. CASE a.name = "--perf"
  <2>1. options' = [options EXCEPT !.perf = TRUE]
    BY <1>3 DEF Meanings
  <2> QED BY <1>1, <2>1 DEF OptionsTyped
<1>4. CASE a.name = "--op" /\ a.value # NoValue
  <2>1. options' = [options EXCEPT !.op = a.value]
    BY <1>4 DEF Meanings
  <2> QED BY <1>1, <2>1 DEF OptionsTyped
<1>5. CASE a.name = "--shape" /\ a.value # NoValue /\ IsShape(a.value)
  <2>1. options' = [options EXCEPT !.shape = a.value]
    BY <1>5 DEF Meanings
  <2>2. a.value \in Seq(Int)
    BY <1>5
  <2> QED BY <1>1, <1>5, <2>1, <2>2 DEF OptionsTyped
<1>6. CASE a.name = "--warmup" /\ IsSize(a.value)
  <2>1. options' = [options EXCEPT !.warmup = a.value]
    BY <1>6 DEF Meanings
  <2> QED BY <1>1, <1>2, <1>6, <2>1 DEF OptionsTyped
<1>7. CASE a.name = "--iters" /\ IsSize(a.value)
  <2>1. options' = [options EXCEPT !.iters = a.value]
    BY <1>7 DEF Meanings
  <2> QED BY <1>1, <1>2, <1>7, <2>1 DEF OptionsTyped
<1>8. CASE a.name = "--backend" /\ a.value \in Backends
  <2>1. options' = [options EXCEPT !.backend = a.value]
    BY <1>8 DEF Meanings
  <2> QED BY <1>1, <1>8, <2>1 DEF OptionsTyped
<1>9. CASE /\ a.name # "--perf" /\ ~(a.name = "--op" /\ a.value # NoValue)
           /\ ~(a.name = "--shape" /\ a.value # NoValue /\ IsShape(a.value))
           /\ ~(a.name = "--warmup" /\ IsSize(a.value))
           /\ ~(a.name = "--iters" /\ IsSize(a.value))
           /\ ~(a.name = "--backend" /\ a.value \in Backends)
  <2>1. Meanings(a) = {}
    BY <1>9, Zenon DEF Meanings
  <2> QED BY <2>1
<1> QED BY <1>3, <1>4, <1>5, <1>6, <1>7, <1>8, <1>9

\* The steps of main, one by one.
LEMMA ParseArgKeeps ==
  ASSUME BenchInv, ParseArg
  PROVE  BenchInv'
<1>1. /\ phase = "start" /\ exit = "running" /\ count < Len(argv) /\ UNCHANGED inputVars
      /\ UNCHANGED <<phase, printed, starved>> /\ UNCHANGED traceVars /\ UNCHANGED opVars
  BY DEF ParseArg
<1>2. /\ call = NoCall /\ pc = "idle" /\ printed = <<>> /\ ~attached /\ status = "none"
      /\ count \in Nat /\ argv \in Arguments
  BY <1>1 DEF BenchInv, Calling, Progress, Places, Answers
<1>3. PICK n \in 1..Len(argv) : n = count + 1
  <2>1. Len(argv) \in Nat
    BY <1>2, BenchmarkAssumption
  <2> QED BY <1>1, <1>2, <2>1
<1>4. PICK a : a = argv[n]
  OBVIOUS
<1>5. \/ a.name = "--help" /\ exit' = "0" /\ UNCHANGED <<options, count>>
      \/ /\ a.name # "--help" /\ Meanings(a) = {}
         /\ exit' = "1" /\ UNCHANGED <<options, count>>
      \/ options' \in Meanings(a) /\ count' = n /\ UNCHANGED exit
  BY <1>3, <1>4 DEF ParseArg, Exit
<1>6. /\ Kept' /\ Elements' /\ Sums' /\ Counters' /\ Answers' /\ Calling'
      /\ Pristine' /\ Between' /\ Succeeded' /\ Printed'
  BY <1>1, <1>2, BeforeTheCall DEF opVars, traceVars
<1>7. Profiles'
  <2>1. UNCHANGED <<environment, cpu>> /\ quota' = quota
    BY <1>1 DEF inputVars, traceVars
  <2> QED BY <1>1, <2>1, SameProfiles DEF BenchInv
<1>8. n \in DOMAIN argv /\ (a.name = "--shape" =>
        a.value = NoValue \/ a.value \in Seq(Int) \ {<<>>})
  BY <1>2, <1>4, Words
<1>9. OptionsTyped'
  <2>1. CASE UNCHANGED options
    BY <2>1 DEF BenchInv, OptionsTyped
  <2>2. CASE options' \in Meanings(a)
    BY <1>8, <2>2, MeaningTyped DEF BenchInv
  <2> QED BY <1>5, <2>1, <2>2
<1>10. Places'
  <2>1. UNCHANGED argv /\ Len(argv) \in Nat
    BY <1>1, <1>2, BenchmarkAssumption DEF inputVars
  <2>2. count' \in Nat /\ count' <= Len(argv)
    BY <1>1, <1>2, <1>3, <1>5, <2>1
  <2> QED BY <1>1, <1>2, <1>5, <2>1, <2>2 DEF Places, BenchInv, Progress
<1>11. EndsAsDocumented'
  <2>1. UNCHANGED argv
    BY <1>1 DEF inputVars
  <2>2. CASE a.name = "--help" /\ exit' = "0"
    BY <1>4, <1>8, <2>1, <2>2 DEF EndsAsDocumented
  <2>3. CASE a.name # "--help" /\ Meanings(a) = {} /\ exit' = "1" /\ UNCHANGED options
    <3>1. Meanings(a)' = {}
      BY <2>3, Zenon DEF Meanings
    <3>2. Objection'
      BY <1>1, <1>4, <1>8, <2>1, <2>3, <3>1 DEF Objection
    <3> QED BY <1>1, <1>2, <2>3, <3>2 DEF EndsAsDocumented
  <2>4. CASE UNCHANGED exit
    BY <1>1, <2>4 DEF EndsAsDocumented
  <2> QED BY <1>5, <2>2, <2>3, <2>4
<1> QED BY <1>6, <1>7, <1>9, <1>10, <1>11 DEF BenchInv, Progress

\* The options as they are when the tensors are made.
LEMMA ShapeGiven ==
  ASSUME OptionsTyped, NEW o, o = IF Incomplete THEN options ELSE WithShape
  PROVE  /\ o = [op |-> o.op, shape |-> o.shape, backend |-> o.backend,
                 warmup |-> o.warmup, iters |-> o.iters, perf |-> o.perf]
         /\ o.shape \in Seq(Int) /\ (o.shape # <<>> => IsShape(o.shape))
         /\ o.warmup \in Nat /\ o.iters \in Nat
         /\ o.backend \in Backends /\ o.perf \in BOOLEAN
         /\ o.op = options.op /\ o.iters = options.iters
         /\ ~Incomplete => o.shape # <<>>
<1>1. /\ options = [op |-> options.op, shape |-> options.shape,
                    backend |-> options.backend, warmup |-> options.warmup,
                    iters |-> options.iters, perf |-> options.perf]
      /\ options.shape \in Seq(Int) /\ (options.shape # <<>> => IsShape(options.shape))
      /\ options.warmup \in Nat /\ options.iters \in Nat
      /\ options.backend \in Backends /\ options.perf \in BOOLEAN
  BY DEF OptionsTyped
<1>2. CASE o = options /\ (Incomplete \/ options.shape # <<>>)
  BY <1>1, <1>2
<1>3. CASE ~Incomplete /\ options.shape = <<>>
  <2>1. PICK d : /\ o = [options EXCEPT !.shape = d]
                 /\ d \in Seq(Int) \ {<<>>} /\ IsShape(d)
    <3>1. PICK op \in {"rope", "matmul", "other"} :
            op = IF options.op \in {"rope", "matmul"} THEN options.op ELSE "other"
      OBVIOUS
    <3>2. o = [options EXCEPT !.shape = DefaultShape[op]]
      BY <1>3, <3>1 DEF WithShape
    <3> QED BY <3>2, BenchmarkAssumption
  <2> QED BY <1>1, <2>1
<1>4. (Incomplete \/ options.shape # <<>>) => o = options
  BY DEF WithShape
<1> QED BY <1>2, <1>3, <1>4

\* The tensors main makes are as an operator finds them.
LEMMA FreshTensors ==
  ASSUME NEW o, Usable(o), call' = BenchCall(o),
         mem' = [t \in DOMAIN call'.shape |-> Fresh(t, call'.shape[t])]
  PROVE  TensorsKept' /\ \A k \in 0..Size' - 1 : Out(k)' = Original(call'.out, k)
<1>1. call'.shape = Tensors(o) /\ call'.out = IF o.op \in {"gelu", "rope"} THEN "x" ELSE "out"
  BY DEF BenchCall
<1>2. call'.out \in DOMAIN call'.shape
  BY <1>1 DEF Usable, Ops, Tensors, LayerNormTensors, MatMulTensors, GemvTensors,
              TokenEmbdTensors
<1>3. mem'[call'.out] = [k \in 0..Size' - 1 |-> Original(call'.out, k)]
  BY <1>2 DEF Fresh, Size, Shape
<1>4. \A k \in 0..Size' - 1 : Out(k)' = Original(call'.out, k)
  BY <1>3 DEF Out
<1>5. mem'[call'.out] = [k \in 0..Size' - 1 |-> Out(k)']
  BY <1>3, <1>4
<1> QED BY <1>4, <1>5 DEF TensorsKept

\* The operator is looked up and its tensors are made.
LEMMA DispatchKeeps ==
  ASSUME BenchInv, Dispatch
  PROVE  BenchInv'
<1>1. /\ phase = "start" /\ exit = "running" /\ count' = 0
      /\ UNCHANGED inputVars /\ UNCHANGED printed /\ UNCHANGED traceVars
      /\ UNCHANGED <<pc, status, row, pass, col, acc>>
  BY DEF Dispatch
<1>2. /\ call = NoCall /\ pc = "idle" /\ printed = <<>> /\ ~attached /\ status = "none"
      /\ argv \in Arguments
  BY <1>1 DEF BenchInv, Calling, Progress, Places, Answers
<1>3. PICK o : o = options' /\ o = IF Incomplete THEN options ELSE WithShape
  BY DEF Dispatch
<1>4. /\ o = [op |-> o.op, shape |-> o.shape, backend |-> o.backend,
              warmup |-> o.warmup, iters |-> o.iters, perf |-> o.perf]
      /\ o.shape \in Seq(Int) /\ (o.shape # <<>> => IsShape(o.shape))
      /\ o.warmup \in Nat /\ o.iters \in Nat
      /\ o.backend \in Backends /\ o.perf \in BOOLEAN
      /\ o.op = options.op /\ o.iters = options.iters
      /\ ~Incomplete => o.shape # <<>>
  BY <1>3, ShapeGiven DEF BenchInv
<1>5. OptionsTyped'
  BY <1>3, <1>4 DEF OptionsTyped
<1>6. Profiles'
  <2>1. UNCHANGED <<environment, cpu>> /\ quota' = quota
    BY <1>1 DEF inputVars, traceVars
  <2> QED BY <1>1, <2>1, SameProfiles DEF BenchInv
<1>7. Incomplete' = Incomplete
  BY <1>3, <1>4 DEF Incomplete
<1>8. UNCHANGED <<argv, attached>>
  BY <1>1 DEF inputVars, traceVars
<1>9. Len(argv) \in Nat
  BY <1>2, BenchmarkAssumption
<1>10. CASE phase' = "start"
  <2>1. /\ UNCHANGED call
        /\ \/ exit' = "1" /\ (Incomplete \/ Refused(o))
           \/ exit' = "undefined"
           \/ exit' \in {"1", "killed"} /\ starved'
    BY <1>3, <1>10 DEF Dispatch, Allocate, OutOfMemory, Exit
  <2>2. /\ Kept' /\ Elements' /\ Sums' /\ Counters' /\ Answers' /\ Calling'
        /\ Pristine' /\ Between' /\ Succeeded' /\ Printed'
    BY <1>1, <1>2, <1>8, <1>10, <2>1, BeforeTheCall
  <2>3. Places'
    BY <1>1, <1>2, <1>8, <1>9, <1>10, <2>1 DEF Places, Measured
  <2>4. EndsAsDocumented'
    <3>1. CASE exit' = "1" /\ (Incomplete \/ Refused(o))
      <4>1. Objection'
        BY <1>3, <1>7, <3>1 DEF Objection
      <4> QED BY <1>1, <1>2, <3>1, <4>1 DEF EndsAsDocumented
    <3>2. CASE exit' = "undefined"
      BY <3>2 DEF EndsAsDocumented
    <3>3. CASE exit' \in {"1", "killed"} /\ starved'
      BY <1>1, <1>2, <3>3 DEF EndsAsDocumented
    <3> QED BY <2>1, <3>1, <3>2, <3>3
  <2> QED BY <1>5, <1>6, <2>2, <2>3, <2>4 DEF BenchInv, Progress
<1>11. CASE phase' # "start"
  <2>1. /\ ~Incomplete /\ ~Refused(o) /\ ~(Len(o.shape) < Indexed(o))
        /\ phase' = "warm" /\ UNCHANGED <<exit, starved>> /\ call' = BenchCall(o)
        /\ mem' = [t \in DOMAIN call'.shape |-> Fresh(t, call'.shape[t])]
    BY <1>1, <1>3, <1>11 DEF Dispatch, Allocate
  <2>2. Usable(o)
    <3>1. Len(o.shape) >= Indexed(o)
      <4>1. Len(o.shape) \in Nat /\ Indexed(o) \in Nat
        BY <1>4 DEF Indexed
      <4> QED BY <2>1, <4>1
    <3> QED BY <1>4, <2>1, <3>1, UsableOf DEF Refused
  <2>3. TensorsKept' /\ \A k \in 0..Size' - 1 : Out(k)' = Original(call'.out, k)
    BY <2>1, <2>2, FreshTensors
  <2>4. Kept' /\ Elements' /\ Sums' /\ Counters' /\ Answers'
    BY <1>1, <1>2, <2>3 DEF Kept, Elements, Sums, Counters, Answers, ErrorsKeepPrefix
  <2>5. Calling'
    BY <1>3, <1>4, <1>7, <2>1, <2>2 DEF Calling, Usable
  <2>6. Places'
    BY <1>1, <2>1 DEF Places, BenchInv, Progress
  <2>7. Pristine' /\ Between'
    BY <1>1, <2>1, <2>3 DEF Pristine, Between, Ran
  <2>8. Succeeded' /\ Printed'
    BY <1>1, <1>2, <2>1 DEF Succeeded, Printed, Ran
  <2>9. EndsAsDocumented'
    BY <1>1, <2>1 DEF EndsAsDocumented
  <2> QED BY <1>5, <1>6, <2>3, <2>4, <2>5, <2>6, <2>7, <2>8, <2>9 DEF BenchInv, Progress
<1> QED BY <1>10, <1>11

\* The quota of a group and what it has traced.
LEMMA TracedTyped ==
  ASSUME NEW d \in Int, d = Config.dump, NEW n \in Nat
  PROVE  /\ Traced(0) = 0
         /\ ~Admitted \/ d = 0 => Traced(n) = 0
         /\ Admitted /\ d < 0 => Traced(n) = n
         /\ Admitted /\ d > 0 => Traced(n) = IF n <= d THEN n ELSE d
<1>1. Traced(0) = IF ~Admitted \/ d = 0 THEN 0 ELSE IF d < 0 THEN 0 ELSE Min({0, d})
  BY DEF Traced
<1>2. Traced(n) = IF ~Admitted \/ d = 0 THEN 0 ELSE IF d < 0 THEN n ELSE Min({n, d})
  BY DEF Traced
<1>3. Min({0, d}) = IF 0 <= d THEN 0 ELSE d
  BY MinOf
<1>4. Min({n, d}) = IF n <= d THEN n ELSE d
  BY MinOf
<1>5. Traced(0) = 0
  BY <1>1, <1>3
<1>6. ~Admitted \/ d = 0 => Traced(n) = 0
  BY <1>2
<1>7. Admitted /\ d < 0 => Traced(n) = n
  BY <1>2
<1>8. Admitted /\ d > 0 => Traced(n) = IF n <= d THEN n ELSE d
  BY <1>2, <1>4
<1> QED BY <1>5, <1>6, <1>7, <1>8

\* The limit of a configuration in use.
LEMMA ConfigOf == ASSUME Profiles, environment # NoValue PROVE Config.dump \in Int
<1>1. environment \in Seq(Option)
  BY BenchmarkAssumption DEF Profiles
<1>2. Config \in Configured
  BY <1>1, ConfigTyped DEF Config
<1> QED BY <1>2 DEF Configured

\* A profile that ends counts against the quota.
LEMMA FinishScopeProfiles ==
  ASSUME Profiles, FinishScope, UNCHANGED <<environment, cpu>>
  PROVE  Profiles'
<1>1. UNCHANGED attached /\ scope' = FALSE /\ finished \in Nat
  BY DEF FinishScope, Profiles
<1>2. Config' = Config
  BY DEF Config
<1>3. Admitted' = Admitted
  BY <1>2 DEF Admitted
<1>4. \A n : Traced(n)' = Traced(n)
  BY <1>2, <1>3 DEF Traced
<1>5. CASE ~scope
  <2>1. finished' = finished + 0 /\ recorded' = recorded /\ quota' = quota
    BY <1>5 DEF FinishScope
  <2>2. finished' = finished
    BY <1>1, <2>1
  <2> QED BY <1>1, <1>2, <1>4, <1>5, <2>1, <2>2 DEF Profiles
<1>6. CASE scope
  <2>1. /\ attached /\ environment # NoValue
        /\ recorded = Traced(finished) /\ quota = Config.dump - recorded
    BY <1>6 DEF Profiles
  <2>2. PICK d \in Int : d = Config.dump
    BY <2>1, ConfigOf
  <2>3. PICK n \in Nat : n = finished
    BY <1>1
  <2>4. finished' = n + 1
    BY <1>6, <2>3 DEF FinishScope
  <2>5. Tracing <=> d # 0 /\ Admitted
    BY <2>2 DEF Tracing, Admitted
  <2>6. /\ ~Admitted \/ d = 0 => Traced(n) = 0 /\ Traced(n + 1) = 0
        /\ Admitted /\ d < 0 => Traced(n) = n /\ Traced(n + 1) = n + 1
        /\ Admitted /\ d > 0 => /\ Traced(n) = IF n <= d THEN n ELSE d
                                /\ Traced(n + 1) = IF n + 1 <= d THEN n + 1 ELSE d
    <3>1. n + 1 \in Nat
      OBVIOUS
    <3> QED BY <2>2, <3>1, TracedTyped
  <2>7. recorded = Traced(n) /\ quota = d - Traced(n)
    BY <2>1, <2>2, <2>3
  <2>8. IF scope /\ Tracing /\ quota # 0
          THEN recorded' = recorded + 1 /\ quota' = quota - 1
          ELSE recorded' = recorded /\ quota' = quota
    BY DEF FinishScope
  <2>9. recorded' = Traced(n + 1) /\ quota' = d - Traced(n + 1)
    <3>1. CASE ~Admitted \/ d = 0
      BY <2>5, <2>6, <2>7, <2>8, <3>1
    <3>2. CASE Admitted /\ d < 0
      <4>1. quota = d - n /\ d - n # 0 /\ recorded = n
        BY <2>6, <2>7, <3>2
      <4>2. recorded' = n + 1 /\ quota' = (d - n) - 1
        BY <1>6, <2>5, <2>8, <3>2, <4>1
      <4>3. (d - n) - 1 = d - (n + 1)
        OBVIOUS
      <4> QED BY <2>6, <3>2, <4>2, <4>3
    <3>3. CASE Admitted /\ d > 0 /\ n + 1 <= d
      <4>1. quota = d - n /\ d - n # 0 /\ recorded = n
        BY <2>6, <2>7, <3>3
      <4>2. recorded' = n + 1 /\ quota' = (d - n) - 1
        BY <1>6, <2>5, <2>8, <3>3, <4>1
      <4>3. (d - n) - 1 = d - (n + 1)
        OBVIOUS
      <4> QED BY <2>6, <3>3, <4>2, <4>3
    <3>4. CASE Admitted /\ d > 0 /\ ~(n + 1 <= d)
      <4>1. Traced(n) = d /\ Traced(n + 1) = d
        BY <2>6, <3>4
      <4>2. quota = 0 /\ recorded = d
        BY <2>7, <4>1
      <4> QED BY <2>7, <2>8, <4>1, <4>2
    <3> QED BY <3>1, <3>2, <3>3, <3>4
  <2>10. finished' \in Nat
    BY <2>4
  <2> QED BY <1>1, <1>2, <1>4, <2>1, <2>2, <2>4, <2>9, <2>10 DEF Profiles
<1> QED BY <1>5, <1>6

\* Setup leaves the output as it was, or makes it fresh.
LEMMA SetupKeeps ==
  ASSUME TensorsKept, call.out \in DOMAIN call.shape, mem' = Setup, UNCHANGED call
  PROVE  /\ TensorsKept'
         /\ \A k \in 0..Size - 1 : Out(k)' = IF call.op \in Reset THEN Original(call.out, k)
                                             ELSE Out(k)
<1>1. Size' = Size
  BY SameCall
<1>2. CASE call.op \in Reset
  <2>1. mem' = [mem EXCEPT ![call.out] = [k \in 0..Size - 1 |-> Original(call.out, k)]]
    BY <1>2 DEF Setup, Reset, Products, Fresh, Size
  <2>2. DOMAIN mem = DOMAIN call.shape
    BY DEF TensorsKept
  <2>3. mem'[call.out] = [k \in 0..Size - 1 |-> Original(call.out, k)]
    BY <2>1, <2>2
  <2>4. \A k \in 0..Size - 1 : Out(k)' = Original(call.out, k)
    BY <2>3 DEF Out
  <2>5. mem' = [t \in DOMAIN call'.shape |-> mem'[t]]
    BY <2>1, <2>2
  <2>6. \A t \in DOMAIN call'.shape \ {call'.out} : mem'[t] = Fresh(t, call'.shape[t])
    BY <2>1, <2>2 DEF TensorsKept
  <2>7. mem'[call'.out] = [k \in 0..Size' - 1 |-> Out(k)']
    BY <1>1, <2>3, <2>4
  <2> QED BY <1>2, <2>4, <2>5, <2>6, <2>7 DEF TensorsKept
<1>3. CASE call.op \notin Reset
  <2>1. mem' = mem
    BY <1>3 DEF Setup, Reset, Products
  <2>2. \A k : Out(k)' = Out(k)
    BY <2>1 DEF Out
  <2> QED BY <1>1, <1>3, <2>1, <2>2 DEF TensorsKept, Fresh
<1> QED BY <1>2, <1>3

\* While measure() is running.
LEMMA InMeasure ==
  ASSUME BenchInv, Measured
  PROVE  /\ TensorsKept /\ Started /\ CallFits /\ Size \in Nat /\ Size > 0
         /\ call.out \in DOMAIN call.shape /\ call # NoCall /\ Usable(options)
<1>1. Started
  BY DEF Measured, Started
<1>2. CallFits /\ Size > 0
  BY <1>1, CallHolds DEF BenchInv, Progress
<1>3. Usable(options) /\ call = BenchCall(options)
  BY UsableOptions DEF BenchInv, Calling
<1>4. call.op \in Ops
  BY <1>3 DEF Usable, BenchCall
<1>5. call # NoCall
  BY <1>4 DEF Ops, NoCall
<1> QED BY <1>1, <1>2, <1>3, <1>5 DEF BenchInv, Kept, CallFits

\* A run begins, or LINUX_PERF turns out to be at fault.
LEMMA BeginRunKeeps ==
  ASSUME BenchInv, BeginRun
  PROVE  BenchInv'
<1>1. /\ Measured /\ exit = "running" /\ pc = "idle" /\ mem' = Setup
      /\ UNCHANGED inputVars
      /\ UNCHANGED <<options, phase, count, printed, starved>>
      /\ UNCHANGED <<call, status, row, pass, col, acc>>
  BY DEF BeginRun, Measuring, Measured
<1>2. /\ TensorsKept /\ Started /\ CallFits /\ Size \in Nat
      /\ call.out \in DOMAIN call.shape /\ call # NoCall
  BY <1>1, InMeasure
<1>3. UNCHANGED <<argv, environment, cpu>>
  BY <1>1 DEF inputVars
<1>4. \/ /\ options.perf /\ phase # "warm" /\ environment # NoValue /\ Config.failed
         /\ exit' = "1" /\ UNCHANGED traceVars /\ UNCHANGED pc
      \/ /\ options.perf /\ phase # "warm" /\ environment # NoValue /\ ~Config.failed
         /\ attached' = TRUE /\ scope' = TRUE
         /\ quota' = (IF attached THEN quota ELSE Config.dump)
         /\ pc' = "infer" /\ UNCHANGED <<exit, finished, recorded>>
      \/ /\ ~(options.perf /\ phase # "warm" /\ environment # NoValue)
         /\ pc' = "infer" /\ UNCHANGED exit /\ UNCHANGED traceVars
  BY DEF BeginRun, Profiled, Exit
<1>5. /\ TensorsKept'
      /\ \A k \in 0..Size - 1 : Out(k)' = IF call.op \in Reset THEN Original(call.out, k)
                                             ELSE Out(k)
  BY <1>1, <1>2, SetupKeeps
<1>6. /\ Size' = Size /\ Refusal' = Refusal
      /\ \A k : Result(k)' = Result(k)
  BY <1>1, SameCall, SameResult
<1>7. Config' = Config /\ Measured' = Measured /\ Rerun' = Rerun
      /\ Ran' = Ran
  BY <1>1, <1>3 DEF Config, Measured, Rerun, Ran
<1>8. Admitted' = Admitted /\ Failing' = Failing
  BY <1>1, <1>3, <1>7 DEF Admitted, Failing
<1>9. Kept' /\ Sums' /\ Counters'
  BY <1>1, <1>4, <1>5 DEF Kept, Sums, Counters
<1>10. Elements'
  <2>1. ASSUME NEW k \in 0..Size - 1 PROVE Untouched(k)'
    <3>1. Out(k) = Result(k) \/ Out(k) = Original(call.out, k)
      BY <1>1 DEF BenchInv, Progress, Between
    <3> QED BY <1>1, <1>5, <1>6, <1>7, <3>1 DEF Untouched, Rerun
  <2> QED BY <1>1, <1>4, <1>6, <2>1 DEF Elements
<1>11. Answers'
  BY <1>1, <1>4 DEF Answers, ErrorsKeepPrefix, BenchInv
<1>12. Calling'
  BY <1>1, <1>7 DEF BenchInv, Calling, Incomplete, Measured
<1>13. OptionsTyped'
  BY <1>1 DEF BenchInv, OptionsTyped
<1>14. Places'
  <2>1. TooMany' = TooMany
    BY <1>1 DEF TooMany
  <2> QED BY <1>1, <1>3, <1>4, <2>1 DEF BenchInv, Progress, Places
<1>15. Pristine'
  BY <1>1, <1>5, <1>6, <1>7 DEF BenchInv, Progress, Pristine
<1>16. Between'
  BY <1>1, <1>4 DEF Between
<1>17. Succeeded'
  BY <1>1, <1>4, <1>6, <1>7, <1>8 DEF BenchInv, Progress, Succeeded, Failing
<1>18. Printed'
  BY <1>1, <1>4, <1>6, <1>7, <1>8 DEF BenchInv, Progress, Printed
<1>19. Profiles'
  <2>1. CASE UNCHANGED traceVars
    <3>1. quota' = quota
      BY <2>1 DEF traceVars
    <3> QED BY <1>3, <2>1, <3>1, SameProfiles DEF BenchInv
  <2>2. CASE /\ environment # NoValue /\ ~Config.failed
             /\ attached' = TRUE /\ quota' = (IF attached THEN quota ELSE Config.dump)
             /\ UNCHANGED <<finished, recorded>>
    <3>1. \A n : Traced(n)' = Traced(n)
      BY <1>7, <1>8 DEF Traced
    <3>2. CASE attached
      BY <1>3, <1>7, <2>2, <3>1, <3>2 DEF BenchInv, Profiles
    <3>3. CASE ~attached
      <4>1. finished = 0 /\ recorded = 0
        BY <3>3 DEF BenchInv, Profiles
      <4>2. PICK d \in Int : d = Config.dump
        BY <2>2, ConfigOf DEF BenchInv
      <4>3. Traced(0) = 0 /\ d = d - 0
        BY <4>2, TracedTyped
      <4>4. recorded' = Traced(finished)' /\ quota' = (Config.dump - recorded)'
        BY <1>7, <2>2, <3>1, <3>3, <4>1, <4>2, <4>3
      <4> QED BY <1>3, <1>7, <2>2, <4>4 DEF BenchInv, Profiles
    <3> QED BY <3>2, <3>3
  <2> QED BY <1>4, <2>1, <2>2
<1>20. EndsAsDocumented'
  <2>1. CASE exit' = "running"
    BY <2>1 DEF EndsAsDocumented
  <2>2. CASE /\ options.perf /\ environment # NoValue /\ Config.failed /\ exit' = "1"
    <3>1. Failing
      BY <2>2 DEF Failing
    <3>2. printed = <<>>
      BY <3>1 DEF BenchInv, Progress, Printed
    <3>3. Objection'
      BY <1>1, <1>3, <1>7, <2>2 DEF Objection
    <3> QED BY <1>1, <2>2, <3>2, <3>3 DEF EndsAsDocumented
  <2> QED BY <1>1, <1>4, <2>1, <2>2
<1> QED BY <1>9, <1>10, <1>11, <1>12, <1>13, <1>14, <1>15, <1>16, <1>17, <1>18, <1>19, <1>20
        DEF BenchInv, Progress

\* A run has its status.
LEMMA EndRunKeeps ==
  ASSUME BenchInv, EndRun
  PROVE  BenchInv'
<1>1. /\ Measured /\ exit = "running" /\ pc = "returned" /\ pc' = "idle"
      /\ status' = "none" /\ UNCHANGED inputVars
      /\ UNCHANGED <<options, phase, printed, starved, call, mem, row, pass, col, acc>>
  BY DEF EndRun, Measuring, Measured
<1>2. TensorsKept /\ Started /\ CallFits /\ call # NoCall
  BY <1>1, InMeasure
<1>3. UNCHANGED <<argv, environment, cpu>>
  BY <1>1 DEF inputVars
<1>4. /\ status = IF Refusal = "none" THEN "ok" ELSE "unsupported"
      /\ status = "ok" => Refusal = "none" /\ \A k \in 0..Size - 1 : Out(k) = Result(k)
      /\ Refusal \in {"none", "unsupported"}
  BY <1>1, <1>2 DEF BenchInv, Answers, CallFits, Fits
<1>5. /\ FinishScope
      /\ \/ status = "ok" /\ count' = count + 1 /\ UNCHANGED exit
         \/ status = "unsupported" /\ exit' = "1" /\ UNCHANGED count
  BY <1>4 DEF EndRun, Exit
<1>6. /\ Size' = Size /\ Refusal' = Refusal
      /\ \A k : Result(k)' = Result(k) /\ Out(k)' = Out(k)
  BY <1>1, SameCall, SameResult DEF Out
<1>7. Config' = Config /\ Measured' = Measured
  BY <1>1, <1>3 DEF Config, Measured
<1>8. Failing' = Failing
  BY <1>1, <1>3, <1>7 DEF Failing
<1>9. UNCHANGED attached
  BY <1>5 DEF FinishScope
<1>10. Kept' /\ Elements' /\ Sums' /\ Counters'
  <2>1. TensorsKept'
    BY <1>1, <1>2, <1>6 DEF TensorsKept, Fresh
  <2> QED BY <1>1, <2>1 DEF Kept, Elements, Sums, Counters
<1>11. Answers'
  BY <1>1 DEF Answers, ErrorsKeepPrefix
<1>12. Calling'
  BY <1>1, <1>7 DEF BenchInv, Calling, Incomplete, Measured
<1>13. OptionsTyped'
  BY <1>1 DEF BenchInv, OptionsTyped
<1>14. Places'
  <2>1. count \in Nat /\ count' \in Nat
    BY <1>5 DEF BenchInv, Progress, Places
  <2>2. TooMany' = TooMany
    BY <1>1 DEF TooMany
  <2> QED BY <1>1, <1>3, <1>5, <2>1, <2>2 DEF BenchInv, Progress, Places, Measured
<1>15. Pristine'
  BY <1>1, <1>6, <1>7 DEF BenchInv, Progress, Pristine
<1>16. Between'
  BY <1>1, <1>4, <1>5, <1>6 DEF Between
<1>17. Succeeded'
  BY <1>1, <1>4, <1>5, <1>6, <1>7, <1>8 DEF BenchInv, Progress, Succeeded, Ran
<1>18. printed # <<>> => phase = "last"
  BY <1>1 DEF BenchInv, Progress, Printed
<1>19. Printed'
  BY <1>1, <1>6, <1>7, <1>8, <1>18 DEF BenchInv, Progress, Printed
<1>20. Profiles'
  BY <1>3, <1>5, FinishScopeProfiles DEF BenchInv
<1>21. EndsAsDocumented'
  <2>1. CASE exit' = "running"
    BY <2>1 DEF EndsAsDocumented
  <2>2. CASE status = "unsupported" /\ exit' = "1"
    <3>1. Refusal = "unsupported"
      BY <1>4, <2>2
    <3>2. printed = <<>>
      BY <1>1, <3>1 DEF BenchInv, Progress, Succeeded
    <3>3. Objection'
      BY <1>1, <1>2, <1>6, <3>1 DEF Objection
    <3> QED BY <1>1, <2>2, <3>2, <3>3 DEF EndsAsDocumented
  <2> QED BY <1>1, <1>5, <2>1, <2>2
<1> QED BY <1>10, <1>11, <1>12, <1>13, <1>14, <1>15, <1>16, <1>17, <1>19, <1>20, <1>21
        DEF BenchInv, Progress

\* A loop of measure() is through.
LEMMA EndLoopKeeps ==
  ASSUME BenchInv, EndLoop
  PROVE  BenchInv'
<1>1. /\ Measured /\ exit = "running" /\ pc = "idle" /\ count = Turns /\ count' = 0
      /\ printed' = (IF phase = "iter" THEN <<Load(call.out, 0)>> ELSE printed)
      /\ UNCHANGED inputVars /\ UNCHANGED traceVars
      /\ UNCHANGED <<options, call, pc, status, mem, row, pass, col, acc>>
  BY DEF EndLoop, Measuring, Measured
<1>2. \/ phase = "warm" /\ ~TooMany /\ phase' = "iter" /\ UNCHANGED <<exit, starved>>
      \/ phase = "warm" /\ phase' = "warm" /\ exit' = "1" /\ (TooMany \/ starved')
      \/ phase = "iter" /\ options.perf /\ phase' = "last" /\ UNCHANGED <<exit, starved>>
      \/ phase = "iter" /\ ~options.perf /\ phase' = "iter" /\ exit' = "0" /\ UNCHANGED starved
      \/ phase = "last" /\ phase' = "last" /\ exit' = "0" /\ UNCHANGED starved
  BY <1>1 DEF EndLoop, Reserve, OutOfMemory, Exit, Measured
<1>3. /\ TensorsKept /\ Started /\ Size \in Nat /\ Size > 0
      /\ call.out \in DOMAIN call.shape /\ call # NoCall
  BY <1>1, InMeasure
<1>4. UNCHANGED <<argv, environment, cpu>>
  BY <1>1 DEF inputVars
<1>5. Measured' /\ Started'
  BY <1>2 DEF Measured, Started
<1>6. /\ Size' = Size /\ Refusal' = Refusal
      /\ \A k : Result(k)' = Result(k) /\ Out(k)' = Out(k)
  BY <1>1, SameCall, SameResult DEF Out
<1>7. Config' = Config
  BY <1>4 DEF Config
<1>8. Failing' = Failing
  BY <1>1, <1>4, <1>7 DEF Failing
<1>9. ~Incomplete /\ ~Refused(options) /\ options.iters \in Nat /\ count \in Nat
  BY <1>1 DEF BenchInv, Calling, OptionsTyped, Progress, Places
<1>10. phase = "iter" => count > 0
  BY <1>1, <1>9 DEF Turns, Incomplete
<1>11. phase # "warm" => Ran
  BY <1>1, <1>10 DEF Ran, Measured
<1>12. phase # "warm" => Refusal = "none" /\ ~Failing
  BY <1>1, <1>11 DEF BenchInv, Progress, Succeeded
<1>13. \A k \in 0..Size - 1 : /\ Out(k) = Result(k) \/ Out(k) = Original(call.out, k)
                              /\ phase # "warm" => Out(k) = Result(k)
  BY <1>1, <1>11 DEF BenchInv, Progress, Between
<1>14. phase # "warm" => printed' = <<Result(0)>>
  <2>1. CASE phase = "iter"
    <3>1. 0 \in 0..Size - 1
      BY <1>3
    <3>2. Load(call.out, 0) = Out(0)
      BY <1>3, <3>1, LoadOut
    <3>3. Out(0) = Result(0)
      BY <1>13, <2>1, <3>1
    <3> QED BY <1>1, <2>1, <3>2, <3>3
  <2>2. CASE phase = "last"
    BY <1>1, <2>2 DEF BenchInv, Progress, Printed
  <2> QED BY <1>1, <2>1, <2>2 DEF Measured
<1>15. phase = "warm" => printed' = <<>>
  BY <1>1 DEF BenchInv, Progress, Printed
<1>16. Kept' /\ Elements' /\ Sums' /\ Counters'
  <2>1. TensorsKept'
    BY <1>1, <1>3, <1>6 DEF TensorsKept, Fresh
  <2> QED BY <1>1, <2>1 DEF Kept, Elements, Sums, Counters
<1>17. Answers'
  BY <1>1 DEF BenchInv, Answers, ErrorsKeepPrefix
<1>18. Calling'
  BY <1>1, <1>2, <1>5 DEF BenchInv, Calling, Incomplete
<1>19. OptionsTyped'
  BY <1>1 DEF BenchInv, OptionsTyped
<1>20. TooMany' = TooMany /\ starved = FALSE /\ (phase # "warm" => ~TooMany)
  BY <1>1 DEF BenchInv, Progress, Places, TooMany, Measured
<1>27. Places'
  BY <1>1, <1>2, <1>20 DEF BenchInv, Progress, Places
<1>21. Pristine'
  BY <1>1, <1>6 DEF BenchInv, Progress, Pristine
<1>22. Between'
  <2>1. Ran' => phase # "warm"
    BY <1>1, <1>2 DEF Ran
  <2> QED BY <1>1, <1>6, <1>13, <2>1 DEF Between
<1>23. Succeeded'
  BY <1>1, <1>2, <1>6, <1>8, <1>12, <1>15 DEF Succeeded, Ran
<1>24. Printed'
  BY <1>2, <1>5, <1>6, <1>8, <1>12, <1>14, <1>15 DEF Printed
<1>25. Profiles'
  <2>1. quota' = quota
    BY <1>1 DEF traceVars
  <2> QED BY <1>1, <1>4, <2>1, SameProfiles DEF BenchInv
<1>26. EndsAsDocumented'
  <2>1. CASE exit' = "running"
    BY <2>1 DEF EndsAsDocumented
  <2>2. CASE phase # "warm" /\ exit' = "0"
    <3>1. ~Failing
      BY <1>12, <2>2
    <3>2. phase' # "start" /\ ~Incomplete' /\ ~Refused(options)' /\ Refusal' = "none"
      BY <1>1, <1>2, <1>6, <1>9, <1>12, <2>2 DEF Incomplete
    <3>3. ~Objection'
      BY <1>8, <1>20, <2>2, <3>1, <3>2 DEF Objection, Failing
    <3>4. ~starved'
      BY <1>2, <1>20, <2>2
    <3> QED BY <1>14, <2>2, <3>3, <3>4 DEF EndsAsDocumented
  <2>3. CASE phase = "warm" /\ exit' = "1" /\ (TooMany \/ starved')
    BY <1>15, <1>20, <2>3 DEF EndsAsDocumented, Objection
  <2> QED BY <1>1, <1>2, <2>1, <2>2, <2>3
<1> QED BY <1>16, <1>17, <1>18, <1>19, <1>27, <1>21, <1>22, <1>23, <1>24, <1>25, <1>26
        DEF BenchInv, Progress

-----------------------------------------------------------------------------
(* The invariant *)

\* The invariant holds at the start.
LEMMA InitHolds == BenchInit => BenchInv
<1> SUFFICES ASSUME BenchInit PROVE BenchInv
  OBVIOUS
<1>1. /\ cpu \in Affinity /\ options = Defaults /\ exit = "running" /\ count = 0
      /\ printed = <<>> /\ starved = FALSE /\ attached = FALSE /\ scope = FALSE
      /\ quota = 0 /\ finished = 0 /\ recorded = 0
  BY DEF BenchInit
<1>2. OptionsTyped
  <2>1. DefaultWarmup \in Nat /\ DefaultIters \in Nat /\ <<>> \in Seq(Int)
    BY BenchmarkAssumption
  <2> QED BY <1>1, <2>1 DEF OptionsTyped, Defaults, Backends
<1>3. EndsAsDocumented
  BY <1>1 DEF EndsAsDocumented
<1>4. Profiles
  <2>1. environment \in Environments \cup {NoValue}
    BY DEF BenchInit
  <2> QED BY <1>1, <2>1 DEF Profiles
<1>5. CASE Init /\ phase = "library" /\ argv = <<>> /\ environment = NoValue
  <2>1. /\ call \in Calls /\ pc = "infer" /\ status = "none"
        /\ mem = [t \in DOMAIN call.shape |-> Fresh(t, call.shape[t])]
    BY <1>5 DEF Init
  <2>2. IsCall(call)
    BY <2>1, CallsAssumption
  <2>3. call.out \in DOMAIN call.shape
    BY <2>2, CallParts
  <2>4. mem[call.out] = [k \in 0..Size - 1 |-> Original(call.out, k)]
    BY <2>1, <2>3 DEF Fresh, Size, Shape
  <2>5. \A k \in 0..Size - 1 : Out(k) = Original(call.out, k)
    BY <2>4 DEF Out
  <2>6. mem[call.out] = [k \in 0..Size - 1 |-> Out(k)]
    BY <2>4, <2>5
  <2>7. TensorsKept
    BY <2>1, <2>6 DEF TensorsKept
  <2>8. Elements /\ Sums /\ Counters /\ Answers
    BY <2>1, <2>5 DEF Elements, Untouched, Sums, Counters, Answers, ErrorsKeepPrefix, Measured
  <2>9. Calling /\ Progress
    BY <1>1, <1>5, <2>1
       DEF Calling, Progress, Places, Pristine, Between, Succeeded, Printed, Measured
  <2> QED BY <1>2, <1>3, <1>4, <2>7, <2>8, <2>9 DEF BenchInv, Kept
<1>6. CASE /\ phase = "start" /\ argv \in Arguments /\ call = NoCall
           /\ pc = "idle" /\ status = "none"
  <2>1. Len(argv) \in Nat
    BY <1>6, BenchmarkAssumption
  <2>2. Kept /\ Elements /\ Sums /\ Counters /\ Answers
    BY <1>6 DEF Kept, Started, Elements, Sums, Counters, Answers, ErrorsKeepPrefix
  <2>3. Calling /\ Progress
    BY <1>1, <1>6, <2>1
       DEF Calling, Progress, Places, Pristine, Between, Succeeded, Printed, Measured
  <2> QED BY <1>2, <1>3, <1>4, <2>2, <2>3 DEF BenchInv
<1> QED BY <1>5, <1>6 DEF BenchInit

\* It holds when nothing happens.
LEMMA StutterKeeps ==
  ASSUME BenchInv, UNCHANGED allVars
  PROVE  BenchInv'
<1>1. /\ UNCHANGED <<benchVars, call>>
      /\ UNCHANGED <<call, pc, status, mem, row, pass, col, acc>>
      /\ UNCHANGED <<phase, exit, printed, count, attached, options>>
  BY DEF allVars, opVars, benchVars
<1>2. /\ OptionsTyped' = OptionsTyped /\ Places' = Places /\ Profiles' = Profiles
      /\ Failing' = Failing /\ Measured' = Measured
      /\ EndsAsDocumented' = EndsAsDocumented
  BY <1>1, SameMain
<1>3. /\ X' = X /\ Size' = Size /\ Width' = Width /\ Stride' = Stride /\ Rows' = Rows
      /\ Passes' = Passes /\ Refusal' = Refusal /\ Accepted' = Accepted
      /\ \A t : Shape(t)' = Shape(t)
      /\ \A k : Result(k)' = Result(k) /\ RowExp(k)' = RowExp(k)
      /\ \A k : Was(k)' = Was(k) /\ Second(k)' = Second(k) /\ Out(k)' = Out(k)
  BY <1>1, SameCall, SameResult DEF Out
<1>4. Kept'
  BY <1>1, <1>3 DEF BenchInv, Kept, Started, TensorsKept, Fresh
<1>5. Elements'
  <2>1. Here' = Here /\ Rerun' = Rerun
    BY <1>1, <1>2, <1>3 DEF Here, Rerun
  <2>2. \A k : Untouched(k)' = Untouched(k)
    BY <1>1, <1>3, <2>1 DEF Untouched
  <2>3. \A k : Through(k)' = Through(k) /\ Halfway(k)' = Halfway(k)
    BY <1>1, <1>3, <2>1 DEF Through, Halfway
  <2>4. \A k : Element(k)' = Element(k)
    BY <1>3, <2>2, <2>3 DEF Element
  <2> QED BY <1>1, <1>3, <2>2, <2>4, Zenon DEF BenchInv, Elements
<1>6. Sums'
  <2>1. \A i : At(i)' = At(i)
    BY <1>1, <1>3 DEF At
  <2>2. \A p : Summed(p)' = Summed(p)
    BY <1>1, <1>3 DEF Summed
  <2> QED BY <1>1, <1>3, <2>1, <2>2, Zenon DEF BenchInv, Sums
<1>7. Counters'
  <2>1. \A n : Known(n)' = Known(n)
    BY <1>1, <1>3 DEF Known
  <2> QED BY <1>1, <1>3, <2>1, Zenon DEF BenchInv, Counters
<1>8. Answers'
  <2>1. ErrorsKeepPrefix' = ErrorsKeepPrefix
    <3>1. KnownPrefix' = KnownPrefix
      BY <1>1, <1>3, Zenon DEF KnownPrefix
    <3>2. \A n : DoneUpTo(n)' = DoneUpTo(n)
      BY <1>1, <1>3, Zenon DEF DoneUpTo
    <3> QED BY <1>1, <1>3, <3>1, <3>2, Zenon DEF ErrorsKeepPrefix
  <2> QED BY <1>1, <1>2, <1>3, <2>1, Zenon DEF BenchInv, Answers
<1>9. Calling'
  BY <1>1, <1>2 DEF BenchInv, Calling, Incomplete
<1>10. Ran' = Ran
  BY <1>1 DEF Ran
<1>11. Pristine' /\ Between' /\ Succeeded' /\ Printed'
  BY <1>1, <1>2, <1>3, <1>10 DEF BenchInv, Progress, Pristine, Between, Succeeded, Printed
<1> QED BY <1>2, <1>4, <1>5, <1>6, <1>7, <1>8, <1>9, <1>11 DEF BenchInv, Progress

\* Every step keeps it.
LEMMA StepKeeps == BenchInv /\ [BenchNext]_allVars => BenchInv'
<1> SUFFICES ASSUME BenchInv, [BenchNext]_allVars PROVE BenchInv'
  OBVIOUS
<1>1. CASE ParseArg
  BY <1>1, ParseArgKeeps
<1>2. CASE Dispatch
  BY <1>2, DispatchKeeps
<1>3. CASE BeginRun
  BY <1>3, BeginRunKeeps
<1>4. CASE EndRun
  BY <1>4, EndRunKeeps
<1>5. CASE EndLoop
  BY <1>5, EndLoopKeeps
<1>6. CASE Operator
  BY <1>6, OperatorKeeps
<1>7. CASE UNCHANGED allVars
  BY <1>7, StutterKeeps
<1> QED BY <1>1, <1>2, <1>3, <1>4, <1>5, <1>6, <1>7 DEF BenchNext, Main

\* What holds in every state of bench_ops and of a call of infer().
THEOREM BenchInvariant == BenchSpec => []BenchInv
<1> QED BY InitHolds, StepKeeps, PTL DEF BenchSpec

-----------------------------------------------------------------------------
(* What follows from it *)

\* A return of ok finds every element through.
LEMMA InvMatches == BenchInv => MatchesReference
<1> SUFFICES ASSUME BenchInv, status = "ok" PROVE mem = DoneUpTo(Size)
  BY DEF MatchesReference, Size
<1>1. pc = "returned" /\ \A k \in 0..Size - 1 : Out(k) = Result(k)
  BY DEF BenchInv, Answers
<1>2. Started
  BY <1>1 DEF BenchInv, Calling, Started
<1>3. Size \in Nat
  BY <1>2, CallHolds DEF BenchInv, Progress, CallFits
<1>4. \A k \in 0..Size - 1 : Out(k) = IF k < Size THEN Result(k) ELSE Original(call.out, k)
  BY <1>1, <1>3
<1> QED BY <1>2, <1>4, Done DEF BenchInv, Kept

\* The tensors are those of the options.
LEMMA InvFits == BenchInv => TensorsFit
<1> SUFFICES ASSUME BenchInv, Measuring, NEW t \in DOMAIN call.shape
             PROVE  Numel(Shape(t)) * 4 <= MaxSize
  BY DEF TensorsFit
<1>1. Measured
  BY DEF Measuring, Measured
<1>2. call.shape = Tensors(options)
  BY <1>1 DEF BenchInv, Calling, BenchCall
<1>3. Fit(Tensors(options)[t])
  BY <1>1, <1>2, InMeasure, TensorsOf
<1> QED BY <1>2, <1>3 DEF Fit, Shape

\* When infer() returns ok, every element of the output is what the reference
\* backend defines from the inputs as they were, for every shape that passes the
\* checks, every number of lanes and every backend, also when tensors of the call
\* are one and the same, and nothing else has changed.
THEOREM OutputMatchesReference == BenchSpec => []MatchesReference
<1> QED BY BenchInvariant, InvMatches, PTL

\* A call that returns an error leaves every tensor as it was; token_embd has
\* copied the rows of the tokens before the first unknown one, and no more.
THEOREM ErrorsKeepWhatWas == BenchSpec => []ErrorsKeepPrefix
<1>1. BenchInv => ErrorsKeepPrefix
  BY DEF BenchInv, Answers
<1> QED BY <1>1, BenchInvariant, PTL

\* However many runs bench_ops makes, with a profile or without, what it prints
\* is the result of one run on the input it was filled with.
THEOREM PrintsOneRun == BenchSpec => []PrintedIsOneRun
<1>1. BenchInv => PrintedIsOneRun
  BY DEF BenchInv, Progress, Printed, PrintedIsOneRun
<1> QED BY <1>1, BenchInvariant, PTL

\* The check parse_shape makes of one shape bounds every tensor an operator
\* derives from it, whatever the largest size is.
THEOREM TensorsAlwaysFit == BenchSpec => []TensorsFit
<1> QED BY BenchInvariant, InvFits, PTL

\* A bench_ops that was not out of memory and does not read past the end of its
\* shape ends with 0 or 1: with 0 only after help or results, with 1 only where
\* arguments, backend, number of runs or LINUX_PERF were at fault and nothing
\* was printed.  A signal comes from a failed malloc and from nothing else.
THEOREM EndsAsItShould == BenchSpec => []EndsAsDocumented
<1>1. BenchInv => EndsAsDocumented
  BY DEF BenchInv
<1> QED BY <1>1, BenchInvariant, PTL

\* The profiles a program records are those the last dump, cpus and switch-cpu
\* options of LINUX_PERF admit, however many options there are.
THEOREM TracesAsConfigured == BenchSpec => []TraceFollowsOptions
<1>1. BenchInv => TraceFollowsOptions
  BY FollowsOptions DEF BenchInv
<1> QED BY <1>1, BenchInvariant, PTL
=============================================================================
