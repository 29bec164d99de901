----------------------------- MODULE GemvProofs -----------------------------
(***************************************************************************)
(* What splitter and one gemv guarantee for every shape, every team        *)
(* parallel_nt forms, every order its calls run in and registers of any    *)
(* number of lanes.  Shares partition the rows, which keeps the calls      *)
(* apart; a row's accumulators hold the products of the columns before     *)
(* col; a row of the output holds its sum if some call is past it and what *)
(* it held before otherwise.                                               *)
(***************************************************************************)
EXTENDS Gemv, TLAPS

-----------------------------------------------------------------------------
(* Shares: writing q and r for n / team and n % team, that of call t starts *)
(* at t * q + min(t, r).  This closed form carries the proofs.              *)

\* Division with remainder, in the form the proofs use.
LEMMA DivMod ==
    ASSUME NEW a \in Nat, NEW b \in Nat, b > 0
    PROVE  /\ a \div b \in Nat /\ a % b \in 0..b-1
           /\ a = b * (a \div b) + (a % b)
  <1>1. a \div b \in Nat
    OBVIOUS
  <1>2. a % b \in 0..b-1
    OBVIOUS
  <1>3. a = b * (a \div b) + (a % b)
    OBVIOUS
  <1>4. QED
    BY <1>1, <1>2, <1>3

\* The quotient, without the operators.
LEMMA Divides ==
    ASSUME NEW a \in Nat, NEW b \in Nat, b > 0
    PROVE  \E d \in Nat : b * d <= a /\ a < b * d + b
  <1> DEFINE d == a \div b
             m == a % b
  <1>1. d \in Nat /\ m \in 0..b-1 /\ a = b * d + m
    BY DivMod
  <1> HIDE DEF d, m
  <1>2. b * d \in Nat
    BY <1>1, Z3
  <1>3. QED
    BY <1>1, <1>2

\* Products grow with their factors, and distribute over sums.
LEMMA TimesMonotone ==
    ASSUME NEW a \in Int, NEW b \in Int, NEW c \in Nat, a <= b
    PROVE  a * c <= b * c
  BY Z3

\* Products distribute over sums.
LEMMA TimesSum ==
    ASSUME NEW a \in Int, NEW b \in Int, NEW c \in Int
    PROVE  (a + b) * c = a * c + b * c /\ (a - b) * c = a * c - b * c
  BY Z3

\* What is before the share of a call: q items and perhaps one more for every
\* call ahead of it.
Before(n, calls, t) ==
    t * Quot(n, calls) + (IF t < Rem(n, calls) THEN t ELSE Rem(n, calls))

\* The closed form of the bounds of a share.
LEMMA Bounds ==
    ASSUME NEW n \in Nat, NEW calls \in Nat, calls > 0, NEW t \in 0..calls-1
    PROVE  /\ SplitStart(n, calls, t) = Before(n, calls, t)
           /\ SplitEnd(n, calls, t) = Before(n, calls, t + 1)
           /\ Before(n, calls, t) \in Nat /\ Before(n, calls, t + 1) \in Nat
  <1> DEFINE q == Quot(n, calls)
             r == Rem(n, calls)
  <1>1. q \in Nat /\ r \in 0..calls-1 /\ n = calls * q + r
    BY DivMod DEF Quot, Rem
  <1>2. t * q \in Nat /\ (t + 1) * q = t * q + q /\ r * q \in Nat
    BY <1>1, TimesSum, Z3
  <1>3. Before(n, calls, t) \in Nat /\ Before(n, calls, t + 1) \in Nat
    BY <1>1, <1>2 DEF Before
  <1>4. CASE n = 0
    <2>1. q = 0 /\ r = 0
      <3>1. calls * q \in Nat
        BY <1>1, Z3
      <3>2. calls * q = 0 /\ r = 0
        BY <1>1, <1>4, <3>1
      <3>3. q = 0
        BY <1>1, <3>2, Z3
      <3>4. QED
        BY <3>2, <3>3
    <2>2. QED
      BY <1>3, <1>4, <2>1 DEF SplitStart, SplitEnd, Undivided, Before
  <1>5. CASE n # 0 /\ calls <= 1
    <2>1. calls = 1 /\ t = 0 /\ r = 0 /\ q = n
      BY <1>1, <1>5
    <2>2. QED
      BY <1>3, <1>5, <2>1 DEF SplitStart, SplitEnd, Undivided, Before
  <1>6. CASE n # 0 /\ calls > 1
    <2>1. SplitStart(n, calls, t) = IF t < r THEN t * (q + 1)
                                   ELSE r * (q + 1) + (t - r) * q
      BY <1>6 DEF SplitStart, Undivided
    <2>2. SplitEnd(n, calls, t) = SplitStart(n, calls, t) + q
                                   + (IF t < r THEN 1 ELSE 0)
      BY <1>6 DEF SplitEnd, Undivided
    <2>3. /\ t * (q + 1) = t * q + t
          /\ r * (q + 1) = r * q + r
          /\ (t - r) * q = t * q - r * q
      BY <1>1, TimesSum, Z3
    <2>4. SplitStart(n, calls, t) = t * q + (IF t < r THEN t ELSE r)
      BY <1>1, <1>2, <2>1, <2>3
    <2>5. SplitEnd(n, calls, t) = t * q + q + (IF t + 1 < r THEN t + 1 ELSE r)
      BY <1>1, <1>2, <2>2, <2>4
    <2>6. QED
      BY <1>2, <1>3, <2>4, <2>5 DEF Before
  <1>7. QED
    BY <1>4, <1>5, <1>6

\* The shares are intervals in the order of the calls: one ends where the next
\* starts, the first starts at 0 and the last ends at n.
THEOREM SharesContiguous ==
    ASSUME NEW n \in Nat, NEW calls \in Nat, calls > 0
    PROVE  Contiguous(n, calls)
  <1>1. Quot(n, calls) \in Nat /\ Rem(n, calls) \in 0..calls-1
        /\ n = calls * Quot(n, calls) + Rem(n, calls)
    BY DivMod DEF Quot, Rem
  <1>2. SplitStart(n, calls, 0) = 0
    <2>1. SplitStart(n, calls, 0) = Before(n, calls, 0)
      BY Bounds
    <2>2. 0 * Quot(n, calls) = 0
      BY <1>1
    <2>3. QED
      BY <1>1, <2>1, <2>2 DEF Before
  <1>3. SplitEnd(n, calls, calls - 1) = n
    <2>1. SplitEnd(n, calls, calls - 1) = Before(n, calls, (calls - 1) + 1)
      BY Bounds
    <2>2. (calls - 1) + 1 = calls
      OBVIOUS
    <2>3. Before(n, calls, calls) = n
      BY <1>1 DEF Before
    <2>4. QED
      BY <2>1, <2>2, <2>3
  <1>4. ASSUME NEW t \in 0..calls-2
        PROVE  SplitEnd(n, calls, t) = SplitStart(n, calls, t + 1)
    BY Bounds
  <1>5. QED
    BY <1>2, <1>3, <1>4 DEF Contiguous

\* A call's share ends before that of any later call starts.
LEMMA SharesOrdered ==
    ASSUME NEW n \in Nat, NEW calls \in Nat, calls > 0,
           NEW s \in 0..calls-1, NEW t \in 0..calls-1, s < t
    PROVE  SplitEnd(n, calls, s) <= SplitStart(n, calls, t)
  <1> DEFINE q == Quot(n, calls)
             r == Rem(n, calls)
  <1>1. q \in Nat /\ r \in 0..calls-1
    BY DivMod DEF Quot, Rem
  <1>2. (s + 1) * q <= t * q /\ (s + 1) * q \in Nat /\ t * q \in Nat
    BY <1>1, TimesMonotone, Z3
  <1>3. Before(n, calls, s + 1) <= Before(n, calls, t)
    BY <1>1, <1>2 DEF Before
  <1>4. QED
    BY <1>3, Bounds

\* "每个线程 workload 差 <= 1": two shares differ by one item at most.
THEOREM SharesBalanced ==
    ASSUME NEW n \in Nat, NEW calls \in Nat, calls > 0
    PROVE  Balanced(n, calls)
  <1> DEFINE q == Quot(n, calls)
             r == Rem(n, calls)
  <1>1. q \in Nat /\ r \in 0..calls-1
    BY DivMod DEF Quot, Rem
  <1>2. ASSUME NEW t \in 0..calls-1
        PROVE  SplitEnd(n, calls, t) - SplitStart(n, calls, t) \in {q, q + 1}
    <2>1. t * q \in Nat /\ (t + 1) * q = t * q + q
      BY <1>1, TimesSum, Z3
    <2>2. /\ SplitStart(n, calls, t) = Before(n, calls, t)
          /\ SplitEnd(n, calls, t) = Before(n, calls, t + 1)
      BY Bounds
    <2>3. QED
      BY <1>1, <2>1, <2>2 DEF Before
  <1>3. QED
    BY <1>1, <1>2 DEF Balanced

\* Every item is in the share of some call.
LEMMA SharesCover ==
    ASSUME NEW n \in Nat, NEW calls \in Nat, calls > 0, NEW item \in 0..n-1
    PROVE  \E t \in 0..calls-1 : item \in Share(n, calls, t)
  <1> DEFINE q == Quot(n, calls)
             r == Rem(n, calls)
  <1>1. q \in Nat /\ r \in 0..calls-1 /\ n = calls * q + r
    BY DivMod DEF Quot, Rem
  <1>2. r * (q + 1) = r * q + r /\ r * q \in Nat /\ calls * q \in Nat
    BY <1>1, Z3
  <1>3. CASE item < r * (q + 1)
    <2>1. PICK t \in Nat : (q + 1) * t <= item /\ item < (q + 1) * t + (q + 1)
      <3>1. item \in Nat /\ q + 1 \in Nat /\ q + 1 > 0
        BY <1>1
      <3>2. QED
        BY <3>1, Divides
    <2>2. (q + 1) * t = t * q + t /\ (t + 1) * q = t * q + q
      BY <1>1, <2>1, Z3
    <2>3. t < r
      <3>1. SUFFICES ASSUME r <= t PROVE FALSE
        BY <1>1, <2>1
      <3>2. r * (q + 1) <= t * (q + 1)
        BY <1>1, <2>1, <3>1, TimesMonotone
      <3>3. t * (q + 1) = (q + 1) * t
        BY <1>1, <2>1, Z3
      <3>4. QED
        BY <1>1, <1>2, <1>3, <2>1, <2>2, <3>2, <3>3
    <2>4. item \in Share(n, calls, t)
      <3>1. t \in 0..calls-1 /\ t * q \in Nat
        BY <1>1, <2>1, <2>3, Z3
      <3>2. /\ SplitStart(n, calls, t) = Before(n, calls, t)
            /\ SplitEnd(n, calls, t) = Before(n, calls, t + 1)
        BY <3>1, Bounds
      <3>3. Before(n, calls, t) <= item /\ item < Before(n, calls, t + 1)
        BY <1>1, <2>1, <2>2, <2>3, <3>1 DEF Before
      <3>4. QED
        BY <3>1, <3>2, <3>3, Bounds DEF Share
    <2>5. QED
      BY <1>1, <2>1, <2>3, <2>4
  <1>4. CASE r * (q + 1) <= item
    <2> DEFINE k == item - r * (q + 1)
    <2>1. calls * q - r * q = (calls - r) * q /\ k \in Nat
      BY <1>1, <1>2, <1>4, TimesSum
    <2>2. k < (calls - r) * q
      BY <1>1, <1>2, <1>4, <2>1
    <2>3. q > 0
      <3>1. CASE q = 0
        BY <1>1, <2>1, <2>2, <3>1, Z3
      <3>2. QED
        BY <1>1, <3>1
    <2>4. PICK d \in Nat : q * d <= k /\ k < q * d + q
      BY <1>1, <2>1, <2>3, Divides
    <2> DEFINE t == r + d
    <2>5. d < calls - r
      <3>1. SUFFICES ASSUME calls - r <= d PROVE FALSE
        BY <1>1, <2>4
      <3>2. (calls - r) * q <= d * q
        BY <1>1, <2>4, <3>1, TimesMonotone
      <3>3. d * q = q * d /\ d * q \in Nat /\ (calls - r) * q \in Nat
        BY <1>1, <2>4, Z3
      <3>4. QED
        BY <2>1, <2>2, <2>4, <3>2, <3>3
    <2>6. /\ t * q = r * q + q * d
          /\ (t + 1) * q = r * q + q * d + q
          /\ q * d \in Nat
      BY <1>1, <2>4, Z3
    <2>7. t \in 0..calls-1 /\ t >= r
      BY <1>1, <2>4, <2>5
    <2>8. item \in Share(n, calls, t)
      <3>1. /\ SplitStart(n, calls, t) = Before(n, calls, t)
            /\ SplitEnd(n, calls, t) = Before(n, calls, t + 1)
        BY <2>7, Bounds
      <3>2. Before(n, calls, t) <= item /\ item < Before(n, calls, t + 1)
        BY <1>1, <1>2, <1>4, <2>4, <2>6, <2>7 DEF Before
      <3>3. QED
        BY <2>7, <3>1, <3>2, Bounds DEF Share
    <2>9. QED
      BY <2>7, <2>8
  <1>5. QED
    BY <1>1, <1>2, <1>3, <1>4

\* Every item belongs to exactly one call: no row is computed twice, or by
\* nobody, or by two threads at a time.
THEOREM SharesPartition ==
    ASSUME NEW n \in Nat, NEW calls \in Nat, calls > 0
    PROVE  Partition(n, calls)
  <1>1. ASSUME NEW item \in 0..n-1, NEW s \in 0..calls-1, NEW t \in 0..calls-1,
               item \in Share(n, calls, s), item \in Share(n, calls, t)
        PROVE  s = t
    <2>1. ASSUME NEW u \in 0..calls-1, NEW v \in 0..calls-1, u < v,
                 item \in Share(n, calls, u), item \in Share(n, calls, v)
          PROVE  FALSE
      <3>1. SplitEnd(n, calls, u) <= SplitStart(n, calls, v)
        BY <2>1, SharesOrdered
      <3>2. /\ SplitEnd(n, calls, u) \in Nat /\ SplitStart(n, calls, v) \in Nat
        BY Bounds
      <3>3. QED
        BY <2>1, <3>1, <3>2 DEF Share
    <2>2. QED
      BY <1>1, <2>1
  <1>2. QED
    BY <1>1, SharesCover DEF Partition

\* No bound leaves 0 .. n.  A bound is a sum of non-negative terms, so no
\* intermediate value does either, and size_t arithmetic does not wrap.
THEOREM SharesInRange ==
    ASSUME NEW n \in Nat, NEW calls \in Nat, calls > 0, NEW t \in 0..calls-1
    PROVE  0 <= SplitStart(n, calls, t)
           /\ SplitStart(n, calls, t) <= SplitEnd(n, calls, t)
           /\ SplitEnd(n, calls, t) <= n
  <1> DEFINE q == Quot(n, calls)
             r == Rem(n, calls)
  <1>1. q \in Nat /\ r \in 0..calls-1 /\ n = calls * q + r
    BY DivMod DEF Quot, Rem
  <1>2. t * q \in Nat /\ (t + 1) * q = t * q + q /\ (t + 1) * q <= calls * q
    BY <1>1, TimesSum, TimesMonotone, Z3
  <1>3. /\ SplitStart(n, calls, t) = Before(n, calls, t)
        /\ SplitEnd(n, calls, t) = Before(n, calls, t + 1)
    BY Bounds
  <1>4. QED
    BY <1>1, <1>2, <1>3 DEF Before

-----------------------------------------------------------------------------
(* The steps *)

\* Every disjunct of Next, one case each.
LEMMA NextCases ==
    ASSUME Next
    PROVE  \/ Reject \/ Dispatch
           \/ RefRow \/ RefAccumulate \/ RefNext \/ RefReturns
           \/ \E n \in 1..NumThreads : Parallel(n)
           \/ ParallelThrows \/ ParallelFails \/ Avx2Returns
           \/ \E c \in Call :
                 Begin(c) \/ NextRow(c) \/ Block(c) \/ Reduce(c)
                 \/ TailElement(c) \/ Store(c) \/ End(c)
  BY DEF Next, InferStep, CallStep, Resolve

-----------------------------------------------------------------------------
(* Sums *)

\* Element k of row r of a matrix of n columns, and the sum of the first k
\* products of that row.
Cell(n, r, k) == <<r * n + k, k>>
PartialSum(n, r, k) == SetToBag({Cell(n, r, x) : x \in 0..k-1})

\* The m elements of row r from k on.
Stretch(n, r, k, m) == {Cell(n, r, k + o) : o \in 0..m-1}

\* A sum starts from nothing.
LEMMA SumOfNone == ASSUME NEW n, NEW r PROVE PartialSum(n, r, 0) = EmptyBag
  <1>1. {Cell(n, r, x) : x \in 0..0-1} = {}
    OBVIOUS
  <1>2. QED
    BY <1>1 DEF PartialSum, EmptyBag

\* Adding the products of the next m columns gives the sum that is m longer:
\* none of them is in it yet.
LEMMA SumGrows ==
    ASSUME NEW n \in Nat, NEW r \in Nat, NEW k \in Nat, NEW m \in Nat
    PROVE  PartialSum(n, r, k) (+) SetToBag(Stretch(n, r, k, m))
             = PartialSum(n, r, k + m)
  <1> DEFINE A == {Cell(n, r, x) : x \in 0..k-1}
             B == {Cell(n, r, k + o) : o \in 0..m-1}
             C == {Cell(n, r, x) : x \in 0..k+m-1}
  <1>1. A \cap B = {}
    BY DEF Cell
  <1>2. C = A \cup B
    <2>1. ASSUME NEW e \in C PROVE e \in A \cup B
      <3>1. PICK x \in 0..k+m-1 : e = Cell(n, r, x)
        OBVIOUS
      <3>2. CASE x < k
        BY <3>1, <3>2
      <3>3. CASE x >= k
        <4>1. x - k \in 0..m-1 /\ k + (x - k) = x
          BY <3>3
        <4>2. QED
          BY <3>1, <4>1
      <3>4. QED
        BY <3>2, <3>3
    <2>2. \A x \in 0..k-1 : x \in 0..k+m-1
      OBVIOUS
    <2>3. \A o \in 0..m-1 : k + o \in 0..k+m-1
      OBVIOUS
    <2>4. A \subseteq C /\ B \subseteq C
      BY <2>2, <2>3
    <2>5. QED
      BY <2>1, <2>4
  <1>3. SetToBag(A) (+) SetToBag(B) = SetToBag(A \cup B)
    <2>1. DOMAIN SetToBag(A) = A /\ DOMAIN SetToBag(B) = B
      BY DEF SetToBag
    <2>2. \A e \in A \cup B :
             (IF e \in A THEN SetToBag(A)[e] ELSE 0)
               + (IF e \in B THEN SetToBag(B)[e] ELSE 0) = 1
      <3> HIDE DEF A, B
      <3>1. QED
        BY <1>1 DEF SetToBag
    <2> HIDE DEF A, B
    <2>3. QED
      BY <2>1, <2>2 DEF SetToBag, (+)
  <1>4. QED
    BY <1>2, <1>3 DEF PartialSum, Stretch

\* The products of the model are these, and so is the sum of a row.
LEMMA SumsOfRows ==
    /\ \A r, k : Product(r, k) = Cell(N, r, k)
    /\ \A r : RowSum(r) = PartialSum(N, r, N)
  BY DEF Product, RowSum, Cell, PartialSum

\* The accumulators of a block take every column of it, each once: the
\* registers tile the block without gap or overlap.
LEMMA BlockIsTiled == Offsets = 0..BlockSize-1 /\ BlockSize \in Nat \ {0}
  <1>1. Lanes \in Nat /\ Lanes > 0 /\ Accs \in Nat /\ Accs > 0
    BY GemvAssumption
  <1>2. BlockSize \in Nat \ {0}
    BY <1>1, Z3 DEF BlockSize
  <1>3. ASSUME NEW a \in 0..Accs-1, NEW l \in 0..Lanes-1
        PROVE  a * Lanes + l \in 0..BlockSize-1
    <2>1. (a + 1) * Lanes <= Accs * Lanes
      BY <1>1, TimesMonotone
    <2>2. (a + 1) * Lanes = a * Lanes + Lanes /\ a * Lanes \in Nat
          /\ Accs * Lanes = BlockSize
      BY <1>1, Z3 DEF BlockSize
    <2>3. QED
      BY <1>1, <1>2, <2>1, <2>2
  <1>4. ASSUME NEW o \in 0..BlockSize-1
        PROVE  \E a \in 0..Accs-1, l \in 0..Lanes-1 : o = a * Lanes + l
    <2> DEFINE a == o \div Lanes
               l == o % Lanes
    <2>1. o \in Nat
      BY <1>2
    <2>2. a \in Nat /\ l \in 0..Lanes-1 /\ o = Lanes * a + l
      BY <1>1, <2>1, DivMod
    <2> HIDE DEF a, l
    <2>3. o = a * Lanes + l /\ a * Lanes \in Nat /\ BlockSize = Accs * Lanes
      BY <1>1, <2>2, Z3 DEF BlockSize
    <2>4. a < Accs
      <3>1. SUFFICES ASSUME Accs <= a PROVE FALSE
        BY <1>1, <2>2
      <3>2. Accs * Lanes <= a * Lanes
        BY <1>1, <2>2, <3>1, TimesMonotone
      <3>3. QED
        BY <1>1, <1>2, <2>2, <2>3, <3>2
    <2>5. QED
      BY <1>1, <2>2, <2>3, <2>4
  <1>5. Offsets = {a * Lanes + l : a \in 0..Accs-1, l \in 0..Lanes-1}
    BY DEF Offsets
  <1>6. Offsets \subseteq 0..BlockSize-1
    BY <1>3, <1>5
  <1>7. 0..BlockSize-1 \subseteq Offsets
    BY <1>4, <1>5
  <1>8. QED
    BY <1>2, <1>6, <1>7

\* Row and column inside the matrix give an element inside it.
LEMMA CellInMatrix ==
    ASSUME NEW m \in Nat, NEW n \in Nat, NEW r \in 0..m-1, NEW k \in 0..n-1
    PROVE  r * n + k \in 0..m*n-1
  <1>1. (r + 1) * n <= m * n /\ (r + 1) * n = r * n + n
    BY TimesMonotone, TimesSum
  <1>2. r * n \in Nat /\ m * n \in Nat
    BY Z3
  <1>3. QED
    BY <1>1, <1>2

\* All the products of a sum of a row were read inside the matrix and the
\* vector.
LEMMA SumInMatrix ==
    ASSUME NEW m \in Nat, NEW n \in Nat, NEW r \in 0..m-1, NEW k \in 0..n,
           NEW p \in BagToSet(PartialSum(n, r, k))
    PROVE  p[1] \in 0..m*n-1 /\ p[2] \in 0..n-1
  <1>1. PICK x \in 0..k-1 : p = Cell(n, r, x)
    BY DEF BagToSet, PartialSum, SetToBag
  <1>2. x \in 0..n-1
    OBVIOUS
  <1>3. r * n + x \in 0..m*n-1
    BY <1>2, CellInMatrix
  <1>4. QED
    BY <1>1, <1>2, <1>3 DEF Cell

-----------------------------------------------------------------------------
(* The invariant *)

\* A kernel runs on accepted arguments only.
Valid == params # NoParams /\ Accepted

Typed ==
    /\ params \in Arguments
    /\ at \in {"infer", "ref", "ref_row", "avx2", "returned", "threw", "failed"}
    /\ team \in 0..NumThreads /\ begun \subseteq 0..team-1 /\ ended \subseteq begun
    /\ i \in Nat /\ j \in Nat
    /\ where \in [Call -> {"idle", "rows", "blocks", "tail"}]
    /\ row \in [Call -> Nat] /\ last \in [Call -> Nat] /\ col \in [Call -> Nat]
    /\ sum = [c \in Call |-> sum[c]]
    /\ output = [r \in DOMAIN output |-> output[r]]

\* Where infer is tells what it has checked and whether a team exists.
Phases ==
    /\ at # "returned" => status = "none"
    /\ at \in {"ref", "ref_row", "avx2", "threw"} \/ status = "ok" => Valid
    /\ team > 0 => at \in {"avx2", "threw"} \/ (status = "ok" /\ ended = 0..team-1)
    /\ at = "threw" => ended = begun /\ outcome = "threw"
    /\ Valid => DOMAIN output = 0..M-1

\* A running call works inside its share, a call that is done is at its end.
Sharing ==
    \A c \in Call :
        /\ where[c] # "idle" <=> c \in Active
        /\ where[c] \in {"blocks", "tail"} => row[c] < last[c]
        /\ c \in begun => /\ last[c] = SplitEnd(M, team, c)
                          /\ row[c] \in SplitStart(M, team, c)..last[c]
        /\ c \in ended => row[c] = last[c]

\* The accumulators of a row hold the products of the columns before col.
Summing ==
    \A c \in Call : where[c] \in {"blocks", "tail"} =>
        col[c] <= N /\ sum[c] = PartialSum(N, row[c], col[c])

\* No product in an accumulator was read outside the arguments.
Bounded ==
    \A c \in Call : \A p \in BagToSet(sum[c]) :
        p[1] \in 0..M*N-1 /\ p[2] \in 0..N-1

\* The rows a call is past.
Done(c) == SplitStart(M, team, c)..row[c]-1

\* The output of gemv_avx2 so far, or as an exception left it.
Storing ==
    at \in {"avx2", "threw"} => \A r \in 0..M-1 :
        /\ (\A c \in begun : r \notin Done(c)) => output[r] = Stale
        /\ \A c \in begun : r \in Done(c) => output[r] = PartialSum(N, r, N)

\* The output of gemv_ref so far.
RefSumming ==
    /\ at = "infer" => i = 0
    /\ at \in {"ref", "ref_row"} =>
          \A r \in 0..M-1 : r < i => output[r] = PartialSum(N, r, N)
    /\ at = "ref_row" => i < M /\ j <= N /\ output[i] = PartialSum(N, i, j)

\* An error leaves the output as it was.
Untouched ==
    at = "infer" \/ (at = "returned" /\ status # "ok")
        => \A r \in DOMAIN output : output[r] = Stale

IInv == /\ Typed /\ Phases /\ Sharing /\ Summing /\ Bounded /\ Storing
        /\ RefSumming /\ Untouched /\ MatchesReference

\* The extents of accepted arguments.
LEMMA Extents ==
    ASSUME params \in Arguments, Valid
    PROVE  M \in Nat /\ N \in Nat /\ params.output.shape = <<M>>
  <1>1. params.input_a \in Tensors /\ params.output \in Tensors
    BY ArgumentsAssumption DEF Valid
  <1>2. params.input_a.shape \in Seq(Nat) /\ params.output.shape \in Seq(Nat)
    BY <1>1 DEF Tensors
  <1>3. Len(params.input_a.shape) = 2 /\ Len(params.output.shape) = 1
    BY DEF Valid, Accepted, IsMatrix
  <1>4. params.input_a.shape[1] \in Nat /\ params.input_a.shape[2] \in Nat
        /\ params.output.shape[1] \in Nat
    <2>1. ASSUME NEW q \in Seq(Nat), NEW x \in 1..Len(q) PROVE q[x] \in Nat
      OBVIOUS
    <2>2. /\ 1 \in 1..Len(params.input_a.shape) /\ 2 \in 1..Len(params.input_a.shape)
          /\ 1 \in 1..Len(params.output.shape)
      BY <1>3
    <2>3. QED
      BY <1>2, <2>1, <2>2
  <1>5. params.output.shape = <<params.output.shape[1]>>
    BY <1>2, <1>3
  <1>6. M = params.output.shape[1] /\ N \in Nat
    BY <1>4 DEF Valid, Accepted, M, N
  <1>7. QED
    BY <1>4, <1>5, <1>6

\* The arguments do not change, nor what depends on them alone.
LEMMA SameArguments ==
    ASSUME [Next]_vars
    PROVE  /\ params' = params /\ M' = M /\ N' = N
           /\ Valid' <=> Valid
  <1>1. params' = params
    <2>1. ASSUME NEW n \in 1..NumThreads, Parallel(n) PROVE params' = params
      BY <2>1 DEF Parallel
    <2>2. ASSUME NEW c \in Call,
                 Begin(c) \/ NextRow(c) \/ Block(c) \/ Reduce(c)
                 \/ TailElement(c) \/ Store(c) \/ End(c)
          PROVE  params' = params
      BY <2>2 DEF Begin, NextRow, Block, Reduce, TailElement, Store, End
    <2>3. ASSUME Reject \/ Dispatch \/ RefRow \/ RefAccumulate \/ RefNext
                 \/ RefReturns \/ ParallelThrows \/ ParallelFails \/ Avx2Returns
                 \/ UNCHANGED vars
          PROVE  params' = params
      BY <2>3 DEF Reject, Dispatch, RefRow, RefAccumulate, RefNext, RefReturns,
                  ParallelThrows, ParallelFails, Avx2Returns, vars
    <2>4. QED
      BY NextCases, <2>1, <2>2, <2>3
  <1>2. QED
    BY <1>1 DEF M, N, Valid, Accepted

-----------------------------------------------------------------------------
(* The first state *)

\* A tensor of no extents has no rows.
LEMMA EmptyFunction == <<>> = [x \in DOMAIN <<>> |-> <<>>[x]]
  OBVIOUS

\* Nothing is stored, no call runs.
LEMMA InvInit == Init => IInv
  <1> SUFFICES ASSUME Init PROVE IInv
    OBVIOUS
  <1> USE DEF Init, Fork!Init
  <1>1. Typed
    <2>1. output = [r \in DOMAIN output |-> output[r]]
      <3>1. CASE output = <<>>
        BY <3>1, EmptyFunction, Zenon
      <3>2. CASE output = [r \in 0..params.output.shape[1]-1 |-> Stale]
        BY <3>2, Zenon
      <3>3. QED
        BY <3>1, <3>2
    <2>2. sum = [c \in Call |-> sum[c]]
      BY Zenon
    <2>3. /\ where \in [Call -> {"idle", "rows", "blocks", "tail"}]
          /\ row \in [Call -> Nat] /\ last \in [Call -> Nat]
          /\ col \in [Call -> Nat]
      OBVIOUS
    <2>4. QED
      BY <2>1, <2>2, <2>3, GemvAssumption DEF Typed
  <1>2. Phases
    <2>1. ASSUME Valid PROVE DOMAIN output = 0..M-1
      <3>1. params.output.shape = <<M>>
        BY <1>1, <2>1, Extents DEF Typed
      <3>2. QED
        BY <2>1, <3>1 DEF Valid
    <2>2. QED
      BY <2>1 DEF Phases
  <1>3. Sharing
    BY DEF Sharing, Active
  <1>4. Bounded
    BY DEF Bounded, BagToSet, EmptyBag, SetToBag
  <1>5. Untouched
    BY DEF Untouched
  <1>6. QED
    BY <1>1, <1>2, <1>3, <1>4, <1>5
       DEF IInv, Summing, Storing, RefSumming, MatchesReference

-----------------------------------------------------------------------------
(* Types and phases *)

\* An assignment to an element leaves a function a function.
LEMMA AssignedFunction ==
    ASSUME NEW f, f = [x \in DOMAIN f |-> f[x]], NEW k, NEW v,
           NEW g, g = [f EXCEPT ![k] = v]
    PROVE  g = [x \in DOMAIN g |-> g[x]]
  BY Zenon

\* While a team exists the extents and the shares are numbers, in order.
LEMMA Numbers ==
    ASSUME Typed, Phases
    PROVE  /\ Valid => M \in Nat /\ N \in Nat
           /\ team > 0 => Valid
           /\ at # "returned" => status # "ok"
           /\ \A c \in 0..team-1 :
                 /\ c \in Call
                 /\ SplitStart(M, team, c) \in Nat
                 /\ SplitEnd(M, team, c) \in 0..M
                 /\ SplitStart(M, team, c) <= SplitEnd(M, team, c)
  <1>1. Valid => M \in Nat /\ N \in Nat
    BY Extents DEF Typed
  <1>2. team > 0 => Valid
    BY DEF Phases, Typed
  <1>3. at # "returned" => status # "ok"
    BY DEF Phases
  <1>4. ASSUME NEW c \in 0..team-1
        PROVE  /\ c \in Call
               /\ SplitStart(M, team, c) \in Nat
               /\ SplitEnd(M, team, c) \in 0..M
               /\ SplitStart(M, team, c) <= SplitEnd(M, team, c)
    <2>1. team \in 0..NumThreads /\ NumThreads \in Nat
      BY GemvAssumption DEF Typed
    <2>2. team \in Nat /\ team > 0 /\ M \in Nat
      BY <1>1, <1>2, <2>1
    <2>3. c \in Call
      BY <2>1 DEF Call
    <2>4. SplitStart(M, team, c) \in Nat /\ SplitEnd(M, team, c) \in Nat
      BY <2>2, Bounds
    <2>5. QED
      BY <2>2, <2>3, <2>4, SharesInRange
  <1>5. QED
    BY <1>1, <1>2, <1>3, <1>4

\* Types are kept by every step.
LEMMA TypedNext == Typed /\ Phases /\ [Next]_vars => Typed'
  <1> SUFFICES ASSUME Typed, Phases, [Next]_vars PROVE Typed'
    OBVIOUS
  <1> USE GemvAssumption
  <1>1. CASE Reject
    BY <1>1 DEF Reject, Typed, refVars, forkVars, rowVars
  <1>2. CASE Dispatch
    BY <1>2 DEF Dispatch, Typed, refVars, forkVars, rowVars
  <1>3. CASE RefRow
    BY <1>3 DEF RefRow, Typed, refVars, forkVars, rowVars
  <1>4. CASE RefAccumulate
    <2>1. output' = [r \in DOMAIN output' |-> output'[r]]
      BY <1>4, AssignedFunction DEF RefAccumulate, Typed
    <2>2. QED
      BY <1>4, <2>1 DEF RefAccumulate, Typed, forkVars, rowVars
  <1>5. CASE RefNext
    BY <1>5 DEF RefNext, Typed, refVars, forkVars, rowVars
  <1>6. CASE RefReturns
    BY <1>6 DEF RefReturns, Typed, refVars, forkVars, rowVars
  <1>7. ASSUME NEW n \in 1..NumThreads, Parallel(n) PROVE Typed'
    BY <1>7 DEF Parallel, Typed, refVars, forkVars, rowVars, Fork!Fork
  <1>8. CASE ParallelThrows
    BY <1>8 DEF ParallelThrows, Typed, refVars, forkVars, rowVars,
       Fork!Throw
  <1>8f. CASE ParallelFails
    BY <1>8f DEF ParallelFails, Typed, refVars, forkVars, rowVars, Fork!Fail
  <1>9. CASE Avx2Returns
    BY <1>9 DEF Avx2Returns, Typed, refVars, forkVars, rowVars, Fork!Return
  <1>10. ASSUME NEW c \in Call, Begin(c) PROVE Typed'
    <2>1. c \in 0..team-1
      BY <1>10 DEF Begin, Fork!Begin
    <2>2. SplitStart(M, team, c) \in Nat /\ SplitEnd(M, team, c) \in Nat
      BY <2>1, Numbers
    <2>3. QED
      BY <1>10, <2>1, <2>2 DEF Begin, Fork!Begin, Typed, refVars
  <1>11. ASSUME NEW c \in Call, NextRow(c) PROVE Typed'
    BY <1>11 DEF NextRow, Typed, refVars, forkVars, rowVars
  <1>12. ASSUME NEW c \in Call, Block(c) PROVE Typed'
    <2>1. BlockSize \in Nat
      BY BlockIsTiled
    <2>2. /\ UNCHANGED <<params, at, team, begun, ended, i, j, where, row, last>>
          /\ output' = output /\ col' = [col EXCEPT ![c] = col[c] + BlockSize]
      BY <1>12 DEF Block, refVars, forkVars
    <2>3. col' \in [Call -> Nat]
      BY <2>1, <2>2 DEF Typed
    <2>4. sum' = [x \in Call |-> sum'[x]]
      <3>1. sum' = [sum EXCEPT ![c] = sum'[c]]
        BY <1>12 DEF Block, Typed
      <3>2. QED
        BY <3>1, AssignedFunction DEF Typed
    <2>5. QED
      BY <2>2, <2>3, <2>4 DEF Typed
  <1>13. ASSUME NEW c \in Call, Reduce(c) PROVE Typed'
    BY <1>13 DEF Reduce, Typed, refVars, forkVars, rowVars
  <1>14. ASSUME NEW c \in Call, TailElement(c) PROVE Typed'
    <2>1. sum' = [x \in Call |-> sum'[x]]
      BY <1>14, AssignedFunction DEF TailElement, Typed
    <2>2. QED
      BY <1>14, <2>1 DEF TailElement, Typed, refVars, forkVars
  <1>15. ASSUME NEW c \in Call, Store(c) PROVE Typed'
    <2>1. output' = [r \in DOMAIN output' |-> output'[r]]
      BY <1>15, AssignedFunction DEF Store, Typed
    <2>2. QED
      BY <1>15, <2>1 DEF Store, Typed, refVars, forkVars
  <1>16. ASSUME NEW c \in Call, End(c) PROVE Typed'
    BY <1>16 DEF End, Typed, refVars, forkVars, rowVars, Fork!End, Call
  <1>17. CASE UNCHANGED vars
    BY <1>17 DEF vars, Typed, refVars, forkVars, rowVars
  <1>18. QED
    BY NextCases, <1>1, <1>2, <1>3, <1>4, <1>5, <1>6, <1>7, <1>8, <1>8f,
       <1>9, <1>10, <1>11, <1>12, <1>13, <1>14, <1>15, <1>16, <1>17

\* The phases are kept by every step: no team is formed before the arguments
\* are accepted, and infer returns ok only behind an accepted call.
LEMMA PhasesNext == Typed /\ Phases /\ [Next]_vars => Phases'
  <1> SUFFICES ASSUME Typed, Phases, [Next]_vars PROVE Phases'
    OBVIOUS
  <1>0. M' = M /\ (Valid' <=> Valid)
    BY SameArguments
  <1> USE <1>0, GemvAssumption DEF Phases, Typed, refVars, forkVars, rowVars
  <1>1. CASE Reject
    BY <1>1 DEF Reject, Valid
  <1>2. CASE Dispatch
    BY <1>2 DEF Dispatch, Valid
  <1>3. CASE RefRow
    BY <1>3 DEF RefRow
  <1>4. CASE RefAccumulate
    BY <1>4 DEF RefAccumulate
  <1>5. CASE RefNext
    BY <1>5 DEF RefNext
  <1>6. CASE RefReturns
    BY <1>6 DEF RefReturns
  <1>7. ASSUME NEW n \in 1..NumThreads, Parallel(n) PROVE Phases'
    BY <1>7 DEF Parallel, Fork!Fork
  <1>8. CASE ParallelThrows
    BY <1>8 DEF ParallelThrows, Fork!Throw
  <1>8f. CASE ParallelFails
    BY <1>8f DEF ParallelFails, Fork!Fail
  <1>9. CASE Avx2Returns
    BY <1>9 DEF Avx2Returns, Fork!Return
  <1>10. ASSUME NEW c \in Call, Begin(c) PROVE Phases'
    BY <1>10 DEF Begin, Fork!Begin
  <1>11. ASSUME NEW c \in Call, NextRow(c) PROVE Phases'
    BY <1>11 DEF NextRow
  <1>12. ASSUME NEW c \in Call, Block(c) PROVE Phases'
    BY <1>12 DEF Block
  <1>13. ASSUME NEW c \in Call, Reduce(c) PROVE Phases'
    BY <1>13 DEF Reduce
  <1>14. ASSUME NEW c \in Call, TailElement(c) PROVE Phases'
    BY <1>14 DEF TailElement
  <1>15. ASSUME NEW c \in Call, Store(c) PROVE Phases'
    BY <1>15 DEF Store
  <1>16. ASSUME NEW c \in Call, End(c) PROVE Phases'
    BY <1>16 DEF End, Fork!End
  <1>17. CASE UNCHANGED vars
    BY <1>17 DEF vars
  <1>18. QED
    BY NextCases, <1>1, <1>2, <1>3, <1>4, <1>5, <1>6, <1>7, <1>8, <1>8f,
       <1>9, <1>10, <1>11, <1>12, <1>13, <1>14, <1>15, <1>16, <1>17

\* A call stays inside its share until it is past its end.
LEMMA SharingNext == Typed /\ Phases /\ Sharing /\ [Next]_vars => Sharing'
  <1> SUFFICES ASSUME Typed, Phases, Sharing, [Next]_vars PROVE Sharing'
    OBVIOUS
  <1>0. M' = M /\ N' = N /\ (Valid' <=> Valid)
    BY SameArguments
  <1> USE <1>0 DEF Sharing, Active, refVars, forkVars, rowVars
  <1>1. CASE Reject
    BY <1>1 DEF Reject
  <1>2. CASE Dispatch
    BY <1>2 DEF Dispatch
  <1>3. CASE RefRow
    BY <1>3 DEF RefRow
  <1>4. CASE RefAccumulate
    BY <1>4 DEF RefAccumulate
  <1>5. CASE RefNext
    BY <1>5 DEF RefNext
  <1>6. CASE RefReturns
    BY <1>6 DEF RefReturns
  <1>7. ASSUME NEW n \in 1..NumThreads, Parallel(n) PROVE Sharing'
    BY <1>7 DEF Parallel, Fork!Fork, Typed
  <1>8. CASE ParallelThrows
    BY <1>8 DEF ParallelThrows, Fork!Throw, Typed
  <1>8f. CASE ParallelFails
    BY <1>8f DEF ParallelFails, Fork!Fail
  <1>9. CASE Avx2Returns
    BY <1>9 DEF Avx2Returns, Fork!Return, Typed
  <1>10. ASSUME NEW c \in Call, Begin(c) PROVE Sharing'
    <2>1. c \in 0..team-1 /\ c \notin begun /\ c \notin ended
      BY <1>10 DEF Begin, Fork!Begin, Typed
    <2>2. /\ SplitStart(M, team, c) \in Nat /\ SplitEnd(M, team, c) \in Nat
          /\ SplitStart(M, team, c) <= SplitEnd(M, team, c)
      BY <2>1, Numbers
    <2>3. QED
      BY <1>10, <2>1, <2>2 DEF Begin, Fork!Begin, Typed
  <1>11. ASSUME NEW c \in Call, NextRow(c) PROVE Sharing'
    BY <1>11 DEF NextRow, Typed
  <1>12. ASSUME NEW c \in Call, Block(c) PROVE Sharing'
    BY <1>12 DEF Block, Typed
  <1>13. ASSUME NEW c \in Call, Reduce(c) PROVE Sharing'
    BY <1>13 DEF Reduce, Typed
  <1>14. ASSUME NEW c \in Call, TailElement(c) PROVE Sharing'
    BY <1>14 DEF TailElement, Typed
  <1>15. ASSUME NEW c \in Call, Store(c) PROVE Sharing'
    <2>1. row[c] < last[c] /\ c \in begun
      BY <1>15 DEF Store, Typed
    <2>2. row[c] \in Nat /\ last[c] \in Nat
      BY DEF Typed
    <2>3. SplitStart(M, team, c) \in Nat
      BY <2>1, Numbers DEF Typed
    <2>4. row[c] + 1 \in SplitStart(M, team, c)..last[c]
      BY <2>1, <2>2, <2>3
    <2>5. QED
      BY <1>15, <2>1, <2>2, <2>4 DEF Store, Typed
  <1>16. ASSUME NEW c \in Call, End(c) PROVE Sharing'
    BY <1>16 DEF End, Fork!End, Typed
  <1>17. CASE UNCHANGED vars
    BY <1>17 DEF vars
  <1>18. QED
    BY NextCases, <1>1, <1>2, <1>3, <1>4, <1>5, <1>6, <1>7, <1>8, <1>8f,
       <1>9, <1>10, <1>11, <1>12, <1>13, <1>14, <1>15, <1>16, <1>17

\* A row is summed column by column: a block adds the columns of all its
\* registers, the tail adds one.
LEMMA SummingNext == Typed /\ Phases /\ Sharing /\ Summing /\ [Next]_vars =>
    Summing'
  <1> SUFFICES ASSUME Typed, Phases, Sharing, Summing, [Next]_vars PROVE
                    Summing'
    OBVIOUS
  <1>0. M' = M /\ N' = N /\ (Valid' <=> Valid)
    BY SameArguments
  <1> USE <1>0 DEF Summing, refVars, forkVars, rowVars
  <1>1. CASE Reject
    BY <1>1 DEF Reject
  <1>2. CASE Dispatch
    BY <1>2 DEF Dispatch
  <1>3. CASE RefRow
    BY <1>3 DEF RefRow
  <1>4. CASE RefAccumulate
    BY <1>4 DEF RefAccumulate
  <1>5. CASE RefNext
    BY <1>5 DEF RefNext
  <1>6. CASE RefReturns
    BY <1>6 DEF RefReturns
  <1>7. ASSUME NEW n \in 1..NumThreads, Parallel(n) PROVE Summing'
    BY <1>7 DEF Parallel, Fork!Fork
  <1>8. CASE ParallelThrows
    BY <1>8 DEF ParallelThrows, Fork!Throw
  <1>8f. CASE ParallelFails
    BY <1>8f DEF ParallelFails, Fork!Fail
  <1>9. CASE Avx2Returns
    BY <1>9 DEF Avx2Returns, Fork!Return
  <1>10. ASSUME NEW c \in Call, Begin(c) PROVE Summing'
    BY <1>10 DEF Begin, Typed
  <1>11. ASSUME NEW c \in Call, NextRow(c) PROVE Summing'
    <2>1. N \in Nat
      BY <1>11, Numbers DEF NextRow, Sharing, Active, Typed
    <2>2. sum'[c] = PartialSum(N, row'[c], col'[c])
      BY <1>11, SumOfNone DEF NextRow, Typed
    <2>3. QED
      BY <1>11, <2>1, <2>2 DEF NextRow, Typed
  <1>12. ASSUME NEW c \in Call, Block(c) PROVE Summing'
    <2>1. N \in Nat
      BY <1>12, Numbers DEF Block, Sharing, Active, Typed
    <2>2. BlockSize \in Nat /\ Offsets = 0..BlockSize-1
      BY BlockIsTiled
    <2>3. row[c] \in Nat /\ col[c] \in Nat
      BY DEF Typed
    <2>4. {Product(row[c], col[c] + o) : o \in Offsets}
            = Stretch(N, row[c], col[c], BlockSize)
      BY <2>2, SumsOfRows DEF Stretch
    <2>5. PartialSum(N, row[c], col[c])
            (+) SetToBag(Stretch(N, row[c], col[c], BlockSize))
            = PartialSum(N, row[c], col[c] + BlockSize)
      <3>1. PICK n \in Nat, r \in Nat, k \in Nat, m \in Nat :
              n = N /\ r = row[c] /\ k = col[c] /\ m = BlockSize
        BY <2>1, <2>2, <2>3
      <3>2. PartialSum(n, r, k) (+) SetToBag(Stretch(n, r, k, m))
              = PartialSum(n, r, k + m)
        BY SumGrows
      <3>3. QED
        BY <3>1, <3>2
    <2>6. /\ sum' = [sum EXCEPT ![c] = PartialSum(N, row[c], col[c] + BlockSize)]
          /\ col' = [col EXCEPT ![c] = col[c] + BlockSize]
          /\ col[c] + BlockSize <= N
      <3>1. sum[c] = PartialSum(N, row[c], col[c])
        BY <1>12 DEF Block
      <3>2. sum' = [sum EXCEPT ![c] = PartialSum(N, row[c], col[c] + BlockSize)]
        BY <1>12, <2>4, <2>5, <3>1, Zenon DEF Block
      <3>3. col' = [col EXCEPT ![c] = col[c] + BlockSize] /\ col[c] + BlockSize - 1 < N
        BY <1>12 DEF Block
      <3>4. col[c] + BlockSize <= N
        BY <2>1, <2>2, <2>3, <3>3
      <3>5. QED
        BY <3>2, <3>3, <3>4
    <2>7. where' = where /\ row' = row
      BY <1>12 DEF Block
    <2>8. QED
      BY <2>6, <2>7 DEF Typed
  <1>13. ASSUME NEW c \in Call, Reduce(c) PROVE Summing'
    BY <1>13 DEF Reduce, Typed
  <1>14. ASSUME NEW c \in Call, TailElement(c) PROVE Summing'
    <2>1. N \in Nat
      BY <1>14, Numbers DEF TailElement, Sharing, Active, Typed
    <2>2. row[c] \in Nat /\ col[c] \in Nat
      BY DEF Typed
    <2>3. {Product(row[c], col[c])} = Stretch(N, row[c], col[c], 1)
      <3>1. {Cell(N, row[c], col[c] + o) : o \in {0}}
              = {Cell(N, row[c], col[c] + 0)}
        OBVIOUS
      <3>2. 0..1-1 = {0} /\ col[c] + 0 = col[c]
        BY <2>2
      <3>3. QED
        BY <3>1, <3>2, SumsOfRows DEF Stretch
    <2>4. PartialSum(N, row[c], col[c])
            (+) SetToBag(Stretch(N, row[c], col[c], 1))
            = PartialSum(N, row[c], col[c] + 1)
      <3>1. PICK n \in Nat, r \in Nat, k \in Nat, m \in Nat :
              n = N /\ r = row[c] /\ k = col[c] /\ m = 1
        BY <2>1, <2>2
      <3>2. PartialSum(n, r, k) (+) SetToBag(Stretch(n, r, k, m))
              = PartialSum(n, r, k + m)
        BY SumGrows
      <3>3. QED
        BY <3>1, <3>2
    <2>5. /\ sum' = [sum EXCEPT ![c] = PartialSum(N, row[c], col[c] + 1)]
          /\ col' = [col EXCEPT ![c] = col[c] + 1]
          /\ col[c] + 1 <= N
      <3>1. sum[c] = PartialSum(N, row[c], col[c])
        BY <1>14 DEF TailElement
      <3>2. sum' = [sum EXCEPT ![c] = PartialSum(N, row[c], col[c] + 1)]
        BY <1>14, <2>3, <2>4, <3>1, Zenon DEF TailElement
      <3>3. col' = [col EXCEPT ![c] = col[c] + 1] /\ col[c] < N
        BY <1>14 DEF TailElement
      <3>4. col[c] + 1 <= N
        BY <2>1, <2>2, <2>3, <3>3
      <3>5. QED
        BY <3>2, <3>3, <3>4
    <2>6. where' = where /\ row' = row
      BY <1>14 DEF TailElement
    <2>7. QED
      BY <2>5, <2>6 DEF Typed
  <1>15. ASSUME NEW c \in Call, Store(c) PROVE Summing'
    BY <1>15 DEF Store, Typed
  <1>16. ASSUME NEW c \in Call, End(c) PROVE Summing'
    BY <1>16 DEF End, Typed
  <1>17. CASE UNCHANGED vars
    BY <1>17 DEF vars
  <1>18. QED
    BY NextCases, <1>1, <1>2, <1>3, <1>4, <1>5, <1>6, <1>7, <1>8, <1>8f,
       <1>9, <1>10, <1>11, <1>12, <1>13, <1>14, <1>15, <1>16, <1>17

\* What the accumulators of a running call hold is inside the arguments.
LEMMA RowBounded ==
    ASSUME Typed, Phases, Sharing, Bounded, Typed', Summing', [Next]_vars,
           NEW c \in Call, row[c] < last[c], c \in begun, row' = row,
           where'[c] \in {"blocks", "tail"},
           \A d \in Call : d # c => sum'[d] = sum[d]
    PROVE  Bounded'
  <1>0. M' = M /\ N' = N
    BY SameArguments
  <1>1. /\ c \in 0..team-1 /\ row[c] \in Nat /\ col'[c] \in Nat
        /\ team \in Nat /\ team > 0
    BY GemvAssumption DEF Typed
  <1>2. M \in Nat /\ N \in Nat /\ SplitEnd(M, team, c) \in 0..M
    BY <1>1, Numbers
  <1>3. row[c] \in 0..M-1
    <2>1. last[c] = SplitEnd(M, team, c)
      BY DEF Sharing
    <2>2. QED
      BY <1>1, <1>2, <2>1
  <1>4. sum'[c] = PartialSum(N, row[c], col'[c]) /\ col'[c] \in 0..N
    BY <1>0, <1>1, <1>2 DEF Summing
  <1>5. \A p \in BagToSet(sum'[c]) : p[1] \in 0..M*N-1 /\ p[2] \in 0..N-1
    <2>1. ASSUME NEW p \in BagToSet(PartialSum(N, row[c], col'[c]))
          PROVE  p[1] \in 0..M*N-1 /\ p[2] \in 0..N-1
      BY <1>2, <1>3, <1>4, SumInMatrix
    <2>2. QED
      BY <1>4, <2>1
  <1>6. QED
    <2>1. ASSUME NEW d \in Call, NEW p \in BagToSet(sum'[d])
          PROVE  p[1] \in 0..M*N-1 /\ p[2] \in 0..N-1
      BY <1>5, <2>1 DEF Bounded
    <2>2. QED
      BY <1>0, <2>1 DEF Bounded, BagToSet

\* No load leaves the matrix or the vector.
LEMMA BoundedNext == Typed /\ Phases /\ Sharing /\ Bounded /\ Typed' /\
    Summing' /\ [Next]_vars => Bounded'
  <1> SUFFICES ASSUME Typed, Phases, Sharing, Bounded, Typed', Summing',
                    [Next]_vars PROVE Bounded'
    OBVIOUS
  <1>0. M' = M /\ N' = N /\ (Valid' <=> Valid)
    BY SameArguments
  <1> USE <1>0 DEF Bounded, refVars, forkVars, rowVars
  <1>1. CASE Reject
    BY <1>1 DEF Reject
  <1>2. CASE Dispatch
    BY <1>2 DEF Dispatch
  <1>3. CASE RefRow
    BY <1>3 DEF RefRow
  <1>4. CASE RefAccumulate
    BY <1>4 DEF RefAccumulate
  <1>5. CASE RefNext
    BY <1>5 DEF RefNext
  <1>6. CASE RefReturns
    BY <1>6 DEF RefReturns
  <1>7. ASSUME NEW n \in 1..NumThreads, Parallel(n) PROVE Bounded'
    BY <1>7 DEF Parallel
  <1>8. CASE ParallelThrows
    BY <1>8 DEF ParallelThrows
  <1>8f. CASE ParallelFails
    BY <1>8f DEF ParallelFails
  <1>9. CASE Avx2Returns
    BY <1>9 DEF Avx2Returns
  <1>10. ASSUME NEW c \in Call, Begin(c) PROVE Bounded'
    BY <1>10 DEF Begin
  <1>11. ASSUME NEW c \in Call, NextRow(c) PROVE Bounded'
    <2>1. c \in begun /\ row' = row /\ where'[c] \in {"blocks", "tail"}
      BY <1>11 DEF NextRow, Sharing, Active, Typed
    <2>2. \A d \in Call : d # c => sum'[d] = sum[d]
      BY <1>11 DEF NextRow, Typed
    <2>3. row[c] < last[c]
      BY <1>11 DEF NextRow
    <2>4. QED
      BY <2>1, <2>2, <2>3, RowBounded
  <1>12. ASSUME NEW c \in Call, Block(c) PROVE Bounded'
    <2>1. where[c] \in {"blocks", "tail"} /\ c \in begun
      BY <1>12 DEF Block, Sharing, Active
    <2>2. where'[c] \in {"blocks", "tail"} /\ row' = row
      BY <1>12 DEF Block, Typed
    <2>3. \A d \in Call : d # c => sum'[d] = sum[d]
      BY <1>12 DEF Block, Typed
    <2>4. row[c] < last[c]
      BY <2>1 DEF Sharing
    <2>5. QED
      BY <2>1, <2>2, <2>3, <2>4, RowBounded
  <1>13. ASSUME NEW c \in Call, Reduce(c) PROVE Bounded'
    BY <1>13 DEF Reduce
  <1>14. ASSUME NEW c \in Call, TailElement(c) PROVE Bounded'
    <2>1. where[c] \in {"blocks", "tail"} /\ c \in begun
      BY <1>14 DEF TailElement, Sharing, Active
    <2>2. where'[c] \in {"blocks", "tail"} /\ row' = row
      BY <1>14 DEF TailElement, Typed
    <2>3. \A d \in Call : d # c => sum'[d] = sum[d]
      BY <1>14 DEF TailElement, Typed
    <2>4. row[c] < last[c]
      BY <2>1 DEF Sharing
    <2>5. QED
      BY <2>1, <2>2, <2>3, <2>4, RowBounded
  <1>15. ASSUME NEW c \in Call, Store(c) PROVE Bounded'
    BY <1>15 DEF Store
  <1>16. ASSUME NEW c \in Call, End(c) PROVE Bounded'
    BY <1>16 DEF End
  <1>17. CASE UNCHANGED vars
    BY <1>17 DEF vars
  <1>18. QED
    BY NextCases, <1>1, <1>2, <1>3, <1>4, <1>5, <1>6, <1>7, <1>8, <1>8f,
       <1>9, <1>10, <1>11, <1>12, <1>13, <1>14, <1>15, <1>16, <1>17

-----------------------------------------------------------------------------
(* The output *)

\* Two calls never have a row in common, in their shares whole.
LEMMA SharesApart ==
    ASSUME Typed, Phases, Sharing,
           NEW c \in begun, NEW d \in begun, c # d,
           NEW r \in SplitStart(M, team, c)..last[c]-1
    PROVE  r \notin SplitStart(M, team, d)..last[d]-1
  <1>1. /\ c \in 0..team-1 /\ d \in 0..team-1 /\ c \in Call /\ d \in Call
        /\ team \in Nat /\ team > 0
    <2>1. NumThreads \in Nat /\ team \in 0..NumThreads
      BY GemvAssumption DEF Typed
    <2>2. c \in 0..team-1 /\ d \in 0..team-1
      BY DEF Typed
    <2>3. QED
      BY <2>1, <2>2 DEF Call
  <1>2. M \in Nat
    BY <1>1, Numbers
  <1>3. last[c] = SplitEnd(M, team, c) /\ last[d] = SplitEnd(M, team, d)
    BY <1>1 DEF Sharing
  <1>4. c < d \/ d < c
    BY <1>1
  <1>5. \/ SplitEnd(M, team, c) <= SplitStart(M, team, d)
        \/ SplitEnd(M, team, d) <= SplitStart(M, team, c)
    BY <1>1, <1>2, <1>4, SharesOrdered
  <1>6. /\ SplitStart(M, team, c) \in Nat /\ SplitEnd(M, team, c) \in Nat
        /\ SplitStart(M, team, d) \in Nat /\ SplitEnd(M, team, d) \in Nat
    BY <1>1, <1>2, Bounds
  <1>7. QED
    BY <1>3, <1>5, <1>6

\* A row that is about to be stored is a row of the output that no call is
\* past, its sum is complete, and so it is stored for the first time.
LEMMA StoresNewRow ==
    ASSUME Typed, Phases, Sharing, Summing, Storing, NEW c \in Call, Store(c)
    PROVE  /\ at = "avx2" /\ row[c] \in 0..M-1 /\ c \in begun
           /\ sum[c] = PartialSum(N, row[c], N)
           /\ output[row[c]] = Stale
           /\ \A d \in begun : row[c] \notin Done(d)
  <1>1. c \in Active /\ where[c] = "tail" /\ row[c] < last[c] /\ col[c] >= N
    BY DEF Store, Sharing
  <1>2. /\ c \in begun /\ c \in 0..team-1 /\ c \notin ended
        /\ team \in Nat /\ team > 0
    BY <1>1, GemvAssumption DEF Typed, Active
  <1>3. at = "avx2"
    BY <1>2 DEF Phases, Typed
  <1>4. M \in Nat /\ N \in Nat /\ SplitEnd(M, team, c) \in 0..M
    BY <1>2, Numbers
  <1>5. /\ row[c] \in SplitStart(M, team, c)..last[c]-1
        /\ last[c] = SplitEnd(M, team, c)
        /\ SplitStart(M, team, c) \in Nat
    <2>1. SplitStart(M, team, c) \in Nat
      BY <1>2, Numbers
    <2>2. last[c] = SplitEnd(M, team, c) /\ row[c] \in SplitStart(M, team, c)..last[c]
      BY <1>2 DEF Sharing
    <2>3. QED
      BY <1>1, <1>4, <2>1, <2>2
  <1>6. row[c] \in 0..M-1
    BY <1>4, <1>5
  <1>7. sum[c] = PartialSum(N, row[c], N)
    <2>1. col[c] <= N /\ sum[c] = PartialSum(N, row[c], col[c])
      BY <1>1 DEF Summing
    <2>2. col[c] = N
      BY <1>1, <1>4, <2>1 DEF Typed
    <2>3. QED
      BY <2>1, <2>2
  <1>8. ASSUME NEW d \in begun PROVE row[c] \notin Done(d)
    <2>1. CASE d = c
      BY <2>1, <1>5, <1>6 DEF Done
    <2>2. CASE d # c
      <3>1. row[c] \notin SplitStart(M, team, d)..last[d]-1
        BY <1>2, <1>5, <2>2, SharesApart
      <3>2. d \in 0..team-1
        BY DEF Typed
      <3>3. /\ SplitStart(M, team, d) \in Nat /\ d \in Call
            /\ SplitEnd(M, team, d) \in Nat
        BY <3>2, Numbers
      <3>4. row[d] <= last[d] /\ row[d] \in Nat /\ last[d] \in Nat
        BY <3>3 DEF Sharing, Typed
      <3>5. QED
        BY <1>6, <3>1, <3>3, <3>4 DEF Done
    <2>3. QED
      BY <2>1, <2>2
  <1>9. output[row[c]] = Stale
    BY <1>3, <1>6, <1>8 DEF Storing
  <1>10. QED
    BY <1>2, <1>3, <1>6, <1>7, <1>8, <1>9

\* The rows the calls are past hold their sums, the others what was there
\* before.
LEMMA StoringNext == Typed /\ Phases /\ Sharing /\ Summing /\ Untouched /\
    Storing /\ [Next]_vars => Storing'
  <1> SUFFICES ASSUME Typed, Phases, Sharing, Summing, Untouched, Storing,
                    [Next]_vars PROVE Storing'
    OBVIOUS
  <1>0. M' = M /\ N' = N /\ (Valid' <=> Valid)
    BY SameArguments
  <1> USE <1>0
  <1>1. CASE Reject
    BY <1>1 DEF Reject, Storing
  <1>2. CASE Dispatch
    <2>1. DOMAIN output = 0..M-1
      BY <1>2 DEF Dispatch, Phases, Valid
    <2>2. \A r \in 0..M-1 : output[r] = Stale
      BY <1>2, <2>1 DEF Dispatch, Untouched
    <2>3. begun' = {} /\ output' = output
      BY <1>2, GemvAssumption DEF Dispatch, forkVars, Phases, Typed
    <2>4. QED
      BY <2>2, <2>3 DEF Storing
  <1>3. CASE RefRow
    BY <1>3 DEF RefRow, Storing
  <1>4. CASE RefAccumulate
    BY <1>4 DEF RefAccumulate, Storing
  <1>5. CASE RefNext
    BY <1>5 DEF RefNext, Storing
  <1>6. CASE RefReturns
    BY <1>6 DEF RefReturns, Storing
  <1>7. ASSUME NEW n \in 1..NumThreads, Parallel(n) PROVE Storing'
    <2>1. begun = {} /\ begun' = {} /\ at = "avx2" /\ output' = output
      BY <1>7 DEF Parallel, Fork!Fork, Typed
    <2>2. QED
      BY <2>1 DEF Storing
  <1>8. CASE ParallelThrows
    <2>1. /\ at = "avx2" /\ output' = output
          /\ UNCHANGED <<begun, team, row>>
      BY <1>8 DEF ParallelThrows, Fork!Throw, rowVars
    <2>2. \A c \in begun : Done(c)' = Done(c)
      BY <2>1 DEF Done
    <2>3. QED
      BY <2>1, <2>2 DEF Storing
  <1>8f. CASE ParallelFails
    BY <1>8f DEF ParallelFails, Storing
  <1>9. CASE Avx2Returns
    BY <1>9 DEF Avx2Returns, Storing
  <1>10. ASSUME NEW c \in Call, Begin(c) PROVE Storing'
    <2>1. /\ c \in 0..team-1 /\ c \notin begun /\ begun' = begun \cup {c}
          /\ team' = team /\ at' = at /\ output' = output
      BY <1>10 DEF Begin, Fork!Begin
    <2>2. SplitStart(M, team, c) \in Nat
      BY <2>1, Numbers
    <2>3. row' = [row EXCEPT ![c] = SplitStart(M, team, c)]
      BY <1>10 DEF Begin
    <2>4. Done(c)' = {}
      <3>1. row'[c] = SplitStart(M, team, c)
        BY <2>3 DEF Typed
      <3>2. M' = M /\ team' = team
        BY <2>1, <1>10 DEF Begin, refVars, M
      <3>3. Done(c)' = SplitStart(M, team, c)..SplitStart(M, team, c)-1
        BY <3>1, <3>2 DEF Done
      <3>4. QED
        BY <2>2, <3>3
    <2>5. \A d \in begun : Done(d)' = Done(d)
      <3>1. \A d \in begun : row'[d] = row[d]
        BY <2>1, <2>3 DEF Typed
      <3>2. M' = M /\ team' = team
        BY <2>1, <1>10 DEF Begin, refVars, M
      <3>3. QED
        BY <3>1, <3>2 DEF Done
    <2>6. QED
      BY <2>1, <2>4, <2>5 DEF Storing
  <1>11. ASSUME NEW c \in Call, NextRow(c) PROVE Storing'
    BY <1>11 DEF NextRow, Storing, Done, forkVars
  <1>12. ASSUME NEW c \in Call, Block(c) PROVE Storing'
    BY <1>12 DEF Block, Storing, Done, forkVars
  <1>13. ASSUME NEW c \in Call, Reduce(c) PROVE Storing'
    BY <1>13 DEF Reduce, Storing, Done, forkVars
  <1>14. ASSUME NEW c \in Call, TailElement(c) PROVE Storing'
    BY <1>14 DEF TailElement, Storing, Done, forkVars
  <1>15. ASSUME NEW c \in Call, Store(c) PROVE Storing'
    <2>1. /\ at = "avx2" /\ row[c] \in 0..M-1 /\ c \in begun
          /\ sum[c] = PartialSum(N, row[c], N)
          /\ \A d \in begun : row[c] \notin Done(d)
      BY <1>15, StoresNewRow
    <2>2. /\ output' = [output EXCEPT ![row[c]] = sum[c]]
          /\ row' = [row EXCEPT ![c] = row[c] + 1]
          /\ at' = at /\ begun' = begun /\ team' = team
      BY <1>15 DEF Store, forkVars
    <2>3. DOMAIN output = 0..M-1
      BY <2>1, Numbers DEF Phases
    <2>4. output'[row[c]] = PartialSum(N, row[c], N)
      BY <2>1, <2>2, <2>3
    <2>5. \A r \in 0..M-1 : r # row[c] => output'[r] = output[r]
      BY <2>2, <2>3
    <2>6. \A d \in begun : d # c => Done(d)' = Done(d)
      BY <2>2 DEF Done, Typed
    <2>7. Done(c)' = Done(c) \cup {row[c]}
      <3>1. row'[c] = row[c] + 1 /\ row[c] \in Nat
        BY <2>2 DEF Typed
      <3>2. c \in 0..team-1
        BY <2>1 DEF Typed
      <3>3. SplitStart(M, team, c) \in Nat /\ row[c] >= SplitStart(M, team, c)
        BY <2>1, <3>2, Numbers DEF Sharing
      <3>4. SplitStart(M, team, c)..(row[c] + 1) - 1
              = (SplitStart(M, team, c)..row[c] - 1) \cup {row[c]}
        BY <3>1, <3>3
      <3>5. QED
        BY <2>2, <3>1, <3>4 DEF Done
    <2>8. ASSUME NEW r \in 0..M-1, \A d \in begun : r \notin Done(d)'
          PROVE  output'[r] = Stale
      <3>1. r # row[c] /\ \A d \in begun : r \notin Done(d)
        BY <2>1, <2>6, <2>7, <2>8
      <3>2. QED
        BY <2>1, <2>5, <3>1 DEF Storing
    <2>9. ASSUME NEW r \in 0..M-1, NEW d \in begun, r \in Done(d)'
          PROVE  output'[r] = PartialSum(N, r, N)
      <3>1. CASE r = row[c]
        BY <2>4, <3>1
      <3>2. CASE r # row[c]
        <4>1. r \in Done(d)
          BY <2>6, <2>7, <2>9, <3>2
        <4>2. QED
          BY <2>1, <2>5, <3>2, <4>1 DEF Storing
      <3>3. QED
        BY <3>1, <3>2
    <2>10. QED
      BY <2>2, <2>8, <2>9 DEF Storing
  <1>16. ASSUME NEW c \in Call, End(c) PROVE Storing'
    BY <1>16 DEF End, Fork!End, Storing, Done
  <1>17. CASE UNCHANGED vars
    BY <1>17 DEF vars, Storing, Done, forkVars, rowVars
  <1>18. QED
    BY NextCases, <1>1, <1>2, <1>3, <1>4, <1>5, <1>6, <1>7, <1>8, <1>8f,
       <1>9, <1>10, <1>11, <1>12, <1>13, <1>14, <1>15, <1>16, <1>17

\* A call of the lambda starts or runs only inside gemv_avx2.
LEMMA RunningIn ==
    ASSUME Typed, Phases, Sharing, NEW c \in Call,
           where[c] # "idle" \/ Begin(c)
    PROVE  at = "avx2"
  <1>1. c \in 0..team-1 /\ c \notin ended
    BY DEF Sharing, Active, Begin, Fork!Begin, Typed
  <1>2. team > 0
    BY <1>1, GemvAssumption DEF Typed
  <1>3. c \notin begun => outcome = "pending"
    BY DEF Sharing, Active, Begin, Fork!Begin
  <1>4. at # "threw"
    BY <1>1, <1>3 DEF Phases
  <1>5. QED
    BY <1>1, <1>2, <1>4 DEF Phases

\* The element a scalar loop adds.
LEMMA OneElement ==
    ASSUME NEW r \in Nat, NEW k \in Nat
    PROVE  {Product(r, k)} = Stretch(N, r, k, 1)
  <1>1. {Cell(N, r, k + o) : o \in {0}} = {Cell(N, r, k + 0)}
    OBVIOUS
  <1>2. 0..1-1 = {0} /\ k + 0 = k
    OBVIOUS
  <1>3. QED
    BY <1>1, <1>2, SumsOfRows DEF Stretch

\* gemv_ref sums row after row, column after column.
LEMMA RefSummingNext == Typed /\ Phases /\ Sharing /\ RefSumming /\
    [Next]_vars => RefSumming'
  <1> SUFFICES ASSUME Typed, Phases, Sharing, RefSumming, [Next]_vars PROVE
                    RefSumming'
    OBVIOUS
  <1>0. M' = M /\ N' = N /\ (Valid' <=> Valid)
    BY SameArguments
  <1>a. /\ i \in Nat /\ j \in Nat
        /\ at = "ref" \/ at = "ref_row" => Valid /\ M \in Nat /\ N \in Nat
        /\ Valid => DOMAIN output = 0..M-1
    BY Numbers DEF Typed, Phases
  <1> USE <1>0
  <1>1. CASE Reject
    BY <1>1 DEF Reject, RefSumming
  <1>2. CASE Dispatch
    BY <1>2, <1>a DEF Dispatch, RefSumming, refVars
  <1>3. CASE RefRow
    <2>1. M \in Nat /\ N \in Nat /\ DOMAIN output = 0..M-1 /\ i \in Nat
      BY <1>3, <1>a DEF RefRow, Phases
    <2>2. /\ i' = i /\ i < M /\ j' = 0 /\ at = "ref" /\ at' = "ref_row"
          /\ output' = [output EXCEPT ![i] = EmptyBag]
      BY <1>3 DEF RefRow
    <2>3. output'[i] = PartialSum(N, i, 0)
      BY <2>1, <2>2, SumOfNone
    <2>4. \A r \in 0..M-1 : r < i => output'[r] = output[r]
      BY <2>1, <2>2
    <2>5. QED
      BY <2>1, <2>2, <2>3, <2>4 DEF RefSumming
  <1>4. CASE RefAccumulate
    <2>1. /\ M \in Nat /\ N \in Nat /\ DOMAIN output = 0..M-1
          /\ i \in Nat /\ j \in Nat
      BY <1>4, <1>a DEF RefAccumulate, Phases, Typed
    <2>2. /\ i' = i /\ j < N /\ j' = j + 1 /\ at = "ref_row" /\ at' = at
          /\ output' = [output EXCEPT ![i] =
                                    output[i] (+) SetToBag({Product(i, j)})]
      BY <1>4 DEF RefAccumulate
    <2>3. i < M /\ output[i] = PartialSum(N, i, j)
      BY <2>2 DEF RefSumming
    <2>4. {Product(i, j)} = Stretch(N, i, j, 1)
      BY <2>1, OneElement
    <2>5. output'[i] = output[i] (+) SetToBag({Product(i, j)})
      BY <2>1, <2>2, <2>3
    <2>6. PartialSum(N, i, j) (+) SetToBag(Stretch(N, i, j, 1))
            = PartialSum(N, i, j + 1)
      BY <2>1, SumGrows, 1 \in Nat
    <2>7. output'[i] = PartialSum(N, i, j + 1)
      BY <2>3, <2>4, <2>5, <2>6
    <2>8. \A r \in 0..M-1 : r < i => output'[r] = output[r]
      BY <2>1, <2>2
    <2>9. QED
      BY <2>1, <2>2, <2>3, <2>7, <2>8 DEF RefSumming
  <1>5. CASE RefNext
    <2>1. N \in Nat /\ i \in Nat /\ j \in Nat
      BY <1>5, <1>a DEF RefNext, Phases, Typed
    <2>2. /\ i' = i + 1 /\ j >= N /\ at = "ref_row" /\ at' = "ref"
          /\ output' = output
      BY <1>5 DEF RefNext
    <2>3. j = N /\ output[i] = PartialSum(N, i, N)
      BY <2>1, <2>2 DEF RefSumming
    <2>4. QED
      BY <2>1, <2>2, <2>3 DEF RefSumming
  <1>6. CASE RefReturns
    BY <1>6 DEF RefReturns, RefSumming
  <1>7. ASSUME NEW n \in 1..NumThreads, Parallel(n) PROVE RefSumming'
    BY <1>7 DEF Parallel, RefSumming
  <1>8. CASE ParallelThrows
    BY <1>8 DEF ParallelThrows, RefSumming
  <1>8f. CASE ParallelFails
    BY <1>8f DEF ParallelFails, RefSumming
  <1>9. CASE Avx2Returns
    BY <1>9 DEF Avx2Returns, RefSumming
  <1>10. ASSUME NEW c \in Call, Begin(c) PROVE RefSumming'
    <2>1. at = "avx2" /\ at' = at
      BY <1>10, RunningIn DEF Begin
    <2>2. QED
      BY <2>1 DEF RefSumming
  <1>11. ASSUME NEW c \in Call, NextRow(c) PROVE RefSumming'
    <2>0. where[c] # "idle"
      BY <1>11 DEF NextRow
    <2>1. at = "avx2" /\ at' = at
      BY <1>11, <2>0, RunningIn DEF NextRow
    <2>2. QED
      BY <2>1 DEF RefSumming
  <1>12. ASSUME NEW c \in Call, Block(c) PROVE RefSumming'
    <2>0. where[c] # "idle"
      BY <1>12 DEF Block
    <2>1. at = "avx2" /\ at' = at
      BY <1>12, <2>0, RunningIn DEF Block
    <2>2. QED
      BY <2>1 DEF RefSumming
  <1>13. ASSUME NEW c \in Call, Reduce(c) PROVE RefSumming'
    <2>0. where[c] # "idle"
      BY <1>13 DEF Reduce
    <2>1. at = "avx2" /\ at' = at
      BY <1>13, <2>0, RunningIn DEF Reduce
    <2>2. QED
      BY <2>1 DEF RefSumming
  <1>14. ASSUME NEW c \in Call, TailElement(c) PROVE RefSumming'
    <2>0. where[c] # "idle"
      BY <1>14 DEF TailElement
    <2>1. at = "avx2" /\ at' = at
      BY <1>14, <2>0, RunningIn DEF TailElement
    <2>2. QED
      BY <2>1 DEF RefSumming
  <1>15. ASSUME NEW c \in Call, Store(c) PROVE RefSumming'
    <2>0. where[c] # "idle"
      BY <1>15 DEF Store
    <2>1. at = "avx2" /\ at' = at
      BY <1>15, <2>0, RunningIn DEF Store
    <2>2. QED
      BY <2>1 DEF RefSumming
  <1>16. ASSUME NEW c \in Call, End(c) PROVE RefSumming'
    <2>0. where[c] # "idle"
      BY <1>16 DEF End
    <2>1. at = "avx2" /\ at' = at
      BY <1>16, <2>0, RunningIn DEF End
    <2>2. QED
      BY <2>1 DEF RefSumming
  <1>17. CASE UNCHANGED vars
    BY <1>17 DEF vars, RefSumming, refVars
  <1>18. QED
    BY NextCases, <1>1, <1>2, <1>3, <1>4, <1>5, <1>6, <1>7, <1>8, <1>8f,
       <1>9, <1>10, <1>11, <1>12, <1>13, <1>14, <1>15, <1>16, <1>17

\* Arguments are rejected before anything is stored.
LEMMA UntouchedNext == Typed /\ Phases /\ Sharing /\ Storing /\ Untouched /\
    [Next]_vars => Untouched'
  <1> SUFFICES ASSUME Typed, Phases, Sharing, Storing, Untouched,
                    [Next]_vars PROVE Untouched'
    OBVIOUS
  <1>0. M' = M /\ N' = N /\ (Valid' <=> Valid)
    BY SameArguments
  <1>a. 0..0-1 = {}
    OBVIOUS
  <1> USE <1>0
  <1>1. CASE Reject
    BY <1>1 DEF Reject, Untouched
  <1>2. CASE Dispatch
    BY <1>2 DEF Dispatch, Untouched
  <1>3. CASE RefRow
    BY <1>3 DEF RefRow, Untouched
  <1>4. CASE RefAccumulate
    BY <1>4 DEF RefAccumulate, Untouched
  <1>5. CASE RefNext
    BY <1>5 DEF RefNext, Untouched
  <1>6. CASE RefReturns
    BY <1>6 DEF RefReturns, Untouched
  <1>7. ASSUME NEW n \in 1..NumThreads, Parallel(n) PROVE Untouched'
    BY <1>7 DEF Parallel, Untouched
  <1>8. CASE ParallelThrows
    BY <1>8 DEF ParallelThrows, Untouched
  <1>8f. CASE ParallelFails
    BY <1>8f DEF ParallelFails, Untouched
  <1>9. CASE Avx2Returns
    BY <1>9 DEF Avx2Returns, Untouched
  <1>10. ASSUME NEW c \in Call, Begin(c) PROVE Untouched'
    <2>1. at = "avx2" /\ at' = at
      BY <1>10, RunningIn DEF Begin
    <2>2. QED
      BY <2>1 DEF Untouched
  <1>11. ASSUME NEW c \in Call, NextRow(c) PROVE Untouched'
    <2>0. where[c] # "idle"
      BY <1>11 DEF NextRow
    <2>1. at = "avx2" /\ at' = at
      BY <1>11, <2>0, RunningIn DEF NextRow
    <2>2. QED
      BY <2>1 DEF Untouched
  <1>12. ASSUME NEW c \in Call, Block(c) PROVE Untouched'
    <2>0. where[c] # "idle"
      BY <1>12 DEF Block
    <2>1. at = "avx2" /\ at' = at
      BY <1>12, <2>0, RunningIn DEF Block
    <2>2. QED
      BY <2>1 DEF Untouched
  <1>13. ASSUME NEW c \in Call, Reduce(c) PROVE Untouched'
    <2>0. where[c] # "idle"
      BY <1>13 DEF Reduce
    <2>1. at = "avx2" /\ at' = at
      BY <1>13, <2>0, RunningIn DEF Reduce
    <2>2. QED
      BY <2>1 DEF Untouched
  <1>14. ASSUME NEW c \in Call, TailElement(c) PROVE Untouched'
    <2>0. where[c] # "idle"
      BY <1>14 DEF TailElement
    <2>1. at = "avx2" /\ at' = at
      BY <1>14, <2>0, RunningIn DEF TailElement
    <2>2. QED
      BY <2>1 DEF Untouched
  <1>15. ASSUME NEW c \in Call, Store(c) PROVE Untouched'
    <2>0. where[c] # "idle"
      BY <1>15 DEF Store
    <2>1. at = "avx2" /\ at' = at
      BY <1>15, <2>0, RunningIn DEF Store
    <2>2. QED
      BY <2>1 DEF Untouched
  <1>16. ASSUME NEW c \in Call, End(c) PROVE Untouched'
    <2>0. where[c] # "idle"
      BY <1>16 DEF End
    <2>1. at = "avx2" /\ at' = at
      BY <1>16, <2>0, RunningIn DEF End
    <2>2. QED
      BY <2>1 DEF Untouched
  <1>17. CASE UNCHANGED vars
    BY <1>17 DEF vars, Untouched
  <1>18. QED
    BY NextCases, <1>1, <1>2, <1>3, <1>4, <1>5, <1>6, <1>7, <1>8, <1>8f,
       <1>9, <1>10, <1>11, <1>12, <1>13, <1>14, <1>15, <1>16, <1>17

\* When gemv_avx2 returns every row is past some call: the shares cover them
\* all.
LEMMA MatchesNext == Typed /\ Phases /\ Sharing /\ Storing /\ RefSumming /\
    MatchesReference /\ [Next]_vars => MatchesReference'
  <1> SUFFICES ASSUME Typed, Phases, Sharing, Storing, RefSumming,
                    MatchesReference, [Next]_vars PROVE MatchesReference'
    OBVIOUS
  <1>0. M' = M /\ N' = N /\ (Valid' <=> Valid)
    BY SameArguments
  <1>a. \A r : RowSum(r)' = RowSum(r)
    BY <1>0 DEF RowSum, Product
  <1> USE <1>0
  <1>1. CASE Reject
    BY <1>1 DEF Reject, MatchesReference
  <1>2. CASE Dispatch
    BY <1>2 DEF Dispatch, MatchesReference
  <1>3. CASE RefRow
    BY <1>3 DEF RefRow, MatchesReference
  <1>4. CASE RefAccumulate
    BY <1>4 DEF RefAccumulate, MatchesReference
  <1>5. CASE RefNext
    BY <1>5 DEF RefNext, MatchesReference
  <1>6. CASE RefReturns
    <2>1. M \in Nat /\ i \in Nat /\ i >= M /\ at = "ref" /\ output' = output
      BY <1>6, Numbers DEF RefReturns, Phases, Typed
    <2>2. \A r \in 0..M-1 : output[r] = PartialSum(N, r, N)
      BY <2>1 DEF RefSumming
    <2>3. QED
      BY <1>a, <2>1, <2>2, SumsOfRows DEF MatchesReference
  <1>7. ASSUME NEW n \in 1..NumThreads, Parallel(n) PROVE MatchesReference'
    BY <1>7 DEF Parallel, MatchesReference
  <1>8. CASE ParallelThrows
    BY <1>8 DEF ParallelThrows, MatchesReference
  <1>8f. CASE ParallelFails
    BY <1>8f DEF ParallelFails, MatchesReference
  <1>9. CASE Avx2Returns
    <2>1. /\ at = "avx2" /\ team > 0 /\ ended = 0..team-1 /\ begun = ended
          /\ output' = output /\ team \in Nat
      <3>1. /\ at = "avx2" /\ team > 0 /\ ended = 0..team-1
            /\ output' = output
        BY <1>9 DEF Avx2Returns, Fork!Return
      <3>2. begun \subseteq 0..team-1 /\ ended \subseteq begun /\ team \in Nat
        BY GemvAssumption DEF Typed
      <3>3. QED
        BY <3>1, <3>2
    <2>2. M \in Nat
      BY <2>1, Numbers
    <2>3. ASSUME NEW r \in 0..M-1 PROVE output[r] = PartialSum(N, r, N)
      <3>1. PICK c \in 0..team-1 : r \in Share(M, team, c)
        BY <2>1, <2>2, SharesCover
      <3>2. c \in Call /\ row[c] = SplitEnd(M, team, c)
        BY <2>1, <3>1, Numbers DEF Sharing
      <3>3. c \in begun /\ r \in Done(c)
        BY <2>1, <3>1, <3>2 DEF Done, Share
      <3>4. QED
        BY <2>1, <3>3 DEF Storing
    <2>4. QED
      BY <1>a, <2>1, <2>3, SumsOfRows DEF MatchesReference
  <1>10. ASSUME NEW c \in Call, Begin(c) PROVE MatchesReference'
    <2>1. at = "avx2" /\ at' = at
      BY <1>10, RunningIn DEF Begin
    <2>2. QED
      BY <2>1 DEF MatchesReference
  <1>11. ASSUME NEW c \in Call, NextRow(c) PROVE MatchesReference'
    <2>0. where[c] # "idle"
      BY <1>11 DEF NextRow
    <2>1. at = "avx2" /\ at' = at
      BY <1>11, <2>0, RunningIn DEF NextRow
    <2>2. QED
      BY <2>1 DEF MatchesReference
  <1>12. ASSUME NEW c \in Call, Block(c) PROVE MatchesReference'
    <2>0. where[c] # "idle"
      BY <1>12 DEF Block
    <2>1. at = "avx2" /\ at' = at
      BY <1>12, <2>0, RunningIn DEF Block
    <2>2. QED
      BY <2>1 DEF MatchesReference
  <1>13. ASSUME NEW c \in Call, Reduce(c) PROVE MatchesReference'
    <2>0. where[c] # "idle"
      BY <1>13 DEF Reduce
    <2>1. at = "avx2" /\ at' = at
      BY <1>13, <2>0, RunningIn DEF Reduce
    <2>2. QED
      BY <2>1 DEF MatchesReference
  <1>14. ASSUME NEW c \in Call, TailElement(c) PROVE MatchesReference'
    <2>0. where[c] # "idle"
      BY <1>14 DEF TailElement
    <2>1. at = "avx2" /\ at' = at
      BY <1>14, <2>0, RunningIn DEF TailElement
    <2>2. QED
      BY <2>1 DEF MatchesReference
  <1>15. ASSUME NEW c \in Call, Store(c) PROVE MatchesReference'
    <2>0. where[c] # "idle"
      BY <1>15 DEF Store
    <2>1. at = "avx2" /\ at' = at
      BY <1>15, <2>0, RunningIn DEF Store
    <2>2. QED
      BY <2>1 DEF MatchesReference
  <1>16. ASSUME NEW c \in Call, End(c) PROVE MatchesReference'
    <2>0. where[c] # "idle"
      BY <1>16 DEF End
    <2>1. at = "avx2" /\ at' = at
      BY <1>16, <2>0, RunningIn DEF End
    <2>2. QED
      BY <2>1 DEF MatchesReference
  <1>17. CASE UNCHANGED vars
    <2>1. at' = at /\ status' = status /\ output' = output
      BY <1>17 DEF vars
    <2>2. QED
      BY <1>a, <2>1 DEF MatchesReference
  <1>18. QED
    BY NextCases, <1>1, <1>2, <1>3, <1>4, <1>5, <1>6, <1>7, <1>8, <1>8f,
       <1>9, <1>10, <1>11, <1>12, <1>13, <1>14, <1>15, <1>16, <1>17

-----------------------------------------------------------------------------
(* The theorems *)

\* The invariant holds in every state.
THEOREM Invariant == Safety => []IInv
  <1>1. Init => IInv
    BY InvInit
  <1>2. IInv /\ [Next]_vars => IInv'
    <2> SUFFICES ASSUME IInv, [Next]_vars PROVE IInv'
      OBVIOUS
    <2> USE DEF IInv
    <2>1. Typed' /\ Phases'
      BY TypedNext, PhasesNext
    <2>2. Sharing'
      BY SharingNext
    <2>3. Summing'
      BY SummingNext
    <2>4. Bounded'
      BY <2>1, <2>3, BoundedNext
    <2>5. Storing' /\ RefSumming' /\ Untouched' /\ MatchesReference'
      BY StoringNext, RefSummingNext, UntouchedNext, MatchesNext
    <2>6. QED
      BY <2>1, <2>2, <2>3, <2>4, <2>5
  <1>3. QED
    BY <1>1, <1>2, PTL DEF Safety

\* Whatever the backend, the team and the order its calls run in, a gemv that
\* returned ok has stored the sum of every row: gemv_avx2 agrees with gemv_ref
\* for every shape and every number of lanes and accumulators.
THEOREM GemvMatchesReference == Safety => []MatchesReference
  <1>1. IInv => MatchesReference
    BY DEF IInv
  <1>2. QED
    BY <1>1, Invariant, PTL

\* Calls that run at the same time have no row of the output in common.
THEOREM GemvRowsApart == Safety => []RowsApart
  <1>1. IInv => RowsApart
    <2> SUFFICES ASSUME IInv, NEW c \in Active, NEW d \in Active, c # d,
                        NEW r \in row[c]..last[c]-1
                 PROVE  r \notin row[d]..last[d]-1
      BY DEF RowsApart
    <2> USE DEF IInv
    <2>1. c \in begun /\ d \in begun /\ c \in 0..team-1 /\ d \in 0..team-1
      BY DEF Active, Typed
    <2>2. /\ SplitStart(M, team, c) \in Nat /\ SplitStart(M, team, d) \in Nat
          /\ c \in Call /\ d \in Call
      BY <2>1, Numbers
    <2>3. /\ row[c] \in Nat /\ row[d] \in Nat /\ last[c] \in Nat /\ last[d] \in Nat
          /\ SplitStart(M, team, c) <= row[c] /\ SplitStart(M, team, d) <= row[d]
      BY <2>1, <2>2 DEF Typed, Sharing
    <2>4. r \in SplitStart(M, team, c)..last[c]-1
      BY <2>2, <2>3
    <2>5. r \notin SplitStart(M, team, d)..last[d]-1
      BY <2>1, <2>4, SharesApart
    <2>6. QED
      BY <2>2, <2>3, <2>4, <2>5
  <1>2. QED
    BY <1>1, Invariant, PTL

\* The loads of block and tail stay inside the matrix and the vector.
THEOREM GemvReadsInBounds == Safety => []ReadsInBounds
  <1>1. IInv => ReadsInBounds
    <2>1. IInv => Active \subseteq Call
      <3>1. IInv => /\ begun \subseteq 0..team-1 /\ team \in 0..NumThreads
                    /\ NumThreads \in Nat
        BY GemvAssumption DEF IInv, Typed
      <3>2. QED
        BY <3>1 DEF Active, Call
    <2>2. QED
      BY <2>1 DEF IInv, Bounded, ReadsInBounds
  <1>2. QED
    BY <1>1, Invariant, PTL

\* An infer that returned an error left the output as it was; one that threw
\* left every row as it was or whole, whichever calls were made before; neither
\* has a call still running on its locals.
THEOREM GemvAllOrNothing == Safety => []AllOrNothing
  <1>1. IInv => AllOrNothing
    <2> SUFFICES ASSUME IInv, at \in {"returned", "threw"}
                 PROVE  /\ Active = {}
                        /\ at = "returned" /\ status # "ok" =>
                              \A r \in DOMAIN output : output[r] = Stale
                        /\ at = "threw" =>
                              \A r \in DOMAIN output :
                                  output[r] \in {Stale, RowSum(r)}
      BY DEF AllOrNothing
    <2> USE DEF IInv
    <2>1. Active = {}
      <3>1. team \in Nat /\ (team = 0 => 0..team-1 = {})
        BY GemvAssumption DEF Typed
      <3>2. QED
        BY <3>1 DEF Phases, Typed, Active
    <2>2. at = "returned" /\ status # "ok" =>
            \A r \in DOMAIN output : output[r] = Stale
      BY DEF Untouched
    <2>3. ASSUME at = "threw", NEW r \in DOMAIN output
          PROVE  output[r] \in {Stale, RowSum(r)}
      <3>1. r \in 0..M-1
        BY <2>3 DEF Phases
      <3>2. output[r] = Stale \/ output[r] = PartialSum(N, r, N)
        BY <2>3, <3>1 DEF Storing
      <3>3. QED
        BY <3>2, SumsOfRows
    <2>4. QED
      BY <2>1, <2>2, <2>3
  <1>2. QED
    BY <1>1, Invariant, PTL

\* While gemv_avx2 runs, a row of the output that was stored is never stored
\* again, by whichever call.
THEOREM GemvStoredOnce == Safety => StoredOnce
  <1>1. ASSUME IInv, [Next]_vars, at = "avx2", NEW r \in DOMAIN output,
               output'[r] # output[r]
        PROVE  output[r] = Stale
    <2> USE DEF IInv
    <2>1. CASE \E c \in Call : Store(c)
      <3>1. PICK c \in Call : Store(c)
        BY <2>1
      <3>2. output[row[c]] = Stale
        BY <1>1, <3>1, StoresNewRow
      <3>3. output' = [output EXCEPT ![row[c]] = sum[c]]
        BY <3>1 DEF Store
      <3>4. r = row[c]
        BY <1>1, <3>3
      <3>5. QED
        BY <3>2, <3>4
    <2>2. CASE output' = output
      BY <1>1, <2>2
    <2>3. CASE RefRow \/ RefAccumulate
      BY <1>1, <2>3 DEF RefRow, RefAccumulate
    <2>4. (\E c \in Call : Store(c)) \/ output' = output
            \/ RefRow \/ RefAccumulate
      <3>1. ASSUME NEW n \in 1..NumThreads, Parallel(n) PROVE output' = output
        BY <3>1 DEF Parallel
      <3>2. ASSUME NEW c \in Call,
                   Begin(c) \/ NextRow(c) \/ Block(c) \/ Reduce(c)
                   \/ TailElement(c) \/ End(c)
            PROVE  output' = output
        BY <3>2 DEF Begin, NextRow, Block, Reduce, TailElement, End
      <3>3. ASSUME Reject \/ Dispatch \/ RefNext \/ RefReturns
                   \/ ParallelThrows \/ ParallelFails \/ Avx2Returns
                   \/ UNCHANGED vars
            PROVE  output' = output
        BY <3>3 DEF Reject, Dispatch, RefNext, RefReturns, ParallelThrows,
                    ParallelFails, Avx2Returns, vars
      <3>4. QED
        BY <1>1, NextCases, <3>1, <3>2, <3>3
    <2>5. QED
      BY <2>1, <2>2, <2>3, <2>4
  <1>2. IInv /\ [Next]_vars =>
          [at = "avx2" => \A r \in DOMAIN output :
              output'[r] # output[r] => output[r] = Stale]_vars
    BY <1>1
  <1>3. QED
    BY <1>2, Invariant, PTL DEF Safety, StoredOnce
=============================================================================
