------------------------------- MODULE MatMul -------------------------------
(***************************************************************************)
(* MatMul::infer (src/micro/matmul): C += A * B, in two or three           *)
(* dimensions, by the reference loops or by the AVX2 kernels: blocks of A  *)
(* and B packed into buffers, C computed in register tiles with a scalar   *)
(* kernel at the fringe, and a streaming kernel for a single row.  A       *)
(* number is not represented: an element of C is the sequence of products  *)
(* added to it, a product the offsets of its factors in A and B.           *)
(***************************************************************************)
EXTENDS Naturals, Sequences, SequencesExt

CONSTANTS MC, KC, NC,   \* cache blocks
          MR, NR,       \* register tile
          Lanes,        \* floats in a vector register
          Contexts,     \* device and backend of the Context
          Arguments,    \* what set_input may have been given
          NoParams      \* set_input was not called

ASSUME MatMulAssumption ==
    /\ {MC, KC, NC, MR, NR, Lanes} \subseteq Nat \ {0}
    /\ NR = 2 * Lanes

\* Extents of tensors; every rank but two and three is refused.
Shapes == {shape \in Seq(Nat) : Len(shape) <= 3}

ASSUME ArgumentsAssumption ==
    Arguments \ {NoParams} \subseteq
        [ta : BOOLEAN, tb : BOOLEAN, a : Shapes, b : Shapes, c : Shapes]

VARIABLES context, params, pc, status,
          c,                  \* the output: products added to each element
          h, i, p, j,         \* loop variables
          jc, kb, ic,         \* block origins (kb is pc in the code)
          packedA, packedB    \* offsets in A and B of the packed floats

vars == <<context, params, pc, status, c, h, i, p, j, jc, kb, ic,
          packedA, packedB>>
blockVars == <<jc, kb, ic, packedA, packedB>>
callVars == <<context, params, status>>

Least(x, y) == IF x < y THEN x ELSE y

\* Dimensions as the kernels read them; a 2-D product is a batch of one.
Ranked(n) == /\ Len(params.a) = n /\ Len(params.b) = n /\ Len(params.c) = n
Batch == IF Ranked(3) THEN params.a[1] ELSE 1
M == params.a[Len(params.a) - 1]
K == params.a[Len(params.a)]
N == params.b[Len(params.b)]

\* b.dim(0) == k, c.dim(0) == m ...: what every kernel requires of its shapes.
Conforming ==
    \/ Ranked(2) /\ params.b = <<K, N>> /\ params.c = <<M, N>>
    \/ Ranked(3) /\ params.b = <<Batch, K, N>> /\ params.c = <<Batch, M, N>>

Size(shape) ==
    LET extent(d) == IF d <= Len(shape) THEN shape[d] ELSE 1
    IN extent(1) * extent(2) * extent(3)

Init ==
    /\ context \in Contexts /\ params \in Arguments
    /\ pc = "infer" /\ status = "none"
    /\ c = IF params = NoParams THEN <<>>
           ELSE [o \in 0..Size(params.c) - 1 |-> <<>>]
    /\ h = 0 /\ i = 0 /\ p = 0 /\ j = 0 /\ jc = 0 /\ kb = 0 /\ ic = 0
    /\ packedA = <<>> /\ packedB = <<>>

Return(s) == pc' = "return" /\ status' = s
             /\ UNCHANGED <<context, params, c, h, i, p, j, blockVars>>
Enter(kernel) == pc' = kernel
                 /\ UNCHANGED <<callVars, c, h, i, p, j, blockVars>>

-----------------------------------------------------------------------------
(* infer and the argument checks of the kernels *)

Supported == context.device = "cpu"
             /\ context.backend \in {"automatic", "reference", "avx2"}

Refuse ==
    /\ pc = "infer"
    /\ \/ params = NoParams /\ Return("invalid_argument")
       \/ params # NoParams /\ ~Supported /\ Return("unsupported")

\* matmul_ref: the transpose flags are not looked at.
Reference ==
    /\ pc = "infer" /\ params # NoParams /\ Supported
    /\ context.backend # "avx2"
    /\ IF Conforming THEN Enter("ref") ELSE Return("invalid_argument")

\* matmul_avx2: the flags are refused in two dimensions, ignored in three.
Avx2 ==
    /\ pc = "infer" /\ params # NoParams /\ Supported
    /\ context.backend = "avx2"
    /\ IF ~Conforming \/ (Ranked(2) /\ (params.ta \/ params.tb))
         THEN Return("invalid_argument")
         ELSE Enter(IF Ranked(3) THEN "batched" ELSE IF M = 1 THEN "row"
                    ELSE "packB")

-----------------------------------------------------------------------------
(* Loops over rows: c_row[j] += a[m, p] * b_row[j] for every j *)

\* The products added at o; a store past the output adds o to the domain of c.
At(o) == IF o \in DOMAIN c THEN c[o] ELSE <<>>

\* C with the products of one row, element o getting offset oa of A and, for
\* its column, one of B.
AddRow(row, oa, ob, columns) ==
    LET stored == {row * N + x : x \in columns}
    IN [o \in DOMAIN c \cup stored |->
          IF o \in stored THEN Append(At(o), <<oa, ob + (o - row * N)>>)
          ELSE c[o]]

Columns == 0..N - 1
RowStep(m, q) == AddRow(h * M + m, (h * M + m) * K + q,
                        (h * K + q) * N, Columns)

\* matmul_2d_ref, matmul_3d_ref: for h, for i, for p, a row.
RefLoop ==
    /\ pc = "ref"
    /\ \/ h = Batch /\ Return("ok")
       \/ /\ h < Batch /\ i = M /\ h' = h + 1 /\ i' = 0
          /\ UNCHANGED <<callVars, pc, c, p, j, blockVars>>
       \/ /\ h < Batch /\ i < M /\ p = K /\ i' = i + 1 /\ p' = 0
          /\ UNCHANGED <<callVars, pc, c, h, j, blockVars>>
       \/ /\ h < Batch /\ i < M /\ p < K /\ p' = p + 1
          /\ c' = RowStep(i, p)
          /\ UNCHANGED <<callVars, pc, h, i, j, blockVars>>

\* matmul_3d_avx2: for b_idx, for k, for m, a row.
BatchedLoop ==
    /\ pc = "batched"
    /\ \/ h = Batch /\ Return("ok")
       \/ /\ h < Batch /\ p = K /\ h' = h + 1 /\ p' = 0
          /\ UNCHANGED <<callVars, pc, c, i, j, blockVars>>
       \/ /\ h < Batch /\ p < K /\ i = M /\ p' = p + 1 /\ i' = 0
          /\ UNCHANGED <<callVars, pc, c, h, j, blockVars>>
       \/ /\ h < Batch /\ p < K /\ i < M /\ i' = i + 1
          /\ c' = RowStep(i, p)
          /\ UNCHANGED <<callVars, pc, h, p, j, blockVars>>

\* Mutant of VectorEnd: the last, partial register is taken as a whole one.
VectorEndUp == ((N + Lanes - 1) \div Lanes) * Lanes

\* n & ~7
VectorEnd == (N \div Lanes) * Lanes

\* gemv_avx2_v1: for p, registers of columns, then single ones.
RowLoop ==
    /\ pc = "row"
    /\ \/ p = K /\ Return("ok")
       \/ /\ p < K /\ j >= N /\ p' = p + 1 /\ j' = 0
          /\ UNCHANGED <<callVars, pc, c, h, i, blockVars>>
       \/ /\ p < K /\ j < VectorEnd /\ j' = j + Lanes
          /\ c' = AddRow(0, p, p * N, j..j + Lanes - 1)
          /\ UNCHANGED <<callVars, pc, h, i, p, blockVars>>
       \/ /\ p < K /\ j >= VectorEnd /\ j < N /\ j' = j + 1
          /\ c' = AddRow(0, p, p * N, {j})
          /\ UNCHANGED <<callVars, pc, h, i, p, blockVars>>

-----------------------------------------------------------------------------
(* The blocked kernel: for jc, for pc, pack B, for ic, pack A, tiles *)

nc == Least(NC, N - jc)
kc == Least(KC, K - kb)
mc == Least(MC, M - ic)

\* Mutant of Throw: the failed allocation is reported by a status.
CatchThrow == pc \in {"packB", "packA"} /\ Return("unsupported")

\* A packing buffer cannot be allocated: the exception leaves infer.
Throw ==
    /\ \/ pc = "packB" /\ jc < N /\ kb < K
       \/ pc = "packA" /\ ic < M
    /\ pc' = "threw"
    /\ UNCHANGED <<callVars, c, h, i, p, j, blockVars>>

\* Mutant of PackB: pc goes on from the block of columns before.
PackBUnreset ==
    /\ pc = "packB"
    /\ \/ jc >= N /\ Return("ok")
       \/ /\ jc < N /\ kb >= K /\ jc' = jc + NC
          /\ UNCHANGED <<callVars, pc, c, h, i, p, j, kb, ic, packedA, packedB>>
       \/ /\ jc < N /\ kb < K
          /\ packedB' = [x \in 0..kc * nc - 1 |->
                           (kb + x \div nc) * N + jc + (x % nc)]
          /\ ic' = 0 /\ pc' = "packA"
          /\ UNCHANGED <<callVars, c, h, i, p, j, jc, kb, packedA>>

PackB ==
    /\ pc = "packB"
    /\ \/ jc >= N /\ Return("ok")
       \/ /\ jc < N /\ kb >= K /\ jc' = jc + NC /\ kb' = 0
          /\ UNCHANGED <<callVars, pc, c, h, i, p, j, ic, packedA, packedB>>
       \/ /\ jc < N /\ kb < K
          /\ packedB' = [x \in 0..kc * nc - 1 |->
                           (kb + x \div nc) * N + jc + (x % nc)]
          /\ ic' = 0 /\ pc' = "packA"
          /\ UNCHANGED <<callVars, c, h, i, p, j, jc, kb, packedA>>

\* Mutant of PackA: the block is stored by rows.
PackARows ==
    /\ pc = "packA"
    /\ \/ /\ ic >= M /\ kb' = kb + KC /\ pc' = "packB"
          /\ UNCHANGED <<callVars, c, h, i, p, j, jc, ic, packedA, packedB>>
       \/ /\ ic < M
          /\ packedA' = [x \in 0..mc * kc - 1 |->
                           (ic + x \div kc) * K + kb + (x % kc)]
          /\ i' = 0 /\ j' = 0 /\ pc' = "tile"
          /\ UNCHANGED <<callVars, c, h, p, jc, kb, ic, packedB>>

PackA ==
    /\ pc = "packA"
    /\ \/ /\ ic >= M /\ kb' = kb + KC /\ pc' = "packB"
          /\ UNCHANGED <<callVars, c, h, i, p, j, jc, ic, packedA, packedB>>
       \/ /\ ic < M
          /\ packedA' = [x \in 0..mc * kc - 1 |->
                           (ic + (x % mc)) * K + kb + (x \div mc)]
          /\ i' = 0 /\ j' = 0 /\ pc' = "tile"
          /\ UNCHANGED <<callVars, c, h, p, jc, kb, ic, packedB>>

\* Which kernel computes the tile: micro_kernel_avx2_6x16 has its shape built
\* in, micro_kernel_generic gets it.
TileShape(ib, jb) ==
    IF ib = MR /\ jb = NR THEN <<MR, 2 * Lanes>> ELSE <<ib, jb>>

\* The float at an offset of a packed buffer; "wild" beyond it.
Packed(buffer, x) == IF x \in DOMAIN buffer THEN buffer[x] ELSE "wild"

\* C after a micro kernel: kc products for each element of the tile.
Tile(shape) ==
    LET first == (ic + i) * N + jc + j
        tile == (0..shape[1] - 1) \X (0..shape[2] - 1)
        place == [t \in tile |-> first + t[1] * N + t[2]]
        product(t, q) == <<Packed(packedA, (q - 1) * mc + i + t[1]),
                           Packed(packedB, (q - 1) * nc + j + t[2])>>
        stored == Range(place)
    IN [o \in DOMAIN c \cup stored |->
          IF o \notin stored THEN c[o]
          ELSE LET t == CHOOSE u \in tile : place[u] = o
               IN At(o) \o [q \in 1..kc |-> product(t, q)]]

\* macro_kernel: for i, for j, a tile.
MacroKernel ==
    /\ pc = "tile"
    /\ \/ /\ i >= mc /\ ic' = ic + MC /\ pc' = "packA"
          /\ UNCHANGED <<callVars, c, h, i, p, j, jc, kb, packedA, packedB>>
       \/ /\ i < mc /\ j >= nc /\ i' = i + MR /\ j' = 0
          /\ UNCHANGED <<callVars, pc, c, h, p, blockVars>>
       \/ /\ i < mc /\ j < nc
          /\ c' = Tile(TileShape(Least(MR, mc - i), Least(NR, nc - j)))
          /\ j' = j + NR
          /\ UNCHANGED <<callVars, pc, h, i, p, blockVars>>

Next == Refuse \/ Reference \/ Avx2 \/ RefLoop \/ BatchedLoop \/ RowLoop
        \/ PackB \/ PackA \/ MacroKernel \/ Throw
Spec == Init /\ [][Next]_vars

-----------------------------------------------------------------------------
(* Properties *)

\* The variables have their types: the status is set exactly on return, and
\* every float packed from A or B, and every float stored, is one of its tensor.
TypeOK ==
    /\ context \in Contexts /\ params \in Arguments
    /\ pc \in {"infer", "ref", "batched", "row", "packB", "packA", "tile",
               "return", "threw"}
    /\ status \in {"none", "ok", "invalid_argument", "unsupported"}
    /\ (status = "none") <=> (pc # "return")
    /\ {h, i, p, j, jc, kb, ic} \subseteq Nat
    /\ params # NoParams => DOMAIN c = 0..Size(params.c) - 1
    /\ \A x \in DOMAIN packedA : packedA[x] < Size(params.a)
    /\ \A x \in DOMAIN packedB : packedB[x] < Size(params.b)

\* The products of element o of C = A * B, in the order of p.
Expected(o) ==
    LET row == o \div N
    IN [q \in 1..K |-> <<row * K + q - 1, ((row \div M) * K + q - 1) * N
                                          + (o % N)>>]

\* Whatever kernel runs, each element accumulates its own products in the
\* order of p: packing, blocks, tiles and tails neither skip, repeat nor
\* reorder one, so the kernels agree up to the rounding of one operation.
AccumulatesInOrder ==
    (pc # "infer" /\ status \in {"none", "ok"}) =>
        \A o \in DOMAIN c : IsPrefix(c[o], Expected(o))

\* Status ok means the product is complete.
CompleteWhenOk == status = "ok" => \A o \in DOMAIN c : c[o] = Expected(o)

\* An error leaves the output as it was.
ErrorsChangeNothing ==
    status \in {"invalid_argument", "unsupported"} =>
        \A o \in DOMAIN c : c[o] = <<>>

\* README.md: the call site is independent of the backend (violated: with a
\* transpose flag the reference computes A * B and reports ok, AVX2 refuses).
FlagsRespected ==
    (status = "ok" /\ params # NoParams) => ~params.ta /\ ~params.tb
=============================================================================
