-------------------------------- MODULE Gemv --------------------------------
(***************************************************************************)
(* One call of Gemv::infer (src/micro/gemv): the choice of the kernel, the *)
(* checks of the arguments, gemv_ref, and gemv_avx2, which shares the rows *)
(* out over the calls of parallel_nt with splitter.  parallel_nt is the    *)
(* one of ForkJoin, which every build of ParallelNt implements.            *)
(*                                                                         *)
(* A float sum is the bag of the products that went into it: the product   *)
(* of a_data[x] and input_b[k] is the pair <<x, k>>, and adding in another *)
(* order or through several accumulators makes no difference.              *)
(***************************************************************************)
EXTENDS Splitter, Sequences, Bags

CONSTANTS NumThreads,  \* what gemv_avx2 asks parallel_nt for (12)
          Lanes,       \* floats in a vector register (8)
          Accs,        \* accumulators acc0, acc1, ... of a row (8)
          Contexts,    \* the device and backend an operator was built with
          Arguments,   \* the parameters infer may find, NoParams among them
          NoParams,    \* set_input was never called
          Stale        \* what a row of the output held before the call

ASSUME GemvAssumption ==
    NumThreads \in Nat \ {0} /\ Lanes \in Nat \ {0} /\ Accs \in Nat \ {0}

\* A tensor: is there data, its type, its extents.  Parameters hold tensors
\* input_a and output; input_b is TRUE if not null.
Tensors == [ptr : BOOLEAN, dtype : STRING, shape : Seq(Nat)]

ASSUME ArgumentsAssumption ==
    Arguments \ {NoParams} \subseteq
        [input_a : Tensors, input_b : BOOLEAN, output : Tensors]

VARIABLES ctx, params,
          at,          \* where infer is
          status,      \* what it returned
          output,      \* out_data: per row the sum stored, or Stale
          i, j,        \* loop variables of gemv_ref
          team, begun, ended, outcome,   \* parallel_nt
          where,       \* per call of the lambda, the loop it is in
          row, last,   \* per call, i and the end of its share
          col, sum     \* per call, j and what the row's accumulators hold

refVars == <<i, j>>
forkVars == <<team, begun, ended, outcome>>
rowVars == <<where, row, last, col, sum>>
vars == <<ctx, params, at, status, output, refVars, forkVars, rowVars>>

Call == 0..NumThreads-1
Fork == INSTANCE ForkJoin WITH MaxTeam <- NumThreads

M == params.input_a.shape[1]
N == params.input_a.shape[2]

Init ==
    /\ ctx \in Contexts /\ params \in Arguments
    /\ at = "infer" /\ status = "none"
    /\ output = IF params = NoParams \/ params.output.shape = <<>> THEN <<>>
                ELSE [r \in 0..params.output.shape[1]-1 |-> Stale]
    /\ i = 0 /\ j = 0
    /\ Fork!Init
    /\ where = [c \in Call |-> "idle"]
    /\ row = [c \in Call |-> 0] /\ last = [c \in Call |-> 0]
    /\ col = [c \in Call |-> 0] /\ sum = [c \in Call |-> EmptyBag]

\* The checks both kernels start with.
IsMatrix(t, dims) == t.ptr /\ t.dtype = "f32" /\ Len(t.shape) = dims
Accepted ==
    /\ IsMatrix(params.input_a, 2)
    /\ params.input_b
    /\ IsMatrix(params.output, 1)
    /\ params.output.shape[1] = params.input_a.shape[1]

\* infer leaves with an error before a kernel touches anything.
Reject ==
    /\ at = "infer"
    /\ \/ params = NoParams /\ status' = "invalid_argument"
       \/ /\ params # NoParams
          /\ \/ ctx.device # "cpu"
             \/ ctx.backend \notin {"automatic", "reference", "avx2"}
          /\ status' = "unsupported"
       \/ /\ params # NoParams
          /\ ctx.device = "cpu"
          /\ ctx.backend \in {"automatic", "reference", "avx2"}
          /\ ~Accepted
          /\ status' = "invalid_argument"
    /\ at' = "returned"
    /\ UNCHANGED <<ctx, params, output, refVars, forkVars, rowVars>>

Dispatch ==
    /\ at = "infer"
    /\ params # NoParams /\ ctx.device = "cpu"
    /\ \/ ctx.backend \in {"automatic", "reference"} /\ at' = "ref"
       \/ ctx.backend = "avx2" /\ at' = "avx2"
    /\ Accepted
    /\ UNCHANGED <<ctx, params, status, output, refVars, forkVars, rowVars>>

\* The product of element k of row r of the matrix with element k of the
\* vector: the matrix is read at row + k with row = a_data + r * N.
Product(r, k) == <<r * N + k, k>>

-----------------------------------------------------------------------------
(* gemv_ref *)

RefRow ==
    /\ at = "ref" /\ i < M
    /\ output' = [output EXCEPT ![i] = EmptyBag]
    /\ j' = 0 /\ at' = "ref_row"
    /\ UNCHANGED <<ctx, params, status, i, forkVars, rowVars>>

RefAccumulate ==
    /\ at = "ref_row" /\ j < N
    /\ output' = [output EXCEPT ![i] = @ (+) SetToBag({Product(i, j)})]
    /\ j' = j + 1
    /\ UNCHANGED <<ctx, params, at, status, i, forkVars, rowVars>>

RefNext ==
    /\ at = "ref_row" /\ j >= N
    /\ i' = i + 1 /\ at' = "ref"
    /\ UNCHANGED <<ctx, params, status, output, j, forkVars, rowVars>>

RefReturns ==
    /\ at = "ref" /\ i >= M
    /\ status' = "ok" /\ at' = "returned"
    /\ UNCHANGED <<ctx, params, output, refVars, forkVars, rowVars>>

-----------------------------------------------------------------------------
(* gemv_avx2 *)

Parallel(n) ==
    /\ at = "avx2" /\ Fork!Fork(n)
    /\ UNCHANGED <<ctx, params, at, status, output, refVars, rowVars>>

\* parallel_nt throws out of infer, before its first call or between two.
ParallelThrows ==
    /\ at = "avx2" /\ Fork!Throw
    /\ at' = "threw"
    /\ UNCHANGED <<ctx, params, status, output, refVars, rowVars>>

\* parallel_nt hangs or ends the process: its threads did not all start.
ParallelFails ==
    /\ at = "avx2" /\ Fork!Fail
    /\ at' = "failed"
    /\ UNCHANGED <<ctx, params, status, output, refVars, rowVars>>

\* The lambda starts: splitter(M, nthr, ithr, start, end).
Begin(c) ==
    /\ Fork!Begin(c)
    /\ where' = [where EXCEPT ![c] = "rows"]
    /\ row' = [row EXCEPT ![c] = SplitStart(M, team, c)]
    /\ last' = [last EXCEPT ![c] = SplitEnd(M, team, c)]
    /\ UNCHANGED <<ctx, params, at, status, output, refVars, col, sum>>

\* Mutant of NextRow: the accumulators keep the last row.
NextRowUncleared(c) ==
    /\ where[c] = "rows" /\ row[c] < last[c]
    /\ col' = [col EXCEPT ![c] = 0]
    /\ where' = [where EXCEPT ![c] = "blocks"]
    /\ UNCHANGED <<ctx, params, at, status, output, refVars, forkVars,
                   row, last, sum>>

\* The top of the row loop: the accumulators are zeroed.
NextRow(c) ==
    /\ where[c] = "rows" /\ row[c] < last[c]
    /\ sum' = [sum EXCEPT ![c] = EmptyBag]
    /\ col' = [col EXCEPT ![c] = 0]
    /\ where' = [where EXCEPT ![c] = "blocks"]
    /\ UNCHANGED <<ctx, params, at, status, output, refVars, forkVars,
                   row, last>>

\* Columns of a block: accumulator a takes Lanes of them from a * Lanes on.
BlockSize == Lanes * Accs
Offsets == {a * Lanes + l : a \in 0..Accs-1, l \in 0..Lanes-1}

\* Mutant of Block: j + 63 <= N.
BlockTooFar(c) ==
    /\ where[c] = "blocks"
    /\ col[c] + BlockSize - 1 <= N
    /\ sum' = [sum EXCEPT ![c] =
                 @ (+) SetToBag({Product(row[c], col[c] + o) : o \in Offsets})]
    /\ col' = [col EXCEPT ![c] = @ + BlockSize]
    /\ UNCHANGED <<ctx, params, at, status, output, refVars, forkVars,
                   where, row, last>>

\* for (; j + 63 < N; j += 64): every accumulator takes one register of
\* products.
Block(c) ==
    /\ where[c] = "blocks"
    /\ col[c] + BlockSize - 1 < N
    /\ sum' = [sum EXCEPT ![c] =
                 @ (+) SetToBag({Product(row[c], col[c] + o) : o \in Offsets})]
    /\ col' = [col EXCEPT ![c] = @ + BlockSize]
    /\ UNCHANGED <<ctx, params, at, status, output, refVars, forkVars,
                   where, row, last>>

\* The accumulators are added up into result.
Reduce(c) ==
    /\ where[c] = "blocks"
    /\ col[c] + BlockSize - 1 >= N
    /\ where' = [where EXCEPT ![c] = "tail"]
    /\ UNCHANGED <<ctx, params, at, status, output, refVars, forkVars,
                   row, last, col, sum>>

\* Mutant of TailElement: the tail is accumulated in memory, as gemv_ref does.
TailInMemory(c) ==
    /\ where[c] = "tail" /\ col[c] < N
    /\ sum' = [sum EXCEPT ![c] = @ (+) SetToBag({Product(row[c], col[c])})]
    /\ output' = [output EXCEPT ![row[c]] = sum'[c]]
    /\ col' = [col EXCEPT ![c] = @ + 1]
    /\ UNCHANGED <<ctx, params, at, status, refVars, forkVars,
                   where, row, last>>

\* for (; j < N; ++j) result += row[j] * input_b[j];
TailElement(c) ==
    /\ where[c] = "tail" /\ col[c] < N
    /\ sum' = [sum EXCEPT ![c] = @ (+) SetToBag({Product(row[c], col[c])})]
    /\ col' = [col EXCEPT ![c] = @ + 1]
    /\ UNCHANGED <<ctx, params, at, status, output, refVars, forkVars,
                   where, row, last>>

\* Mutant of Store: the row loop does not advance.
StoreAndStay(c) ==
    /\ where[c] = "tail" /\ col[c] >= N
    /\ output' = [output EXCEPT ![row[c]] = sum[c]]
    /\ where' = [where EXCEPT ![c] = "rows"]
    /\ UNCHANGED <<ctx, params, at, status, refVars, forkVars,
                   row, last, col, sum>>

\* out_data[i] = result;
Store(c) ==
    /\ where[c] = "tail" /\ col[c] >= N
    /\ output' = [output EXCEPT ![row[c]] = sum[c]]
    /\ row' = [row EXCEPT ![c] = @ + 1]
    /\ where' = [where EXCEPT ![c] = "rows"]
    /\ UNCHANGED <<ctx, params, at, status, refVars, forkVars,
                   last, col, sum>>

End(c) ==
    /\ where[c] = "rows" /\ row[c] >= last[c]
    /\ Fork!End(c)
    /\ where' = [where EXCEPT ![c] = "idle"]
    /\ UNCHANGED <<ctx, params, at, status, output, refVars,
                   row, last, col, sum>>

\* Mutant of Avx2Returns: infer does not wait for the calls.
Avx2ReturnsEarly ==
    /\ at = "avx2" /\ team > 0
    /\ outcome' = "returned"
    /\ status' = "ok" /\ at' = "returned"
    /\ UNCHANGED <<ctx, params, output, refVars, team, begun, ended, rowVars>>

\* parallel_nt has returned.
Avx2Returns ==
    /\ at = "avx2" /\ Fork!Return
    /\ status' = "ok" /\ at' = "returned"
    /\ UNCHANGED <<ctx, params, output, refVars, rowVars>>

-----------------------------------------------------------------------------
CallStep(c) ==
    \/ Begin(c) \/ NextRow(c) \/ Block(c) \/ Reduce(c) \/ TailElement(c)
    \/ Store(c) \/ End(c)

\* ForkJoin!Resolve.
Resolve ==
    /\ team = 0
    /\ (\E n \in 1..NumThreads : Parallel(n)) \/ ParallelThrows \/ ParallelFails

InferStep ==
    \/ Reject \/ Dispatch
    \/ RefRow \/ RefAccumulate \/ RefNext \/ RefReturns
    \/ Resolve
    \/ Avx2Returns

Next ==
    \/ InferStep
    \/ ParallelThrows
    \/ \E c \in Call : CallStep(c)

Safety == Init /\ [][Next]_vars

\* The calling thread runs; parallel_nt forms a team or comes to nothing, and
\* makes every call of a team run (ForkJoin!Progress).
Fairness == WF_vars(InferStep) /\ \A c \in Call : WF_vars(CallStep(c))

Spec == Safety /\ Fairness

-----------------------------------------------------------------------------
(* Properties *)

Active == begun \ ended

\* What a row of the output is by definition: the product of every column,
\* once.  gemv_ref is the definition of gemv for every other backend.
RowSum(r) == SetToBag({Product(r, k) : k \in 0..N-1})

\* Whatever the backend, the team parallel_nt formed and the order its calls
\* ran in, a gemv that returned ok has stored the sum of every row.
MatchesReference ==
    at = "returned" /\ status = "ok" =>
        \A r \in 0..M-1 : output[r] = RowSum(r)

\* No two calls that run at the same time have a row of the output in common:
\* the lambda stores to out_data without a lock.
RowsApart ==
    \A c, d \in Active :
        c # d => (row[c]..last[c]-1) \cap (row[d]..last[d]-1) = {}

\* The loads of a block and of the tail stay inside the row of the matrix and
\* inside the vector, the accumulators included that read ahead of j.
ReadsInBounds ==
    \A c \in Active : \A p \in BagToSet(sum[c]) :
        p[1] \in 0..M*N-1 /\ p[2] \in 0..N-1

\* A row of the result is stored once and never touched again, although calls
\* of different speed run side by side.
StoredOnce ==
    [][at = "avx2" =>
         \A r \in DOMAIN output :
            output'[r] # output[r] => output[r] = Stale]_vars

\* infer that returned an error left the output as it was.  One that threw, its
\* last calls not made, left every row as it was or whole: none is half summed.
\* Either way no call still runs on the locals of its frame.
AllOrNothing ==
    at \in {"returned", "threw"} =>
        /\ Active = {}
        /\ at = "returned" /\ status # "ok" =>
              \A r \in DOMAIN output : output[r] = Stale
        /\ at = "threw" =>
              \A r \in DOMAIN output : output[r] \in {Stale, RowSum(r)}

\* infer comes back, whichever calls were made before an exception, unless
\* parallel_nt is left with a part of the threads it wanted.
InferReturns ==
    at = "infer" ~> at \in {"returned", "threw"} \/ outcome = "failed"
=============================================================================
