----------------------------- MODULE Operators ------------------------------
(***************************************************************************)
(* One call of infer() on an operator that works row by row: add, scale,   *)
(* gelu, softmax, layer_norm, rope (src/micro) and token_embd (src/macro). *)
(* Each makes one or more passes over a row, the AVX2 kernels in registers *)
(* of Lanes columns with a scalar tail.  A float is a term: the element it *)
(* was, or what was computed from which elements; a sum or a maximum is    *)
(* the bag or the set of what went into it.  Rounding and the polynomials  *)
(* of the AVX2 versions of exp and tanh are left out.                      *)
(***************************************************************************)
EXTENDS Integers, Sequences, SequencesExt

CONSTANTS Lanes,  \* floats in a vector register
          Calls   \* the calls a program may make

ASSUME LanesAssumption == Lanes \in Nat \ {0}

RowWise == {"softmax", "layer_norm"}
Elementwise == {"add", "scale", "gelu"}

\* compute_numel: the product of the dimensions.
Numel(shape) ==
    LET num[i \in 0..Len(shape)] == IF i = 0 THEN 1 ELSE num[i - 1] * shape[i]
    IN num[Len(shape)]

\* What a call consists of: tensors by name, each with its shape, which of them
\* are operands (gelu and rope have one, and work in place) and numbers of the
\* right types.  Of token_embd the caller sees to it that the table holds the
\* rows its shape speaks of and that the output, another tensor, holds a row for
\* each id.
Operands(op) == CASE op = "add" -> 2 [] op = "layer_norm" -> 3 [] OTHER -> 1
HasRows(c) ==
    LET table == c.shape[c.in[1]]
    IN /\ c.out # c.in[1] /\ Len(table) >= 2 /\ table[1] * table[2] <= Numel(table)
       /\ c.ids \in Seq(Int) /\ Numel(c.shape[c.out]) = Len(c.ids) * table[2]
IsCall(c) ==
    /\ c.op \in RowWise \cup Elementwise \cup {"rope", "token_embd"}
    /\ c.shape \in [DOMAIN c.shape -> Seq(Nat)] /\ c.out \in DOMAIN c.shape
    /\ Len(c.in) = Operands(c.op) /\ c.in \in Seq(DOMAIN c.shape)
    /\ c.op \in {"gelu", "rope"} => c.out = c.in[1]
    /\ c.op = "token_embd" => HasRows(c)
    /\ c.rotary \in Nat

ASSUME CallsAssumption == \A c \in Calls : IsCall(c)

VARIABLES call,    \* operator, Context and parameters
          pc,      \* "infer", "row", "pass" or "returned"
          status,  \* what infer() returned, or "crashed"
          mem,     \* the tensors: a function of the offset for each
          row, pass, col,
          acc      \* what the passes over this row have summed up

opVars == <<call, pc, status, mem, row, pass, col, acc>>

-----------------------------------------------------------------------------
(* Shapes and operands *)

Shape(t) == call.shape[t]
X == call.in[1]

\* rotary_dim, where 0 means the whole last dimension.
Rotary == IF call.rotary = 0 THEN Last(Shape(X)) ELSE call.rotary

\* Columns of a row, for rope the pairs of a token; elements between rows.
Width == CASE call.op \in Elementwise -> Numel(Shape(call.out))
           [] call.op \in RowWise     -> Last(Shape(X))
           [] call.op = "rope"        -> Rotary \div 2
           [] call.op = "token_embd"  -> Shape(X)[2]
Stride == IF call.op = "rope" THEN Last(Shape(X)) ELSE Width
Rows == CASE call.op \in Elementwise -> 1
          [] call.op \in RowWise     -> Numel(Shape(X)) \div Width
          [] call.op = "rope"        -> Numel(Front(Shape(X)))
          [] call.op = "token_embd"  -> Len(call.ids)
Passes == IF call.op \in RowWise THEN 3 ELSE 1

\* The float at offset k; a load past the end finds garbage.
Original(t, k) == <<"original", t, k>>
Load(t, k) == IF k \in DOMAIN mem[t] THEN mem[t][k] ELSE <<"garbage">>
Fresh(t, shape) == [k \in 0..Numel(shape) - 1 |-> Original(t, k)]

Init ==
    /\ call \in Calls
    /\ pc = "infer" /\ status = "none"
    /\ mem = [t \in DOMAIN call.shape |-> Fresh(t, call.shape[t])]
    /\ row = 0 /\ pass = 0 /\ col = 0 /\ acc = <<>>

-----------------------------------------------------------------------------
(* infer() and the checks of the kernels *)

Return(s) == /\ pc' = "returned" /\ status' = s
             /\ UNCHANGED <<call, mem, row, pass, col, acc>>

Kernels == {"automatic", "reference"}
    \cup CASE call.op = "rope"       -> {}
           [] call.op = "token_embd" -> {"x86_opt"}
           [] OTHER                  -> {"avx2"}

\* The answer of infer() itself; rope looks at the device first, the others
\* at the parameters.
Refusal ==
    LET elsewhere == call.device # "cpu"
    IN IF ~call.given /\ ~(call.op = "rope" /\ elsewhere) THEN "invalid_argument"
       ELSE IF elsewhere \/ call.backend \notin Kernels THEN "unsupported"
       ELSE "none"

\* The checks at the head of the kernels; typed stands for non-null data of
\* type f32, positive for epsilon or base.  token_embd checks nothing here.
SameShapes == \A n \in DOMAIN call.in : Shape(call.in[n]) = Shape(call.out)
SoftmaxAccepted == call.typed /\ Shape(X) # <<>> /\ SameShapes
NormAccepted ==
    /\ call.typed /\ Shape(X) # <<>> /\ Shape(call.out) = Shape(X)
    /\ call.positive
    /\ \A n \in {2, 3} : Numel(Shape(call.in[n])) = Width
RopeAccepted ==
    /\ call.typed /\ Len(Shape(X)) = 4 /\ call.positive /\ call.interleaved
    /\ Rotary % 2 = 0 /\ Rotary \in 1..Last(Shape(X))
Accepted == CASE call.op \in {"add", "scale"} -> call.typed /\ SameShapes
              [] call.op = "gelu"       -> call.typed
              [] call.op = "softmax"    -> SoftmaxAccepted
              [] call.op = "layer_norm" -> NormAccepted
              [] call.op = "rope"       -> RopeAccepted
              [] call.op = "token_embd" -> TRUE

\* numel() / width with a last dimension of 0 kills the process.
Infer ==
    /\ pc = "infer"
    /\ IF Refusal # "none" THEN Return(Refusal)
       ELSE IF ~Accepted THEN Return("invalid_argument")
       ELSE IF call.op \in RowWise /\ Width = 0 THEN Return("crashed")
       ELSE /\ pc' = "row" /\ row' = 0
            /\ UNCHANGED <<call, status, mem, pass, col, acc>>

-----------------------------------------------------------------------------
(* The loops *)

Token == call.ids[row + 1]

\* Mutant of KnownToken: idx > dim(0) for idx >= dim(0).
KnownTokenOrEnd == Token \in 0..Shape(X)[1]

KnownToken == Token \in 0..Shape(X)[1] - 1

\* for row ...: an unknown token ends the call half-way.
BeginRow ==
    /\ pc = "row"
    /\ IF row = Rows THEN Return("ok")
       ELSE IF call.op = "token_embd" /\ ~KnownToken
         THEN Return("invalid_argument")
       ELSE /\ pc' = "pass" /\ pass' = 1 /\ col' = 0
            /\ acc' = [n \in 1..2 |-> EmptyBag]
            /\ UNCHANGED <<call, status, mem, row>>

\* Mutant of Chunk: the loop over the tail does not advance.
ChunkNoTail == IF call.backend = "x86_opt" THEN 0..Width - 1
               ELSE IF call.backend = "avx2" /\ col + Lanes > Width THEN {}
               ELSE IF call.backend = "avx2" THEN col..col + Lanes - 1 ELSE {col}

\* Mutant of Chunk: the vector loop runs while i < width.
ChunkToEnd == IF call.backend = "avx2" THEN col..col + Lanes - 1
              ELSE {col}

\* The columns of one iteration: a register while i + 8 <= width, the row of
\* a memcpy, or a single one.
Chunk == IF call.backend = "x86_opt" THEN 0..Width - 1
         ELSE IF call.backend = "avx2" /\ col + Lanes <= Width
           THEN col..col + Lanes - 1
         ELSE {col}

At(i) == row * Stride + i

\* What the loops compute from column i.
Sum(i) == <<"sum", Load(X, At(i)), Load(call.in[2], At(i))>>
Scaled(i) == <<"scaled", Load(X, At(i))>>
Gelu(i) == <<"gelu", Load(X, At(i))>>
TokenRow(i) == Load(X, Token * Width + i)

\* The maximum, the exponentials and their sum, the shares.  The reference
\* starts from x[0] and at 1; as a set the maximum is the same.
Maximum == BagToSet(acc[1])
Exp(v, maximum) == <<"exp", v, maximum>>
Softmax(i) ==
    LET x == Load(X, At(i))
    IN CASE pass = 1 -> x
         [] pass = 2 -> Exp(x, Maximum)
         [] pass = 3 -> <<"share", Load(call.out, At(i)), acc[2]>>

\* The mean, the variance, the output.
LayerNorm(i) ==
    LET x == Load(X, At(i))
    IN CASE pass = 1 -> x
         [] pass = 2 -> <<"square", x, acc[1]>>
         [] pass = 3 -> <<"norm", x, acc[1], acc[2],
                          Load(call.in[2], i), Load(call.in[3], i)>>

Value(i) == CASE call.op = "add"        -> Sum(i)
              [] call.op = "scale"      -> Scaled(i)
              [] call.op = "gelu"       -> Gelu(i)
              [] call.op = "softmax"    -> Softmax(i)
              [] call.op = "layer_norm" -> LayerNorm(i)
              [] call.op = "token_embd" -> TokenRow(i)

\* Mutant of Rotated: the second element is computed from the stored first.
RotatedLate(i) ==
    LET x0 == Load(X, At(2 * i))  x1 == Load(X, At(2 * i + 1))
        first == <<"cos-sin", x0, x1, row % Shape(X)[3], i>>
    IN [k \in {At(2 * i), At(2 * i + 1)} |-> IF k = At(2 * i) THEN first
            ELSE <<"sin+cos", first, x1, row % Shape(X)[3], i>>]

\* A pair of rope, turned by an angle that position and pair determine.
Rotated(i) ==
    LET x0 == Load(X, At(2 * i))  x1 == Load(X, At(2 * i + 1))
    IN [k \in {At(2 * i), At(2 * i + 1)} |->
          <<IF k = At(2 * i) THEN "cos-sin" ELSE "sin+cos",
            x0, x1, row % Shape(X)[3], i>>]

Stores == \/ call.op = "softmax" /\ pass > 1
          \/ call.op = "layer_norm" /\ pass = 3
          \/ call.op \notin RowWise
Stored == CASE ~Stores          -> <<>>
            [] call.op = "rope" -> Rotated(col)
            [] OTHER            -> [k \in {At(i) : i \in Chunk} |->
                                       Value(k - At(0))]

\* One iteration of a loop over columns; a store past the end of the output
\* would show as an element too many.
Visit ==
    /\ pc = "pass" /\ col < Width
    /\ LET new == Stored
       IN mem' = [mem EXCEPT ![call.out] = [k \in DOMAIN @ \cup DOMAIN new |->
                     IF k \in DOMAIN new THEN new[k] ELSE @[k]]]
    /\ acc' = IF call.op \in RowWise /\ pass < 3
                THEN [acc EXCEPT ![pass] = @ (+) SetToBag({Value(i) : i \in Chunk})]
                ELSE acc
    /\ col' = col + Cardinality(Chunk)
    /\ UNCHANGED <<call, pc, status, row, pass>>

\* The loop over columns ends: the next pass, or the next row.
EndPass ==
    /\ pc = "pass" /\ col >= Width
    /\ IF pass < Passes THEN /\ pass' = pass + 1 /\ col' = 0
                             /\ UNCHANGED <<pc, row>>
                        ELSE /\ pc' = "row" /\ row' = row + 1
                             /\ UNCHANGED <<pass, col>>
    /\ UNCHANGED <<call, status, mem, acc>>

Step == Infer \/ BeginRow \/ Visit \/ EndPass

-----------------------------------------------------------------------------
(* What the operators promise, in terms of the tensors as they were *)

Was(k) == Original(X, k)
RowOf(k) == LET first == k - (k % Stride) IN first..first + Width - 1
RefAdd(k) == <<"sum", Was(k), Original(call.in[2], k)>>
RefScale(k) == <<"scaled", Was(k)>>
RefGelu(k) == <<"gelu", Was(k)>>
RefSoftmax(k) ==
    LET exp(j) == Exp(Was(j), {Was(n) : n \in RowOf(k)})
    IN <<"share", exp(k), SetToBag({exp(j) : j \in RowOf(k)})>>
RefLayerNorm(k) ==
    LET mean == SetToBag({Was(j) : j \in RowOf(k)})
    IN <<"norm", Was(k), mean, SetToBag({<<"square", Was(j), mean>> : j \in RowOf(k)}),
         Original(call.in[2], k % Stride), Original(call.in[3], k % Stride)>>
RefTokenEmbd(k) == Was(call.ids[k \div Stride + 1] * Width + (k % Stride))
RefRope(k) ==
    LET i == k % Stride
    IN IF i >= Rotary THEN Was(k)
       ELSE <<IF i % 2 = 0 THEN "cos-sin" ELSE "sin+cos",
              Was(k - (i % 2)), Was(k - (i % 2) + 1),
              (k \div Stride) % Shape(X)[3], i \div 2>>

\* Element k of the output, as the reference backend defines it; those of gemv
\* and matmul are the matter of their own modules.
Result(k) == CASE call.op = "add"        -> RefAdd(k)
               [] call.op = "scale"      -> RefScale(k)
               [] call.op = "gelu"       -> RefGelu(k)
               [] call.op = "softmax"    -> RefSoftmax(k)
               [] call.op = "layer_norm" -> RefLayerNorm(k)
               [] call.op = "token_embd" -> RefTokenEmbd(k)
               [] call.op = "rope"       -> RefRope(k)
               [] OTHER -> <<"product", k>>

\* The tensors when the first n elements of the output are done.
DoneUpTo(n) ==
    [t \in DOMAIN mem |-> [k \in 0..Numel(Shape(t)) - 1 |->
        IF t = call.out /\ k < n THEN Result(k) ELSE Original(t, k)]]

\* When infer() returns ok, each element of the output is what the reference
\* defines from the inputs as they were before the call, with every backend,
\* at every width and (but for token_embd) whichever tensors of the call are
\* one and the same; no other element of any tensor has changed.
MatchesReference ==
    status = "ok" => mem = DoneUpTo(Numel(Shape(call.out)))

\* An error changes nothing, except that token_embd has copied the rows of
\* the tokens before the first unknown one, and no part of a later row.
KnownPrefix ==
    LET unknown == {n \in DOMAIN call.ids : call.ids[n] \notin 0..Shape(X)[1] - 1}
    IN IF unknown = {} THEN Len(call.ids) ELSE Min(unknown) - 1
ErrorsKeepPrefix ==
    status \in {"invalid_argument", "unsupported", "crashed"} =>
        mem = DoneUpTo(IF call.op = "token_embd" /\ Refusal = "none"
                         THEN KnownPrefix * Width ELSE 0)
=============================================================================
