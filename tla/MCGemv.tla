------------------------------- MODULE MCGemv -------------------------------
(* A small instance of Gemv for TLC: registers of two lanes, every shape  *)
(* shape up to 4 x 9, and one representative of each argument error.       *)
EXTENDS Gemv

CONSTANTS MaxRows, MaxCols

Tensor(ptr, dtype, shape) == [ptr |-> ptr, dtype |-> dtype, shape |-> shape]
Vector(m) == Tensor(TRUE, "f32", <<m>>)
Matrix(m, n) == Tensor(TRUE, "f32", <<m, n>>)
Params(a, b, out) == [input_a |-> a, input_b |-> b, output |-> out]

Good == {Params(Matrix(m, n), TRUE, Vector(m)) :
            m \in 0..MaxRows, n \in 0..MaxCols}
Bad == {Params(Vector(2), TRUE, Vector(2)),
        Params(Matrix(2, 1), FALSE, Vector(2)),
        Params(Matrix(2, 1), TRUE, Vector(1)),
        Params(Matrix(2, 1), TRUE, Matrix(2, 1)),
        Params(Tensor(FALSE, "f32", <<2, 1>>), TRUE, Vector(2)),
        Params(Matrix(2, 1), TRUE, Tensor(FALSE, "unknown", <<>>))}

MCArguments == Good \cup Bad \cup {NoParams}
MCContexts == {[device |-> "cpu", backend |-> b] :
                  b \in {"automatic", "reference", "avx2", "avx512"}}
              \cup {[device |-> "cuda", backend |-> "avx2"]}
=============================================================================
