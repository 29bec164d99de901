------------------------------ MODULE MCMatMul ------------------------------
(* A small instance of MatMul for TLC: tiles of 2 x 4 in blocks of 3 x 8   *)
(* (as in the code, tiles divide a block's columns and not its rows),      *)
(* every 2-D shape up to the bounds, batches of up to two, and one of each *)
(* argument error.                                                         *)
EXTENDS MatMul

CONSTANTS MaxM, MaxK, MaxN

Params(a, b, out) ==
    [ta |-> FALSE, tb |-> FALSE, a |-> a, b |-> b, c |-> out]

TwoD == {Params(<<m, k>>, <<k, n>>, <<m, n>>) :
            m \in 0..MaxM, k \in 0..MaxK, n \in 0..MaxN}
ThreeD == {Params(<<b, m, k>>, <<b, k, n>>, <<b, m, n>>) :
             b \in 0..2, m \in 0..2, k \in 0..2, n \in 0..2}
Flagged == {[Params(<<2, 2>>, <<2, 2>>, <<2, 2>>) EXCEPT !.ta = TRUE],
            [Params(<<2, 2>>, <<2, 2>>, <<2, 2>>) EXCEPT !.tb = TRUE],
            [Params(<<1, 2, 2>>, <<1, 2, 2>>, <<1, 2, 2>>) EXCEPT !.tb = TRUE]}
Bad == {Params(<<2, 3>>, <<2, 2>>, <<2, 2>>),
        Params(<<2, 2>>, <<2, 2>>, <<3, 2>>),
        Params(<<2, 2>>, <<2, 2>>, <<2, 1>>),
        Params(<<2, 2>>, <<2, 2>>, <<1, 2, 2>>),
        Params(<<2, 2>>, <<1, 2, 2>>, <<2, 2>>),
        Params(<<2>>, <<2>>, <<1>>),
        Params(<<2, 2, 2>>, <<1, 2, 2>>, <<2, 2, 2>>),
        Params(<<2, 2, 2>>, <<2, 1, 2>>, <<2, 2, 2>>),
        Params(<<2, 2, 2>>, <<2, 2, 2>>, <<2, 2, 1>>)}

MCArguments == TwoD \cup ThreeD \cup Flagged \cup Bad \cup {NoParams}
MCContexts == {[device |-> "cpu", backend |-> b] :
                  b \in {"automatic", "reference", "avx2", "avx512"}}
              \cup {[device |-> "cuda", backend |-> "avx2"]}
=============================================================================
