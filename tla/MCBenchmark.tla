----------------------------- MODULE MCBenchmark -----------------------------
(* Small instances of Benchmark for TLC: calls of every operator with rows  *)
(* below, at and above a register of three lanes, tensors that are one and  *)
(* the same, and each kind of bad argument; command lines and values of     *)
(* LINUX_PERF, good and bad.                                                *)
EXTENDS Benchmark

CONSTANT MaxWidth

Call(op, backend, in, out, shape) ==
    [op |-> op, device |-> "cpu", backend |-> backend, given |-> TRUE,
     in |-> in, out |-> out, shape |-> shape, typed |-> TRUE,
     positive |-> TRUE, rotary |-> 0, interleaved |-> TRUE, ids |-> <<>>]

Same(tensors, shape) == [t \in tensors |-> shape]
Vectors == {<<w>> : w \in 0..MaxWidth}
Tables == {<<2, w>> : w \in 0..4} \cup {<<0, 3>>, <<1, 2, 4>>}
MCBackends == {"reference", "automatic", "avx2", "x86_opt"}

UnaryCalls == {Call(op, b, <<"x">>, out, Same({"x", out}, s)) :
    op \in {"scale", "softmax"}, b \in MCBackends, out \in {"x", "out"},
    s \in Vectors \cup Tables}
  \cup {Call("gelu", b, <<"x">>, "x", Same({"x"}, s)) :
    b \in MCBackends, s \in Vectors \cup Tables}
AddCalls == {Call("add", b, <<"x", y>>, out, Same({"x", y, out}, s)) :
    b \in MCBackends, y \in {"x", "y"}, out \in {"x", "y", "out"}, s \in Vectors}
NormCalls == {Call("layer_norm", b, <<"x", "gamma", "beta">>, out,
                   Same({"x", out}, s) @@ Same({"gamma", "beta"}, <<Last(s)>>)) :
    b \in MCBackends, out \in {"x", "out"}, s \in Vectors \cup Tables}
  \cup {Call("layer_norm", b, <<x, "y", "y">>, "y", Same({x, "y"}, <<w>>)) :
    b \in MCBackends, x \in {"x", "y"}, w \in 1..MaxWidth}
RopeCalls == {[Call("rope", b, <<"x">>, "x", [x |-> s])
                  EXCEPT !.rotary = r, !.interleaved = i, !.positive = p] :
    b \in MCBackends, s \in {<<1, 2, 2, 4>>, <<2, 1, 2, 3>>, <<1, 1, 1, 0>>, <<2, 2>>},
    r \in {0, 2, 3, 4, 6}, i \in BOOLEAN, p \in BOOLEAN}
EmbdCalls == {[Call("token_embd", b, <<"x">>, "out",
                    [x |-> <<3, 2>>, out |-> <<n, 2>>]) EXCEPT !.ids = ids] :
    b \in MCBackends, n \in {3}, ids \in [1..3 -> -1..3]}

Sample == {c \in UnaryCalls \cup AddCalls \cup NormCalls \cup RopeCalls \cup EmbdCalls :
    \A t \in DOMAIN c.shape : Numel(c.shape[t]) \in {3, 6, 16}}
BadCalls == {[c EXCEPT !.device = "cuda"] : c \in Sample}
    \cup {[c EXCEPT !.given = FALSE] : c \in Sample}
    \cup {[c EXCEPT !.given = FALSE, !.device = "cuda"] : c \in Sample}
    \cup {[c EXCEPT !.typed = FALSE] : c \in {d \in Sample : d.op # "token_embd"}}
    \cup {[c EXCEPT !.positive = FALSE] : c \in Sample \cap NormCalls}
    \cup {Call(op, b, <<"x">>, "out", [x |-> s, out |-> <<4>>]) :
            op \in {"scale", "softmax"}, b \in MCBackends, s \in {<<>>, <<3>>, <<2, 2>>}}
    \cup {Call("softmax", b, <<"x">>, "x", [x |-> <<>>]) : b \in MCBackends}
    \cup {Call("add", b, <<"x", "y">>, "out", [x |-> <<2>>, y |-> <<3>>, out |-> <<2>>]) :
            b \in MCBackends}
    \cup {Call("layer_norm", b, <<"x", "gamma", "beta">>, "out",
               Same({"x", "out"}, <<2, 2>>) @@ [gamma |-> <<2>>, beta |-> <<n>>]) :
            b \in MCBackends, n \in {1, 4}}

MCCalls == UnaryCalls \cup AddCalls \cup NormCalls \cup RopeCalls \cup EmbdCalls
           \cup BadCalls

A(name, value) == [name |-> name, value |-> value]
Flag(name) == A(name, NoValue)
Perf == <<Flag("--perf")>>

\* Every operator with its default shape, each backend and with --perf; every
\* number of warm-up and timed runs with a shape of its own; every shape; the
\* arguments that are at fault.
Plain == {<<A("--op", op)>> : op \in Ops \cup {"sum"}}
Turned == {<<A("--warmup", w), A("--iters", i)>> : w \in {0, 2}, i \in 0..2}
MCShapes == {<<1>>, <<7>>, <<4, 4>>, <<2, 0>>, <<0, 62>>, <<-1>>, <<63>>, <<2, 2, 3>>,
             <<3, 5>>, <<3, 0, 60>>, <<1, 1, 3, 2>>, <<1, 2, 1, 3>>, <<2, 2, 2, 1, 1>>}
Faulty == {<<>>, Perf, <<Flag("--help")>>, Perf \o <<Flag("--help"), Flag("--op")>>,
           <<Flag("--op")>>, <<A("--op", "add"), A("--iters", -1)>>,
           <<A("--op", "add"), A("--iters", 3)>>, <<A("--op", "add"), A("--iters", 4)>>,
           <<A("--op", "add"), A("--warmup", 64)>>, <<A("--op", "add"), A("--depth", 1)>>,
           <<A("--op", "add"), A("--backend", "cuda")>>,
           <<A("--op", "add"), Flag("--shape")>>}
MCArguments == Faulty \cup {p \o Perf : p \in Plain}
    \cup {p \o <<A("--backend", b)>> : p \in Plain, b \in MCBackends}
    \cup {p \o <<A("--shape", s)>> : p \in Plain, s \in MCShapes}
    \cup {<<A("--op", op)>> \o t \o f :
             op \in {"add", "rope", "matmul"}, t \in Turned, f \in {<<>>, Perf}}

O(key, value) == [key |-> key, value |-> value]
Dump == O("dump", NoValue)
MCEnvironments ==
    {NoValue, <<>>, <<Dump>>, <<O("dump", Text)>>, <<O("named", NoValue), Dump>>,
     <<O("named", <<1>>)>>, <<Dump, O("other", NoValue)>>,
     <<O("cpus", <<1>>), Dump>>, <<O("cpus", <<2>>), Dump>>, <<Dump, O("cpus", NoValue)>>,
     <<O("cpus", <<1, 7>>), O("switch-cpu", NoValue), O("dump", <<2>>)>>,
     <<O("switch-cpu", NoValue), O("cpus", <<1, 7>>), Dump, O("dump", <<2>>)>>}
    \cup {<<O("dump", <<n>>)>> : n \in -1..2}

MCDefaultShape == [rope |-> <<1, 1, 2, 4>>, matmul |-> <<2, 2, 2>>, other |-> <<2, 4>>]
=============================================================================
