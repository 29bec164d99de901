----------------------------- MODULE Benchmark ------------------------------
(***************************************************************************)
(* The program bench_ops (benchmark/): main parses its arguments, builds   *)
(* the tensors of one operator, and measure() runs it for warm-up, for     *)
(* timing and, with --perf, once more inside a profile.  Each run is the   *)
(* call of Operators.  Next to it any other program that makes one call    *)
(* ("library").  Times and text are left out; gemv and matmul are one step *)
(* here and have modules of their own.                                     *)
(***************************************************************************)
EXTENDS Operators, Configuration

CONSTANTS Arguments,       \* command lines
          Environments,    \* values of LINUX_PERF, NoValue when it is not set
          MaxSize,         \* numeric_limits<size_t>::max()
          DefaultShape, DefaultWarmup, DefaultIters

VARIABLES argv, environment,
          options,   \* what parse_args has made of it
          phase,     \* "library", or in main "start", "warm", "iter", "last"
          exit,      \* "running", then how the process ended
          count,     \* i of the loops of parse_args and measure()
          printed,   \* output[0] as often as reported
          attached,  \* this thread has a CounterGroup
          cpu,       \* where it was constructed
          starved,   \* history: an allocation of main has failed
          scope,     \* a ProfileScope is open
          quota, finished, recorded  \* profiles still to be traced, seen, traced

benchVars == <<argv, environment, options, phase, exit, count, printed,
               starved, attached, cpu, scope, quota, finished, recorded>>
traceVars == <<attached, scope, quota, finished, recorded>>
inputVars == <<argv, environment, cpu>>

-----------------------------------------------------------------------------
(* parse_args *)

Ops == {"add", "gelu", "layer_norm", "matmul", "rope", "scale", "softmax",
        "gemv", "token_embd"}
Backends == {"reference", "automatic", "avx2", "x86_opt"}
IsSize(n) == n \in 0..MaxSize

\* Mutant of Overflows: the size of a float is forgotten.
OverflowsCount(shape) ==
    LET elements[i \in 0..Len(shape)] ==
          IF i = 0 THEN 1
          ELSE IF elements[i - 1] = 0 \/ elements[i - 1] > MaxSize \div shape[i] THEN 0
          ELSE elements[i - 1] * shape[i]
    IN elements[Len(shape)] = 0

\* The second loop of parse_shape; 0 stands for "too large" found earlier.
Overflows(shape) ==
    LET elements[i \in 0..Len(shape)] ==
          IF i = 0 THEN 1
          ELSE IF elements[i - 1] = 0 \/ elements[i - 1] > (MaxSize \div shape[i]) \div 4 THEN 0
          ELSE elements[i - 1] * shape[i]
    IN elements[Len(shape)] = 0

\* Mutant of IsShape: a dimension of 0 is let through.
IsShapeOrEmpty(shape) ==
    /\ \A n \in DOMAIN shape : IsSize(shape[n])
    /\ (\E n \in DOMAIN shape : shape[n] = 0) \/ ~Overflows(shape)

\* What parse_shape lets through; text that is no number is -1.
IsShape(shape) == /\ \A n \in DOMAIN shape : IsSize(shape[n]) /\ shape[n] > 0
                  /\ ~Overflows(shape)

Defaults == [op |-> NoValue, shape |-> <<>>, backend |-> "reference",
             warmup |-> DefaultWarmup, iters |-> DefaultIters, perf |-> FALSE]

\* The arguments are what a shell passes on; the default shapes would have been
\* let through.
ASSUME BenchmarkAssumption ==
    /\ MaxSize \in Nat /\ DefaultWarmup \in Nat /\ DefaultIters \in Nat
    /\ Environments \subseteq Seq(Option) \cup {NoValue}
    /\ \A words \in Arguments :
         /\ words \in Seq(ToSet(words))
         /\ \A n \in DOMAIN words : words[n].name = "--shape"
              => words[n].value = NoValue \/ words[n].value \in Seq(Int) \ {<<>>}
    /\ \A op \in {"rope", "matmul", "other"} :
         DefaultShape[op] \in Seq(Int) \ {<<>>} /\ IsShape(DefaultShape[op])

\* What a turn of the loop over argv may make of an argument; of a wrong one
\* nothing.
Meanings(a) ==
    CASE a.name = "--perf" -> {[options EXCEPT !.perf = TRUE]}
      [] a.name = "--op" /\ a.value # NoValue -> {[options EXCEPT !.op = a.value]}
      [] a.name = "--shape" /\ a.value # NoValue /\ IsShape(a.value) ->
             {[options EXCEPT !.shape = a.value]}
      [] a.name = "--warmup" /\ IsSize(a.value) ->
             {[options EXCEPT !.warmup = a.value]}
      [] a.name = "--iters" /\ IsSize(a.value) ->
             {[options EXCEPT !.iters = a.value]}
      [] a.name = "--backend" /\ a.value \in Backends ->
             {[options EXCEPT !.backend = a.value]}
      [] OTHER -> {}

\* The checks after the loop, and the default shape.
Incomplete == options.op = NoValue \/ options.iters = 0
WithShape == IF options.shape # <<>> THEN options
             ELSE [options EXCEPT !.shape =
                      DefaultShape[IF options.op \in {"rope", "matmul"}
                                     THEN options.op ELSE "other"]]

-----------------------------------------------------------------------------
(* The functions of the operators: tensors and parameters *)

\* Shapes the functions refuse, and those they index without looking.
RopeRefused(s) == Len(s) # 4 \/ s[4] % 2 # 0
Refused(o) == \/ o.op \notin Ops
              \/ o.op = "rope" /\ RopeRefused(o.shape)
              \/ o.op = "matmul" /\ Len(o.shape) \notin {3, 4}
Indexed(o) == CASE o.op = "gemv" -> 2 [] o.op = "token_embd" -> 3 [] OTHER -> 0

LayerNormTensors(s) == [x |-> s, gamma |-> <<Last(s)>>, beta |-> <<Last(s)>>, out |-> s]
MatMulTensors(s) ==
    LET n == Len(s)
        batch == IF n = 4 THEN <<s[1]>> ELSE <<>>
    IN [a |-> batch \o <<s[n - 2], s[n - 1]>>, b |-> batch \o <<s[n - 1], s[n]>>,
        out |-> batch \o <<s[n - 2], s[n]>>]
GemvTensors(s) == [a |-> <<s[1], s[2]>>, out |-> <<s[1]>>]
TokenEmbdTensors(s) == [x |-> SubSeq(s, 1, 3), out |-> <<s[3], s[2]>>]
Tensors(o) == CASE o.op = "add"                  -> [x |-> o.shape, y |-> o.shape, out |-> o.shape]
                [] o.op \in {"scale", "softmax"} -> [x |-> o.shape, out |-> o.shape]
                [] o.op \in {"gelu", "rope"}     -> [x |-> o.shape]
                [] o.op = "layer_norm" -> LayerNormTensors(o.shape)
                [] o.op = "matmul"     -> MatMulTensors(o.shape)
                [] o.op = "gemv"       -> GemvTensors(o.shape)
                [] o.op = "token_embd" -> TokenEmbdTensors(o.shape)
Inputs(op) == CASE op = "add"        -> <<"x", "y">>
                [] op = "layer_norm" -> <<"x", "gamma", "beta">>
                [] OTHER             -> <<"x">>

BenchCall(o) ==
    [op |-> o.op, device |-> "cpu", backend |-> o.backend, given |-> TRUE,
     in |-> Inputs(o.op), out |-> IF o.op \in {"gelu", "rope"} THEN "x" ELSE "out",
     shape |-> Tensors(o), typed |-> TRUE, positive |-> TRUE, rotary |-> 0,
     interleaved |-> TRUE,
     ids |-> IF o.op = "token_embd" THEN [n \in 1..o.shape[3] |-> 0] ELSE <<>>]

\* gemv and matmul, one step: the former stores its sums, the latter adds.
Multiply ==
    /\ pc = "infer" /\ call.op \in {"gemv", "matmul"}
    /\ IF call.backend = "x86_opt" THEN Return("unsupported")
       ELSE /\ pc' = "returned" /\ status' = "ok"
            /\ mem' = [mem EXCEPT !["out"] = [k \in DOMAIN @ |->
                          IF call.op = "gemv" \/ @[k] = Original("out", k)
                            THEN <<"product", k>> ELSE <<"more", @[k]>>]]
            /\ UNCHANGED <<call, row, pass, col, acc>>

-----------------------------------------------------------------------------
(* main and measure *)

Exit(how) == exit' = how

NoCall == [op |-> "none", shape |-> <<>>, out |-> "none"]

\* bench_ops, or another program that makes one call.
BenchInit ==
    /\ \/ Init /\ phase = "library" /\ argv = <<>> /\ environment = NoValue
       \/ /\ phase = "start" /\ argv \in Arguments
          /\ environment \in Environments
          /\ call = NoCall /\ mem = <<>>
          /\ pc = "idle" /\ status = "none"
          /\ row = 0 /\ pass = 0 /\ col = 0 /\ acc = <<>>
    /\ cpu \in Affinity
    /\ options = Defaults /\ exit = "running" /\ count = 0
    /\ printed = <<>> /\ starved = FALSE
    /\ attached = FALSE /\ scope = FALSE
    /\ quota = 0 /\ finished = 0 /\ recorded = 0

\* A turn of the loop over argv; --help ends the process, and so does what an
\* exception brings to main.
ParseArg ==
    /\ phase = "start" /\ exit = "running" /\ count < Len(argv)
    /\ LET a == argv[count + 1]
       IN IF a.name = "--help" THEN Exit("0") /\ UNCHANGED <<options, count>>
          ELSE IF Meanings(a) = {} THEN Exit("1") /\ UNCHANGED <<options, count>>
          ELSE options' \in Meanings(a) /\ count' = count + 1 /\ UNCHANGED exit
    /\ UNCHANGED <<inputVars, phase, printed, starved, traceVars, opVars>>

\* No memory: a vector throws, while the constructor of Tensor does not look at
\* what malloc returned and clears it.
OutOfMemory(how) == starved' = TRUE /\ Exit(how)

\* The tensors of the operator, and what setup() and its parameters need.
Allocate ==
    \/ /\ phase' = "warm" /\ UNCHANGED <<exit, starved>>
       /\ call' = BenchCall(options')
       /\ mem' = [t \in DOMAIN call'.shape |-> Fresh(t, call'.shape[t])]
    \/ OutOfMemory("killed") /\ UNCHANGED <<phase, call, mem>>
    \/ OutOfMemory("1") /\ UNCHANGED <<phase, call, mem>>

\* main from there up to measure(): dispatch, the tensors of the operator.
Dispatch ==
    /\ phase = "start" /\ exit = "running" /\ count = Len(argv)
    /\ options' = IF Incomplete THEN options ELSE WithShape
    /\ count' = 0
    /\ IF Incomplete \/ Refused(options')
         THEN Exit("1") /\ UNCHANGED <<phase, call, mem, starved>>
       ELSE IF Len(options'.shape) < Indexed(options')
         THEN Exit("undefined") /\ UNCHANGED <<phase, call, mem, starved>>
       ELSE Allocate
    /\ UNCHANGED <<inputVars, printed, traceVars, pc, status, row, pass, col, acc>>

Turns == CASE phase = "warm" -> options.warmup
           [] phase = "iter" -> options.iters
           [] phase = "last" -> 1
           [] OTHER          -> 0
Measuring == phase \in {"warm", "iter", "last"} /\ exit = "running"

\* Mutant of Setup: only gelu and rope are reset.
SetupInPlace == IF call.op \in {"gelu", "rope"}
                  THEN [mem EXCEPT ![call.out] = Fresh(call.out, Shape(call.out))]
                  ELSE mem

\* setup(): the input of an in-place operator, zeros for a product.  Doing it
\* twice, as a profiled iteration does, is doing it once.
Setup == IF call.op \in {"gelu", "rope", "gemv", "matmul"}
           THEN [mem EXCEPT ![call.out] = Fresh(call.out, Shape(call.out))]
           ELSE mem

Profiled == options.perf /\ phase # "warm"

\* LINUX_PERF is read and its options parsed when the first profile is made;
\* its dump option then is the quota of this thread's group.
Config == Parse(environment)
Tracing == Config.dump # 0 /\ TraceAllowedOn(Config, cpu)

BeginRun ==
    /\ Measuring /\ pc = "idle" /\ count < Turns
    /\ mem' = Setup
    /\ IF Profiled /\ environment # NoValue
         THEN IF Config.failed
           THEN Exit("1") /\ UNCHANGED <<traceVars, pc>>
           ELSE /\ attached' = TRUE /\ scope' = TRUE
                /\ quota' = IF attached THEN quota ELSE Config.dump
                /\ pc' = "infer"
                /\ UNCHANGED <<exit, finished, recorded>>
         ELSE pc' = "infer" /\ UNCHANGED <<exit, traceVars>>
    /\ UNCHANGED <<inputVars, options, phase, count, printed, starved,
                   call, status, row, pass, col, acc>>

\* Mutant of FinishScope: the last profile of the quota is lost.
FinishScopeOneShort ==
    /\ scope' = FALSE /\ UNCHANGED attached
    /\ finished' = finished + (IF scope THEN 1 ELSE 0)
    /\ IF scope /\ Tracing /\ quota # 1
         THEN recorded' = recorded + 1 /\ quota' = quota - 1
         ELSE UNCHANGED <<recorded, quota>>

\* ~ProfileScope, also when run() throws.
FinishScope ==
    /\ scope' = FALSE /\ UNCHANGED attached
    /\ finished' = finished + (IF scope THEN 1 ELSE 0)
    /\ IF scope /\ Tracing /\ quota # 0
         THEN recorded' = recorded + 1 /\ quota' = quota - 1
         ELSE UNCHANGED <<recorded, quota>>

\* run() has its status: anything but ok throws to main.
EndRun ==
    /\ Measuring /\ pc = "returned"
    /\ pc' = "idle" /\ status' = "none"
    /\ IF status = "crashed" THEN Exit("crashed") /\ UNCHANGED <<count, traceVars>>
       ELSE /\ FinishScope
            /\ IF status = "ok" THEN count' = count + 1 /\ UNCHANGED exit
                                ELSE Exit("1") /\ UNCHANGED count
    /\ UNCHANGED <<inputVars, options, phase, printed, starved,
                   call, mem, row, pass, col, acc>>

\* More times than a vector of doubles can hold.
TooMany == options.iters > (MaxSize \div 2) \div 8

\* After the warm-up, times.reserve(): it throws length_error or bad_alloc.
Reserve ==
    \/ ~TooMany /\ phase' = "iter" /\ UNCHANGED <<exit, starved>>
    \/ TooMany /\ Exit("1") /\ UNCHANGED <<phase, starved>>
    \/ ~TooMany /\ OutOfMemory("1") /\ UNCHANGED phase

\* A loop of measure() is through; after the timed one the results are printed.
EndLoop ==
    /\ Measuring /\ pc = "idle" /\ count = Turns
    /\ count' = 0
    /\ printed' = IF phase = "iter" THEN <<Load(call.out, 0)>> ELSE printed
    /\ IF phase = "warm" THEN Reserve
       ELSE IF phase = "iter" /\ options.perf
         THEN phase' = "last" /\ UNCHANGED <<exit, starved>>
       ELSE Exit("0") /\ UNCHANGED <<phase, starved>>
    /\ UNCHANGED <<inputVars, options, traceVars,
                   call, pc, status, mem, row, pass, col, acc>>

Main == ParseArg \/ Dispatch \/ BeginRun \/ EndRun \/ EndLoop
Operator == /\ IF call.op \in {"gemv", "matmul"} THEN Multiply ELSE Step
            /\ UNCHANGED benchVars
BenchNext == Main \/ Operator

allVars == <<opVars, benchVars>>
BenchSpec == BenchInit /\ [][BenchNext]_allVars /\ WF_allVars(BenchNext)

-----------------------------------------------------------------------------
(* What the program promises *)

\* output[0] is the result of one run on the filled input, however many runs,
\* warm or profiled, there were before it.
PrintedIsOneRun == printed # <<>> => printed = <<Result(0)>>

\* The check of --shape bounds every tensor the operators derive from it: the
\* bytes malloc is asked for never wrap.
TensorsFit ==
    Measuring => \A t \in DOMAIN call.shape : Numel(Shape(t)) * 4 <= MaxSize

\* What of a command makes it end with a nonzero status.
Objection ==
    \/ phase = "start" /\ \E n \in DOMAIN argv :
         argv[n].name # "--help" /\ Meanings(argv[n]) = {}
    \/ Incomplete \/ TooMany \/ Refused(options)
    \/ call # NoCall /\ Refusal = "unsupported"
    \/ options.perf /\ environment # NoValue /\ Config.failed

\* Status 0 means help, or results of a command that nothing was wrong with; 1
\* that arguments, backend or LINUX_PERF are at fault or an allocation failed,
\* and that nothing was printed.  What parse_shape lets through crashes no
\* operator, and a signal comes from a failed malloc only.  Nothing is said of
\* a command with which gemv or token_embd reads past the end of the shape.
EndsAsDocumented ==
    /\ exit = "0" => \/ \E n \in DOMAIN argv : argv[n].name = "--help"
                     \/ printed # <<>> /\ ~Objection /\ ~starved
    /\ exit = "1" => printed = <<>> /\ (Objection \/ starved)
    /\ exit = "killed" => starved
    /\ exit # "crashed"

\* The place of the last option with one of these keys, 0 without any.
LastGiven(keys) ==
    LET given == {n \in DOMAIN environment : environment[n].key \in keys}
    IN IF given = {} THEN 0 ELSE Max(given)

\* Of the profiles that ended, the first N are traced: N is the last dump
\* option (all for a negative one, Forever for a bare one), 0 where the last of
\* the cpus and switch-cpu options leaves this CPU out.  A cpus option without a
\* CPU that exists leaves none out.
TraceFollowsOptions ==
    attached =>
    LET dump == LastGiven({"dump"})
        limit == environment[dump].value
        mask == LastGiven({"cpus", "switch-cpu"})
        allowed == IF environment[mask].key = "switch-cpu" THEN Affinity
                   ELSE ToSet(environment[mask].value) \cap Cpu
        admitted == mask = 0 \/ allowed = {} \/ cpu \in allowed
    IN recorded = IF dump = 0 \/ ~admitted THEN 0
                  ELSE IF limit = NoValue THEN Min({finished, Forever})
                  ELSE IF limit[1] < 0 THEN finished
                  ELSE Min({finished, limit[1]})

\* Every call returns and every bench_ops ends.
Ends == <>(IF phase = "library" THEN pc = "returned" ELSE exit # "running")
=============================================================================
