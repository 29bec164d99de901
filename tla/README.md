# llm-bricks: a TLA+ verification project

llm-bricks is a C++17 library of CPU operators for LLM inference: tensors,
numerical kernels with a readable reference version and AVX2 versions, a small
parallel runtime, a header for Linux perf counters and traces, and a benchmark
program.  This directory models the parts of it in which order, ownership,
bounds and concurrency decide whether a result is right, checks them with TLC
on small instances and proves the central ones with TLAPS for all sizes.

`tlc -config <run>.cfg <module>.tla` checks a run, `tlapm <module>.tla` a proof.
`PROJECT.json` lists every run with its properties, for each definition the
source lines it stands for, for each property a mutant of the model that breaks
it, and the hazards of the code with the properties that cover them.

## 1. Inventory

| Part | Source | State it keeps | Operations | Interacts with |
|---|---|---|---|---|
| thread pool | include/threadpool.hpp | queue, mutex, condition variable, stop flag, threads | constructor, worker loop, enqueue, destructor | parallel_nt |
| parallel_nt, splitter | include/parallel.hpp | a pool or an OpenMP team for the length of a call | parallel_nt in three builds, splitter | thread pool, gemv |
| tensor | include/tensor.hpp | a malloc'ed buffer, shape, strides, dtype | constructors, copy, move, assignment, destructor, reshape, indexing | every operator |
| operator interface | include/{context,status,base_op,dtype}.hpp, runtime/context.cpp | device and backend of a Context; an operator keeps a reference to it and a pointer to its parameters | set_input, infer: checks, dispatch, kernel | tensor, parallel_nt |
| gemv | src/micro/gemv | loop variables, the output | reference kernel; AVX2 kernel on parallel_nt | parallel_nt, splitter |
| matmul | src/micro/matmul | packing buffers, the output | reference loops, blocked AVX2 kernel, batched loop, single-row kernel | tensor |
| rope, softmax, layer_norm | src/micro | the output | passes over rows, AVX2 and tail | tensor |
| gelu, add, scale | src/micro | the output | loops over elements, AVX2 and tail | tensor |
| token_embd | src/macro | the output | copy of table rows by token id | tensor |
| perf tracing: groups, scopes, writer | include/linux_perf.hpp | a counter group per thread, its snapshots and quota, the writer's sinks, the file | profile, flush, register, unregister, destruction of thread-locals and statics | perf_dump.json |
| perf tracing: context switches | include/linux_perf.hpp | ring buffer shared with the kernel, data_tail, running task, slices, try-lock | drain, flush | kernel, writer |
| perf tracing: counter read | include/linux_perf.hpp | perf page shared with the kernel | rdpmc read with retry, system call | kernel |
| perf tracing: configuration | include/linux_perf.hpp | options parsed from LINUX_PERF | parse, event names | environment |
| benchmark | benchmark | arguments, timings | parse, measure, report | operators, perf tracing |

attention, logits_processor and sampler are headers without code.

What is hard to test in it: wake-ups of the pool between an unlock and a
notification, a destructor racing the workers, callables that hold references
to the frame that made them; partial failure (a thread that cannot be started,
an allocation that fails half-way); the order in which threads, thread-locals
and statics die while they share one file; pages and rings that the kernel
changes between two loads; owners of a buffer over copies, moves and failures;
blocks, tiles, shares, registers and tails of loops at sizes that divide
nothing; descriptors that a moved object closes; options that overwrite one
another; resets before each of many runs.

What makes each part correct: the pool loses and repeats no task, never sleeps
on work and is drained by its destructor; parallel_nt makes each call of one
team once and outlives none; the splitter partitions; an operator that returns
ok has computed what its reference defines, and one that reports an error has
changed nothing; a tensor has its buffer to itself and behaves as a value; the
trace holds the first N profiles, once; a drained record is one the kernel
wrote; a counter read is the count at one instant; a file descriptor belongs to
the object that opened it; bench_ops reports the result of one run on the filled
input, ends with the status its README gives and traces what LINUX_PERF asks for.
Where the code falls short of that, section 6 says how.

## 2. Modules and code

| Module | Models | State and actions |
|---|---|---|
| `TaskPool` | what the pool promises | sets of tasks submitted, running, done; Submit, Start, Finish, Close, Closed |
| `ThreadPool` | threadpool.hpp, step by step | a place per thread (`pc`), `tasks`, `queueMutex`, `stop`; one action per critical section or wait: Lock, Wait, Exit, Take, Return of a worker, Enqueue, Push, PushFails, NotifyOne of any thread, Spawn, SpawnFails, SetStop, NotifyAll, Joined of the owner, SpuriousWake |
| `ForkJoin` | what parallel_nt promises | team, calls begun and ended, outcome: returned, threw (calls may be missing, none is at work) or failed (a part of the threads was started) |
| `ParallelNt` | parallel.hpp, all three builds | the caller's place, the OpenMP region, and an instance of `ThreadPool` whose tasks are the calls; a constructor or a push that throws |
| `Splitter` | splitter | operators SplitStart, SplitEnd next to the definition of a fair partition |
| `Gemv` | Gemv::infer | dispatch, argument checks, reference loop, and the lambda of the AVX2 kernel for each call of `ForkJoin`, with `Splitter`'s shares, and each outcome of `ForkJoin`; a sum is the bag of its products |
| `MatMul` | MatMul::infer | dispatch, argument checks, reference and batched loops, packing, blocks and tiles, the single-row kernel, a failing allocation; an element is the sequence of its products |
| `Tensor` | tensor.hpp | variables that may hold a tensor, a heap, failing malloc and vector, pointers to freed buffers (`torn`); one action per special member function, reshape and at() |
| `PerfTrace` | counter groups, profile scopes, TraceWriter | groups, quotas, snapshots, sinks, mutex, the file; Attach, Begin, Finish, the four steps of a flush, unregistration in each destructor |
| `SwitchTimeline` | ContextSwitchTracker | the ring in 8-byte words with wrap-around and LOST records; drain under the try-lock, flush without it, and what the two do to one another; the kernel switches tasks |
| `Rdpmc` | the counter read | one action per load of the page; the kernel counts, and moves and stops the counter in two steps with `lock` odd in between, between any two |
| `Descriptors` | the descriptors of counter groups and of the tracker's monitors | the kernel's table; OpenCounter, Enable, Instance, OpenMonitor, DestroyMoved, Read of each thread |
| `Operators` | infer of add, scale, gelu, softmax, layer_norm, rope, token_embd | one call; Infer (dispatch and checks), BeginRow, Visit (one register, row or column), EndPass; a float is the term it was computed from |
| `Configuration` | the options of LINUX_PERF | operators only: ParseOption, Parse, TraceAllowedOn |
| `Benchmark` | bench_ops: parse_args, main, the functions of the operators, measure | ParseArg, Dispatch, BeginRun, EndRun, EndLoop around the actions of `Operators`; allocations of main fail (`starved`) |

`ParallelNt` composes `ThreadPool` by INSTANCE; it implements `ForkJoin`, over
which `Gemv` is built, so `Gemv` holds for every build. `Benchmark` composes
`Operators`, whose call is the run it measures, and `Configuration`, which
decides what its profiles leave behind; beside bench_ops it has any program that
makes one call ("library"), with arguments bench_ops never passes. Where several
kernels share a definition (the loop over columns, the checks), it is mapped to
one of them. `MC...` modules only give sizes. A body of a lock is one action
where nothing inside it is visible to another thread; every unlocked access is
an action of its own.

Words of the models.  *Undefined* behaviour of C++ is followed where the machine
says what comes of it: a drain and a flush that read one ring each do what their
loads and stores do, a copy assignment left by an exception keeps its dangling
pointer.  Where nothing says it, the behaviour ends: a second free, or a copy
from a null or freed pointer, in `Tensor` (`undefined`), a shape indexed past its
end in `Benchmark` (exit "undefined").  An exception is an outcome ("threw"); a
std::thread that fails after another was started leaves the constructor either
stuck or terminated, as destroying a condition variable with sleepers does
("failed" for those who called it).  malloc that returns null is a signal
("killed"), since Tensor's constructor clears what it got without looking at it.

## 3. Runs

| Run | Shows | Bounds |
|---|---|---|
| `pool` | no task lost or run twice; no lost wake-up although notify_one follows the unlock; stop reaches every sleeper; the destructor drains and returns; the pool implements `TaskPool` with its progress, whichever thread cannot be started and whichever push throws | 3 workers, 4 tasks of which two are enqueued by tasks, one spurious wake-up |
| `parallel_builds` | each build implements `ForkJoin`, progress included; no call outlives the frame it refers to, by return or by exception | 3 threads, requests below, at and above zero |
| `gemv_infer` | both kernels give each row each product once, stored once; shares do not meet; no load leaves a row; errors change nothing, an exception leaves each row whole or as it was; infer comes back unless parallel_nt is left with a part of its threads | 4 x 9, 3 calls, 2 accumulators of 2 lanes |
| `matmul` | every kernel adds each element's own products in the order of the reference, all of them if it returns ok; errors change nothing; packed offsets lie in the tensors | 5 x 3 x 9, batches of 2; tiles of 2 x 4 in blocks of 3 x 8, depth 2 |
| `tensor` | each buffer has one owner, and the pointers that dangle are those an exception left in a copy assignment; a tensor behaves as a value | 2 variables, 3 buffers, rank 0 to 2, two failures |
| `trace` | no registered sink is dead; exactly the first N profiles are recorded, each written once unless it was stored between the copy and the clear of a flush; a sole profiling thread keeps them all, and without dump there is no file; dying threads never wait for one another | 3 threads, 2 profiles each, dump 0 and 1 |
| `timeline` | until a flush comes upon a drain: records are read once and as written, a slice is a period in which its task ran, ended slices never overlap; at all times: data_tail moves back only where a drain and a flush have read the ring together | 2 threads, 3 tasks, a ring of 11 words, 7 instants; once a flush has come upon a drain, 4 instants, 2 records read, one slice |
| `rdpmc` | a read not left on an odd lock is the count at one instant; a profile of two such reads is the exact difference | values of 3 bits, counters of 2, 2 updates of the page |
| `operators` | every kernel of the seven operators stores what the reference defines, in place too; errors change nothing, or keep to the tokens before the unknown one; bench_ops prints the result of one run, allocates nothing whose size wraps, ends, ends as documented (short of memory too; nothing is said of shapes read past their end) and traces the profiles LINUX_PERF asks for | registers of 3 lanes, rows of 0 to 7; 0 to 2 warm-up and timed runs; dump of -1 to 2; 3 CPUs, 2 of them allowed; sizes up to 63 bytes |
| `trace_switch_cpu`, `matmul_flags`, `descriptors` | disagreements of section 6 | 1 thread; 2 x 2 x 2; 2 threads with 2 counters, 3 CPUs |

Why the bounds are enough. Three workers are the least with one asleep, one
about to sleep and one running; tasks that enqueue tasks reach the state in
which the last running worker must still serve the queue. The sizes of the
kernels contain, for each dimension, zero, one, a multiple and a non-multiple of
the block, the tile and the vector; as in the code a tile divides the block in
columns and not in rows. A ring of 11 words holds exactly a LOST and a SWITCH
record (6 and 5 words), so it wraps inside a record, fills to the last word and
overflows.  A drain and a flush that race can read what is left of the ring over
and over; `RaceBound`, a constraint of the run, cuts such behaviours off after
four instants, one slice or two records, by which time data_tail has moved back,
been passed by the kernel and been read again.  A word that is no header is
taken for a record of 0 or 3 words (`Sizes`): 0 ends the loop, 3 leads to any
word. Values of 3 bits wrap at their own width and at that of the counter. Two
profiles against dump=1 exceed the quota, and three threads let two flush or die
at once. Rows of 7 are two registers and a tail of one, rows of 2 a tail only,
rows of 0 no loop at all; two rows show a tail that runs into the next one. Two
runs of an operator are enough to miss a reset, and of the three timed runs that
a vector of doubles can hold in 63 bytes the fourth is too many.  Two failing
allocations tear a tensor and then one it was moved to. 15 floats are few enough
for shapes that fit by their count and not by their bytes. A third CPU makes the
vector of monitors grow a second time, the first time at which it closes a
number again. Bounds on counters (MaxSpurious, MaxProfiles, MaxFailures,
MaxTime, MaxCount, MaxUpdates) are constants and appear in guards only.

Deadlock is not checked by TLC, since every one of these programs ends; that
nothing gets stuck before the end is said by properties (`ImplementsTaskPool`,
`ImplementsForkJoin`, `InferReturns`, `NobodyStuck`, `Ends`).  `descriptors`
asks for its safety property only.

Fairness.  `ThreadPool`, `ParallelNt` and `Gemv` assume weak fairness of each
thread: the operating system runs every thread that can run, and a released
mutex goes to one of the threads that ask for it (calls are finite in number, so
no thread can be passed over for ever).  Nothing obliges a program to enqueue,
to destroy the pool, or a thread or an allocation to fail, and nothing a
constructor left with a part of its threads to end: what `ForkJoin` promises
with `Resolve` is that parallel_nt forms a team, throws or fails, and that a
team makes its calls and returns unless it throws.  `Gemv` takes over just that.
`Benchmark` assumes weak fairness of its only thread: a sequential program that
can take its next step takes it.  `MatMul`, `Tensor`, `PerfTrace`,
`SwitchTimeline`, `Rdpmc` and `Descriptors` state safety only.

## 4. What is proved

The proofs of a module are in `<Module>Proofs`; those of `Rdpmc` are with
`PerfTrace`'s, those of `Operators` and `Configuration` with `Benchmark`'s, whose
specification includes every call of infer().  Each holds for every value of
the constants its assumption admits: any number of threads, tasks, calls, rows,
lanes, profiles, records, and every bound of section 3.

| Proof module | Theorems (property of a run in brackets) | Assumptions |
|---|---|---|
| `ThreadPoolProofs` | `TypeCorrect` (TypeOK), `MutualExclusion` (MutexHeld), `TasksAccounted` (Accounting), `NoLostWakeup` (WorkConserving), `StopReachesAll` (StopSeen), `QueueNeverAbandoned` (QueueServed), `DestructorDrains` (DrainedOnDestroy); `Refinement`: the pool implements the safety part of `TaskPool` | a finite, non-empty set of workers; special values are no threads or tasks |
| `ParallelNtProofs` | `FrameSafe` (FrameOutlivesCalls); `ParallelRefinement`: each of the three builds implements the safety part of `ForkJoin` | the pool has two threads or more; no request asks for more than MaxTeam |
| `GemvProofs`, on the splitter | `SharesPartition`, `SharesBalanced`, `SharesContiguous`, `SharesInRange` | n and the team are natural numbers, the team positive |
| `GemvProofs`, on gemv | `GemvMatchesReference`, `GemvRowsApart`, `GemvReadsInBounds`, `GemvAllOrNothing`, `GemvStoredOnce` (the properties of these names) | threads, lanes and accumulators are positive; extents are natural numbers |
| `MatMulProofs` | `MatMulTypeCorrect` (TypeOK), `MatMulInOrder` (AccumulatesInOrder), `MatMulComplete` (CompleteWhenOk), `MatMulErrorsChangeNothing` (ErrorsChangeNothing) | blocks, tiles and lanes are positive, a whole tile is two registers wide; extents are natural numbers, ranks are three at most |
| `PerfTraceProofs`, on groups and the writer | `SinksAlive` (SinksLive), `FirstProfiles` (FirstProfilesRecorded), `WrittenOnce` (RecordedOnce), `SoleThread` (SoleThreadKeeps) | main is a thread, the special values are not; dump is a natural number |
| `TensorProofs` | `TensorSoleOwner` (SoleOwner), `TensorValueSemantics` (ValueSemantics) | the special values are no addresses; a shape is a sequence of natural numbers |
| `SwitchTimelineProofs` | `RingReadAsWritten` (ReadAsWritten), `TailNeverBack` (TailAdvances), `TimelineTrue` (SlicesTrue), `TimelineDisjoint` (EndedDisjoint) | a ring of at least one word, task 0 is the idle task; any sizes a word may be read as |
| `PerfTraceProofs`, on the counter read | `RdpmcReadsACount` (ReadsACount), `RdpmcDeltaIsExact` (DeltaIsExact) | a counter is narrower than the 64-bit value, in the sense 2 * Half <= Modulus |
| `BenchmarkProofs` | `OutputMatchesReference` (MatchesReference), `ErrorsKeepWhatWas` (ErrorsKeepPrefix), `PrintsOneRun` (PrintedIsOneRun), `TensorsAlwaysFit` (TensorsFit), `EndsAsItShould` (EndsAsDocumented), `TracesAsConfigured` (TraceFollowsOptions) | the four assumptions below |

`BenchmarkProofs` rests on what each module says of its constants.
`LanesAssumption`: a register has a lane.  `ConfigurationAssumption`: the CPUs
of the process are CPUs, and what stands for an absent value or for text is
nothing else.  `CallsAssumption`: a call names as many operands as the
constructor of its parameters takes, tensors that exist, and gelu and rope work
in place because their parameters have one tensor; of token_embd, whose kernels
check nothing but the ids, it asks what they rely on (`HasRows`: an output of
its own with a row for each id, a table with the rows its shape speaks of).
Everything else may be wrong: shapes that do not fit, ranks, types, devices,
backends, ids.  `BenchmarkAssumption`: an argument or an option is what its type
says; a shape on the command line is not empty, as splitting text at commas
never gives nothing; the default shapes would themselves have been let through.
Each is evaluated by TLC in the run `operators`.

None of these properties is inductive as it stands.  Each proof has an invariant
(`IInv`, `VInv`, `Always`, `BenchInv`) that is the conjunction of named parts,
one lemma per part (one step per action), and a theorem `Invariant`; the
properties follow from it.

*Pool.*  What a worker may do depends on its place in the code, and what it
holds is in another variable.  `Positions` ties the two (a worker holds a task
exactly where the code has one in `task`; `stop` is set exactly after the
owner's critical section; workers never started exist only during
construction), `Fresh` says that a task about to be pushed is new.
`WorkConserving` counts: a queued task has a worker awake or a notification
under way for as long as somebody sleeps; each action changes the two sides by
the same amount, and a notifier that finds nobody asleep is excused by the
hypothesis.  A push that throws
puts its task among the refused, which no other set meets, and leaves the queue
as it was.  The refinement maps `running` to the tasks held in the "run" place
and below, and the phase to the owner's place.

*parallel_nt.*  The pool is an instance, so its invariant and its refinement are
instances of the theorems about `ThreadPool`: while the pool lives, a step of
`ParallelNt` is a step of that pool or leaves it alone.  What is added relates
the caller's place to it: tasks are the calls 0 .. nthr-1, pushed in order, and
the pool is destroyed before parallel_nt is left, by which time `TaskPool` says
that all that were pushed are done, also when a push threw and the rest never
were.  Serial and OpenMP builds keep that by themselves.

*Splitter.*  `DivMod` characterises quotient and remainder; the first n % team
shares take one item more, the bounds are then a monotone chain from 0 to n
(`SharesOrdered`), and an item lies between two neighbours (`SharesCover`).

*gemv.*  `Sharing` keeps a call inside its share, `Summing` says that the
accumulators of a row hold the products of the columns before `col`, whichever
of block and tail added them; `BlockIsTiled` is the reason, the lanes of the
registers being the numbers 0 .. BlockSize-1 once each.  `Storing` describes the
output by what each call is past.  As shares do not meet (`SharesPartition`), no
call disturbs another's rows, and when all have ended every row is past.  When
parallel_nt throws, those that have begun have ended: each row is past or not
begun.  Sums
are bags; that the bags of two adjacent stretches add up to the bag of their
union (`SumGrows`) needs no induction, since a stretch holds a product once.

*matmul.*  `Progress` says of every kernel how many products an element has
received, as a function of the loop variables (`RefCount`, `BatchedCount`,
`RowCount`; `BlockCount` with `TileDone` for the blocked kernel): always the
first so many of the reference, which is what AccumulatesInOrder asks for and,
at the end of the loops, what CompleteWhenOk does.  A pass over a row adds the
next product to the elements of that row and to no other (`RowReceived`); a tile
adds the products of one block of K to its elements (`TileStored`, with
`PackedProducts` for what the packed buffers hold there, whatever the height and
width of the last block).  That two elements are one only if row and column are
(`OneCell`) is why nothing else changes.  After an exception the count is not
known, only that there is one.

*Tensor.*  `SoleOwner` counts the owners of a buffer; `IInv` says it of pairs
instead (`NoneLeaks`, `NoneShared`) and of the variables an exception has torn,
and those the stale pointer was moved to since, that they and no others point to
freed memory (`TornDangle`, `NoneDangles`): whatever frees or copies from there
ends the behaviour, and nothing else does so for that reason (`Blamed`).  All
operations come down to four things that can happen to buffers, one lemma each:
kept, replaced, dropped, handed over.

`ValueSemantics` needs to know what the buffer of a variable holds under its
strides (`ArraysStand`), and that in turn what strides are, for every rank.
`Place` is the offset an index has under the strides compute_strides gives.  It
lies below the number of elements (`PlaceBounded`), grows with the row-major
order of the indices (`PlaceOrdered`, so no two of them meet, zeros and ones
among the dimensions included), and is reached by some index for every float of
the buffer (`PlaceOnto`).  Hence the place of an index is the number of indices
before it (`RankIsPlace`): a reshape that keeps the number of elements reads the
same floats in the same order, and memcpy of all floats copies the whole array.

*Trace.*  `Places` is the order of destruction (who is in which destructor, and
what still exists then), `Looping` says that a flush stays within the list and
that only the holder of the mutex is in it.  A sink is alive because it enters
the list when it begins to live and leaves it when it dies (`ListNext`, from
`Registered` and `Removed` about lists without repetition).  `Kept` splits what
a group recorded, less what it stored while a flush stood between its copy of
the group's snapshots and their clearing (the history `kept` leaves just these
out), into what was written and what waits, in the middle of a flush too.
`Sole` follows the file of a process in which one
thread profiles through every place of its exit and of main's.

*Timeline.*  `Framed` says that between data_tail and data_head the ring holds a
row of whole records without a gap, which a history variable lists with their
offsets; the wrap of an offset, also inside a record, is arithmetic about that
row.  `Prefix` says that what drains processed is the beginning of the kernel's
log.  For the slices, `Ordered` and `Alternate` say that the log is in the order
of time and alternates between in and out of one CPU as long as nothing was
lost, `Current` what the tracker believes runs, `CaughtUp` and `EndedPast` that
it has read everything up to the time of the last slice.  The property
`EndedDisjoint` speaks of slices that end with a switch: those a flush cut off
at its own instant are part of the slice that follows.

All of this (`IInv`) is about the time before a flush comes upon a drain.
`TailAdvances` is about all times and has an invariant of its own (`Always`):
two that read the ring together are both in `raced` until they have stored
data_tail (`Separate`), and whoever reads it alone is not behind data_tail
(`Ahead`), whatever words the ring holds by then.  What is proved is
`Always /\ (~overlap => IInv)`.

*Counter read.*  `PageAddsUp` says that while `lock` is even offset and hardware
counter add up to the count, `CopiesValid` that the same holds of the copies in
the reader's registers as long as the lock it loaded was even and still is the
page's.  A read that is left on an odd lock is in the history `blind`, and of it
nothing is said.  A value is known modulo 2^w: the sign extension of a counter of
width 2 * Half is exact because that divides nothing more than it must.

*Operators and bench_ops.*  `MatchesReference` speaks of the end of a call.
What makes it inductive is a statement about every element at every moment
(`Elements`): before `Here`, the place of the loop variables, it is what the
reference defines; behind it, it is what it was; between the second and the
third pass of softmax it is an exponential.  As input and output may be one
tensor, that also says what the loads of later iterations find.  `Sums` says
what the maximum, the sum and the mean have been taken of, `Counters` what the
checks have let through and how far the loops are.  The columns of one iteration
start where the last one ended and stay in the row (`Iterates`, `Spans`),
whichever of register, tail, memcpy or pair it is; what it stores is what the
reference defines, or the exponential; the rest is kept (`VisitElements`).  Whole
rows fit the tensor because of the checks (`GeometryHolds`): a kernel that has
accepted its shapes has numel() = rows * width.

bench_ops calls the operator many times on one tensor.  `Elements` therefore
lets an element behind `Here` hold the result already, if this operator has run
before and is not one that `Setup` resets; such an operator reads inputs
that are not its output, so it computes the same result again.  `Between` says
that after a run all elements hold the result, `Pristine` that a backend that is
refused has touched none.  `Calling`, `OptionsTyped` and `Progress` say
what main has made of its arguments and which loop of measure() it is in,
`Profiles` that the quota is what the dump option sets less the profiles traced.
`EndsAsDocumented` needs that a call bench_ops makes is refused for its backend
only (`Answers`): its tensors pass every check.  `Places` adds that a main that
runs was given all the memory it asked for, and that it has left the warm-up only
with a number of runs that a vector can hold.  `TensorsFit` bounds products of
some of the dimensions by the product of all of them, which parse_shape has
checked by division (`Overflows`).  `TraceFollowsOptions` says in one sentence
about the last options what the parser does in a loop over all of them.

*Recursive definitions.*  The loops over the dimensions of a shape and over the
options are recursive functions on 0 .. n.  The library's theorems of induction
take a predicate as parameter and cannot be used.  The proofs take a set in its
place: `Least` is that every nonempty set of naturals has a least element, from
the library's theorem that < is well-founded on the naturals, `UpTo` is
induction for a set, `Recursion` that a function defined by such a loop exists,
and from there what it computes follows as for any other loop.

Only model-checked:

- liveness under fairness: `ImplementsTaskPool` and `ImplementsForkJoin` with
  their progress (their safety is proved), `InferReturns`, `Ends`;
- `NobodyStuck`, which speaks of ENABLED, for which the provers have no rules;
- `Descriptors`, whose only property does not hold (section 6).

## 5. Not modelled

- Rounding.  A float sum is a bag (gemv, softmax, layer_norm, whose order
  differs between kernels) or a sequence (matmul, whose order does not), other
  values are terms.  With it go the polynomials of exp, clamped at both ends,
  and of tanh in the AVX2 kernels: how close they come is a question for tests
  on numbers.
- Times and text: what bench_ops measures and prints besides `output[0]`, the
  content and escaping of the trace, names and codes of events.  The tid of a
  profile is that of the thread that writes it (linux_perf.hpp:1103); the file
  of `PerfTrace` holds whose profile it is.
- Tensors of rank four and more as arguments of matmul: every kernel refuses
  them by their rank.
- Memory shared behind the back of an operator: parameters that die before
  infer, an output of gemv or matmul that is one of the inputs, a table of
  token_embd that overlaps its output, an output of token_embd of the wrong
  shape, which nothing checks.
- `Benchmark` makes gemv and matmul in one step (they have modules of their
  own), with threads of gemv that can be started, and leaves the opening of
  counters to `PerfTrace` and `Descriptors`.
- In `Tensor`: random filling, dumping, the text of a shape, reshape to another
  size (an assertion forbids it, with NDEBUG nothing does) or with a vector that
  throws, the product of dimensions wrapping.
- In the tracing header: extra arguments of a profile, the mappings of monitors,
  the descriptors closed a second time when groups and tracker die, what a call
  on a leader's number answers once it is somebody else's file.  Of a drain and
  a flush under way together: a vector of slices that two threads push to or
  clear in the same instant keeps all of them or loses the one pushed; it may as
  well crash.
- The serial build of parallel_nt with no positive nthr: its only caller passes
  12.
- attention, logits_processor and sampler have no code; the unit test, the
  drawing script and the build files keep no state.

The omp build does not compile as a whole: token_embd_opt.hpp:13 returns from
inside an OpenMP loop.  `ParallelNt` models that build of parallel_nt as its
source has it.

## 6. Findings

- `trace_switch_cpu` (linux_perf.hpp:745): with LINUX_PERF=dump=N:switch-cpu
  the tracker's destructor flushes after the groups have, truncates
  perf_dump.json and leaves it without the profiles that benchmark/README.md
  says are recorded.  The same destructor makes a file with switch-cpu alone
  (linux_perf.hpp:740), although that README has none without dump.
- `matmul_flags` (matmul_ref.hpp:29): the reference and the batched kernel
  ignore transpose_a and transpose_b and return ok; the 2-D AVX2 kernel refuses
  them, although the reference is said to define the semantics.
- `descriptors` (linux_perf.hpp:708): the defaulted move of CpuMonitor keeps the
  descriptor in the object moved from, whose destructor closes it.  Each growth
  of the vector of monitors closes those before, and at the next one those
  numbers again, by then perhaps the leader of another thread's group, whose
  next call aborts the process.

Met on the way, without a run; the models have each of these as the code does it,
and the properties say what is left to hold:

- The retry of the rdpmc read (linux_perf.hpp:1014) continues a do-while on an odd
  lock: that goes to the condition at line 1034, which finds the lock unchanged
  and ends the loop.  The read reports success with a value that is 0 or of an
  earlier try.
- A flush drains without drain_lock_ (linux_perf.hpp:676) while another thread may
  be in drain_if_needed: records are read twice, data_tail moves back, and the
  kernel may overwrite what is still to be read.
- operator=(const Tensor&) frees before it copies (tensor.hpp:93): a vector that
  throws leaves a pointer that is freed again by the destructor.  Copying a
  default or moved-from tensor is a memcpy from null (tensor.hpp:81), and a malloc
  that fails is a memset on null (tensor.hpp:37).
- A pool that can start some of its threads and not all neither throws nor
  returns (threadpool.hpp:15): it hangs in the destructor of its condition
  variable or ends the process.
- `bench_ops --op token_embd` with its default shape, or `--op gemv` with one
  dimension, reads past the end of the shape (benchmark/token_embd.cpp:10,
  gemv.cpp:11), although the usage text takes any non-empty shape (main.cpp:18).
  benchmark/README.md:22 does not list the two operators.  `EndsAsDocumented` says
  nothing of such a command.

## 7. Plan

Done: the runtime (`ThreadPool`, `ParallelNt`, `Splitter`), all operators (`Gemv`,
`MatMul`, `Operators`), `Tensor`, the tracing header and the benchmark
(`PerfTrace`, `SwitchTimeline`, `Rdpmc`, `Descriptors`, `Configuration`,
`Benchmark`); every safety property of a run that holds is proved, except the one
that speaks of ENABLED.  What would come next:

1. Extend `Tensor` with the NDEBUG build of reshape and the wrap of the product
   of dimensions; `PerfTrace` with the tid of a profile.
2. Give `MatMul` memory in which the output may be an input.
3. Repair `CpuMonitor` in a copy of `Descriptors` and prove that no descriptor is
   closed twice.
