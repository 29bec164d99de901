--------------------------- MODULE Configuration ----------------------------
(***************************************************************************)
(* The options of LINUX_PERF as Configuration (include/linux_perf.hpp)     *)
(* parses them: a list of options, applied from left to right, the later   *)
(* ones overwriting what the earlier ones set.  An option is a record of   *)
(* its key and of what follows its equals sign: a list of numbers, NoValue *)
(* without an equals sign, or Text for anything that is not numbers.       *)
(***************************************************************************)
EXTENDS Integers, Sequences, SequencesExt

CONSTANTS Cpu,       \* the CPUs a cpu_set_t has a bit for
          Affinity,  \* the CPUs this process may run on
          NoValue, Text,
          Forever    \* numeric_limits<int64_t>::max(), the limit of a bare dump

ASSUME ConfigurationAssumption ==
    /\ Affinity \subseteq Cpu
    /\ Forever \in Nat /\ NoValue # Text

Option == [key : {"dump", "switch-cpu", "cpus", "named", "number", "other"},
           value : {NoValue, Text} \cup Seq(Int)]

Unset == [dump |-> 0, switchCpu |-> FALSE, mask |-> {}, events |-> 0,
          failed |-> FALSE]

\* A name in the table of find_named_event, or the number of a raw event.
IsNamed(o) == o.key = "named"
IsEvent(o) == (IsNamed(o) \/ o.key = "number") /\ o.value = NoValue

\* What parse_unsigned makes something of.
IsNumbers(v) == v \notin {NoValue, Text}

\* parse_option: it throws (failed) on numbers that are none, on an equals
\* sign after another key, and on a word that is no event.  strtoull negates
\* "-n" modulo 2^64 and the cast to int64_t takes that back.  CPU_SET ignores
\* numbers without a bit.
ParseOption(c, o) ==
    CASE o.key = "dump" /\ o.value = NoValue -> [c EXCEPT !.dump = Forever]
      [] o.key = "dump" /\ IsNumbers(o.value) /\ Len(o.value) = 1 ->
             [c EXCEPT !.dump = o.value[1]]
      [] o.key = "switch-cpu" -> [c EXCEPT !.switchCpu = TRUE, !.mask = Affinity]
      [] o.key = "cpus" /\ IsNumbers(o.value) ->
             [c EXCEPT !.mask = ToSet(o.value) \cap Cpu]
      [] IsEvent(o) -> [c EXCEPT !.events = @ + 1]
      [] OTHER -> [c EXCEPT !.failed = TRUE]

\* The constructor: an exception ends the loop over the options.
Parse(options) ==
    LET parsed[i \in 0..Len(options)] ==
          IF i = 0 THEN Unset
          ELSE IF parsed[i - 1].failed THEN parsed[i - 1]
          ELSE ParseOption(parsed[i - 1], options[i])
    IN parsed[Len(options)]

TraceAllowedOn(c, cpu) == c.mask = {} \/ cpu \in c.mask
=============================================================================
