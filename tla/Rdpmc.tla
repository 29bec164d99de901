------------------------------- MODULE Rdpmc --------------------------------
(***************************************************************************)
(* How a profile of include/linux_perf.hpp reads one counter, at its begin *)
(* and at its end: from user space through the perf page, retrying while   *)
(* the kernel changes it (try_read_one_with_rdpmc), or with a system call. *)
(* The kernel makes lock odd, changes what it guards, and makes it even.   *)
(* The reader does not wait while lock is odd: the "continue" of its       *)
(* do-while goes on to the condition, and if lock is still what it was the *)
(* read is over, with whatever value holds.                                *)
(***************************************************************************)
EXTENDS Integers

CONSTANTS Modulus,     \* how many values CounterValue has (2^64)
          Half,        \* half the values of a counter, 2^(pmc_width - 1)
          Counters,    \* hardware counters, numbered from 1
          MaxCount,    \* bound on the events counted
          MaxUpdates   \* bound on updates of the page by the kernel

ASSUME RdpmcAssumption ==
    /\ Half \in Nat \ {0} /\ Modulus \in Nat /\ 2 * Half <= Modulus
    /\ Counters \in Nat \ {0} /\ MaxCount \in Nat /\ MaxUpdates \in Nat

VARIABLES count,      \* events so far, as the kernel would report them
          page,       \* lock, index, offset and time_enabled = time_running
          raw,        \* the hardware counter, as a signed number
          rdpmc,      \* all_counters_support_rdpmc_
          readPc, sequence, index, offset, value,   \* the reader's locals
          scope,      \* "begin", "end" or "done": the read under way
          first,      \* the snapshot's counter after begin_snapshot
          delta,      \* and after finish_snapshot
          readAt,     \* history: count when begin and end were read
          blind       \* history: the reads that ended on an odd lock

readVars == <<count, page, raw, rdpmc, readPc, sequence, index, offset, value,
              scope, first, delta, readAt, blind>>
locals == <<sequence, index, offset>>

Odd(lock) == lock % 2 = 1

\* The page when the counter sits at index i and holds r: offset + r is count.
Published(lock, i, r, counting) ==
    [lock |-> lock, index |-> i, counting |-> counting,
     offset |-> (count - (IF i = 0 THEN 0 ELSE r)) % Modulus]

ReadInit ==
    /\ count \in 0..MaxCount   \* the group counts since the thread attached
    /\ \E i \in 0..Counters, r \in -Half..-1, counting \in BOOLEAN :
         raw = r /\ page = Published(0, i, r, counting)
    /\ rdpmc \in BOOLEAN
    /\ readPc = "start" /\ sequence = 0 /\ index = 0 /\ offset = 0 /\ value = 0
    /\ scope = "begin" /\ first = 0 /\ delta = 0
    /\ readAt = [s \in {"begin", "end"} |-> 0]
    /\ blind = {}

-----------------------------------------------------------------------------
(* Hardware and kernel *)

\* An event; the interrupt reprograms the counter before it can wrap.
Count ==
    /\ count < MaxCount /\ raw < Half - 1 /\ page.index # 0
    /\ count' = count + 1 /\ raw' = raw + 1
    /\ UNCHANGED <<page, rdpmc, readPc, locals, value, scope, first, delta, readAt, blind>>

\* An interrupt or a context switch: the event is off, or on some counter that
\* starts from a negative value.  The offset is not yet the one that fits.
BeginUpdate ==
    /\ ~Odd(page.lock) /\ page.lock < 2 * MaxUpdates
    /\ \E i \in 0..Counters, r \in -Half..-1, counting \in BOOLEAN :
         /\ raw' = r
         /\ page' = [lock |-> page.lock + 1, index |-> i, counting |-> counting,
                     offset |-> page.offset]
    /\ UNCHANGED <<count, rdpmc, readPc, locals, value, scope, first, delta,
                   readAt, blind>>

EndUpdate ==
    /\ Odd(page.lock)
    /\ page' = Published(page.lock + 1, page.index, raw, page.counting)
    /\ UNCHANGED <<count, raw, rdpmc, readPc, locals, value, scope, first,
                   delta, readAt, blind>>

-----------------------------------------------------------------------------
(* read_current_values *)

\* values.fill(0), and the choice between page and system call.
Start ==
    /\ readPc = "start" /\ scope # "done"
    /\ value' = 0
    /\ readPc' = IF rdpmc THEN "lock" ELSE "syscall"
    /\ UNCHANGED <<count, page, raw, rdpmc, locals, scope, first, delta, readAt, blind>>

\* if ((sequence & 1U) != 0) continue;
ReadLock ==
    /\ readPc = "lock"
    /\ sequence' = page.lock
    /\ readPc' = IF Odd(page.lock) THEN "check" ELSE "index"
    /\ UNCHANGED <<count, page, raw, rdpmc, index, offset, value, scope, first,
                   delta, readAt, blind>>

ReadIndex ==
    /\ readPc = "index"
    /\ index' = page.index
    /\ readPc' = "offset"
    /\ UNCHANGED <<count, page, raw, rdpmc, sequence, offset, value, scope,
                   first, delta, readAt, blind>>

ReadOffset ==
    /\ readPc = "offset"
    /\ offset' = page.offset
    /\ readPc' = "times"
    /\ UNCHANGED <<count, page, raw, rdpmc, sequence, index, value, scope,
                   first, delta, readAt, blind>>

\* Not on a counter, or not all the time: the caller uses the system call.
ReadTimes ==
    /\ readPc = "times"
    /\ readPc' = IF index = 0 \/ ~page.counting THEN "syscall" ELSE "counter"
    /\ UNCHANGED <<count, page, raw, rdpmc, locals, value, scope, first, delta,
                   readAt, blind>>

\* Mutant of SignExtend: the raw value is used as it is.
NoExtend(bits) == bits

\* shift left and arithmetic shift right by 64 - width
SignExtend(bits) == IF bits >= Half THEN bits - 2 * Half ELSE bits

\* rdpmc of the counter the reader knows of; any value if the event left it.
ReadCounter ==
    /\ readPc = "counter"
    /\ \E bits \in IF index = page.index THEN {raw % (2 * Half)}
                                         ELSE 0..2 * Half - 1 :
         value' = (offset + SignExtend(bits)) % Modulus
    /\ readAt' = [readAt EXCEPT ![scope] = count]
    /\ readPc' = "check"
    /\ UNCHANGED <<count, page, raw, rdpmc, locals, scope, first, delta, blind>>

\* Mutant of Check: the loop is not repeated.
CheckNothing ==
    /\ readPc = "check" /\ readPc' = "return"
    /\ blind' = IF Odd(sequence) THEN blind \cup {scope} ELSE blind
    /\ UNCHANGED <<count, page, raw, rdpmc, locals, value, scope, first, delta,
                   readAt>>

\* The page changed meanwhile: once more.
Check ==
    /\ readPc = "check"
    /\ readPc' = IF page.lock # sequence THEN "lock" ELSE "return"
    /\ blind' = IF Odd(sequence) /\ page.lock = sequence
                  THEN blind \cup {scope} ELSE blind
    /\ UNCHANGED <<count, page, raw, rdpmc, locals, value, scope, first, delta,
                   readAt>>

\* read_with_syscall
Syscall ==
    /\ readPc = "syscall"
    /\ value' = count % Modulus
    /\ readAt' = [readAt EXCEPT ![scope] = count]
    /\ readPc' = "return"
    /\ UNCHANGED <<count, page, raw, rdpmc, locals, scope, first, delta, blind>>

\* begin_snapshot keeps the value, finish_snapshot subtracts it.
Return ==
    /\ readPc = "return" /\ readPc' = "start"
    /\ sequence' = 0 /\ index' = 0 /\ offset' = 0 /\ value' = 0
    /\ IF scope = "begin"
         THEN first' = value /\ scope' = "end" /\ UNCHANGED delta
         ELSE delta' = (value - first) % Modulus /\ scope' = "done" /\ UNCHANGED first
    /\ UNCHANGED <<count, page, raw, rdpmc, readAt, blind>>

Reader == Start \/ ReadLock \/ ReadIndex \/ ReadOffset \/ ReadTimes
          \/ ReadCounter \/ Check \/ Syscall \/ Return
ReadNext == Count \/ BeginUpdate \/ EndUpdate \/ Reader
ReadSpec == ReadInit /\ [][ReadNext]_readVars

-----------------------------------------------------------------------------
(* Properties *)

\* What a read returns is the count at one instant inside it, whatever the
\* kernel moves or reprograms between the loads and however often the reader
\* starts over, unless it left the loop on an odd lock.
ReadsACount ==
    readPc = "return" /\ scope \notin blind => value = readAt[scope] % Modulus

\* A finished profile, none of whose two reads was left on an odd lock, reports
\* the events between them, also where the 64-bit value wraps between them or
\* the two reads went different ways.
DeltaIsExact ==
    scope = "done" /\ blind = {} =>
        delta = (readAt["end"] - readAt["begin"]) % Modulus
=============================================================================
