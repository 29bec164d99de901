----------------------------- MODULE PerfTrace ------------------------------
(***************************************************************************)
(* The trace of include/linux_perf.hpp: profiling scopes, one CounterGroup *)
(* per thread, the static ContextSwitchTracker and TraceWriter, and the    *)
(* file perf_dump.json they share.  Groups and tracker register with the   *)
(* writer as sinks; a destructor of either flushes every sink to the file, *)
(* which it truncates, and unregisters.  Thread-local groups die with      *)
(* their thread, Main's before the statics, the tracker before the writer. *)
(* Threads other than Main have exited, or are idle for good, when main()  *)
(* returns.  The time slices the tracker writes are SwitchTimeline's.      *)
(***************************************************************************)
EXTENDS Naturals, Sequences, SequencesExt

CONSTANTS Thread, Main,
          Tracker,       \* the ContextSwitchTracker as a sink
          NoThread,      \* the writer's mutex is free
          DumpLimits,    \* values of dump=N; 0 stands for no dump option
          SwitchCpu,     \* the values context_switch_enabled() can have
          CpuAllowed,    \* the answers trace_allowed_on_cpu() can give
          MaxProfiles    \* bound on the profiles of one thread

ASSUME TraceAssumption ==
    /\ Main \in Thread /\ Tracker \notin Thread /\ NoThread \notin Thread
    /\ DumpLimits \subseteq Nat
    /\ SwitchCpu \subseteq BOOLEAN /\ CpuAllowed \subseteq BOOLEAN
    /\ MaxProfiles \in Nat

VARIABLES config,     \* dump_limit and context_switch_enabled
          pc,         \* where each thread is
          group,      \* its CounterGroup: "none", "tracing", "silent", "gone"
          quota,      \* remaining_trace_quota_
          open,       \* its ProfileScopes that are not finished
          completed,  \* completed_snapshots_
          tracker,    \* "none", "live" or "gone"
          sinks,      \* sinks_ of the writer
          mutex,      \* who holds the writer's mutex_
          cursor,     \* the sink flush() is at
          copied,     \* its snapshots are in the file, not yet cleared
          file,       \* the profiles in perf_dump.json
          fileState,  \* "absent", "open" (header written) or "complete"
          finished,   \* history: profiles of each thread, as they finished
          recorded,   \* history: those that were stored for the trace
          kept,       \* history: those of them stored while no flush stood
                      \* between the copy of their list and its clear
          written     \* history: everything ever written from each group

vars == <<config, pc, group, quota, open, completed, tracker, sinks, mutex,
          cursor, copied, file, fileState, finished, recorded, kept,
          written>>
scopeVars == <<quota, open, completed, finished, recorded, kept>>
fileVars == <<cursor, copied, file, fileState, written>>

Init ==
    /\ config \in [dump : DumpLimits, switchCpu : SwitchCpu]
    /\ pc = [t \in Thread |-> "run"]
    /\ group = [t \in Thread |-> "none"]
    /\ quota = [t \in Thread |-> 0]
    /\ open = [t \in Thread |-> {}]
    /\ completed = [t \in Thread |-> <<>>]
    /\ tracker = "none"
    /\ sinks = <<>> /\ mutex = NoThread
    /\ cursor = 1 /\ copied = FALSE
    /\ file = <<>> /\ fileState = "absent"
    /\ finished = [t \in Thread |-> <<>>]
    /\ recorded = [t \in Thread |-> <<>>]
    /\ kept = [t \in Thread |-> <<>>]
    /\ written = [t \in Thread |-> <<>>]

\* A thread runs program code; the others stop when Main has left main().
Runs(t) == pc[t] \in {"run", "init"} /\ pc[Main] \in {"run", "init"}

-----------------------------------------------------------------------------
(* Construction of the static and thread-local objects *)

\* register_sink
Register(sink) ==
    /\ mutex = NoThread
    /\ sinks' = IF sink \in ToSet(sinks) THEN sinks ELSE Append(sinks, sink)

\* CounterGroup::thread_instance(), the first time on this thread.
Attach(t) ==
    /\ Runs(t) /\ group[t] = "none"
    /\ \E allowed \in CpuAllowed :
         LET tracing == config.dump # 0 /\ allowed
         IN /\ group' = [group EXCEPT ![t] = IF tracing THEN "tracing"
                                                        ELSE "silent"]
            /\ IF tracing THEN Register(t) ELSE UNCHANGED sinks
    /\ quota' = [quota EXCEPT ![t] = config.dump]
    /\ pc' = [pc EXCEPT ![t] = "run"]
    /\ UNCHANGED <<config, open, completed, tracker, mutex, finished,
                   recorded, kept, fileVars>>

\* ContextSwitchTracker::instance(), the first time in the process: from
\* begin_snapshot when the group exists, or from Init() before it does.
ConstructTracker(t) ==
    /\ Runs(t) /\ tracker = "none"
    /\ tracker' = "live"
    /\ IF config.switchCpu THEN Register(Tracker) ELSE UNCHANGED sinks
    /\ pc' = [pc EXCEPT ![t] = IF group[t] = "none" THEN "init" ELSE "run"]
    /\ UNCHANGED <<config, group, mutex, scopeVars, fileVars>>

-----------------------------------------------------------------------------
(* Profiling scopes *)

Started(t) == Len(finished[t]) + Cardinality(open[t])

\* Profile(): a scope on this thread's group.
Begin(t) ==
    /\ Runs(t) /\ group[t] \in {"tracing", "silent"} /\ tracker = "live"
    /\ Started(t) < MaxProfiles
    /\ open' = [open EXCEPT ![t] = @ \cup {<<t, Started(t) + 1>>}]
    /\ UNCHANGED <<config, pc, group, quota, completed, tracker, sinks, mutex,
                   finished, recorded, kept, fileVars>>

\* should_record_trace
MayRecord(t) == group[t] = "tracing" /\ quota[t] # 0

\* Mutant of Finish: the quota is counted down before it is tested.
FinishOneShort(t, s) ==
    /\ Runs(t) /\ s \in open[t]
    /\ open' = [open EXCEPT ![t] = @ \ {s}]
    /\ finished' = [finished EXCEPT ![t] = Append(@, s)]
    /\ IF group[t] = "tracing" /\ quota[t] > 1
         THEN /\ quota' = [quota EXCEPT ![t] = @ - 1]
              /\ completed' = [completed EXCEPT ![t] = Append(@, s)]
              /\ recorded' = [recorded EXCEPT ![t] = Append(@, s)]
              /\ kept' = IF copied /\ sinks[cursor] = t THEN kept
                         ELSE [kept EXCEPT ![t] = Append(@, s)]
         ELSE UNCHANGED <<quota, completed, recorded, kept>>
    /\ UNCHANGED <<config, pc, group, tracker, sinks, mutex, fileVars>>

\* finish_snapshot, by finish(), a move assignment or the scope's destructor.
\* Nothing orders the push_back after the flush of another thread: one that
\* falls between the copy and the clear is cleared unwritten (or crashes).
Finish(t, s) ==
    /\ Runs(t) /\ s \in open[t]
    /\ open' = [open EXCEPT ![t] = @ \ {s}]
    /\ finished' = [finished EXCEPT ![t] = Append(@, s)]
    /\ IF MayRecord(t)
         THEN /\ quota' = [quota EXCEPT ![t] = @ - 1]
              /\ completed' = [completed EXCEPT ![t] = Append(@, s)]
              /\ recorded' = [recorded EXCEPT ![t] = Append(@, s)]
              /\ kept' = IF copied /\ sinks[cursor] = t THEN kept
                         ELSE [kept EXCEPT ![t] = Append(@, s)]
         ELSE UNCHANGED <<quota, completed, recorded, kept>>
    /\ UNCHANGED <<config, pc, group, tracker, sinks, mutex, fileVars>>

-----------------------------------------------------------------------------
(* TraceWriter::flush, from the destructor a thread is in *)

Flushing == {"group", "tracker", "writer"}
Flushed(t) == CASE pc[t] = "group"   -> "unlist"
                [] pc[t] = "tracker" -> "unlistTracker"
                [] OTHER             -> "gone"

\* Mutant of FlushBegin: the file is truncated before the early return.
TruncateFirst(t) ==
    /\ pc[t] \in Flushing /\ mutex = NoThread
    /\ file' = <<>>
    /\ IF sinks = <<>>
         THEN /\ pc' = [pc EXCEPT ![t] = Flushed(t)]
              /\ UNCHANGED <<mutex, cursor, copied, fileState>>
         ELSE /\ mutex' = t
              /\ cursor' = 1 /\ copied' = FALSE
              /\ fileState' = "open"
              /\ UNCHANGED pc
    /\ UNCHANGED <<config, group, tracker, sinks, written, scopeVars>>

\* lock_guard; nothing to write, or the file is truncated and begun.
FlushBegin(t) ==
    /\ pc[t] \in Flushing /\ mutex = NoThread
    /\ IF sinks = <<>>
         THEN /\ pc' = [pc EXCEPT ![t] = Flushed(t)]
              /\ UNCHANGED <<mutex, cursor, copied, file, fileState>>
         ELSE /\ mutex' = t
              /\ cursor' = 1 /\ copied' = FALSE
              /\ file' = <<>> /\ fileState' = "open"
              /\ UNCHANGED pc
    /\ UNCHANGED <<config, group, tracker, sinks, written, scopeVars>>

\* The loop of write_trace_events over the snapshots of a group; the tracker
\* writes slices only.
WriteSink(t) ==
    /\ mutex = t /\ ~copied /\ cursor <= Len(sinks)
    /\ LET s == sinks[cursor]
       IN IF s = Tracker
            THEN cursor' = cursor + 1 /\ UNCHANGED <<copied, file, written>>
            ELSE /\ copied' = TRUE
                 /\ file' = file \o completed[s]
                 /\ written' = [written EXCEPT ![s] = @ \o completed[s]]
                 /\ UNCHANGED cursor
    /\ UNCHANGED <<config, pc, group, tracker, sinks, mutex, fileState,
                   scopeVars>>

\* Mutant of ClearSink: completed_snapshots_ is not cleared.
ClearNothing(t) ==
    /\ mutex = t /\ copied
    /\ copied' = FALSE /\ cursor' = cursor + 1
    /\ UNCHANGED <<config, pc, group, quota, open, completed, tracker, sinks,
                   mutex, file, fileState, finished, recorded, kept, written>>

\* completed_snapshots_.clear()
ClearSink(t) ==
    /\ mutex = t /\ copied
    /\ completed' = [completed EXCEPT ![sinks[cursor]] = <<>>]
    /\ copied' = FALSE /\ cursor' = cursor + 1
    /\ UNCHANGED <<config, pc, group, quota, open, tracker, sinks, mutex,
                   file, fileState, finished, recorded, kept, written>>

\* Mutant of FlushEnd: the destructor's next call happens under the lock.
FlushEndLocked(t) ==
    /\ mutex = t /\ ~copied /\ cursor > Len(sinks)
    /\ fileState' = "complete"
    /\ pc' = [pc EXCEPT ![t] = Flushed(t)]
    /\ UNCHANGED <<config, group, tracker, sinks, mutex, cursor, copied, file,
                   written, scopeVars>>

\* The footer; the stream closes and the lock is released.
FlushEnd(t) ==
    /\ mutex = t /\ ~copied /\ cursor > Len(sinks)
    /\ fileState' = "complete"
    /\ mutex' = NoThread /\ cursor' = 1
    /\ pc' = [pc EXCEPT ![t] = Flushed(t)]
    /\ UNCHANGED <<config, group, tracker, sinks, copied, file,
                   written, scopeVars>>

-----------------------------------------------------------------------------
(* Destruction: thread exit, and for Main the statics after it *)

\* unregister_sink: std::remove of a sink, which is in the list at most once.
Without(list, sink) ==
    IF sink \in ToSet(list)
      THEN RemoveAt(list, CHOOSE i \in DOMAIN list : list[i] = sink)
      ELSE list

\* What follows the thread-local group of t.
Statics(t) == IF t # Main THEN "gone"
              ELSE IF config.switchCpu /\ tracker = "live" THEN "tracker"
              ELSE "writer"

Idle(t) == pc[t] = "run" /\ open[t] = {} /\ (group[t] # "none" => tracker = "live")

\* The thread function, or main() once the others are done, returns; a group
\* that does not trace is destroyed without a trace.
Leave(t) ==
    /\ Runs(t) /\ Idle(t)
    /\ t = Main => \A u \in Thread : Idle(u) \/ pc[u] = "gone"
    /\ pc' = [pc EXCEPT ![t] = IF group[t] = "tracing" THEN "group"
                                                       ELSE Statics(t)]
    /\ UNCHANGED <<config, group, tracker, sinks, mutex, scopeVars, fileVars>>

\* Mutant of Unregister: ~CounterGroup only flushes.
UnregisterNothing(t) ==
    /\ pc[t] = "unlist" /\ mutex = NoThread
    /\ group' = [group EXCEPT ![t] = "gone"]
    /\ pc' = [pc EXCEPT ![t] = Statics(t)]
    /\ UNCHANGED <<config, tracker, sinks, mutex, scopeVars, fileVars>>

\* unregister_sink(this) and the rest of ~CounterGroup.
Unregister(t) ==
    /\ pc[t] = "unlist" /\ mutex = NoThread
    /\ sinks' = Without(sinks, t)
    /\ group' = [group EXCEPT ![t] = "gone"]
    /\ pc' = [pc EXCEPT ![t] = Statics(t)]
    /\ UNCHANGED <<config, tracker, mutex, scopeVars, fileVars>>

\* unregister_sink(this) in ~ContextSwitchTracker.
UnregisterTracker(t) ==
    /\ pc[t] = "unlistTracker" /\ mutex = NoThread
    /\ sinks' = Without(sinks, Tracker)
    /\ tracker' = "gone"
    /\ pc' = [pc EXCEPT ![t] = "writer"]
    /\ UNCHANGED <<config, group, mutex, scopeVars, fileVars>>

Flush(t) == /\ pc[t] \in Flushing
            /\ FlushBegin(t) \/ WriteSink(t) \/ ClearSink(t) \/ FlushEnd(t)
Profiling(t) == \/ Attach(t) \/ ConstructTracker(t) \/ Begin(t)
                \/ \E s \in open[t] : Finish(t, s)
Leaving(t) == Leave(t) \/ Unregister(t) \/ UnregisterTracker(t)
Step(t) == Profiling(t) \/ Flush(t) \/ Leaving(t)
Next == \E t \in Thread : Step(t)

Spec == Init /\ [][Next]_vars

-----------------------------------------------------------------------------
(* Properties *)

\* The writer never holds a pointer to a destroyed object: whatever order
\* threads and statics are destroyed in, a registered group or tracker lives.
SinksLive ==
    /\ \A i \in DOMAIN sinks : IF sinks[i] = Tracker THEN tracker = "live"
                               ELSE group[sinks[i]] = "tracing"
    /\ IsInjective(sinks)

\* dump=N records exactly the first N profiles each thread finishes, in the
\* order they finish, nested and overlapping scopes included.
FirstProfilesRecorded ==
    \A t \in Thread :
        recorded[t] = IF group[t] \in {"none", "silent"} THEN <<>>
                      ELSE IF Len(finished[t]) <= config.dump THEN finished[t]
                      ELSE SubSeq(finished[t], 1, config.dump)

\* Between flushes the profiles written so far and those still in their group
\* are together what was recorded, each once and in order, without those, and
\* only those, stored between the copy and the clear of another thread's flush:
\* also after such a loss nothing is written twice or out of order.
RecordedOnce ==
    mutex = NoThread => \A t \in Thread : kept[t] = written[t] \o completed[t]

\* When one thread only profiles and the tracker is off, the file the process
\* leaves holds every recorded profile, in order; without the dump option, as
\* benchmark/README.md says, it leaves none.
Attached == {t \in Thread : group[t] # "none"}
SoleThreadKeeps ==
    \A t \in Attached :
        (pc[Main] = "gone" /\ Attached = {t} /\ ~config.switchCpu)
            => /\ file = recorded[t]
               /\ recorded[t] # <<>> => fileState = "complete"
               /\ config.dump = 0 => fileState = "absent"

\* The destructors of threads and statics never wait for one another: until
\* Main has ended, some thread can take a step.
NobodyStuck == pc[Main] = "gone" \/ ENABLED Next

\* benchmark/README.md: with dump=N the first N completed profiles are in the
\* file the process leaves (violated: the tracker's destructor truncates it).
ProfilesKept ==
    pc[Main] = "gone" =>
        \A t \in Attached : ToSet(recorded[t]) \subseteq ToSet(file)
=============================================================================
