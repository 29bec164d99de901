--------------------------- MODULE SwitchTimeline ---------------------------
(***************************************************************************)
(* The context-switch timeline of include/linux_perf.hpp for one CPU: the  *)
(* kernel appends switch records to a ring buffer of 8-byte words and      *)
(* loses records when it is full; profiling threads drain it under the     *)
(* try-lock drain_lock_ (drain_if_needed), and a flush of the trace drains *)
(* it without that lock (write_trace_events), ends the slice of the task   *)
(* that runs and writes all slices.  A drain and a flush can therefore be  *)
(* under way together: the model goes on with what they then do to the     *)
(* ring, data_tail and the slices.  Time is a counter of kernel events.    *)
(***************************************************************************)
EXTENDS Naturals, Sequences, SequencesExt

CONSTANTS Thread,    \* threads that profile or flush
          NoThread,
          Tasks,     \* task ids that run on the CPU; 0 is the idle task
          RingSize,  \* data_size, in words
          Sizes,     \* sizes that a word which is no header may be read as
          MaxTime    \* bound on kernel events

ASSUME TimelineAssumption ==
    /\ NoThread \notin Thread
    /\ Tasks \subseteq Nat /\ 0 \in Tasks
    /\ RingSize \in Nat \ {0} /\ Sizes \subseteq Nat /\ MaxTime \in Nat \ {0}

VARIABLES now,        \* CLOCK_MONOTONIC_RAW
          onCpu,      \* the task on the CPU, <<>> in the middle of a switch
          ring, head, dataTail,
          drops,      \* the kernel owes a LOST record
          since, tid, \* running_since_ns and running_tid of the CpuMonitor
          slices,     \* slices_
          lock,       \* who holds drain_lock_
          pc, headOf, tailOf,  \* each drain: place and its copies of head, tail
          flusher,    \* the thread in write_trace_events (mutex_ of the writer)
          log,        \* history: records the kernel appended
          read,       \* history: records that were processed
          truth,      \* history: what ran, from when to when
          cut,        \* history: slices ended by a flush, with its head's time
          horizon,    \* history: when the flush loaded head
          shown,      \* history: slices written to the file
          lossy,      \* history: a record was lost
          overlap,    \* history: a flush and a drain were under way together
          raced       \* history: of those under way, who read the ring together

vars == <<now, onCpu, ring, head, dataTail, drops, since, tid, slices, lock,
          pc, headOf, tailOf, flusher, log, read, truth, cut, horizon, shown,
          lossy, overlap, raced>>
kernelVars == <<now, onCpu, ring, head, drops, log, truth, lossy>>
sliceVars == <<since, tid, slices, read, cut, shown>>

Word(v) == [type |-> "none", out |-> FALSE, size |-> 0, val |-> v]
Header(type, out, size) == [type |-> type, out |-> out, size |-> size, val |-> 0]

\* The words of PERF_RECORD_SWITCH_CPU_WIDE and PERF_RECORD_LOST, with the
\* sample_id fields (pid/tid, time, cpu) that sample_id_all appends.
SwitchRecord(task, time, out) ==
    <<Header("switch", out, 5), Word(0), Word(task), Word(time), Word(0)>>
LostRecord(task, time) ==
    <<Header("lost", FALSE, 6), Word(0), Word(0), Word(task), Word(time), Word(0)>>

Init ==
    /\ now = 1 /\ onCpu \in {<<t>> : t \in Tasks}
    /\ ring = [i \in 0..RingSize - 1 |-> Word(0)]
    /\ head = 0 /\ dataTail = 0 /\ drops = FALSE
    /\ since = 0 /\ tid = 0 /\ slices = <<>>
    /\ lock = NoThread /\ flusher = NoThread
    /\ pc = [d \in Thread |-> "idle"]
    /\ headOf = [d \in Thread |-> 0] /\ tailOf = [d \in Thread |-> 0]
    /\ log = <<>> /\ read = <<>> /\ cut = {} /\ horizon = 0 /\ shown = <<>>
    /\ truth = [t \in Tasks |-> <<>>]
    /\ lossy = FALSE /\ overlap = FALSE /\ raced = {}

-----------------------------------------------------------------------------
(* The kernel *)

Put(words) ==
    /\ ring' = [i \in 0..RingSize - 1 |->
                  IF \E k \in 1..Len(words) : (head + k - 1) % RingSize = i
                  THEN words[CHOOSE k \in 1..Len(words) :
                               (head + k - 1) % RingSize = i]
                  ELSE ring[i]]
    /\ head' = head + Len(words)

\* A record that does not fit between data_head and data_tail is dropped, and
\* a LOST record precedes the next one that fits with it.  Of a data_tail more
\* than the ring behind nothing is known: the kernel reckons modulo its size.
Output(task, out) ==
    LET rec == SwitchRecord(task, now + 1, out)
        all == IF drops THEN LostRecord(task, now + 1) \o rec ELSE rec
    IN \/ /\ \/ head + Len(all) <= dataTail + RingSize
             \/ head > dataTail + RingSize
          /\ Put(all)
          /\ drops' = FALSE
          /\ log' = Append(log, <<task, now + 1, out>>)
          /\ UNCHANGED lossy
       \/ /\ head + Len(all) > dataTail + RingSize
          /\ drops' = TRUE /\ lossy' = TRUE
          /\ UNCHANGED <<ring, head, log>>

Tick == now < MaxTime /\ now' = now + 1

SwitchOut ==
    /\ onCpu # <<>> /\ Tick
    /\ Output(onCpu[1], TRUE)
    /\ onCpu' = <<>>
    /\ truth' = [truth EXCEPT ![onCpu[1]] =
                   [i \in DOMAIN @ |-> IF i = Len(@) /\ @[i].end = 0
                                       THEN [@[i] EXCEPT !.end = now + 1]
                                       ELSE @[i]]]
    /\ UNCHANGED <<dataTail, lock, pc, headOf, tailOf, flusher, horizon,
                   overlap, raced, sliceVars>>

SwitchIn(t) ==
    /\ onCpu = <<>> /\ Tick
    /\ Output(t, FALSE)
    /\ onCpu' = <<t>>
    /\ truth' = [truth EXCEPT ![t] = Append(@, [begin |-> now + 1, end |-> 0])]
    /\ UNCHANGED <<dataTail, lock, pc, headOf, tailOf, flusher, horizon,
                   overlap, raced, sliceVars>>

-----------------------------------------------------------------------------
(* Draining *)

Busy(d) == pc[d] # "idle"

Reading(d) == pc[d] \in {"load", "read"}

\* The flush that reads the ring as well, when drain_if_needed begins.
Flushing == {e \in Thread : e = flusher /\ Reading(e)}

\* Mutant of TryLock: drain_if_needed does not look at the lock.
TryNoLock(d) ==
    /\ pc[d] = "idle"
    /\ lock' = d
    /\ pc' = [pc EXCEPT ![d] = "load"]
    /\ overlap' = (overlap \/ flusher # NoThread)
    /\ raced' = IF Flushing = {} THEN raced ELSE raced \cup Flushing \cup {d}
    /\ UNCHANGED <<kernelVars, dataTail, headOf, tailOf, flusher, horizon,
                   sliceVars>>

\* drain_if_needed; a thread that does not get the lock returns.
TryLock(d) ==
    /\ pc[d] = "idle" /\ lock = NoThread
    /\ lock' = d
    /\ pc' = [pc EXCEPT ![d] = "load"]
    /\ overlap' = (overlap \/ flusher # NoThread)
    /\ raced' = IF Flushing = {} THEN raced ELSE raced \cup Flushing \cup {d}
    /\ UNCHANGED <<kernelVars, dataTail, headOf, tailOf, flusher, horizon,
                   sliceVars>>

\* write_trace_events, called with the writer's mutex held.
StartFlush(d) ==
    /\ pc[d] = "idle" /\ flusher = NoThread
    /\ flusher' = d
    /\ pc' = [pc EXCEPT ![d] = "load"]
    /\ overlap' = (overlap \/ \E e \in Thread : Busy(e))
    /\ raced' = IF lock = NoThread THEN raced ELSE raced \cup {lock, d}
    /\ UNCHANGED <<kernelVars, dataTail, lock, headOf, tailOf, horizon,
                   sliceVars>>

\* Mutant of Load: data_tail is given up before the records are read.
LoadAndPublish(d) ==
    /\ pc[d] = "load"
    /\ headOf' = [headOf EXCEPT ![d] = head]
    /\ tailOf' = [tailOf EXCEPT ![d] = dataTail]
    /\ dataTail' = head
    /\ horizon' = IF flusher = d THEN now ELSE horizon
    /\ pc' = [pc EXCEPT ![d] = "read"]
    /\ UNCHANGED <<kernelVars, lock, flusher, overlap, raced, sliceVars>>

Load(d) ==
    /\ pc[d] = "load"
    /\ headOf' = [headOf EXCEPT ![d] = head]
    /\ tailOf' = [tailOf EXCEPT ![d] = dataTail]
    /\ horizon' = IF flusher = d THEN now ELSE horizon
    /\ pc' = [pc EXCEPT ![d] = "read"]
    /\ UNCHANGED <<kernelVars, dataTail, lock, flusher, overlap, raced, sliceVars>>

At(offset) == ring[offset % RingSize]

\* ContextSwitchRecord::read_from: a record of another type has no
\* next_prev_pid/tid word before the pid/tid word.
RecordAt(offset) ==
    LET hdr == At(offset)
        skip == IF hdr.type = "switch" THEN 1 ELSE 0
    IN [type |-> hdr.type, out |-> hdr.out, size |-> hdr.size,
        tid |-> At(offset + 1 + skip).val, time |-> At(offset + 2 + skip).val]

\* What is read at an offset.  A word that is no header, where a data_tail that
\* moved back has let the kernel overwrite, is taken for some record.
RecordsAt(offset) ==
    IF At(offset).type # "none" THEN {RecordAt(offset)}
    ELSE [type : {"none", "switch"}, out : BOOLEAN, size : Sizes,
          tid : {At(offset + 2).val}, time : {At(offset + 3).val}]

Broken(d, rec) == rec.size = 0 \/ tailOf[d] + rec.size > headOf[d]
Relevant(rec) == rec.type = "switch" /\ rec.tid # 0

\* slices_.push_back, which one of another thread at the same time may undo.
Push(s) == \/ slices' = Append(slices, s)
           \/ overlap /\ UNCHANGED slices

\* Mutant of Process: running_since_ns survives a switch-out.
ProcessKeeping(rec) ==
    IF ~Relevant(rec) THEN UNCHANGED <<since, tid, slices>>
    ELSE IF rec.out
      THEN /\ IF since = 0 THEN UNCHANGED slices
              ELSE Push([begin |-> since, end |-> rec.time, tid |-> rec.tid])
           /\ UNCHANGED <<since, tid>>
      ELSE since' = rec.time /\ tid' = rec.tid /\ UNCHANGED slices

\* process_record
Process(rec) ==
    IF ~Relevant(rec) THEN UNCHANGED <<since, tid, slices>>
    ELSE IF rec.out
      THEN /\ IF since = 0 THEN UNCHANGED slices
              ELSE Push([begin |-> since, end |-> rec.time, tid |-> rec.tid])
           /\ since' = 0
           /\ UNCHANGED tid
      ELSE since' = rec.time /\ tid' = rec.tid /\ UNCHANGED slices

\* One turn of the loop of drain.
ReadRecord(d) ==
    /\ pc[d] = "read" /\ tailOf[d] < headOf[d]
    /\ \E rec \in RecordsAt(tailOf[d]) :
          /\ ~Broken(d, rec)
          /\ Process(rec)
          /\ read' = IF rec.type = "switch"
                     THEN Append(read, <<rec.tid, rec.time, rec.out>>) ELSE read
          /\ tailOf' = [tailOf EXCEPT ![d] = @ + rec.size]
    /\ UNCHANGED <<kernelVars, dataTail, lock, pc, headOf, flusher, cut,
                   horizon, shown, overlap, raced>>

\* The loop ends, data_tail is stored; drain_if_needed releases the lock.
Publish(d) ==
    /\ pc[d] = "read"
    /\ tailOf[d] < headOf[d] => \E rec \in RecordsAt(tailOf[d]) : Broken(d, rec)
    /\ dataTail' = tailOf[d] /\ raced' = raced \ {d}
    /\ pc' = [pc EXCEPT ![d] = IF flusher = d THEN "active" ELSE "idle"]
    /\ lock' = IF lock = d THEN NoThread ELSE lock
    /\ headOf' = [headOf EXCEPT ![d] = 0]
    /\ tailOf' = [tailOf EXCEPT ![d] = 0]
    /\ UNCHANGED <<kernelVars, flusher, horizon, overlap,
                   sliceVars>>

\* flush_active: the slice of the task that runs ends at the present time.
EndActive(d) ==
    /\ pc[d] = "active"
    /\ IF since = 0 THEN UNCHANGED <<since, slices, cut>>
       ELSE LET s == [begin |-> since, end |-> now, tid |-> tid]
            IN /\ Push(s)
               /\ cut' = cut \cup {<<s, horizon>>}
               /\ since' = 0
    /\ pc' = [pc EXCEPT ![d] = "write"]
    /\ UNCHANGED <<kernelVars, dataTail, tid, lock, headOf, tailOf, flusher,
                   read, horizon, shown, overlap, raced>>

\* The slices go to the file and slices_ is cleared.
WriteSlices(d) ==
    /\ pc[d] = "write"
    /\ shown' = shown \o slices
    /\ slices' = <<>>
    /\ flusher' = NoThread /\ horizon' = 0
    /\ pc' = [pc EXCEPT ![d] = "idle"]
    /\ UNCHANGED <<kernelVars, dataTail, since, tid, lock, headOf, tailOf,
                   read, cut, overlap, raced>>

Kernel == SwitchOut \/ \E t \in Tasks : SwitchIn(t)
Drain(d) == TryLock(d) \/ StartFlush(d) \/ Load(d) \/ ReadRecord(d)
            \/ Publish(d) \/ EndActive(d) \/ WriteSlices(d)
Next == Kernel \/ \E d \in Thread : Drain(d)
Spec == Init /\ [][Next]_vars

-----------------------------------------------------------------------------
(* Properties *)

\* Every record is processed once, in order and as the kernel wrote it, as long
\* as no flush comes upon a drain: what the ring loses is lost before it is
\* written, never overwritten unread.
ReadAsWritten == ~overlap => IsPrefix(read, log)

\* data_tail, which tells the kernel what it may overwrite, moves back only
\* where a drain and a flush have read the ring together, and one of the two
\* stores what it read; no two calls of drain_if_needed ever do that.
TailAdvances ==
    [][dataTail' < dataTail => \E d \in raced : pc[d] = "read" /\ pc'[d] # "read"]_vars

\* A slice is a period in which its task did run: all of it, or for the task
\* running at a flush at least the part up to the read of data_head.
AllSlices == shown \o slices
SlicesTrue ==
    ~lossy /\ ~overlap =>
        \A i \in DOMAIN AllSlices :
            LET s == AllSlices[i]
            IN \E k \in DOMAIN truth[s.tid] :
                 LET r == truth[s.tid][k]
                 IN /\ s.begin = r.begin
                    /\ \/ s.end = r.end
                       \/ \E h \in 0..MaxTime : /\ <<s, h>> \in cut
                                                /\ r.end = 0 \/ r.end >= h

\* Slices ended by a switch never overlap, whatever the kernel dropped, as long
\* as no flush comes upon a drain.
EndedBySwitch(s) == \A h \in 0..MaxTime : <<s, h>> \notin cut
EndedDisjoint ==
    ~overlap =>
        \A i, k \in DOMAIN AllSlices :
            (i < k /\ EndedBySwitch(AllSlices[i]) /\ EndedBySwitch(AllSlices[k])) =>
                AllSlices[i].end <= AllSlices[k].begin
=============================================================================
