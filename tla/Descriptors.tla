----------------------------- MODULE Descriptors -----------------------------
(***************************************************************************)
(* The file descriptors of include/linux_perf.hpp up to the end of the     *)
(* first snapshot of every thread.  Each thread opens the counters of its  *)
(* own CounterGroup; the first one to need it constructs the               *)
(* ContextSwitchTracker, with a monitor for every CPU in a vector that     *)
(* grows.  A moved monitor keeps its fd, so that each growth closes the    *)
(* descriptors of the monitors before.  The kernel's table (external)      *)
(* hands out the lowest free number.                                       *)
(***************************************************************************)
EXTENDS Integers, Sequences, FiniteSets

CONSTANTS Thread,
          Counters,   \* events of a group
          Monitored,  \* CPUs in the mask
          MaxFd       \* bound on the numbers: enough for all of these at once

VARIABLES files,     \* fd -> the thread of a counter, "monitor" or "free"
          pc,
          counters,  \* fds of the thread's group; the first is leader_fd_
          tracker,   \* "none", "busy" while a thread constructs it, "ready"
          monitors,  \* fds of monitors_
          capacity,  \* of that vector
          moved      \* fds of moved monitors not yet destroyed

vars == <<files, pc, counters, tracker, monitors, capacity, moved>>
trackerVars == <<tracker, monitors, capacity, moved>>

Init ==
    /\ files = [fd \in 1..MaxFd |-> "free"]
    /\ pc = [t \in Thread |-> "open"]
    /\ counters = [t \in Thread |-> <<>>]
    /\ tracker = "none" /\ monitors = <<>> /\ capacity = 0 /\ moved = <<>>

Lowest(fd) == /\ files[fd] = "free"
              /\ \A other \in 1..fd - 1 : files[other] # "free"
Goto(t, label) == pc' = [pc EXCEPT ![t] = label]
Leader(t) == counters[t][1]

\* open_counter: every counter but the first is opened into the group of the
\* leader; a number that names no counter of this thread is refused.
OpenCounter(t) ==
    /\ pc[t] = "open"
    /\ counters[t] # <<>> => files[Leader(t)] = t
    /\ \E fd \in 1..MaxFd :
         /\ Lowest(fd)
         /\ files' = [files EXCEPT ![fd] = t]
         /\ counters' = [counters EXCEPT ![t] = Append(@, fd)]
    /\ Goto(t, IF Len(counters'[t]) = Counters THEN "enable" ELSE "open")
    /\ UNCHANGED trackerVars
OpenRefused(t) ==
    /\ pc[t] = "open" /\ counters[t] # <<>> /\ files[Leader(t)] # t
    /\ Goto(t, "aborted")
    /\ UNCHANGED <<files, counters, trackerVars>>

\* enable: ioctl on the leader.  What a file of somebody else answers is left
\* out.
Enable(t) ==
    /\ pc[t] = "enable"
    /\ Goto(t, IF files[Leader(t)] = "free" THEN "aborted" ELSE "tracker")
    /\ UNCHANGED <<files, counters, trackerVars>>

\* ContextSwitchTracker::instance: one thread constructs, the others wait.
Instance(t) ==
    /\ pc[t] = "tracker" /\ tracker \in {"none", "ready"}
    /\ IF tracker = "ready" THEN Goto(t, "read") /\ UNCHANGED tracker
                            ELSE Goto(t, "monitor") /\ tracker' = "busy"
    /\ UNCHANGED <<files, counters, monitors, capacity, moved>>

\* open_monitor: emplace_back, which moves the monitors to a new block when
\* the old one is full.
OpenMonitor(t) ==
    /\ pc[t] = "monitor" /\ moved = <<>> /\ Len(monitors) < Monitored
    /\ \E fd \in 1..MaxFd :
         /\ Lowest(fd)
         /\ files' = [files EXCEPT ![fd] = "monitor"]
         /\ monitors' = Append(monitors, fd)
    /\ IF Len(monitors) = capacity
         THEN /\ capacity' = IF capacity = 0 THEN 1 ELSE 2 * capacity
              /\ moved' = monitors
         ELSE UNCHANGED <<capacity, moved>>
    /\ UNCHANGED <<pc, counters, tracker>>

\* ~CpuMonitor of a monitor that was moved from.
DestroyMoved(t) ==
    /\ pc[t] = "monitor" /\ moved # <<>>
    /\ files' = [files EXCEPT ![Head(moved)] = "free"]
    /\ moved' = Tail(moved)
    /\ UNCHANGED <<pc, counters, tracker, monitors, capacity>>

TrackerReady(t) ==
    /\ pc[t] = "monitor" /\ moved = <<>> /\ Len(monitors) = Monitored
    /\ tracker' = "ready" /\ Goto(t, "read")
    /\ UNCHANGED <<files, counters, monitors, capacity, moved>>

\* read_with_syscall of begin_snapshot.
Read(t) ==
    /\ pc[t] = "read"
    /\ Goto(t, IF files[Leader(t)] = "free" THEN "aborted" ELSE "done")
    /\ UNCHANGED <<files, counters, trackerVars>>

Next == \E t \in Thread :
    \/ OpenCounter(t) \/ OpenRefused(t) \/ Enable(t) \/ Instance(t)
    \/ OpenMonitor(t) \/ DestroyMoved(t) \/ TrackerReady(t) \/ Read(t)
Spec == Init /\ [][Next]_vars

-----------------------------------------------------------------------------
\* The calls on the leader of a group find a file: open_counter(), enable() and
\* read_with_syscall() take its absence for a failure of the system ("open perf
\* counter failed", "enable perf group failed", "read perf group failed") and
\* abort the process.
GroupsNeverAbort == \A t \in Thread : pc[t] # "aborted"
=============================================================================
