--------------------------- MODULE PerfTraceProofs ---------------------------
(***************************************************************************)
(* What PerfTrace guarantees for any number of threads and profiles,       *)
(* whatever dump allows, in every order of destruction.  The properties    *)
(* are proved together: a registered sink is alive because the list and    *)
(* the objects change in one step under the mutex, a profile is written    *)
(* once because a list is copied and cleared under it.                     *)
(*                                                                         *)
(* And of Rdpmc, at the end: a profile reports the exact number of events, *)
(* for every width of counters and values and any number of updates of the *)
(* page.  An even page adds up to the count (PageAddsUp); as long as       *)
(* the lock is the one the reader loaded, its copies are those of the page *)
(* (CopiesValid); the rest is arithmetic modulo 2^64.                      *)
(***************************************************************************)
EXTENDS PerfTrace, Rdpmc, SequenceTheorems, FiniteSetTheorems, TLAPS

Profile == Thread \X Nat
Sink == Thread \cup {Tracker}
Place == {"run", "init", "group", "unlist", "tracker", "unlistTracker",
          "writer", "gone"}

\* The values the state can take.
Typed ==
    /\ config \in [dump : DumpLimits, switchCpu : SwitchCpu]
    /\ pc \in [Thread -> Place]
    /\ group \in [Thread -> {"none", "tracing", "silent", "gone"}]
    /\ quota \in [Thread -> Nat]
    /\ open \in [Thread -> SUBSET Profile]
    /\ \A t \in Thread : IsFiniteSet(open[t])
    /\ completed \in [Thread -> Seq(Profile)]
    /\ tracker \in {"none", "live", "gone"}
    /\ sinks \in Seq(Sink)
    /\ mutex \in Thread \cup {NoThread}
    /\ cursor \in Nat \ {0} /\ copied \in BOOLEAN
    /\ file \in Seq(Profile) /\ fileState \in {"absent", "open", "complete"}
    /\ finished \in [Thread -> Seq(Profile)]
    /\ recorded \in [Thread -> Seq(Profile)]
    /\ written \in [Thread -> Seq(Profile)]
    /\ kept \in [Thread -> Seq(Profile)]

\* What a thread's place in the order of destruction says of the objects.
Places ==
    /\ \A t \in Thread : pc[t] \in {"group", "unlist"} => group[t] = "tracing"
    /\ \A t \in Thread : pc[t] \in {"run", "init"} => group[t] # "gone"
    /\ \A t \in Thread :
         pc[t] \in {"tracker", "unlistTracker", "writer"} => t = Main
    /\ pc[Main] \in {"tracker", "unlistTracker"}
         => tracker = "live" /\ config.switchCpu
    /\ tracker = "gone" => pc[Main] \in {"writer", "gone"}
    /\ pc[Main] \notin {"run", "init"} =>
         \A t \in Thread \ {Main} : pc[t] \in {"run", "gone"}

\* A group that was not made, or does not trace, has nothing to write.
Silent ==
    \A t \in Thread :
       /\ group[t] = "none" => open[t] = {} /\ finished[t] = <<>>
       /\ group[t] \in {"none", "silent"} =>
            recorded[t] = <<>> /\ completed[t] = <<>> /\ written[t] = <<>>
       /\ group[t] \in {"tracing", "gone"} => config.dump # 0

\* The loop of a flush: under the mutex, within the list.
Looping ==
    /\ mutex # NoThread => pc[mutex] \in Flushing /\ sinks # <<>>
    /\ mutex = NoThread => ~copied /\ cursor = 1
    /\ copied => cursor \in DOMAIN sinks /\ sinks[cursor] # Tracker

\* Every group that traces is in the writer's list.
Listed == \A t \in Thread : group[t] = "tracing" => t \in ToSet(sinks)

\* What a thread may still record.
Counted ==
    \A t \in Thread :
        group[t] \in {"tracing", "gone"} =>
            quota[t] + Len(recorded[t]) = config.dump

\* The snapshots of t are in the file and not yet cleared.
Copying(t) == copied /\ sinks[cursor] = t

\* What was kept was written or is waiting, also in the middle of a flush.
Kept ==
    \A t \in Thread :
        kept[t] = written[t] \o (IF Copying(t) THEN <<>> ELSE completed[t])

\* The one thread that profiles and the flush that writes what it recorded:
\* its own when it exits, or the writer's if it is idle when Main has left.
Saved(t) == group[t] = "gone" \/ pc[t] = "unlist" \/ pc[Main] = "gone"

SoleNow(t) ==
    /\ group[t] = "tracing" => sinks = <<t>>
    /\ group[t] # "tracing" => sinks = <<>>
    /\ group[t] = "silent" => file = <<>> /\ fileState = "absent"
    /\ group[t] # "silent" /\ Saved(t) =>
         file = recorded[t] /\ fileState = "complete" /\ mutex = NoThread
    /\ group[t] # "silent" /\ ~Saved(t) /\ mutex = NoThread =>
         file = <<>> /\ fileState = "absent" /\ completed[t] = recorded[t]
    /\ mutex # NoThread =>
         \/ cursor = 1 /\ ~copied /\ file = <<>> /\ completed[t] = recorded[t]
         \/ cursor = 1 /\ copied /\ file = recorded[t]
         \/ cursor = 2 /\ ~copied /\ file = recorded[t]

Sole(t) == (Attached = {t} /\ ~config.switchCpu) => SoleNow(t)

\* Before any thread profiles there is nothing to write.
Blank ==
    (Attached = {} /\ ~config.switchCpu) =>
        /\ sinks = <<>>
        /\ file = <<>> /\ fileState = "absent"

IInv ==
    /\ Typed /\ Places /\ Silent /\ Looping /\ SinksLive /\ Listed /\ Counted
    /\ FirstProfilesRecorded /\ Kept /\ Blank /\ \A t \in Thread : Sole(t)

\* Every disjunct of Next, one case each.
LEMMA NextCases ==
    ASSUME Next
    PROVE  \E t \in Thread :
              \/ Attach(t) \/ ConstructTracker(t) \/ Begin(t)
              \/ \E s \in open[t] : Finish(t, s)
              \/ FlushBegin(t) \/ WriteSink(t) \/ ClearSink(t) \/ FlushEnd(t)
              \/ Leave(t) \/ Unregister(t) \/ UnregisterTracker(t)
  BY DEF Next, Step, Profiling, Flush, Leaving

-----------------------------------------------------------------------------
(* Lists of sinks *)

\* A list with one more element.
LEMMA Registered ==
    ASSUME NEW S, NEW list \in Seq(S), IsInjective(list), NEW e \in S,
           NEW more, more = IF e \in ToSet(list) THEN list ELSE Append(list, e)
    PROVE  /\ more \in Seq(S) /\ IsInjective(more)
           /\ ToSet(more) = ToSet(list) \cup {e}
           /\ e \notin ToSet(list) => more = Append(list, e)
  <1>1. CASE e \in ToSet(list)
    BY <1>1
  <1>2. CASE e \notin ToSet(list)
    <2>1. more = Append(list, e) /\ more \in Seq(S)
      BY <1>2
    <2>2. /\ Len(more) = Len(list) + 1 /\ more[Len(list) + 1] = e
          /\ \A i \in 1..Len(list) : more[i] = list[i]
      BY <2>1
    <2>3. \A i \in 1..Len(list) : list[i] # e
      BY <1>2 DEF ToSet
    <2>4. IsInjective(more)
      BY <2>1, <2>2, <2>3 DEF IsInjective
    <2>5. ToSet(more) = ToSet(list) \cup {e}
      BY <2>1, <2>2 DEF ToSet
    <2>6. QED
      BY <2>1, <2>4, <2>5
  <1>3. QED
    BY <1>1, <1>2

\* A list without one of its elements.
LEMMA Removed ==
    ASSUME NEW S, NEW list \in Seq(S), IsInjective(list), NEW e
    PROVE  /\ Without(list, e) \in Seq(S) /\ IsInjective(Without(list, e))
           /\ ToSet(Without(list, e)) = ToSet(list) \ {e}
  <1>1. CASE e \notin ToSet(list)
    BY <1>1 DEF Without
  <1>2. CASE e \in ToSet(list)
    <2> DEFINE i == CHOOSE j \in DOMAIN list : list[j] = e
               left == SubSeq(list, 1, i-1)
               right == SubSeq(list, i+1, Len(list))
               less == left \o right
    <2>1. i \in 1..Len(list) /\ list[i] = e
      BY <1>2 DEF ToSet
    <2> HIDE DEF i
    <2>2. /\ left \in Seq(S) /\ Len(left) = i-1
          /\ \A k \in 1..i-1 : left[k] = list[k]
      BY <2>1
    <2>3. /\ right \in Seq(S) /\ Len(right) = Len(list) - i
          /\ \A k \in 1..Len(list)-i : right[k] = list[i+k]
      BY <2>1
    <2> HIDE DEF left, right
    <2>4. /\ less \in Seq(S) /\ Len(less) = Len(list) - 1
          /\ \A k \in 1..i-1 : less[k] = list[k]
          /\ \A k \in i..Len(list)-1 : less[k] = list[k+1]
      <3>1. less \in Seq(S) /\ Len(less) = Len(list) - 1
        <4>1. less \in Seq(S) /\ Len(less) = Len(left) + Len(right)
          BY <2>2, <2>3, ConcatProperties
        <4>2. QED
          BY <2>1, <2>2, <2>3, <4>1
      <3>2. ASSUME NEW k \in 1..i-1 PROVE less[k] = list[k]
        BY <2>1, <2>2, <2>3
      <3>3. ASSUME NEW k \in i..Len(list)-1 PROVE less[k] = list[k+1]
        <4>1. less[k] = right[k-(i-1)] /\ k-(i-1) \in 1..Len(list)-i
          BY <2>1, <2>2, <2>3
        <4>2. i + (k-(i-1)) = k+1
          BY <2>1
        <4>3. QED
          BY <2>3, <4>1, <4>2
      <3>4. QED
        BY <3>1, <3>2, <3>3
    <2>5. Without(list, e) = less
      BY <1>2 DEF Without, RemoveAt, i, left, right
    <2> HIDE DEF less
    <2>6. IsInjective(less)
      <3>1. DOMAIN less = 1..Len(list)-1 /\ DOMAIN list = 1..Len(list)
            /\ Len(list) \in Nat
        BY <2>4
      <3>2. SUFFICES ASSUME NEW a \in 1..Len(list)-1, NEW b \in 1..Len(list)-1,
                            less[a] = less[b]
                     PROVE  a = b
        BY <3>1 DEF IsInjective
      <3>3. PICK x \in 1..Len(list) :
              less[a] = list[x] /\ x = IF a < i THEN a ELSE a + 1
        BY <2>1, <2>4, <3>1
      <3>4. PICK y \in 1..Len(list) :
              less[b] = list[y] /\ y = IF b < i THEN b ELSE b + 1
        BY <2>1, <2>4, <3>1
      <3>5. x = y
        BY <3>1, <3>2, <3>3, <3>4 DEF IsInjective
      <3>6. QED
        BY <2>1, <3>1, <3>3, <3>4, <3>5
    <2>7. ToSet(less) = ToSet(list) \ {e}
      <3>1. ASSUME NEW x \in ToSet(less) PROVE x \in ToSet(list) /\ x # e
        <4>1. PICK k \in 1..Len(list)-1 : less[k] = x
          BY <2>4 DEF ToSet
        <4>2. CASE k < i
          <5>1. list[k] = x /\ k \in DOMAIN list /\ k # i /\ i \in DOMAIN list
            BY <2>1, <2>4, <4>1, <4>2
          <5>2. QED
            BY <2>1, <5>1 DEF ToSet, IsInjective
        <4>3. CASE k >= i
          <5>1. /\ list[k+1] = x /\ k+1 \in DOMAIN list /\ k+1 # i
                /\ i \in DOMAIN list
            BY <2>1, <2>4, <4>1, <4>3
          <5>2. QED
            BY <2>1, <5>1 DEF ToSet, IsInjective
        <4>4. QED
          BY <2>1, <4>2, <4>3
      <3>2. ASSUME NEW x \in ToSet(list), x # e PROVE x \in ToSet(less)
        <4>1. PICK k \in 1..Len(list) : list[k] = x
          BY DEF ToSet
        <4>2. CASE k < i
          <5>1. k \in 1..Len(less) /\ less[k] = x
            BY <2>1, <2>4, <4>1, <4>2
          <5>2. QED
            BY <2>4, <5>1 DEF ToSet
        <4>3. CASE k > i
          <5>1. k-1 \in 1..Len(less) /\ less[k-1] = x
            BY <2>1, <2>4, <4>1, <4>3
          <5>2. QED
            BY <2>4, <5>1 DEF ToSet
        <4>4. QED
          BY <2>1, <3>2, <4>1, <4>2, <4>3
      <3>3. QED
        BY <3>1, <3>2
    <2>8. QED
      BY <2>4, <2>5, <2>6, <2>7
  <1>3. QED
    BY <1>1, <1>2
-----------------------------------------------------------------------------
(* Types *)

\* What a step makes of the list of sinks.
LEMMA ListSteps ==
    ASSUME Typed, IsInjective(sinks), [Next]_vars
    PROVE  sinks' \in Seq(Sink) /\ IsInjective(sinks')
  <1>1. ASSUME NEW e \in Sink, Register(e)
        PROVE  sinks' \in Seq(Sink) /\ IsInjective(sinks')
    BY <1>1, Registered DEF Typed, Register
  <1>2. ASSUME NEW e, sinks' = Without(sinks, e)
        PROVE  sinks' \in Seq(Sink) /\ IsInjective(sinks')
    BY <1>2, Removed DEF Typed
  <1>3. CASE UNCHANGED sinks
    BY <1>3 DEF Typed
  <1>4. ASSUME NEW t \in Thread, Attach(t)
        PROVE  sinks' \in Seq(Sink) /\ IsInjective(sinks')
    BY <1>1, <1>3, <1>4 DEF Attach, Sink
  <1>5. ASSUME NEW t \in Thread, ConstructTracker(t)
        PROVE  sinks' \in Seq(Sink) /\ IsInjective(sinks')
    BY <1>1, <1>3, <1>5 DEF ConstructTracker, Sink
  <1>6. ASSUME NEW t \in Thread, Unregister(t) \/ UnregisterTracker(t)
        PROVE  sinks' \in Seq(Sink) /\ IsInjective(sinks')
    BY <1>2, <1>6 DEF Unregister, UnregisterTracker
  <1>7. QED
    BY <1>3, <1>4, <1>5, <1>6, NextCases
    DEF Begin, Finish, FlushBegin, WriteSink, ClearSink, FlushEnd, Leave, vars

\* The state starts with the values it can take.
LEMMA TypedInit == Init => Typed
  <1> SUFFICES ASSUME Init PROVE Typed
    OBVIOUS
  <1> USE TraceAssumption DEF Init
  <1>1. \A t \in Thread : IsFiniteSet(open[t])
    BY FS_EmptySet
  <1>2. <<>> \in Seq(Profile) /\ <<>> \in Seq(Sink)
    OBVIOUS
  <1>3. /\ finished \in [Thread -> Seq(Profile)]
        /\ recorded \in [Thread -> Seq(Profile)]
        /\ completed \in [Thread -> Seq(Profile)]
        /\ written \in [Thread -> Seq(Profile)]
        /\ kept \in [Thread -> Seq(Profile)]
        /\ file \in Seq(Profile) /\ sinks \in Seq(Sink)
    BY <1>2
  <1>4. /\ pc \in [Thread -> Place]
        /\ group \in [Thread -> {"none", "tracing", "silent", "gone"}]
        /\ quota \in [Thread -> Nat]
        /\ open \in [Thread -> SUBSET Profile]
    BY DEF Place
  <1>5. /\ config \in [dump : DumpLimits, switchCpu : SwitchCpu]
        /\ tracker \in {"none", "live", "gone"}
        /\ mutex \in Thread \cup {NoThread} /\ cursor \in Nat \ {0}
        /\ fileState \in {"absent", "open", "complete"}
    OBVIOUS
  <1>6. copied \in BOOLEAN
    OBVIOUS
  <1>7. QED
    BY <1>1, <1>3, <1>4, <1>5, <1>6 DEF Typed

\* A scope is numbered after those of its thread that came before.
LEMMA NewScope ==
    ASSUME Typed, NEW t \in Thread
    PROVE  <<t, Started(t) + 1>> \in Profile
  <1>1. finished[t] \in Seq(Profile) /\ IsFiniteSet(open[t])
    BY DEF Typed
  <1>2. Cardinality(open[t]) \in Nat
    BY <1>1, FS_CardinalityType
  <1>3. Len(finished[t]) \in Nat
    BY <1>1
  <1>4. Started(t) + 1 \in Nat
    BY <1>2, <1>3 DEF Started
  <1>5. QED
    BY <1>4 DEF Profile

\* Where the destructor goes on after its flush.
LEMMA FlushedPlace ==
    ASSUME NEW t \in Thread, pc[t] \in Flushing
    PROVE  \/ pc[t] = "group" /\ Flushed(t) = "unlist"
           \/ pc[t] = "tracker" /\ Flushed(t) = "unlistTracker"
           \/ pc[t] = "writer" /\ Flushed(t) = "gone"
  BY DEF Flushing, Flushed

\* Every step keeps the types.
LEMMA TypedNext == Typed /\ IsInjective(sinks) /\ Looping /\ [Next]_vars =>
    Typed'
  <1> SUFFICES ASSUME Typed, IsInjective(sinks), Looping, [Next]_vars PROVE
                    Typed'
    OBVIOUS
  <1>0. sinks' \in Seq(Sink)
    BY ListSteps
  <1> USE TraceAssumption, <1>0 DEF Typed
  <1>1. ASSUME NEW t \in Thread, Attach(t) PROVE Typed'
    BY <1>1 DEF Attach, scopeVars, fileVars, Place
  <1>2. ASSUME NEW t \in Thread, ConstructTracker(t) PROVE Typed'
    BY <1>2 DEF ConstructTracker, scopeVars, fileVars, Register, Place
  <1>3. ASSUME NEW t \in Thread, Begin(t) PROVE Typed'
    <2>2. <<t, Started(t) + 1>> \in Profile
      BY NewScope
    <2>3. IsFiniteSet(open[t] \cup {<<t, Started(t) + 1>>})
      BY FS_AddElement
    <2>4. open' = [open EXCEPT ![t] = open[t] \cup {<<t, Started(t) + 1>>}]
      BY <1>3 DEF Begin
    <2>5. /\ open' \in [Thread -> SUBSET Profile]
          /\ \A u \in Thread : IsFiniteSet(open'[u])
      <3>1. open \in [Thread -> SUBSET Profile]
            /\ \A u \in Thread : IsFiniteSet(open[u])
        OBVIOUS
      <3> HIDE DEF Typed
      <3>2. open' \in [Thread -> SUBSET Profile]
        BY <2>2, <2>4, <3>1
      <3>3. ASSUME NEW u \in Thread PROVE IsFiniteSet(open'[u])
        <4>1. open'[u] = IF u = t THEN open[t] \cup {<<t, Started(t) + 1>>}
                                  ELSE open[u]
          BY <2>4, <3>1
        <4>2. QED
          BY <2>3, <3>1, <4>1
      <3>4. QED
        BY <3>2, <3>3
    <2>6. QED
      BY <1>3, <2>5 DEF Begin, fileVars
  <1>4. ASSUME NEW t \in Thread, NEW s \in open[t], Finish(t, s) PROVE Typed'
    <2>1. s \in Profile
      BY <1>4
    <2>2. /\ open' = [open EXCEPT ![t] = open[t] \ {s}]
          /\ finished' = [finished EXCEPT ![t] = Append(finished[t], s)]
      BY <1>4 DEF Finish
    <2>3. IsFiniteSet(open[t] \ {s})
      BY FS_RemoveElement
    <2>4. /\ open' \in [Thread -> SUBSET Profile]
          /\ \A u \in Thread : IsFiniteSet(open'[u])
      <3>1. open \in [Thread -> SUBSET Profile]
            /\ \A u \in Thread : IsFiniteSet(open[u])
        OBVIOUS
      <3> HIDE DEF Typed
      <3>2. open' \in [Thread -> SUBSET Profile]
        BY <2>2, <3>1
      <3>3. ASSUME NEW u \in Thread PROVE IsFiniteSet(open'[u])
        <4>1. open'[u] = IF u = t THEN open[t] \ {s} ELSE open[u]
          BY <2>2, <3>1
        <4>2. QED
          BY <2>3, <3>1, <4>1
      <3>4. QED
        BY <3>2, <3>3
    <2>5. finished' \in [Thread -> Seq(Profile)]
      BY <2>1, <2>2
    <2>6. CASE MayRecord(t)
      <3>1. /\ quota' = [quota EXCEPT ![t] = quota[t] - 1] /\ quota[t] # 0
            /\ completed' = [completed EXCEPT ![t] = Append(completed[t], s)]
            /\ recorded' = [recorded EXCEPT ![t] = Append(recorded[t], s)]
            /\ kept' = kept \/ kept' = [kept EXCEPT ![t] = Append(kept[t], s)]
        BY <1>4, <2>6 DEF Finish, MayRecord
      <3>2. /\ quota' \in [Thread -> Nat] /\ kept' \in [Thread -> Seq(Profile)]
            /\ completed' \in [Thread -> Seq(Profile)]
            /\ recorded' \in [Thread -> Seq(Profile)]
        <4>0. quota[t] \in Nat /\ quota[t] # 0
          BY <3>1
        <4> HIDE DEF Typed
        <4>1. quota[t] - 1 \in Nat
          BY <4>0
        <4> USE DEF Typed
        <4>2. quota' \in [Thread -> Nat]
          BY <3>1, <4>1
        <4>3. completed' \in [Thread -> Seq(Profile)]
          BY <2>1, <3>1
        <4>4. recorded' \in [Thread -> Seq(Profile)]
          BY <2>1, <3>1
        <4>5. kept' \in [Thread -> Seq(Profile)]
          <5>1. CASE kept' = kept
            BY <5>1
          <5>2. CASE kept' = [kept EXCEPT ![t] = Append(kept[t], s)]
            BY <2>1, <5>2
          <5>3. QED
            BY <3>1, <5>1, <5>2
        <4>6. QED
          BY <4>2, <4>3, <4>4, <4>5
      <3>3. QED
        BY <1>4, <2>4, <2>5, <3>1, <3>2 DEF Finish, fileVars
    <2>7. CASE ~MayRecord(t)
      BY <1>4, <2>4, <2>5, <2>7 DEF Finish, fileVars
    <2>8. QED
      BY <2>6, <2>7
  <1>5. ASSUME NEW t \in Thread, FlushBegin(t) PROVE Typed'
    <2>1. Flushed(t) \in Place
      BY <1>5, FlushedPlace DEF FlushBegin, Place
    <2>2. pc' \in [Thread -> Place]
      BY <1>5, <2>1 DEF FlushBegin
    <2>3. file' = file \/ file' = <<>>
      BY <1>5 DEF FlushBegin
    <2>4. file' \in Seq(Profile)
      <3>1. file \in Seq(Profile) /\ <<>> \in Seq(Profile)
        BY EmptySeq
      <3> HIDE DEF Typed
      <3>2. QED
        BY <2>3, <3>1
    <2>5. /\ mutex' \in Thread \cup {NoThread} /\ cursor' \in Nat \ {0}
          /\ fileState' \in {"absent", "open", "complete"}
      <3>1. \/ UNCHANGED <<mutex, cursor, fileState>>
            \/ mutex' = t /\ cursor' = 1 /\ fileState' = "open"
        BY <1>5 DEF FlushBegin
      <3>2. /\ mutex \in Thread \cup {NoThread} /\ cursor \in Nat \ {0}
            /\ fileState \in {"absent", "open", "complete"}
        OBVIOUS
      <3> HIDE DEF Typed
      <3>3. QED
        BY <3>1, <3>2
    <2>8. copied' \in BOOLEAN
      BY <1>5 DEF FlushBegin
    <2>6. UNCHANGED <<config, group, tracker, sinks, written, scopeVars>>
      BY <1>5 DEF FlushBegin
    <2>7. QED
      BY <2>2, <2>4, <2>5, <2>6, <2>8 DEF scopeVars
  <1>6. ASSUME NEW t \in Thread, WriteSink(t) PROVE Typed'
    <2>1. sinks[cursor] \in Sink /\ cursor \in DOMAIN sinks
      BY <1>6 DEF WriteSink
    <2>2. CASE sinks[cursor] = Tracker
      <3>1. /\ cursor' = cursor + 1 /\ cursor' \in Nat \ {0}
            /\ UNCHANGED <<copied, file, written>>
        BY <1>6, <2>2 DEF WriteSink
      <3>2. QED
        BY <1>6, <3>1 DEF WriteSink, scopeVars
    <2>3. CASE sinks[cursor] # Tracker
      <3> DEFINE s == sinks[cursor]
      <3>1. s \in Thread
        BY <2>1, <2>3 DEF Sink
      <3>2. /\ file' = file \o completed[s] /\ copied' = TRUE
            /\ written' = [written EXCEPT ![s] = written[s] \o completed[s]]
        BY <1>6, <2>3 DEF WriteSink
      <3> HIDE DEF s
      <3>3. file' \in Seq(Profile) /\ written' \in [Thread -> Seq(Profile)]
        BY <3>1, <3>2
      <3>4. QED
        BY <1>6, <2>3, <3>2, <3>3 DEF WriteSink, scopeVars, s
    <2>4. QED
      BY <2>2, <2>3
  <1>7. ASSUME NEW t \in Thread, ClearSink(t) PROVE Typed'
    <2>0. sinks[cursor] \in Thread
      <3>1. cursor \in DOMAIN sinks /\ sinks[cursor] # Tracker
        BY <1>7 DEF ClearSink, Looping
      <3>2. sinks \in Seq(Sink)
        OBVIOUS
      <3> HIDE DEF Typed
      <3>3. QED
        BY <3>1, <3>2 DEF Sink
    <2>1. completed' \in [Thread -> Seq(Profile)]
      BY <1>7, <2>0 DEF ClearSink
    <2>2. cursor' \in Nat \ {0}
      BY <1>7 DEF ClearSink
    <2>5. copied' \in BOOLEAN
      BY <1>7 DEF ClearSink
    <2>3. UNCHANGED <<config, pc, group, quota, open, tracker, sinks, mutex,
                      file, fileState, finished, recorded, kept, written>>
      BY <1>7 DEF ClearSink
    <2>4. QED
      BY <2>1, <2>2, <2>3, <2>5
  <1>8. ASSUME NEW t \in Thread, FlushEnd(t) PROVE Typed'
    <2>1. Flushed(t) \in Place
      BY <1>8, FlushedPlace DEF FlushEnd, Looping, Place
    <2>2. pc' \in [Thread -> Place]
      BY <1>8, <2>1 DEF FlushEnd
    <2>3. mutex' = NoThread /\ cursor' = 1 /\ fileState' = "complete"
      BY <1>8 DEF FlushEnd
    <2>4. UNCHANGED <<config, group, tracker, sinks, copied, file, written,
                      quota, open, completed, finished, recorded, kept>>
      BY <1>8 DEF FlushEnd, scopeVars
    <2>5. mutex' \in Thread \cup {NoThread} /\ cursor' \in Nat \ {0}
          /\ fileState' \in {"absent", "open", "complete"}
      <3> HIDE DEF Typed
      <3>1. QED
        BY <2>3
    <2>6. QED
      BY <2>2, <2>4, <2>5
  <1>9. ASSUME NEW t \in Thread, Leave(t) PROVE Typed'
    BY <1>9 DEF Leave, scopeVars, fileVars, Statics, Place
  <1>10. ASSUME NEW t \in Thread, Unregister(t) PROVE Typed'
    BY <1>10 DEF Unregister, scopeVars, fileVars, Statics, Place
  <1>11. ASSUME NEW t \in Thread, UnregisterTracker(t) PROVE Typed'
    BY <1>11 DEF UnregisterTracker, scopeVars, fileVars, Place
  <1>12. CASE UNCHANGED vars
    BY <1>12 DEF vars
  <1>13. QED
    BY NextCases, <1>1, <1>2, <1>3, <1>4, <1>5, <1>6, <1>7, <1>8, <1>9,
       <1>10, <1>11, <1>12

-----------------------------------------------------------------------------
(* The order of destruction *)

\* A destructor that is past its flush goes on in its place of the order.
LEMMA FlushMoves ==
    ASSUME Typed, Places, UNCHANGED <<group, tracker, config>>,
           \/ UNCHANGED pc
           \/ \E t \in Thread : /\ pc[t] \in Flushing
                               /\ pc' = [pc EXCEPT ![t] = Flushed(t)]
    PROVE  Places'
  <1>1. CASE UNCHANGED pc
    BY <1>1 DEF Places
  <1>2. ASSUME NEW t \in Thread, pc[t] \in Flushing,
               pc' = [pc EXCEPT ![t] = Flushed(t)]
        PROVE  Places'
    <2>0. pc \in [Thread -> Place] /\ Main \in Thread
      BY TraceAssumption DEF Typed
    <2>1. CASE pc[t] = "group" /\ Flushed(t) = "unlist"
      BY <1>2, <2>0, <2>1 DEF Places
    <2>2. CASE pc[t] = "tracker" /\ Flushed(t) = "unlistTracker"
      BY <1>2, <2>0, <2>2 DEF Places
    <2>3. CASE pc[t] = "writer" /\ Flushed(t) = "gone"
      BY <1>2, <2>0, <2>3 DEF Places
    <2>4. QED
      BY <1>2, <2>1, <2>2, <2>3, FlushedPlace
  <1>3. QED
    BY <1>1, <1>2

\* Threads leave one way, and Main after the others.
LEMMA PlacesNext == Typed /\ Looping /\ Places /\ [Next]_vars => Places'
  <1> SUFFICES ASSUME Typed, Looping, Places, [Next]_vars PROVE Places'
    OBVIOUS
  <1>0. /\ pc \in [Thread -> Place]
        /\ group \in [Thread -> {"none", "tracing", "silent", "gone"}]
    BY DEF Typed
  <1> USE <1>0, TraceAssumption DEF Place, Places, Runs
  <1>1. ASSUME NEW t \in Thread, Attach(t) PROVE Places'
    <2>1. /\ pc[t] \in {"run", "init"} /\ pc' = [pc EXCEPT ![t] = "run"]
          /\ UNCHANGED <<tracker, config>>
      BY <1>1 DEF Attach
    <2>2. PICK g \in {"tracing", "silent"} : group' = [group EXCEPT ![t] = g]
      BY <1>1 DEF Attach
    <2>3. group[t] = "none"
      BY <1>1 DEF Attach
    <2>4. QED
      BY <2>1, <2>2, <2>3
  <1>2. ASSUME NEW t \in Thread, ConstructTracker(t) PROVE Places'
    BY <1>2 DEF ConstructTracker, scopeVars, fileVars, Register
  <1>3. ASSUME NEW t \in Thread, Begin(t) PROVE Places'
    BY <1>3 DEF Begin, fileVars
  <1>4. ASSUME NEW t \in Thread, NEW s \in open[t], Finish(t, s) PROVE Places'
    BY <1>4 DEF Finish, fileVars, MayRecord
  <1>5. ASSUME NEW t \in Thread, FlushBegin(t) PROVE Places'
    <2>1. \/ UNCHANGED pc
          \/ /\ pc[t] \in Flushing
             /\ pc' = [pc EXCEPT ![t] = Flushed(t)]
      BY <1>5 DEF FlushBegin
    <2>2. UNCHANGED <<group, tracker, config>>
      BY <1>5 DEF FlushBegin
    <2>3. QED
      BY <2>1, <2>2, FlushMoves
  <1>6. ASSUME NEW t \in Thread, WriteSink(t) PROVE Places'
    BY <1>6 DEF WriteSink, scopeVars
  <1>7. ASSUME NEW t \in Thread, ClearSink(t) PROVE Places'
    BY <1>7 DEF ClearSink
  <1>8. ASSUME NEW t \in Thread, FlushEnd(t) PROVE Places'
    <2>1. pc[t] \in Flushing /\ pc' = [pc EXCEPT ![t] = Flushed(t)]
      BY <1>8 DEF FlushEnd, Looping
    <2>2. UNCHANGED <<group, tracker, config>>
      BY <1>8 DEF FlushEnd
    <2>3. QED
      BY <2>1, <2>2, FlushMoves
  <1>9. ASSUME NEW t \in Thread, Leave(t) PROVE Places'
    <2>1. /\ pc[t] = "run" /\ Runs(t) /\ UNCHANGED <<group, tracker, config>>
          /\ t = Main => \A u \in Thread : pc[u] \in {"run", "gone"}
      BY <1>9 DEF Leave, Idle
    <2>2. PICK place : pc' = [pc EXCEPT ![t] = place]
          /\ place = IF group[t] = "tracing" THEN "group" ELSE Statics(t)
      BY <1>9 DEF Leave
    <2>3. CASE group[t] = "tracing"
      BY <2>1, <2>2, <2>3
    <2>4. CASE group[t] # "tracing" /\ t # Main
      BY <2>1, <2>2, <2>4 DEF Statics
    <2>5. CASE group[t] # "tracing" /\ t = Main
      BY <2>1, <2>2, <2>5 DEF Statics
    <2>6. QED
      BY <2>3, <2>4, <2>5
  <1>10. ASSUME NEW t \in Thread, Unregister(t) PROVE Places'
    <2>1. /\ pc[t] = "unlist" /\ UNCHANGED <<tracker, config>>
          /\ group' = [group EXCEPT ![t] = "gone"]
          /\ pc' = [pc EXCEPT ![t] = Statics(t)]
      BY <1>10 DEF Unregister
    <2>2. CASE t # Main
      BY <2>1, <2>2 DEF Statics
    <2>3. CASE t = Main
      BY <2>1, <2>3 DEF Statics
    <2>4. QED
      BY <2>2, <2>3
  <1>11. ASSUME NEW t \in Thread, UnregisterTracker(t) PROVE Places'
    BY <1>11 DEF UnregisterTracker, scopeVars, fileVars
  <1>12. CASE UNCHANGED vars
    BY <1>12 DEF vars
  <1>13. QED
    BY NextCases, <1>1, <1>2, <1>3, <1>4, <1>5, <1>6, <1>7, <1>8, <1>9,
       <1>10, <1>11, <1>12

-----------------------------------------------------------------------------
(* The list of sinks *)

\* The elements of the list are the living sinks.
Living ==
    /\ IsInjective(sinks)
    /\ \A s \in ToSet(sinks) : IF s = Tracker THEN tracker = "live"
                                              ELSE group[s] = "tracing"

\* SinksLive says of the places of the list what Living says of its elements.
LEMMA LivingRestated == SinksLive <=> Living
  BY DEF SinksLive, Living, ToSet

\* Objects and list that do not change stay in agreement.
LEMMA ListKept ==
    ASSUME UNCHANGED <<sinks, group, tracker>>
    PROVE  (Living' <=> Living) /\ (Listed' <=> Listed)
  BY DEF Living, Listed, ToSet, IsInjective

\* An object enters the list when it begins to live, and leaves it when it is
\* destroyed.
LEMMA ListNext ==
    Typed /\ Places /\ Living /\ Listed /\ [Next]_vars => Living' /\ Listed'
  <1> SUFFICES ASSUME Typed, Places, Living, Listed, [Next]_vars
               PROVE  Living' /\ Listed'
    OBVIOUS
  <1>0. /\ sinks \in Seq(Sink) /\ IsInjective(sinks)
        /\ group \in [Thread -> {"none", "tracing", "silent", "gone"}]
        /\ Tracker \notin Thread
    BY TraceAssumption DEF Typed, Living
  <1>a. ASSUME NEW e \in Sink, Register(e)
        PROVE  IsInjective(sinks') /\ ToSet(sinks') = ToSet(sinks) \cup {e}
    <2>1. sinks' = IF e \in ToSet(sinks) THEN sinks ELSE Append(sinks, e)
      BY <1>a DEF Register
    <2>2. PICK more : more = IF e \in ToSet(sinks) THEN sinks ELSE Append(sinks, e)
      OBVIOUS
    <2>3. IsInjective(more) /\ ToSet(more) = ToSet(sinks) \cup {e}
      <3>1. e \in Sink /\ sinks \in Seq(Sink) /\ IsInjective(sinks)
        BY <1>0
      <3>2. QED
        BY <2>2, <3>1, Registered
    <2>4. QED
      BY <2>1, <2>2, <2>3
  <1>1. CASE UNCHANGED <<sinks, group, tracker>>
    BY <1>1, ListKept
  <1>2. ASSUME NEW t \in Thread, Attach(t) PROVE Living' /\ Listed'
    <2>0. group[t] = "none" /\ UNCHANGED tracker
      BY <1>2 DEF Attach
    <2>1. CASE UNCHANGED sinks /\ group' = [group EXCEPT ![t] = "silent"]
      BY <1>0, <2>0, <2>1 DEF Living, Listed, ToSet, IsInjective
    <2>2. CASE Register(t) /\ group' = [group EXCEPT ![t] = "tracing"]
      <3>1. IsInjective(sinks') /\ ToSet(sinks') = ToSet(sinks) \cup {t}
        BY <1>a, <2>2 DEF Sink
      <3>2. QED
        BY <1>0, <2>0, <2>2, <3>1 DEF Living, Listed
    <2>3. QED
      BY <1>2, <2>1, <2>2 DEF Attach
  <1>3. ASSUME NEW t \in Thread, ConstructTracker(t) PROVE Living' /\ Listed'
    <2>0. tracker' = "live" /\ UNCHANGED group
      BY <1>3 DEF ConstructTracker
    <2>1. CASE UNCHANGED sinks
      BY <1>0, <2>0, <2>1 DEF Living, Listed, ToSet, IsInjective
    <2>2. CASE Register(Tracker)
      <3>1. IsInjective(sinks') /\ ToSet(sinks') = ToSet(sinks) \cup {Tracker}
        BY <1>a, <2>2 DEF Sink
      <3>2. QED
        BY <1>0, <2>0, <3>1 DEF Living, Listed
    <2>3. QED
      BY <1>3, <2>1, <2>2 DEF ConstructTracker
  <1>4. ASSUME NEW t \in Thread, Unregister(t) PROVE Living' /\ Listed'
    <2>1. group' = [group EXCEPT ![t] = "gone"] /\ UNCHANGED tracker
      BY <1>4 DEF Unregister
    <2>2. IsInjective(sinks') /\ ToSet(sinks') = ToSet(sinks) \ {t}
      BY <1>0, <1>4, Removed DEF Unregister
    <2>3. QED
      BY <1>0, <2>1, <2>2 DEF Living, Listed
  <1>5. ASSUME NEW t \in Thread, UnregisterTracker(t) PROVE Living' /\ Listed'
    <2>1. tracker' = "gone" /\ UNCHANGED group
      BY <1>5 DEF UnregisterTracker
    <2>2. IsInjective(sinks') /\ ToSet(sinks') = ToSet(sinks) \ {Tracker}
      BY <1>0, <1>5, Removed DEF UnregisterTracker
    <2>3. QED
      BY <1>0, <2>1, <2>2 DEF Living, Listed
  <1>6. ASSUME NEW t \in Thread,
               \/ Begin(t)
               \/ \E s \in open[t] : Finish(t, s)
               \/ FlushBegin(t) \/ WriteSink(t) \/ ClearSink(t) \/ FlushEnd(t)
               \/ Leave(t)
        PROVE  UNCHANGED <<sinks, group, tracker>>
    BY <1>6 DEF Begin, Finish, FlushBegin, WriteSink, ClearSink, FlushEnd, Leave
  <1>7. CASE UNCHANGED vars
    BY <1>1, <1>7 DEF vars
  <1>8. QED
    BY <1>1, <1>2, <1>3, <1>4, <1>5, <1>6, <1>7, NextCases

\* The loop of a flush stays within the list, under the mutex.
LEMMA LoopingNext == Typed /\ Looping /\ [Next]_vars => Looping'
  <1> SUFFICES ASSUME Typed, Looping, [Next]_vars PROVE Looping'
    OBVIOUS
  <1>0. /\ pc \in [Thread -> Place] /\ sinks \in Seq(Sink)
        /\ group \in [Thread -> {"none", "tracing", "silent", "gone"}]
        /\ mutex \in Thread \cup {NoThread} /\ cursor \in Nat \ {0}
        /\ NoThread \notin Thread /\ Tracker \notin Thread
    BY TraceAssumption DEF Typed
  <1> USE <1>0 DEF Looping, Flushing, Runs
  <1>1. ASSUME NEW t \in Thread, Attach(t) PROVE Looping'
    BY <1>1 DEF Attach, scopeVars, fileVars, Register
  <1>2. ASSUME NEW t \in Thread, ConstructTracker(t) PROVE Looping'
    BY <1>2 DEF ConstructTracker, scopeVars, fileVars, Register
  <1>3. ASSUME NEW t \in Thread, Begin(t) PROVE Looping'
    BY <1>3 DEF Begin, fileVars
  <1>4. ASSUME NEW t \in Thread, NEW s \in open[t], Finish(t, s) PROVE Looping'
    BY <1>4 DEF Finish, fileVars, MayRecord
  <1>5. ASSUME NEW t \in Thread, FlushBegin(t) PROVE Looping'
    BY <1>5 DEF FlushBegin, scopeVars
  <1>6. ASSUME NEW t \in Thread, WriteSink(t) PROVE Looping'
    <2>1. mutex = t /\ ~copied /\ cursor \in DOMAIN sinks
      BY <1>6 DEF WriteSink
    <2>2. UNCHANGED <<pc, sinks, mutex>>
      BY <1>6 DEF WriteSink
    <2>3. CASE sinks[cursor] = Tracker
      <3>1. UNCHANGED copied
        BY <1>6, <2>3 DEF WriteSink
      <3>2. QED
        BY <2>1, <2>2, <3>1
    <2>4. CASE sinks[cursor] # Tracker
      <3>1. UNCHANGED cursor
        BY <1>6, <2>4 DEF WriteSink
      <3>2. QED
        BY <2>1, <2>2, <2>4, <3>1
    <2>5. QED
      BY <2>3, <2>4
  <1>7. ASSUME NEW t \in Thread, ClearSink(t) PROVE Looping'
    BY <1>7 DEF ClearSink
  <1>8. ASSUME NEW t \in Thread, FlushEnd(t) PROVE Looping'
    BY <1>8 DEF FlushEnd, scopeVars
  <1>9. ASSUME NEW t \in Thread, Leave(t) PROVE Looping'
    BY <1>9 DEF Leave, scopeVars, fileVars
  <1>10. ASSUME NEW t \in Thread, Unregister(t) PROVE Looping'
    BY <1>10 DEF Unregister, scopeVars, fileVars
  <1>11. ASSUME NEW t \in Thread, UnregisterTracker(t) PROVE Looping'
    BY <1>11 DEF UnregisterTracker, scopeVars, fileVars
  <1>12. CASE UNCHANGED vars
    BY <1>12 DEF vars
  <1>13. QED
    BY NextCases, <1>1, <1>2, <1>3, <1>4, <1>5, <1>6, <1>7, <1>8, <1>9,
       <1>10, <1>11, <1>12

-----------------------------------------------------------------------------
(* What is recorded *)

\* A group that does not trace stays without anything to write.
LEMMA SilentNext == Typed /\ Places /\ Looping /\ Living /\ Silent /\
    [Next]_vars => Silent'
  <1> SUFFICES ASSUME Typed, Places, Looping, Living, Silent, [Next]_vars
                    PROVE Silent'
    OBVIOUS
  <1>0. /\ group \in [Thread -> {"none", "tracing", "silent", "gone"}]
        /\ open \in [Thread -> SUBSET Profile]
        /\ finished \in [Thread -> Seq(Profile)]
        /\ recorded \in [Thread -> Seq(Profile)]
        /\ completed \in [Thread -> Seq(Profile)]
        /\ written \in [Thread -> Seq(Profile)]
    BY DEF Typed
  <1> USE <1>0 DEF Silent
  <1>1. ASSUME NEW t \in Thread, Attach(t) PROVE Silent'
    BY <1>1 DEF Attach, scopeVars, fileVars
  <1>2. ASSUME NEW t \in Thread, ConstructTracker(t) PROVE Silent'
    BY <1>2 DEF ConstructTracker, scopeVars, fileVars
  <1>3. ASSUME NEW t \in Thread, Begin(t) PROVE Silent'
    BY <1>3 DEF Begin, fileVars
  <1>4. ASSUME NEW t \in Thread, NEW s \in open[t], Finish(t, s) PROVE Silent'
    BY <1>4 DEF Finish, fileVars, MayRecord, MayRecord
  <1>5. ASSUME NEW t \in Thread, FlushBegin(t) PROVE Silent'
    BY <1>5 DEF FlushBegin, scopeVars
  <1>6. ASSUME NEW t \in Thread, WriteSink(t) PROVE Silent'
    <2>1. CASE sinks[cursor] = Tracker
      BY <1>6, <2>1 DEF WriteSink, scopeVars
    <2>2. CASE sinks[cursor] # Tracker
      <3>1. sinks[cursor] \in ToSet(sinks)
        BY <1>6 DEF WriteSink, ToSet, Typed
      <3>2. group[sinks[cursor]] = "tracing"
        BY <2>2, <3>1 DEF Living
      <3>3. written' = [written EXCEPT ![sinks[cursor]] =
                          written[sinks[cursor]] \o completed[sinks[cursor]]]
        BY <1>6, <2>2 DEF WriteSink
      <3>4. UNCHANGED <<config, group, scopeVars>>
        BY <1>6 DEF WriteSink
      <3>5. QED
        BY <3>2, <3>3, <3>4 DEF scopeVars
    <2>3. QED
      BY <2>1, <2>2
  <1>7. ASSUME NEW t \in Thread, ClearSink(t) PROVE Silent'
    BY <1>7 DEF ClearSink
  <1>8. ASSUME NEW t \in Thread, FlushEnd(t) PROVE Silent'
    BY <1>8 DEF FlushEnd, scopeVars
  <1>9. ASSUME NEW t \in Thread, Leave(t) PROVE Silent'
    BY <1>9 DEF Leave, scopeVars, fileVars
  <1>10. ASSUME NEW t \in Thread, Unregister(t) PROVE Silent'
    BY <1>10 DEF Unregister, scopeVars, fileVars, Places
  <1>11. ASSUME NEW t \in Thread, UnregisterTracker(t) PROVE Silent'
    BY <1>11 DEF UnregisterTracker, scopeVars, fileVars
  <1>12. CASE UNCHANGED vars
    BY <1>12 DEF vars
  <1>13. QED
    BY NextCases, <1>1, <1>2, <1>3, <1>4, <1>5, <1>6, <1>7, <1>8, <1>9,
       <1>10, <1>11, <1>12

\* The quota is what is left to record.
LEMMA CountedNext == Typed /\ Places /\ Silent /\ Counted /\ [Next]_vars =>
    Counted'
  <1> SUFFICES ASSUME Typed, Places, Silent, Counted, [Next]_vars PROVE
                    Counted'
    OBVIOUS
  <1>0. /\ config.dump \in Nat /\ quota \in [Thread -> Nat]
        /\ group \in [Thread -> {"none", "tracing", "silent", "gone"}]
        /\ finished \in [Thread -> Seq(Profile)]
        /\ recorded \in [Thread -> Seq(Profile)]
    BY TraceAssumption DEF Typed
  <1>a. \A t \in Thread : open[t] \subseteq Profile
    BY DEF Typed
  <1> USE <1>0 DEF Counted
  <1>1. ASSUME NEW t \in Thread, Attach(t) PROVE Counted'
    <2>1. recorded[t] = <<>> /\ group[t] = "none"
      BY <1>1 DEF Attach, Silent
    <2>2. quota' = [quota EXCEPT ![t] = config.dump] /\ UNCHANGED <<config, recorded>>
      BY <1>1 DEF Attach
    <2>3. \A u \in Thread : u # t => group'[u] = group[u]
      BY <1>1 DEF Attach
    <2>4. Len(recorded[t]) = 0
      BY <2>1
    <2>5. QED
      BY <2>2, <2>3, <2>4
  <1>2. ASSUME NEW t \in Thread, ConstructTracker(t) PROVE Counted'
    BY <1>2 DEF ConstructTracker, scopeVars, fileVars
  <1>3. ASSUME NEW t \in Thread, Begin(t) PROVE Counted'
    BY <1>3 DEF Begin, fileVars
  <1>4. ASSUME NEW t \in Thread, NEW s \in open[t], Finish(t, s) PROVE Counted'
    <2>1. CASE MayRecord(t)
      <3>1. /\ quota' = [quota EXCEPT ![t] = quota[t] - 1] /\ quota[t] # 0
            /\ recorded' = [recorded EXCEPT ![t] = Append(recorded[t], s)]
            /\ UNCHANGED <<config, group>>
        BY <1>4, <2>1 DEF Finish, MayRecord
      <3>2. Len(Append(recorded[t], s)) = Len(recorded[t]) + 1
        BY <1>a, <1>4
      <3>3. /\ recorded'[t] = Append(recorded[t], s)
            /\ quota'[t] = quota[t] - 1
        BY <3>1
      <3>4. Len(recorded[t]) \in Nat
        OBVIOUS
      <3>5. ASSUME NEW u \in Thread, group'[u] \in {"tracing", "gone"}
            PROVE  quota'[u] + Len(recorded'[u]) = config'.dump
        <4>1. quota[u] + Len(recorded[u]) = config.dump /\ config' = config
          BY <3>1, <3>5
        <4>2. CASE u = t
          <5>1. quota[t] \in Nat
            OBVIOUS
          <5> HIDE <1>0 DEF Counted
          <5>2. QED
            BY <3>2, <3>3, <3>4, <4>1, <4>2, <5>1
        <4>3. CASE u # t
          <5>1. quota'[u] = quota[u] /\ recorded'[u] = recorded[u]
            BY <3>1, <4>3
          <5>2. QED
            BY <4>1, <5>1
        <4>4. QED
          BY <4>2, <4>3
      <3>6. QED
        BY <3>5
    <2>2. CASE ~MayRecord(t)
      BY <1>4, <2>2 DEF Finish
    <2>3. QED
      BY <2>1, <2>2
  <1>5. ASSUME NEW t \in Thread, FlushBegin(t) PROVE Counted'
    BY <1>5 DEF FlushBegin, scopeVars
  <1>6. ASSUME NEW t \in Thread, WriteSink(t) PROVE Counted'
    BY <1>6 DEF WriteSink, scopeVars
  <1>7. ASSUME NEW t \in Thread, ClearSink(t) PROVE Counted'
    BY <1>7 DEF ClearSink
  <1>8. ASSUME NEW t \in Thread, FlushEnd(t) PROVE Counted'
    BY <1>8 DEF FlushEnd, scopeVars
  <1>9. ASSUME NEW t \in Thread, Leave(t) PROVE Counted'
    BY <1>9 DEF Leave, scopeVars, fileVars
  <1>10. ASSUME NEW t \in Thread, Unregister(t) PROVE Counted'
    BY <1>10 DEF Unregister, scopeVars, fileVars, Places
  <1>11. ASSUME NEW t \in Thread, UnregisterTracker(t) PROVE Counted'
    BY <1>11 DEF UnregisterTracker, scopeVars, fileVars
  <1>12. CASE UNCHANGED vars
    BY <1>12 DEF vars
  <1>13. QED
    BY NextCases, <1>1, <1>2, <1>3, <1>4, <1>5, <1>6, <1>7, <1>8, <1>9,
       <1>10, <1>11, <1>12

\* The first n elements of s.
Firsts(s, n) == IF Len(s) <= n THEN s ELSE SubSeq(s, 1, n)

\* The first n elements stay the same once there are n of them, and are one
\* more with every element until then.
LEMMA FirstsOfAppend ==
    ASSUME NEW S, NEW s \in Seq(S), NEW e \in S, NEW n \in Nat
    PROVE  /\ Len(Firsts(s, n)) < n =>
                Firsts(Append(s, e), n) = Append(Firsts(s, n), e)
           /\ Len(Firsts(s, n)) = n => Firsts(Append(s, e), n) = Firsts(s, n)
  <1> DEFINE more == Append(s, e)
  <1>1. /\ more \in Seq(S) /\ Len(more) = Len(s) + 1 /\ Len(s) \in Nat
        /\ \A i \in 1..Len(s) : more[i] = s[i]
    OBVIOUS
  <1> HIDE DEF more
  <1>2. CASE Len(s) < n
    BY <1>1, <1>2 DEF Firsts, more
  <1>3. CASE Len(s) >= n
    <2> DEFINE left == SubSeq(more, 1, n)
               right == SubSeq(s, 1, n)
    <2>1. /\ left \in Seq(S) /\ Len(left) = n
          /\ \A i \in 1..n : left[i] = more[i]
      BY <1>1, <1>3
    <2>2. /\ right \in Seq(S) /\ Len(right) = n
          /\ \A i \in 1..n : right[i] = s[i]
      BY <1>1, <1>3
    <2> HIDE DEF left, right
    <2>3. \A i \in 1..n : left[i] = right[i]
      BY <1>1, <1>3, <2>1, <2>2
    <2>4. left = right
      BY <2>1, <2>2, <2>3
    <2>5. Firsts(more, n) = left
      BY <1>1, <1>3 DEF Firsts, left
    <2>6. Firsts(s, n) = right
      <3>1. CASE Len(s) > n
        BY <1>1, <3>1 DEF Firsts, right
      <3>2. CASE Len(s) = n
        <4>1. Firsts(s, n) = s
          BY <3>2 DEF Firsts
        <4>2. s = right
          BY <2>2, <3>2
        <4>3. QED
          BY <4>1, <4>2
      <3>3. QED
        BY <1>1, <1>3, <3>1, <3>2
    <2>7. QED
      BY <2>2, <2>4, <2>5, <2>6 DEF more
  <1>4. QED
    BY <1>1, <1>2, <1>3

\* A thread records the profiles it finishes until the quota is used up, and
\* none after that.
LEMMA FirstProfilesNext == Typed /\ Places /\ Silent /\ Counted /\
    FirstProfilesRecorded /\ [Next]_vars => FirstProfilesRecorded'
  <1> SUFFICES ASSUME Typed, Places, Silent, Counted, FirstProfilesRecorded,
                    [Next]_vars PROVE FirstProfilesRecorded'
    OBVIOUS
  <1>0. /\ config.dump \in Nat /\ quota \in [Thread -> Nat]
        /\ group \in [Thread -> {"none", "tracing", "silent", "gone"}]
        /\ finished \in [Thread -> Seq(Profile)]
        /\ recorded \in [Thread -> Seq(Profile)]
    BY TraceAssumption DEF Typed
  <1>a. \A t \in Thread : open[t] \subseteq Profile
    BY DEF Typed
  <1> USE <1>0 DEF FirstProfilesRecorded
  <1>1. ASSUME NEW t \in Thread, Attach(t) PROVE FirstProfilesRecorded'
    <2>1. recorded[t] = <<>> /\ finished[t] = <<>> /\ group[t] = "none"
      BY <1>1 DEF Attach, Silent
    <2>2. UNCHANGED <<config, recorded, finished>>
      BY <1>1 DEF Attach
    <2>3. /\ \A u \in Thread : u # t => group'[u] = group[u]
          /\ Len(finished[t]) = 0
      BY <1>1, <2>1 DEF Attach
    <2>4. QED
      BY <2>1, <2>2, <2>3
  <1>2. ASSUME NEW t \in Thread, ConstructTracker(t) PROVE FirstProfilesRecorded'
    BY <1>2 DEF ConstructTracker, scopeVars, fileVars
  <1>3. ASSUME NEW t \in Thread, Begin(t) PROVE FirstProfilesRecorded'
    BY <1>3 DEF Begin, fileVars
  <1>4. ASSUME NEW t \in Thread, NEW s \in open[t], Finish(t, s) PROVE FirstProfilesRecorded'
    <2>1. /\ finished' = [finished EXCEPT ![t] = Append(finished[t], s)]
          /\ UNCHANGED <<config, group>> /\ s \in Profile
      BY <1>a, <1>4 DEF Finish
    <2>2. /\ finished'[t] = Append(finished[t], s)
          /\ \A u \in Thread : u # t => finished'[u] = finished[u]
      BY <2>1
    <2>3. \A u \in Thread : u # t => recorded'[u] = recorded[u]
      BY <1>4 DEF Finish
    <2>4. ASSUME group[t] \in {"tracing", "gone"}
          PROVE  recorded'[t] = Firsts(finished'[t], config.dump)
      <3>1. recorded[t] = Firsts(finished[t], config.dump)
        BY <2>4 DEF Firsts
      <3>2. quota[t] + Len(recorded[t]) = config.dump /\ quota[t] \in Nat
        BY <2>4 DEF Counted
      <3>3. group[t] = "tracing"
        BY <2>4, <1>4 DEF Finish, Runs, Places
      <3>4. CASE quota[t] # 0
        <4>1. recorded'[t] = Append(recorded[t], s)
          BY <1>4, <3>3, <3>4 DEF Finish, MayRecord
        <4>2. Len(recorded[t]) \in Nat
          OBVIOUS
        <4> HIDE <1>0
        <4>3. Len(recorded[t]) < config.dump
          BY <3>2, <3>4, <4>2
        <4>4. QED
          BY <1>0, <2>1, <2>2, <3>1, <4>1, <4>3, FirstsOfAppend
      <3>5. CASE quota[t] = 0
        <4>1. recorded'[t] = recorded[t]
          BY <1>4, <3>5 DEF Finish, MayRecord
        <4>2. Len(recorded[t]) = config.dump
          BY <3>2, <3>5
        <4>3. QED
          BY <2>1, <2>2, <3>1, <4>1, <4>2, FirstsOfAppend
      <3>6. QED
        BY <3>4, <3>5
    <2>5. ASSUME group[t] \in {"none", "silent"}
          PROVE  recorded'[t] = <<>>
      BY <1>4, <2>5 DEF Finish, MayRecord
    <2>6. QED
      BY <2>1, <2>2, <2>3, <2>4, <2>5 DEF Firsts
  <1>5. ASSUME NEW t \in Thread, FlushBegin(t) PROVE FirstProfilesRecorded'
    BY <1>5 DEF FlushBegin, scopeVars
  <1>6. ASSUME NEW t \in Thread, WriteSink(t) PROVE FirstProfilesRecorded'
    BY <1>6 DEF WriteSink, scopeVars
  <1>7. ASSUME NEW t \in Thread, ClearSink(t) PROVE FirstProfilesRecorded'
    BY <1>7 DEF ClearSink
  <1>8. ASSUME NEW t \in Thread, FlushEnd(t) PROVE FirstProfilesRecorded'
    BY <1>8 DEF FlushEnd, scopeVars
  <1>9. ASSUME NEW t \in Thread, Leave(t) PROVE FirstProfilesRecorded'
    BY <1>9 DEF Leave, scopeVars, fileVars
  <1>10. ASSUME NEW t \in Thread, Unregister(t) PROVE FirstProfilesRecorded'
    BY <1>10 DEF Unregister, scopeVars, fileVars, Places
  <1>11. ASSUME NEW t \in Thread, UnregisterTracker(t) PROVE FirstProfilesRecorded'
    BY <1>11 DEF UnregisterTracker, scopeVars, fileVars
  <1>12. CASE UNCHANGED vars
    BY <1>12 DEF vars
  <1>13. QED
    BY NextCases, <1>1, <1>2, <1>3, <1>4, <1>5, <1>6, <1>7, <1>8, <1>9,
       <1>10, <1>11, <1>12

-----------------------------------------------------------------------------
(* What is written *)

\* A flush is at the same group as long as nothing moves it.
LEMMA CopyingKept ==
    ASSUME UNCHANGED <<copied, cursor, sinks>>, NEW t
    PROVE  Copying(t)' <=> Copying(t)
  BY DEF Copying

\* Appending after joining is appending to the second part.
LEMMA AppendToJoined ==
    ASSUME NEW a \in Seq(Profile), NEW b \in Seq(Profile), NEW e \in Profile
    PROVE  Append(a \o b, e) = a \o Append(b, e)
  <1> DEFINE left == Append(a \o b, e)
             right == a \o Append(b, e)
  <1>1. /\ a \o b \in Seq(Profile) /\ Len(a \o b) = Len(a) + Len(b)
        /\ Len(a) \in Nat /\ Len(b) \in Nat
    BY ConcatProperties
  <1>2. /\ Append(b, e) \in Seq(Profile) /\ Len(Append(b, e)) = Len(b) + 1
        /\ \A i \in 1..Len(b) : Append(b, e)[i] = b[i]
        /\ Append(b, e)[Len(b) + 1] = e
    OBVIOUS
  <1>3. /\ left \in Seq(Profile) /\ Len(left) = Len(a) + Len(b) + 1
        /\ left[Len(a) + Len(b) + 1] = e
        /\ \A i \in 1..Len(a) + Len(b) : left[i] = (a \o b)[i]
    BY <1>1
  <1>4. /\ right \in Seq(Profile) /\ Len(right) = Len(a) + Len(b) + 1
        /\ \A i \in 1..Len(a) : right[i] = a[i]
        /\ \A i \in Len(a)+1 .. Len(a)+Len(b)+1 :
             right[i] = Append(b, e)[i - Len(a)]
    BY <1>1, <1>2, ConcatProperties
  <1>5. /\ \A i \in 1..Len(a) : (a \o b)[i] = a[i]
        /\ \A i \in Len(a)+1 .. Len(a)+Len(b) : (a \o b)[i] = b[i - Len(a)]
    BY ConcatProperties
  <1> HIDE DEF left, right
  <1>6. ASSUME NEW i \in 1..Len(a)+Len(b)+1 PROVE left[i] = right[i]
    <2>1. CASE i \in 1..Len(a)
      BY <1>1, <1>3, <1>4, <1>5, <2>1
    <2>2. CASE i \in Len(a)+1 .. Len(a)+Len(b)
      <3>1. i - Len(a) \in 1..Len(b)
        BY <1>1, <2>2
      <3>2. right[i] = b[i - Len(a)]
        BY <1>1, <1>2, <1>4, <2>2, <3>1
      <3>3. left[i] = b[i - Len(a)]
        BY <1>1, <1>3, <1>5, <2>2
      <3>4. QED
        BY <3>2, <3>3
    <2>3. CASE i = Len(a)+Len(b)+1
      <3>1. i - Len(a) = Len(b) + 1 /\ i \in Len(a)+1 .. Len(a)+Len(b)+1
        BY <1>1, <2>3
      <3>2. right[i] = e
        BY <1>2, <1>4, <3>1
      <3>3. QED
        BY <1>3, <2>3, <3>2
    <2>4. QED
      BY <1>1, <2>1, <2>2, <2>3
  <1>7. left = right
    BY <1>1, <1>3, <1>4, <1>6
  <1>8. QED
    BY <1>7 DEF left, right

\* A profile is written once, when its group is flushed, or cleared unwritten if
\* it was stored behind the copy.
LEMMA KeptNext == Typed /\ Looping /\ Kept /\ [Next]_vars => Kept'
  <1> SUFFICES ASSUME Typed, Looping, Kept, [Next]_vars PROVE Kept'
    OBVIOUS
  <1>0. /\ finished \in [Thread -> Seq(Profile)]
        /\ kept \in [Thread -> Seq(Profile)]
        /\ completed \in [Thread -> Seq(Profile)]
        /\ written \in [Thread -> Seq(Profile)]
    BY DEF Typed
  <1>a. \A t \in Thread : open[t] \subseteq Profile
    BY DEF Typed
  <1>1. ASSUME NEW t \in Thread, Attach(t) PROVE Kept'
    <2>1. UNCHANGED <<kept, written, completed>>
      BY <1>1 DEF Attach, Register, fileVars
    <2>2. \A u \in Thread : Copying(u)' <=> Copying(u)
      <3>1. CASE UNCHANGED sinks
        BY <1>1, <3>1, CopyingKept DEF Attach, Register, fileVars
      <3>2. CASE mutex = NoThread
        <4>1. ~copied /\ ~copied'
          BY <1>1, <3>2 DEF Looping, Attach, Register, fileVars
        <4>2. QED
          BY <4>1 DEF Copying
      <3>3. QED
        BY <1>1, <3>1, <3>2 DEF Attach, Register, fileVars
    <2>3. QED
      BY <2>1, <2>2 DEF Kept
  <1>2. ASSUME NEW t \in Thread, ConstructTracker(t) PROVE Kept'
    <2>1. UNCHANGED <<kept, written, completed>>
      BY <1>2 DEF ConstructTracker, Register, fileVars, scopeVars
    <2>2. \A u \in Thread : Copying(u)' <=> Copying(u)
      <3>1. CASE UNCHANGED sinks
        BY <1>2, <3>1, CopyingKept DEF ConstructTracker, Register, fileVars, scopeVars
      <3>2. CASE mutex = NoThread
        <4>1. ~copied /\ ~copied'
          BY <1>2, <3>2 DEF Looping, ConstructTracker, Register, fileVars, scopeVars
        <4>2. QED
          BY <4>1 DEF Copying
      <3>3. QED
        BY <1>2, <3>1, <3>2 DEF ConstructTracker, Register, fileVars, scopeVars
    <2>3. QED
      BY <2>1, <2>2 DEF Kept
  <1>3. ASSUME NEW t \in Thread, Begin(t) PROVE Kept'
    <2>1. UNCHANGED <<kept, written, completed>>
      BY <1>3 DEF Begin, fileVars
    <2>2. \A u \in Thread : Copying(u)' <=> Copying(u)
      BY <1>3, CopyingKept DEF Begin, fileVars
    <2>3. QED
      BY <2>1, <2>2 DEF Kept
  <1>4. ASSUME NEW t \in Thread, NEW s \in open[t], Finish(t, s) PROVE Kept'
    <2>1. s \in Profile /\ UNCHANGED written
      BY <1>a, <1>4 DEF Finish, fileVars
    <2>2. \A u \in Thread : Copying(u)' <=> Copying(u)
      BY <1>4, CopyingKept DEF Finish, fileVars
    <2>3. CASE MayRecord(t)
      <3>1. /\ completed' = [completed EXCEPT ![t] = Append(completed[t], s)]
            /\ kept' = IF Copying(t) THEN kept
                       ELSE [kept EXCEPT ![t] = Append(kept[t], s)]
        BY <1>4, <2>3 DEF Finish, Copying
      <3>2. ASSUME NEW u \in Thread
            PROVE  kept'[u] = written'[u] \o
                      (IF Copying(u)' THEN <<>> ELSE completed'[u])
        <4>1. kept[u] = written[u] \o
                 (IF Copying(u) THEN <<>> ELSE completed[u])
          BY DEF Kept
        <4>2. CASE u = t /\ ~Copying(t)
          <5>1. /\ kept'[t] = Append(kept[t], s)
                /\ completed'[t] = Append(completed[t], s)
            BY <1>0, <3>1, <4>2
          <5>2. kept[t] = written[t] \o completed[t]
            BY <4>1, <4>2
          <5>3. Append(written[t] \o completed[t], s)
                  = written[t] \o Append(completed[t], s)
            <6>1. /\ written[t] \in Seq(Profile) /\ s \in Profile
                  /\ completed[t] \in Seq(Profile)
              BY <1>0, <2>1
            <6>2. QED
              BY <6>1, AppendToJoined
          <5>4. QED
            BY <2>1, <2>2, <4>2, <5>1, <5>2, <5>3
        <4>3. CASE u = t /\ Copying(t)
          <5>1. kept'[t] = kept[t]
            BY <3>1, <4>3
          <5>2. QED
            BY <2>1, <2>2, <4>1, <4>3, <5>1
        <4>4. CASE u # t
          <5>1. kept'[u] = kept[u] /\ completed'[u] = completed[u]
            BY <1>0, <3>1, <4>4
          <5>2. QED
            BY <2>1, <2>2, <4>1, <5>1
        <4>5. QED
          BY <4>2, <4>3, <4>4
      <3>3. QED
        BY <3>2 DEF Kept
    <2>4. CASE ~MayRecord(t)
      <3>1. UNCHANGED <<kept, completed>>
        BY <1>4, <2>4 DEF Finish
      <3>2. QED
        BY <2>1, <2>2, <3>1 DEF Kept
    <2>5. QED
      BY <2>3, <2>4
  <1>5. ASSUME NEW t \in Thread, FlushBegin(t) PROVE Kept'
    <2>1. UNCHANGED <<kept, written, completed>>
      BY <1>5 DEF FlushBegin, scopeVars
    <2>2. ~copied /\ ~copied'
      BY <1>5 DEF FlushBegin, Looping
    <2>3. QED
      BY <2>1, <2>2 DEF Kept, Copying
  <1>6. ASSUME NEW t \in Thread, WriteSink(t) PROVE Kept'
    <2>1. UNCHANGED <<kept, completed, sinks>> /\ ~copied
      BY <1>6 DEF WriteSink, scopeVars
    <2>2. CASE sinks[cursor] = Tracker
      <3>1. UNCHANGED <<copied, written>>
        BY <1>6, <2>2 DEF WriteSink
      <3>2. QED
        BY <2>1, <3>1 DEF Kept, Copying
    <2>3. CASE sinks[cursor] # Tracker
      <3>1. /\ copied' = TRUE /\ UNCHANGED cursor
            /\ written' = [written EXCEPT ![sinks[cursor]] =
                             written[sinks[cursor]] \o completed[sinks[cursor]]]
        BY <1>6, <2>3 DEF WriteSink
      <3>2. ASSUME NEW u \in Thread
            PROVE  kept'[u] = written'[u] \o
                      (IF Copying(u)' THEN <<>> ELSE completed'[u])
        <4>1. kept[u] = written[u] \o completed[u]
          BY <2>1 DEF Kept, Copying
        <4>2. CASE sinks[cursor] = u
          <5>1. written'[u] = kept[u]
            BY <1>0, <3>1, <4>1, <4>2
          <5>2. Copying(u)'
            BY <2>1, <3>1, <4>2 DEF Copying
          <5>3. kept[u] = kept[u] \o <<>>
            BY <1>0
          <5>4. QED
            BY <2>1, <5>1, <5>2, <5>3
        <4>3. CASE sinks[cursor] # u
          <5>1. written'[u] = written[u]
            BY <1>0, <3>1, <4>3
          <5>2. ~Copying(u)'
            BY <2>1, <3>1, <4>3 DEF Copying
          <5>3. QED
            BY <2>1, <4>1, <5>1, <5>2
        <4>4. QED
          BY <4>2, <4>3
      <3>3. QED
        BY <3>2 DEF Kept
    <2>4. QED
      BY <2>2, <2>3
  <1>7. ASSUME NEW t \in Thread, ClearSink(t) PROVE Kept'
    <2>1. UNCHANGED <<kept, written>> /\ copied /\ ~copied'
      BY <1>7 DEF ClearSink
    <2>2. completed' = [completed EXCEPT ![sinks[cursor]] = <<>>]
      BY <1>7 DEF ClearSink
    <2>3. ASSUME NEW u \in Thread
          PROVE  kept'[u] = written'[u] \o
                    (IF Copying(u)' THEN <<>> ELSE completed'[u])
      <3>1. kept[u] = written[u] \o
               (IF sinks[cursor] = u THEN <<>> ELSE completed[u])
        BY <2>1 DEF Kept, Copying
      <3>2. completed'[u] = IF sinks[cursor] = u THEN <<>> ELSE completed[u]
        BY <1>0, <2>2
      <3>3. ~Copying(u)'
        BY <2>1 DEF Copying
      <3>4. QED
        BY <2>1, <3>1, <3>2, <3>3
    <2>4. QED
      BY <2>3 DEF Kept
  <1>8. ASSUME NEW t \in Thread, FlushEnd(t) PROVE Kept'
    <2>1. UNCHANGED <<kept, written, completed>>
      BY <1>8 DEF FlushEnd, scopeVars
    <2>2. ~copied /\ ~copied'
      BY <1>8 DEF FlushEnd
    <2>3. QED
      BY <2>1, <2>2 DEF Kept, Copying
  <1>9. ASSUME NEW t \in Thread, Leave(t) PROVE Kept'
    <2>1. UNCHANGED <<kept, written, completed>>
      BY <1>9 DEF Leave, scopeVars, fileVars
    <2>2. \A u \in Thread : Copying(u)' <=> Copying(u)
      BY <1>9, CopyingKept DEF Leave, scopeVars, fileVars
    <2>3. QED
      BY <2>1, <2>2 DEF Kept
  <1>10. ASSUME NEW t \in Thread, Unregister(t) PROVE Kept'
    <2>1. UNCHANGED <<kept, written, completed>>
      BY <1>10 DEF Unregister, scopeVars, fileVars
    <2>2. \A u \in Thread : Copying(u)' <=> Copying(u)
      <3>1. CASE UNCHANGED sinks
        BY <1>10, <3>1, CopyingKept DEF Unregister, scopeVars, fileVars
      <3>2. CASE mutex = NoThread
        <4>1. ~copied /\ ~copied'
          BY <1>10, <3>2 DEF Looping, Unregister, scopeVars, fileVars
        <4>2. QED
          BY <4>1 DEF Copying
      <3>3. QED
        BY <1>10, <3>1, <3>2 DEF Unregister, scopeVars, fileVars
    <2>3. QED
      BY <2>1, <2>2 DEF Kept
  <1>11. ASSUME NEW t \in Thread, UnregisterTracker(t) PROVE Kept'
    <2>1. UNCHANGED <<kept, written, completed>>
      BY <1>11 DEF UnregisterTracker, scopeVars, fileVars
    <2>2. \A u \in Thread : Copying(u)' <=> Copying(u)
      <3>1. CASE UNCHANGED sinks
        BY <1>11, <3>1, CopyingKept DEF UnregisterTracker, scopeVars, fileVars
      <3>2. CASE mutex = NoThread
        <4>1. ~copied /\ ~copied'
          BY <1>11, <3>2 DEF Looping, UnregisterTracker, scopeVars, fileVars
        <4>2. QED
          BY <4>1 DEF Copying
      <3>3. QED
        BY <1>11, <3>1, <3>2 DEF UnregisterTracker, scopeVars, fileVars
    <2>3. QED
      BY <2>1, <2>2 DEF Kept
  <1>12. CASE UNCHANGED vars
    <2>1. UNCHANGED <<kept, written, completed>>
      BY <1>12 DEF vars
    <2>2. \A u \in Thread : Copying(u)' <=> Copying(u)
      BY <1>12, CopyingKept DEF vars
    <2>3. QED
      BY <2>1, <2>2 DEF Kept
  <1>13. QED
    BY NextCases, <1>1, <1>2, <1>3, <1>4, <1>5, <1>6, <1>7, <1>8, <1>9,
       <1>10, <1>11, <1>12

-----------------------------------------------------------------------------
(* One thread that profiles *)

\* Only a thread that profiles, and the tracker, put anything into the list
\* and the file.
LEMMA BlankNext == Typed /\ Places /\ Silent /\ Looping /\ Blank /\
    [Next]_vars => Blank'
  <1> SUFFICES ASSUME Typed, Places, Silent, Looping, Blank, [Next]_vars
                    PROVE Blank'
    OBVIOUS
  <1>0. /\ pc \in [Thread -> Place] /\ Main \in Thread
        /\ group \in [Thread -> {"none", "tracing", "silent", "gone"}]
        /\ mutex \in Thread \cup {NoThread}
        /\ NoThread \notin Thread /\ Tracker \notin Thread
    BY TraceAssumption DEF Typed
  <1>1. ASSUME NEW t \in Thread, Attach(t) PROVE Blank'
    <2>1. group'[t] # "none"
      BY <1>0, <1>1 DEF Attach
    <2>2. Attached' # {}
      BY <2>1 DEF Attached
    <2>3. QED
      BY <2>2 DEF Blank
  <1>2. ASSUME NEW t \in Thread, ConstructTracker(t) PROVE Blank'
    <2>1. UNCHANGED <<group, config, file, fileState>>
      BY <1>2 DEF ConstructTracker, scopeVars, fileVars
    <2>2. ~config.switchCpu => UNCHANGED sinks
      BY <1>2 DEF ConstructTracker
    <2>3. QED
      BY <2>1, <2>2 DEF Blank, Attached
  <1>3. ASSUME NEW t \in Thread, Begin(t) PROVE Blank'
    <2>1. group[t] # "none" /\ UNCHANGED group
      BY <1>3 DEF Begin
    <2>2. Attached' # {}
      BY <1>0, <2>1 DEF Attached
    <2>3. QED
      BY <2>2 DEF Blank
  <1>4. ASSUME NEW t \in Thread, NEW s \in open[t], Finish(t, s) PROVE Blank'
    <2>1. group[t] # "none" /\ UNCHANGED group
      BY <1>4 DEF Finish, Silent
    <2>2. Attached' # {}
      BY <1>0, <2>1 DEF Attached
    <2>3. QED
      BY <2>2 DEF Blank
  <1>5. ASSUME NEW t \in Thread, FlushBegin(t) PROVE Blank'
    <2>1. UNCHANGED <<group, config, sinks>>
      BY <1>5 DEF FlushBegin, scopeVars
    <2>2. sinks = <<>> => UNCHANGED <<file, fileState>>
      BY <1>5 DEF FlushBegin
    <2>3. QED
      BY <2>1, <2>2 DEF Blank, Attached
  <1>6. ASSUME NEW t \in Thread, WriteSink(t) PROVE Blank'
    <2>1. UNCHANGED <<group, config, sinks>> /\ sinks # <<>>
      BY <1>0, <1>6 DEF WriteSink, Looping
    <2>2. QED
      BY <2>1 DEF Blank, Attached
  <1>7. ASSUME NEW t \in Thread, ClearSink(t) PROVE Blank'
    <2>1. UNCHANGED <<group, config, sinks>> /\ sinks # <<>>
      BY <1>0, <1>7 DEF ClearSink, Looping
    <2>2. QED
      BY <2>1 DEF Blank, Attached
  <1>8. ASSUME NEW t \in Thread, FlushEnd(t) PROVE Blank'
    <2>1. UNCHANGED <<group, config, sinks>> /\ sinks # <<>>
      BY <1>0, <1>8 DEF FlushEnd, Looping
    <2>2. QED
      BY <2>1 DEF Blank, Attached
  <1>9. ASSUME NEW t \in Thread, Leave(t) PROVE Blank'
    BY <1>9 DEF Leave, scopeVars, fileVars, Blank, Attached
  <1>10. ASSUME NEW t \in Thread, Unregister(t) PROVE Blank'
    <2>1. group'[t] = "gone"
      BY <1>0, <1>10 DEF Unregister
    <2>2. Attached' # {}
      BY <2>1 DEF Attached
    <2>3. QED
      BY <2>2 DEF Blank
  <1>11. ASSUME NEW t \in Thread, UnregisterTracker(t) PROVE Blank'
    <2>1. config.switchCpu /\ UNCHANGED config
      BY <1>11 DEF UnregisterTracker, Places
    <2>2. QED
      BY <2>1 DEF Blank
  <1>12. CASE UNCHANGED vars
    BY <1>12 DEF vars, Blank, Attached
  <1>13. QED
    BY NextCases, <1>1, <1>2, <1>3, <1>4, <1>5, <1>6, <1>7, <1>8, <1>9,
       <1>10, <1>11, <1>12

\* The one thread that profiles loses nothing in any step of any thread.
LEMMA SoleNext ==
    ASSUME Typed, Places, Silent, Looping, Blank, [Next]_vars,
           NEW u \in Thread, Sole(u)
    PROVE  Sole(u)'
  <1> SUFFICES ASSUME Attached' = {u}, ~config.switchCpu'
               PROVE  SoleNow(u)'
    BY DEF Sole
  <1>0. /\ pc \in [Thread -> Place] /\ Main \in Thread
        /\ group \in [Thread -> {"none", "tracing", "silent", "gone"}]
        /\ mutex \in Thread \cup {NoThread}
        /\ NoThread \notin Thread /\ Tracker \notin Thread
    BY TraceAssumption DEF Typed
  <1>a. group'[u] # "none" /\ \A t \in Thread : t # u => group'[t] = "none"
    BY DEF Attached
  <1>1. ASSUME NEW t \in Thread, Attach(t) PROVE SoleNow(u)'
    <2>1. group'[t] # "none" /\ group[t] = "none"
      BY <1>0, <1>1 DEF Attach
    <2>2. t = u
      BY <1>a, <2>1
    <2>3. \A v \in Thread : v # u => group[v] = "none"
      BY <1>0, <1>1, <1>a, <2>2 DEF Attach
    <2>4. Attached = {}
      BY <2>1, <2>2, <2>3 DEF Attached
    <2>5. UNCHANGED <<config, mutex, file, fileState, completed, recorded>>
      BY <1>1 DEF Attach, fileVars
    <2>6. sinks = <<>> /\ file = <<>> /\ fileState = "absent"
      BY <2>4, <2>5 DEF Blank
    <2>7. mutex = NoThread
      BY <2>6 DEF Looping
    <2>8. recorded[u] = <<>> /\ completed[u] = <<>>
      BY <2>1, <2>2 DEF Silent
    <2>9. \/ group'[u] = "tracing" /\ sinks' = <<u>>
          \/ group'[u] = "silent" /\ sinks' = <<>>
      <3>1. CASE Register(u) /\ group'[u] = "tracing"
        <4>1. u \notin ToSet(sinks)
          BY <2>6 DEF ToSet
        <4>2. sinks' = Append(sinks, u)
          BY <3>1, <4>1 DEF Register
        <4>3. sinks' = <<u>>
          BY <2>6, <4>2
        <4>4. QED
          BY <3>1, <4>3
      <3>2. CASE group'[u] = "silent" /\ UNCHANGED sinks
        BY <2>6, <3>2
      <3>3. QED
        BY <1>0, <1>1, <2>2, <3>1, <3>2 DEF Attach
    <2>10. ~Saved(u)'
      BY <1>0, <1>1, <2>2, <2>9 DEF Attach, Runs, Saved
    <2>11. QED
      BY <2>5, <2>6, <2>7, <2>8, <2>9, <2>10 DEF SoleNow
  <1>2. ASSUME NEW t \in Thread, ConstructTracker(t) PROVE SoleNow(u)'
    <2>1. UNCHANGED <<group, config, mutex, scopeVars, fileVars>>
      BY <1>2 DEF ConstructTracker
    <2>2. UNCHANGED sinks
      BY <1>2, <2>1 DEF ConstructTracker
    <2>3. SoleNow(u)
      BY <2>1 DEF Sole, Attached
    <2>4. Saved(u)' <=> Saved(u)
      BY <1>0, <1>2, <2>1 DEF ConstructTracker, Runs, Saved
    <2>5. QED
      BY <2>1, <2>2, <2>3, <2>4 DEF SoleNow, scopeVars, fileVars
  <1>3. ASSUME NEW t \in Thread, Begin(t) PROVE SoleNow(u)'
    BY <1>3 DEF Begin, fileVars, Sole, SoleNow, Saved, Attached
  <1>4. ASSUME NEW t \in Thread, NEW s \in open[t], Finish(t, s)
        PROVE SoleNow(u)'
    <2>1. UNCHANGED <<config, pc, group, tracker, sinks, mutex, fileVars>>
      BY <1>4 DEF Finish
    <2>2. SoleNow(u)
      BY <2>1 DEF Sole, Attached
    <2>3. t = u
      BY <1>4, <1>a, <2>1 DEF Silent
    <2>4. Saved(u)' <=> Saved(u)
      BY <2>1 DEF Saved
    <2>5. CASE MayRecord(u)
      <3>1. group[u] = "tracing" /\ ~Saved(u)
        BY <1>4, <2>3, <2>5 DEF Finish, Runs, Saved, MayRecord
      <3>2. mutex = NoThread
        <4>1. SUFFICES ASSUME mutex \in Thread PROVE FALSE
          BY <1>0
        <4>2. pc[mutex] \in Flushing
          BY <1>0, <4>1 DEF Looping
        <4>3. mutex # u /\ mutex # Main
          BY <1>4, <2>3, <4>2 DEF Finish, Runs, Flushing
        <4>4. pc[mutex] = "group"
          BY <4>1, <4>2, <4>3 DEF Places, Flushing
        <4>5. group[mutex] = "tracing"
          BY <4>1, <4>4 DEF Places
        <4>6. QED
          BY <1>a, <2>1, <4>1, <4>3, <4>5
      <3>3. ~copied /\ completed[u] = recorded[u] /\ file = <<>>
            /\ fileState = "absent"
        BY <2>2, <3>1, <3>2 DEF Looping, SoleNow
      <3>4. /\ recorded' = [recorded EXCEPT ![u] = Append(recorded[u], s)]
            /\ completed' = [completed EXCEPT ![u] = Append(completed[u], s)]
        BY <1>4, <2>3, <2>5 DEF Finish
      <3>5. completed'[u] = recorded'[u]
        <4>1. /\ recorded'[u] = Append(recorded[u], s)
              /\ completed'[u] = Append(completed[u], s)
          BY <3>4 DEF Typed
        <4>2. QED
          BY <3>3, <4>1
      <3>6. QED
        BY <2>1, <2>2, <2>4, <3>1, <3>2, <3>3, <3>5 DEF SoleNow, fileVars
    <2>6. CASE ~MayRecord(u)
      <3>1. UNCHANGED <<completed, recorded>>
        BY <1>4, <2>3, <2>6 DEF Finish
      <3>2. QED
        BY <2>1, <2>2, <2>4, <3>1 DEF SoleNow, fileVars
    <2>7. QED
      BY <2>5, <2>6
  <1>5. ASSUME NEW t \in Thread, FlushBegin(t) PROVE SoleNow(u)'
    <2>1. UNCHANGED <<config, group, tracker, sinks, written, scopeVars>>
      BY <1>5 DEF FlushBegin
    <2>2. SoleNow(u) /\ mutex = NoThread /\ pc[t] \in Flushing
      BY <1>5, <2>1 DEF Sole, Attached, FlushBegin
    <2>3. pc[t] = "group" => t = u /\ group[u] = "tracing"
      BY <1>a, <2>1 DEF Places
    <2>4. pc[t] \in {"group", "writer"} /\ (pc[t] = "writer" => t = Main)
      BY <2>1, <2>2 DEF Places, Flushing
    <2>5. CASE sinks = <<>>
      <3>1. group[u] # "tracing" /\ UNCHANGED <<mutex, cursor, copied, file, fileState>>
        BY <1>5, <2>2, <2>5 DEF FlushBegin, SoleNow
      <3>2. pc[t] = "writer" /\ t = Main
        BY <2>3, <2>4, <3>1
      <3>3. group[u] = "silent" \/ group[u] = "gone"
        BY <1>0, <1>a, <2>1, <3>1
      <3>4. Saved(u)' /\ (group[u] = "gone" => Saved(u))
        BY <1>0, <1>5, <2>5, <3>2 DEF FlushBegin, Flushed, Saved
      <3>5. QED
        BY <2>1, <2>2, <3>1, <3>3, <3>4 DEF SoleNow, scopeVars
    <2>6. CASE sinks # <<>>
      <3>1. group[u] = "tracing" /\ sinks = <<u>>
        BY <2>2, <2>6 DEF SoleNow
      <3>2. /\ mutex' = t /\ cursor' = 1 /\ ~copied' /\ file' = <<>>
            /\ UNCHANGED pc
        BY <1>5, <2>6 DEF FlushBegin
      <3>3. ~Saved(u)
        <4>1. pc[Main] # "gone"
          BY <1>0, <2>3, <2>4 DEF Places
        <4>2. pc[u] # "unlist"
          BY <1>0, <2>3, <2>4 DEF Places
        <4>3. QED
          BY <3>1, <4>1, <4>2 DEF Saved
      <3>4. completed[u] = recorded[u]
        BY <2>2, <3>1, <3>3 DEF SoleNow
      <3>5. ~Saved(u)' /\ mutex' # NoThread
        BY <1>0, <2>1, <3>2, <3>3 DEF Saved
      <3>6. QED
        BY <2>1, <2>2, <3>1, <3>2, <3>4, <3>5 DEF SoleNow, scopeVars
    <2>7. QED
      BY <2>5, <2>6
  <1>6. ASSUME NEW t \in Thread, WriteSink(t) PROVE SoleNow(u)'
    <2>1. UNCHANGED <<config, pc, group, tracker, sinks, mutex, scopeVars>>
      BY <1>6 DEF WriteSink
    <2>2. SoleNow(u) /\ mutex = t /\ ~copied /\ cursor <= Len(sinks)
      BY <1>6, <2>1 DEF Sole, Attached, WriteSink
    <2>3. mutex # NoThread /\ sinks # <<>>
      BY <1>0, <2>2 DEF Looping
    <2>4. group[u] = "tracing" /\ sinks = <<u>> /\ ~Saved(u)
      BY <2>2, <2>3 DEF SoleNow
    <2>5. Len(sinks) = 1 /\ sinks[1] = u
      BY <2>4
    <2>6. cursor = 1 /\ file = <<>> /\ completed[u] = recorded[u]
      BY <2>2, <2>3, <2>5 DEF SoleNow
    <2>7. copied' = TRUE /\ file' = file \o completed[u] /\ UNCHANGED cursor
      BY <1>0, <1>6, <2>5, <2>6 DEF WriteSink
    <2>8. file' = recorded[u]
      BY <2>6, <2>7 DEF Typed
    <2>9. ~Saved(u)'
      BY <2>1, <2>4 DEF Saved
    <2>10. QED
      BY <2>1, <2>2, <2>3, <2>4, <2>6, <2>7, <2>8, <2>9 DEF SoleNow, scopeVars
  <1>7. ASSUME NEW t \in Thread, ClearSink(t) PROVE SoleNow(u)'
    <2>1. UNCHANGED <<config, pc, group, sinks, mutex, file, recorded>>
      BY <1>7 DEF ClearSink
    <2>2. SoleNow(u) /\ mutex = t /\ copied /\ ~copied' /\ cursor' = cursor + 1
      BY <1>7, <2>1 DEF Sole, Attached, ClearSink
    <2>3. mutex # NoThread /\ sinks # <<>>
      BY <1>0, <2>2 DEF Looping
    <2>4. group[u] = "tracing" /\ sinks = <<u>> /\ ~Saved(u)
      BY <2>2, <2>3 DEF SoleNow
    <2>5. cursor = 1 /\ file = recorded[u]
      BY <2>2, <2>3 DEF SoleNow
    <2>6. ~Saved(u)'
      BY <2>1, <2>4 DEF Saved
    <2>7. QED
      BY <2>1, <2>2, <2>3, <2>4, <2>5, <2>6 DEF SoleNow
  <1>8. ASSUME NEW t \in Thread, FlushEnd(t) PROVE SoleNow(u)'
    <2>1. UNCHANGED <<config, group, tracker, sinks, copied, file, scopeVars>>
      BY <1>8 DEF FlushEnd
    <2>2. SoleNow(u) /\ mutex = t /\ ~copied /\ cursor > Len(sinks)
      BY <1>8, <2>1 DEF Sole, Attached, FlushEnd
    <2>3. mutex # NoThread /\ sinks # <<>> /\ pc[t] \in Flushing
      BY <1>0, <2>2 DEF Looping
    <2>4. group[u] = "tracing" /\ sinks = <<u>>
      BY <2>2, <2>3 DEF SoleNow
    <2>5. Len(sinks) = 1
      BY <2>4
    <2>6. file = recorded[u]
      BY <2>2, <2>3, <2>5 DEF SoleNow
    <2>7. pc[t] \in {"group", "writer"} /\ (pc[t] = "writer" => t = Main)
      BY <2>1, <2>3 DEF Places, Flushing
    <2>8. pc[t] = "group" => t = u
      BY <1>a, <2>1 DEF Places
    <2>9. /\ pc' = [pc EXCEPT ![t] = Flushed(t)] /\ mutex' = NoThread
          /\ fileState' = "complete"
      BY <1>8 DEF FlushEnd
    <2>10. Saved(u)'
      BY <1>0, <2>7, <2>8, <2>9 DEF Saved, Flushed
    <2>11. QED
      BY <2>1, <2>2, <2>4, <2>6, <2>9, <2>10 DEF SoleNow, scopeVars
  <1>9. ASSUME NEW t \in Thread, Leave(t) PROVE SoleNow(u)'
    <2>1. UNCHANGED <<config, group, tracker, sinks, mutex, scopeVars, fileVars>>
      BY <1>9 DEF Leave
    <2>2. SoleNow(u)
      BY <2>1 DEF Sole, Attached
    <2>3. /\ pc[t] = "run" /\ pc[Main] \in {"run", "init"}
          /\ \/ pc' = [pc EXCEPT ![t] = "group"]
             \/ pc' = [pc EXCEPT ![t] = Statics(t)]
      BY <1>9 DEF Leave, Runs, Idle
    <2>4. Statics(t) # "unlist" /\ (t = Main => Statics(t) # "gone")
      BY DEF Statics
    <2>5. Saved(u)' <=> Saved(u)
      BY <1>0, <2>1, <2>3, <2>4 DEF Saved
    <2>6. QED
      BY <2>1, <2>2, <2>5 DEF SoleNow, scopeVars, fileVars
  <1>10. ASSUME NEW t \in Thread, Unregister(t) PROVE SoleNow(u)'
    <2>1. UNCHANGED <<config, tracker, mutex, scopeVars, fileVars>>
      BY <1>10 DEF Unregister
    <2>2. group[t] = "tracing" /\ group' = [group EXCEPT ![t] = "gone"]
      BY <1>10 DEF Unregister, Places
    <2>3. t = u
      BY <1>0, <1>a, <2>2
    <2>4. Attached = {u}
      BY <1>0, <1>a, <2>2, <2>3 DEF Attached
    <2>5. SoleNow(u) /\ Saved(u) /\ Saved(u)' /\ sinks = <<u>>
      BY <1>0, <1>10, <2>1, <2>2, <2>3, <2>4 DEF Sole, SoleNow, Saved, Unregister
    <2>6. sinks' = <<>>
      <3>1. sinks \in Seq(Thread) /\ IsInjective(sinks) /\ ToSet(sinks) = {u}
        BY <2>5 DEF IsInjective, ToSet
      <3>2. sinks' \in Seq(Thread) /\ ToSet(sinks') = {}
        BY <1>10, <2>3, <3>1, Removed DEF Unregister
      <3>3. 1 \notin DOMAIN sinks'
        BY <3>2 DEF ToSet
      <3>4. QED
        BY <3>2, <3>3
    <2>7. group'[u] = "gone" /\ mutex = NoThread
      BY <1>0, <1>10, <2>2, <2>3 DEF Unregister
    <2>8. file = recorded[u] /\ fileState = "complete"
      BY <2>2, <2>3, <2>5 DEF SoleNow
    <2>9. QED
      BY <2>1, <2>5, <2>6, <2>7, <2>8 DEF SoleNow, scopeVars, fileVars
  <1>11. ASSUME NEW t \in Thread, UnregisterTracker(t) PROVE SoleNow(u)'
    <2>1. config.switchCpu /\ UNCHANGED config
      BY <1>11 DEF UnregisterTracker, Places
    <2>2. QED
      BY <2>1
  <1>12. CASE UNCHANGED vars
    BY <1>12 DEF vars, Sole, SoleNow, Saved, Attached
  <1>13. QED
    BY NextCases, <1>1, <1>2, <1>3, <1>4, <1>5, <1>6, <1>7, <1>8, <1>9,
       <1>10, <1>11, <1>12

-----------------------------------------------------------------------------
(* The inductive invariant and what follows from it *)

\* It holds before any thread has done anything.
LEMMA IInvInit == Init => IInv
  <1> SUFFICES ASSUME Init PROVE IInv
    OBVIOUS
  <1>1. Typed
    BY TypedInit
  <1>2. Places
    BY TraceAssumption DEF Init, Places
  <1>3. Silent
    BY DEF Init, Silent
  <1>4. Looping
    BY DEF Init, Looping
  <1>5. SinksLive
    BY DEF Init, SinksLive, IsInjective
  <1>6. Listed
    BY DEF Init, Listed
  <1>7. Counted
    BY DEF Init, Counted
  <1>8. FirstProfilesRecorded
    BY DEF Init, FirstProfilesRecorded
  <1>9. Kept
    BY DEF Init, Kept, Copying
  <1>10. Blank
    BY DEF Init, Blank
  <1>11. \A t \in Thread : Sole(t)
    BY DEF Init, Sole, Attached
  <1>12. QED
    BY <1>1, <1>2, <1>3, <1>4, <1>5, <1>6, <1>7, <1>8, <1>9, <1>10, <1>11
    DEF IInv

\* Every step keeps it.
LEMMA IInvNext == IInv /\ [Next]_vars => IInv'
  <1> SUFFICES ASSUME IInv, [Next]_vars PROVE IInv'
    OBVIOUS
  <1>0. Living
    BY LivingRestated DEF IInv
  <1>1. Typed'
    BY TypedNext DEF IInv, SinksLive
  <1>2. Places'
    BY PlacesNext DEF IInv
  <1>3. Living' /\ Listed'
    BY <1>0, ListNext DEF IInv
  <1>4. SinksLive'
    BY <1>3 DEF Living, SinksLive, ToSet
  <1>5. Looping'
    BY LoopingNext DEF IInv
  <1>6. Silent'
    BY <1>0, SilentNext DEF IInv
  <1>7. Counted'
    BY CountedNext DEF IInv
  <1>8. FirstProfilesRecorded'
    BY FirstProfilesNext DEF IInv
  <1>9. Kept'
    BY KeptNext DEF IInv
  <1>10. Blank'
    BY BlankNext DEF IInv
  <1>11. ASSUME NEW t \in Thread PROVE Sole(t)'
    BY SoleNext DEF IInv
  <1>12. QED
    BY <1>1, <1>2, <1>3, <1>4, <1>5, <1>6, <1>7, <1>8, <1>9, <1>10, <1>11
    DEF IInv

\* The inductive invariant holds in every state a process can reach.
THEOREM Invariant == Spec => []IInv
  BY IInvInit, IInvNext, PTL DEF Spec

\* The writer never holds a pointer to a destroyed group or tracker, in
\* whatever order threads exit and statics are destroyed.
THEOREM SinksAlive == Spec => []SinksLive
  <1>1. IInv => SinksLive
    BY DEF IInv
  <1>2. QED
    BY <1>1, Invariant, PTL

\* dump=N records the first N profiles each thread finishes, in that order,
\* for every N and however scopes are nested.
THEOREM FirstProfiles == Spec => []FirstProfilesRecorded
  <1>1. IInv => FirstProfilesRecorded
    BY DEF IInv
  <1>2. QED
    BY <1>1, Invariant, PTL

\* Whoever flushes and whichever profiles are lost to a store between the copy
\* and the clear of a list: the others are written once and in order, or still
\* wait in their group.
THEOREM WrittenOnce == Spec => []RecordedOnce
  <1>1. IInv => RecordedOnce
    BY DEF IInv, RecordedOnce, Kept, Copying, Looping
  <1>2. QED
    BY <1>1, Invariant, PTL

\* With the tracker off, the file one profiling thread leaves is complete
\* and holds every profile it recorded, and only the dump option makes one.
THEOREM SoleThread == Spec => []SoleThreadKeeps
  <1>1. ASSUME IInv PROVE SoleThreadKeeps
    <2> SUFFICES ASSUME NEW t \in Attached, pc[Main] = "gone",
                        Attached = {t}, ~config.switchCpu
                 PROVE  /\ file = recorded[t]
                        /\ recorded[t] # <<>> => fileState = "complete"
                        /\ config.dump = 0 => fileState = "absent"
      BY DEF SoleThreadKeeps
    <2>1. t \in Thread /\ group[t] \in {"tracing", "silent", "gone"}
      BY <1>1 DEF Attached, IInv, Typed
    <2>2. SoleNow(t) /\ Saved(t)
      BY <1>1, <2>1 DEF IInv, Sole, Saved
    <2>3. CASE group[t] = "silent"
      <3>1. recorded[t] = <<>>
        BY <1>1, <2>1, <2>3 DEF IInv, Silent
      <3>2. QED
        BY <2>2, <2>3, <3>1 DEF SoleNow
    <2>4. CASE group[t] # "silent"
      <3>1. config.dump # 0
        BY <1>1, <2>1, <2>4 DEF IInv, Silent
      <3>2. QED
        BY <2>2, <2>4, <3>1 DEF SoleNow
    <2>5. QED
      BY <2>3, <2>4
  <1>2. QED
    BY <1>1, Invariant, PTL


-----------------------------------------------------------------------------
(* The counter read *)

\* Every disjunct of ReadNext, one case each.
LEMMA ReadCases ==
    ASSUME ReadNext
    PROVE  \/ Count \/ BeginUpdate \/ EndUpdate \/ Start \/ ReadLock
           \/ ReadIndex \/ ReadOffset \/ ReadTimes \/ ReadCounter \/ Check
           \/ Syscall \/ Return
  BY DEF ReadNext, Reader

-----------------------------------------------------------------------------
(* The counter read: arithmetic modulo m *)

\* A remainder differs from its number by a multiple of the divisor.
LEMMA Remainder ==
    ASSUME NEW a \in Int, NEW m \in Nat, m > 0
    PROVE  \E q \in Int : a = (a % m) + m * q
  <1>1. a \div m \in Int /\ a = (a % m) + m * (a \div m)
    OBVIOUS
  <1>2. QED
    BY <1>1

\* Only one remainder is in range.
LEMMA RemainderUnique ==
    ASSUME NEW a \in Int, NEW m \in Nat, m > 0, NEW q \in Int,
           NEW b \in 0..m-1, a = b + m * q
    PROVE  a % m = b
  OBVIOUS

\* a and b are q times m apart.
Apart(a, b, m, q) == a = b + m * q

\* Numbers that are a multiple of m apart have the same remainder.
LEMMA SameRemainder ==
    ASSUME NEW a \in Int, NEW b \in Int, NEW m \in Nat, m > 0,
           NEW q \in Int, Apart(a, b, m, q)
    PROVE  a % m = b % m
  <1>1. PICK p \in Int : b = (b % m) + m * p
    BY Remainder
  <1>2. m * (p + q) = m * p + m * q /\ p + q \in Int
    BY Z3
  <1>3. b % m \in 0..m-1
    OBVIOUS
  <1> DEFINE y == b % m
             s == p + q
  <1>4. m * p \in Int /\ m * q \in Int
    BY Z3
  <1>5. a = y + m * s
    BY <1>1, <1>2, <1>3, <1>4 DEF Apart
  <1>6. y \in 0..m-1 /\ s \in Int
    BY <1>2, <1>3
  <1> HIDE DEF y, s
  <1>7. a % m = y
    BY <1>5, <1>6, RemainderUnique
  <1>8. QED
    BY <1>7 DEF y

\* What was subtracted before the wrap can be added after it.
LEMMA AddBack ==
    ASSUME NEW a \in Int, NEW b \in Int, NEW m \in Nat, m > 0
    PROVE  (((a - b) % m) + b) % m = a % m
  <1> DEFINE x == (a - b) % m
  <1>1. x \in 0..m-1
    OBVIOUS
  <1>2. PICK q \in Int : a - b = x + m * q
    BY Remainder
  <1> HIDE DEF x
  <1>3. m * q \in Int
    BY Z3
  <1>4. Apart(a, x + b, m, q) /\ x + b \in Int
    BY <1>1, <1>2, <1>3 DEF Apart
  <1>5. a % m = (x + b) % m
    BY <1>4, SameRemainder
  <1>6. QED
    BY <1>5 DEF x

\* Differences may be taken after both numbers wrapped.
LEMMA WrappedDifference ==
    ASSUME NEW a \in Int, NEW b \in Int, NEW m \in Nat, m > 0
    PROVE  ((a % m) - (b % m)) % m = (a - b) % m
  <1> DEFINE x == a % m
             y == b % m
  <1>1. x \in 0..m-1 /\ y \in 0..m-1
    OBVIOUS
  <1>2. PICK p \in Int : a = x + m * p
    BY Remainder
  <1>3. PICK q \in Int : b = y + m * q
    BY Remainder
  <1> HIDE DEF x, y
  <1>4. m * p \in Int /\ m * q \in Int
    BY Z3
  <1>5. Apart(a - b, x - b, m, p) /\ x - b \in Int /\ a - b \in Int
    BY <1>1, <1>2, <1>4 DEF Apart
  <1>6. Apart(x - y, x - b, m, q) /\ x - y \in Int
    BY <1>1, <1>3, <1>4 DEF Apart
  <1>7. (a - b) % m = (x - b) % m
    BY <1>5, SameRemainder
  <1>8. (x - y) % m = (x - b) % m
    BY <1>5, <1>6, SameRemainder
  <1>9. QED
    BY <1>7, <1>8 DEF x, y

\* The two shifts restore the sign of a counter.
LEMMA SignRestored ==
    ASSUME NEW r \in -Half..Half-1
    PROVE  SignExtend(r % (2 * Half)) = r
  <1>1. Half \in Nat /\ Half > 0
    BY RdpmcAssumption
  <1> DEFINE h == 2 * Half
  <1>2. h \in Nat /\ h > 0 /\ r \in Int
    BY <1>1
  <1>3. CASE r >= 0
    <2>1. r \in 0..h-1 /\ r = r + h * 0
      BY <1>1, <1>3
    <2> HIDE DEF h
    <2>2. r % h = r
      BY <1>2, <2>1, RemainderUnique
    <2>3. QED
      BY <1>1, <1>3, <2>2 DEF SignExtend, h
  <1>4. CASE r < 0
    <2>1. r + h \in 0..h-1 /\ r = (r + h) + h * (-1)
      BY <1>1, <1>4
    <2> HIDE DEF h
    <2>2. r % h = r + h
      BY <1>2, <2>1, RemainderUnique, -1 \in Int
    <2>3. QED
      BY <1>1, <1>4, <2>2 DEF SignExtend, h
  <1>5. QED
    BY <1>2, <1>3, <1>4

-----------------------------------------------------------------------------
(* The invariant *)

ReadTyped ==
    /\ count \in Nat /\ raw \in -Half..Half-1
    /\ page.lock \in Nat /\ page.index \in Nat
    /\ readPc \in {"start", "lock", "index", "offset", "times", "counter",
               "syscall", "check", "return"}
    /\ sequence \in Nat /\ blind \subseteq {"begin", "end"}
    /\ scope \in {"begin", "end", "done"}
    /\ readAt \in [{"begin", "end"} -> Nat]
    /\ scope = "done" => readPc = "start"

\* The kernel's promise outside its updates, kept by counting and by updates.
PageAddsUp ==
    ~Odd(page.lock) =>
      page.offset = (count - (IF page.index = 0 THEN 0 ELSE raw)) % Modulus

\* While the lock is the one the reader loaded, what it copied is still there
\* and what it computed is the count when it read the counter.
CopiesValid ==
    /\ readPc \in {"index", "offset", "times", "counter", "check"}
         => sequence <= page.lock
    /\ readPc \in {"offset", "times", "counter"} /\ sequence = page.lock
         => index = page.index
    /\ readPc \in {"times", "counter"} /\ sequence = page.lock
         => offset = page.offset
    /\ readPc = "counter" => index # 0
    /\ readPc \in {"index", "offset", "times", "counter"} => ~Odd(sequence)
    /\ readPc = "check" /\ sequence = page.lock /\ ~Odd(sequence)
         => value = readAt[scope] % Modulus

\* begin_snapshot has kept the count modulo 2^64.
FirstIsCount ==
    scope # "begin" /\ "begin" \notin blind => first = readAt["begin"] % Modulus

ReadIInv == /\ ReadTyped /\ PageAddsUp /\ CopiesValid /\ ReadsACount
            /\ FirstIsCount /\ DeltaIsExact

\* The first read of the first profile is ahead.
LEMMA ReadInvInit == ReadInit => ReadIInv
  <1> SUFFICES ASSUME ReadInit PROVE ReadIInv
    OBVIOUS
  <1>1. PICK n \in 0..Counters, r \in -Half..-1, counting \in BOOLEAN :
          raw = r /\ page = Published(0, n, r, counting)
    BY DEF ReadInit
  <1>2. /\ page.lock = 0 /\ ~Odd(page.lock) /\ page.index = n
        /\ page.offset = (count - (IF n = 0 THEN 0 ELSE raw)) % Modulus
    BY <1>1 DEF Published, Odd
  <1>3. ReadTyped
    BY <1>1, <1>2, RdpmcAssumption DEF ReadInit, ReadTyped
  <1>4. PageAddsUp
    BY <1>2 DEF PageAddsUp
  <1>5. QED
    BY <1>3, <1>4
       DEF ReadInit, ReadIInv, CopiesValid, ReadsACount, FirstIsCount, DeltaIsExact

\* Types are kept by every step.
LEMMA ReadTypedNext == ReadTyped /\ [ReadNext]_readVars => ReadTyped'
  <1> SUFFICES ASSUME ReadTyped, [ReadNext]_readVars PROVE ReadTyped'
    OBVIOUS
  <1> USE RdpmcAssumption DEF ReadTyped, locals
  <1>1. CASE Count
    BY <1>1 DEF Count
  <1>2. CASE BeginUpdate
    <2>1. PICK n \in 0..Counters, r \in -Half..-1, counting \in BOOLEAN :
            /\ raw' = r
            /\ page' = [lock |-> page.lock + 1, index |-> n,
                        counting |-> counting, offset |-> page.offset]
      BY <1>2 DEF BeginUpdate
    <2>2. page'.lock = page.lock + 1 /\ page'.index = n
      BY <2>1
    <2>3. QED
      BY <1>2, <2>1, <2>2 DEF BeginUpdate
  <1>2e. CASE EndUpdate
    <2>1. page'.lock = page.lock + 1 /\ page'.index = page.index
      BY <1>2e DEF EndUpdate, Published
    <2>2. QED
      BY <1>2e, <2>1 DEF EndUpdate
  <1>3. CASE Start
    BY <1>3 DEF Start
  <1>4. CASE ReadLock
    BY <1>4 DEF ReadLock
  <1>5. CASE ReadIndex
    BY <1>5 DEF ReadIndex
  <1>6. CASE ReadOffset
    BY <1>6 DEF ReadOffset
  <1>7. CASE ReadTimes
    BY <1>7 DEF ReadTimes
  <1>8. CASE ReadCounter
    BY <1>8 DEF ReadCounter
  <1>9. CASE Check
    BY <1>9 DEF Check
  <1>10. CASE Syscall
    BY <1>10 DEF Syscall
  <1>11. CASE Return
    BY <1>11 DEF Return
  <1>12. CASE UNCHANGED readVars
    BY <1>12 DEF readVars
  <1>13. QED
    BY ReadCases, <1>1, <1>2, <1>2e, <1>3, <1>4, <1>5, <1>6, <1>7, <1>8, <1>9,
       <1>10, <1>11, <1>12


\* One more than an even number is odd.
LEMMA EvenThenOdd == ASSUME NEW n \in Nat, ~Odd(n) PROVE Odd(n + 1)
  <1>1. n % 2 \in 0..1 /\ n % 2 # 1
    BY DEF Odd
  <1>2. n % 2 = 0
    BY <1>1
  <1>3. (n + 1) % 2 = 1
    BY <1>2
  <1>4. QED
    BY <1>3 DEF Odd

\* Counting moves the count and the counter together, an update moves the
\* offset with the counter.
LEMMA PageNext == ReadTyped /\ PageAddsUp /\ [ReadNext]_readVars => PageAddsUp'
  <1> SUFFICES ASSUME ReadTyped, PageAddsUp, [ReadNext]_readVars PROVE PageAddsUp'
    OBVIOUS
  <1> USE RdpmcAssumption DEF ReadTyped, PageAddsUp
  <1>1. CASE Count
    <2>1. /\ page' = page /\ page.index # 0
          /\ count' = count + 1 /\ raw' = raw + 1
      BY <1>1 DEF Count
    <2>2. count' - raw' = count - raw
      BY <2>1
    <2>3. QED
      BY <2>1, <2>2
  <1>2. CASE BeginUpdate
    <2>1. PICK n \in 0..Counters, r \in -Half..-1, counting \in BOOLEAN :
            /\ raw' = r
            /\ page' = [lock |-> page.lock + 1, index |-> n,
                        counting |-> counting, offset |-> page.offset]
      BY <1>2 DEF BeginUpdate
    <2>2. page'.lock = page.lock + 1
      BY <2>1 DEF ReadTyped
    <2>3. Odd(page'.lock)
      BY <1>2, <2>2, EvenThenOdd DEF BeginUpdate
    <2>4. QED
      BY <2>3
  <1>2e. CASE EndUpdate
    <2>1. /\ page'.lock = page.lock + 1 /\ page'.index = page.index
          /\ page'.offset = (count - (IF page.index = 0 THEN 0 ELSE raw)) % Modulus
      BY <1>2e DEF EndUpdate, Published
    <2>2. count' = count /\ raw' = raw
      BY <1>2e DEF EndUpdate
    <2>3. QED
      BY <2>1, <2>2
  <1>3. CASE Start
    BY <1>3 DEF Start
  <1>4. CASE ReadLock
    BY <1>4 DEF ReadLock
  <1>5. CASE ReadIndex
    BY <1>5 DEF ReadIndex
  <1>6. CASE ReadOffset
    BY <1>6 DEF ReadOffset
  <1>7. CASE ReadTimes
    BY <1>7 DEF ReadTimes
  <1>8. CASE ReadCounter
    BY <1>8 DEF ReadCounter
  <1>9. CASE Check
    BY <1>9 DEF Check
  <1>10. CASE Syscall
    BY <1>10 DEF Syscall
  <1>11. CASE Return
    BY <1>11 DEF Return
  <1>12. CASE UNCHANGED readVars
    BY <1>12 DEF readVars
  <1>13. QED
    BY ReadCases, <1>1, <1>2, <1>2e, <1>3, <1>4, <1>5, <1>6, <1>7, <1>8, <1>9,
       <1>10, <1>11, <1>12


\* A copy is stale only if the lock has moved on, and then for good.
LEMMA CopiesNext == ReadTyped /\ PageAddsUp /\ CopiesValid /\ [ReadNext]_readVars =>
    CopiesValid'
  <1> SUFFICES ASSUME ReadTyped, PageAddsUp, CopiesValid, [ReadNext]_readVars PROVE
                    CopiesValid'
    OBVIOUS
  <1> USE RdpmcAssumption DEF ReadTyped, CopiesValid, locals
  <1>1. CASE Count
    BY <1>1 DEF Count
  <1>2. CASE BeginUpdate
    <2>1. PICK n \in 0..Counters, r \in -Half..-1, counting \in BOOLEAN :
            /\ raw' = r
            /\ page' = [lock |-> page.lock + 1, index |-> n,
                        counting |-> counting, offset |-> page.offset]
      BY <1>2 DEF BeginUpdate
    <2>2. page'.lock = page.lock + 1
      BY <2>1 DEF ReadTyped
    <2>3. /\ UNCHANGED <<readPc, sequence, index, value, scope, blind>>
      BY <1>2 DEF BeginUpdate, locals
    <2>4. QED
      BY <2>2, <2>3
  <1>2e. CASE EndUpdate
    <2>1. /\ page'.lock = page.lock + 1 /\ page'.index = page.index
          /\ page'.offset = (count - (IF page.index = 0 THEN 0 ELSE raw)) % Modulus
      BY <1>2e DEF EndUpdate, Published
    <2>2. /\ UNCHANGED <<readPc, sequence, index, value, scope, blind>>
      BY <1>2e DEF EndUpdate, locals
    <2>3. QED
      BY <2>1, <2>2
  <1>3. CASE Start
    BY <1>3 DEF Start
  <1>4. CASE ReadLock
    BY <1>4 DEF ReadLock
  <1>5. CASE ReadIndex
    BY <1>5 DEF ReadIndex
  <1>6. CASE ReadOffset
    BY <1>6 DEF ReadOffset
  <1>7. CASE ReadTimes
    BY <1>7 DEF ReadTimes
  <1>8. CASE ReadCounter
    <2>1. ASSUME sequence = page.lock
          PROVE  value' = count % Modulus
      <3>1. /\ index = page.index /\ offset = page.offset /\ index # 0
            /\ ~Odd(page.lock)
        BY <1>8, <2>1 DEF ReadCounter
      <3>2. value' = (offset + SignExtend(raw % (2 * Half))) % Modulus
        BY <1>8, <3>1 DEF ReadCounter
      <3>3. value' = (((count - raw) % Modulus) + raw) % Modulus
        BY <3>1, <3>2, SignRestored DEF PageAddsUp
      <3>4. count \in Int /\ raw \in Int /\ Modulus > 0 /\ Modulus \in Nat
        OBVIOUS
      <3>5. (((count - raw) % Modulus) + raw) % Modulus = count % Modulus
        BY <3>4, AddBack
      <3>6. QED
        BY <3>3, <3>5
    <2>2. readAt'[scope] = count
      BY <1>8 DEF ReadCounter
    <2>3. QED
      BY <1>8, <2>1, <2>2 DEF ReadCounter, locals
  <1>9. CASE Check
    BY <1>9 DEF Check
  <1>10. CASE Syscall
    BY <1>10 DEF Syscall
  <1>11. CASE Return
    BY <1>11 DEF Return
  <1>12. CASE UNCHANGED readVars
    BY <1>12 DEF readVars
  <1>13. QED
    BY ReadCases, <1>1, <1>2, <1>2e, <1>3, <1>4, <1>5, <1>6, <1>7, <1>8, <1>9,
       <1>10, <1>11, <1>12


\* A read that returns has seen one state of the page.
LEMMA ReadStep == ReadTyped /\ CopiesValid /\ ReadsACount /\ [ReadNext]_readVars =>
    ReadsACount'
  <1> SUFFICES ASSUME ReadTyped, CopiesValid, ReadsACount, [ReadNext]_readVars PROVE
                    ReadsACount'
    OBVIOUS
  <1> USE DEF ReadTyped, ReadsACount
  <1>1. CASE Count
    BY <1>1 DEF Count
  <1>2. CASE BeginUpdate
    BY <1>2 DEF BeginUpdate
  <1>2e. CASE EndUpdate
    BY <1>2e DEF EndUpdate
  <1>3. CASE Start
    BY <1>3 DEF Start
  <1>4. CASE ReadLock
    BY <1>4 DEF ReadLock
  <1>5. CASE ReadIndex
    BY <1>5 DEF ReadIndex
  <1>6. CASE ReadOffset
    BY <1>6 DEF ReadOffset
  <1>7. CASE ReadTimes
    BY <1>7 DEF ReadTimes
  <1>8. CASE ReadCounter
    BY <1>8 DEF ReadCounter
  <1>9. CASE Check
    BY <1>9 DEF Check, CopiesValid
  <1>10. CASE Syscall
    BY <1>10 DEF Syscall
  <1>11. CASE Return
    BY <1>11 DEF Return
  <1>12. CASE UNCHANGED readVars
    BY <1>12 DEF readVars
  <1>13. QED
    BY ReadCases, <1>1, <1>2, <1>2e, <1>3, <1>4, <1>5, <1>6, <1>7, <1>8, <1>9,
       <1>10, <1>11, <1>12


\* The first value of a profile is kept until its end.
LEMMA FirstNext == ReadTyped /\ ReadsACount /\ FirstIsCount /\ [ReadNext]_readVars =>
    FirstIsCount'
  <1> SUFFICES ASSUME ReadTyped, ReadsACount, FirstIsCount, [ReadNext]_readVars PROVE
                    FirstIsCount'
    OBVIOUS
  <1> USE DEF ReadTyped, FirstIsCount
  <1>1. CASE Count
    BY <1>1 DEF Count
  <1>2. CASE BeginUpdate
    BY <1>2 DEF BeginUpdate
  <1>2e. CASE EndUpdate
    BY <1>2e DEF EndUpdate
  <1>3. CASE Start
    BY <1>3 DEF Start
  <1>4. CASE ReadLock
    BY <1>4 DEF ReadLock
  <1>5. CASE ReadIndex
    BY <1>5 DEF ReadIndex
  <1>6. CASE ReadOffset
    BY <1>6 DEF ReadOffset
  <1>7. CASE ReadTimes
    BY <1>7 DEF ReadTimes
  <1>8. CASE ReadCounter
    BY <1>8 DEF ReadCounter
  <1>9. CASE Check
    BY <1>9 DEF Check
  <1>10. CASE Syscall
    BY <1>10 DEF Syscall
  <1>11. CASE Return
    BY <1>11 DEF Return, ReadsACount
  <1>12. CASE UNCHANGED readVars
    BY <1>12 DEF readVars
  <1>13. QED
    BY ReadCases, <1>1, <1>2, <1>2e, <1>3, <1>4, <1>5, <1>6, <1>7, <1>8, <1>9,
       <1>10, <1>11, <1>12


\* The difference of the two values is that of the two counts.
LEMMA DeltaNext == ReadTyped /\ ReadsACount /\ FirstIsCount /\ DeltaIsExact /\
    [ReadNext]_readVars => DeltaIsExact'
  <1> SUFFICES ASSUME ReadTyped, ReadsACount, FirstIsCount, DeltaIsExact,
                    [ReadNext]_readVars PROVE DeltaIsExact'
    OBVIOUS
  <1> USE DEF ReadTyped, DeltaIsExact
  <1>1. CASE Count
    BY <1>1 DEF Count
  <1>2. CASE BeginUpdate
    BY <1>2 DEF BeginUpdate
  <1>2e. CASE EndUpdate
    BY <1>2e DEF EndUpdate
  <1>3. CASE Start
    BY <1>3 DEF Start
  <1>4. CASE ReadLock
    BY <1>4 DEF ReadLock
  <1>5. CASE ReadIndex
    BY <1>5 DEF ReadIndex
  <1>6. CASE ReadOffset
    BY <1>6 DEF ReadOffset
  <1>7. CASE ReadTimes
    BY <1>7 DEF ReadTimes
  <1>8. CASE ReadCounter
    BY <1>8 DEF ReadCounter
  <1>9. CASE Check
    BY <1>9 DEF Check
  <1>10. CASE Syscall
    BY <1>10 DEF Syscall
  <1>11. CASE Return
    <2>1. CASE scope = "begin"
      BY <1>11, <2>1 DEF Return
    <2>2. CASE scope = "end"
      <3>1. delta' = (value - first) % Modulus
        BY <1>11, <2>2 DEF Return
      <3>2. blind = {} => /\ value = readAt["end"] % Modulus
                          /\ first = readAt["begin"] % Modulus
        BY <1>11, <2>2 DEF Return, ReadsACount, FirstIsCount
      <3>3. /\ readAt["end"] \in Int /\ readAt["begin"] \in Int
            /\ Modulus \in Nat /\ Modulus > 0
        BY RdpmcAssumption
      <3>4. blind = {} => delta' = (readAt["end"] - readAt["begin"]) % Modulus
        BY <3>1, <3>2, <3>3, WrappedDifference
      <3>5. QED
        BY <1>11, <3>4 DEF Return
    <2>3. QED
      BY <1>11, <2>1, <2>2 DEF Return
  <1>12. CASE UNCHANGED readVars
    BY <1>12 DEF readVars
  <1>13. QED
    BY ReadCases, <1>1, <1>2, <1>2e, <1>3, <1>4, <1>5, <1>6, <1>7, <1>8, <1>9,
       <1>10, <1>11, <1>12


-----------------------------------------------------------------------------
(* The theorems *)

\* The invariant holds in every state.
THEOREM ReadInvariant == ReadSpec => []ReadIInv
  <1>1. ReadInit => ReadIInv
    BY ReadInvInit
  <1>2. ReadIInv /\ [ReadNext]_readVars => ReadIInv'
    BY ReadTypedNext, PageNext, CopiesNext, ReadStep, FirstNext, DeltaNext
       DEF ReadIInv
  <1>3. QED
    BY <1>1, <1>2, PTL DEF ReadSpec

\* What a read returns is the count at one instant inside it, whatever the
\* kernel moves or reprograms between the loads, for every width: a read that
\* is left on an odd lock is the one exception.
THEOREM RdpmcReadsACount == ReadSpec => []ReadsACount
  <1>1. ReadIInv => ReadsACount
    BY DEF ReadIInv
  <1>2. QED
    BY <1>1, ReadInvariant, PTL

\* A finished profile, none of whose reads was left on an odd lock, reports the
\* events between them, also where the 64-bit value wraps between them or the
\* reads went different ways.
THEOREM RdpmcDeltaIsExact == ReadSpec => []DeltaIsExact
  <1>1. ReadIInv => DeltaIsExact
    BY DEF ReadIInv
  <1>2. QED
    BY <1>1, ReadInvariant, PTL
=============================================================================
