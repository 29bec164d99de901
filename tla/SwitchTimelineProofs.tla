------------------------ MODULE SwitchTimelineProofs ------------------------
(***************************************************************************)
(* What SwitchTimeline guarantees for a ring of any size, any number of    *)
(* threads and tasks, and whatever the kernel loses.  Offsets count words  *)
(* since the monitor was opened; every record the kernel appended has one, *)
(* and what lies between data_tail and data_head is a gapless row of       *)
(* records as they were written.  What a drain reads is then the log of    *)
(* the kernel, record by record, and the slices follow from the log.       *)
(***************************************************************************)
EXTENDS SwitchTimeline, Integers, SequenceTheorems, TLAPS

Words == [type : {"none", "switch", "lost"}, out : BOOLEAN, size : Nat,
          val : Nat]
Record == Tasks \X Nat \X BOOLEAN
Slice == [begin : Nat, end : Nat \ {0}, tid : Tasks]
Period == [begin : Nat, end : Nat]

\* The values the state can take.
Typed ==
    /\ now \in 1..MaxTime
    /\ onCpu = <<>> \/ \E t \in Tasks : onCpu = <<t>>
    /\ ring \in [0..RingSize-1 -> Words]
    /\ head \in Nat /\ dataTail \in Nat /\ drops \in BOOLEAN
    /\ since \in Nat /\ tid \in Tasks /\ slices \in Seq(Slice)
    /\ lock \in Thread \cup {NoThread} /\ flusher \in Thread \cup {NoThread}
    /\ pc \in [Thread -> {"idle", "load", "read", "active", "write"}]
    /\ headOf \in [Thread -> Nat] /\ tailOf \in [Thread -> Nat]
    /\ log \in Seq(Record) /\ read \in Seq(Record)
    /\ truth \in [Tasks -> Seq(Period)]
    /\ cut \subseteq Slice \X (0..MaxTime)
    /\ horizon \in 0..MaxTime /\ shown \in Seq(Slice)
    /\ lossy \in BOOLEAN /\ overlap \in BOOLEAN

\* Who drains: the holder of the lock or the thread that flushes.
Alone ==
    /\ \A d \in Thread : Busy(d) => d \in {lock, flusher}
    /\ \A d \in Thread : pc[d] \in {"active", "write"} => flusher = d
    /\ \A d \in Thread : lock = d => pc[d] \in {"load", "read"}
    /\ \A d \in Thread : flusher = d => Busy(d) /\ lock # d
    /\ ~overlap => lock = NoThread \/ flusher = NoThread

\* The four positions of a drain.
Bounds ==
    /\ dataTail <= head /\ head <= dataTail + RingSize
    /\ \A d \in Thread : pc[d] = "read" =>
         dataTail <= tailOf[d] /\ tailOf[d] <= headOf[d] /\ headOf[d] <= head

\* A record starts at offset o, or will.
Mark(o) == o = head \/ At(o).type # "none"

\* The record at o is followed by the next one.
Frame(o) ==
    LET n == IF At(o).type = "switch" THEN 5 ELSE 6
    IN /\ At(o).size = n /\ o + n <= head /\ Mark(o + n)
       /\ \A k \in 1..n-1 : At(o + k).type = "none"

\* Between data_tail and data_head lies a gapless row of records.
Framed ==
    /\ \A o \in dataTail..head-1 : At(o).type # "none" => Frame(o)
    /\ Mark(dataTail)
    /\ \A d \in Thread : pc[d] = "read" => Mark(tailOf[d]) /\ Mark(headOf[d])

\* The i-th switch record the kernel appended is at offset pos[i]; what was
\* not given back to the kernel is there as it was written.
Placed(pos) ==
    /\ \A i \in 1..Len(log) : pos[i] + 5 <= head
    /\ \A i, j \in 1..Len(log) : i < j => pos[i] + 5 <= pos[j]
    /\ \A i \in 1..Len(log) : pos[i] >= dataTail =>
         /\ At(pos[i]) = Header("switch", log[i][3], 5)
         /\ At(pos[i] + 2).val = log[i][1] /\ At(pos[i] + 3).val = log[i][2]
    /\ \A o \in dataTail..head-1 :
         At(o).type = "switch" => \E i \in 1..Len(log) : pos[i] = o

\* The records before offset p have been read, those from p on have not.
UpTo(pos, p) == \A i \in 1..Len(log) : i <= Len(read) <=> pos[i] < p

\* Where the reading has come to, and what a flush will not see any more.
Followed(pos) ==
    /\ \A d \in Thread : pc[d] = "read" => UpTo(pos, tailOf[d])
    /\ (\A d \in Thread : pc[d] # "read") => UpTo(pos, dataTail)
    /\ \A d \in Thread : pc[d] = "read" /\ flusher = d =>
         \A i \in 1..Len(log) : pos[i] >= headOf[d] => log[i][2] > horizon

Tracked == \E pos \in [1..Len(log) -> Nat] : Placed(pos) /\ Followed(pos)

\* What was read is what was written.
Prefix == Len(read) <= Len(log) /\ \A i \in 1..Len(read) : read[i] = log[i]

\* Records are written at increasing times.
Ordered ==
    /\ \A i \in 1..Len(log) : 1 < log[i][2] /\ log[i][2] <= now
    /\ \A i, j \in 1..Len(log) : i < j => log[i][2] < log[j][2]

\* When a flush ends the active slice, it has read all up to its horizon.
CaughtUp ==
    /\ horizon <= now
    /\ \A c \in cut : c[2] <= now
    /\ \A d \in Thread : pc[d] = "active" =>
         \A i \in 1..Len(log) : i > Len(read) => log[i][2] > horizon

\* What ended at that time ended before anything that is still to be read.
Past(time) ==
    time <= now /\ \A i \in 1..Len(log) : i > Len(read) => time <= log[i][2]

EndedPast ==
    \A i \in 1..Len(AllSlices) : EndedBySwitch(AllSlices[i]) =>
        /\ Past(AllSlices[i].end)
        /\ since # 0 => AllSlices[i].end <= since

\* Without losses a task that was switched in is the next to be switched out,
\* and the log has the periods in which tasks ran.
Alternate ==
    \A i \in 1..Len(log) : ~log[i][3] =>
       \E k \in DOMAIN truth[log[i][1]] :
          LET r == truth[log[i][1]][k]
          IN /\ r.begin = log[i][2]
             /\ i < Len(log) => log[i+1] = <<log[i][1], r.end, TRUE>>
             /\ i = Len(log) => /\ r.end = 0 /\ k = Len(truth[log[i][1]])
                                /\ onCpu = <<log[i][1]>>

\* The slice that is under way began with the last record read.
Current ==
    since # 0 => /\ tid # 0 /\ Len(read) > 0
                 /\ log[Len(read)] = <<tid, since, FALSE>>

\* SlicesTrue and EndedDisjoint, for the time before a flush comes upon a drain.
TrueSlices ==
    ~lossy =>
        \A i \in DOMAIN AllSlices :
            LET s == AllSlices[i]
            IN \E k \in DOMAIN truth[s.tid] :
                 LET r == truth[s.tid][k]
                 IN /\ s.begin = r.begin
                    /\ \/ s.end = r.end
                       \/ \E h \in 0..MaxTime : /\ <<s, h>> \in cut
                                                /\ r.end = 0 \/ r.end >= h

Disjoint ==
    \A i, k \in DOMAIN AllSlices :
        (i < k /\ EndedBySwitch(AllSlices[i]) /\ EndedBySwitch(AllSlices[k])) =>
            AllSlices[i].end <= AllSlices[k].begin

IInv ==
    /\ Typed /\ Bounds /\ Framed /\ Tracked /\ Prefix /\ Ordered
    /\ CaughtUp /\ EndedPast /\ Disjoint
    /\ ~lossy => Alternate /\ Current
    /\ TrueSlices

\* Every disjunct of Next, one case each.
LEMMA NextCases ==
    ASSUME [Next]_vars, ~overlap
    PROVE  \/ ~overlap /\ SwitchOut
           \/ ~overlap /\ \E t \in Tasks : SwitchIn(t)
           \/ \E d \in Thread :
                ~overlap /\ (\/ TryLock(d) \/ StartFlush(d) \/ Load(d)
                             \/ ReadRecord(d) \/ Publish(d) \/ EndActive(d)
                             \/ WriteSlices(d))
           \/ UNCHANGED vars
  BY DEF Next, Kernel, Drain

-----------------------------------------------------------------------------
(* The ring *)

\* Two offsets less than the size of the ring apart are different places.
LEMMA Apart ==
    ASSUME NEW n \in Nat \ {0}, NEW a \in Nat, NEW b \in Nat, a < b, b < a + n
    PROVE  a % n # b % n
  <1> DEFINE p == a \div n
             q == b \div n
             x == a % n
             y == b % n
  <1>1. p \in Int /\ q \in Int /\ x \in Int /\ y \in Int
    OBVIOUS
  <1>2. a = n * p + x /\ b = n * q + y
    OBVIOUS
  <1> HIDE DEF p, q, x, y
  <1>3. SUFFICES ASSUME x = y PROVE FALSE
    BY DEF x, y
  <1>4. n * q - n * p > 0 /\ n * q - n * p < n
    BY <1>1, <1>2, <1>3
  <1>5. n * q - n * p = n * (q - p)
    BY <1>1
  <1>6. CASE q - p <= 0
    <2>1. n * (q - p) <= 0
      BY <1>1, <1>6
    <2>2. QED
      BY <1>1, <1>4, <1>5, <2>1
  <1>7. CASE q - p >= 1
    <2>1. n * (q - p) >= n
      BY <1>1, <1>7
    <2>2. QED
      BY <1>1, <1>4, <1>5, <2>1
  <1>8. QED
    BY <1>1, <1>6, <1>7

\* The word that will be at offset o.
Then(o) == ring'[o % RingSize]

\* Words that fit go behind data_head and leave the unread ones alone.
LEMMA PutWords ==
    ASSUME ring \in [0..RingSize-1 -> Words], head \in Nat, dataTail \in Nat,
           RingSize \in Nat \ {0}, NEW words \in Seq(Words), Put(words),
           dataTail <= head, head + Len(words) - dataTail <= RingSize
    PROVE  /\ head' = head + Len(words) /\ ring' \in [0..RingSize-1 -> Words]
           /\ \A o \in dataTail..head-1 : Then(o) = At(o)
           /\ \A k \in 1..Len(words) : Then(head + k - 1) = words[k]
  <1> DEFINE Hit(i, k) == (head + k - 1) % RingSize = i
             Here(i) == CHOOSE k \in 1..Len(words) : Hit(i, k)
  <1>1. ring' = [i \in 0..RingSize-1 |->
                   IF \E k \in 1..Len(words) : Hit(i, k)
                   THEN words[Here(i)] ELSE ring[i]]
    BY DEF Put
  <1>2. head' = head + Len(words)
    BY DEF Put
  <1>3. \A o \in Nat : o % RingSize \in 0..RingSize-1
    OBVIOUS
  <1>4. ASSUME NEW i \in 0..RingSize-1, \E k \in 1..Len(words) : Hit(i, k)
        PROVE  Here(i) \in 1..Len(words) /\ Hit(i, Here(i))
    BY <1>4
  <1>5. ring' \in [0..RingSize-1 -> Words]
    <2> HIDE DEF Hit, Here
    <2>1. ASSUME NEW i \in 0..RingSize-1
          PROVE  (IF \E k \in 1..Len(words) : Hit(i, k)
                  THEN words[Here(i)] ELSE ring[i]) \in Words
      BY <1>4
    <2>2. QED
      BY <1>1, <2>1
  <1>6. ASSUME NEW o \in dataTail..head-1 PROVE Then(o) = At(o)
    <2>1. ASSUME NEW k \in 1..Len(words) PROVE ~Hit(o % RingSize, k)
      <3>1. /\ o \in Nat /\ head + k - 1 \in Nat /\ o < head + k - 1
            /\ head + k - 1 < o + RingSize
        OBVIOUS
      <3>2. QED
        BY <3>1, Apart
    <2>2. o % RingSize \in 0..RingSize-1
      <3>1. o \in Nat
        OBVIOUS
      <3>2. QED
        BY <1>3, <3>1
    <2> HIDE DEF Hit, Here
    <2>3. QED
      BY <1>1, <2>1, <2>2 DEF Then, At
  <1>7. ASSUME NEW k \in 1..Len(words) PROVE Then(head + k - 1) = words[k]
    <2> DEFINE i == (head + k - 1) % RingSize
    <2>1. i \in 0..RingSize-1 /\ Hit(i, k)
      <3>1. head + k - 1 \in Nat
        OBVIOUS
      <3>2. QED
        BY <1>3, <3>1
    <2>2. Here(i) \in 1..Len(words) /\ Hit(i, Here(i))
      BY <1>4, <2>1
    <2>3. Here(i) = k
      <3> DEFINE j == Here(i)
      <3>1. /\ j \in 1..Len(words)
            /\ (head + j - 1) % RingSize = (head + k - 1) % RingSize
        BY <2>2
      <3> HIDE DEF j
      <3>2. ASSUME j < k PROVE FALSE
        <4>1. /\ head + j - 1 \in Nat /\ head + k - 1 \in Nat
              /\ head + j - 1 < head + k - 1
              /\ head + k - 1 < head + j - 1 + RingSize
          BY <3>1, <3>2
        <4>2. QED
          BY <3>1, <4>1, Apart
      <3>3. ASSUME k < j PROVE FALSE
        <4>1. /\ head + j - 1 \in Nat /\ head + k - 1 \in Nat
              /\ head + k - 1 < head + j - 1
              /\ head + j - 1 < head + k - 1 + RingSize
          BY <3>1, <3>3
        <4>2. QED
          BY <3>1, <4>1, Apart
      <3>4. j = k
        <4>1. j \in Int /\ k \in Int
          BY <3>1
        <4>2. ~(j < k) /\ ~(k < j)
          BY <3>2, <3>3
        <4>3. QED
          BY <4>1, <4>2
      <3>5. QED
        BY <3>4 DEF j
    <2>4. ring'[i] = words[Here(i)]
      <3> HIDE DEF Hit, Here, i
      <3>1. QED
        BY <1>1, <2>1
    <2>5. QED
      BY <2>3, <2>4 DEF Then
  <1>8. QED
    BY <1>2, <1>5, <1>6, <1>7

\* The switch record of a task goes to offset start, behind a LOST record or
\* at data_head.
Appended(start, task, out) ==
    /\ start \in {head, head + 6} /\ head' = start + 5
    /\ head' <= dataTail + RingSize
    /\ \A o \in dataTail..head-1 : Then(o) = At(o)
    /\ Then(start) = Header("switch", out, 5)
    /\ Then(start + 2).val = task /\ Then(start + 3).val = now + 1
    /\ \A k \in 1..4 : Then(start + k).type = "none"
    /\ start = head + 6 => /\ Then(head) = Header("lost", FALSE, 6)
                           /\ \A k \in 1..5 : Then(head + k).type = "none"
    /\ log' = Append(log, <<task, now + 1, out>>)
    /\ UNCHANGED lossy

\* The words of a switch record.
LEMMA SwitchWords ==
    ASSUME NEW task \in Nat, NEW time \in Nat, NEW out \in BOOLEAN,
           NEW rec, rec = SwitchRecord(task, time, out)
    PROVE  /\ rec \in Seq(Words) /\ Len(rec) = 5
           /\ rec[1] = Header("switch", out, 5)
           /\ rec[3].val = task /\ rec[4].val = time
           /\ \A k \in 2..5 : rec[k].type = "none"
  <1>1. /\ rec \in Seq(Words) /\ Len(rec) = 5
    BY DEF SwitchRecord, Words, Word, Header
  <1>2. /\ rec[1] = Header("switch", out, 5)
        /\ rec[2] = Word(0) /\ rec[3] = Word(task) /\ rec[4] = Word(time)
        /\ rec[5] = Word(0)
    BY DEF SwitchRecord
  <1>3. \A k \in 2..5 : k = 2 \/ k = 3 \/ k = 4 \/ k = 5
    OBVIOUS
  <1>4. rec[3].val = task /\ rec[4].val = time
    BY <1>2 DEF Word
  <1>5. \A k \in 2..5 : rec[k].type = "none"
    BY <1>2, <1>3 DEF Word
  <1>6. QED
    BY <1>1, <1>2, <1>4, <1>5

\* The words of a LOST record.
LEMMA LostWords ==
    ASSUME NEW task \in Nat, NEW time \in Nat,
           NEW rec, rec = LostRecord(task, time)
    PROVE  /\ rec \in Seq(Words) /\ Len(rec) = 6
           /\ rec[1] = Header("lost", FALSE, 6)
           /\ \A k \in 2..6 : rec[k].type = "none"
  <1>1. rec \in Seq(Words) /\ Len(rec) = 6
    BY DEF LostRecord, Words, Word, Header
  <1>2. /\ rec[1] = Header("lost", FALSE, 6)
        /\ rec[2] = Word(0) /\ rec[3] = Word(0) /\ rec[4] = Word(task)
        /\ rec[5] = Word(time) /\ rec[6] = Word(0)
    BY DEF LostRecord
  <1>3. \A k \in 2..6 : k = 2 \/ k = 3 \/ k = 4 \/ k = 5 \/ k = 6
    OBVIOUS
  <1>4. \A k \in 2..6 : rec[k].type = "none"
    BY <1>2, <1>3 DEF Word
  <1>5. QED
    BY <1>1, <1>2, <1>4

\* The kernel appends the record of a switch, or loses it.
LEMMA OutputSteps ==
    ASSUME Typed, Bounds, NEW task \in Tasks, NEW out \in BOOLEAN,
           Output(task, out)
    PROVE  \/ UNCHANGED <<ring, head, log>> /\ lossy'
           \/ /\ \E start \in Nat : Appended(start, task, out)
              /\ ring' \in [0..RingSize-1 -> Words]
  <1>t. PICK time : time = now + 1
    OBVIOUS
  <1>a. PICK rec : rec = SwitchRecord(task, time, out)
    OBVIOUS
  <1>b. PICK lost : lost = LostRecord(task, time)
    OBVIOUS
  <1> DEFINE all == IF drops THEN lost \o rec ELSE rec
  <1>0. /\ ring \in [0..RingSize-1 -> Words] /\ head \in Nat /\ dataTail \in Nat
        /\ RingSize \in Nat \ {0} /\ dataTail <= head /\ drops \in BOOLEAN
        /\ task \in Nat /\ time \in Nat
    BY <1>t, TimelineAssumption DEF Typed, Bounds
  <1>1. /\ rec \in Seq(Words) /\ Len(rec) = 5
        /\ rec[1] = Header("switch", out, 5)
        /\ rec[3].val = task /\ rec[4].val = time
        /\ \A k \in 2..5 : rec[k].type = "none"
    <2>1. task \in Nat /\ time \in Nat /\ out \in BOOLEAN
      BY <1>0
    <2>2. QED
      BY <1>a, <2>1, SwitchWords, SMTT(30)
  <1>2. /\ lost \in Seq(Words) /\ Len(lost) = 6
        /\ lost[1] = Header("lost", FALSE, 6)
        /\ \A k \in 2..6 : lost[k].type = "none"
    <2>1. task \in Nat /\ time \in Nat
      BY <1>0
    <2>2. QED
      BY <1>b, <2>1, LostWords
  <1>c. PICK words : words = all
    OBVIOUS
  <1>d. /\ Len(words) \in Nat /\ RingSize \in Nat /\ head <= dataTail + RingSize
        /\ words \in Seq(Words)
    <2>1. words \in Seq(Words)
      BY <1>1, <1>2, <1>c, ConcatProperties
    <2>2. QED
      BY <1>0, <2>1 DEF Bounds
  <1>e. ~(head > dataTail + RingSize)
    BY <1>0, <1>d
  <1>f. \/ /\ head + Len(words) <= dataTail + RingSize
           /\ Put(words) /\ UNCHANGED lossy
           /\ log' = Append(log, <<task, now + 1, out>>)
        \/ /\ head + Len(words) > dataTail + RingSize
           /\ lossy' /\ UNCHANGED <<ring, head, log>>
    BY <1>a, <1>b, <1>c, <1>e, <1>t DEF Output
  <1>3. CASE ~(head + Len(all) - dataTail <= RingSize)
    <2>1. ~(head + Len(words) <= dataTail + RingSize)
      BY <1>0, <1>3, <1>c, <1>d
    <2>2. QED
      BY <1>f, <2>1
  <1>4. CASE head + Len(all) - dataTail <= RingSize
    <2>1. Put(all) /\ UNCHANGED lossy /\ log' = Append(log, <<task, now + 1, out>>)
      <3>1. ~(head + Len(words) > dataTail + RingSize)
        BY <1>0, <1>4, <1>c, <1>d
      <3>2. QED
        BY <1>c, <1>f, <3>1
    <2>2. CASE ~drops
      <3>1. all = rec
        BY <2>2
      <3> HIDE DEF all
      <3>2. /\ head' = head + 5 /\ ring' \in [0..RingSize-1 -> Words]
            /\ \A o \in dataTail..head-1 : Then(o) = At(o)
            /\ \A k \in 1..5 : Then(head + k - 1) = rec[k]
        BY <1>0, <1>1, <1>4, <2>1, <3>1, PutWords
      <3>3. /\ Then(head) = rec[1] /\ Then(head + 2) = rec[3]
            /\ Then(head + 3) = rec[4]
        <4>1. /\ head + 1 - 1 = head /\ head + 3 - 1 = head + 2
              /\ head + 4 - 1 = head + 3
          BY <1>0
        <4>2. Then(head + 1 - 1) = rec[1]
          BY <3>2
        <4>3. Then(head + 3 - 1) = rec[3]
          BY <3>2
        <4>4. Then(head + 4 - 1) = rec[4]
          BY <3>2
        <4>5. QED
          BY <4>1, <4>2, <4>3, <4>4
      <3>4. ASSUME NEW k \in 1..4 PROVE Then(head + k).type = "none"
        <4>1. k + 1 \in 2..5 /\ k + 1 \in 1..5 /\ head + (k + 1) - 1 = head + k
          BY <1>0
        <4>2. Then(head + (k + 1) - 1) = rec[k + 1]
          BY <3>2, <4>1
        <4>3. QED
          BY <1>1, <4>1, <4>2
      <3>5. head' <= dataTail + RingSize
        <4>1. Len(all) = 5 /\ head + Len(all) - dataTail <= RingSize
          BY <1>1, <1>4, <3>1
        <4>2. QED
          BY <1>0, <3>2, <4>1
      <3>6. head # head + 6
        BY <1>0
      <3>7. Appended(head, task, out)
        BY <1>t, <1>1, <2>1, <3>2, <3>3, <3>4, <3>5, <3>6 DEF Appended
      <3>8. QED
        BY <1>0, <3>2, <3>7
    <2>3. CASE drops
      <3>1. all = lost \o rec
        BY <2>3
      <3> HIDE DEF all
      <3>2. /\ all \in Seq(Words) /\ Len(all) = 11
            /\ \A k \in 1..6 : all[k] = lost[k]
            /\ \A k \in 7..11 : all[k] = rec[k - 6]
        <4>1. all \in Seq(Words) /\ Len(all) = Len(lost) + Len(rec)
          BY <1>1, <1>2, <3>1, ConcatProperties
        <4>2. \A k \in 1..Len(lost)+Len(rec) :
                 all[k] = IF k <= Len(lost) THEN lost[k] ELSE rec[k - Len(lost)]
          BY <1>1, <1>2, <3>1, ConcatProperties
        <4>3. QED
          BY <1>1, <1>2, <4>1, <4>2
      <3>3. /\ head' = head + 11 /\ ring' \in [0..RingSize-1 -> Words]
            /\ \A o \in dataTail..head-1 : Then(o) = At(o)
            /\ \A k \in 1..11 : Then(head + k - 1) = all[k]
        BY <1>0, <1>4, <2>1, <3>2, PutWords
      <3>4. /\ Then(head) = lost[1] /\ Then(head + 6) = rec[1]
            /\ Then(head + 6 + 2) = rec[3] /\ Then(head + 6 + 3) = rec[4]
        <4>1. /\ head + 1 - 1 = head /\ head + 7 - 1 = head + 6
              /\ head + 9 - 1 = head + 6 + 2 /\ head + 10 - 1 = head + 6 + 3
          BY <1>0
        <4>2. Then(head + 1 - 1) = all[1] /\ all[1] = lost[1]
          BY <3>2, <3>3
        <4>3. Then(head + 7 - 1) = all[7] /\ all[7] = rec[1]
          BY <3>2, <3>3
        <4>4. Then(head + 9 - 1) = all[9] /\ all[9] = rec[3]
          BY <3>2, <3>3
        <4>5. Then(head + 10 - 1) = all[10] /\ all[10] = rec[4]
          BY <3>2, <3>3
        <4>6. QED
          BY <4>1, <4>2, <4>3, <4>4, <4>5
      <3>5. ASSUME NEW k \in 1..4 PROVE Then(head + 6 + k).type = "none"
        <4>1. /\ k + 1 \in 2..5 /\ k + 7 \in 1..11 /\ k + 7 \in 7..11
              /\ k + 7 - 6 = k + 1 /\ head + (k + 7) - 1 = head + 6 + k
          BY <1>0
        <4>2. Then(head + (k + 7) - 1) = all[k + 7]
          BY <3>3, <4>1
        <4>3. all[k + 7] = rec[k + 7 - 6]
          BY <3>2, <4>1
        <4>4. rec[k + 1].type = "none"
          BY <1>1, <4>1
        <4>5. QED
          BY <4>1, <4>2, <4>3, <4>4
      <3>6. ASSUME NEW k \in 1..5 PROVE Then(head + k).type = "none"
        <4>1. /\ k + 1 \in 2..6 /\ k + 1 \in 1..11 /\ k + 1 \in 1..6
              /\ head + (k + 1) - 1 = head + k
          BY <1>0
        <4>2. Then(head + (k + 1) - 1) = all[k + 1] /\ all[k + 1] = lost[k + 1]
          BY <3>2, <3>3, <4>1
        <4>3. QED
          BY <1>2, <4>1, <4>2
      <3>7. head' = head + 6 + 5 /\ head' <= dataTail + RingSize
        <4>1. Len(all) = 11 /\ head + Len(all) - dataTail <= RingSize
          BY <1>4, <3>2
        <4>2. QED
          BY <1>0, <3>3, <4>1
      <3>8. Appended(head + 6, task, out)
        BY <1>t, <1>1, <1>2, <2>1, <3>3, <3>4, <3>5, <3>6, <3>7 DEF Appended
      <3>9. head + 6 \in Nat
        BY <1>0
      <3>10. QED
        BY <3>3, <3>8, <3>9
    <2>4. QED
      BY <2>2, <2>3
  <1>5. QED
    BY <1>3, <1>4

\* The switch record the kernel appends prolongs the row.
LEMMA AppendedBounds ==
    ASSUME Typed, Bounds, NEW start \in Nat, NEW task, NEW out,
           Appended(start, task, out),
           UNCHANGED <<dataTail, pc, headOf, tailOf>>
    PROVE  Bounds' /\ head < head'
  <1>1. /\ head \in Nat /\ dataTail \in Nat /\ RingSize \in Nat
        /\ headOf \in [Thread -> Nat] /\ tailOf \in [Thread -> Nat]
    BY TimelineAssumption DEF Typed
  <1>2. head < head' /\ head' <= dataTail + RingSize /\ head' \in Nat
    BY <1>1 DEF Appended
  <1>3. ASSUME NEW d \in Thread, pc'[d] = "read"
        PROVE  /\ dataTail' <= tailOf'[d] /\ tailOf'[d] <= headOf'[d]
               /\ headOf'[d] <= head'
    <2>1. /\ dataTail <= tailOf[d] /\ tailOf[d] <= headOf[d]
          /\ headOf[d] <= head
      BY <1>3 DEF Bounds
    <2>2. QED
      BY <1>1, <1>2, <2>1
  <1>4. QED
    BY <1>1, <1>2, <1>3 DEF Bounds

\* Its end is where the next record will start.
LEMMA AppendedFramed ==
    ASSUME Typed, Bounds, Framed, NEW start \in Nat, NEW task, NEW out,
           Appended(start, task, out),
           UNCHANGED <<dataTail, pc, headOf, tailOf>>
    PROVE  Framed'
  <1>1. /\ head \in Nat /\ dataTail \in Nat /\ dataTail <= head
        /\ head' = start + 5 /\ start \in {head, head + 6}
    BY DEF Typed, Bounds, Appended
  <1>2. \A o : At(o)' = Then(o)
    BY DEF At, Then
  <1>3. \A o \in dataTail..head-1 : Then(o) = At(o)
    BY DEF Appended
  <1>4. Then(start).type = "switch" /\ Then(start).size = 5
    BY DEF Appended, Header
  <1>5. start # head => Then(head).type = "lost" /\ Then(head).size = 6
    <2>1. start # head => Then(head) = Header("lost", FALSE, 6)
      BY <1>1 DEF Appended
    <2>2. QED
      BY <2>1 DEF Header
  <1>6. Then(head).type # "none"
    BY <1>4, <1>5
  <1>7. ASSUME NEW p \in dataTail..head, Mark(p) PROVE Mark(p)'
    <2>1. CASE p = head
      BY <1>2, <1>6, <2>1 DEF Mark
    <2>2. CASE p # head
      <3>1. p \in dataTail..head-1
        BY <1>1, <2>2
      <3>2. QED
        BY <1>2, <1>3, <1>7, <2>2, <3>1 DEF Mark
    <2>3. QED
      BY <2>1, <2>2
  <1>8. ASSUME NEW o \in dataTail..head'-1, Then(o).type # "none"
        PROVE  Frame(o)'
    <2>1. CASE o \in dataTail..head-1
      <3>1. PICK n : n = IF At(o).type = "switch" THEN 5 ELSE 6
        OBVIOUS
      <3>2. At(o) = Then(o)
        BY <1>3, <2>1
      <3>3. Frame(o)
        BY <1>8, <2>1, <3>2 DEF Framed
      <3>4. /\ n \in Nat \ {0} /\ At(o).size = n /\ o + n <= head /\ Mark(o + n)
            /\ \A k \in 1..n-1 : At(o + k).type = "none"
        BY <3>1, <3>3 DEF Frame
      <3>5. o + n \in dataTail..head /\ o + n <= head'
        BY <1>1, <2>1, <3>4
      <3>6. Mark(o + n)'
        BY <1>7, <3>4, <3>5
      <3>7. ASSUME NEW k \in 1..n-1 PROVE Then(o + k).type = "none"
        <4>1. o + k \in dataTail..head-1
          BY <1>1, <2>1, <3>4
        <4>2. QED
          BY <1>3, <3>4, <4>1
      <3>8. QED
        BY <1>2, <3>1, <3>2, <3>4, <3>5, <3>6, <3>7 DEF Frame
    <2>2. CASE o = start
      <3>1. \A k \in 1..4 : Then(o + k).type = "none"
        BY <2>2 DEF Appended
      <3>2. o + 5 = head'
        BY <1>1, <2>2
      <3>3. Mark(o + 5)'
        BY <3>2 DEF Mark
      <3>4. QED
        BY <1>2, <1>4, <2>2, <3>1, <3>2, <3>3 DEF Frame
    <2>3. CASE o = head /\ start # head
      <3>1. \A k \in 1..5 : Then(o + k).type = "none"
        BY <1>1, <2>3 DEF Appended
      <3>2. o + 6 = start /\ o + 6 <= head'
        BY <1>1, <2>3
      <3>3. Mark(o + 6)'
        BY <1>2, <1>4, <3>2 DEF Mark
      <3>4. QED
        BY <1>2, <1>5, <2>3, <3>1, <3>2, <3>3 DEF Frame
    <2>4. CASE o \notin dataTail..head-1 /\ o # start /\ ~(o = head /\ start # head)
      <3>1. CASE o > start
        <4>1. o - start \in 1..4 /\ start + (o - start) = o
          BY <1>1, <3>1
        <4>2. Then(start + (o - start)).type = "none"
          BY <4>1 DEF Appended
        <4>3. QED
          BY <1>8, <4>1, <4>2
      <3>2. CASE o < start
        <4>1. start = head + 6 /\ o > head
          BY <1>1, <2>4, <3>2
        <4>2. o - head \in 1..5 /\ head + (o - head) = o
          BY <1>1, <3>2, <4>1
        <4>3. Then(head + (o - head)).type = "none"
          BY <4>1, <4>2 DEF Appended
        <4>4. QED
          BY <1>8, <4>2, <4>3
      <3>3. QED
        BY <1>1, <2>4, <3>1, <3>2
    <2>5. QED
      BY <2>1, <2>2, <2>3, <2>4
  <1>9. Mark(dataTail)'
    BY <1>1, <1>7 DEF Framed, Mark, At
  <1>10. ASSUME NEW d \in Thread, pc'[d] = "read"
         PROVE  Mark(tailOf[d])' /\ Mark(headOf[d])'
    <2>1. Mark(tailOf[d]) /\ Mark(headOf[d]) /\ tailOf'[d] = tailOf[d]
          /\ headOf'[d] = headOf[d]
      BY <1>10 DEF Framed
    <2>2. tailOf[d] \in dataTail..head /\ headOf[d] \in dataTail..head
      BY <1>1, <1>10 DEF Bounds, Typed
    <2>3. \A p \in dataTail..head : Mark(p) => Mark(p)'
      BY <1>7
    <2>4. QED
      BY <2>1, <2>2, <2>3 DEF Mark, At
  <1>11. QED
    BY <1>2, <1>8, <1>9, <1>10 DEF Framed

\* Its offset goes with it.
LEMMA AppendedTracked ==
    ASSUME Typed, Bounds, Tracked, Prefix, CaughtUp, NEW start \in Nat,
           NEW task \in Tasks, NEW out \in BOOLEAN,
           Appended(start, task, out),
           UNCHANGED <<dataTail, pc, headOf, tailOf, flusher, horizon, read>>
    PROVE  Tracked'
  <1>1. /\ head \in Nat /\ dataTail \in Nat /\ dataTail <= head
        /\ head' = start + 5 /\ start \in {head, head + 6} /\ head <= start
        /\ now \in Nat /\ horizon \in Nat /\ horizon <= now
    BY DEF Typed, Bounds, Appended, CaughtUp
  <1>2. PICK n : n = Len(log) + 1
    OBVIOUS
  <1>3. /\ n \in Nat \ {0} /\ Len(log') = n /\ log'[n] = <<task, now + 1, out>>
        /\ \A i \in 1..n-1 : log'[i] = log[i]
        /\ Len(log) = n-1 /\ Len(read) \in Nat /\ Len(read) <= n-1
    <2>1. log' = Append(log, <<task, now + 1, out>>)
      BY DEF Appended
    <2>2. log \in Seq(Record) /\ read \in Seq(Record)
      BY DEF Typed
    <2>3. QED
      BY <1>2, <2>1, <2>2 DEF Prefix
  <1>4. PICK pos \in [1..n-1 -> Nat] : Placed(pos) /\ Followed(pos)
    BY <1>3 DEF Tracked
  <1>5. PICK more : more = [i \in 1..n |-> IF i = n THEN start ELSE pos[i]]
    OBVIOUS
  <1>6. /\ more \in [1..n -> Nat] /\ more[n] = start
        /\ \A i \in 1..n-1 : more[i] = pos[i]
    BY <1>3, <1>4, <1>5
  <1>7. /\ \A o : At(o)' = Then(o)
        /\ \A o \in dataTail..head-1 : Then(o) = At(o)
    BY DEF At, Then, Appended
  <1>8. \A i \in 1..n-1 : pos[i] + 5 <= head /\ pos[i] \in Nat
    BY <1>3, <1>4 DEF Placed
  <1>9. Placed(more)'
    <2>1. ASSUME NEW i \in 1..n PROVE more[i] + 5 <= head'
      <3>1. CASE i = n
        BY <1>1, <1>6, <3>1
      <3>2. CASE i # n
        <4>1. i \in 1..n-1 /\ more[i] = pos[i]
          BY <1>3, <1>6, <3>2
        <4>2. pos[i] + 5 <= head /\ pos[i] \in Nat
          BY <1>8, <4>1
        <4>3. QED
          BY <1>1, <4>1, <4>2
      <3>3. QED
        BY <3>1, <3>2
    <2>2. ASSUME NEW i \in 1..n, NEW j \in 1..n, i < j
          PROVE  more[i] + 5 <= more[j]
      <3>1. i \in 1..n-1 /\ more[i] = pos[i] /\ pos[i] + 5 <= head
        <4>1. i \in 1..n-1
          BY <1>3, <2>2
        <4>2. QED
          BY <1>6, <1>8, <4>1
      <3>2. CASE j = n
        BY <1>1, <1>6, <1>8, <3>1, <3>2
      <3>3. CASE j # n
        BY <1>3, <1>4, <1>6, <2>2, <3>1, <3>3 DEF Placed
      <3>4. QED
        BY <3>2, <3>3
    <2>3. ASSUME NEW i \in 1..n, more[i] >= dataTail
          PROVE  /\ Then(more[i]) = Header("switch", log'[i][3], 5)
                 /\ Then(more[i] + 2).val = log'[i][1]
                 /\ Then(more[i] + 3).val = log'[i][2]
      <3>1. CASE i = n
        <4>1. log'[i][1] = task /\ log'[i][2] = now + 1 /\ log'[i][3] = out
          BY <1>3, <3>1
        <4>2. QED
          BY <1>6, <3>1, <4>1 DEF Appended
      <3>2. CASE i # n
        <4>1. i \in 1..n-1 /\ more[i] = pos[i] /\ log'[i] = log[i]
          BY <1>3, <1>6, <3>2
        <4>2. /\ At(pos[i]) = Header("switch", log[i][3], 5)
              /\ At(pos[i] + 2).val = log[i][1]
              /\ At(pos[i] + 3).val = log[i][2]
          BY <1>3, <1>4, <2>3, <4>1 DEF Placed
        <4>3. /\ pos[i] \in dataTail..head-1 /\ pos[i] + 2 \in dataTail..head-1
              /\ pos[i] + 3 \in dataTail..head-1
          BY <1>1, <1>8, <2>3, <4>1
        <4>4. QED
          BY <1>7, <4>1, <4>2, <4>3
      <3>3. QED
        BY <3>1, <3>2
    <2>4. ASSUME NEW o \in dataTail..head'-1, Then(o).type = "switch"
          PROVE  \E i \in 1..n : more[i] = o
      <3>1. CASE o \in dataTail..head-1
        <4>1. At(o).type = "switch"
          BY <1>7, <2>4, <3>1
        <4>2. PICK i \in 1..n-1 : pos[i] = o
          BY <1>3, <1>4, <3>1, <4>1 DEF Placed
        <4>3. i \in 1..n /\ more[i] = o
          BY <1>3, <1>6, <4>2
        <4>4. QED
          BY <4>3
      <3>2. CASE o >= head
        <4>1. o = start
          <5>1. CASE o > start
            <6>1. o - start \in 1..4 /\ start + (o - start) = o
              BY <1>1, <5>1
            <6>2. Then(start + (o - start)).type = "none"
              BY <6>1 DEF Appended
            <6>3. QED
              BY <2>4, <6>1, <6>2
          <5>2. CASE o < start /\ o > head
            <6>1. /\ start = head + 6 /\ o - head \in 1..5
                  /\ head + (o - head) = o
              BY <1>1, <5>2
            <6>2. Then(head + (o - head)).type = "none"
              BY <6>1 DEF Appended
            <6>3. QED
              BY <2>4, <6>1, <6>2
          <5>3. CASE o < start /\ o = head
            <6>1. start = head + 6
              BY <1>1, <5>3
            <6>2. Then(head).type = "lost"
              BY <6>1 DEF Appended, Header
            <6>3. QED
              BY <2>4, <5>3, <6>2
          <5>4. QED
            BY <1>1, <3>2, <5>1, <5>2, <5>3
        <4>2. n \in 1..n
          BY <1>3
        <4>3. QED
          BY <1>6, <4>1, <4>2
      <3>3. QED
        BY <1>1, <3>1, <3>2
    <2>5. QED
      BY <1>3, <1>7, <2>1, <2>2, <2>3, <2>4 DEF Placed
  <1>10. ASSUME NEW p \in Nat, p <= head, UpTo(pos, p)
         PROVE  \A i \in 1..n : i <= Len(read') <=> more[i] < p
    <2>1. \A i \in 1..n-1 : i <= Len(read) <=> pos[i] < p
      BY <1>3, <1>10 DEF UpTo
    <2>2. ~(n <= Len(read)) /\ ~(more[n] < p)
      BY <1>1, <1>3, <1>6, <1>10
    <2>3. \A i \in 1..n : i = n \/ i \in 1..n-1
      BY <1>3
    <2>4. QED
      BY <1>6, <2>1, <2>2, <2>3
  <1>11. Followed(more)'
    <2>1. ASSUME NEW d \in Thread, pc'[d] = "read"
          PROVE  \A i \in 1..n : i <= Len(read') <=> more[i] < tailOf'[d]
      <3>0. pc[d] = "read"
        BY <1>1, <2>1
      <3>1. tailOf[d] \in Nat /\ tailOf[d] <= head
        <4>1. tailOf[d] <= headOf[d] /\ headOf[d] <= head
          BY <3>0 DEF Bounds
        <4>2. tailOf[d] \in Nat /\ headOf[d] \in Nat /\ head \in Nat
          BY DEF Typed
        <4>3. QED
          BY <4>1, <4>2
      <3>2. UpTo(pos, tailOf[d])
        BY <1>4, <3>0 DEF Followed
      <3>3. QED
        BY <1>10, <3>1, <3>2
    <2>2. ASSUME \A d \in Thread : pc'[d] # "read"
          PROVE  \A i \in 1..n : i <= Len(read') <=> more[i] < dataTail'
      <3>1. UpTo(pos, dataTail)
        BY <1>4, <2>2 DEF Followed
      <3>2. QED
        BY <1>1, <1>10, <3>1
    <2>3. ASSUME NEW d \in Thread, pc'[d] = "read", flusher' = d,
                 NEW i \in 1..n, more[i] >= headOf'[d]
          PROVE  log'[i][2] > horizon'
      <3>1. CASE i = n
        BY <1>1, <1>3, <3>1
      <3>2. CASE i # n
        <4>1. i \in 1..n-1
          BY <1>3, <3>2
        <4>2. log'[i] = log[i] /\ more[i] = pos[i]
          BY <1>3, <1>6, <4>1
        <4>3. QED
          BY <1>3, <1>4, <2>3, <4>1, <4>2 DEF Followed
      <3>3. QED
        BY <3>1, <3>2
    <2>4. QED
      BY <1>3, <2>1, <2>2, <2>3 DEF Followed, UpTo
  <1>12. QED
    BY <1>3, <1>6, <1>9, <1>11 DEF Tracked

-----------------------------------------------------------------------------
(* Drains *)

Ring == Bounds /\ Framed /\ Tracked

\* Steps that touch neither the ring nor the thread that reads it.
LEMMA RingLeftAlone ==
    ASSUME Ring, UNCHANGED <<ring, head, dataTail, log, read, headOf, tailOf>>,
           \A d \in Thread : pc'[d] = "read" <=> pc[d] = "read",
           \A d \in Thread :
              pc[d] = "read" /\ flusher' = d => flusher = d /\ horizon' = horizon
    PROVE  Ring'
  <1>1. Bounds'
    BY DEF Ring, Bounds
  <1>2. \A o : At(o)' = At(o)
    BY DEF At
  <1>3. \A o : (Mark(o)' <=> Mark(o)) /\ (Frame(o)' <=> Frame(o))
    BY <1>2 DEF Mark, Frame
  <1>4. Framed'
    <2>1. \A o \in dataTail..head-1 : At(o).type # "none" => Frame(o)
      BY DEF Ring, Framed
    <2>2. /\ Mark(dataTail)
          /\ \A d \in Thread : pc[d] = "read" => Mark(tailOf[d]) /\ Mark(headOf[d])
      BY DEF Ring, Framed
    <2>3. \A d \in Thread : /\ Mark(tailOf[d])' <=> Mark(tailOf[d])
                            /\ Mark(headOf[d])' <=> Mark(headOf[d])
      BY DEF Mark, At
    <2>4. Mark(dataTail)' <=> Mark(dataTail)
      BY DEF Mark, At
    <2>5. QED
      BY <1>2, <1>3, <2>1, <2>2, <2>3, <2>4 DEF Framed
  <1>5. Tracked'
    <2>1. PICK pos \in [1..Len(log) -> Nat] : Placed(pos) /\ Followed(pos)
      BY DEF Ring, Tracked
    <2>2. Placed(pos)'
      BY <1>2, <2>1 DEF Placed
    <2>3. Followed(pos)'
      BY <2>1 DEF Followed, UpTo
    <2>4. QED
      BY <2>1, <2>2, <2>3 DEF Tracked
  <1>6. QED
    BY <1>1, <1>4, <1>5 DEF Ring

\* As long as no flush and drain have met, one thread at most is draining.
LEMMA OneBusy ==
    ASSUME Typed, Alone, ~overlap, NEW d \in Thread, Busy(d)
    PROVE  \A e \in Thread : e # d => pc[e] = "idle"
  BY TimelineAssumption DEF Typed, Alone, Busy

\* There a drain finds the header of a record, which tells it what it reads.
LEMMA OnlyRecord ==
    ASSUME Typed, Ring, NEW d \in Thread, pc[d] = "read", tailOf[d] < headOf[d]
    PROVE  RecordsAt(tailOf[d]) = {RecordAt(tailOf[d])}
  <1>1. /\ tailOf[d] \in Nat /\ headOf[d] \in Nat /\ head \in Nat
        /\ headOf[d] <= head /\ Mark(tailOf[d])
    BY DEF Typed, Ring, Bounds, Framed
  <1>2. tailOf[d] # head
    BY <1>1
  <1>3. At(tailOf[d]).type # "none"
    BY <1>1, <1>2 DEF Mark
  <1>4. QED
    BY <1>3 DEF RecordsAt

\* The record at the tail of a drain lies before the head the drain has seen,
\* and is the first that was not read.
LEMMA NextRecord ==
    ASSUME Typed, Ring, Prefix, NEW d \in Thread, pc[d] = "read",
           tailOf[d] < headOf[d], NEW rec, rec = RecordAt(tailOf[d]),
           NEW pos \in [1..Len(log) -> Nat], Placed(pos), Followed(pos)
    PROVE  /\ ~Broken(d, rec) /\ rec.size \in Nat
           /\ rec.type \in {"switch", "lost"}
           /\ tailOf[d] + rec.size <= headOf[d] /\ Mark(tailOf[d] + rec.size)
           /\ rec.type = "switch" =>
                /\ Len(read) + 1 \in 1..Len(log)
                /\ <<rec.tid, rec.time, rec.out>> = log[Len(read) + 1]
           /\ \A i \in 1..Len(log) :
                pos[i] < tailOf[d] + rec.size <=>
                  i <= IF rec.type = "switch" THEN Len(read) + 1 ELSE Len(read)
  <1>1. PICK o : o = tailOf[d]
    OBVIOUS
  <1>2. PICK h : h = headOf[d]
    OBVIOUS
  <1>3. /\ o \in Nat /\ h \in Nat /\ head \in Nat /\ dataTail \in Nat
        /\ dataTail <= o /\ o < h /\ h <= head
        /\ Len(log) \in Nat /\ Len(read) \in Nat /\ Len(read) <= Len(log)
    <2>1. o \in Nat /\ h \in Nat /\ head \in Nat /\ dataTail \in Nat
      BY <1>1, <1>2 DEF Typed
    <2>2. dataTail <= o /\ o < h /\ h <= head
      BY <1>1, <1>2 DEF Ring, Bounds
    <2>3. Len(log) \in Nat /\ Len(read) \in Nat
      BY DEF Typed
    <2>4. QED
      BY <2>1, <2>2, <2>3 DEF Prefix
  <1>4. Mark(o) /\ Mark(h)
    BY <1>1, <1>2 DEF Ring, Framed
  <1>5. o \in dataTail..head-1 /\ At(o).type # "none" /\ Frame(o)
    <2>1. o \in dataTail..head-1 /\ o # head
      BY <1>3
    <2>2. At(o).type # "none"
      BY <1>4, <2>1 DEF Mark
    <2>3. QED
      BY <2>1, <2>2 DEF Ring, Framed
  <1>6. At(o).type \in {"switch", "lost"}
    <2>1. o % RingSize \in 0..RingSize-1
      BY <1>3, TimelineAssumption
    <2>2. At(o) \in Words
      BY <2>1 DEF Typed, At
    <2>3. QED
      BY <1>5, <2>2 DEF Words
  <1>7. PICK n : n = IF At(o).type = "switch" THEN 5 ELSE 6
    OBVIOUS
  <1>8. /\ n \in {5, 6} /\ At(o).size = n /\ o + n <= head /\ Mark(o + n)
        /\ \A k \in 1..n-1 : At(o + k).type = "none"
    BY <1>5, <1>7 DEF Frame
  <1>9. o + n <= h
    <2>1. SUFFICES ASSUME h < o + n PROVE FALSE
      BY <1>3, <1>8
    <2>2. h - o \in 1..n-1 /\ o + (h - o) = h /\ h # head
      BY <1>3, <1>8, <2>1
    <2>3. At(o + (h - o)).type = "none"
      BY <1>8, <2>2
    <2>4. QED
      BY <1>4, <2>2, <2>3 DEF Mark
  <1>10. /\ rec.type = At(o).type /\ rec.size = n /\ rec.out = At(o).out
         /\ rec.type = "switch" => /\ rec.tid = At(o + 2).val
                                   /\ rec.time = At(o + 3).val
    <2>1. /\ rec.type = At(o).type /\ rec.size = At(o).size
          /\ rec.out = At(o).out
      BY <1>1 DEF RecordAt
    <2>2. ASSUME rec.type = "switch"
          PROVE  rec.tid = At(o + 2).val /\ rec.time = At(o + 3).val
      <3>1. At(o).type = "switch"
        BY <2>1, <2>2
      <3>2. rec.tid = At(o + 1 + 1).val /\ rec.time = At(o + 2 + 1).val
        BY <1>1, <3>1 DEF RecordAt
      <3>3. o + 1 + 1 = o + 2 /\ o + 2 + 1 = o + 3
        BY <1>3
      <3>4. QED
        BY <3>2, <3>3
    <2>3. QED
      BY <1>8, <2>1, <2>2
  <1>11. ~Broken(d, rec)
    BY <1>1, <1>2, <1>3, <1>8, <1>9, <1>10 DEF Broken
  <1>12. \A i \in 1..Len(log) : i <= Len(read) <=> pos[i] < o
    BY <1>1 DEF Followed, UpTo
  <1>13. CASE At(o).type = "switch"
    <2>1. PICK i \in 1..Len(log) : pos[i] = o
      BY <1>5, <1>13 DEF Placed
    <2>2. ASSUME NEW j \in 1..Len(log), j < i PROVE pos[j] < o
      <3>1. pos[j] + 5 <= pos[i] /\ pos[j] \in Nat
        BY <2>2 DEF Placed
      <3>2. QED
        BY <1>3, <2>1, <3>1
    <2>3. \A j \in 1..Len(log) : j > i => pos[j] >= o + 5
      BY <1>3, <2>1 DEF Placed
    <2>4. ~(i <= Len(read))
      BY <1>3, <1>12, <2>1
    <2>5. i = Len(read) + 1
      <3>1. SUFFICES ASSUME i # Len(read) + 1 PROVE FALSE
        OBVIOUS
      <3>2. Len(read) + 1 \in 1..Len(log) /\ Len(read) + 1 < i
        BY <1>3, <2>4, <3>1
      <3>3. pos[Len(read) + 1] < o
        BY <2>2, <3>2
      <3>4. Len(read) + 1 <= Len(read)
        BY <1>12, <3>2, <3>3
      <3>5. QED
        BY <1>3, <3>4
    <2>6. <<rec.tid, rec.time, rec.out>> = log[i]
      <3>1. /\ At(o) = Header("switch", log[i][3], 5)
            /\ At(o + 2).val = log[i][1] /\ At(o + 3).val = log[i][2]
        BY <1>3, <2>1 DEF Placed
      <3>2. At(o).out = log[i][3]
        BY <3>1 DEF Header
      <3>3. log[i] \in Record
        BY DEF Typed
      <3>4. log[i] = <<log[i][1], log[i][2], log[i][3]>>
        BY <3>3 DEF Record
      <3>5. QED
        BY <1>10, <1>13, <3>1, <3>2, <3>4
    <2>7. n = 5
      BY <1>7, <1>13
    <2>8. \A j \in 1..Len(log) : pos[j] < o + 5 <=> j <= i
      <3>1. ASSUME NEW j \in 1..Len(log) PROVE pos[j] < o + 5 <=> j <= i
        <4>1. CASE j < i
          BY <1>3, <2>2, <4>1
        <4>2. CASE j = i
          BY <1>3, <2>1, <4>2
        <4>3. CASE j > i
          BY <1>3, <2>3, <4>3
        <4>4. QED
          BY <1>3, <4>1, <4>2, <4>3
      <3>2. QED
        BY <3>1
    <2>9. QED
      BY <1>1, <1>2, <1>6, <1>8, <1>9, <1>10, <1>11, <1>13, <2>5, <2>6, <2>7, <2>8
  <1>14. CASE At(o).type = "lost"
    <2>1. n = 6 /\ rec.type # "switch"
      BY <1>7, <1>10, <1>14
    <2>2. ASSUME NEW i \in 1..Len(log), pos[i] < o + 6 PROVE pos[i] < o
      <3>1. SUFFICES ASSUME pos[i] >= o PROVE FALSE
        BY <1>3
      <3>2. At(pos[i]) = Header("switch", log[i][3], 5)
        BY <1>3, <3>1 DEF Placed
      <3>3. At(pos[i]).type = "switch"
        BY <3>2 DEF Header
      <3>4. pos[i] # o
        BY <1>14, <3>3
      <3>5. pos[i] - o \in 1..n-1 /\ o + (pos[i] - o) = pos[i]
        <4>1. o \in Nat /\ pos[i] \in Nat
          BY <1>3
        <4>2. QED
          BY <2>1, <2>2, <3>1, <3>4, <4>1
      <3>6. At(o + (pos[i] - o)).type = "none"
        BY <1>8, <3>5
      <3>7. QED
        BY <3>3, <3>5, <3>6
    <2>3. \A i \in 1..Len(log) : pos[i] < o + 6 <=> i <= Len(read)
      <3>1. ASSUME NEW i \in 1..Len(log) PROVE pos[i] < o + 6 <=> i <= Len(read)
        <4>1. pos[i] < o => pos[i] < o + 6
          BY <1>3
        <4>2. QED
          BY <1>12, <2>2, <4>1
      <3>2. QED
        BY <3>1
    <2>4. QED
      BY <1>1, <1>2, <1>6, <1>8, <1>9, <1>10, <1>11, <1>14, <2>1, <2>3
  <1>15. QED
    BY <1>6, <1>13, <1>14

\* A drain starts at data_tail and goes up to data_head.
LEMMA RingLoad ==
    ASSUME Typed, Alone, Ring, ~overlap, NEW d \in Thread, Load(d)
    PROVE  Ring'
  <1>1. /\ head \in Nat /\ dataTail \in Nat /\ dataTail <= head
        /\ head <= dataTail + RingSize
    BY DEF Typed, Ring, Bounds
  <1>2. /\ UNCHANGED <<ring, head, dataTail, log, read, flusher>>
        /\ pc'[d] = "read" /\ headOf'[d] = head /\ tailOf'[d] = dataTail
        /\ \A e \in Thread : e # d => pc'[e] = pc[e]
    BY DEF Load, kernelVars, sliceVars, Typed
  <1>3. /\ \A e \in Thread : pc[e] # "read"
        /\ \A e \in Thread : pc'[e] = "read" => e = d
    BY <1>2, OneBusy DEF Load, Busy
  <1>4. Bounds'
    BY <1>1, <1>2, <1>3 DEF Bounds
  <1>5. \A o : At(o)' = At(o)
    BY <1>2 DEF At
  <1>6. \A o : (Mark(o)' <=> Mark(o)) /\ (Frame(o)' <=> Frame(o))
    BY <1>2, <1>5 DEF Mark, Frame
  <1>7. Framed'
    <2>1. \A o \in dataTail..head-1 : At(o).type # "none" => Frame(o)
      BY DEF Ring, Framed
    <2>2. Mark(dataTail) /\ Mark(head)
      BY DEF Ring, Framed, Mark
    <2>3. Mark(dataTail)' /\ Mark(tailOf[d])' /\ Mark(headOf[d])'
      BY <1>2, <2>2 DEF Mark, At
    <2>4. QED
      BY <1>2, <1>3, <1>5, <1>6, <2>1, <2>3 DEF Framed
  <1>8. Tracked'
    <2>1. PICK pos \in [1..Len(log) -> Nat] : Placed(pos) /\ Followed(pos)
      BY DEF Ring, Tracked
    <2>2. Placed(pos)'
      BY <1>2, <1>5, <2>1 DEF Placed
    <2>3. UpTo(pos, dataTail)
      BY <1>3, <2>1 DEF Followed
    <2>4. \A i \in 1..Len(log) : ~(pos[i] >= head)
      BY <1>1, <2>1 DEF Placed
    <2>5. Followed(pos)'
      BY <1>2, <1>3, <2>3, <2>4 DEF Followed, UpTo
    <2>6. QED
      BY <1>2, <2>1, <2>2, <2>5 DEF Tracked
  <1>9. QED
    BY <1>4, <1>7, <1>8 DEF Ring

\* What becomes of monitor and slices when record r of the log is processed.
Handled(r) ==
    \/ r[1] = 0 /\ UNCHANGED <<since, tid, slices>>
    \/ /\ r[1] # 0 /\ r[3] = TRUE /\ since' = 0 /\ UNCHANGED tid
       /\ slices' = IF since = 0 THEN slices
                    ELSE Append(slices, [begin |-> since, end |-> r[2],
                                         tid |-> r[1]])
    \/ /\ r[1] # 0 /\ r[3] = FALSE
       /\ since' = r[2] /\ tid' = r[1] /\ UNCHANGED slices

\* One turn of the loop: the next record of the log, or a LOST record.
LEMMA ReadSteps ==
    ASSUME Typed, Alone, Ring, Prefix, ~overlap,
           NEW d \in Thread, ReadRecord(d)
    PROVE  /\ Ring'
           /\ \/ UNCHANGED <<read, since, tid, slices>>
              \/ /\ Len(read) + 1 \in 1..Len(log)
                 /\ read' = Append(read, log[Len(read) + 1])
                 /\ Handled(log[Len(read) + 1])
  <1>1. PICK rec : rec = RecordAt(tailOf[d])
    OBVIOUS
  <1>2. /\ pc[d] = "read" /\ tailOf[d] < headOf[d]
        /\ Process(rec)
        /\ read' = IF rec.type = "switch"
                   THEN Append(read, <<rec.tid, rec.time, rec.out>>) ELSE read
        /\ tailOf' = [tailOf EXCEPT ![d] = tailOf[d] + rec.size]
        /\ UNCHANGED <<ring, head, dataTail, log, pc, headOf, flusher, horizon>>
    <2>1. pc[d] = "read" /\ tailOf[d] < headOf[d]
      BY DEF ReadRecord
    <2>2. RecordsAt(tailOf[d]) = {rec}
      BY <1>1, <2>1, OnlyRecord
    <2>3. QED
      BY <2>2 DEF ReadRecord, kernelVars
  <1>3. PICK pos \in [1..Len(log) -> Nat] : Placed(pos) /\ Followed(pos)
    BY DEF Ring, Tracked
  <1>4. /\ rec.size \in Nat /\ rec.type \in {"switch", "lost"}
        /\ tailOf[d] + rec.size <= headOf[d] /\ Mark(tailOf[d] + rec.size)
        /\ rec.type = "switch" =>
             /\ Len(read) + 1 \in 1..Len(log)
             /\ <<rec.tid, rec.time, rec.out>> = log[Len(read) + 1]
        /\ \A i \in 1..Len(log) :
             pos[i] < tailOf[d] + rec.size <=>
               i <= IF rec.type = "switch" THEN Len(read) + 1 ELSE Len(read)
    BY <1>1, <1>2, <1>3, NextRecord
  <1>5. /\ tailOf \in [Thread -> Nat] /\ headOf \in [Thread -> Nat]
        /\ head \in Nat /\ dataTail \in Nat /\ read \in Seq(Record)
        /\ log \in Seq(Record)
    BY DEF Typed
  <1>6. /\ tailOf'[d] = tailOf[d] + rec.size
        /\ \A e \in Thread : e # d => tailOf'[e] = tailOf[e]
    BY <1>2, <1>5
  <1>7. Bounds'
    <2>1. ASSUME NEW e \in Thread, pc'[e] = "read"
          PROVE  /\ dataTail <= tailOf'[e] /\ tailOf'[e] <= headOf[e]
                 /\ headOf[e] <= head
      <3>1. /\ dataTail <= tailOf[e] /\ tailOf[e] <= headOf[e]
            /\ headOf[e] <= head
        BY <1>2, <2>1 DEF Ring, Bounds
      <3>2. CASE e = d
        BY <1>4, <1>5, <1>6, <3>1, <3>2
      <3>3. CASE e # d
        BY <1>6, <3>1, <3>3
      <3>4. QED
        BY <3>2, <3>3
    <2>2. QED
      BY <1>2, <2>1 DEF Ring, Bounds
  <1>8. \A o : At(o)' = At(o)
    BY <1>2 DEF At
  <1>9. \A o : (Mark(o)' <=> Mark(o)) /\ (Frame(o)' <=> Frame(o))
    BY <1>2, <1>8 DEF Mark, Frame
  <1>10. Framed'
    <2>1. \A o \in dataTail..head-1 : At(o).type # "none" => Frame(o)
      BY DEF Ring, Framed
    <2>2. Mark(dataTail)'
      BY <1>2 DEF Ring, Framed, Mark, At
    <2>3. ASSUME NEW e \in Thread, pc'[e] = "read"
          PROVE  Mark(tailOf[e])' /\ Mark(headOf[e])'
      <3>1. Mark(headOf[e])'
        BY <1>2, <2>3 DEF Ring, Framed, Mark, At
      <3>2. CASE e = d
        <4>1. Mark(tailOf[d])'
          BY <1>2, <1>4, <1>6 DEF Mark, At
        <4>2. QED
          BY <3>1, <3>2, <4>1
      <3>3. CASE e # d
        BY <1>2, <1>6, <2>3, <3>1, <3>3 DEF Ring, Framed, Mark, At
      <3>4. QED
        BY <3>2, <3>3
    <2>4. QED
      BY <1>2, <1>8, <1>9, <2>1, <2>2, <2>3 DEF Framed
  <1>11. Len(read') = IF rec.type = "switch" THEN Len(read) + 1 ELSE Len(read)
    <2>1. CASE rec.type = "switch"
      <3>1. read' = Append(read, log[Len(read) + 1])
        BY <1>2, <1>4, <2>1
      <3>2. QED
        BY <1>4, <1>5, <2>1, <3>1
    <2>2. CASE rec.type # "switch"
      BY <1>2, <2>2
    <2>3. QED
      BY <2>1, <2>2
  <1>12. Tracked'
    <2>1. Placed(pos)'
      BY <1>2, <1>3, <1>8 DEF Placed
    <2>2. ASSUME NEW e \in Thread, pc[e] = "read" PROVE UpTo(pos, tailOf[e])'
      <3>1. CASE e = d
        BY <1>2, <1>4, <1>6, <1>11, <3>1 DEF UpTo
      <3>2. CASE e # d
        BY <1>2, <2>2, <3>2, OneBusy DEF Busy
      <3>3. QED
        BY <3>1, <3>2
    <2>3. ASSUME NEW e \in Thread, pc[e] = "read", flusher = e
          PROVE  \A i \in 1..Len(log) :
                    pos[i] >= headOf[e] => log[i][2] > horizon
      BY <1>3, <2>3 DEF Followed
    <2>4. Followed(pos)'
      BY <1>2, <2>2, <2>3 DEF Followed, UpTo
    <2>5. QED
      BY <1>2, <1>3, <2>1, <2>4 DEF Tracked
  <1>13. Ring'
    BY <1>7, <1>10, <1>12 DEF Ring
  <1>14. CASE rec.type = "switch"
    <2>1. PICK r : r = log[Len(read) + 1]
      OBVIOUS
    <2>2. /\ r[1] = rec.tid /\ r[2] = rec.time /\ r[3] = rec.out
          /\ r \in Record /\ Len(read) + 1 \in 1..Len(log)
      BY <1>4, <1>5, <1>14, <2>1
    <2>3. read' = Append(read, r)
      BY <1>2, <1>4, <1>14, <2>1
    <2>4. Handled(r)
      <3>1. CASE r[1] = 0
        BY <1>2, <2>2, <3>1 DEF Process, Push, Relevant, Handled
      <3>2. CASE r[1] # 0 /\ r[3] = TRUE
        BY <1>2, <1>14, <2>2, <3>2 DEF Process, Push, Relevant, Handled
      <3>3. CASE r[1] # 0 /\ r[3] = FALSE
        BY <1>2, <1>14, <2>2, <3>3 DEF Process, Push, Relevant, Handled
      <3>4. QED
        BY <2>2, <3>1, <3>2, <3>3 DEF Record
    <2>5. QED
      BY <1>13, <2>1, <2>2, <2>3, <2>4
  <1>15. CASE rec.type # "switch"
    BY <1>2, <1>13, <1>15 DEF Process, Relevant
  <1>16. QED
    BY <1>14, <1>15

\* At the end of the loop what was read is given back to the kernel; nothing
\* that a flush could see when it began is left unread.
LEMMA PublishSteps ==
    ASSUME Typed, Alone, Ring, Prefix, ~overlap, NEW d \in Thread, Publish(d)
    PROVE  /\ Ring' /\ dataTail' >= dataTail
           /\ flusher = d =>
                \A i \in 1..Len(log) : i > Len(read) => log[i][2] > horizon
  <1>1. /\ pc[d] = "read" /\ dataTail' = tailOf[d]
        /\ pc' = [pc EXCEPT ![d] = IF flusher = d THEN "active" ELSE "idle"]
        /\ UNCHANGED <<ring, head, log, read, flusher, horizon>>
    BY DEF Publish, kernelVars, sliceVars
  <1>2. \A e \in Thread : pc'[e] # "read"
    BY <1>1, OneBusy DEF Typed, Busy
  <1>3. /\ head \in Nat /\ dataTail \in Nat /\ RingSize \in Nat
        /\ tailOf[d] \in Nat /\ headOf[d] \in Nat
        /\ dataTail <= tailOf[d] /\ tailOf[d] <= headOf[d]
        /\ headOf[d] <= head /\ head <= dataTail + RingSize
    BY <1>1, TimelineAssumption DEF Typed, Ring, Bounds
  <1>4. PICK pos \in [1..Len(log) -> Nat] : Placed(pos) /\ Followed(pos)
    BY DEF Ring, Tracked
  <1>5. tailOf[d] = headOf[d]
    <2>1. SUFFICES ASSUME tailOf[d] < headOf[d] PROVE FALSE
      BY <1>3
    <2>2. PICK rec : rec = RecordAt(tailOf[d])
      OBVIOUS
    <2>3. Broken(d, rec)
      <3>1. RecordsAt(tailOf[d]) = {rec}
        BY <1>1, <2>1, <2>2, OnlyRecord
      <3>2. QED
        BY <2>1, <3>1 DEF Publish
    <2>4. QED
      BY <1>1, <1>4, <2>1, <2>2, <2>3, NextRecord
  <1>6. UpTo(pos, tailOf[d])
    BY <1>1, <1>4 DEF Followed
  <1>7. Bounds'
    BY <1>1, <1>2, <1>3 DEF Bounds
  <1>8. \A o : At(o)' = At(o)
    BY <1>1 DEF At
  <1>9. \A o : (Mark(o)' <=> Mark(o)) /\ (Frame(o)' <=> Frame(o))
    BY <1>1, <1>8 DEF Mark, Frame
  <1>10. Framed'
    <2>1. ASSUME NEW o \in tailOf[d]..head-1, At(o).type # "none"
          PROVE  Frame(o)
      <3>1. o \in dataTail..head-1
        BY <1>3
      <3>2. QED
        BY <2>1, <3>1 DEF Ring, Framed
    <2>2. Mark(tailOf[d])
      BY <1>1 DEF Ring, Framed
    <2>3. Mark(dataTail)'
      BY <1>1, <2>2 DEF Mark, At
    <2>4. QED
      BY <1>1, <1>2, <1>8, <1>9, <2>1, <2>3 DEF Framed
  <1>11. Placed(pos)'
    <2>1. \A o \in tailOf[d]..head-1 : o \in dataTail..head-1
      BY <1>3
    <2>2. \A i \in 1..Len(log) : pos[i] >= tailOf[d] => pos[i] >= dataTail
      BY <1>3
    <2>3. QED
      BY <1>1, <1>4, <1>8, <2>1, <2>2 DEF Placed
  <1>12. Followed(pos)'
    BY <1>1, <1>2, <1>6 DEF Followed, UpTo
  <1>13. Tracked'
    BY <1>1, <1>4, <1>11, <1>12 DEF Tracked
  <1>14. ASSUME flusher = d, NEW i \in 1..Len(log), i > Len(read)
         PROVE  log[i][2] > horizon
    <2>1. ~(i <= Len(read))
      BY <1>14 DEF Typed
    <2>2. pos[i] >= headOf[d]
      BY <1>3, <1>5, <1>6, <2>1 DEF UpTo
    <2>3. QED
      BY <1>1, <1>4, <1>14, <2>2 DEF Followed
  <1>15. QED
    BY <1>1, <1>3, <1>7, <1>10, <1>13, <1>14 DEF Ring

\* The kernel writes a switch of some task, or loses it.
LEMMA KernelSteps ==
    ASSUME Typed, Alone, Ring, Prefix, CaughtUp,
           SwitchOut \/ \E t \in Tasks : SwitchIn(t)
    PROVE  /\ Ring' /\ now' = now + 1 /\ now' <= MaxTime
           /\ UNCHANGED <<dataTail, since, tid, slices, read, cut, shown, lock,
                          pc, headOf, tailOf, flusher, horizon, overlap>>
           /\ ring' \in [0..RingSize-1 -> Words] /\ head' \in Nat
           /\ \/ UNCHANGED log /\ lossy'
              \/ /\ \E task \in Tasks, out \in BOOLEAN :
                      log' = Append(log, <<task, now + 1, out>>)
                 /\ UNCHANGED lossy
  <1>1. /\ now' = now + 1 /\ now' <= MaxTime
        /\ UNCHANGED <<dataTail, since, tid, slices, read, cut, shown, lock,
                       pc, headOf, tailOf, flusher, horizon, overlap>>
    <2>1. now < MaxTime /\ now' = now + 1
      BY DEF SwitchOut, SwitchIn, Tick
    <2>2. now \in Nat /\ MaxTime \in Nat
      BY TimelineAssumption DEF Typed
    <2>3. now' <= MaxTime
      BY <2>1, <2>2
    <2>4. UNCHANGED <<dataTail, since, tid, slices, read, cut, shown, lock,
                      pc, headOf, tailOf, flusher, horizon, overlap>>
      BY DEF SwitchOut, SwitchIn, sliceVars
    <2>5. QED
      BY <2>1, <2>3, <2>4
  <1>2. \E task \in Tasks, out \in BOOLEAN : Output(task, out)
    <2>1. CASE SwitchOut
      <3>1. onCpu[1] \in Tasks /\ Output(onCpu[1], TRUE)
        <4>1. onCpu # <<>> /\ Output(onCpu[1], TRUE)
          BY <2>1 DEF SwitchOut
        <4>2. PICK t \in Tasks : onCpu = <<t>>
          BY <4>1 DEF Typed
        <4>3. onCpu[1] \in Tasks
          BY <4>2
        <4>4. QED
          BY <4>1, <4>3
      <3>2. QED
        BY <3>1
    <2>2. CASE \E t \in Tasks : SwitchIn(t)
      BY <2>2 DEF SwitchIn
    <2>3. QED
      BY <2>1, <2>2
  <1>3. PICK task \in Tasks, out \in BOOLEAN : Output(task, out)
    BY <1>2
  <1>4. CASE UNCHANGED <<ring, head, log>> /\ lossy'
    <2>1. Ring'
      BY <1>1, <1>4, RingLeftAlone
    <2>2. QED
      BY <1>1, <1>4, <2>1 DEF Typed
  <1>5. CASE \E start \in Nat : Appended(start, task, out)
    <2>1. PICK start \in Nat : Appended(start, task, out)
      BY <1>5
    <2>2. Bounds' /\ Framed' /\ Tracked'
      BY <1>1, <2>1, AppendedBounds, AppendedFramed, AppendedTracked DEF Ring
    <2>3. /\ head' \in Nat /\ log' = Append(log, <<task, now + 1, out>>)
          /\ UNCHANGED lossy
      BY <2>1 DEF Appended
    <2>4. ring' \in [0..RingSize-1 -> Words]
      BY <1>3, OutputSteps DEF Ring, Typed
    <2>5. QED
      BY <1>1, <2>2, <2>3, <2>4 DEF Ring
  <1>6. QED
    BY <1>3, <1>4, <1>5, OutputSteps DEF Ring

-----------------------------------------------------------------------------
(* Types *)

\* What a switch makes of the history of periods.
LEMMA TruthSteps ==
    ASSUME Typed, SwitchOut \/ \E t \in Tasks : SwitchIn(t)
    PROVE  /\ truth' \in [Tasks -> Seq(Period)]
           /\ \A t \in Tasks : \A k \in 1..Len(truth[t]) :
                /\ k \in 1..Len(truth'[t])
                /\ truth'[t][k].begin = truth[t][k].begin
                /\ truth[t][k].end # 0 => truth'[t][k].end = truth[t][k].end
                /\ truth[t][k].end = 0 => truth'[t][k].end \in {0, now + 1}
           /\ \A t \in Tasks :
                (SwitchOut /\ onCpu = <<t>>) =>
                  \A k \in 1..Len(truth[t]) :
                     (k = Len(truth[t]) /\ truth[t][k].end = 0) =>
                       truth'[t][k].end = now + 1
           /\ \A t \in Tasks : SwitchIn(t) =>
                /\ Len(truth'[t]) = Len(truth[t]) + 1
                /\ truth'[t][Len(truth[t]) + 1] = [begin |-> now + 1, end |-> 0]
  <1>1. /\ truth \in [Tasks -> Seq(Period)] /\ now + 1 \in Nat
        /\ \A t \in Tasks : truth[t] \in Seq(Period) /\ Len(truth[t]) \in Nat
    BY DEF Typed
  <1>2. CASE SwitchOut
    <2>1. PICK u \in Tasks : onCpu = <<u>>
      BY <1>2 DEF SwitchOut, Typed
    <2>2. onCpu[1] = u
      BY <2>1
    <2>3. PICK p : p = truth[u]
      OBVIOUS
    <2>4. PICK q : q = [i \in DOMAIN p |-> IF i = Len(p) /\ p[i].end = 0
                                           THEN [p[i] EXCEPT !.end = now + 1]
                                           ELSE p[i]]
      OBVIOUS
    <2>5. truth' = [truth EXCEPT ![u] = q]
      BY <1>2, <2>2, <2>3, <2>4 DEF SwitchOut
    <2>6. p \in Seq(Period) /\ Len(p) \in Nat /\ DOMAIN p = 1..Len(p)
      BY <1>1, <2>3
    <2>7. \A k \in 1..Len(p) : p[k] \in Period
      BY <2>6
    <2>8. ASSUME NEW k \in 1..Len(p)
          PROVE  /\ q[k] \in Period /\ q[k].begin = p[k].begin
                 /\ p[k].end # 0 => q[k].end = p[k].end
                 /\ p[k].end = 0 => q[k].end \in {0, now + 1}
                 /\ k = Len(p) /\ p[k].end = 0 => q[k].end = now + 1
      <3>1. p[k] \in Period
        BY <2>7
      <3>2. CASE k = Len(p) /\ p[k].end = 0
        <4>1. q[k] = [p[k] EXCEPT !.end = now + 1]
          BY <2>4, <2>6, <3>2
        <4>2. QED
          BY <1>1, <3>1, <3>2, <4>1 DEF Period
      <3>3. CASE ~(k = Len(p) /\ p[k].end = 0)
        <4>1. q[k] = p[k]
          BY <2>4, <2>6, <3>3
        <4>2. QED
          BY <3>1, <3>3, <4>1
      <3>4. QED
        BY <3>2, <3>3
    <2>9. q \in Seq(Period) /\ Len(q) = Len(p)
      <3>1. DOMAIN q = 1..Len(p) /\ q = [k \in 1..Len(p) |-> q[k]]
        BY <2>4, <2>6
      <3>2. QED
        BY <2>6, <2>8, <3>1
    <2>10. /\ truth' \in [Tasks -> Seq(Period)] /\ truth'[u] = q
           /\ \A t \in Tasks : t # u => truth'[t] = truth[t]
      BY <1>1, <2>5, <2>9
    <2>11. \A t \in Tasks : ~SwitchIn(t)
      BY <2>1 DEF SwitchIn
    <2>12. \A t \in Tasks : onCpu = <<t>> => t = u
      BY <2>1
    <2>13. ASSUME NEW t \in Tasks, NEW k \in 1..Len(truth[t])
           PROVE  /\ k \in 1..Len(truth'[t])
                  /\ truth'[t][k].begin = truth[t][k].begin
                  /\ truth[t][k].end # 0 => truth'[t][k].end = truth[t][k].end
                  /\ truth[t][k].end = 0 => truth'[t][k].end \in {0, now + 1}
      <3>1. CASE t = u
        BY <2>3, <2>8, <2>9, <2>10, <3>1
      <3>2. CASE t # u
        BY <2>10, <3>2
      <3>3. QED
        BY <3>1, <3>2
    <2>14. QED
      BY <2>3, <2>8, <2>10, <2>11, <2>12, <2>13
  <1>3. CASE \E t \in Tasks : SwitchIn(t)
    <2>1. PICK u \in Tasks : SwitchIn(u)
      BY <1>3
    <2>2. PICK e : e = [begin |-> now + 1, end |-> 0]
      OBVIOUS
    <2>3. truth' = [truth EXCEPT ![u] = Append(truth[u], e)] /\ e \in Period
      BY <1>1, <2>1, <2>2 DEF SwitchIn, Period
    <2>4. /\ truth' \in [Tasks -> Seq(Period)]
          /\ truth'[u] = Append(truth[u], e)
          /\ \A t \in Tasks : t # u => truth'[t] = truth[t]
      BY <1>1, <2>3
    <2>5. /\ Len(truth'[u]) = Len(truth[u]) + 1
          /\ \A k \in 1..Len(truth[u]) : truth'[u][k] = truth[u][k]
          /\ truth'[u][Len(truth[u]) + 1] = e
      BY <1>1, <2>3, <2>4
    <2>6. onCpu = <<>> /\ onCpu' = <<u>>
      BY <2>1 DEF SwitchIn
    <2>7. ~SwitchOut /\ \A t \in Tasks : SwitchIn(t) => t = u
      BY <2>6 DEF SwitchOut, SwitchIn
    <2>8. ASSUME NEW t \in Tasks, NEW k \in 1..Len(truth[t])
          PROVE  k \in 1..Len(truth'[t]) /\ truth'[t][k] = truth[t][k]
      <3>1. CASE t = u
        BY <1>1, <2>5, <3>1
      <3>2. CASE t # u
        BY <2>4, <3>2
      <3>3. QED
        BY <3>1, <3>2
    <2>9. QED
      BY <2>2, <2>4, <2>5, <2>7, <2>8
  <1>4. QED
    BY <1>2, <1>3

\* The state starts with the values it can take.
LEMMA TypedInit == Init => Typed
  <1> SUFFICES ASSUME Init PROVE Typed
    OBVIOUS
  <1> USE TimelineAssumption DEF Init
  <1>1. /\ now \in 1..MaxTime /\ head \in Nat /\ dataTail \in Nat
        /\ since \in Nat /\ tid \in Tasks /\ horizon \in 0..MaxTime
    OBVIOUS
  <1>2. onCpu = <<>> \/ \E t \in Tasks : onCpu = <<t>>
    OBVIOUS
  <1>3. ring \in [0..RingSize-1 -> Words]
    BY DEF Word, Words
  <1>4. drops \in BOOLEAN /\ lossy \in BOOLEAN /\ overlap \in BOOLEAN
    OBVIOUS
  <1>5. <<>> \in Seq(Slice) /\ <<>> \in Seq(Record) /\ <<>> \in Seq(Period)
    OBVIOUS
  <1>6. /\ slices \in Seq(Slice) /\ shown \in Seq(Slice)
        /\ log \in Seq(Record) /\ read \in Seq(Record)
        /\ truth \in [Tasks -> Seq(Period)]
    BY <1>5
  <1>7. /\ lock \in Thread \cup {NoThread} /\ flusher \in Thread \cup {NoThread}
        /\ pc \in [Thread -> {"idle", "load", "read", "active", "write"}]
        /\ headOf \in [Thread -> Nat] /\ tailOf \in [Thread -> Nat]
        /\ cut \subseteq Slice \X (0..MaxTime)
    OBVIOUS
  <1>8. QED
    BY <1>1, <1>2, <1>3, <1>4, <1>6, <1>7 DEF Typed

\* Processing a record keeps monitor and slices well formed.
LEMMA HandledTypes ==
    ASSUME since \in Nat, tid \in Tasks, slices \in Seq(Slice),
           NEW r \in Record, r[2] > 1, Handled(r)
    PROVE  since' \in Nat /\ tid' \in Tasks /\ slices' \in Seq(Slice)
  <1>1. r[1] \in Tasks /\ r[2] \in Nat
    BY DEF Record
  <1>2. [begin |-> since, end |-> r[2], tid |-> r[1]] \in Slice
    BY <1>1 DEF Slice
  <1>3. CASE r[1] = 0 /\ UNCHANGED <<since, tid, slices>>
    BY <1>3
  <1>4. CASE /\ since' = 0 /\ UNCHANGED tid
             /\ slices' = IF since = 0 THEN slices
                          ELSE Append(slices, [begin |-> since, end |-> r[2],
                                               tid |-> r[1]])
    BY <1>2, <1>4
  <1>5. CASE since' = r[2] /\ tid' = r[1] /\ UNCHANGED slices
    BY <1>1, <1>5
  <1>6. QED
    BY <1>3, <1>4, <1>5 DEF Handled

\* Every step keeps the types.
LEMMA TypedNext ==
    ASSUME Typed, Alone, Ring, Prefix, Ordered, CaughtUp, [Next]_vars, ~overlap
    PROVE  Typed'
  <1> DEFINE
        Ints == /\ now \in 1..MaxTime /\ head \in Nat /\ dataTail \in Nat
                /\ since \in Nat /\ tid \in Tasks /\ horizon \in 0..MaxTime
        OnCpu == onCpu = <<>> \/ \E t \in Tasks : onCpu = <<t>>
        Flags == drops \in BOOLEAN /\ lossy \in BOOLEAN /\ overlap \in BOOLEAN
        Seqs == /\ ring \in [0..RingSize-1 -> Words] /\ slices \in Seq(Slice)
                /\ shown \in Seq(Slice) /\ log \in Seq(Record)
                /\ read \in Seq(Record) /\ truth \in [Tasks -> Seq(Period)]
                /\ cut \subseteq Slice \X (0..MaxTime)
        Places == /\ lock \in Thread \cup {NoThread}
                  /\ flusher \in Thread \cup {NoThread}
                  /\ pc \in [Thread -> {"idle", "load", "read", "active",
                                        "write"}]
                  /\ headOf \in [Thread -> Nat] /\ tailOf \in [Thread -> Nat]
  <1>1. Ints /\ OnCpu /\ Flags /\ Seqs /\ Places
    <2>1. Flags
      BY DEF Typed
    <2>2. QED
      BY <2>1 DEF Typed
  <1>2. ASSUME Ints', OnCpu', Flags', Seqs', Places' PROVE Typed'
    <2>1. drops' \in BOOLEAN /\ lossy' \in BOOLEAN /\ overlap' \in BOOLEAN
      BY <1>2
    <2>2. QED
      BY <1>2, <2>1 DEF Typed
  <1>3. CASE SwitchOut \/ \E t \in Tasks : SwitchIn(t)
    <2>1. OnCpu'
      BY <1>3 DEF SwitchOut, SwitchIn
    <2>2. truth' \in [Tasks -> Seq(Period)]
      BY <1>3, TruthSteps
    <2>3. Flags'
      BY <1>1, <1>3 DEF SwitchOut, SwitchIn, Output
    <2>4. log' \in Seq(Record)
      <3>1. CASE UNCHANGED log
        BY <1>1, <3>1
      <3>2. ASSUME NEW task \in Tasks, NEW out \in BOOLEAN,
                   log' = Append(log, <<task, now + 1, out>>)
            PROVE  log' \in Seq(Record)
        <4>0. now + 1 \in Nat /\ log \in Seq(Record)
          BY <1>1
        <4>1. <<task, now + 1, out>> \in Record
          BY <4>0 DEF Record
        <4>2. QED
          BY <3>2, <4>0, <4>1
      <3>3. QED
        BY <1>3, <3>1, <3>2, KernelSteps
    <2>5. /\ now' = now + 1 /\ now' <= MaxTime
          /\ ring' \in [0..RingSize-1 -> Words] /\ head' \in Nat
          /\ UNCHANGED <<dataTail, since, tid, slices, read, cut, shown, lock,
                         pc, headOf, tailOf, flusher, horizon>>
      BY <1>3, KernelSteps
    <2>6. now' \in 1..MaxTime
      BY <1>1, <2>5, TimelineAssumption
    <2>7. QED
      BY <1>1, <1>2, <2>1, <2>2, <2>3, <2>4, <2>5, <2>6
  <1>4. ASSUME NEW d \in Thread, TryLock(d) \/ StartFlush(d) PROVE Typed'
    <2>1. Flags'
      BY <1>1, <1>4 DEF TryLock, StartFlush, kernelVars
    <2>2. Places' /\ Ints' /\ OnCpu' /\ Seqs'
      BY <1>1, <1>4 DEF TryLock, StartFlush, kernelVars, sliceVars
    <2>3. QED
      BY <1>2, <2>1, <2>2
  <1>5. ASSUME NEW d \in Thread, Load(d) PROVE Typed'
    <2>1. Flags'
      BY <1>1, <1>5 DEF Load, kernelVars
    <2>2. Ints'
      <3>1. horizon' = now \/ horizon' = horizon
        BY <1>5 DEF Load
      <3>2. UNCHANGED <<now, head, dataTail, since, tid>>
        BY <1>5 DEF Load, kernelVars, sliceVars
      <3>3. MaxTime \in Nat
        BY TimelineAssumption
      <3>4. QED
        BY <1>1, <3>1, <3>2, <3>3
    <2>3. Places' /\ OnCpu' /\ Seqs'
      BY <1>1, <1>5 DEF Load, kernelVars, sliceVars
    <2>4. QED
      BY <1>2, <2>1, <2>2, <2>3
  <1>6. ASSUME NEW d \in Thread, ~overlap, ReadRecord(d) PROVE Typed'
    <2>1. /\ UNCHANGED kernelVars
          /\ UNCHANGED <<dataTail, lock, pc, headOf, flusher, cut, horizon,
                         shown, overlap>>
      BY <1>6 DEF ReadRecord
    <2>2. \/ UNCHANGED <<read, since, tid, slices>>
          \/ /\ Len(read) + 1 \in 1..Len(log)
             /\ read' = Append(read, log[Len(read) + 1])
             /\ Handled(log[Len(read) + 1])
      BY <1>6, ReadSteps
    <2>3. /\ read' \in Seq(Record) /\ slices' \in Seq(Slice)
          /\ since' \in Nat /\ tid' \in Tasks
      <3>1. CASE UNCHANGED <<read, since, tid, slices>>
        BY <1>1, <3>1
      <3>2. CASE /\ Len(read) + 1 \in 1..Len(log)
                 /\ read' = Append(read, log[Len(read) + 1])
                 /\ Handled(log[Len(read) + 1])
        <4>1. PICK r : r = log[Len(read) + 1]
          OBVIOUS
        <4>2. log \in Seq(Record) /\ read \in Seq(Record)
          BY <1>1
        <4>3. r \in Record
          BY <3>2, <4>1, <4>2
        <4>4. r[2] > 1
          BY <3>2, <4>1 DEF Ordered
        <4>5. since \in Nat /\ tid \in Tasks /\ slices \in Seq(Slice)
          BY <1>1
        <4>6. since' \in Nat /\ tid' \in Tasks /\ slices' \in Seq(Slice)
          BY <3>2, <4>1, <4>3, <4>4, <4>5, HandledTypes
        <4>7. read' \in Seq(Record)
          BY <3>2, <4>1, <4>2, <4>3
        <4>8. QED
          BY <4>6, <4>7
      <3>3. QED
        BY <2>2, <3>1, <3>2
    <2>4. tailOf' \in [Thread -> Nat]
      <3>1. PICK rec : rec = RecordAt(tailOf[d])
        OBVIOUS
      <3>2. /\ tailOf' = [tailOf EXCEPT ![d] = tailOf[d] + rec.size]
            /\ pc[d] = "read" /\ tailOf[d] < headOf[d]
        <4>1. pc[d] = "read" /\ tailOf[d] < headOf[d]
          BY <1>6 DEF ReadRecord
        <4>2. RecordsAt(tailOf[d]) = {rec}
          BY <3>1, <4>1, OnlyRecord
        <4>3. QED
          BY <1>6, <4>2 DEF ReadRecord
      <3>3. PICK pos \in [1..Len(log) -> Nat] : Placed(pos) /\ Followed(pos)
        BY DEF Ring, Tracked
      <3>4. rec.size \in Nat
        BY <3>1, <3>2, <3>3, NextRecord
      <3>5. tailOf \in [Thread -> Nat]
        BY <1>1
      <3>6. tailOf[d] + rec.size \in Nat
        BY <3>4, <3>5
      <3>7. QED
        BY <3>2, <3>5, <3>6
    <2>5. Flags'
      BY <1>1, <2>1 DEF kernelVars
    <2>6. QED
      BY <1>1, <1>2, <2>1, <2>3, <2>4, <2>5 DEF kernelVars
  <1>7. ASSUME NEW d \in Thread, Publish(d) PROVE Typed'
    <2>1. Flags'
      BY <1>1, <1>7 DEF Publish, kernelVars
    <2>2. Places' /\ Ints' /\ OnCpu' /\ Seqs'
      BY <1>1, <1>7 DEF Publish, kernelVars, sliceVars
    <2>3. QED
      BY <1>2, <2>1, <2>2
  <1>8. ASSUME NEW d \in Thread, EndActive(d) PROVE Typed'
    <2>1. Flags'
      BY <1>1, <1>8 DEF EndActive, kernelVars
    <2>2. PICK s : s = [begin |-> since, end |-> now, tid |-> tid]
      OBVIOUS
    <2>3. s \in Slice
      <3>1. since \in Nat /\ now \in 1..MaxTime /\ tid \in Tasks
        BY <1>1
      <3>2. now \in Nat \ {0}
        BY <3>1, TimelineAssumption
      <3>3. QED
        BY <2>2, <3>1, <3>2 DEF Slice
    <2>4. \/ UNCHANGED <<since, slices, cut>>
          \/ /\ slices' = Append(slices, s) /\ since' = 0
             /\ cut' = cut \cup {<<s, horizon>>}
      BY <1>8, <2>2 DEF EndActive, Push
    <2>5. since' \in Nat /\ slices' \in Seq(Slice)
          /\ cut' \subseteq Slice \X (0..MaxTime)
      <3>1. CASE UNCHANGED <<since, slices, cut>>
        BY <1>1, <3>1
      <3>2. CASE /\ slices' = Append(slices, s) /\ since' = 0
                 /\ cut' = cut \cup {<<s, horizon>>}
        <4>0. /\ horizon \in 0..MaxTime /\ slices \in Seq(Slice)
              /\ cut \subseteq Slice \X (0..MaxTime)
          BY <1>1
        <4>1. <<s, horizon>> \in Slice \X (0..MaxTime)
          BY <2>3, <4>0
        <4>2. since' \in Nat /\ slices' \in Seq(Slice)
          BY <2>3, <3>2, <4>0
        <4>3. QED
          BY <3>2, <4>0, <4>1, <4>2
      <3>3. QED
        BY <2>4, <3>1, <3>2
    <2>6. /\ UNCHANGED kernelVars
          /\ UNCHANGED <<dataTail, tid, lock, headOf, tailOf, flusher, read,
                         horizon, shown>>
          /\ pc' = [pc EXCEPT ![d] = "write"]
      BY <1>8 DEF EndActive
    <2>7. Places'
      BY <1>1, <2>6
    <2>8. QED
      BY <1>1, <1>2, <2>1, <2>5, <2>6, <2>7 DEF kernelVars
  <1>9. ASSUME NEW d \in Thread, WriteSlices(d) PROVE Typed'
    <2>1. Flags'
      BY <1>1, <1>9 DEF WriteSlices, kernelVars
    <2>2. shown' \in Seq(Slice) /\ slices' \in Seq(Slice)
      BY <1>1, <1>9, ConcatProperties DEF WriteSlices
    <2>3. horizon' \in 0..MaxTime
      BY <1>9, TimelineAssumption DEF WriteSlices
    <2>4. Places'
      BY <1>1, <1>9 DEF WriteSlices
    <2>5. UNCHANGED <<kernelVars, dataTail, since, tid, read, cut>>
      BY <1>9 DEF WriteSlices
    <2>6. QED
      BY <1>1, <1>2, <2>1, <2>2, <2>3, <2>4, <2>5 DEF kernelVars
  <1>10. CASE UNCHANGED vars
    <2>1. Flags'
      BY <1>1, <1>10 DEF vars
    <2>2. Places' /\ Ints' /\ OnCpu' /\ Seqs'
      BY <1>1, <1>10 DEF vars
    <2>3. QED
      BY <1>2, <2>1, <2>2
  <1>11. QED
    BY <1>3, <1>4, <1>5, <1>6, <1>7, <1>8, <1>9, <1>10, NextCases

-----------------------------------------------------------------------------
(* Threads and time *)

\* The log grows at the present time.
LEMMA LogSteps ==
    ASSUME Typed, Alone, Ring, Prefix, CaughtUp, [Next]_vars, ~overlap
    PROVE  \/ UNCHANGED log /\ now' \in {now, now + 1}
           \/ /\ now' = now + 1 /\ UNCHANGED read
              /\ \E task \in Tasks, out \in BOOLEAN :
                    log' = Append(log, <<task, now + 1, out>>)
  <1>1. CASE SwitchOut \/ \E t \in Tasks : SwitchIn(t)
    BY <1>1, KernelSteps
  <1>2. CASE UNCHANGED <<log, now>>
    BY <1>2
  <1>3. QED
    BY <1>1, <1>2, NextCases
    DEF TryLock, StartFlush, Load, ReadRecord, Publish, EndActive,
        WriteSlices, kernelVars, vars

\* What the ring gives to the drains.
LEMMA RingNext ==
    ASSUME Typed, Alone, Ring, Prefix, CaughtUp, [Next]_vars, ~overlap
    PROVE  Ring' /\ dataTail' >= dataTail
  <1>0. /\ dataTail \in Nat /\ NoThread \notin Thread
        /\ pc \in [Thread -> {"idle", "load", "read", "active", "write"}]
    BY TimelineAssumption DEF Typed
  <1>1. CASE SwitchOut \/ \E t \in Tasks : SwitchIn(t)
    BY <1>0, <1>1, KernelSteps
  <1>2. ASSUME NEW d \in Thread, TryLock(d) \/ StartFlush(d)
        PROVE  Ring' /\ dataTail' >= dataTail
    <2>1. UNCHANGED <<ring, head, dataTail, log, read, headOf, tailOf, horizon>>
      BY <1>2 DEF TryLock, StartFlush, kernelVars, sliceVars
    <2>2. /\ pc[d] = "idle" /\ pc' = [pc EXCEPT ![d] = "load"]
          /\ flusher' = flusher \/ flusher' = d
      BY <1>2 DEF TryLock, StartFlush
    <2>3. \A e \in Thread : pc'[e] = "read" <=> pc[e] = "read"
      BY <1>0, <2>2
    <2>4. \A e \in Thread : pc[e] = "read" /\ flusher' = e => flusher = e
      BY <2>2
    <2>5. QED
      BY <1>0, <2>1, <2>3, <2>4, RingLeftAlone
  <1>3. ASSUME NEW d \in Thread, ~overlap, Load(d)
        PROVE  Ring' /\ dataTail' >= dataTail
    <2>1. UNCHANGED dataTail
      BY <1>3 DEF Load
    <2>2. dataTail' >= dataTail
      BY <1>0, <2>1
    <2>3. Ring'
      BY <1>3, RingLoad
    <2>4. QED
      BY <2>2, <2>3
  <1>4. ASSUME NEW d \in Thread, ~overlap, ReadRecord(d)
        PROVE  Ring' /\ dataTail' >= dataTail
    <2>1. UNCHANGED dataTail
      BY <1>4 DEF ReadRecord
    <2>2. dataTail' >= dataTail
      BY <1>0, <2>1
    <2>3. Ring'
      BY <1>4, ReadSteps
    <2>4. QED
      BY <2>2, <2>3
  <1>5. ASSUME NEW d \in Thread, ~overlap, Publish(d)
        PROVE  Ring' /\ dataTail' >= dataTail
    BY <1>5, PublishSteps
  <1>6. ASSUME NEW d \in Thread, EndActive(d) \/ WriteSlices(d)
        PROVE  Ring' /\ dataTail' >= dataTail
    <2>1. UNCHANGED <<ring, head, dataTail, log, read, headOf, tailOf>>
      BY <1>6 DEF EndActive, WriteSlices, kernelVars
    <2>2. /\ pc[d] \in {"active", "write"} /\ pc'[d] \in {"write", "idle"}
          /\ \A e \in Thread : e # d => pc'[e] = pc[e]
      BY <1>0, <1>6 DEF EndActive, WriteSlices
    <2>3. \A e \in Thread : pc'[e] = "read" <=> pc[e] = "read"
      BY <2>2
    <2>4. flusher' = NoThread \/ UNCHANGED <<flusher, horizon>>
      BY <1>6 DEF EndActive, WriteSlices
    <2>5. \A e \in Thread :
             pc[e] = "read" /\ flusher' = e => flusher = e /\ horizon' = horizon
      BY <1>0, <2>4
    <2>6. QED
      BY <1>0, <2>1, <2>3, <2>5, RingLeftAlone
  <1>7. CASE UNCHANGED vars
    <2>1. UNCHANGED <<ring, head, dataTail, log, read, headOf, tailOf, pc,
                      flusher, horizon>>
      BY <1>7 DEF vars
    <2>2. QED
      BY <1>0, <2>1, RingLeftAlone
  <1>8. QED
    BY <1>1, <1>2, <1>3, <1>4, <1>5, <1>6, <1>7, NextCases

\* What was read stays the beginning of the log, whose times increase.
LEMMA LogNext ==
    ASSUME Typed, Alone, Ring, Prefix, Ordered, CaughtUp, [Next]_vars, ~overlap
    PROVE  Prefix' /\ Ordered'
  <1>0. /\ log \in Seq(Record) /\ read \in Seq(Record) /\ now \in Nat
        /\ Len(log) \in Nat /\ Len(read) \in Nat /\ Len(read) <= Len(log)
        /\ \A i \in 1..Len(log) : log[i][2] \in Nat
    <2>1. log \in Seq(Record) /\ read \in Seq(Record) /\ now \in Nat
      BY DEF Typed
    <2>2. \A i \in 1..Len(log) : log[i] \in Record
      BY <2>1
    <2>3. QED
      BY <2>1, <2>2 DEF Prefix, Record
  <1>1. Ordered'
    <2>1. CASE UNCHANGED log /\ now' \in {now, now + 1}
      BY <1>0, <2>1 DEF Ordered
    <2>2. ASSUME NEW task \in Tasks, NEW out \in BOOLEAN, now' = now + 1,
                 log' = Append(log, <<task, now + 1, out>>)
          PROVE  Ordered'
      <3>1. /\ Len(log') = Len(log) + 1 /\ log'[Len(log) + 1][2] = now + 1
            /\ \A i \in 1..Len(log) : log'[i] = log[i]
        BY <1>0, <2>2
      <3>2. now >= 1
        BY DEF Typed
      <3>3. ASSUME NEW i \in 1..Len(log')
            PROVE  1 < log'[i][2] /\ log'[i][2] <= now'
        <4>1. CASE i = Len(log) + 1
          BY <1>0, <2>2, <3>1, <3>2, <4>1
        <4>2. CASE i # Len(log) + 1
          <5>1. i \in 1..Len(log) /\ log'[i] = log[i]
            BY <1>0, <3>1, <4>2
          <5>2. 1 < log[i][2] /\ log[i][2] <= now /\ log[i][2] \in Nat
            BY <1>0, <5>1 DEF Ordered
          <5>3. QED
            BY <1>0, <2>2, <5>1, <5>2
        <4>3. QED
          BY <4>1, <4>2
      <3>4. ASSUME NEW i \in 1..Len(log'), NEW j \in 1..Len(log'), i < j
            PROVE  log'[i][2] < log'[j][2]
        <4>1. i \in 1..Len(log) /\ log'[i] = log[i]
          BY <1>0, <3>1, <3>4
        <4>2. CASE j = Len(log) + 1
          BY <1>0, <3>1, <4>1, <4>2 DEF Ordered
        <4>3. CASE j # Len(log) + 1
          <5>1. j \in 1..Len(log) /\ log'[j] = log[j]
            BY <1>0, <3>1, <4>3
          <5>2. QED
            BY <3>4, <4>1, <5>1 DEF Ordered
        <4>4. QED
          BY <4>2, <4>3
      <3>5. QED
        BY <3>3, <3>4 DEF Ordered
    <2>3. QED
      BY <2>1, <2>2, LogSteps
  <1>2. Prefix'
    <2>1. CASE UNCHANGED <<log, read>>
      BY <2>1 DEF Prefix
    <2>2. ASSUME NEW task \in Tasks, NEW out \in BOOLEAN, UNCHANGED read,
                 log' = Append(log, <<task, now + 1, out>>)
          PROVE  Prefix'
      <3>1. /\ Len(log') = Len(log) + 1
            /\ \A i \in 1..Len(log) : log'[i] = log[i]
        BY <1>0, <2>2
      <3>2. QED
        BY <1>0, <2>2, <3>1 DEF Prefix
    <2>3. ASSUME NEW d \in Thread, ~overlap, ReadRecord(d) PROVE Prefix'
      <3>1. UNCHANGED log
        BY <2>3 DEF ReadRecord, kernelVars
      <3>2. CASE /\ Len(read) + 1 \in 1..Len(log)
                 /\ read' = Append(read, log[Len(read) + 1])
        <4>1. /\ Len(read') = Len(read) + 1
              /\ read'[Len(read) + 1] = log[Len(read) + 1]
              /\ \A i \in 1..Len(read) : read'[i] = read[i]
          BY <1>0, <3>2
        <4>2. \A i \in 1..Len(read) + 1 : i = Len(read) + 1 \/ i \in 1..Len(read)
          BY <1>0
        <4>3. QED
          BY <1>0, <3>1, <3>2, <4>1, <4>2 DEF Prefix
      <3>3. QED
        BY <2>1, <2>3, <3>1, <3>2, ReadSteps
    <2>4. QED
      BY <2>1, <2>2, <2>3, NextCases, KernelSteps, LogSteps
      DEF TryLock, StartFlush, Load, Publish, EndActive, WriteSlices,
          kernelVars, sliceVars, vars
  <1>3. QED
    BY <1>1, <1>2

\* When a flush ends the active slice it has read all it could see.
LEMMA CaughtUpNext ==
    ASSUME Typed, Alone, Ring, Prefix, CaughtUp, [Next]_vars, ~overlap
    PROVE  CaughtUp'
  <1>0. /\ now \in Nat /\ horizon \in Nat /\ \A c \in cut : c[2] \in Nat
        /\ log \in Seq(Record) /\ read \in Seq(Record)
        /\ Len(log) \in Nat /\ Len(read) \in Nat
        /\ \A i \in 1..Len(log) : log[i][2] \in Nat
        /\ pc \in [Thread -> {"idle", "load", "read", "active", "write"}]
    <2>1. cut \subseteq Slice \X (0..MaxTime) /\ MaxTime \in Nat
      BY TimelineAssumption DEF Typed
    <2>2. \A c \in cut : c[2] \in Nat
      BY <2>1
    <2>3. log \in Seq(Record)
      BY DEF Typed
    <2>4. \A i \in 1..Len(log) : log[i] \in Record
      BY <2>3
    <2>5. \A i \in 1..Len(log) : log[i][2] \in Nat
      BY <2>4 DEF Record
    <2>6. horizon \in Nat /\ now \in Nat
      BY <2>1 DEF Typed
    <2>7. QED
      BY <2>2, <2>3, <2>5, <2>6 DEF Typed
  <1>1. CASE SwitchOut \/ \E t \in Tasks : SwitchIn(t)
    <2>1. now' = now + 1 /\ UNCHANGED <<horizon, cut, pc, read>>
      BY <1>1, KernelSteps
    <2>2. horizon' <= now' /\ \A c \in cut' : c[2] <= now'
      BY <1>0, <2>1 DEF CaughtUp
    <2>3. ASSUME NEW d \in Thread, pc'[d] = "active",
                 NEW i \in 1..Len(log'), i > Len(read')
          PROVE  log'[i][2] > horizon'
      <3>1. CASE UNCHANGED log
        BY <2>1, <2>3, <3>1 DEF CaughtUp
      <3>2. ASSUME NEW task \in Tasks, NEW out \in BOOLEAN,
                   log' = Append(log, <<task, now + 1, out>>)
            PROVE  log'[i][2] > horizon'
        <4>1. /\ Len(log') = Len(log) + 1 /\ log'[Len(log) + 1][2] = now + 1
              /\ \A j \in 1..Len(log) : log'[j] = log[j]
          BY <1>0, <3>2
        <4>2. CASE i = Len(log) + 1
          BY <1>0, <2>1, <4>1, <4>2 DEF CaughtUp
        <4>3. CASE i # Len(log) + 1
          <5>1. i \in 1..Len(log) /\ log'[i] = log[i]
            BY <1>0, <4>1, <4>3
          <5>2. QED
            BY <2>1, <2>3, <5>1 DEF CaughtUp
        <4>4. QED
          BY <4>2, <4>3
      <3>3. QED
        BY <1>1, <3>1, <3>2, KernelSteps
    <2>4. QED
      BY <2>2, <2>3 DEF CaughtUp
  <1>2. ASSUME NEW d \in Thread, TryLock(d) \/ StartFlush(d) PROVE CaughtUp'
    <2>1. /\ UNCHANGED <<now, horizon, cut, log, read>>
          /\ pc' = [pc EXCEPT ![d] = "load"]
      BY <1>2 DEF TryLock, StartFlush, kernelVars, sliceVars
    <2>2. \A e \in Thread : pc'[e] = "active" => pc[e] = "active"
      BY <1>0, <2>1
    <2>3. QED
      BY <2>1, <2>2 DEF CaughtUp
  <1>3. ASSUME NEW d \in Thread, ~overlap, Load(d) PROVE CaughtUp'
    <2>1. /\ UNCHANGED <<now, cut>> /\ pc[d] = "load"
          /\ pc' = [pc EXCEPT ![d] = "read"] /\ horizon' \in {now, horizon}
      BY <1>3 DEF Load, kernelVars, sliceVars
    <2>2. \A e \in Thread : pc'[e] # "active"
      BY <1>0, <1>3, <2>1, OneBusy DEF Busy
    <2>3. horizon' <= now'
      BY <1>0, <2>1 DEF CaughtUp
    <2>4. QED
      BY <2>1, <2>2, <2>3 DEF CaughtUp
  <1>4. ASSUME NEW d \in Thread, ~overlap, ReadRecord(d) PROVE CaughtUp'
    <2>1. UNCHANGED <<now, horizon, cut, log, pc>>
      BY <1>4 DEF ReadRecord, kernelVars
    <2>2. read' = read \/ read' = Append(read, log[Len(read) + 1])
      BY <1>4, ReadSteps
    <2>3. \A i \in 1..Len(log) : i > Len(read') => i > Len(read)
      BY <1>0, <2>2
    <2>4. QED
      BY <2>1, <2>3 DEF CaughtUp
  <1>5. ASSUME NEW d \in Thread, ~overlap, Publish(d) PROVE CaughtUp'
    <2>1. /\ UNCHANGED <<now, horizon, cut, log, read>> /\ pc[d] = "read"
          /\ pc' = [pc EXCEPT ![d] = IF flusher = d THEN "active" ELSE "idle"]
      BY <1>5 DEF Publish, kernelVars, sliceVars
    <2>2. \A e \in Thread : pc'[e] = "active" => e = d /\ flusher = d
      BY <1>0, <1>5, <2>1, OneBusy DEF Busy
    <2>3. flusher = d => \A i \in 1..Len(log) : i > Len(read) => log[i][2] > horizon
      BY <1>5, PublishSteps
    <2>4. QED
      BY <2>1, <2>2, <2>3 DEF CaughtUp
  <1>6. ASSUME NEW d \in Thread, EndActive(d) PROVE CaughtUp'
    <2>1. /\ UNCHANGED <<now, horizon, log, read>>
          /\ pc' = [pc EXCEPT ![d] = "write"]
      BY <1>6 DEF EndActive, kernelVars
    <2>2. PICK s : s = [begin |-> since, end |-> now, tid |-> tid]
      OBVIOUS
    <2>3. cut' = cut \/ cut' = cut \cup {<<s, horizon>>}
      BY <1>6, <2>2 DEF EndActive
    <2>4. \A c \in cut' : c[2] <= now
      BY <2>3 DEF CaughtUp
    <2>5. \A e \in Thread : pc'[e] = "active" => pc[e] = "active"
      BY <1>0, <2>1
    <2>6. QED
      BY <2>1, <2>4, <2>5 DEF CaughtUp
  <1>7. ASSUME NEW d \in Thread, ~overlap, WriteSlices(d) PROVE CaughtUp'
    <2>1. /\ UNCHANGED <<now, cut, log, read>> /\ horizon' = 0
          /\ pc' = [pc EXCEPT ![d] = "idle"] /\ pc[d] = "write"
      BY <1>7 DEF WriteSlices, kernelVars
    <2>2. \A e \in Thread : pc'[e] # "active"
      BY <1>0, <1>7, <2>1, OneBusy DEF Busy
    <2>3. horizon' <= now'
      BY <1>0, <2>1
    <2>4. QED
      BY <2>1, <2>2, <2>3 DEF CaughtUp
  <1>8. CASE UNCHANGED vars
    BY <1>8 DEF vars, CaughtUp
  <1>9. QED
    BY <1>1, <1>2, <1>3, <1>4, <1>5, <1>6, <1>7, <1>8, NextCases

-----------------------------------------------------------------------------
(* Slices *)

\* A slice appended to slices_ is the last of all.
LEMMA NewSlice ==
    ASSUME NEW written \in Seq(Slice), NEW kept \in Seq(Slice),
           NEW s \in Slice, NEW old, old = written \o kept,
           NEW all, all = written \o Append(kept, s)
    PROVE  /\ old \in Seq(Slice) /\ all \in Seq(Slice)
           /\ Len(all) = Len(old) + 1 /\ all[Len(old) + 1] = s
           /\ \A i \in 1..Len(old) : all[i] = old[i]
  <1>1. PICK more : more = Append(kept, s)
    OBVIOUS
  <1>2. /\ more \in Seq(Slice) /\ Len(more) = Len(kept) + 1
        /\ more[Len(kept) + 1] = s
        /\ \A i \in 1..Len(kept) : more[i] = kept[i]
        /\ Len(kept) \in Nat /\ Len(written) \in Nat
    BY <1>1
  <1>3. /\ old \in Seq(Slice) /\ Len(old) = Len(written) + Len(kept)
        /\ \A i \in 1..Len(written) + Len(kept) :
             old[i] = IF i <= Len(written) THEN written[i]
                      ELSE kept[i - Len(written)]
    BY ConcatProperties
  <1>4. /\ all \in Seq(Slice) /\ Len(all) = Len(written) + Len(more)
        /\ \A i \in 1..Len(written) + Len(more) :
             all[i] = IF i <= Len(written) THEN written[i]
                      ELSE more[i - Len(written)]
    BY <1>1, <1>2, ConcatProperties
  <1>5. all[Len(old) + 1] = s
    <2>1. /\ Len(old) + 1 \in 1..Len(written) + Len(more)
          /\ ~(Len(old) + 1 <= Len(written))
          /\ Len(old) + 1 - Len(written) = Len(kept) + 1
      BY <1>2, <1>3
    <2>2. QED
      BY <1>2, <1>4, <2>1
  <1>6. ASSUME NEW i \in 1..Len(old) PROVE all[i] = old[i]
    <2>1. i \in 1..Len(written) + Len(more) /\ i \in 1..Len(written) + Len(kept)
      BY <1>2, <1>3
    <2>2. CASE i <= Len(written)
      BY <1>3, <1>4, <2>1, <2>2
    <2>3. CASE ~(i <= Len(written))
      <3>1. i - Len(written) \in 1..Len(kept)
        BY <1>2, <2>1, <2>3
      <3>2. old[i] = kept[i - Len(written)] /\ all[i] = more[i - Len(written)]
        BY <1>3, <1>4, <2>1, <2>3
      <3>3. QED
        BY <1>2, <3>1, <3>2
    <2>4. QED
      BY <2>2, <2>3
  <1>7. Len(all) = Len(old) + 1
    BY <1>2, <1>3, <1>4
  <1>8. QED
    BY <1>3, <1>4, <1>5, <1>6, <1>7

\* A step that has to do with threads and offsets only; writing the slices to
\* the file moves them, and is one of those.
Quiet == UNCHANGED <<kernelVars, since, tid, read, cut, AllSlices>>

\* What a step does to slices: switch, record, end of the active slice, none.
LEMMA Kinds ==
    ASSUME Typed, [Next]_vars, ~overlap
    PROVE  \/ SwitchOut \/ \E t \in Tasks : SwitchIn(t)
           \/ \E d \in Thread : ~overlap /\ ReadRecord(d)
           \/ \E d \in Thread : EndActive(d)
           \/ Quiet
  <1>1. ASSUME NEW d \in Thread, TryLock(d) \/ StartFlush(d) \/ Load(d) \/ Publish(d)
        PROVE  Quiet
    BY <1>1 DEF TryLock, StartFlush, Load, Publish, sliceVars, Quiet, AllSlices
  <1>2. ASSUME NEW d \in Thread, WriteSlices(d) PROVE Quiet
    <2>1. /\ UNCHANGED <<kernelVars, since, tid, read, cut>>
          /\ shown' = shown \o slices /\ slices' = <<>>
      BY <1>2 DEF WriteSlices
    <2>2. shown \o slices \in Seq(Slice)
      BY ConcatProperties DEF Typed
    <2>3. (shown \o slices) \o <<>> = shown \o slices
      BY <2>2, ConcatEmptySeq
    <2>4. AllSlices' = AllSlices
      BY <2>1, <2>3 DEF AllSlices
    <2>5. QED
      BY <2>1, <2>4 DEF Quiet
  <1>3. CASE UNCHANGED vars
    BY <1>3 DEF vars, Quiet, kernelVars, AllSlices
  <1>4. QED
    BY <1>1, <1>2, <1>3, NextCases

\* One slice more than before, the others as they were.
Grown(s) ==
    /\ AllSlices' \in Seq(Slice) /\ Len(AllSlices') = Len(AllSlices) + 1
    /\ AllSlices'[Len(AllSlices) + 1] = s
    /\ \A i \in 1..Len(AllSlices) : AllSlices'[i] = AllSlices[i]

\* All slices are slices.
LEMMA SliceTypes ==
    ASSUME Typed
    PROVE  /\ AllSlices \in Seq(Slice) /\ Len(AllSlices) \in Nat
           /\ DOMAIN AllSlices = 1..Len(AllSlices)
           /\ \A i \in 1..Len(AllSlices) :
                /\ AllSlices[i] \in Slice /\ AllSlices[i].end \in Nat
                /\ AllSlices[i].end # 0 /\ AllSlices[i].tid \in Tasks
  <1>1. AllSlices \in Seq(Slice)
    BY ConcatProperties DEF Typed, AllSlices
  <1>2. Len(AllSlices) \in Nat /\ DOMAIN AllSlices = 1..Len(AllSlices)
    BY <1>1
  <1>3. \A i \in 1..Len(AllSlices) : AllSlices[i] \in Slice
    BY <1>1
  <1>4. QED
    BY <1>1, <1>2, <1>3 DEF Slice

\* Appending to slices_ appends to all slices.
LEMMA GrownBy ==
    ASSUME Typed, NEW s \in Slice, slices' = Append(slices, s), UNCHANGED shown
    PROVE  Grown(s)
  <1>1. PICK old : old = shown \o slices
    OBVIOUS
  <1>2. PICK all : all = shown \o Append(slices, s)
    OBVIOUS
  <1>3. /\ all \in Seq(Slice) /\ Len(all) = Len(old) + 1
        /\ all[Len(old) + 1] = s
        /\ \A i \in 1..Len(old) : all[i] = old[i]
    <2>1. shown \in Seq(Slice) /\ slices \in Seq(Slice)
      BY DEF Typed
    <2>2. QED
      BY <1>1, <1>2, <2>1, NewSlice
  <1>4. AllSlices = old /\ AllSlices' = all
    BY <1>1, <1>2 DEF AllSlices
  <1>5. QED
    BY <1>3, <1>4 DEF Grown

\* What was read is not read again.
LEMMA ReadGrows ==
    ASSUME Typed, Alone, Ring, Prefix, CaughtUp, [Next]_vars, ~overlap
    PROVE  Len(read) \in Nat /\ Len(read') \in {Len(read), Len(read) + 1}
  <1>1. read \in Seq(Record) /\ Len(read) \in Nat
    BY DEF Typed
  <1>2. read' = read \/ read' = Append(read, log[Len(read) + 1])
    BY Kinds, KernelSteps, ReadSteps DEF EndActive, Quiet
  <1>3. QED
    BY <1>1, <1>2

\* What is past stays past.
LEMMA PastNext ==
    ASSUME Typed, Alone, Ring, Prefix, CaughtUp, [Next]_vars, ~overlap,
           NEW time \in Nat, Past(time)
    PROVE  Past(time)'
  <1>1. /\ log \in Seq(Record) /\ Len(log) \in Nat /\ now \in Nat
        /\ Len(read) \in Nat /\ Len(read') \in {Len(read), Len(read) + 1}
    BY ReadGrows DEF Typed
  <1>2. time <= now /\ \A i \in 1..Len(log) : i > Len(read) => time <= log[i][2]
    BY DEF Past
  <1>3. CASE UNCHANGED log /\ now' \in {now, now + 1}
    <2>1. time <= now'
      BY <1>1, <1>2, <1>3
    <2>2. \A i \in 1..Len(log) : i > Len(read') => i > Len(read)
      BY <1>1
    <2>3. QED
      BY <1>2, <1>3, <2>1, <2>2 DEF Past
  <1>4. ASSUME NEW task \in Tasks, NEW out \in BOOLEAN, now' = now + 1,
               UNCHANGED read, log' = Append(log, <<task, now + 1, out>>)
        PROVE  Past(time)'
    <2>1. time <= now' /\ time <= now + 1
      BY <1>1, <1>2, <1>4
    <2>2. /\ Len(log') = Len(log) + 1 /\ log'[Len(log) + 1][2] = now + 1
          /\ \A j \in 1..Len(log) : log'[j] = log[j]
      BY <1>1, <1>4
    <2>3. ASSUME NEW i \in 1..Len(log'), i > Len(read')
          PROVE  time <= log'[i][2]
      <3>1. CASE i = Len(log) + 1
        BY <2>1, <2>2, <3>1
      <3>2. CASE i # Len(log) + 1
        <4>1. i \in 1..Len(log) /\ log'[i] = log[i] /\ i > Len(read)
          BY <1>1, <1>4, <2>2, <2>3, <3>2
        <4>2. QED
          BY <1>2, <4>1
      <3>3. QED
        BY <3>1, <3>2
    <2>4. QED
      BY <2>1, <2>3 DEF Past
  <1>5. QED
    BY <1>3, <1>4, LogSteps

\* Slices that a switch ended stay apart when one comes that begins after
\* those, or that a flush ends.
LEMMA DisjointNext ==
    ASSUME Typed, Disjoint, cut \subseteq cut', NEW s \in Slice,
           \/ AllSlices' = AllSlices
           \/ /\ Grown(s)
              /\ EndedBySwitch(s)' =>
                   \A i \in 1..Len(AllSlices) :
                      EndedBySwitch(AllSlices[i]) => AllSlices[i].end <= s.begin
    PROVE  Disjoint'
  <1>1. /\ AllSlices \in Seq(Slice) /\ Len(AllSlices) \in Nat
        /\ DOMAIN AllSlices = 1..Len(AllSlices)
    BY SliceTypes
  <1>2. \A x : (\A h \in 0..MaxTime : <<x, h>> \notin cut') => EndedBySwitch(x)
    BY DEF EndedBySwitch
  <1>3. CASE AllSlices' = AllSlices
    BY <1>2, <1>3 DEF Disjoint, EndedBySwitch
  <1>4. CASE Grown(s) /\ (EndedBySwitch(s)' =>
                   \A i \in 1..Len(AllSlices) :
                      EndedBySwitch(AllSlices[i]) => AllSlices[i].end <= s.begin)
    <2>1. /\ DOMAIN AllSlices' = 1..Len(AllSlices) + 1
          /\ AllSlices'[Len(AllSlices) + 1] = s
          /\ \A i \in 1..Len(AllSlices) : AllSlices'[i] = AllSlices[i]
      BY <1>1, <1>4 DEF Grown
    <2>2. SUFFICES ASSUME NEW i \in 1..Len(AllSlices) + 1,
                          NEW k \in 1..Len(AllSlices) + 1, i < k,
                          \A h \in 0..MaxTime : <<AllSlices'[i], h>> \notin cut',
                          \A h \in 0..MaxTime : <<AllSlices'[k], h>> \notin cut'
                   PROVE  AllSlices'[i].end <= AllSlices'[k].begin
      BY <2>1 DEF Disjoint, EndedBySwitch
    <2>3. i \in 1..Len(AllSlices) /\ AllSlices'[i] = AllSlices[i]
      BY <1>1, <2>1, <2>2
    <2>4. EndedBySwitch(AllSlices[i])
      BY <1>2, <2>2, <2>3
    <2>5. CASE k = Len(AllSlices) + 1
      <3>1. AllSlices'[k] = s /\ EndedBySwitch(s)'
        BY <2>1, <2>2, <2>5 DEF EndedBySwitch
      <3>2. QED
        BY <1>4, <2>3, <2>4, <3>1
    <2>6. CASE k # Len(AllSlices) + 1
      <3>1. k \in 1..Len(AllSlices) /\ AllSlices'[k] = AllSlices[k]
        BY <1>1, <2>1, <2>6
      <3>2. EndedBySwitch(AllSlices[k])
        BY <1>2, <2>2, <3>1
      <3>3. QED
        BY <1>1, <2>2, <2>3, <2>4, <3>1, <3>2 DEF Disjoint
    <2>7. QED
      BY <2>5, <2>6
  <1>5. QED
    BY <1>3, <1>4

\* What ended stays past, and so does what is appended if it is.
LEMMA EndedPastNext ==
    ASSUME Typed, Alone, Ring, Prefix, CaughtUp, [Next]_vars, ~overlap, EndedPast,
           cut \subseteq cut', NEW s \in Slice,
           \/ /\ AllSlices' = AllSlices
              /\ \/ since' \in {since, 0}
                 \/ \A i \in 1..Len(AllSlices) :
                       EndedBySwitch(AllSlices[i]) => AllSlices[i].end <= since'
           \/ Grown(s) /\ since' = 0 /\ (EndedBySwitch(s)' => Past(s.end)')
    PROVE  EndedPast'
  <1>1. /\ AllSlices \in Seq(Slice) /\ Len(AllSlices) \in Nat
        /\ \A i \in 1..Len(AllSlices) : AllSlices[i].end \in Nat
    BY SliceTypes
  <1>2. \A x : (\A h \in 0..MaxTime : <<x, h>> \notin cut') => EndedBySwitch(x)
    BY DEF EndedBySwitch
  <1>3. ASSUME NEW i \in 1..Len(AllSlices), EndedBySwitch(AllSlices[i]),
               NEW time \in Nat, time = AllSlices[i].end
        PROVE  Past(time)'
    <2>1. Past(time)
      BY <1>3 DEF EndedPast
    <2>2. QED
      BY <2>1, PastNext
  <1>4. SUFFICES ASSUME NEW i \in 1..Len(AllSlices'),
                        \A h \in 0..MaxTime : <<AllSlices'[i], h>> \notin cut'
                 PROVE  /\ Past(AllSlices[i].end)'
                        /\ since' # 0 => AllSlices'[i].end <= since'
    BY DEF EndedPast, EndedBySwitch
  <1>5. ASSUME i \in 1..Len(AllSlices), AllSlices'[i] = AllSlices[i]
        PROVE  /\ Past(AllSlices[i].end)' /\ EndedBySwitch(AllSlices[i])
               /\ since # 0 => AllSlices[i].end <= since
    <2>1. PICK time \in Nat : time = AllSlices[i].end
      BY <1>1, <1>5
    <2>2. EndedBySwitch(AllSlices[i])
      BY <1>2, <1>4, <1>5
    <2>3. Past(time)'
      BY <1>3, <1>5, <2>1, <2>2
    <2>4. time = AllSlices'[i].end
      BY <1>5, <2>1
    <2>5. Past(AllSlices[i].end)'
      BY <2>3, <2>4 DEF Past
    <2>6. since # 0 => AllSlices[i].end <= since
      BY <1>5, <2>2 DEF EndedPast
    <2>7. QED
      BY <2>2, <2>5, <2>6
  <1>6. CASE AllSlices' = AllSlices
    <2>1. i \in 1..Len(AllSlices) /\ AllSlices'[i] = AllSlices[i]
      BY <1>6
    <2>2. /\ Past(AllSlices[i].end)' /\ EndedBySwitch(AllSlices[i])
          /\ since # 0 => AllSlices[i].end <= since
      BY <1>5, <2>1
    <2>3. ~Grown(s)
      BY <1>1, <1>6 DEF Grown
    <2>4. \/ since' \in {since, 0}
          \/ AllSlices[i].end <= since'
      BY <2>1, <2>2, <2>3
    <2>5. QED
      BY <2>1, <2>2, <2>4
  <1>7. CASE Grown(s) /\ since' = 0 /\ (EndedBySwitch(s)' => Past(s.end)')
    <2>1. CASE i = Len(AllSlices) + 1
      <3>1. AllSlices'[i] = s
        BY <1>7, <2>1 DEF Grown
      <3>2. EndedBySwitch(s)'
        BY <1>4, <3>1 DEF EndedBySwitch
      <3>3. Past(AllSlices[i].end)'
        BY <1>7, <3>1, <3>2 DEF Past
      <3>4. QED
        BY <1>7, <3>3
    <2>2. CASE i # Len(AllSlices) + 1
      <3>1. i \in 1..Len(AllSlices) /\ AllSlices'[i] = AllSlices[i]
        BY <1>1, <1>4, <1>7, <2>2 DEF Grown
      <3>2. QED
        BY <1>5, <1>7, <3>1
    <2>3. QED
      BY <2>1, <2>2
  <1>8. QED
    BY <1>6, <1>7

\* The end of the active slice.
LEMMA EndSteps ==
    ASSUME Typed, ~overlap, NEW d \in Thread, EndActive(d)
    PROVE  /\ UNCHANGED <<kernelVars, read, tid>> /\ pc[d] = "active"
           /\ \/ UNCHANGED <<since, cut, AllSlices>>
              \/ /\ since # 0 /\ since' = 0
                 /\ \E s \in Slice :
                      /\ s = [begin |-> since, end |-> now, tid |-> tid]
                      /\ Grown(s) /\ cut' = cut \cup {<<s, horizon>>}
  <1>1. UNCHANGED <<kernelVars, read, tid, shown>> /\ pc[d] = "active"
    BY DEF EndActive
  <1>2. PICK s : s = [begin |-> since, end |-> now, tid |-> tid]
    OBVIOUS
  <1>3. s \in Slice
    <2>1. since \in Nat /\ now \in Nat \ {0} /\ tid \in Tasks
      BY TimelineAssumption DEF Typed
    <2>2. QED
      BY <1>2, <2>1 DEF Slice
  <1>4. CASE UNCHANGED <<since, slices, cut>>
    BY <1>1, <1>4 DEF AllSlices
  <1>5. CASE /\ since # 0 /\ slices' = Append(slices, s) /\ since' = 0
             /\ cut' = cut \cup {<<s, horizon>>}
    <2>1. Grown(s)
      BY <1>1, <1>3, <1>5, GrownBy
    <2>2. QED
      BY <1>1, <1>2, <1>3, <1>5, <2>1
  <1>6. QED
    BY <1>2, <1>4, <1>5 DEF EndActive, Push

\* Slices that a switch ended stay apart, and lie before all that comes.
LEMMA EndedNext ==
    ASSUME Typed, Alone, Ring, Prefix, Ordered, CaughtUp, [Next]_vars, ~overlap,
           EndedPast, Disjoint
    PROVE  EndedPast' /\ Disjoint'
  <1>0. /\ Len(read) \in Nat /\ since \in Nat /\ horizon \in 0..MaxTime
        /\ log \in Seq(Record)
        /\ \A i \in 1..Len(AllSlices) : AllSlices[i].end \in Nat
    <2>1. \A i \in 1..Len(AllSlices) : AllSlices[i].end \in Nat
      BY SliceTypes
    <2>2. log \in Seq(Record) /\ read \in Seq(Record) /\ since \in Nat
      BY DEF Typed
    <2>3. horizon \in 0..MaxTime
      BY DEF Typed
    <2>4. QED
      BY <2>1, <2>2, <2>3
  <1>1. PICK s \in Slice : TRUE
    <2>1. [begin |-> 0, end |-> 1, tid |-> 0] \in Slice
      BY TimelineAssumption DEF Slice
    <2>2. QED
      BY <2>1
  <1>2. CASE UNCHANGED <<since, cut, AllSlices>>
    <2>1. cut \subseteq cut' /\ since' \in {since, 0} /\ AllSlices' = AllSlices
      BY <1>2
    <2>2. QED
      BY <2>1, <1>1, EndedPastNext, DisjointNext
  <1>3. ASSUME NEW d \in Thread, ~overlap, ReadRecord(d)
        PROVE  EndedPast' /\ Disjoint'
    <2>1. UNCHANGED <<log, now, cut, shown>>
      BY <1>3 DEF ReadRecord, kernelVars
    <2>2. CASE UNCHANGED <<since, slices>>
      BY <1>2, <2>1, <2>2 DEF AllSlices
    <2>3. ASSUME Len(read) + 1 \in 1..Len(log),
                 read' = Append(read, log[Len(read) + 1]),
                 NEW r, r = log[Len(read) + 1], Handled(r), since' # since
          PROVE  EndedPast' /\ Disjoint'
      <3>1. r \in Record /\ r[1] \in Tasks /\ r[2] \in Nat /\ r[2] # 0
        <4>1. r \in Record
          BY <1>0, <2>3
        <4>2. r[2] > 1
          BY <2>3 DEF Ordered
        <4>3. r[1] \in Tasks /\ r[2] \in Nat
          BY <4>1 DEF Record
        <4>4. QED
          BY <4>1, <4>2, <4>3
      <3>2. ASSUME NEW i \in 1..Len(AllSlices), EndedBySwitch(AllSlices[i])
            PROVE  AllSlices[i].end <= r[2]
        <4>1. Past(AllSlices[i].end)
          BY <3>2 DEF EndedPast
        <4>2. Len(read) + 1 > Len(read)
          BY <1>0
        <4>3. QED
          BY <2>3, <4>1, <4>2 DEF Past
      <3>3. CASE since' = r[2] /\ UNCHANGED slices
        <4>1. AllSlices' = AllSlices /\ cut \subseteq cut'
          BY <2>1, <3>3 DEF AllSlices
        <4>2. \A i \in 1..Len(AllSlices) :
                 EndedBySwitch(AllSlices[i]) => AllSlices[i].end <= since'
          BY <3>2, <3>3
        <4>3. QED
          BY <1>1, <4>1, <4>2, EndedPastNext, DisjointNext
      <3>4. ASSUME since # 0, since' = 0, NEW t,
                   t = [begin |-> since, end |-> r[2], tid |-> r[1]],
                   slices' = Append(slices, t)
            PROVE  EndedPast' /\ Disjoint'
        <4>1. t \in Slice /\ t.begin = since /\ t.end = r[2]
          BY <1>0, <3>1, <3>4 DEF Slice
        <4>2. Grown(t) /\ cut \subseteq cut'
          BY <2>1, <3>4, <4>1, GrownBy
        <4>3. \A i \in 1..Len(AllSlices) :
                 EndedBySwitch(AllSlices[i]) => AllSlices[i].end <= t.begin
          BY <3>4, <4>1 DEF EndedPast
        <4>4. Past(t.end)'
          <5>1. r[2] <= now
            BY <2>3 DEF Ordered
          <5>2. Len(read') = Len(read) + 1
            BY <2>3 DEF Typed
          <5>3. ASSUME NEW i \in 1..Len(log), i > Len(read) + 1
                PROVE  r[2] <= log[i][2]
            <6>1. log[Len(read) + 1][2] < log[i][2]
              BY <2>3, <5>3 DEF Ordered
            <6>2. log[i] \in Record
              BY <1>0
            <6>3. log[i][2] \in Nat
              BY <6>2 DEF Record
            <6>4. QED
              BY <2>3, <3>1, <6>1, <6>3
          <5>4. QED
            BY <2>1, <4>1, <5>1, <5>2, <5>3 DEF Past
        <4>5. EndedPast'
          BY <3>4, <4>1, <4>2, <4>4, EndedPastNext
        <4>6. Disjoint'
          BY <4>1, <4>2, <4>3, DisjointNext
        <4>7. QED
          BY <4>5, <4>6
      <3>5. PICK t : t = [begin |-> since, end |-> r[2], tid |-> r[1]]
        OBVIOUS
      <3>6. QED
        BY <2>3, <3>3, <3>4, <3>5 DEF Handled
    <2>4. CASE since' = since
      <3>1. PICK r : r = log[Len(read) + 1]
        OBVIOUS
      <3>2. CASE Handled(r) /\ Len(read) + 1 \in 1..Len(log)
        <4>1. r[2] # 0
          BY <3>1, <3>2 DEF Ordered
        <4>2. CASE UNCHANGED slices
          BY <2>2, <2>4, <4>2
        <4>3. QED
          BY <2>4, <3>2, <4>2 DEF Handled
      <3>3. QED
        BY <1>3, <2>2, <3>1, <3>2, ReadSteps
    <2>5. QED
      BY <1>3, <2>2, <2>3, <2>4, ReadSteps
  <1>4. ASSUME NEW d \in Thread, EndActive(d)
        PROVE  EndedPast' /\ Disjoint'
    <2>1. CASE UNCHANGED <<since, cut, AllSlices>>
      BY <1>2, <2>1
    <2>2. ASSUME NEW t \in Slice, since' = 0, Grown(t),
                 cut' = cut \cup {<<t, horizon>>}
          PROVE  EndedPast' /\ Disjoint'
      <3>1. cut \subseteq cut' /\ <<t, horizon>> \in cut'
        BY <2>2
      <3>2. ~EndedBySwitch(t)'
        BY <1>0, <3>1 DEF EndedBySwitch
      <3>3. EndedPast'
        BY <2>2, <3>1, <3>2, EndedPastNext
      <3>4. Disjoint'
        BY <2>2, <3>1, <3>2, DisjointNext
      <3>5. QED
        BY <3>3, <3>4
    <2>3. QED
      BY <1>4, <2>1, <2>2, EndSteps
  <1>5. CASE SwitchOut \/ \E t \in Tasks : SwitchIn(t)
    <2>1. UNCHANGED <<since, cut, AllSlices>>
      BY <1>5, KernelSteps DEF AllSlices
    <2>2. QED
      BY <1>2, <2>1
  <1>6. QED
    BY <1>2, <1>3, <1>4, <1>5, Kinds DEF Quiet

\* A switch that is not lost is the next of the log.
LEMMA KeptSwitches ==
    ASSUME Typed, ~lossy'
    PROVE  /\ \A u \in Tasks : SwitchOut /\ onCpu = <<u>> =>
                 ~lossy /\ log' = Append(log, <<u, now + 1, TRUE>>)
           /\ \A t \in Tasks : SwitchIn(t) =>
                 /\ ~lossy /\ log' = Append(log, <<t, now + 1, FALSE>>)
                 /\ onCpu = <<>> /\ onCpu' = <<t>>
  <1>1. ASSUME NEW task, NEW out, Output(task, out)
        PROVE  ~lossy /\ log' = Append(log, <<task, now + 1, out>>)
    BY <1>1 DEF Output
  <1>2. ASSUME NEW u \in Tasks, SwitchOut, onCpu = <<u>>
        PROVE  ~lossy /\ log' = Append(log, <<u, now + 1, TRUE>>)
    <2>1. onCpu[1] = u
      BY <1>2
    <2>2. Output(u, TRUE)
      BY <1>2, <2>1 DEF SwitchOut
    <2>3. QED
      BY <1>1, <2>2
  <1>3. ASSUME NEW t \in Tasks, SwitchIn(t)
        PROVE  /\ ~lossy /\ log' = Append(log, <<t, now + 1, FALSE>>)
               /\ onCpu = <<>> /\ onCpu' = <<t>>
    <2>1. Output(t, FALSE) /\ onCpu = <<>> /\ onCpu' = <<t>>
      BY <1>3 DEF SwitchIn
    <2>2. QED
      BY <1>1, <2>1
  <1>4. QED
    BY <1>2, <1>3

\* Nothing but a switch loses a record.
LEMMA StillLossless ==
    ASSUME Typed, [Next]_vars, ~overlap, ~lossy'
    PROVE  ~lossy
  <1>1. CASE SwitchOut
    <2>1. PICK u \in Tasks : onCpu = <<u>>
      BY <1>1 DEF SwitchOut, Typed
    <2>2. QED
      BY <1>1, <2>1, KeptSwitches
  <1>2. CASE \E t \in Tasks : SwitchIn(t)
    BY <1>2, KeptSwitches
  <1>3. CASE UNCHANGED lossy
    BY <1>3
  <1>4. QED
    BY <1>1, <1>2, <1>3, Kinds DEF ReadRecord, EndActive, Quiet, kernelVars

\* Record i of the log says when task u began to run; period r of u is that
\* one: it ends with the next record, or goes on.
Ran(i, u, k) ==
    LET r == truth[u][k]
    IN /\ r.begin = log[i][2]
       /\ i < Len(log) => log[i+1] = <<u, r.end, TRUE>>
       /\ i = Len(log) => r.end = 0 /\ k = Len(truth[u]) /\ onCpu = <<u>>

\* A period that the log has stays there as time goes on.
LEMMA RanNext ==
    ASSUME Typed, Ordered, ~lossy', SwitchOut \/ \E t \in Tasks : SwitchIn(t),
           NEW i \in 1..Len(log), NEW u \in Tasks,
           NEW k \in 1..Len(truth[u]), Ran(i, u, k)
    PROVE  Ran(i, u, k)'
  <1>0. /\ log \in Seq(Record) /\ Len(log) \in Nat /\ now \in Nat
    BY DEF Typed
  <1>1. /\ k \in 1..Len(truth'[u])
        /\ truth'[u][k].begin = truth[u][k].begin
        /\ truth[u][k].end # 0 => truth'[u][k].end = truth[u][k].end
    BY TruthSteps
  <1>2. PICK rec : /\ log' = Append(log, rec)
                   /\ \/ \E v \in Tasks : /\ SwitchOut /\ onCpu = <<v>>
                                          /\ rec = <<v, now + 1, TRUE>>
                      \/ onCpu = <<>>
    <2>1. CASE SwitchOut
      <3>1. PICK v \in Tasks : onCpu = <<v>>
        BY <2>1 DEF SwitchOut, Typed
      <3>2. PICK new : new = <<v, now + 1, TRUE>>
        OBVIOUS
      <3>3. log' = Append(log, new)
        BY <2>1, <3>1, <3>2, KeptSwitches
      <3>4. QED
        BY <2>1, <3>1, <3>2, <3>3
    <2>2. ASSUME NEW t \in Tasks, SwitchIn(t)
          PROVE  onCpu = <<>> /\ log' = Append(log, <<t, now + 1, FALSE>>)
      BY <2>2, KeptSwitches
    <2>3. QED
      BY <2>1, <2>2
  <1>3. /\ Len(log') = Len(log) + 1 /\ log'[Len(log) + 1] = rec
        /\ \A j \in 1..Len(log) : log'[j] = log[j]
    BY <1>0, <1>2
  <1>4. log'[i] = log[i] /\ i # Len(log') /\ i < Len(log')
    BY <1>0, <1>3
  <1>5. CASE i < Len(log)
    <2>1. i + 1 \in 1..Len(log) /\ log'[i+1] = log[i+1]
      BY <1>0, <1>3, <1>5
    <2>2. log[i+1] = <<u, truth[u][k].end, TRUE>>
      BY <1>5 DEF Ran
    <2>3. log[i+1][2] # 0
      BY <2>1 DEF Ordered
    <2>4. truth[u][k].end # 0
      BY <2>2, <2>3
    <2>5. truth'[u][k].end = truth[u][k].end
      BY <1>1, <2>4
    <2>6. truth'[u][k].begin = log'[i][2]
      BY <1>1, <1>4 DEF Ran
    <2>7. log'[i+1] = <<u, truth'[u][k].end, TRUE>>
      BY <2>1, <2>2, <2>5
    <2>8. QED
      BY <1>4, <2>6, <2>7 DEF Ran
  <1>6. CASE i = Len(log)
    <2>1. truth[u][k].end = 0 /\ k = Len(truth[u]) /\ onCpu = <<u>>
      BY <1>6 DEF Ran
    <2>2. SwitchOut /\ rec = <<u, now + 1, TRUE>>
      <3>1. onCpu # <<>>
        BY <2>1
      <3>2. PICK v \in Tasks : SwitchOut /\ onCpu = <<v>> /\ rec = <<v, now + 1, TRUE>>
        BY <1>2, <3>1
      <3>3. v = u
        BY <2>1, <3>2
      <3>4. QED
        BY <3>2, <3>3
    <2>3. truth'[u][k].end = now + 1
      BY <2>1, <2>2, TruthSteps
    <2>4. log'[i+1] = <<u, truth'[u][k].end, TRUE>>
      BY <1>3, <1>6, <2>2, <2>3
    <2>5. truth'[u][k].begin = log'[i][2]
      BY <1>1, <1>4 DEF Ran
    <2>6. QED
      BY <1>4, <2>4, <2>5 DEF Ran
  <1>7. QED
    BY <1>0, <1>5, <1>6

\* The log without losses and the periods, switch by switch.
LEMMA AlternateNext ==
    ASSUME Typed, Ordered, Alternate, [Next]_vars, ~overlap, ~lossy'
    PROVE  Alternate'
  <1>0. /\ log \in Seq(Record) /\ Len(log) \in Nat
        /\ truth \in [Tasks -> Seq(Period)]
        /\ \A i \in 1..Len(log) : log[i][1] \in Tasks
        /\ \A u \in Tasks : Len(truth[u]) \in Nat
                            /\ DOMAIN truth[u] = 1..Len(truth[u])
    <2>1. log \in Seq(Record) /\ truth \in [Tasks -> Seq(Period)]
      BY DEF Typed
    <2>2. \A i \in 1..Len(log) : log[i] \in Record
      BY <2>1
    <2>3. \A u \in Tasks : truth[u] \in Seq(Period)
      BY <2>1
    <2>4. QED
      BY <2>1, <2>2, <2>3 DEF Record
  <1>1. CASE UNCHANGED <<log, truth, onCpu>>
    BY <1>1 DEF Alternate
  <1>2. CASE SwitchOut \/ \E t \in Tasks : SwitchIn(t)
    <2>1. truth' \in [Tasks -> Seq(Period)]
      BY <1>2, TruthSteps
    <2>2. \A u \in Tasks : DOMAIN truth'[u] = 1..Len(truth'[u])
      <3>1. \A u \in Tasks : truth'[u] \in Seq(Period)
        BY <2>1
      <3>2. QED
        BY <3>1
    <2>3. ASSUME NEW i \in 1..Len(log), ~log[i][3], NEW u, u = log[i][1]
          PROVE  \E k \in DOMAIN truth'[u] : Ran(i, u, k)'
      <3>1. u \in Tasks
        BY <1>0, <2>3
      <3>2. PICK k \in 1..Len(truth[u]) : Ran(i, u, k)
        BY <1>0, <2>3, <3>1 DEF Alternate, Ran
      <3>3. Ran(i, u, k)'
        BY <1>2, <3>1, <3>2, RanNext
      <3>4. k \in 1..Len(truth'[u])
        BY <1>2, <3>1, TruthSteps
      <3>5. QED
        BY <2>2, <3>1, <3>3, <3>4
    <2>4. PICK rec : log' = Append(log, rec)
      <3>1. CASE SwitchOut
        <4>1. PICK u \in Tasks : onCpu = <<u>>
          BY <3>1 DEF SwitchOut, Typed
        <4>2. QED
          BY <3>1, <4>1, KeptSwitches
      <3>2. QED
        BY <1>2, <3>1, KeptSwitches
    <2>5. /\ Len(log') = Len(log) + 1 /\ log'[Len(log) + 1] = rec
          /\ \A j \in 1..Len(log) : log'[j] = log[j]
      BY <1>0, <2>4
    <2>6. ASSUME NEW i \in 1..Len(log'), ~log'[i][3]
          PROVE  \E u \in Tasks : /\ u = log'[i][1]
                                  /\ \E k \in DOMAIN truth'[u] : Ran(i, u, k)'
      <3>1. CASE i # Len(log) + 1
        <4>1. i \in 1..Len(log) /\ log'[i] = log[i]
          BY <1>0, <2>5, <3>1
        <4>2. PICK u \in Tasks : u = log[i][1]
          BY <1>0, <4>1
        <4>3. \E k \in DOMAIN truth'[u] : Ran(i, u, k)'
          BY <2>3, <2>6, <4>1, <4>2
        <4>4. QED
          BY <4>1, <4>2, <4>3
      <3>2. CASE i = Len(log) + 1 /\ SwitchOut
        <4>1. PICK u \in Tasks : onCpu = <<u>>
          BY <3>2 DEF SwitchOut, Typed
        <4>2. PICK new : new = <<u, now + 1, TRUE>>
          OBVIOUS
        <4>3. log' = Append(log, new)
          BY <3>2, <4>1, <4>2, KeptSwitches
        <4>4. log'[i] = new
          BY <1>0, <3>2, <4>3
        <4>5. QED
          BY <2>6, <4>2, <4>4
      <3>3. ASSUME i = Len(log) + 1, NEW t \in Tasks, SwitchIn(t)
            PROVE  \E u \in Tasks : /\ u = log'[i][1]
                                    /\ \E k \in DOMAIN truth'[u] : Ran(i, u, k)'
        <4>1. PICK new : new = <<t, now + 1, FALSE>>
          OBVIOUS
        <4>2. log' = Append(log, new) /\ onCpu' = <<t>>
          BY <3>3, <4>1, KeptSwitches
        <4>3. log'[i] = new /\ i = Len(log')
          BY <1>0, <2>5, <3>3, <4>2
        <4>4. PICK k : k = Len(truth[t]) + 1
          OBVIOUS
        <4>5. /\ Len(truth'[t]) = k
              /\ truth'[t][k] = [begin |-> now + 1, end |-> 0]
          BY <3>3, <4>4, TruthSteps
        <4>6. k \in DOMAIN truth'[t]
          BY <1>0, <2>2, <4>4, <4>5
        <4>7. truth'[t][k].begin = log'[i][2] /\ truth'[t][k].end = 0
          BY <4>1, <4>3, <4>5
        <4>8. ~(i < Len(log'))
          BY <1>0, <2>5, <3>3
        <4>9. Ran(i, t, k)'
          BY <4>2, <4>5, <4>7, <4>8 DEF Ran
        <4>10. t = log'[i][1]
          BY <4>1, <4>3
        <4>11. QED
          BY <4>6, <4>9, <4>10
      <3>4. QED
        BY <1>2, <3>1, <3>2, <3>3
    <2>7. ASSUME NEW i \in 1..Len(log'), ~log'[i][3]
          PROVE  \E k \in DOMAIN truth'[log'[i][1]] :
                   /\ truth'[log'[i][1]][k].begin = log'[i][2]
                   /\ i < Len(log') =>
                        log'[i+1] = <<log'[i][1], truth'[log'[i][1]][k].end, TRUE>>
                   /\ i = Len(log') =>
                        /\ truth'[log'[i][1]][k].end = 0
                        /\ k = Len(truth'[log'[i][1]])
                        /\ onCpu' = <<log'[i][1]>>
      <3>1. PICK u \in Tasks : /\ u = log'[i][1]
                               /\ \E k \in DOMAIN truth'[u] : Ran(i, u, k)'
        BY <2>6, <2>7
      <3>2. PICK k \in DOMAIN truth'[u] : Ran(i, u, k)'
        BY <3>1
      <3>3. /\ truth'[u][k].begin = log'[i][2]
            /\ i < Len(log') => log'[i+1] = <<u, truth'[u][k].end, TRUE>>
            /\ i = Len(log') => /\ truth'[u][k].end = 0 /\ k = Len(truth'[u])
                                /\ onCpu' = <<u>>
        BY <3>2 DEF Ran
      <3>4. QED
        BY <3>1, <3>3
    <2>8. QED
      BY <2>7 DEF Alternate
  <1>3. QED
    BY <1>1, <1>2, Kinds DEF ReadRecord, EndActive, Quiet, kernelVars

\* A slice is a period in which its task ran, as TrueSlices says.
TrueSlice(s) ==
    \E k \in DOMAIN truth[s.tid] :
       /\ s.begin = truth[s.tid][k].begin
       /\ \/ s.end = truth[s.tid][k].end
          \/ \E h \in 0..MaxTime :
                /\ <<s, h>> \in cut
                /\ truth[s.tid][k].end = 0 \/ truth[s.tid][k].end >= h

\* A slice that is true stays true.
LEMMA TrueSliceNext ==
    ASSUME Typed, CaughtUp, [Next]_vars, ~overlap, cut \subseteq cut',
           NEW s \in Slice, TrueSlice(s)
    PROVE  TrueSlice(s)'
  <1>0. /\ truth \in [Tasks -> Seq(Period)] /\ s.tid \in Tasks
        /\ s.end # 0 /\ now \in Nat /\ MaxTime \in Nat
    BY TimelineAssumption DEF Typed, Slice
  <1>1. CASE UNCHANGED truth
    BY <1>1 DEF TrueSlice
  <1>2. CASE SwitchOut \/ \E t \in Tasks : SwitchIn(t)
    <2>1. PICK u \in Tasks : u = s.tid
      BY <1>0
    <2>2. PICK k \in DOMAIN truth[u] :
             /\ s.begin = truth[u][k].begin
             /\ \/ s.end = truth[u][k].end
                \/ \E h \in 0..MaxTime :
                      /\ <<s, h>> \in cut
                      /\ truth[u][k].end = 0 \/ truth[u][k].end >= h
      BY <2>1 DEF TrueSlice
    <2>3. truth[u] \in Seq(Period) /\ truth'[u] \in Seq(Period)
      <3>1. truth' \in [Tasks -> Seq(Period)]
        BY <1>2, TruthSteps
      <3>2. QED
        BY <1>0, <3>1
    <2>4. k \in 1..Len(truth[u])
      BY <2>2, <2>3
    <2>5. /\ k \in 1..Len(truth'[u])
          /\ truth'[u][k].begin = truth[u][k].begin
          /\ truth[u][k].end # 0 => truth'[u][k].end = truth[u][k].end
          /\ truth[u][k].end = 0 => truth'[u][k].end \in {0, now + 1}
      BY <1>2, <2>4, TruthSteps
    <2>6. k \in DOMAIN truth'[u] /\ s.begin = truth'[u][k].begin
      BY <2>2, <2>3, <2>5
    <2>7. \/ s.end = truth'[u][k].end
          \/ \E h \in 0..MaxTime :
                /\ <<s, h>> \in cut'
                /\ truth'[u][k].end = 0 \/ truth'[u][k].end >= h
      <3>1. CASE s.end = truth[u][k].end
        BY <1>0, <2>5, <3>1
      <3>2. ASSUME NEW h \in 0..MaxTime, <<s, h>> \in cut,
                   truth[u][k].end = 0 \/ truth[u][k].end >= h
            PROVE  truth'[u][k].end = 0 \/ truth'[u][k].end >= h
        <4>1. h <= now
          BY <3>2 DEF CaughtUp
        <4>2. h \in Nat
          BY <1>0
        <4>3. now + 1 >= h
          BY <1>0, <4>1, <4>2
        <4>4. QED
          BY <2>5, <3>2, <4>3
      <3>3. QED
        BY <2>2, <3>1, <3>2
    <2>8. QED
      BY <2>1, <2>6, <2>7 DEF TrueSlice
  <1>3. QED
    BY <1>1, <1>2, Kinds DEF ReadRecord, EndActive, Quiet, kernelVars

\* Without losses the active slice is the period that the last record began.
LEMMA ActiveSlice ==
    ASSUME Typed, Prefix, Ordered, Alternate, Current, since # 0
    PROVE  /\ tid # 0 /\ Len(read) \in 1..Len(log)
           /\ \E k \in DOMAIN truth[tid] :
                /\ truth[tid][k].begin = since
                /\ Len(read) < Len(log) =>
                     log[Len(read) + 1] = <<tid, truth[tid][k].end, TRUE>>
                /\ Len(read) = Len(log) => truth[tid][k].end = 0
  <1>1. /\ tid # 0 /\ Len(read) > 0 /\ log[Len(read)] = <<tid, since, FALSE>>
    BY DEF Current
  <1>2. Len(read) \in 1..Len(log)
    <2>1. Len(read) \in Nat /\ Len(log) \in Nat
      BY DEF Typed
    <2>2. QED
      BY <1>1, <2>1 DEF Prefix
  <1>3. PICK i \in 1..Len(log) : i = Len(read)
    BY <1>2
  <1>4. log[i][1] = tid /\ log[i][2] = since /\ ~log[i][3]
    <2>1. log[i] = <<tid, since, FALSE>>
      BY <1>1, <1>3
    <2>2. QED
      BY <2>1
  <1>5. PICK k \in DOMAIN truth[tid] :
           /\ truth[tid][k].begin = log[i][2]
           /\ i < Len(log) => log[i+1] = <<tid, truth[tid][k].end, TRUE>>
           /\ i = Len(log) => truth[tid][k].end = 0
    BY <1>4 DEF Alternate
  <1>6. QED
    BY <1>1, <1>2, <1>3, <1>4, <1>5

\* The monitor follows the log.
LEMMA CurrentNext ==
    ASSUME Typed, Alone, Ring, Prefix, Ordered, CaughtUp, Alternate, Current,
           [Next]_vars, ~overlap, ~lossy'
    PROVE  Current'
  <1>0. /\ log \in Seq(Record) /\ Len(log) \in Nat /\ Len(read) \in Nat
        /\ read \in Seq(Record)
    BY DEF Typed
  <1>1. CASE UNCHANGED <<log, read, since, tid>>
    BY <1>1 DEF Current
  <1>2. CASE SwitchOut \/ \E t \in Tasks : SwitchIn(t)
    <2>1. UNCHANGED <<read, since, tid>>
      BY <1>2, KernelSteps
    <2>2. \A i \in 1..Len(log) : log'[i] = log[i]
      <3>1. CASE UNCHANGED log
        BY <3>1
      <3>2. ASSUME NEW rec, log' = Append(log, rec)
            PROVE  \A i \in 1..Len(log) : log'[i] = log[i]
        BY <1>0, <3>2
      <3>3. QED
        BY <1>2, <3>1, <3>2, KernelSteps
    <2>3. QED
      BY <2>1, <2>2, ActiveSlice DEF Current
  <1>3. ASSUME NEW d \in Thread, ~overlap, ReadRecord(d) PROVE Current'
    <2>1. UNCHANGED log
      BY <1>3 DEF ReadRecord, kernelVars
    <2>2. ASSUME NEW r, r = log[Len(read) + 1],
                 Len(read) + 1 \in 1..Len(log), read' = Append(read, r),
                 Handled(r)
          PROVE  Current'
      <3>1. Len(read') = Len(read) + 1
        BY <1>0, <2>2
      <3>2. CASE r[1] = 0 /\ since' = since
        <4>1. SUFFICES ASSUME since # 0 PROVE FALSE
          BY <3>2 DEF Current
        <4>2. Len(read) < Len(log)
          BY <1>0, <2>2
        <4>3. tid # 0 /\ \E e : r = <<tid, e, TRUE>>
          BY <2>2, <4>1, <4>2, ActiveSlice
        <4>4. QED
          BY <3>2, <4>3
      <3>3. CASE since' = 0
        BY <3>3 DEF Current
      <3>4. CASE r[1] # 0 /\ r[3] = FALSE /\ since' = r[2] /\ tid' = r[1]
        <4>1. r \in Record
          BY <1>0, <2>2
        <4>2. r = <<r[1], r[2], r[3]>>
          BY <4>1 DEF Record
        <4>3. log'[Len(read')] = <<tid', since', FALSE>>
          BY <2>1, <2>2, <3>1, <3>4, <4>2
        <4>4. Len(read') > 0
          BY <1>0, <3>1
        <4>5. QED
          BY <3>4, <4>3, <4>4 DEF Current
      <3>5. QED
        BY <2>2, <3>2, <3>3, <3>4 DEF Handled
    <2>3. QED
      BY <1>1, <1>3, <2>1, <2>2, ReadSteps
  <1>4. ASSUME NEW d \in Thread, EndActive(d) PROVE Current'
    <2>1. UNCHANGED <<log, read, tid>> /\ (since' = 0 \/ UNCHANGED since)
      BY <1>4, EndSteps DEF kernelVars
    <2>2. QED
      BY <1>1, <2>1 DEF Current
  <1>5. QED
    BY <1>1, <1>2, <1>3, <1>4, Kinds DEF Quiet, kernelVars

\* TrueSlices, slice by slice.
LEMMA TrueSlicesMean ==
    ASSUME Typed, [Next]_vars, ~overlap
    PROVE  /\ TrueSlices <=> (~lossy => \A i \in 1..Len(AllSlices) :
                                           TrueSlice(AllSlices[i]))
           /\ AllSlices' \in Seq(Slice) =>
                (TrueSlices' <=> (~lossy' => \A i \in 1..Len(AllSlices') :
                                               TrueSlice(AllSlices[i])'))
  <1>1. DOMAIN AllSlices = 1..Len(AllSlices)
    BY SliceTypes
  <1>2. AllSlices' \in Seq(Slice) => DOMAIN AllSlices' = 1..Len(AllSlices')
    OBVIOUS
  <1>3. TrueSlices <=> (~lossy => \A i \in 1..Len(AllSlices) :
                                     TrueSlice(AllSlices[i]))
    BY <1>1 DEF TrueSlices, TrueSlice
  <1>4. AllSlices' \in Seq(Slice) =>
           (TrueSlices' <=> (~lossy' => \A i \in 1..Len(AllSlices') :
                                           TrueSlice(AllSlices[i])'))
    BY <1>2 DEF TrueSlices, TrueSlice
  <1>5. QED
    BY <1>3, <1>4

\* Every slice that comes is a period, and stays one.
LEMMA TrueSlicesNext ==
    ASSUME Typed, Alone, Ring, Prefix, Ordered, CaughtUp, TrueSlices,
           ~lossy => Alternate /\ Current, [Next]_vars, ~overlap
    PROVE  TrueSlices'
  <1>0. /\ AllSlices \in Seq(Slice) /\ Len(AllSlices) \in Nat
        /\ \A i \in 1..Len(AllSlices) : AllSlices[i] \in Slice
        /\ now \in Nat /\ horizon \in 0..MaxTime /\ since \in Nat
        /\ Len(log) \in Nat /\ Len(read) \in Nat
    <2>1. /\ AllSlices \in Seq(Slice) /\ Len(AllSlices) \in Nat
          /\ \A i \in 1..Len(AllSlices) : AllSlices[i] \in Slice
      BY SliceTypes
    <2>2. now \in 1..MaxTime /\ horizon \in 0..MaxTime /\ since \in Nat
      BY DEF Typed
    <2>3. Len(log) \in Nat /\ Len(read) \in Nat
      BY DEF Typed
    <2>4. QED
      BY <2>1, <2>2, <2>3
  <1>1. SUFFICES ASSUME ~lossy' PROVE TrueSlices'
    BY DEF TrueSlices
  <1>2. Alternate /\ Current /\ \A i \in 1..Len(AllSlices) : TrueSlice(AllSlices[i])
    BY <1>1, StillLossless, TrueSlicesMean
  <1>3. ASSUME cut \subseteq cut', NEW s \in Slice,
               \/ AllSlices' = AllSlices
               \/ Grown(s) /\ TrueSlice(s)'
        PROVE  TrueSlices'
    <2>1. ASSUME NEW i \in 1..Len(AllSlices), NEW t \in Slice,
                 t = AllSlices[i]
          PROVE  TrueSlice(t)'
      <3>1. TrueSlice(t)
        BY <1>2, <2>1 DEF TrueSlice
      <3>2. QED
        BY <1>3, <3>1, TrueSliceNext
    <2>2. ASSUME NEW i \in 1..Len(AllSlices'), NEW t, t = AllSlices'[i]
          PROVE  TrueSlice(t)'
      <3>1. CASE i \in 1..Len(AllSlices) /\ AllSlices'[i] = AllSlices[i]
        BY <1>0, <2>1, <2>2, <3>1
      <3>2. CASE t = s /\ TrueSlice(s)'
        BY <3>2
      <3>3. CASE AllSlices' = AllSlices
        BY <2>2, <3>1, <3>3
      <3>4. CASE Grown(s) /\ TrueSlice(s)'
        <4>1. CASE i = Len(AllSlices) + 1
          BY <2>2, <3>2, <3>4, <4>1 DEF Grown
        <4>2. CASE i # Len(AllSlices) + 1
          BY <1>0, <2>2, <3>1, <3>4, <4>2 DEF Grown
        <4>3. QED
          BY <4>1, <4>2
      <3>5. QED
        BY <1>3, <3>3, <3>4
    <2>3. ASSUME NEW i \in 1..Len(AllSlices')
          PROVE  TrueSlice(AllSlices[i])'
      <3>1. PICK t : t = AllSlices'[i]
        OBVIOUS
      <3>2. TrueSlice(t)'
        BY <2>2, <3>1
      <3>3. QED
        BY <3>1, <3>2 DEF TrueSlice
    <2>4. AllSlices' \in Seq(Slice)
      BY <1>0, <1>3 DEF Grown
    <2>5. QED
      BY <2>3, <2>4, TrueSlicesMean
  <1>4. PICK any \in Slice : TRUE
    <2>1. [begin |-> 0, end |-> 1, tid |-> 0] \in Slice
      BY TimelineAssumption DEF Slice
    <2>2. QED
      BY <2>1
  <1>5. CASE UNCHANGED <<cut, AllSlices>>
    BY <1>3, <1>4, <1>5
  <1>6. ASSUME NEW d \in Thread, ~overlap, ReadRecord(d) PROVE TrueSlices'
    <2>1. UNCHANGED <<cut, truth, shown>>
      BY <1>6 DEF ReadRecord, kernelVars
    <2>2. CASE UNCHANGED slices
      BY <1>5, <2>1, <2>2 DEF AllSlices
    <2>3. ASSUME NEW r, r = log[Len(read) + 1], Len(read) + 1 \in 1..Len(log),
                 r[1] # 0, since # 0, NEW s,
                 s = [begin |-> since, end |-> r[2], tid |-> r[1]],
                 slices' = Append(slices, s)
          PROVE  TrueSlices'
      <3>1. Len(read) < Len(log)
        BY <1>0, <2>3
      <3>2. PICK k \in DOMAIN truth[tid] :
               /\ truth[tid][k].begin = since
               /\ r = <<tid, truth[tid][k].end, TRUE>>
        BY <1>2, <2>3, <3>1, ActiveSlice
      <3>3. r[1] = tid /\ r[2] = truth[tid][k].end
        BY <3>2
      <3>4. s.begin = since /\ s.end = r[2] /\ s.tid = tid
        BY <2>3, <3>3
      <3>5. TrueSlice(s)'
        BY <2>1, <3>2, <3>3, <3>4 DEF TrueSlice
      <3>6. s \in Slice
        <4>1. r[2] > 1
          BY <2>3 DEF Ordered
        <4>2. log \in Seq(Record)
          BY DEF Typed
        <4>3. r \in Record
          BY <2>3, <4>2
        <4>4. r[1] \in Tasks /\ r[2] \in Nat \ {0}
          BY <4>1, <4>3 DEF Record
        <4>5. QED
          BY <1>0, <2>3, <4>4 DEF Slice
      <3>7. Grown(s)
        BY <2>1, <2>3, <3>6, GrownBy
      <3>8. QED
        BY <1>3, <2>1, <3>5, <3>6, <3>7
    <2>4. PICK r : r = log[Len(read) + 1]
      OBVIOUS
    <2>5. PICK s : s = [begin |-> since, end |-> r[2], tid |-> r[1]]
      OBVIOUS
    <2>6. QED
      BY <1>6, <2>2, <2>3, <2>4, <2>5, ReadSteps DEF Handled
  <1>7. ASSUME NEW d \in Thread, EndActive(d) PROVE TrueSlices'
    <2>1. UNCHANGED truth /\ pc[d] = "active"
      BY <1>7, EndSteps DEF kernelVars
    <2>2. CASE UNCHANGED <<cut, AllSlices>>
      BY <1>5, <2>2
    <2>3. ASSUME since # 0, NEW s \in Slice, Grown(s),
                 s = [begin |-> since, end |-> now, tid |-> tid],
                 cut' = cut \cup {<<s, horizon>>}
          PROVE  TrueSlices'
      <3>1. PICK k \in DOMAIN truth[tid] :
               /\ truth[tid][k].begin = since
               /\ Len(read) < Len(log) =>
                    log[Len(read) + 1] = <<tid, truth[tid][k].end, TRUE>>
               /\ Len(read) = Len(log) => truth[tid][k].end = 0
        BY <1>2, <2>3, ActiveSlice
      <3>2. s.begin = since /\ s.tid = tid
        BY <2>3
      <3>3. truth[tid][k].end = 0 \/ truth[tid][k].end >= horizon
        <4>1. CASE Len(read) = Len(log)
          BY <3>1, <4>1
        <4>2. CASE Len(read) < Len(log)
          <5>1. Len(read) + 1 \in 1..Len(log) /\ Len(read) + 1 > Len(read)
            BY <1>0, <4>2
          <5>2. log[Len(read) + 1][2] > horizon
            BY <2>1, <5>1 DEF CaughtUp
          <5>3. log[Len(read) + 1][2] = truth[tid][k].end
            BY <3>1, <4>2
          <5>4. truth[tid][k].end > horizon
            BY <5>2, <5>3
          <5>5. truth[tid][k].end \in Nat
            <6>1. truth \in [Tasks -> Seq(Period)] /\ tid \in Tasks
              BY DEF Typed
            <6>2. truth[tid] \in Seq(Period)
              BY <6>1
            <6>3. truth[tid][k] \in Period
              BY <6>2
            <6>4. QED
              BY <6>3 DEF Period
          <5>6. horizon \in Nat /\ truth[tid][k].end \in Nat
            BY <1>0, <5>5, TimelineAssumption
          <5>7. QED
            BY <5>4, <5>6
        <4>3. QED
          BY <1>0, <4>1, <4>2 DEF Prefix
      <3>4. <<s, horizon>> \in cut' /\ cut \subseteq cut'
        BY <2>3
      <3>5. TrueSlice(s)'
        BY <1>0, <2>1, <3>1, <3>2, <3>3, <3>4 DEF TrueSlice
      <3>6. QED
        BY <1>3, <2>3, <3>4, <3>5
    <2>4. QED
      BY <1>7, <2>2, <2>3, EndSteps
  <1>8. CASE SwitchOut \/ \E t \in Tasks : SwitchIn(t)
    <2>1. UNCHANGED <<cut, AllSlices>>
      BY <1>8, KernelSteps DEF AllSlices
    <2>2. QED
      BY <1>5, <2>1
  <1>9. QED
    BY <1>5, <1>6, <1>7, <1>8, Kinds DEF Quiet

-----------------------------------------------------------------------------
(* Whoever drains at the same time *)

\* The types that outlast a flush that comes upon a drain.
Shaped ==
    /\ now \in Nat /\ (onCpu = <<>> \/ \E t \in Tasks : onCpu = <<t>>)
    /\ ring \in [0..RingSize-1 -> Words] /\ head \in Nat /\ dataTail \in Nat
    /\ lock \in Thread \cup {NoThread} /\ flusher \in Thread \cup {NoThread}
    /\ pc \in [Thread -> {"idle", "load", "read", "active", "write"}]
    /\ headOf \in [Thread -> Nat] /\ tailOf \in [Thread -> Nat]
    /\ raced \subseteq Thread

\* Two that read the ring together are remembered until they have stored
\* data_tail.
Separate ==
    \A d, e \in Thread : d # e /\ Reading(d) /\ Reading(e) => d \in raced

\* Whoever reads the ring alone is not behind data_tail.
Ahead == \A d \in Thread : pc[d] = "read" /\ d \notin raced => dataTail <= tailOf[d]

Always == Shaped /\ Alone /\ Separate /\ Ahead

\* Words are words wherever they are put.
LEMMA PutTyped ==
    ASSUME ring \in [0..RingSize-1 -> Words], head \in Nat,
           NEW words \in Seq(Words), Put(words)
    PROVE  ring' \in [0..RingSize-1 -> Words] /\ head' \in Nat
  <1> DEFINE Hit(i, k) == (head + k - 1) % RingSize = i
             Here(i) == CHOOSE k \in 1..Len(words) : Hit(i, k)
  <1>1. ring' = [i \in 0..RingSize-1 |->
                   IF \E k \in 1..Len(words) : Hit(i, k)
                   THEN words[Here(i)] ELSE ring[i]]
    BY DEF Put
  <1>2. head' = head + Len(words)
    BY DEF Put
  <1>3. ASSUME NEW i \in 0..RingSize-1, \E k \in 1..Len(words) : Hit(i, k)
        PROVE  Here(i) \in 1..Len(words)
    BY <1>3
  <1> HIDE DEF Hit, Here
  <1>4. ASSUME NEW i \in 0..RingSize-1
        PROVE  (IF \E k \in 1..Len(words) : Hit(i, k)
                THEN words[Here(i)] ELSE ring[i]) \in Words
    BY <1>3
  <1>5. QED
    BY <1>1, <1>2, <1>4

\* What the kernel does keeps the types of the ring.
LEMMA OutputTyped ==
    ASSUME Shaped, NEW task \in Tasks, NEW out \in BOOLEAN, Output(task, out)
    PROVE  ring' \in [0..RingSize-1 -> Words] /\ head' \in Nat
  <1>t. PICK time : time = now + 1
    OBVIOUS
  <1>a. PICK rec : rec = SwitchRecord(task, time, out)
    OBVIOUS
  <1>b. PICK lost : lost = LostRecord(task, time)
    OBVIOUS
  <1>0. /\ ring \in [0..RingSize-1 -> Words] /\ head \in Nat
        /\ task \in Nat /\ time \in Nat
    BY <1>t, TimelineAssumption DEF Shaped
  <1>1. rec \in Seq(Words)
    BY <1>0, <1>a, SwitchWords, SMTT(30)
  <1>2. lost \in Seq(Words)
    BY <1>0, <1>b, LostWords
  <1>c. PICK words : words = IF drops THEN lost \o rec ELSE rec
    OBVIOUS
  <1>3. words \in Seq(Words)
    BY <1>1, <1>2, <1>c, ConcatProperties
  <1>4. Put(words) \/ UNCHANGED <<ring, head>>
    BY <1>a, <1>b, <1>c, <1>t DEF Output
  <1>5. QED
    BY <1>0, <1>3, <1>4, PutTyped

\* A switch leaves all that drains use to them but the ring and its head.
LEMMA KernelTyped ==
    ASSUME Shaped, SwitchOut \/ \E t \in Tasks : SwitchIn(t)
    PROVE  /\ now' \in Nat /\ (onCpu' = <<>> \/ \E t \in Tasks : onCpu' = <<t>>)
           /\ ring' \in [0..RingSize-1 -> Words] /\ head' \in Nat
           /\ UNCHANGED <<dataTail, lock, pc, headOf, tailOf, flusher, overlap,
                          raced>>
  <1>1. /\ now' \in Nat /\ (onCpu' = <<>> \/ \E t \in Tasks : onCpu' = <<t>>)
        /\ UNCHANGED <<dataTail, lock, pc, headOf, tailOf, flusher, overlap,
                       raced>>
    <2>1. UNCHANGED <<dataTail, lock, pc, headOf, tailOf, flusher, overlap,
                      raced>>
      BY DEF SwitchOut, SwitchIn
    <2>2. onCpu' = <<>> \/ \E t \in Tasks : onCpu' = <<t>>
      BY DEF SwitchOut, SwitchIn
    <2>3. now' = now + 1 /\ now \in Nat
      BY DEF SwitchOut, SwitchIn, Tick, Shaped
    <2>4. QED
      BY <2>1, <2>2, <2>3
  <1>2. CASE SwitchOut
    <2>1. onCpu # <<>> /\ Output(onCpu[1], TRUE)
      BY <1>2 DEF SwitchOut
    <2>2. PICK t \in Tasks : onCpu = <<t>>
      BY <2>1 DEF Shaped
    <2>3. Output(t, TRUE)
      BY <2>1, <2>2
    <2>4. QED
      BY <1>1, <2>3, OutputTyped
  <1>3. CASE \E t \in Tasks : SwitchIn(t)
    <2>1. \E t \in Tasks : Output(t, FALSE)
      BY <1>3 DEF SwitchIn
    <2>2. QED
      BY <1>1, <2>1, OutputTyped
  <1>4. QED
    BY <1>2, <1>3

\* A turn of the loop moves its own tail on, whatever it takes for a record.
LEMMA ReadTyped ==
    ASSUME Shaped, NEW d \in Thread, ReadRecord(d)
    PROVE  /\ \E n \in Nat : tailOf' = [tailOf EXCEPT ![d] = tailOf[d] + n]
           /\ UNCHANGED <<kernelVars, dataTail, lock, pc, headOf, flusher,
                          overlap, raced>>
  <1>1. PICK rec \in RecordsAt(tailOf[d]) :
           tailOf' = [tailOf EXCEPT ![d] = tailOf[d] + rec.size]
    BY DEF ReadRecord
  <1>2. rec.size \in Nat
    <2>1. CASE At(tailOf[d]).type # "none"
      <3>1. rec.size = At(tailOf[d]).size
        BY <1>1, <2>1 DEF RecordsAt, RecordAt
      <3>2. tailOf[d] \in Nat
        BY DEF Shaped
      <3>3. tailOf[d] % RingSize \in 0..RingSize-1
        BY <3>2, TimelineAssumption
      <3>4. At(tailOf[d]) \in Words
        BY <3>3 DEF Shaped, At
      <3>5. QED
        BY <3>1, <3>4 DEF Words
    <2>2. CASE At(tailOf[d]).type = "none"
      <3>1. rec.size \in Sizes
        BY <1>1, <2>2 DEF RecordsAt
      <3>2. QED
        BY <3>1, TimelineAssumption
    <2>3. QED
      BY <2>1, <2>2
  <1>3. UNCHANGED <<kernelVars, dataTail, lock, pc, headOf, flusher, overlap,
                    raced>>
    BY DEF ReadRecord
  <1>4. QED
    BY <1>1, <1>2, <1>3

\* The types stay.
LEMMA ShapedNext ==
    ASSUME Always, [Next]_vars
    PROVE  Shaped'
  <1>0. Shaped
    BY DEF Always
  <1>1. CASE SwitchOut \/ \E t \in Tasks : SwitchIn(t)
    BY <1>0, <1>1, KernelTyped DEF Shaped
  <1>2. ASSUME NEW d \in Thread, TryLock(d) PROVE Shaped'
    BY <1>0, <1>2 DEF TryLock, Flushing, Shaped, kernelVars
  <1>3. ASSUME NEW d \in Thread, StartFlush(d) PROVE Shaped'
    BY <1>0, <1>3 DEF StartFlush, Shaped, kernelVars
  <1>4. ASSUME NEW d \in Thread, Load(d) PROVE Shaped'
    BY <1>0, <1>4 DEF Load, Shaped, kernelVars
  <1>5. ASSUME NEW d \in Thread, ReadRecord(d) PROVE Shaped'
    <2>1. tailOf' \in [Thread -> Nat]
      BY <1>0, <1>5, ReadTyped DEF Shaped
    <2>2. QED
      BY <1>0, <1>5, <2>1, ReadTyped DEF Shaped, kernelVars
  <1>6. ASSUME NEW d \in Thread, Publish(d) PROVE Shaped'
    BY <1>0, <1>6 DEF Publish, Shaped, kernelVars
  <1>7. ASSUME NEW d \in Thread, EndActive(d) PROVE Shaped'
    BY <1>0, <1>7 DEF EndActive, Shaped, kernelVars
  <1>8. ASSUME NEW d \in Thread, WriteSlices(d) PROVE Shaped'
    BY <1>0, <1>8 DEF WriteSlices, Shaped, kernelVars
  <1>9. CASE UNCHANGED vars
    BY <1>0, <1>9 DEF vars, Shaped
  <1>10. QED
    BY <1>1, <1>2, <1>3, <1>4, <1>5, <1>6, <1>7, <1>8, <1>9
    DEF Next, Kernel, Drain

\* The holder of the lock and the flush are the only ones, and are two.
LEMMA AloneNext ==
    ASSUME Always, [Next]_vars
    PROVE  Alone'
  <1>0. /\ Alone
        /\ pc \in [Thread -> {"idle", "load", "read", "active", "write"}]
        /\ lock \in Thread \cup {NoThread} /\ NoThread \notin Thread
        /\ flusher \in Thread \cup {NoThread}
    BY TimelineAssumption DEF Always, Shaped
  <1>1. CASE UNCHANGED <<lock, flusher, pc, overlap>>
    BY <1>0, <1>1 DEF Alone, Busy
  <1>2. ASSUME NEW d \in Thread, TryLock(d) PROVE Alone'
    BY <1>0, <1>2 DEF TryLock, Alone, Busy
  <1>3. ASSUME NEW d \in Thread, StartFlush(d) PROVE Alone'
    <2>1. ~overlap' => \A e \in Thread : ~Busy(e)
      BY <1>3 DEF StartFlush
    <2>2. /\ pc' = [pc EXCEPT ![d] = "load"] /\ flusher' = d
          /\ flusher = NoThread /\ UNCHANGED lock /\ pc[d] = "idle"
      BY <1>3 DEF StartFlush
    <2>3. ~overlap' => lock = NoThread
      BY <1>0, <2>1 DEF Alone, Busy
    <2>4. QED
      BY <1>0, <2>2, <2>3 DEF Alone, Busy
  <1>4. ASSUME NEW d \in Thread, Load(d) PROVE Alone'
    <2>1. /\ pc' = [pc EXCEPT ![d] = "read"] /\ pc[d] = "load"
          /\ UNCHANGED <<lock, flusher, overlap>>
      BY <1>4 DEF Load
    <2>2. QED
      BY <1>0, <2>1 DEF Alone, Busy
  <1>5. ASSUME NEW d \in Thread, Publish(d) PROVE Alone'
    <2>1. /\ pc' = [pc EXCEPT ![d] = IF flusher = d THEN "active" ELSE "idle"]
          /\ pc[d] = "read" /\ UNCHANGED <<flusher, overlap>>
          /\ lock' = IF lock = d THEN NoThread ELSE lock
      BY <1>5 DEF Publish
    <2>2. QED
      BY <1>0, <2>1 DEF Alone, Busy
  <1>6. ASSUME NEW d \in Thread, EndActive(d) PROVE Alone'
    <2>1. /\ pc' = [pc EXCEPT ![d] = "write"] /\ pc[d] = "active"
          /\ UNCHANGED <<lock, flusher, overlap>>
      BY <1>6 DEF EndActive
    <2>2. QED
      BY <1>0, <2>1 DEF Alone, Busy
  <1>7. ASSUME NEW d \in Thread, WriteSlices(d) PROVE Alone'
    <2>1. /\ pc' = [pc EXCEPT ![d] = "idle"] /\ pc[d] = "write"
          /\ UNCHANGED <<lock, overlap>> /\ flusher' = NoThread
      BY <1>7 DEF WriteSlices
    <2>2. QED
      BY <1>0, <2>1 DEF Alone, Busy
  <1>8. CASE SwitchOut \/ \E t \in Tasks : SwitchIn(t)
    BY <1>1, <1>8 DEF SwitchOut, SwitchIn
  <1>9. QED
    BY <1>1, <1>2, <1>3, <1>4, <1>5, <1>6, <1>7, <1>8
    DEF Next, Kernel, Drain, ReadRecord, vars

\* Whoever begins to read beside another is remembered with that one.
LEMMA SeparateNext ==
    ASSUME Always, [Next]_vars
    PROVE  Separate'
  <1>0. /\ Separate /\ Alone
        /\ pc \in [Thread -> {"idle", "load", "read", "active", "write"}]
        /\ lock \in Thread \cup {NoThread} /\ NoThread \notin Thread
        /\ flusher \in Thread \cup {NoThread}
    BY TimelineAssumption DEF Always, Shaped
  <1>1. ASSUME \A e \in Thread : Reading(e)' => Reading(e), UNCHANGED raced
        PROVE  Separate'
    BY <1>0, <1>1 DEF Separate
  <1>2. ASSUME NEW d \in Thread, TryLock(d) PROVE Separate'
    <2>1. /\ pc[d] = "idle" /\ pc' = [pc EXCEPT ![d] = "load"] /\ lock = NoThread
          /\ raced' = IF Flushing = {} THEN raced
                      ELSE raced \cup Flushing \cup {d}
      BY <1>2 DEF TryLock
    <2>2. \A e \in Thread : Reading(e) => e \in Flushing
      BY <1>0, <2>1 DEF Alone, Busy, Reading, Flushing
    <2>3. \A e \in Thread : e # d => (Reading(e)' <=> Reading(e))
      BY <1>0, <2>1 DEF Reading
    <2>4. QED
      BY <1>0, <2>1, <2>2, <2>3 DEF Separate
  <1>3. ASSUME NEW d \in Thread, StartFlush(d) PROVE Separate'
    <2>1. /\ pc[d] = "idle" /\ pc' = [pc EXCEPT ![d] = "load"]
          /\ flusher = NoThread
          /\ raced' = IF lock = NoThread THEN raced ELSE raced \cup {lock, d}
      BY <1>3 DEF StartFlush
    <2>2. \A e \in Thread : Reading(e) => e = lock
      BY <1>0, <2>1 DEF Alone, Busy, Reading
    <2>3. \A e \in Thread : e # d => (Reading(e)' <=> Reading(e))
      BY <1>0, <2>1 DEF Reading
    <2>4. QED
      BY <1>0, <2>1, <2>2, <2>3 DEF Separate
  <1>4. ASSUME NEW d \in Thread, Load(d) PROVE Separate'
    BY <1>0, <1>1, <1>4 DEF Load, Reading
  <1>5. ASSUME NEW d \in Thread, Publish(d) PROVE Separate'
    <2>1. /\ pc' = [pc EXCEPT ![d] = IF flusher = d THEN "active" ELSE "idle"]
          /\ raced' = raced \ {d}
      BY <1>5 DEF Publish
    <2>2. ~Reading(d)' /\ \A e \in Thread : e # d => (Reading(e)' <=> Reading(e))
      BY <1>0, <2>1 DEF Reading
    <2>3. QED
      BY <1>0, <2>1, <2>2 DEF Separate
  <1>6. ASSUME NEW d \in Thread, EndActive(d) \/ WriteSlices(d) PROVE Separate'
    BY <1>0, <1>1, <1>6 DEF EndActive, WriteSlices, Reading
  <1>7. CASE UNCHANGED <<pc, raced>>
    BY <1>1, <1>7 DEF Reading
  <1>8. CASE SwitchOut \/ \E t \in Tasks : SwitchIn(t)
    BY <1>7, <1>8 DEF SwitchOut, SwitchIn
  <1>9. QED
    BY <1>2, <1>3, <1>4, <1>5, <1>6, <1>7, <1>8
    DEF Next, Kernel, Drain, ReadRecord, vars

\* Whoever reads alone is overtaken by no store of data_tail.
LEMMA AheadNext ==
    ASSUME Always, [Next]_vars
    PROVE  Ahead'
  <1>0. /\ Separate /\ Ahead /\ dataTail \in Nat /\ tailOf \in [Thread -> Nat]
        /\ pc \in [Thread -> {"idle", "load", "read", "active", "write"}]
    BY DEF Always, Shaped
  <1>1. ASSUME \A e \in Thread : pc'[e] = "read" => pc[e] = "read",
               UNCHANGED <<dataTail, tailOf>>, raced \subseteq raced'
        PROVE  Ahead'
    BY <1>0, <1>1 DEF Ahead
  <1>2. ASSUME NEW d \in Thread, TryLock(d) \/ StartFlush(d) PROVE Ahead'
    <2>1. /\ pc' = [pc EXCEPT ![d] = "load"] /\ UNCHANGED <<dataTail, tailOf>>
          /\ raced \subseteq raced'
      BY <1>2 DEF TryLock, StartFlush
    <2>2. QED
      BY <1>0, <1>1, <2>1
  <1>3. ASSUME NEW d \in Thread, Load(d) PROVE Ahead'
    <2>1. /\ pc' = [pc EXCEPT ![d] = "read"] /\ UNCHANGED <<dataTail, raced>>
          /\ tailOf' = [tailOf EXCEPT ![d] = dataTail]
      BY <1>3 DEF Load
    <2>2. QED
      BY <1>0, <2>1 DEF Ahead
  <1>4. ASSUME NEW d \in Thread, ReadRecord(d) PROVE Ahead'
    <2>1. PICK n \in Nat : tailOf' = [tailOf EXCEPT ![d] = tailOf[d] + n]
      BY <1>4, ReadTyped DEF Always
    <2>2. UNCHANGED <<dataTail, pc, raced>>
      BY <1>4 DEF ReadRecord
    <2>3. QED
      BY <1>0, <2>1, <2>2 DEF Ahead
  <1>5. ASSUME NEW d \in Thread, Publish(d) PROVE Ahead'
    <2>1. /\ pc[d] = "read" /\ raced' = raced \ {d}
          /\ pc' = [pc EXCEPT ![d] = IF flusher = d THEN "active" ELSE "idle"]
      BY <1>5 DEF Publish
    <2>2. ASSUME NEW e \in Thread, pc'[e] = "read" PROVE e \in raced'
      <3>1. e # d /\ pc[e] = "read"
        BY <1>0, <2>1, <2>2
      <3>2. e \in raced
        BY <1>0, <2>1, <3>1 DEF Separate, Reading
      <3>3. QED
        BY <2>1, <3>1, <3>2
    <2>3. QED
      BY <2>2 DEF Ahead
  <1>6. ASSUME NEW d \in Thread, EndActive(d) \/ WriteSlices(d) PROVE Ahead'
    <2>1. /\ pc' = [pc EXCEPT ![d] = "write"] \/ pc' = [pc EXCEPT ![d] = "idle"]
          /\ UNCHANGED <<dataTail, tailOf, raced>>
      BY <1>6 DEF EndActive, WriteSlices
    <2>2. QED
      BY <1>0, <1>1, <2>1
  <1>7. CASE UNCHANGED <<pc, dataTail, tailOf, raced>>
    BY <1>1, <1>7
  <1>8. CASE SwitchOut \/ \E t \in Tasks : SwitchIn(t)
    BY <1>7, <1>8 DEF SwitchOut, SwitchIn
  <1>9. QED
    BY <1>2, <1>3, <1>4, <1>5, <1>6, <1>7, <1>8 DEF Next, Kernel, Drain, vars

\* The system starts so, and nothing changes it.
LEMMA AlwaysInit == Init => Always
  <1> SUFFICES ASSUME Init PROVE Always
    OBVIOUS
  <1>1. /\ ring = [i \in 0..RingSize-1 |-> Word(0)] /\ raced = {}
        /\ head = 0 /\ dataTail = 0 /\ lock = NoThread /\ flusher = NoThread
        /\ pc = [d \in Thread |-> "idle"]
        /\ headOf = [d \in Thread |-> 0] /\ tailOf = [d \in Thread |-> 0]
        /\ now = 1 /\ \E t \in Tasks : onCpu = <<t>>
    BY DEF Init
  <1>2. Word(0) \in Words
    BY DEF Word, Words
  <1>3. Shaped
    BY <1>1, <1>2 DEF Shaped
  <1>4. Alone /\ Separate /\ Ahead
    BY <1>1, TimelineAssumption DEF Alone, Busy, Separate, Reading, Ahead
  <1>5. QED
    BY <1>3, <1>4 DEF Always

LEMMA AlwaysNext == Always /\ [Next]_vars => Always'
  BY ShapedNext, AloneNext, SeparateNext, AheadNext DEF Always

-----------------------------------------------------------------------------
(* The invariant and what follows from it *)

\* The system starts in the invariant.
LEMMA IInvInit ==
    Init => IInv
  <1> SUFFICES ASSUME Init PROVE IInv
    OBVIOUS
  <1>1. Typed
    BY TypedInit
  <1>2. /\ now = 1 /\ head = 0 /\ dataTail = 0 /\ since = 0 /\ slices = <<>>
        /\ lock = NoThread /\ flusher = NoThread /\ log = <<>> /\ read = <<>>
        /\ cut = {} /\ horizon = 0 /\ shown = <<>>
        /\ \A d \in Thread : pc[d] = "idle" /\ d # NoThread
    BY TimelineAssumption DEF Init
  <1>3. Len(log) = 0 /\ Len(read) = 0
    BY <1>2
  <1>4. Len(AllSlices) = 0 /\ DOMAIN AllSlices = {}
    <2>1. AllSlices = <<>> \o <<>>
      BY <1>2 DEF AllSlices
    <2>2. <<>> \o <<>> = <<>>
      OBVIOUS
    <2>3. QED
      BY <2>1, <2>2
  <1>6. Bounds
    <2>1. head <= dataTail + RingSize /\ dataTail <= head
      BY <1>2, TimelineAssumption
    <2>2. QED
      BY <1>2, <2>1 DEF Bounds
  <1>7. Framed
    BY <1>2 DEF Framed, Mark
  <1>8. Tracked
    <2>1. PICK pos : pos = [i \in 1..Len(log) |-> 0]
      OBVIOUS
    <2>2. pos \in [1..Len(log) -> Nat]
      BY <2>1
    <2>3. \A i \in 1..Len(log) : FALSE
      BY <1>3
    <2>4. \A o \in dataTail..head-1 : FALSE
      BY <1>2
    <2>5. Placed(pos) /\ Followed(pos)
      BY <1>2, <2>3, <2>4 DEF Placed, Followed, UpTo
    <2>6. QED
      BY <2>2, <2>5 DEF Tracked
  <1>9. Prefix /\ Ordered /\ Alternate
    <2>1. \A i \in 1..Len(log) : FALSE
      BY <1>3
    <2>2. \A i \in 1..Len(read) : FALSE
      BY <1>3
    <2>3. QED
      BY <1>3, <2>1, <2>2 DEF Prefix, Ordered, Alternate
  <1>10. CaughtUp /\ Current
    BY <1>2 DEF CaughtUp, Current
  <1>11. EndedPast /\ Disjoint /\ TrueSlices
    <2>1. \A i \in 1..Len(AllSlices) : FALSE
      BY <1>4
    <2>2. QED
      BY <1>4, <2>1 DEF EndedPast, Disjoint, TrueSlices
  <1>12. QED
    BY <1>1, <1>6, <1>7, <1>8, <1>9, <1>10, <1>11 DEF IInv

\* A step before a flush comes upon a drain keeps it.
LEMMA IInvNext ==
    Always /\ (~overlap => IInv) /\ [Next]_vars => (~overlap' => IInv')
  <1> SUFFICES ASSUME Always, ~overlap => IInv, [Next]_vars, ~overlap'
               PROVE  IInv'
    OBVIOUS
  <1>0. ~overlap
    BY DEF Next, Kernel, Drain, SwitchOut, SwitchIn, TryLock, StartFlush, Load,
           ReadRecord, Publish, EndActive, WriteSlices, vars
  <1>1. /\ Typed /\ Alone /\ Ring /\ Prefix /\ Ordered /\ CaughtUp
        /\ EndedPast /\ Disjoint /\ TrueSlices
        /\ ~lossy => Alternate /\ Current
    BY <1>0 DEF IInv, Ring, Always
  <1>2. Typed'
    BY <1>0, <1>1, TypedNext
  <1>3. Ring' /\ Prefix' /\ Ordered'
    BY <1>0, <1>1, RingNext, LogNext
  <1>4. CaughtUp' /\ EndedPast' /\ Disjoint'
    BY <1>0, <1>1, CaughtUpNext, EndedNext
  <1>5. ~lossy' => Alternate' /\ Current'
    BY <1>0, <1>1, StillLossless, AlternateNext, CurrentNext
  <1>6. TrueSlices'
    BY <1>0, <1>1, TrueSlicesNext
  <1>7. QED
    BY <1>2, <1>3, <1>4, <1>5, <1>6 DEF IInv, Ring

\* In every state who drains, and what a drain that is alone may count on; and
\* until a flush comes upon a drain the positions of the drains, the row of
\* records in the ring, what was read against the log, and the slices.
THEOREM Invariant == Spec => [](Always /\ (~overlap => IInv))
  <1>1. QED
    BY AlwaysInit, AlwaysNext, IInvInit, IInvNext, PTL DEF Spec

\* A part of a sequence that agrees with it from the start is a prefix.
LEMMA AgreeingPrefix ==
    ASSUME NEW S, NEW s \in Seq(S), NEW t \in Seq(S), Len(s) <= Len(t),
           \A i \in 1..Len(s) : s[i] = t[i]
    PROVE  IsPrefix(s, t)
  <1>1. Len(s) \in Nat /\ Len(t) \in Nat
    OBVIOUS
  <1>2. SubSeq(s, 1, Len(s)) = SubSeq(t, 1, Len(s))
    BY <1>1
  <1>3. QED
    BY <1>2 DEF IsPrefix

\* As long as no flush comes upon a drain, drain processes the records one by
\* one, as the kernel wrote them and in its order: nothing unread is
\* overwritten, torn or read twice.
THEOREM RingReadAsWritten == Spec => []ReadAsWritten
  <1>1. (~overlap => IInv) => ReadAsWritten
    <2>1. SUFFICES ASSUME IInv PROVE IsPrefix(read, log)
      BY DEF ReadAsWritten
    <2>2. /\ read \in Seq(Record) /\ log \in Seq(Record)
          /\ Len(read) <= Len(log) /\ \A i \in 1..Len(read) : read[i] = log[i]
      BY <2>1 DEF IInv, Typed, Prefix
    <2>3. QED
      BY <2>2, AgreeingPrefix
  <1>2. QED
    BY <1>1, Invariant, PTL

\* Whatever comes together: data_tail moves back only where a drain and a flush
\* have read the ring together, by the store of one of the two.
THEOREM TailNeverBack == Spec => TailAdvances
  <1> DEFINE Back == dataTail' < dataTail =>
                        \E d \in raced : pc[d] = "read" /\ pc'[d] # "read"
  <1>1. Always /\ [Next]_vars => [Back]_vars
    <2>1. SUFFICES ASSUME Always, [Next]_vars, dataTail' < dataTail
                   PROVE  \E d \in raced : pc[d] = "read" /\ pc'[d] # "read"
      OBVIOUS
    <2>2. /\ dataTail \in Nat /\ tailOf \in [Thread -> Nat] /\ Ahead
          /\ pc \in [Thread -> {"idle", "load", "read", "active", "write"}]
      BY <2>1 DEF Always, Shaped
    <2>3. dataTail' # dataTail
      BY <2>1, <2>2
    <2>4. PICK d \in Thread : Publish(d)
      BY <2>1, <2>3 DEF Next, Kernel, Drain, SwitchOut, SwitchIn, TryLock, StartFlush,
                  Load, ReadRecord, EndActive, WriteSlices, vars
    <2>5. pc[d] = "read" /\ pc'[d] # "read" /\ dataTail' = tailOf[d]
      BY <2>2, <2>4 DEF Publish
    <2>6. d \in raced
      BY <2>1, <2>2, <2>5 DEF Ahead
    <2>7. QED
      BY <2>5, <2>6
  <1>2. QED
    BY <1>1, Invariant, PTL DEF Spec, TailAdvances

\* As long as no flush comes upon a drain: without losses every slice of the
\* trace is a period in which its task ran, or the part of one that a flush
\* could see.
THEOREM TimelineTrue == Spec => []SlicesTrue
  <1>1. (~overlap => IInv) => SlicesTrue
    BY DEF IInv, TrueSlices, SlicesTrue
  <1>2. QED
    BY <1>1, Invariant, PTL

\* As long as no flush comes upon a drain, slices that end with a switch never
\* overlap, whatever was lost.
THEOREM TimelineDisjoint == Spec => []EndedDisjoint
  <1>1. (~overlap => IInv) => EndedDisjoint
    BY DEF IInv, Disjoint, EndedDisjoint
  <1>2. QED
    BY <1>1, Invariant, PTL

=============================================================================
