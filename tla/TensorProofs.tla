---------------------------- MODULE TensorProofs ----------------------------
(***************************************************************************)
(* Who owns the buffers of Tensor and what array each one stands for, for  *)
(* any number of variables, buffers, shapes of any rank and failures.  The *)
(* sum and the product over a shape are recursive functions: what they     *)
(* compute follows by induction, from the least element that every set of  *)
(* naturals has.                                                           *)
(***************************************************************************)
EXTENDS Tensor, Integers, FiniteSetTheorems, FunctionTheorems,
        WellFoundedInduction, TLAPS

\* m_data of a variable: an address, null, or nothing at all.
Data(s) == object[s].data

\* The values the state can take.
Typed ==
    /\ object = [s \in Slot |-> [data |-> Data(s), shape |-> object[s].shape,
                                 stride |-> object[s].stride]]
    /\ \A s \in Slot : Data(s) \in Buffer \cup {Null, NoTensor}
    /\ DOMAIN heap \subseteq Buffer
    /\ torn \subseteq Slot

\* A variable that an exception left with a freed buffer still points to it.
TornDangle == \A s \in torn : Data(s) \in Buffer \ DOMAIN heap

\* The other addresses that are held are those that are allocated.
NoneDangles == \A s \in Slot \ torn : Data(s) \in DOMAIN heap \cup {Null, NoTensor}
NoneLeaks == \A b \in DOMAIN heap : \E s \in Slot \ torn : Data(s) = b

\* No two variables hold the same.
NoneShared ==
    \A s, o \in Slot \ torn : Data(s) \in DOMAIN heap /\ Data(o) = Data(s) => s = o

IInv == Typed /\ TornDangle /\ NoneDangles /\ NoneLeaks /\ NoneShared

-----------------------------------------------------------------------------
(* What an operation does to the buffers *)

\* Nothing happens to the addresses of the variables that are not named.
Others(S) ==
    /\ torn' = torn
    /\ object' = [s \in Slot |-> [data |-> Data(s)', shape |-> object'[s].shape,
                                  stride |-> object'[s].stride]]
    /\ \A s \in Slot \ S : Data(s)' = Data(s)

\* Elements are stored, or a shape is exchanged.
LEMMA Kept ==
    ASSUME IInv, Others({}), DOMAIN heap' = DOMAIN heap
    PROVE  IInv'
  BY DEF IInv, Typed, TornDangle, NoneDangles, NoneLeaks, NoneShared, Others, Data

\* A variable gives back its buffer, if it has one, and takes a new one.
LEMMA Replaced ==
    ASSUME IInv, NEW s \in Slot \ torn, NEW b \in Buffer \ (DOMAIN heap \ {Data(s)}),
           Others({s}), Data(s)' = b, \A o \in torn : Data(o) # b,
           DOMAIN heap' = (DOMAIN heap \ {Data(s)}) \cup {b}
    PROVE  IInv'
  <1>1. \A o \in Slot \ torn : o # s =>
           Data(o)' = Data(o) /\ (Data(o) = Data(s) => Data(o) \notin DOMAIN heap)
    BY DEF IInv, NoneShared, Others
  <1>2. Typed'
    BY TensorAssumption DEF IInv, Typed, Others, Data
  <1>3. NoneDangles'
    BY <1>1 DEF IInv, NoneDangles, Others
  <1>4. NoneLeaks'
    BY <1>1 DEF IInv, NoneLeaks, Others
  <1>5. NoneShared'
    <2>1. \A o \in Slot \ torn : o # s => Data(o)' # b
      BY <1>1, TensorAssumption DEF IInv, NoneDangles
    <2>2. QED
      BY <1>1, <2>1 DEF IInv, NoneShared, Others
  <1>6. TornDangle'
    BY DEF IInv, Typed, TornDangle, Others
  <1>7. QED
    BY <1>2, <1>3, <1>4, <1>5, <1>6 DEF IInv

\* A variable gives back its buffer, if it has one, and has none.
LEMMA Dropped ==
    ASSUME IInv, NEW s \in Slot \ torn, Others({s}), Data(s)' \in {Null, NoTensor},
           DOMAIN heap' = DOMAIN heap \ {Data(s)}
    PROVE  IInv'
  <1>1. \A o \in Slot \ torn : o # s =>
           Data(o)' = Data(o) /\ (Data(o) = Data(s) => Data(o) \notin DOMAIN heap)
    BY DEF IInv, NoneShared, Others
  <1>2. Null \notin DOMAIN heap /\ NoTensor \notin DOMAIN heap
    BY TensorAssumption DEF IInv, Typed
  <1>3. Typed'
    BY TensorAssumption DEF IInv, Typed, Others, Data
  <1>4. NoneDangles'
    BY <1>1 DEF IInv, NoneDangles, Others
  <1>5. NoneLeaks'
    BY <1>1 DEF IInv, NoneLeaks, Others
  <1>6. NoneShared'
    BY <1>1, <1>2 DEF IInv, NoneShared, Others
  <1>7. TornDangle'
    BY DEF IInv, Typed, TornDangle, Others
  <1>8. QED
    BY <1>3, <1>4, <1>5, <1>6, <1>7 DEF IInv

\* A variable gives back its buffer and takes over that of another.
LEMMA HandedOver ==
    ASSUME IInv, NEW s \in Slot \ torn, NEW o \in Slot \ torn, s # o, Held(o),
           Others({s, o}), Data(s)' = Data(o), Data(o)' = Null,
           DOMAIN heap' = DOMAIN heap \ {Data(s)}
    PROVE  IInv'
  <1>1. \A u \in Slot \ torn : u # s =>
           (Data(u) = Data(s) => Data(u) \notin DOMAIN heap)
    BY DEF IInv, NoneShared
  <1>2. \A u \in Slot \ torn : u \notin {s, o} => Data(u)' = Data(u)
    BY DEF Others
  <1>3. Null \notin DOMAIN heap /\ NoTensor \notin DOMAIN heap
    BY TensorAssumption DEF IInv, Typed
  <1>4. Typed'
    BY TensorAssumption DEF IInv, Typed, Others, Data
  <1>5. NoneDangles'
    BY <1>1, <1>2 DEF IInv, NoneDangles, Others
  <1>6. NoneLeaks'
    <2>1. ASSUME NEW b \in DOMAIN heap, b # Data(s)
          PROVE  \E u \in Slot \ torn : Data(u)' = b
      <3>1. PICK u \in Slot \ torn : Data(u) = b
        BY DEF IInv, NoneLeaks
      <3>2. CASE u = o
        BY <3>1, <3>2
      <3>3. CASE u # o
        BY <1>2, <2>1, <3>1, <3>3
      <3>4. QED
        BY <3>2, <3>3
    <2>2. QED
      BY <2>1 DEF NoneLeaks, Others
  <1>7. NoneShared'
    <2>1. ASSUME NEW u \in Slot \ torn, NEW v \in Slot \ torn,
                 Data(u)' \in DOMAIN heap', Data(v)' = Data(u)'
          PROVE  u = v
      <3>1. Data(u)' \in DOMAIN heap /\ Data(u)' # Null
        BY <1>3, <2>1
      <3>2. u # o /\ v # o
        BY <2>1, <3>1
      <3>3. PICK x \in Slot \ torn : Data(x) = Data(u)' /\ x = IF u = s THEN o ELSE u
        BY <1>2, <3>2
      <3>4. PICK y \in Slot \ torn : Data(y) = Data(v)' /\ y = IF v = s THEN o ELSE v
        BY <1>2, <3>2
      <3>5. x = y
        BY <2>1, <3>1, <3>3, <3>4 DEF IInv, NoneShared
      <3>6. QED
        BY <3>2, <3>3, <3>4, <3>5
    <2>2. QED
      BY <2>1 DEF NoneShared, Others
  <1>8. TornDangle'
    BY DEF IInv, Typed, TornDangle, Others
  <1>9. QED
    BY <1>4, <1>5, <1>6, <1>7, <1>8 DEF IInv

\* A variable gives back its buffer and takes over a dangling pointer.
LEMMA TornOver ==
    ASSUME IInv, NEW s \in Slot \ torn, NEW o \in torn, torn' = (torn \ {o}) \cup {s},
           object' = [u \in Slot |-> [data |-> Data(u)', shape |-> object'[u].shape,
                                      stride |-> object'[u].stride]],
           \A u \in Slot \ {s, o} : Data(u)' = Data(u),
           Data(s)' = Data(o), Data(o)' = Null, DOMAIN heap' = DOMAIN heap \ {Data(s)}
    PROVE  IInv'
  <1>1. s # o /\ o \in Slot /\ Data(o) \in Buffer \ DOMAIN heap
    BY DEF IInv, Typed, TornDangle
  <1>2. Null \notin DOMAIN heap
    BY TensorAssumption DEF IInv, Typed
  <1>3. \A u \in Slot \ torn : u # s /\ Data(u) = Data(s) => Data(u) \notin DOMAIN heap
    BY DEF IInv, NoneShared
  <1>4. Typed'
    BY <1>1, TensorAssumption DEF IInv, Typed, Data
  <1>5. TornDangle'
    <2>1. \A u \in torn' : u # s => u \in torn /\ u \in Slot \ {s, o}
      BY DEF IInv, Typed
    <2>2. QED
      BY <1>1, <2>1 DEF IInv, TornDangle
  <1>6. \A u \in Slot \ torn' : u # o => u \in Slot \ torn /\ u # s /\ Data(u)' = Data(u)
    OBVIOUS
  <1>7. NoneDangles'
    BY <1>3, <1>6 DEF IInv, NoneDangles
  <1>8. NoneLeaks'
    <2>1. ASSUME NEW b \in DOMAIN heap, b # Data(s)
          PROVE  \E u \in Slot \ torn' : Data(u)' = b
      <3>1. PICK u \in Slot \ torn : Data(u) = b
        BY DEF IInv, NoneLeaks
      <3>2. u # s /\ u # o
        BY <2>1, <3>1
      <3>3. QED
        BY <3>1, <3>2
    <2>2. QED
      BY <2>1 DEF NoneLeaks
  <1>9. NoneShared'
    BY <1>2, <1>6 DEF IInv, NoneShared
  <1>10. QED
    BY <1>4, <1>5, <1>7, <1>8, <1>9 DEF IInv

\* The buffer of a variable is freed and an exception leaves it torn.
LEMMA Torn ==
    ASSUME IInv, NEW s \in Slot \ torn, Data(s) \in Buffer, torn' = torn \cup {s},
           object' = [u \in Slot |-> [data |-> Data(u)', shape |-> object'[u].shape,
                                      stride |-> object'[u].stride]],
           \A u \in Slot : Data(u)' = Data(u),
           DOMAIN heap' = DOMAIN heap \ {Data(s)}
    PROVE  IInv'
  <1>1. Typed' /\ TornDangle'
    BY DEF IInv, Typed, TornDangle, Data
  <1>2. \A o \in Slot \ torn : o # s /\ Data(o) = Data(s) => Data(o) \notin DOMAIN heap
    BY DEF IInv, NoneShared
  <1>3. NoneDangles'
    BY <1>2 DEF IInv, NoneDangles
  <1>4. NoneLeaks'
    BY <1>2 DEF IInv, NoneLeaks
  <1>5. NoneShared'
    BY DEF IInv, NoneShared
  <1>6. QED
    BY <1>1, <1>3, <1>4, <1>5 DEF IInv

-----------------------------------------------------------------------------
(* The operations *)

\* The heap after malloc and free.
LEMMA HeapDomains ==
    /\ \A b, contents : DOMAIN Allocated(heap, b, contents) = DOMAIN heap \cup {b}
    /\ \A b : DOMAIN Freed(heap, b) = DOMAIN heap \ {b}
    /\ \A b, c, contents :
         DOMAIN Allocated(Freed(heap, c), b, contents) = (DOMAIN heap \ {c}) \cup {b}
  <1>1. \A b : DOMAIN Freed(heap, b) = DOMAIN heap \ {b}
    BY DEF Freed, Restrict
  <1>2. QED
    BY <1>1 DEF Allocated

\* A variable without a Tensor is in order.
LEMMA NotTorn == ASSUME IInv, NEW s \in Slot, ~Held(s) PROVE s \in Slot \ torn
  BY TensorAssumption DEF IInv, TornDangle, Held, Data

\* The variables whose pointers dangle are those an exception left torn.
LEMMA WhoDangles == ASSUME IInv, NEW s \in Slot, Held(s) PROVE Dangling(s) <=> s \in torn
  BY TensorAssumption DEF IInv, Typed, TornDangle, NoneDangles, Dangling, Held, Data

\* A variable that gets a Tensor gets its address; the others keep theirs.
LEMMA Assigned ==
    ASSUME IInv, torn' = torn, NEW s \in Slot, NEW d, NEW shape, NEW stride,
           NEW tensor, tensor = [data |-> d, shape |-> shape, stride |-> stride],
           object' = [object EXCEPT ![s] = tensor]
    PROVE  Others({s}) /\ Data(s)' = d
  BY DEF IInv, Typed, Others, Data

\* A copy has the shape and the strides of the other.
LEMMA CopyOf ==
    ASSUME IInv, NEW o \in Slot, NEW b
    PROVE  [object[o] EXCEPT !.data = b]
             = [data |-> b, shape |-> object[o].shape, stride |-> object[o].stride]
  BY DEF IInv, Typed

\* A variable gives back its buffer and takes over what another points to.
LEMMA MoveAssigns ==
    ASSUME IInv, NEW s \in Slot \ torn, NEW o \in Slot, s # o, Held(o),
           object' = Moved(s, o), torn' = MovedTorn(s, o),
           DOMAIN heap' = DOMAIN heap \ {Data(s)}
    PROVE  IInv'
  <1>1. /\ object' = [u \in Slot |-> [data |-> Data(u)', shape |-> object'[u].shape,
                                      stride |-> object'[u].stride]]
        /\ \A u \in Slot \ {s, o} : Data(u)' = Data(u)
        /\ Data(s)' = Data(o) /\ Data(o)' = Null
    BY DEF IInv, Typed, Data, Moved, Empty
  <1>2. CASE o \in torn
    BY <1>1, <1>2, TornOver DEF MovedTorn
  <1>3. CASE o \notin torn
    <2>1. Others({s, o})
      BY <1>1, <1>3 DEF Others, MovedTorn
    <2>2. QED
      BY <1>1, <1>3, <2>1, HandedOver
  <1>4. QED
    BY <1>2, <1>3

\* Every operation keeps the owners in order.
LEMMA InvNext == IInv /\ [Next]_vars => IInv'
  <1> SUFFICES ASSUME IInv, [Next]_vars PROVE IInv'
    OBVIOUS
  <1>0. ASSUME UNCHANGED <<object, heap, torn>> PROVE IInv'
    <2>1. Others({})
      BY <1>0 DEF Others, IInv, Typed, Data
    <2>2. QED
      BY <1>0, <2>1, Kept
  <1>1. ASSUME NEW s \in Slot, NEW shape \in Shapes, NEW v \in Values,
               Construct(s, shape, v)
        PROVE  IInv'
    <2>1. CASE UNCHANGED <<object, heap, torn>>
      BY <2>1, <1>0
    <2>2. ASSUME NEW b \in Free,
                 heap' = Allocated(heap, b, Zeros(shape, v)),
                 object' = [object EXCEPT ![s] =
                              [data |-> b, shape |-> shape, stride |-> Strides(shape)]],
                 torn' = torn
          PROVE  IInv'
      <3>1. s \in Slot \ torn /\ Data(s) \notin DOMAIN heap
        BY <1>1, NotTorn, TensorAssumption DEF Construct, Held, Data, IInv, Typed
      <3>2. Others({s}) /\ Data(s)' = b
        BY <2>2, Assigned
      <3>3. DOMAIN heap' = (DOMAIN heap \ {Data(s)}) \cup {b}
        BY <2>2, <3>1 DEF Allocated
      <3>4. b \in Buffer \ (DOMAIN heap \ {Data(s)}) /\ \A o \in torn : Data(o) # b
        BY DEF Free, IInv, Typed, Data
      <3>5. QED
        BY <3>1, <3>2, <3>3, <3>4, Replaced
    <2>3. QED
      BY <1>1, <2>1, <2>2 DEF Construct, MallocFails, Undefined, Throws
  <1>2. ASSUME NEW s \in Slot, Default(s) PROVE IInv'
    <2>1. s \in Slot \ torn /\ Data(s) \notin DOMAIN heap
      BY <1>2, NotTorn, TensorAssumption DEF Default, Held, Data, IInv, Typed
    <2>2. Others({s}) /\ Data(s)' = Null /\ heap' = heap
      BY <1>2, Assigned DEF Default, Empty
    <2>3. QED
      BY <2>1, <2>2, Dropped
  <1>3. ASSUME NEW s \in Slot, Destroy(s) PROVE IInv'
    <2>1. CASE s \in torn
      BY <1>0, <1>3, <2>1, WhoDangles DEF Destroy, Undefined
    <2>2. CASE s \notin torn
      <3>1. Absent = [data |-> NoTensor, shape |-> <<>>, stride |-> <<>>]
        BY DEF Absent, Empty
      <3>2. torn' = torn
            /\ object' = [object EXCEPT ![s] =
                            [data |-> NoTensor, shape |-> <<>>, stride |-> <<>>]]
        BY <1>3, <2>2, <3>1, WhoDangles DEF Destroy
      <3>3. Others({s}) /\ Data(s)' = NoTensor
        BY <3>2, Assigned
      <3>4. DOMAIN heap' = DOMAIN heap \ {Data(s)}
        BY <1>3, <2>2, WhoDangles, HeapDomains DEF Destroy, Data
      <3>5. QED
        BY <2>2, <3>3, <3>4, Dropped
    <2>3. QED
      BY <2>1, <2>2
  <1>4. ASSUME NEW s \in Slot, NEW o \in Slot, CopyConstruct(s, o) PROVE IInv'
    <2>1. CASE UNCHANGED <<object, heap, torn>>
      BY <2>1, <1>0
    <2>2. ASSUME NEW b \in Free, heap' = Allocated(heap, b, Copied(o)),
                 object' = [object EXCEPT ![s] = [object[o] EXCEPT !.data = b]],
                 torn' = torn
          PROVE  IInv'
      <3>1. s \in Slot \ torn /\ Data(s) \notin DOMAIN heap
        BY <1>4, NotTorn, TensorAssumption DEF CopyConstruct, Held, Data, IInv, Typed
      <3>2. Others({s}) /\ Data(s)' = b
        <4>1. PICK tensor : tensor = [object[o] EXCEPT !.data = b]
          OBVIOUS
        <4>2. PICK shape, stride :
                tensor = [data |-> b, shape |-> shape, stride |-> stride]
          BY <4>1, CopyOf
        <4>3. object' = [object EXCEPT ![s] = tensor]
          BY <2>2, <4>1
        <4>4. torn' = torn
          BY <2>2
        <4>5. QED
          BY <4>2, <4>3, <4>4, Assigned
      <3>3. DOMAIN heap' = (DOMAIN heap \ {Data(s)}) \cup {b}
        BY <2>2, <3>1 DEF Allocated
      <3>4. b \in Buffer \ (DOMAIN heap \ {Data(s)}) /\ \A u \in torn : Data(u) # b
        BY DEF Free, IInv, Typed, Data
      <3>5. QED
        BY <3>1, <3>2, <3>3, <3>4, Replaced
    <2>3. QED
      BY <1>4, <2>1, <2>2
      DEF CopyConstruct, CopyFails, MallocFails, Undefined, Throws
  <1>5. ASSUME NEW s \in Slot, NEW o \in Slot, MoveConstruct(s, o) PROVE IInv'
    <2>1. /\ s \in Slot \ torn /\ Data(s) \notin DOMAIN heap
          /\ Held(o) /\ s # o
      BY <1>5, NotTorn, TensorAssumption DEF MoveConstruct, Held, Data, IInv, Typed
    <2>2. object' = Moved(s, o) /\ torn' = MovedTorn(s, o) /\ heap' = heap
      BY <1>5 DEF MoveConstruct
    <2>3. DOMAIN heap' = DOMAIN heap \ {Data(s)}
      BY <2>1, <2>2
    <2>4. QED
      BY <2>1, <2>2, <2>3, MoveAssigns
  <1>6. ASSUME NEW s \in Slot, NEW o \in Slot, CopyAssign(s, o) PROVE IInv'
    <2>1. CASE UNCHANGED <<object, heap, torn>>
      BY <2>1, <1>0
    <2>2. ASSUME s \notin torn,
                 NEW b \in Free \cup (Buffer \cap {object[s].data}),
                 heap' = Allocated(Freed(heap, object[s].data), b, Copied(o)),
                 object' = [object EXCEPT ![s] = [object[o] EXCEPT !.data = b]],
                 torn' = torn
          PROVE  IInv'
      <3>1. Others({s}) /\ Data(s)' = b
        <4>1. PICK tensor : tensor = [object[o] EXCEPT !.data = b]
          OBVIOUS
        <4>2. PICK shape, stride :
                tensor = [data |-> b, shape |-> shape, stride |-> stride]
          BY <4>1, CopyOf
        <4>3. object' = [object EXCEPT ![s] = tensor]
          BY <2>2, <4>1
        <4>4. torn' = torn
          BY <2>2
        <4>5. QED
          BY <4>2, <4>3, <4>4, Assigned
      <3>2. DOMAIN heap' = (DOMAIN heap \ {Data(s)}) \cup {b}
        BY <2>2, HeapDomains DEF Data
      <3>3. b \in Buffer \ (DOMAIN heap \ {Data(s)})
        BY <2>2 DEF Free, Data
      <3>4. \A u \in torn : Data(u) # b
        <4>1. CASE b \in Free
          BY <4>1 DEF Free, IInv, Typed, Data
        <4>2. CASE b = Data(s)
          BY <1>6, <2>2, <4>2, WhoDangles, TensorAssumption
          DEF CopyAssign, Dangling, IInv, TornDangle, Data
        <4>3. QED
          BY <4>1, <4>2 DEF Data
      <3>5. QED
        BY <2>2, <3>1, <3>2, <3>3, <3>4, Replaced
    <2>3. ASSUME s \notin torn, heap' = Freed(heap, object[s].data),
                 torn' = torn \cup {u \in {s} : object[s].data # Null},
                 NEW shape, object' = [object EXCEPT ![s].shape = shape]
          PROVE  IInv'
      <3>1. Data(s) \in DOMAIN heap \cup {Null}
        BY <1>6, <2>3, WhoDangles DEF CopyAssign, Dangling, Data
      <3>2. /\ object' = [u \in Slot |-> [data |-> Data(u)', shape |-> object'[u].shape,
                                          stride |-> object'[u].stride]]
            /\ \A u \in Slot : Data(u)' = Data(u)
        BY <2>3 DEF IInv, Typed, Data
      <3>3. DOMAIN heap' = DOMAIN heap \ {Data(s)}
        BY <2>3, HeapDomains DEF Data
      <3>4. CASE Data(s) = Null
        <4>1. torn' = torn
          BY <2>3, <3>4 DEF Data
        <4>2. DOMAIN heap' = DOMAIN heap
          BY <3>3, <3>4, TensorAssumption DEF IInv, Typed
        <4>3. Others({})
          BY <3>2, <4>1 DEF Others
        <4>4. QED
          BY <4>2, <4>3, Kept
      <3>5. CASE Data(s) # Null
        <4>1. Data(s) \in Buffer /\ torn' = torn \cup {s}
          BY <2>3, <3>1, <3>5 DEF IInv, Typed, Data
        <4>2. QED
          BY <2>3, <3>2, <3>3, <4>1, Torn
      <3>6. QED
        BY <3>4, <3>5
    <2>4. Dangling(s) <=> s \in torn
      BY <1>6, WhoDangles DEF CopyAssign
    <2>5. QED
      BY <1>6, <2>1, <2>2, <2>3, <2>4
      DEF CopyAssign, CopyFails, MallocFails, Undefined, Throws
  <1>7. ASSUME NEW s \in Slot, NEW o \in Slot, MoveAssign(s, o) PROVE IInv'
    <2>1. CASE s \in torn
      BY <1>0, <1>7, <2>1, WhoDangles DEF MoveAssign, Undefined
    <2>2. CASE s \notin torn
      <3>1. s # o /\ Held(o) /\ ~Dangling(s)
        BY <1>7, <2>2, WhoDangles DEF MoveAssign
      <3>2. DOMAIN heap' = DOMAIN heap \ {Data(s)}
        BY <1>7, <3>1, HeapDomains DEF MoveAssign, Data
      <3>3. QED
        BY <1>7, <2>2, <3>1, <3>2, MoveAssigns DEF MoveAssign
    <2>3. QED
      BY <2>1, <2>2
  <1>8. ASSUME NEW s \in Slot, NEW shape \in Shapes, Reshape(s, shape) PROVE IInv'
    <2>1. UNCHANGED <<heap, torn>>
      BY <1>8 DEF Reshape
    <2>2. Others({})
      <3>1. object' = [object EXCEPT ![s].shape = shape, ![s].stride = Strides(shape)]
        BY <1>8 DEF Reshape
      <3>2. PICK stride :
              object' = [object EXCEPT ![s].shape = shape, ![s].stride = stride]
        BY <3>1
      <3>3. QED
        <4>1. PICK tensor :
                tensor = [object[s] EXCEPT !.shape = shape, !.stride = stride]
          OBVIOUS
        <4>2. tensor = [data |-> Data(s), shape |-> shape, stride |-> stride]
          <5>1. object[s] = [data |-> Data(s), shape |-> object[s].shape,
                             stride |-> object[s].stride]
            BY DEF IInv, Typed
          <5>2. [object[s] EXCEPT !.shape = shape]
                  = [data |-> Data(s), shape |-> shape, stride |-> object[s].stride]
            BY <5>1
          <5>3. PICK middle : middle = [object[s] EXCEPT !.shape = shape]
            OBVIOUS
          <5>4. tensor = [middle EXCEPT !.stride = stride]
            BY <4>1, <5>3
          <5>5. QED
            BY <5>2, <5>3, <5>4
        <4>3. object' = [object EXCEPT ![s] = tensor]
          BY <3>2, <4>1 DEF IInv, Typed
        <4>4. Others({s}) /\ Data(s)' = Data(s)
          BY <2>1, <4>2, <4>3, Assigned
        <4>5. QED
          BY <4>4 DEF Others
    <2>3. QED
      BY <2>1, <2>2, Kept
  <1>9. ASSUME NEW s \in Slot, NEW v \in Values, NEW idx, Store(s, idx, v)
        PROVE  IInv'
    <2>1. UNCHANGED <<object, torn>> /\ DOMAIN heap' = DOMAIN heap
      BY <1>9 DEF Store
    <2>2. Others({})
      BY <2>1 DEF IInv, Typed, Others, Data
    <2>3. QED
      BY <2>1, <2>2, Kept
  <1>10. CASE UNCHANGED vars
    BY <1>0, <1>10 DEF vars
  <1>11. QED
    BY <1>1, <1>2, <1>3, <1>4, <1>5, <1>6, <1>7, <1>8, <1>9, <1>10 DEF Next

-----------------------------------------------------------------------------
(* Induction *)

\* Every nonempty set of naturals has a least element.
LEMMA Least ==
    ASSUME NEW T \in SUBSET Nat, T # {}
    PROVE  \E m \in T : \A k \in T : m <= k
  <1> DEFINE R == OpToRel(<, Nat)
  <1>1. IsWellFoundedOn(R, Nat)
    BY NatLessThanWellFounded
  <1>2. T \subseteq Nat
    OBVIOUS
  <1>3. \A x, y \in Nat : (<<y, x>> \in R) <=> y < x
    BY DEF OpToRel
  <1> HIDE DEF R
  <1>4. PICK x \in T : \A y \in T : ~ (<<y, x>> \in R)
    BY <1>1, <1>2, WFMin, Zenon
  <1>5. \A y \in T : ~(y < x)
    BY <1>2, <1>3, <1>4
  <1> QED BY <1>2, <1>5

\* Induction over the naturals up to n.
LEMMA UpTo ==
    ASSUME NEW n \in Nat, NEW T, 0 \in T, \A i \in 1..n : i - 1 \in T => i \in T
    PROVE  \A i \in 0..n : i \in T
  <1> SUFFICES ASSUME NEW k \in 0..n, k \notin T PROVE FALSE
    OBVIOUS
  <1>1. PICK U : U = {i \in 0..n : i \notin T}
    OBVIOUS
  <1>2. PICK m \in U : \A j \in U : m <= j
    <2>1. U \in SUBSET Nat /\ U # {}
      BY <1>1
    <2> QED BY <2>1, Least
  <1>3. m \in 1..n /\ m - 1 \in 0..n /\ ~(m <= m - 1)
    BY <1>1, <1>2
  <1>4. m - 1 \in T
    BY <1>1, <1>2, <1>3
  <1> QED BY <1>1, <1>2, <1>3, <1>4

\* f is what a loop over 1..n computes: it starts with a, and turn i makes
\* g[i] of what there was.
Loop(f, n, a, g) == f[0] = a /\ \A i \in 1..n : f[i] = g[i][f[i - 1]]

\* A function defined by recursion along 0..n exists.
LEMMA Recursion ==
    ASSUME NEW n \in Nat, NEW S, NEW a \in S, NEW g \in [1..n -> [S -> S]]
    PROVE  \E f \in [0..n -> S] : Loop(f, n, a, g)
  <1> DEFINE T == {m \in 0..n : \E f \in [0..m -> S] : Loop(f, m, a, g)}
  <1>1. 0 \in T
    <2>1. PICK f : f = [i \in 0..0 |-> a]
      OBVIOUS
    <2>2. f \in [0..0 -> S] /\ Loop(f, 0, a, g)
      BY <2>1 DEF Loop
    <2> QED BY <2>2
  <1>2. ASSUME NEW m \in 1..n, m - 1 \in T PROVE m \in T
    <2>1. PICK f \in [0..m - 1 -> S] : Loop(f, m - 1, a, g)
      BY <1>2
    <2>2. PICK x \in S : x = g[m][f[m - 1]]
      <3>1. m - 1 \in 0..m - 1
        OBVIOUS
      <3> QED BY <3>1
    <2>3. PICK h : h = [i \in 0..m |-> IF i = m THEN x ELSE f[i]]
      OBVIOUS
    <2>4. h \in [0..m -> S]
      BY <2>3
    <2>5. h[0] = a
      BY <2>1, <2>3 DEF Loop
    <2>6. ASSUME NEW i \in 1..m PROVE h[i] = g[i][h[i - 1]]
      <3>1. h[i - 1] = f[i - 1]
        BY <2>3
      <3>2. CASE i = m
        BY <2>2, <2>3, <3>1, <3>2
      <3>3. CASE i # m
        <4>1. i \in 1..m - 1 /\ h[i] = f[i]
          BY <2>3, <3>3
        <4> QED BY <2>1, <3>1, <4>1 DEF Loop
      <3> QED BY <3>2, <3>3
    <2>7. Loop(h, m, a, g)
      BY <2>5, <2>6 DEF Loop
    <2> QED BY <2>4, <2>7
  <1>3. \A m \in 1..n : m - 1 \in T => m \in T
    BY <1>2
  <1>4. \A m \in 0..n : m \in T
    <2> HIDE DEF T
    <2> QED BY <1>1, <1>3, UpTo
  <1> QED BY <1>4

\* The turns of a loop that multiplies, or adds, the elements of a sequence.
LEMMA Multiplying ==
    ASSUME NEW n \in Nat, NEW d \in [1..n -> Nat]
    PROVE  \E g \in [1..n -> [Nat -> Nat]] : \A i \in 1..n, x \in Nat : g[i][x] = x * d[i]
  <1>1. PICK g : g = [i \in 1..n |-> [x \in Nat |-> x * d[i]]]
    OBVIOUS
  <1>2. \A i \in 1..n : [x \in Nat |-> x * d[i]] \in [Nat -> Nat]
    <2> TAKE i \in 1..n
    <2>1. PICK e \in Nat : e = d[i]
      OBVIOUS
    <2>2. \A x \in Nat : x * e \in Nat
      OBVIOUS
    <2> QED BY <2>1, <2>2
  <1>3. g \in [1..n -> [Nat -> Nat]]
    BY <1>1, <1>2
  <1>4. \A i \in 1..n, x \in Nat : g[i][x] = x * d[i]
    BY <1>1
  <1> QED BY <1>3, <1>4

LEMMA Adding ==
    ASSUME NEW n \in Nat, NEW d \in [1..n -> Nat]
    PROVE  \E g \in [1..n -> [Nat -> Nat]] : \A i \in 1..n, x \in Nat : g[i][x] = x + d[i]
  <1>1. PICK g : g = [i \in 1..n |-> [x \in Nat |-> x + d[i]]]
    OBVIOUS
  <1>2. \A i \in 1..n : [x \in Nat |-> x + d[i]] \in [Nat -> Nat]
    <2> TAKE i \in 1..n
    <2>1. PICK e \in Nat : e = d[i]
      OBVIOUS
    <2>2. \A x \in Nat : x + e \in Nat
      OBVIOUS
    <2> QED BY <2>1, <2>2
  <1>3. g \in [1..n -> [Nat -> Nat]]
    BY <1>1, <1>2
  <1>4. \A i \in 1..n, x \in Nat : g[i][x] = x + d[i]
    BY <1>1
  <1> QED BY <1>3, <1>4

\* The equation that defines the running products of a sequence, and those products.
ProductsEq(f, n, d) == f = [i \in 0..n |-> IF i = 0 THEN 1 ELSE f[i - 1] * d[i]]
ProductsRun(f, n, d) ==
    /\ f \in [0..n -> Nat] /\ f[0] = 1
    /\ \A i \in 1..n : f[i] = f[i - 1] * d[i]

\* The equation has a solution.
LEMMA RunningProducts ==
    ASSUME NEW n \in Nat, NEW d \in [1..n -> Nat]
    PROVE  \E f : ProductsEq(f, n, d) /\ ProductsRun(f, n, d)
  <1>1. PICK g \in [1..n -> [Nat -> Nat]] : \A i \in 1..n, x \in Nat : g[i][x] = x * d[i]
    BY Multiplying
  <1>2. PICK f : f \in [0..n -> Nat] /\ Loop(f, n, 1, g)
    BY Recursion
  <1>3. f[0] = 1
    BY <1>2 DEF Loop
  <1>4. \A i \in 1..n : i \in 0..n /\ i - 1 \in 0..n /\ i # 0
    OBVIOUS
  <1>5. \A i \in 0..n : i = 0 \/ i \in 1..n
    OBVIOUS
  <1>6. ASSUME NEW i \in 1..n PROVE f[i] = f[i - 1] * d[i]
    <2>1. PICK x \in Nat : x = f[i - 1]
      BY <1>2, <1>4
    <2>2. f[i] = g[i][x] /\ g[i][x] = x * d[i]
      BY <1>1, <1>2, <2>1 DEF Loop
    <2> QED BY <2>1, <2>2
  <1>7. f = [i \in 0..n |-> IF i = 0 THEN 1 ELSE f[i - 1] * d[i]]
    <2>1. ASSUME NEW i \in 0..n PROVE f[i] = IF i = 0 THEN 1 ELSE f[i - 1] * d[i]
      <3>1. CASE i = 0
        BY <1>3, <3>1, Zenon
      <3>2. CASE i # 0
        BY <1>5, <1>6, <3>2, Zenon
      <3> QED BY <3>1, <3>2, Zenon
    <2>2. f = [i \in 0..n |-> f[i]]
      BY <1>2, Zenon
    <2> QED BY <2>1, <2>2, Zenon
  <1>8. \A i \in 1..n : f[i] = f[i - 1] * d[i]
    BY <1>6, Zenon
  <1>9. ProductsEq(f, n, d)
    BY <1>7, Zenon DEF ProductsEq
  <1>10. ProductsRun(f, n, d)
    BY <1>2, <1>3, <1>8, Zenon DEF ProductsRun
  <1> QED BY <1>9, <1>10

\* The equation has no other solution.
LEMMA OnlyProducts ==
    ASSUME NEW n \in Nat, NEW d \in [1..n -> Nat], NEW h, ProductsEq(h, n, d)
    PROVE  ProductsRun(h, n, d)
  <1>1. PICK f : ProductsRun(f, n, d)
    BY RunningProducts
  <1>2. f[0] = 1 /\ \A i \in 1..n : f[i] = f[i - 1] * d[i]
    BY <1>1, Zenon DEF ProductsRun
  <1>3. h = [i \in 0..n |-> IF i = 0 THEN 1 ELSE h[i - 1] * d[i]]
    BY Zenon DEF ProductsEq
  <1> DEFINE T == {i \in 0..n : h[i] = f[i]}
  <1>4. \A i \in 0..n : h[i] = IF i = 0 THEN 1 ELSE h[i - 1] * d[i]
    BY <1>3, Zenon
  <1>5. \A i \in 1..n : i \in 0..n /\ i # 0
    OBVIOUS
  <1>6. 0 \in 0..n
    OBVIOUS
  <1>7. 0 \in T
    BY <1>2, <1>4, <1>6, Zenon
  <1>8. ASSUME NEW i \in 1..n, i - 1 \in T PROVE i \in T
    <2>1. h[i - 1] = f[i - 1]
      BY <1>8, Zenon
    <2>2. h[i] = h[i - 1] * d[i]
      BY <1>4, <1>5, Zenon
    <2>3. h[i] = f[i]
      BY <1>2, <2>1, <2>2, Zenon
    <2> QED BY <1>5, <2>3, Zenon
  <1>9. \A i \in 1..n : i - 1 \in T => i \in T
    BY <1>8, Zenon
  <1>10. \A i \in 0..n : i \in T
    <2> HIDE DEF T
    <2> QED BY <1>7, <1>9, UpTo
  <1>11. \A i \in 0..n : h[i] = f[i]
    BY <1>10, Zenon
  <1>12. h = [i \in 0..n |-> h[i]] /\ f = [i \in 0..n |-> f[i]]
    BY <1>1, <1>3, Zenon DEF ProductsRun
  <1>13. h = f
    BY <1>11, <1>12, Zenon
  <1> QED BY <1>1, <1>13, Zenon

\* The equation that defines the running sums of a sequence, and those sums.
SumsEq(f, n, d) == f = [i \in 0..n |-> IF i = 0 THEN 0 ELSE f[i - 1] + d[i]]
SumsRun(f, n, d) ==
    /\ f \in [0..n -> Nat] /\ f[0] = 0
    /\ \A i \in 1..n : f[i] = f[i - 1] + d[i]

\* The equation has a solution.
LEMMA RunningSums ==
    ASSUME NEW n \in Nat, NEW d \in [1..n -> Nat]
    PROVE  \E f : SumsEq(f, n, d) /\ SumsRun(f, n, d)
  <1>1. PICK g \in [1..n -> [Nat -> Nat]] : \A i \in 1..n, x \in Nat : g[i][x] = x + d[i]
    BY Adding
  <1>2. PICK f : f \in [0..n -> Nat] /\ Loop(f, n, 0, g)
    BY Recursion
  <1>3. f[0] = 0
    BY <1>2 DEF Loop
  <1>4. \A i \in 1..n : i \in 0..n /\ i - 1 \in 0..n /\ i # 0
    OBVIOUS
  <1>5. \A i \in 0..n : i = 0 \/ i \in 1..n
    OBVIOUS
  <1>6. ASSUME NEW i \in 1..n PROVE f[i] = f[i - 1] + d[i]
    <2>1. PICK x \in Nat : x = f[i - 1]
      BY <1>2, <1>4
    <2>2. f[i] = g[i][x] /\ g[i][x] = x + d[i]
      BY <1>1, <1>2, <2>1 DEF Loop
    <2> QED BY <2>1, <2>2
  <1>7. f = [i \in 0..n |-> IF i = 0 THEN 0 ELSE f[i - 1] + d[i]]
    <2>1. ASSUME NEW i \in 0..n PROVE f[i] = IF i = 0 THEN 0 ELSE f[i - 1] + d[i]
      <3>1. CASE i = 0
        BY <1>3, <3>1, Zenon
      <3>2. CASE i # 0
        BY <1>5, <1>6, <3>2, Zenon
      <3> QED BY <3>1, <3>2, Zenon
    <2>2. f = [i \in 0..n |-> f[i]]
      BY <1>2, Zenon
    <2> QED BY <2>1, <2>2, Zenon
  <1>8. \A i \in 1..n : f[i] = f[i - 1] + d[i]
    BY <1>6, Zenon
  <1>9. SumsEq(f, n, d)
    BY <1>7, Zenon DEF SumsEq
  <1>10. SumsRun(f, n, d)
    BY <1>2, <1>3, <1>8, Zenon DEF SumsRun
  <1> QED BY <1>9, <1>10

\* The equation has no other solution.
LEMMA OnlySums ==
    ASSUME NEW n \in Nat, NEW d \in [1..n -> Nat], NEW h, SumsEq(h, n, d)
    PROVE  SumsRun(h, n, d)
  <1>1. PICK f : SumsRun(f, n, d)
    BY RunningSums
  <1>2. f[0] = 0 /\ \A i \in 1..n : f[i] = f[i - 1] + d[i]
    BY <1>1, Zenon DEF SumsRun
  <1>3. h = [i \in 0..n |-> IF i = 0 THEN 0 ELSE h[i - 1] + d[i]]
    BY Zenon DEF SumsEq
  <1> DEFINE T == {i \in 0..n : h[i] = f[i]}
  <1>4. \A i \in 0..n : h[i] = IF i = 0 THEN 0 ELSE h[i - 1] + d[i]
    BY <1>3, Zenon
  <1>5. \A i \in 1..n : i \in 0..n /\ i # 0
    OBVIOUS
  <1>6. 0 \in 0..n
    OBVIOUS
  <1>7. 0 \in T
    BY <1>2, <1>4, <1>6, Zenon
  <1>8. ASSUME NEW i \in 1..n, i - 1 \in T PROVE i \in T
    <2>1. h[i - 1] = f[i - 1]
      BY <1>8, Zenon
    <2>2. h[i] = h[i - 1] + d[i]
      BY <1>4, <1>5, Zenon
    <2>3. h[i] = f[i]
      BY <1>2, <2>1, <2>2, Zenon
    <2> QED BY <1>5, <2>3, Zenon
  <1>9. \A i \in 1..n : i - 1 \in T => i \in T
    BY <1>8, Zenon
  <1>10. \A i \in 0..n : i \in T
    <2> HIDE DEF T
    <2> QED BY <1>7, <1>9, UpTo
  <1>11. \A i \in 0..n : h[i] = f[i]
    BY <1>10, Zenon
  <1>12. h = [i \in 0..n |-> h[i]] /\ f = [i \in 0..n |-> f[i]]
    BY <1>1, <1>3, Zenon DEF SumsRun
  <1>13. h = f
    BY <1>11, <1>12, Zenon
  <1> QED BY <1>1, <1>13, Zenon

-----------------------------------------------------------------------------
(* Sizes and strides *)

\* The product of the dimensions is that of a loop over them.
LEMMA NumelRuns ==
    ASSUME NEW shape \in Seq(Nat)
    PROVE  \E p \in [0..Len(shape) -> Nat] :
             /\ p[0] = 1 /\ \A i \in 1..Len(shape) : p[i] = p[i - 1] * shape[i]
             /\ Numel(shape) = p[Len(shape)]
  <1>1. PICK n, d : n = Len(shape) /\ d = [i \in 1..n |-> shape[i]]
    OBVIOUS
  <1>2. n \in Nat /\ d \in [1..n -> Nat] /\ \A i \in 1..n : d[i] = shape[i]
    BY <1>1
  <1>3. \A p, i : i \in 0..n => (IF i = 0 THEN 1 ELSE p[i - 1] * shape[i])
                                   = IF i = 0 THEN 1 ELSE p[i - 1] * d[i]
    <2>1. \A i \in 0..n : i = 0 \/ i \in 1..n
      OBVIOUS
    <2> QED BY <1>2, <2>1, Zenon
  <1>4. PICK p : /\ p = [i \in 0..n |-> IF i = 0 THEN 1 ELSE p[i - 1] * shape[i]]
                 /\ Numel(shape) = p[n]
    <2>1. PICK p : ProductsEq(p, n, d)
      BY <1>2, RunningProducts
    <2>2. p = [i \in 0..n |-> IF i = 0 THEN 1 ELSE p[i - 1] * shape[i]]
      BY <1>3, <2>1, Zenon DEF ProductsEq
    <2> QED BY <1>1, <2>2 DEF Numel
  <1>5. ProductsEq(p, n, d)
    BY <1>3, <1>4, Zenon DEF ProductsEq
  <1>6. ProductsRun(p, n, d)
    BY <1>2, <1>5, OnlyProducts
  <1>7. /\ p \in [0..n -> Nat] /\ p[0] = 1
        /\ \A i \in 1..n : p[i] = p[i - 1] * shape[i]
    BY <1>2, <1>6, Zenon DEF ProductsRun
  <1> QED BY <1>1, <1>4, <1>7, Zenon

\* u[i] is the number of elements below one index of the first i dimensions:
\* of all of them for i = 0, and else the stride of dimension i.
Spans(u, shape) ==
    /\ u \in [0..Len(shape) -> Nat] /\ u[Len(shape)] = 1
    /\ \A i \in 1..Len(shape) : u[i - 1] = u[i] * shape[i]
    /\ u[0] = Numel(shape)
    /\ Strides(shape) = [i \in DOMAIN shape |-> u[i]]

\* compute_strides computes them, and the first one times the first dimension
\* is numel.
LEMMA SpansExist == ASSUME NEW shape \in Seq(Nat) PROVE \E u : Spans(u, shape)
  <1>1. PICK n \in Nat : n = Len(shape) /\ DOMAIN shape = 1..n
    OBVIOUS
  <1>2. PICK e : e = [i \in 1..n |-> shape[n + 1 - i]]
    OBVIOUS
  <1>3. e \in [1..n -> Nat] /\ \A i \in 1..n : e[i] = shape[n + 1 - i]
    <2>1. \A i \in 1..n : n + 1 - i \in 1..n
      OBVIOUS
    <2>2. \A i \in 1..n : shape[n + 1 - i] \in Nat
      BY <1>1, <2>1
    <2> QED BY <1>2, <2>2
  <1>4. PICK f \in [0..n -> Nat] : f[0] = 1 /\ \A i \in 1..n : f[i] = f[i - 1] * e[i]
    <2>1. PICK f : ProductsRun(f, n, e)
      BY <1>3, RunningProducts
    <2> QED BY <2>1, Zenon DEF ProductsRun
  <1>5. PICK u : u = [i \in 0..n |-> f[n - i]]
    OBVIOUS
  <1>6. u \in [0..n -> Nat] /\ u[n] = 1
    BY <1>4, <1>5
  <1>7. ASSUME NEW i \in 1..n PROVE u[i - 1] = u[i] * shape[i]
    <2>1. PICK j \in 1..n : j = n + 1 - i
      OBVIOUS
    <2>2. u[i - 1] = f[j] /\ u[i] = f[j - 1] /\ i = n + 1 - j
      BY <1>5, <2>1
    <2>3. f[j] = f[j - 1] * e[j] /\ e[j] = shape[i]
      BY <1>3, <1>4, <2>1, <2>2
    <2> QED BY <2>2, <2>3
  <1>8. \E s : s = [i \in 1..n |-> IF i = n THEN 1 ELSE s[i + 1] * shape[i + 1]]
    <2>1. PICK s : s = [i \in 1..n |-> u[i]]
      OBVIOUS
    <2>2. ASSUME NEW i \in 1..n PROVE u[i] = IF i = n THEN 1 ELSE s[i + 1] * shape[i + 1]
      <3>1. CASE i = n
        BY <1>6, <3>1
      <3>2. CASE i # n
        <4>1. PICK j \in 1..n : j = i + 1
          BY <3>2
        <4>2. u[j - 1] = u[j] * shape[j] /\ j - 1 = i
          BY <1>7, <4>1
        <4> QED BY <2>1, <3>2, <4>1, <4>2
      <3> QED BY <3>1, <3>2
    <2>3. s = [i \in 1..n |-> IF i = n THEN 1 ELSE s[i + 1] * shape[i + 1]]
      BY <2>1, <2>2, Zenon
    <2> QED BY <2>3
  <1>9. PICK s : /\ s = [i \in 1..n |-> IF i = n THEN 1 ELSE s[i + 1] * shape[i + 1]]
                 /\ Strides(shape) = s
    BY <1>1, <1>8 DEF Strides
  <1>10. \A i \in 1..n : s[i] = u[i]
    <2> DEFINE T == {j \in 0..n : j = 0 \/ s[n + 1 - j] = u[n + 1 - j]}
    <2>1. 0 \in T
      OBVIOUS
    <2>2. ASSUME NEW j \in 1..n, j - 1 \in T PROVE j \in T
      <3>1. PICK i \in 1..n : i = n + 1 - j
        OBVIOUS
      <3>2. CASE j = 1
        BY <1>6, <1>9, <3>1, <3>2
      <3>3. CASE j # 1
        <4>1. PICK k \in 1..n : k = i + 1
          BY <3>1, <3>3
        <4>2. s[k] = u[k]
          <5>1. n + 1 - (j - 1) = k
            BY <3>1, <4>1
          <5> QED BY <2>2, <3>3, <5>1
        <4>3. s[i] = s[k] * shape[k]
          BY <1>9, <3>1, <3>3, <4>1
        <4>4. u[k - 1] = u[k] * shape[k] /\ k - 1 = i
          BY <1>7, <4>1
        <4> QED BY <3>1, <4>2, <4>3, <4>4
      <3> QED BY <3>2, <3>3
    <2>3. \A j \in 1..n : j - 1 \in T => j \in T
      BY <2>2
    <2>4. \A j \in 0..n : j \in T
      <3> HIDE DEF T
      <3> QED BY <2>1, <2>3, UpTo
    <2> TAKE i \in 1..n
    <2>5. PICK j \in 1..n : j = n + 1 - i /\ i = n + 1 - j
      OBVIOUS
    <2>6. j \in T
      <3> HIDE DEF T
      <3> QED BY <2>4
    <2> QED BY <2>5, <2>6
  <1>11. Strides(shape) = [i \in DOMAIN shape |-> u[i]]
    BY <1>1, <1>9, <1>10
  <1>12. u[0] = Numel(shape)
    <2>1. PICK p \in [0..n -> Nat] :
            /\ p[0] = 1 /\ \A i \in 1..n : p[i] = p[i - 1] * shape[i]
            /\ Numel(shape) = p[n]
      BY <1>1, NumelRuns
    <2> DEFINE T == {i \in 0..n : p[i] * u[i] = u[0]}
    <2>2. 0 \in T
      BY <1>6, <2>1
    <2>3. ASSUME NEW i \in 1..n, i - 1 \in T PROVE i \in T
      <3>1. PICK x \in Nat, y \in Nat, d \in Nat :
              x = p[i - 1] /\ y = u[i] /\ d = shape[i]
        <4>1. i - 1 \in 0..n /\ i \in 0..n
          OBVIOUS
        <4>2. p[i - 1] \in Nat
          BY <4>1
        <4>3. u[i] \in Nat
          BY <1>6, <4>1
        <4>4. shape[i] \in Nat
          BY <1>1
        <4> QED BY <4>2, <4>3, <4>4
      <3>2. p[i] = x * d /\ u[i - 1] = y * d /\ x * u[i - 1] = u[0]
        BY <1>7, <2>1, <2>3, <3>1
      <3>3. (x * d) * y = x * (y * d)
        OBVIOUS
      <3> QED BY <3>1, <3>2, <3>3
    <2>4. \A i \in 1..n : i - 1 \in T => i \in T
      BY <2>3
    <2>5. \A i \in 0..n : i \in T
      <3> HIDE DEF T
      <3> QED BY <2>2, <2>4, UpTo
    <2> QED BY <1>6, <2>1, <2>5
  <1>13. Spans(u, shape)
    BY <1>1, <1>6, <1>7, <1>11, <1>12 DEF Spans
  <1> QED BY <1>13

-----------------------------------------------------------------------------
(* Where an element lies *)

\* The sums of the offset, term by term.
Sums(f, u, idx, n) ==
    /\ f \in [0..n -> Nat] /\ f[0] = 0
    /\ \A i \in 1..n : f[i] = f[i - 1] + idx[i] * u[i]

\* The offset of an index under the strides of a shape.
Place(shape, idx) == Offset([shape |-> shape, stride |-> Strides(shape)], idx)

\* The offset is the last of the sums.
LEMMA PlaceRuns ==
    ASSUME NEW shape \in Seq(Nat), NEW u, Spans(u, shape),
           NEW idx \in [DOMAIN shape -> Nat]
    PROVE  \E f : Sums(f, u, idx, Len(shape)) /\ Place(shape, idx) = f[Len(shape)]
  <1>1. PICK n \in Nat : n = Len(shape) /\ DOMAIN shape = 1..n
    OBVIOUS
  <1>2. \A i \in 1..n : idx[i] \in Nat /\ u[i] \in Nat /\ Strides(shape)[i] = u[i]
    <2>1. u \in [0..n -> Nat] /\ Strides(shape) = [i \in 1..n |-> u[i]]
      BY <1>1 DEF Spans
    <2>2. idx \in [1..n -> Nat]
      BY <1>1
    <2> QED BY <2>1, <2>2
  <1>3. PICK t : t = [i \in 1..n |-> idx[i] * u[i]]
    OBVIOUS
  <1>4. \A i \in 1..n : t[i] \in Nat /\ t[i] = idx[i] * u[i]
    BY <1>2, <1>3
  <1>5. t \in [1..n -> Nat]
    BY <1>3, <1>4
  <1>6. PICK o : o = [shape |-> shape, stride |-> Strides(shape)]
    OBVIOUS
  <1>7. o.shape = shape /\ o.stride = Strides(shape) /\ Place(shape, idx) = Offset(o, idx)
    BY <1>6 DEF Place
  <1>8. \A i \in 1..n : o.stride[i] = u[i]
    BY <1>2, <1>7
  <1>9. \A f, i : i \in 0..n => (IF i = 0 THEN 0 ELSE f[i - 1] + idx[i] * o.stride[i])
                                  = IF i = 0 THEN 0 ELSE f[i - 1] + t[i]
    <2>1. \A i \in 0..n : i = 0 \/ i \in 1..n
      OBVIOUS
    <2> QED BY <1>4, <1>8, <2>1, Zenon
  <1>10. n = Len(o.shape)
    BY <1>1, <1>7
  <1>11. PICK h : /\ h = [i \in 0..n |-> IF i = 0 THEN 0 ELSE h[i - 1] + idx[i] * o.stride[i]]
                  /\ Offset(o, idx) = h[n]
    <2>1. PICK f : SumsEq(f, n, t)
      BY <1>5, RunningSums
    <2>2. f = [i \in 0..n |-> IF i = 0 THEN 0 ELSE f[i - 1] + idx[i] * o.stride[i]]
      BY <1>9, <2>1, Zenon DEF SumsEq
    <2> QED BY <1>10, <2>2 DEF Offset
  <1>12. SumsEq(h, n, t)
    BY <1>9, <1>11, Zenon DEF SumsEq
  <1>13. SumsRun(h, n, t)
    BY <1>5, <1>12, OnlySums
  <1>14. Sums(h, u, idx, n)
    BY <1>4, <1>13, Zenon DEF Sums, SumsRun
  <1> QED BY <1>1, <1>7, <1>11, <1>14

\* A term moves the sum past none of the elements below the next index.
LEMMA TermFits ==
    ASSUME NEW x \in Nat, NEW d \in Nat, NEW u \in Nat, x < d
    PROVE  \E p, q \in Nat : p = x * u /\ q = u * d /\ p + u <= q
  <1>1. PICK e \in Nat : d = x + 1 + e
    <2>1. d - (x + 1) \in Nat /\ d = x + 1 + (d - (x + 1))
      OBVIOUS
    <2> QED BY <2>1
  <1>2. u * (x + 1 + e) = x * u + u + u * e
    OBVIOUS
  <1>3. u * e \in Nat /\ x * u \in Nat
    OBVIOUS
  <1>4. PICK p \in Nat, r \in Nat : p = x * u /\ r = u * e
    BY <1>3
  <1>5. u * d = p + u + r
    BY <1>1, <1>2, <1>4
  <1>6. PICK q : q = p + u + r
    OBVIOUS
  <1>7. q \in Nat /\ p + u <= q
    BY <1>6
  <1> QED BY <1>4, <1>5, <1>6, <1>7

\* What grows at each step, and never by more than u shrinks, does so over many.
LEMMA Growing ==
    ASSUME NEW n \in Nat, NEW u \in [0..n -> Nat], NEW f \in [0..n -> Nat],
           \A k \in 1..n : f[k - 1] <= f[k] /\ f[k] + u[k] <= f[k - 1] + u[k - 1],
           NEW i \in 0..n, NEW j \in i..n
    PROVE  f[i] <= f[j] /\ f[j] + u[j] <= f[i] + u[i]
  <1> DEFINE T == {k \in 0..n : k >= i => f[i] <= f[k] /\ f[k] + u[k] <= f[i] + u[i]}
  <1>1. PICK a \in Nat, v \in Nat : a = f[i] /\ v = u[i]
    OBVIOUS
  <1>2. 0 \in T
    <2>1. CASE i = 0
      BY <1>1, <2>1
    <2>2. CASE i # 0
      BY <2>2
    <2> QED BY <2>1, <2>2
  <1>3. ASSUME NEW k \in 1..n, k - 1 \in T PROVE k \in T
    <2>1. CASE k < i
      BY <2>1
    <2>2. CASE k = i
      BY <1>1, <2>2
    <2>3. CASE k > i
      <3>1. k - 1 >= i /\ k - 1 \in 0..n /\ k \in 0..n
        BY <2>3
      <3>2. PICK b \in Nat, w \in Nat : b = f[k - 1] /\ w = u[k - 1]
        BY <3>1
      <3>3. PICK c \in Nat, x \in Nat : c = f[k] /\ x = u[k]
        BY <3>1
      <3>4. a <= b /\ b + w <= a + v
        BY <1>1, <1>3, <3>1, <3>2, Zenon
      <3>5. b <= c /\ c + x <= b + w
        BY <3>2, <3>3, Zenon
      <3>6. a <= c /\ c + x <= a + v
        BY <3>4, <3>5
      <3> QED BY <1>1, <3>1, <3>3, <3>6, Zenon
    <2> QED BY <2>1, <2>2, <2>3
  <1>4. \A k \in 1..n : k - 1 \in T => k \in T
    BY <1>3, Zenon
  <1>5. \A k \in 0..n : k \in T
    <2> HIDE DEF T
    <2> QED BY <1>2, <1>4, UpTo
  <1>6. j \in 0..n /\ j >= i
    OBVIOUS
  <1>7. j \in T
    <2> HIDE DEF T
    <2> QED BY <1>5, <1>6, Zenon
  <1> QED BY <1>6, <1>7, Zenon

\* An index is a function to naturals.
LEMMA IndexTyped ==
    ASSUME NEW shape \in Seq(Nat), NEW idx \in Indices(shape)
    PROVE  idx \in [DOMAIN shape -> Nat]
  <1>1. \A i \in DOMAIN shape : idx[i] \in Nat
    <2>1. \A x \in 0..Numel(shape) : x \in Nat
      OBVIOUS
    <2> QED BY <2>1 DEF Indices
  <1> QED BY <1>1 DEF Indices

\* The sums grow, and never by as much as would reach the next index.
LEMMA SumsBounded ==
    ASSUME NEW shape \in Seq(Nat), NEW u, Spans(u, shape), NEW idx \in Indices(shape),
           NEW f, Sums(f, u, idx, Len(shape)),
           NEW i \in 0..Len(shape), NEW j \in i..Len(shape)
    PROVE  f[i] <= f[j] /\ f[j] + u[j] <= f[i] + u[i]
  <1>1. PICK n \in Nat : n = Len(shape)
    OBVIOUS
  <1>2. \A k \in 1..n : k \in DOMAIN shape
    BY <1>1
  <1>3. u \in [0..n -> Nat] /\ \A k \in 1..n : u[k - 1] = u[k] * shape[k]
    BY <1>1, Zenon DEF Spans
  <1>4. f \in [0..n -> Nat] /\ \A k \in 1..n : f[k] = f[k - 1] + idx[k] * u[k]
    BY <1>1, Zenon DEF Sums
  <1>5. \A k \in DOMAIN shape : idx[k] \in Nat /\ shape[k] \in Nat /\ idx[k] < shape[k]
    <2> TAKE k \in DOMAIN shape
    <2>1. idx[k] \in Nat
      BY IndexTyped
    <2>2. shape[k] \in Nat
      OBVIOUS
    <2>3. idx[k] < shape[k]
      BY DEF Indices
    <2> QED BY <2>1, <2>2, <2>3
  <1>6. ASSUME NEW k \in 1..n
        PROVE  f[k - 1] <= f[k] /\ f[k] + u[k] <= f[k - 1] + u[k - 1]
    <2>1. k \in 0..n /\ k - 1 \in 0..n
      OBVIOUS
    <2>2. f[k] = f[k - 1] + idx[k] * u[k] /\ u[k - 1] = u[k] * shape[k]
      BY <1>3, <1>4, Zenon
    <2>3. PICK x \in Nat, d \in Nat : x = idx[k] /\ d = shape[k] /\ x < d
      BY <1>2, <1>5, Zenon
    <2>4. PICK v \in Nat : v = u[k]
      BY <1>3, <2>1, Zenon
    <2>5. PICK b \in Nat : b = f[k - 1]
      BY <1>4, <2>1, Zenon
    <2>6. PICK p \in Nat, q \in Nat : p = x * v /\ q = v * d /\ p + v <= q
      <3>1. x < d
        BY <2>3
      <3> QED BY <3>1, TermFits
    <2>7. f[k] = b + p /\ u[k - 1] = q
      BY <2>2, <2>3, <2>4, <2>5, <2>6, Zenon
    <2>8. b <= b + p /\ (b + p) + v <= b + q
      BY <2>6
    <2> QED BY <2>4, <2>5, <2>7, <2>8, Zenon
  <1>7. i \in 0..n /\ j \in i..n
    BY <1>1
  <1> QED BY <1>3, <1>4, <1>6, <1>7, Growing

\* No index leaves the buffer.
LEMMA PlaceBounded ==
    ASSUME NEW shape \in Seq(Nat), NEW idx \in Indices(shape)
    PROVE  Place(shape, idx) \in 0..Numel(shape) - 1
  <1>1. PICK u : Spans(u, shape)
    BY SpansExist
  <1>2. PICK n \in Nat : n = Len(shape)
    OBVIOUS
  <1>3. PICK f : Sums(f, u, idx, n) /\ Place(shape, idx) = f[n]
    BY <1>1, <1>2, IndexTyped, PlaceRuns
  <1>4. f[n] + u[n] <= f[0] + u[0]
    <2>1. 0 \in 0..n /\ n \in 0..n
      OBVIOUS
    <2> QED BY <1>1, <1>2, <1>3, <2>1, SumsBounded
  <1>5. 0 \in 0..n /\ n \in 0..n
    OBVIOUS
  <1>6. f[n] \in Nat /\ f[0] = 0
    BY <1>3, <1>5, Zenon DEF Sums
  <1>7. u \in [0..n -> Nat] /\ u[n] = 1 /\ u[0] = Numel(shape)
    BY <1>1, <1>2, Zenon DEF Spans
  <1>8. PICK x \in Nat, y \in Nat : x = f[n] /\ y = Numel(shape)
    BY <1>5, <1>6, <1>7, Zenon
  <1>9. x + 1 <= y
    <2>1. x + 1 <= 0 + y
      BY <1>4, <1>6, <1>7, <1>8, Zenon
    <2> QED BY <2>1
  <1>10. x \in 0..y - 1
    BY <1>9
  <1> QED BY <1>3, <1>8, <1>10, Zenon

\* Row-major order is the order of the offsets.
LEMMA PlaceOrdered ==
    ASSUME NEW shape \in Seq(Nat), NEW a \in Indices(shape), NEW b \in Indices(shape),
           Before(a, b)
    PROVE  Place(shape, a) < Place(shape, b)
  <1>1. PICK u : Spans(u, shape)
    BY SpansExist
  <1>2. PICK n \in Nat : n = Len(shape) /\ DOMAIN shape = 1..n
    OBVIOUS
  <1>3. PICK f : Sums(f, u, a, n) /\ Place(shape, a) = f[n]
    BY <1>1, <1>2, IndexTyped, PlaceRuns
  <1>4. PICK g : Sums(g, u, b, n) /\ Place(shape, b) = g[n]
    BY <1>1, <1>2, IndexTyped, PlaceRuns
  <1>5. DOMAIN a = 1..n
    BY <1>2, IndexTyped
  <1>6. PICK i \in 1..n : a[i] < b[i] /\ \A k \in 1..i - 1 : a[k] = b[k]
    BY <1>5 DEF Before
  <1>7. f[i - 1] = g[i - 1]
    <2> DEFINE T == {k \in 0..i - 1 : f[k] = g[k]}
    <2>1. 0 \in T
      BY <1>3, <1>4 DEF Sums
    <2>2. ASSUME NEW k \in 1..i - 1, k - 1 \in T PROVE k \in T
      BY <1>3, <1>4, <1>6, <2>2 DEF Sums
    <2>3. \A k \in 1..i - 1 : k - 1 \in T => k \in T
      BY <2>2
    <2>4. i - 1 \in Nat
      OBVIOUS
    <2>5. \A k \in 0..i - 1 : k \in T
      <3> HIDE DEF T
      <3> QED BY <2>1, <2>3, <2>4, UpTo
    <2>6. i - 1 \in T
      <3> HIDE DEF T
      <3> QED BY <2>4, <2>5
    <2> QED BY <2>6
  <1>8. i \in 0..n /\ n \in i..n
    OBVIOUS
  <1>9. f[n] + u[n] <= f[i] + u[i]
    BY <1>1, <1>2, <1>3, <1>8, SumsBounded
  <1>10. g[i] <= g[n]
    BY <1>1, <1>2, <1>4, <1>8, SumsBounded
  <1>11. PICK x \in Nat, y \in Nat, v \in Nat : x = a[i] /\ y = b[i] /\ v = u[i]
    <2>1. a[i] \in Nat /\ b[i] \in Nat
      BY <1>2, IndexTyped
    <2>2. u[i] \in Nat
      BY <1>1, <1>2, <1>8 DEF Spans
    <2> QED BY <2>1, <2>2
  <1>12. PICK p \in Nat, q \in Nat : p = x * v /\ q = v * y /\ p + v <= q
    <2>1. x < y
      BY <1>6, <1>11
    <2> QED BY <2>1, TermFits
  <1>13. f[i] = f[i - 1] + p /\ g[i] = f[i - 1] + q
    <2>1. f[i] = f[i - 1] + x * v /\ g[i] = f[i - 1] + y * v
      BY <1>3, <1>4, <1>7, <1>11 DEF Sums
    <2>2. y * v = v * y
      OBVIOUS
    <2> QED BY <1>12, <2>1, <2>2
  <1>14. /\ f[n] \in Nat /\ g[n] \in Nat /\ f[i] \in Nat /\ g[i] \in Nat
         /\ f[i - 1] \in Nat /\ u[n] = 1
    <2>1. i - 1 \in 0..n /\ n \in 0..n
      OBVIOUS
    <2> QED BY <1>1, <1>2, <1>3, <1>4, <1>8, <2>1 DEF Spans, Sums
  <1>15. f[i] + v <= g[i]
    <2>1. f[i - 1] \in Nat /\ f[i] = f[i - 1] + p /\ g[i] = f[i - 1] + q
      BY <1>13, <1>14
    <2>2. p + v <= q
      BY <1>12
    <2> QED BY <2>1, <2>2
  <1>16. PICK c \in Nat, d \in Nat, e \in Nat, h \in Nat :
            c = f[n] /\ d = g[n] /\ e = f[i] /\ h = g[i]
    BY <1>14
  <1>17. c + 1 <= e + v /\ e + v <= h /\ h <= d
    BY <1>9, <1>10, <1>11, <1>14, <1>15, <1>16, Zenon
  <1>18. c < d
    BY <1>17
  <1> QED BY <1>3, <1>4, <1>16, <1>18, Zenon

\* Of two indices one comes first.
LEMMA BeforeTotal ==
    ASSUME NEW shape \in Seq(Nat), NEW a \in Indices(shape), NEW b \in Indices(shape),
           a # b
    PROVE  Before(a, b) \/ Before(b, a)
  <1>1. PICK n \in Nat : n = Len(shape) /\ DOMAIN shape = 1..n
    OBVIOUS
  <1>2. a \in [1..n -> Nat] /\ b \in [1..n -> Nat]
    BY <1>1, IndexTyped
  <1>3. PICK T : T = {i \in 1..n : a[i] # b[i]}
    OBVIOUS
  <1>4. PICK i \in T : \A k \in T : i <= k
    <2>1. T # {}
      <3>1. \E i \in 1..n : a[i] # b[i]
        BY <1>2
      <3> QED BY <1>3, <3>1
    <2>2. T \in SUBSET Nat
      BY <1>3
    <2> QED BY <2>1, <2>2, Least
  <1>5. i \in 1..n /\ a[i] # b[i] /\ \A k \in 1..i - 1 : a[k] = b[k]
    <2>1. i \in 1..n /\ a[i] # b[i]
      BY <1>3
    <2>2. ASSUME NEW k \in 1..i - 1 PROVE a[k] = b[k]
      <3>1. k \in 1..n /\ ~(i <= k)
        BY <2>1
      <3> QED BY <1>3, <1>4, <3>1
    <2> QED BY <2>1, <2>2
  <1>6. a[i] < b[i] \/ b[i] < a[i]
    <2>1. a[i] \in Nat /\ b[i] \in Nat
      BY <1>2, <1>5
    <2> QED BY <1>5, <2>1
  <1>7. DOMAIN a = 1..n /\ DOMAIN b = 1..n
    BY <1>2
  <1> QED BY <1>5, <1>6, <1>7 DEF Before

\* Division and remainder, with the product named.
Divided(a, b, q, r, p) ==
    q = a \div b /\ r = a % b /\ r < b /\ p = q * b /\ q <= p /\ a = p + r
LEMMA DivMod ==
    ASSUME NEW a \in Nat, NEW b \in Nat \ {0}
    PROVE  \E q, r, p \in Nat : Divided(a, b, q, r, p)
  <1>1. a \div b \in Nat /\ a % b \in 0..b - 1 /\ a = b * (a \div b) + (a % b)
    OBVIOUS
  <1>2. PICK q \in Nat, r \in Nat : q = a \div b /\ r = a % b
    BY <1>1
  <1>3. a = b * q + r /\ r < b
    BY <1>1, <1>2
  <1>4. b * q = q * b
    OBVIOUS
  <1>5. PICK c \in Nat : b = c + 1
    <2>1. b - 1 \in Nat /\ b = (b - 1) + 1
      OBVIOUS
    <2> QED BY <2>1
  <1>6. PICK x \in Nat : x = q * c
    OBVIOUS
  <1>7. q * b = x + q
    <2>1. q * (c + 1) = q * c + q
      OBVIOUS
    <2> QED BY <1>5, <1>6, <2>1
  <1>8. PICK p \in Nat : p = x + q
    OBVIOUS
  <1>9. p = q * b /\ q <= p /\ a = p + r
    BY <1>3, <1>4, <1>7, <1>8
  <1>10. Divided(a, b, q, r, p)
    BY <1>2, <1>3, <1>9 DEF Divided
  <1> QED BY <1>10

\* A quotient stays below the other factor of what the dividend stays below.
LEMMA QuotientBelow ==
    ASSUME NEW q \in Nat, NEW r \in Nat, NEW b \in Nat, NEW d \in Nat,
           q * b + r < b * d
    PROVE  q < d
  <1> SUFFICES ASSUME ~(q < d) PROVE FALSE
    OBVIOUS
  <1>1. PICK e \in Nat : q = d + e
    <2>1. q - d \in Nat /\ q = d + (q - d)
      OBVIOUS
    <2> QED BY <2>1
  <1>2. (d + e) * b = b * d + b * e
    OBVIOUS
  <1>3. PICK x \in Nat, y \in Nat : x = b * d /\ y = b * e
    OBVIOUS
  <1>4. q * b = x + y
    BY <1>1, <1>2, <1>3
  <1> QED BY <1>3, <1>4

\* Every element of the buffer is that of some index.
LEMMA PlaceOnto ==
    ASSUME NEW shape \in Seq(Nat), NEW k \in 0..Numel(shape) - 1
    PROVE  \E idx \in Indices(shape) : Place(shape, idx) = k
  <1>1. PICK u : Spans(u, shape)
    BY SpansExist
  <1>2. PICK n \in Nat : n = Len(shape) /\ DOMAIN shape = 1..n
    OBVIOUS
  <1>3. u \in [0..n -> Nat] /\ u[n] = 1 /\ u[0] = Numel(shape)
    BY <1>1, <1>2 DEF Spans
  <1>4. \A i \in 1..n : u[i - 1] = u[i] * shape[i]
    BY <1>1, <1>2 DEF Spans
  <1>5. u[0] \in Nat /\ k \in Nat /\ k < u[0]
    BY <1>3
  <1>6. \A i \in 0..n : u[i] # 0
    <2> DEFINE T == {i \in 0..n : u[i] # 0}
    <2>1. 0 \in T
      BY <1>5
    <2>2. ASSUME NEW i \in 1..n, i - 1 \in T PROVE i \in T
      <3>1. shape[i] \in Nat
        BY <1>2
      <3>2. 0 * shape[i] = 0
        BY <3>1
      <3>3. u[i - 1] = u[i] * shape[i] /\ u[i - 1] # 0
        BY <1>4, <2>2
      <3> QED BY <3>2, <3>3
    <2>3. \A i \in 1..n : i - 1 \in T => i \in T
      BY <2>2
    <2>4. \A i \in 0..n : i \in T
      <3> HIDE DEF T
      <3> QED BY <2>1, <2>3, UpTo
    <2> QED BY <2>4
  <1>7. PICK g : g = [i \in 1..n |-> [x \in Nat |-> x % u[i]]]
    OBVIOUS
  <1>8. g \in [1..n -> [Nat -> Nat]] /\ \A i \in 1..n, x \in Nat : g[i][x] = x % u[i]
    <2>1. ASSUME NEW i \in 1..n, NEW x \in Nat PROVE x % u[i] \in Nat
      <3>1. PICK v \in Nat \ {0} : v = u[i]
        BY <1>3, <1>6
      <3>2. x % v \in Nat
        BY DivMod DEF Divided
      <3> QED BY <3>1, <3>2
    <2>2. \A i \in 1..n : [x \in Nat |-> x % u[i]] \in [Nat -> Nat]
      BY <2>1
    <2> QED BY <1>7, <2>2
  <1>9. PICK r \in [0..n -> Nat] : Loop(r, n, k, g)
    BY <1>5, <1>8, Recursion
  <1>10. PICK idx : idx = [i \in 1..n |-> r[i - 1] \div u[i]]
    OBVIOUS
  <1>11. ASSUME NEW i \in 1..n
         PROVE  /\ r[i - 1] \in Nat /\ idx[i] \in Nat /\ r[i] \in Nat /\ u[i] \in Nat
                /\ r[i] < u[i]
                /\ \E p \in Nat : p = idx[i] * u[i] /\ r[i - 1] = p + r[i] /\ idx[i] <= p
    <2>1. PICK v \in Nat \ {0} : v = u[i]
      BY <1>3, <1>6
    <2>2. PICK x \in Nat : x = r[i - 1]
      OBVIOUS
    <2>3. r[i] = x % v
      BY <1>8, <1>9, <2>1, <2>2 DEF Loop
    <2>4. idx[i] = x \div v
      BY <1>10, <2>1, <2>2
    <2>5. PICK q \in Nat, s \in Nat, p \in Nat : Divided(x, v, q, s, p)
      BY DivMod
    <2>6. q = idx[i] /\ s = r[i]
      BY <2>3, <2>4, <2>5 DEF Divided
    <2>7. s < v /\ p = q * v /\ q <= p /\ x = p + s
      BY <2>5 DEF Divided
    <2> QED BY <2>1, <2>2, <2>6, <2>7
  <1>12. ASSUME NEW i \in 1..n PROVE idx[i] <= r[i - 1] /\ r[i] <= r[i - 1]
    <2>1. PICK p \in Nat : r[i - 1] = p + r[i] /\ idx[i] <= p
      BY <1>11
    <2> QED BY <1>11, <2>1
  <1>13. \A i \in 0..n : r[i] <= k
    <2> DEFINE T == {i \in 0..n : r[i] <= k}
    <2>1. 0 \in T
      BY <1>5, <1>9 DEF Loop
    <2>2. ASSUME NEW i \in 1..n, i - 1 \in T PROVE i \in T
      BY <1>5, <1>11, <1>12, <2>2
    <2>3. \A i \in 1..n : i - 1 \in T => i \in T
      BY <2>2
    <2>4. \A i \in 0..n : i \in T
      <3> HIDE DEF T
      <3> QED BY <2>1, <2>3, UpTo
    <2> QED BY <2>4
  <1>14. idx \in Indices(shape)
    <2>1. ASSUME NEW i \in 1..n PROVE idx[i] \in 0..Numel(shape)
      <3>1. i - 1 \in 0..n
        OBVIOUS
      <3>2. idx[i] <= r[i - 1] /\ r[i - 1] <= k
        BY <1>12, <1>13, <3>1
      <3>3. idx[i] \in Nat /\ r[i - 1] \in Nat
        BY <1>11
      <3>4. k \in Nat /\ Numel(shape) \in Nat /\ k < Numel(shape)
        BY <1>3, <1>5
      <3> QED BY <3>2, <3>3, <3>4
    <2>2. ASSUME NEW i \in 1..n PROVE idx[i] < shape[i]
      <3>1. r[i - 1] < u[i - 1]
        <4>1. CASE i = 1
          BY <1>5, <1>9, <4>1 DEF Loop
        <4>2. CASE i # 1
          <5>1. i - 1 \in 1..n
            BY <4>2
          <5> QED BY <1>11, <5>1
        <4> QED BY <4>1, <4>2
      <3>2. PICK q \in Nat, s \in Nat, b \in Nat, d \in Nat :
              q = idx[i] /\ s = r[i] /\ b = u[i] /\ d = shape[i]
        <4>1. shape[i] \in Nat /\ u[i] \in Nat
          BY <1>2, <1>3
        <4> QED BY <1>11, <4>1
      <3>3. r[i - 1] = q * b + s
        BY <1>11, <3>2
      <3>4. u[i - 1] = b * d
        BY <1>4, <3>2
      <3>5. q * b + s < b * d
        BY <3>1, <3>3, <3>4
      <3> QED BY <3>2, <3>5, QuotientBelow
    <2>3. idx \in [1..n -> 0..Numel(shape)]
      BY <1>10, <2>1
    <2> QED BY <1>2, <2>2, <2>3 DEF Indices
  <1>15. PICK f : Sums(f, u, idx, n) /\ Place(shape, idx) = f[n]
    BY <1>1, <1>2, <1>14, IndexTyped, PlaceRuns
  <1>16. \A i \in 0..n : f[i] + r[i] = k
    <2> DEFINE T == {i \in 0..n : f[i] + r[i] = k}
    <2>1. 0 \in T
      BY <1>5, <1>9, <1>15 DEF Loop, Sums
    <2>2. ASSUME NEW i \in 1..n, i - 1 \in T PROVE i \in T
      <3>1. f[i - 1] \in Nat /\ f[i] \in Nat
        <4>1. i - 1 \in 0..n /\ i \in 0..n
          OBVIOUS
        <4> QED BY <1>15, <4>1 DEF Sums
      <3>2. PICK p \in Nat : p = idx[i] * u[i] /\ r[i - 1] = p + r[i]
        BY <1>11
      <3>3. f[i] = f[i - 1] + p
        BY <1>15, <3>2 DEF Sums
      <3>4. f[i - 1] + r[i - 1] = k
        BY <2>2
      <3>5. PICK b \in Nat, s \in Nat : b = f[i - 1] /\ s = r[i]
        BY <1>11, <3>1
      <3>6. f[i] + r[i] = (b + p) + s /\ b + (p + s) = k
        BY <3>2, <3>3, <3>4, <3>5, Zenon
      <3>7. (b + p) + s = b + (p + s)
        OBVIOUS
      <3>8. f[i] + r[i] = k
        BY <3>6, <3>7, Zenon
      <3> QED BY <3>8
    <2>3. \A i \in 1..n : i - 1 \in T => i \in T
      BY <2>2
    <2>4. \A i \in 0..n : i \in T
      <3> HIDE DEF T
      <3> QED BY <2>1, <2>3, UpTo
    <2> QED BY <2>4
  <1>17. f[n] = k
    <2>1. f[n] + r[n] = k /\ f[n] \in Nat
      BY <1>15, <1>16 DEF Sums
    <2>2. r[n] = 0
      <3>1. CASE n = 0
        BY <1>3, <1>5, <1>9, <3>1 DEF Loop
      <3>2. CASE n # 0
        <4>1. n \in 1..n
          BY <3>2
        <4>2. r[n] < u[n]
          BY <1>11, <4>1
        <4>3. r[n] \in Nat /\ u[n] = 1
          BY <1>3, <1>9
        <4> QED BY <4>2, <4>3
      <3> QED BY <3>1, <3>2
    <2> QED BY <2>1, <2>2
  <1> QED BY <1>14, <1>15, <1>17

\* The position in row-major order is the offset.
LEMMA RankIsPlace ==
    ASSUME NEW shape \in Shapes, shape \in Seq(Nat), NEW idx \in Indices(shape)
    PROVE  Rank[shape][idx] = Place(shape, idx)
  <1>1. PICK m \in Nat : m = Place(shape, idx) /\ m < Numel(shape)
    <2>1. PICK m : m = Place(shape, idx)
      OBVIOUS
    <2>2. m \in 0..Numel(shape) - 1
      BY <2>1, PlaceBounded
    <2>3. Numel(shape) \in Nat
      BY NumelRuns
    <2> QED BY <2>1, <2>2, <2>3
  <1>2. PICK S : S = {j \in Indices(shape) : Before(j, idx)}
    OBVIOUS
  <1>3. \A j \in S : Place(shape, j) \in 0..m - 1
    <2> TAKE j \in S
    <2>1. j \in Indices(shape) /\ Before(j, idx)
      BY <1>2
    <2>2. Place(shape, j) < m
      BY <1>1, <2>1, PlaceOrdered
    <2>3. Place(shape, j) \in 0..Numel(shape) - 1
      BY <2>1, PlaceBounded
    <2> QED BY <2>2, <2>3
  <1>4. \A k \in 0..m - 1 : \E j \in S : Place(shape, j) = k
    <2> TAKE k \in 0..m - 1
    <2>1. k \in 0..Numel(shape) - 1
      <3>1. Numel(shape) \in Nat
        BY NumelRuns
      <3> QED BY <1>1, <3>1
    <2>2. PICK j \in Indices(shape) : Place(shape, j) = k
      BY <2>1, PlaceOnto
    <2>3. j # idx /\ ~(Place(shape, idx) < Place(shape, j))
      BY <1>1, <2>2
    <2>4. Before(j, idx)
      BY <2>3, BeforeTotal, PlaceOrdered
    <2> QED BY <1>2, <2>2, <2>4
  <1>5. PICK f : f = [j \in S |-> Place(shape, j)]
    OBVIOUS
  <1>6. f \in Bijection(S, 0..m - 1)
    <2>1. f \in [S -> 0..m - 1]
      BY <1>3, <1>5
    <2>2. ASSUME NEW a \in S, NEW b \in S, a # b PROVE f[a] # f[b]
      <3>1. a \in Indices(shape) /\ b \in Indices(shape)
        BY <1>2
      <3>2. Place(shape, a) < Place(shape, b) \/ Place(shape, b) < Place(shape, a)
        BY <2>2, <3>1, BeforeTotal, PlaceOrdered
      <3>3. Place(shape, a) \in 0..m - 1 /\ Place(shape, b) \in 0..m - 1
        BY <1>3
      <3> QED BY <1>5, <3>2, <3>3
    <2>3. \A k \in 0..m - 1 : \E j \in S : f[j] = k
      BY <1>4, <1>5
    <2> QED BY <2>1, <2>2, <2>3, Fun_IsBij
  <1>7. ExistsBijection(0..m - 1, S)
    <2>1. ExistsBijection(S, 0..m - 1)
      BY <1>6 DEF ExistsBijection
    <2> QED BY <2>1, Fun_ExistsBijSymmetric
  <1>8. IsFiniteSet(0..m - 1) /\ Cardinality(0..m - 1) = m
    <2>1. 0 \in Int /\ m - 1 \in Int /\ (0 > m - 1 => m = 0)
      OBVIOUS
    <2> QED BY <2>1, FS_Interval
  <1>9. Cardinality(S) = m
    BY <1>7, <1>8, FS_Bijection
  <1>10. Rank[shape][idx] = Cardinality(S)
    BY <1>2 DEF Rank
  <1> QED BY <1>1, <1>9, <1>10

-----------------------------------------------------------------------------
(* What the arrays stand for *)

\* The contents of a buffer, read through the strides of a shape, are an array.
Stands(shape, stride, contents, v) ==
    /\ shape \in Shapes /\ stride = Strides(shape)
    /\ contents = [k \in 0..Numel(shape) - 1 |-> contents[k]]
    /\ v = [idx \in Indices(shape) |-> contents[Place(shape, idx)]]

\* A variable with a buffer stands for its array.
Good(s) ==
    Data(s) \in Buffer =>
        Stands(object[s].shape, object[s].stride, heap[Data(s)], value[s])

ArraysStand == \A s \in Slot \ torn : Good(s)

AreFunctions == /\ heap = [b \in DOMAIN heap |-> heap[b]]
              /\ value = [s \in Slot |-> value[s]]

VInv == IInv /\ AreFunctions /\ ArraysStand

\* A variable keeps its array if neither it nor its buffer is touched.
LEMMA OthersStand ==
    ASSUME VInv, NEW S, torn \ S \subseteq torn',
           \A o \in Slot \ torn : o \notin S =>
              /\ object'[o] = object[o] /\ value'[o] = value[o]
              /\ Data(o) \in Buffer => heap'[Data(o)] = heap[Data(o)],
           \A o \in Slot \ torn' : o \in S => Good(o)'
    PROVE  ArraysStand'
  <1>1. ASSUME NEW o \in Slot \ torn', o \notin S PROVE Good(o)'
    <2>1. o \in Slot \ torn /\ Good(o)
      BY <1>1 DEF VInv, ArraysStand
    <2>2. object'[o] = object[o] /\ value'[o] = value[o]
      BY <1>1, <2>1
    <2>3. Data(o) \in Buffer => heap'[Data(o)] = heap[Data(o)]
      BY <1>1, <2>1
    <2> QED BY <2>1, <2>2, <2>3 DEF Good, Data
  <1>2. \A o \in Slot \ torn' : Good(o)'
    BY <1>1
  <1> QED BY <1>2 DEF ArraysStand

\* The heap without the buffer of a variable.
LEMMA FreedHeap ==
    ASSUME VInv, NEW d
    PROVE  /\ Freed(heap, d) = [b \in DOMAIN heap \ {d} |-> heap[b]]
           /\ d \notin DOMAIN heap => Freed(heap, d) = heap
  BY DEF Freed, Restrict, VInv, AreFunctions

\* What another variable holds is not what s holds.
LEMMA NotHeldTwice ==
    ASSUME VInv, NEW s \in Slot \ torn, NEW o \in Slot \ torn, o # s, Data(o) \in Buffer
    PROVE  Data(o) \in DOMAIN heap /\ Data(o) # Data(s)
  BY TensorAssumption DEF VInv, IInv, NoneDangles, NoneShared

\* A variable gives back its buffer, if it has one, and gets a new one whose
\* contents stand for its new array.
LEMMA TakesBuffer ==
    ASSUME VInv, NEW s \in Slot \ torn, torn' = torn, NEW b, NEW c, NEW v,
           NEW shape, NEW stride, NEW tensor,
           tensor = [data |-> b, shape |-> shape, stride |-> stride],
           b \notin DOMAIN heap \ {Data(s)},
           heap' = Allocated(Freed(heap, Data(s)), b, c),
           object' = [object EXCEPT ![s] = tensor],
           value' = [value EXCEPT ![s] = v],
           Stands(shape, stride, c, v)
    PROVE  AreFunctions' /\ ArraysStand'
  <1>1. Freed(heap, Data(s)) = [x \in DOMAIN heap \ {Data(s)} |-> heap[x]]
    BY FreedHeap
  <1>2. heap' = [x \in (DOMAIN heap \ {Data(s)}) \cup {b} |->
                   IF x = b THEN c ELSE heap[x]]
    BY <1>1 DEF Allocated
  <1>3. AreFunctions'
    BY <1>2 DEF AreFunctions, VInv
  <1>4. object'[s] = tensor /\ value'[s] = v
    BY DEF VInv, IInv, Typed, AreFunctions
  <1>5. \A o \in Slot \ torn : o \notin {s} =>
          /\ object'[o] = object[o] /\ value'[o] = value[o]
          /\ Data(o) \in Buffer => heap'[Data(o)] = heap[Data(o)]
    <2> TAKE o \in Slot \ torn
    <2> HAVE o \notin {s}
    <2>1. object'[o] = object[o] /\ value'[o] = value[o]
      BY DEF VInv, IInv, Typed, AreFunctions
    <2>2. ASSUME Data(o) \in Buffer PROVE heap'[Data(o)] = heap[Data(o)]
      <3>1. Data(o) \in DOMAIN heap /\ Data(o) # Data(s)
        BY <2>2, NotHeldTwice
      <3> QED BY <1>2, <3>1
    <2> QED BY <2>1, <2>2
  <1>6. heap'[b] = c
    BY <1>2
  <1>7. Good(s)'
    BY <1>4, <1>6 DEF Good, Data
  <1>8. \A o \in Slot \ torn' : o \in {s} => Good(o)'
    BY <1>7
  <1>9. ArraysStand'
    BY <1>5, <1>8, OthersStand
  <1> QED BY <1>3, <1>9

\* A variable gives back its buffer, if it has one, and has none.
LEMMA DropsBuffer ==
    ASSUME VInv, NEW s \in Slot \ torn, torn' = torn, NEW tensor, NEW v,
           tensor.data \notin Buffer,
           heap' = Freed(heap, Data(s)),
           object' = [object EXCEPT ![s] = tensor],
           value' = [value EXCEPT ![s] = v]
    PROVE  AreFunctions' /\ ArraysStand'
  <1>1. heap' = [x \in DOMAIN heap \ {Data(s)} |-> heap[x]]
    BY FreedHeap
  <1>2. AreFunctions'
    BY <1>1 DEF AreFunctions, VInv
  <1>3. \A o \in Slot \ torn : o \notin {s} =>
          /\ object'[o] = object[o] /\ value'[o] = value[o]
          /\ Data(o) \in Buffer => heap'[Data(o)] = heap[Data(o)]
    <2> TAKE o \in Slot \ torn
    <2> HAVE o \notin {s}
    <2>1. object'[o] = object[o] /\ value'[o] = value[o]
      BY DEF VInv, IInv, Typed, AreFunctions
    <2>2. ASSUME Data(o) \in Buffer PROVE heap'[Data(o)] = heap[Data(o)]
      <3>1. Data(o) \in DOMAIN heap /\ Data(o) # Data(s)
        BY <2>2, NotHeldTwice
      <3> QED BY <1>1, <3>1
    <2> QED BY <2>1, <2>2
  <1>4. Good(s)'
    <2>1. object'[s] = tensor
      BY DEF VInv, IInv, Typed
    <2> QED BY <2>1 DEF Good, Data
  <1>5. \A o \in Slot \ torn' : o \in {s} => Good(o)'
    BY <1>4
  <1>6. ArraysStand'
    BY <1>3, <1>5, OthersStand
  <1> QED BY <1>2, <1>6

\* A variable gives back its buffer, if it has one, and takes over the buffer
\* and the array of another.
LEMMA TakesOver ==
    ASSUME VInv, NEW s \in Slot \ torn, NEW o \in Slot, s # o, torn' = MovedTorn(s, o),
           heap' = Freed(heap, Data(s)),
           object' = Moved(s, o), value' = MovedValue(s, o)
    PROVE  AreFunctions' /\ ArraysStand'
  <1>1. heap' = [x \in DOMAIN heap \ {Data(s)} |-> heap[x]]
    BY FreedHeap
  <1>2. AreFunctions'
    BY <1>1 DEF AreFunctions, VInv, MovedValue
  <1>3. \A u \in Slot \ torn : u \notin {s, o} =>
          /\ object'[u] = object[u] /\ value'[u] = value[u]
          /\ Data(u) \in Buffer => heap'[Data(u)] = heap[Data(u)]
    <2> TAKE u \in Slot \ torn
    <2> HAVE u \notin {s, o}
    <2>1. object'[u] = object[u] /\ value'[u] = value[u]
      BY DEF VInv, IInv, Typed, AreFunctions, Moved, MovedValue
    <2>2. ASSUME Data(u) \in Buffer PROVE heap'[Data(u)] = heap[Data(u)]
      <3>1. Data(u) \in DOMAIN heap /\ Data(u) # Data(s)
        BY <2>2, NotHeldTwice
      <3> QED BY <1>1, <3>1
    <2> QED BY <2>1, <2>2
  <1>4. Good(o)'
    <2>1. object'[o].data = Null
      BY DEF VInv, IInv, Typed, Moved, Empty
    <2> QED BY <2>1, TensorAssumption DEF Good, Data
  <1>5. o \notin torn => Good(s)'
    <2> SUFFICES ASSUME o \notin torn PROVE Good(s)'
      OBVIOUS
    <2>1. object'[s] = object[o] /\ value'[s] = value[o]
      BY DEF VInv, IInv, Typed, AreFunctions, Moved, MovedValue
    <2>2. ASSUME Data(o) \in Buffer PROVE heap'[Data(o)] = heap[Data(o)]
      <3>1. Data(o) \in DOMAIN heap /\ Data(o) # Data(s)
        BY <2>2, NotHeldTwice
      <3> QED BY <1>1, <3>1
    <2>3. Good(o)
      BY DEF VInv, ArraysStand
    <2> QED BY <2>1, <2>2, <2>3 DEF Good, Data
  <1>6. /\ torn \ {s, o} \subseteq torn'
        /\ \A u \in Slot \ torn' : u \in {s, o} => Good(u)'
    BY <1>4, <1>5 DEF MovedTorn
  <1>7. ArraysStand'
    BY <1>3, <1>6, OthersStand
  <1> QED BY <1>2, <1>7

\* Where the elements of a new array are, they are what the fill left there.
LEMMA ZerosStand ==
    ASSUME NEW shape \in Shapes, NEW v
    PROVE  Stands(shape, Strides(shape), Zeros(shape, v), Constant(shape, v))
  <1>1. shape \in Seq(Nat)
    BY TensorAssumption
  <1>2. \A idx \in Indices(shape) : Zeros(shape, v)[Place(shape, idx)] = v
    BY <1>1, PlaceBounded DEF Zeros
  <1>3. Constant(shape, v)
          = [idx \in Indices(shape) |-> Zeros(shape, v)[Place(shape, idx)]]
    BY <1>2 DEF Constant
  <1>4. Zeros(shape, v) = [k \in 0..Numel(shape) - 1 |-> Zeros(shape, v)[k]]
    BY DEF Zeros
  <1> QED BY <1>3, <1>4 DEF Stands

\* What memcpy copies of a whole tensor stands for the same array.
LEMMA CopiedStands ==
    ASSUME VInv, NEW o \in Slot, Held(o), object[o].data \in DOMAIN heap
    PROVE  Stands(object[o].shape, object[o].stride, Copied(o), value[o])
  <1>1. Data(o) \in Buffer /\ o \in Slot \ torn
    BY DEF VInv, IInv, Typed, TornDangle, Data
  <1>2. Stands(object[o].shape, object[o].stride, heap[Data(o)], value[o])
    BY <1>1 DEF VInv, ArraysStand, Good
  <1>3. Copied(o) = heap[Data(o)]
    BY <1>2 DEF Copied, Stands, Data
  <1> QED BY <1>2, <1>3

\* An array with its elements in row-major order under another shape is what
\* the same buffer holds under the strides of that shape.
LEMMA RearrangedStands ==
    ASSUME NEW s \in Slot, NEW c, NEW shape \in Shapes,
           Stands(object[s].shape, object[s].stride, c, value[s]),
           Numel(object[s].shape) = Numel(shape)
    PROVE  Stands(shape, Strides(shape), c, Rearranged(s, shape))
  <1>1. PICK old \in Shapes : old = object[s].shape
    BY DEF Stands
  <1>2. old \in Seq(Nat) /\ shape \in Seq(Nat) /\ Numel(old) = Numel(shape)
    BY <1>1, TensorAssumption
  <1>3. value[s] = [j \in Indices(old) |-> c[Place(old, j)]]
    BY <1>1 DEF Stands
  <1>4. ASSUME NEW idx \in Indices(shape)
        PROVE  Rearranged(s, shape)[idx] = c[Place(shape, idx)]
    <2>1. Rearranged(s, shape)[idx]
            = value[s][CHOOSE j \in Indices(old) : Rank[old][j] = Rank[shape][idx]]
      BY <1>1 DEF Rearranged
    <2>2. Rank[shape][idx] = Place(shape, idx)
      BY <1>2, RankIsPlace
    <2>3. PICK k : k = Place(shape, idx) /\ k \in 0..Numel(old) - 1
      BY <1>2, PlaceBounded
    <2>4. \A j \in Indices(old) : Rank[old][j] = Place(old, j)
      BY <1>2, RankIsPlace
    <2>5. \E j \in Indices(old) : Rank[old][j] = Rank[shape][idx]
      <3>1. PICK j \in Indices(old) : Place(old, j) = k
        BY <1>2, <2>3, PlaceOnto
      <3> QED BY <2>2, <2>3, <2>4, <3>1
    <2>6. PICK i \in Indices(old) :
            /\ Rank[old][i] = Rank[shape][idx]
            /\ Rearranged(s, shape)[idx] = value[s][i]
      BY <2>1, <2>5
    <2>7. Place(old, i) = Place(shape, idx)
      BY <2>2, <2>4, <2>6
    <2> QED BY <1>3, <2>6, <2>7
  <1>5. Rearranged(s, shape) = [idx \in Indices(shape) |-> Rearranged(s, shape)[idx]]
    BY DEF Rearranged
  <1>6. Rearranged(s, shape) = [idx \in Indices(shape) |-> c[Place(shape, idx)]]
    BY <1>4, <1>5
  <1>7. c = [k \in 0..Numel(shape) - 1 |-> c[k]]
    BY <1>1, <1>2 DEF Stands
  <1> QED BY <1>6, <1>7 DEF Stands

\* Two indices of a shape are not at one place.
LEMMA PlaceInjective ==
    ASSUME NEW shape \in Seq(Nat), NEW a \in Indices(shape), NEW b \in Indices(shape),
           a # b
    PROVE  Place(shape, a) # Place(shape, b)
  <1>1. Place(shape, a) \in Int /\ Place(shape, b) \in Int
    BY PlaceBounded
  <1>2. Place(shape, a) < Place(shape, b) \/ Place(shape, b) < Place(shape, a)
    BY BeforeTotal, PlaceOrdered
  <1> QED BY <1>1, <1>2

\* A store changes one element of the array.
LEMMA StoredStands ==
    ASSUME NEW shape, NEW stride, NEW c, NEW w, Stands(shape, stride, c, w),
           NEW idx \in Indices(shape), NEW v
    PROVE  Stands(shape, stride, [c EXCEPT ![Place(shape, idx)] = v],
                  [w EXCEPT ![idx] = v])
  <1>1. shape \in Seq(Nat)
    BY TensorAssumption DEF Stands
  <1>2. PICK n : n = Place(shape, idx) /\ n \in 0..Numel(shape) - 1
    BY <1>1, PlaceBounded
  <1>3. PICK d : d = [c EXCEPT ![n] = v]
    OBVIOUS
  <1>4. d = [k \in 0..Numel(shape) - 1 |-> IF k = n THEN v ELSE c[k]]
    BY <1>2, <1>3 DEF Stands
  <1>5. [w EXCEPT ![idx] = v]
          = [j \in Indices(shape) |-> IF j = idx THEN v ELSE c[Place(shape, j)]]
    BY DEF Stands
  <1>6. \A j \in Indices(shape) :
          d[Place(shape, j)] = IF j = idx THEN v ELSE c[Place(shape, j)]
    <2> TAKE j \in Indices(shape)
    <2>1. Place(shape, j) \in 0..Numel(shape) - 1
      BY <1>1, PlaceBounded
    <2>2. j # idx => Place(shape, j) # n
      BY <1>1, <1>2, PlaceInjective
    <2> QED BY <1>2, <1>4, <2>1, <2>2
  <1>7. [w EXCEPT ![idx] = v] = [j \in Indices(shape) |-> d[Place(shape, j)]]
    BY <1>5, <1>6
  <1>8. d = [k \in 0..Numel(shape) - 1 |-> d[k]]
    BY <1>4
  <1> QED BY <1>2, <1>3, <1>7, <1>8 DEF Stands

\* ptr and at take the strides of the tensor.
LEMMA OffsetIsPlace ==
    ASSUME NEW o, NEW shape, o.shape = shape, o.stride = Strides(shape), NEW idx
    PROVE  Offset(o, idx) = Place(shape, idx)
  <1>1. PICK r : r = [shape |-> shape, stride |-> Strides(shape)]
    OBVIOUS
  <1>2. r.shape = o.shape /\ r.stride = o.stride
    BY <1>1
  <1>3. Offset(r, idx) = Offset(o, idx)
    BY <1>2 DEF Offset
  <1> QED BY <1>1, <1>3 DEF Place

\* Every operation keeps the arrays.
LEMMA ArraysNext == VInv /\ [Next]_vars => VInv'
  <1> SUFFICES ASSUME VInv, [Next]_vars PROVE VInv'
    OBVIOUS
  <1>0. IInv' /\ IInv
    BY InvNext DEF VInv
  <1> SUFFICES AreFunctions' /\ ArraysStand'
    BY <1>0 DEF VInv
  <1>1. ASSUME UNCHANGED <<object, heap, torn, value>> PROVE AreFunctions' /\ ArraysStand'
    <2>1. AreFunctions'
      BY <1>1 DEF VInv, AreFunctions
    <2>2. ArraysStand'
      BY <1>1 DEF VInv, ArraysStand, Good, Data
    <2> QED BY <2>1, <2>2
  <1>2. ASSUME NEW s \in Slot, ~Held(s)
        PROVE  s \in Slot \ torn /\ Data(s) \notin DOMAIN heap /\ Freed(heap, Data(s)) = heap
    BY <1>0, <1>2, NotTorn, FreedHeap, TensorAssumption DEF Held, Data, IInv, Typed
  <1>3. ASSUME NEW s \in Slot, NEW shape \in Shapes, NEW v \in Values,
               Construct(s, shape, v)
        PROVE  AreFunctions' /\ ArraysStand'
    <2>1. CASE UNCHANGED <<object, heap, torn, value>>
      BY <1>1, <2>1
    <2>2. ASSUME NEW b \in Free, heap' = Allocated(heap, b, Zeros(shape, v)),
                 object' = [object EXCEPT ![s] =
                              [data |-> b, shape |-> shape, stride |-> Strides(shape)]],
                 value' = [value EXCEPT ![s] = Constant(shape, v)], torn' = torn
          PROVE  AreFunctions' /\ ArraysStand'
      <3>1. s \in Slot \ torn /\ Freed(heap, Data(s)) = heap
        BY <1>2, <1>3 DEF Construct
      <3>2. PICK tensor : tensor = [data |-> b, shape |-> shape, stride |-> Strides(shape)]
        OBVIOUS
      <3>3. b \notin DOMAIN heap \ {Data(s)}
        BY DEF Free
      <3>4. Stands(shape, Strides(shape), Zeros(shape, v), Constant(shape, v))
        BY ZerosStand
      <3>5. PICK stride, c, w :
              stride = Strides(shape) /\ c = Zeros(shape, v) /\ w = Constant(shape, v)
        OBVIOUS
      <3>6. /\ heap' = Allocated(Freed(heap, Data(s)), b, c)
            /\ object' = [object EXCEPT ![s] = tensor]
            /\ value' = [value EXCEPT ![s] = w]
            /\ tensor = [data |-> b, shape |-> shape, stride |-> stride]
            /\ Stands(shape, stride, c, w)
        BY <2>2, <3>1, <3>2, <3>4, <3>5
      <3> QED BY <2>2, <3>1, <3>3, <3>6, TakesBuffer
    <2> QED BY <1>3, <2>1, <2>2 DEF Construct, MallocFails, Undefined, Throws
  <1>4. ASSUME NEW s \in Slot, Default(s) PROVE AreFunctions' /\ ArraysStand'
    <2>1. s \in Slot \ torn /\ Freed(heap, Data(s)) = heap
      BY <1>2, <1>4 DEF Default
    <2>2. PICK v : value' = [value EXCEPT ![s] = v]
      BY <1>4 DEF Default
    <2>3. Empty.data \notin Buffer
      BY TensorAssumption DEF Empty
    <2> QED BY <1>4, <2>1, <2>2, <2>3, DropsBuffer DEF Default
  <1>5. ASSUME NEW s \in Slot, Destroy(s) PROVE AreFunctions' /\ ArraysStand'
    <2>1. CASE s \in torn
      BY <1>0, <1>1, <1>5, <2>1, WhoDangles DEF Destroy, Undefined
    <2>2. CASE s \notin torn
      <3>1. PICK v : value' = [value EXCEPT ![s] = v]
        BY <1>0, <1>5, <2>2, WhoDangles DEF Destroy
      <3>2. Absent.data \notin Buffer
        BY TensorAssumption DEF Absent, Empty
      <3>3. /\ heap' = Freed(heap, Data(s)) /\ torn' = torn
            /\ object' = [object EXCEPT ![s] = Absent]
        BY <1>0, <1>5, <2>2, WhoDangles DEF Destroy, Data
      <3> QED BY <2>2, <3>1, <3>2, <3>3, DropsBuffer
    <2> QED BY <2>1, <2>2
  <1>6. ASSUME NEW s \in Slot \ torn, NEW o \in Slot, Held(o),
               object[o].data \in DOMAIN heap, NEW b, b \notin DOMAIN heap \ {Data(s)},
               heap' = Allocated(Freed(heap, Data(s)), b, Copied(o)),
               object' = [object EXCEPT ![s] = [object[o] EXCEPT !.data = b]],
               value' = [value EXCEPT ![s] = value[o]], torn' = torn
        PROVE  AreFunctions' /\ ArraysStand'
    <2>1. PICK shape, stride, c, w :
            shape = object[o].shape /\ stride = object[o].stride /\ c = Copied(o)
            /\ w = value[o]
      OBVIOUS
    <2>2. PICK tensor : tensor = [object[o] EXCEPT !.data = b]
      OBVIOUS
    <2>3. tensor = [data |-> b, shape |-> shape, stride |-> stride]
      BY <1>0, <2>1, <2>2, CopyOf
    <2>4. Stands(shape, stride, c, w)
      BY <1>6, <2>1, CopiedStands
    <2>5. /\ heap' = Allocated(Freed(heap, Data(s)), b, c)
          /\ object' = [object EXCEPT ![s] = tensor]
          /\ value' = [value EXCEPT ![s] = w]
      BY <1>6, <2>1, <2>2
    <2> QED BY <1>6, <2>3, <2>4, <2>5, TakesBuffer
  <1>7. ASSUME NEW s \in Slot, NEW o \in Slot, CopyConstruct(s, o)
        PROVE  AreFunctions' /\ ArraysStand'
    <2>1. CASE UNCHANGED <<object, heap, torn, value>>
      BY <1>1, <2>1
    <2>2. ASSUME NEW b \in Free, object[o].data \in DOMAIN heap, heap' = Allocated(heap, b, Copied(o)),
                 object' = [object EXCEPT ![s] = [object[o] EXCEPT !.data = b]],
                 value' = [value EXCEPT ![s] = value[o]], torn' = torn
          PROVE  AreFunctions' /\ ArraysStand'
      <3>1. s \in Slot \ torn /\ Freed(heap, Data(s)) = heap /\ Held(o)
        BY <1>2, <1>7 DEF CopyConstruct
      <3>2. b \notin DOMAIN heap \ {Data(s)}
        BY DEF Free
      <3>3. heap' = Allocated(Freed(heap, Data(s)), b, Copied(o))
        BY <2>2, <3>1
      <3> QED BY <1>6, <2>2, <3>1, <3>2, <3>3
    <2> QED
      BY <1>7, <2>1, <2>2 DEF CopyConstruct, CopyFails, MallocFails, Undefined, Throws
  <1>8. ASSUME NEW s \in Slot, NEW o \in Slot, MoveConstruct(s, o)
        PROVE  AreFunctions' /\ ArraysStand'
    <2>1. s \in Slot \ torn /\ Freed(heap, Data(s)) = heap /\ s # o
      BY <1>2, <1>8 DEF MoveConstruct
    <2>2. /\ heap' = Freed(heap, Data(s)) /\ torn' = MovedTorn(s, o)
          /\ object' = Moved(s, o) /\ value' = MovedValue(s, o)
      BY <1>8, <2>1 DEF MoveConstruct
    <2> QED BY <2>1, <2>2, TakesOver
  <1>9. ASSUME NEW s \in Slot, NEW o \in Slot, CopyAssign(s, o)
        PROVE  AreFunctions' /\ ArraysStand'
    <2>1. CASE UNCHANGED <<object, heap, torn, value>>
      BY <1>1, <2>1
    <2>2. ASSUME s \notin torn, object[o].data \in DOMAIN heap,
                 NEW b \in Free \cup (Buffer \cap {object[s].data}),
                 heap' = Allocated(Freed(heap, object[s].data), b, Copied(o)),
                 object' = [object EXCEPT ![s] = [object[o] EXCEPT !.data = b]],
                 value' = [value EXCEPT ![s] = value[o]], torn' = torn
          PROVE  AreFunctions' /\ ArraysStand'
      <3>1. Held(o)
        BY <1>9 DEF CopyAssign
      <3>2. b \notin DOMAIN heap \ {Data(s)}
        BY DEF Free, Data
      <3>3. heap' = Allocated(Freed(heap, Data(s)), b, Copied(o))
        BY <2>2 DEF Data
      <3> QED BY <1>6, <2>2, <3>1, <3>2, <3>3
    <2>3. ASSUME s \notin torn, heap' = Freed(heap, object[s].data),
                 torn' = torn \cup {u \in {s} : object[s].data # Null}, value' = value,
                 NEW shape, object' = [object EXCEPT ![s].shape = shape]
          PROVE  AreFunctions' /\ ArraysStand'
      <3>1. heap' = [x \in DOMAIN heap \ {Data(s)} |-> heap[x]]
        BY <2>3, FreedHeap DEF Data
      <3>2. AreFunctions'
        BY <2>3, <3>1 DEF AreFunctions, VInv
      <3>3. \A u \in Slot \ torn : u \notin {s} =>
              /\ object'[u] = object[u] /\ value'[u] = value[u]
              /\ Data(u) \in Buffer => heap'[Data(u)] = heap[Data(u)]
        <4> TAKE u \in Slot \ torn
        <4> HAVE u \notin {s}
        <4>1. object'[u] = object[u] /\ value'[u] = value[u]
          BY <2>3 DEF VInv, IInv, Typed
        <4>2. ASSUME Data(u) \in Buffer PROVE heap'[Data(u)] = heap[Data(u)]
          <5>1. Data(u) \in DOMAIN heap /\ Data(u) # Data(s)
            BY <2>3, <4>2, NotHeldTwice
          <5> QED BY <3>1, <5>1
        <4> QED BY <4>1, <4>2
      <3>4. s \notin torn' => Good(s)'
        <4>1. object'[s].data = object[s].data
          BY <2>3 DEF VInv, IInv, Typed
        <4> QED BY <2>3, <4>1, TensorAssumption DEF Good, Data
      <3>5. torn \ {s} \subseteq torn' /\ \A u \in Slot \ torn' : u \in {s} => Good(u)'
        BY <2>3, <3>4
      <3> QED BY <3>2, <3>3, <3>5, OthersStand
    <2>4. Dangling(s) <=> s \in torn
      BY <1>0, <1>9, WhoDangles DEF CopyAssign
    <2> QED
      BY <1>9, <2>1, <2>2, <2>3, <2>4
      DEF CopyAssign, CopyFails, MallocFails, Undefined, Throws
  <1>10. ASSUME NEW s \in Slot, NEW o \in Slot, MoveAssign(s, o)
         PROVE  AreFunctions' /\ ArraysStand'
    <2>1. CASE s \in torn
      BY <1>0, <1>1, <1>10, <2>1, WhoDangles DEF MoveAssign, Undefined
    <2>2. CASE s \notin torn
      <3>1. ~Dangling(s)
        BY <1>0, <1>10, <2>2, WhoDangles DEF MoveAssign
      <3>2. /\ heap' = Freed(heap, Data(s)) /\ torn' = MovedTorn(s, o) /\ s # o
            /\ object' = Moved(s, o) /\ value' = MovedValue(s, o)
        BY <1>10, <3>1 DEF MoveAssign, Data
      <3> QED BY <2>2, <3>2, TakesOver
    <2> QED BY <2>1, <2>2
  <1>11. ASSUME NEW s \in Slot, NEW shape \in Shapes, Reshape(s, shape)
         PROVE  AreFunctions' /\ ArraysStand'
    <2>1. /\ UNCHANGED <<heap, torn>>
          /\ object' = [object EXCEPT ![s].shape = shape, ![s].stride = Strides(shape)]
          /\ Numel(object[s].shape) = Numel(shape)
      BY <1>11 DEF Reshape
    <2>2. value' = IF object[s].data \notin DOMAIN heap THEN value
                   ELSE [value EXCEPT ![s] = Rearranged(s, shape)]
      BY <1>11 DEF Reshape
    <2>3. AreFunctions'
      BY <2>1, <2>2 DEF VInv, AreFunctions
    <2>4. PICK stride : stride = Strides(shape)
      OBVIOUS
    <2>5. object' = [object EXCEPT ![s].shape = shape, ![s].stride = stride]
      BY <2>1, <2>4
    <2>6. object'[s].data = object[s].data /\ object'[s].shape = shape
          /\ object'[s].stride = stride
      <3>1. PICK old, new :
              old = object[s] /\ new = [old EXCEPT !.shape = shape, !.stride = stride]
        OBVIOUS
      <3>2. object'[s] = new
        BY <2>5, <3>1 DEF VInv, IInv, Typed
      <3>3. PICK d, r, t : old = [data |-> d, shape |-> r, stride |-> t]
        BY <3>1 DEF VInv, IInv, Typed
      <3>4. PICK middle : middle = [old EXCEPT !.shape = shape]
        OBVIOUS
      <3>5. middle = [data |-> d, shape |-> shape, stride |-> t]
        BY <3>3, <3>4
      <3>6. new = [middle EXCEPT !.stride = stride]
        BY <3>1, <3>4
      <3>7. new = [data |-> d, shape |-> shape, stride |-> stride]
        BY <3>5, <3>6
      <3> QED BY <3>1, <3>2, <3>3, <3>7
    <2>7. \A u \in Slot \ torn : u \notin {s} =>
            /\ object'[u] = object[u] /\ value'[u] = value[u]
            /\ Data(u) \in Buffer => heap'[Data(u)] = heap[Data(u)]
      BY <2>1, <2>2, <2>5 DEF VInv, IInv, Typed, AreFunctions
    <2>8. s \notin torn => Good(s)'
      <3>1. SUFFICES ASSUME s \notin torn, Data(s) \in Buffer
                     PROVE  Stands(shape, stride, heap[Data(s)], value'[s])
        BY <2>1, <2>6 DEF Good, Data
      <3>2. value'[s] = Rearranged(s, shape)
        BY <2>2, <3>1, TensorAssumption DEF VInv, IInv, NoneDangles, AreFunctions, Data
      <3>3. Stands(object[s].shape, object[s].stride, heap[Data(s)], value[s])
        BY <2>1, <3>1 DEF VInv, ArraysStand, Good
      <3>4. Stands(shape, Strides(shape), heap[Data(s)], Rearranged(s, shape))
        BY <2>1, <3>3, RearrangedStands
      <3> QED BY <2>4, <3>2, <3>4
    <2>9. torn \ {s} \subseteq torn' /\ \A u \in Slot \ torn' : u \in {s} => Good(u)'
      BY <2>1, <2>8
    <2> QED BY <2>3, <2>7, <2>9, OthersStand
  <1>12. ASSUME NEW s \in Slot, NEW v \in Values, NEW idx \in Indices(object[s].shape),
                Store(s, idx, v)
         PROVE  AreFunctions' /\ ArraysStand'
    <2>1. s \in Slot \ torn /\ Data(s) \in Buffer /\ UNCHANGED <<object, torn>>
      BY <1>0, <1>12 DEF Store, Data, IInv, Typed, TornDangle
    <2>2. Stands(object[s].shape, object[s].stride, heap[Data(s)], value[s])
      BY <2>1 DEF VInv, ArraysStand, Good
    <2>3. PICK n : n = Place(object[s].shape, idx)
      OBVIOUS
    <2>4. Offset(object[s], idx) = n
      BY <2>2, <2>3, OffsetIsPlace DEF Stands
    <2>5. /\ heap' = [heap EXCEPT ![Data(s)][n] = v]
          /\ value' = [value EXCEPT ![s][idx] = v]
      BY <1>12, <2>4 DEF Store, Data
    <2>6. Data(s) \in DOMAIN heap
      BY <2>1, TensorAssumption DEF VInv, IInv, NoneDangles
    <2>7. AreFunctions'
      BY <2>5 DEF VInv, AreFunctions
    <2>8. /\ heap'[Data(s)] = [heap[Data(s)] EXCEPT ![n] = v]
          /\ value'[s] = [value[s] EXCEPT ![idx] = v]
      BY <2>5, <2>6 DEF VInv, AreFunctions
    <2>9. Good(s)'
      <3>1. Stands(object[s].shape, object[s].stride,
                   [heap[Data(s)] EXCEPT ![n] = v], [value[s] EXCEPT ![idx] = v])
        BY <2>2, <2>3, StoredStands
      <3>2. Stands(object[s].shape, object[s].stride, heap'[Data(s)], value'[s])
        BY <2>8, <3>1
      <3> QED BY <2>1, <3>2 DEF Good, Data
    <2>10. \A u \in Slot \ torn : u \notin {s} =>
             /\ object'[u] = object[u] /\ value'[u] = value[u]
             /\ Data(u) \in Buffer => heap'[Data(u)] = heap[Data(u)]
      <3> TAKE u \in Slot \ torn
      <3> HAVE u \notin {s}
      <3>1. object'[u] = object[u] /\ value'[u] = value[u]
        BY <2>1, <2>5 DEF VInv, AreFunctions
      <3>2. ASSUME Data(u) \in Buffer PROVE heap'[Data(u)] = heap[Data(u)]
        <4>1. Data(u) \in DOMAIN heap /\ Data(u) # Data(s)
          BY <2>1, <3>2, NotHeldTwice
        <4> QED BY <2>5, <4>1 DEF VInv, AreFunctions
      <3> QED BY <3>1, <3>2
    <2>11. torn \ {s} \subseteq torn' /\ \A u \in Slot \ torn' : u \in {s} => Good(u)'
      BY <2>1, <2>9
    <2> QED BY <2>7, <2>10, <2>11, OthersStand
  <1>13. CASE UNCHANGED vars
    BY <1>1, <1>13 DEF vars
  <1> QED
    BY <1>3, <1>4, <1>5, <1>7, <1>8, <1>9, <1>10, <1>11, <1>12, <1>13 DEF Next

-----------------------------------------------------------------------------
(* The theorems *)

\* Only what an exception has torn brings the program to freed memory.
Blamed == undefined = "freed" => torn # {}

\* An operation that frees or reads through a dangling pointer does so through
\* one that an exception has left.
LEMMA BlamedNext == IInv /\ Blamed /\ [Next]_vars => Blamed'
  <1> SUFFICES ASSUME IInv, Blamed, [Next]_vars PROVE Blamed'
    OBVIOUS
  <1>1. ASSUME UNCHANGED <<torn, undefined>> PROVE Blamed'
    BY <1>1 DEF Blamed
  <1>2. ASSUME undefined = "none", undefined' = undefined PROVE Blamed'
    BY <1>2 DEF Blamed
  <1>3. ASSUME NEW s \in Slot, Held(s), Dangling(s), Undefined("freed") PROVE Blamed'
    BY <1>3, WhoDangles DEF Blamed, Undefined
  <1>4. ASSUME Undefined("null") PROVE Blamed'
    BY <1>4 DEF Blamed, Undefined
  <1>5. CASE UNCHANGED vars
    BY <1>1, <1>5 DEF vars
  <1>6. CASE undefined = "none" /\ undefined' # undefined /\ Next
    <2>1. ASSUME NEW s \in Slot, NEW shape \in Shapes, NEW v \in Values,
                 Construct(s, shape, v)
          PROVE  Blamed'
      BY <1>4, <1>6, <2>1 DEF Construct, MallocFails
    <2>2. ASSUME NEW s \in Slot, NEW o \in Slot, CopyConstruct(s, o) PROVE Blamed'
      BY <1>3, <1>4, <1>6, <2>2 DEF CopyConstruct, CopyFails, MallocFails
    <2>3. ASSUME NEW s \in Slot, NEW o \in Slot, CopyAssign(s, o) PROVE Blamed'
      BY <1>3, <1>4, <1>6, <2>3 DEF CopyAssign, CopyFails, MallocFails
    <2>4. ASSUME NEW s \in Slot, NEW o \in Slot, MoveAssign(s, o) PROVE Blamed'
      BY <1>3, <1>6, <2>4 DEF MoveAssign
    <2>5. ASSUME NEW s \in Slot, Destroy(s) PROVE Blamed'
      BY <1>3, <1>6, <2>5 DEF Destroy
    <2>6. QED
      BY <1>6, <2>1, <2>2, <2>3, <2>4, <2>5
      DEF Next, Default, MoveConstruct, Reshape, Store
  <1>7. QED
    BY <1>2, <1>5, <1>6 DEF Next

\* The invariant holds in every state.
THEOREM Invariant == Spec => [](VInv /\ Blamed)
  <1>1. Init => VInv /\ Blamed
    <2> SUFFICES ASSUME Init PROVE VInv /\ Blamed
      OBVIOUS
    <2>1. IInv
      BY TensorAssumption
      DEF Init, IInv, Typed, TornDangle, NoneDangles, NoneLeaks, NoneShared, Data, Absent,
          Empty
    <2>2. AreFunctions
      BY DEF Init, AreFunctions
    <2>3. ArraysStand
      BY TensorAssumption DEF Init, ArraysStand, Good, Data, Absent, Empty
    <2>4. Blamed
      BY DEF Init, Blamed
    <2> QED BY <2>1, <2>2, <2>3, <2>4 DEF VInv
  <1>2. VInv /\ Blamed /\ [Next]_vars => Blamed'
    BY BlamedNext DEF VInv
  <1>3. QED
    BY <1>1, <1>2, ArraysNext, PTL DEF Spec

\* Through any sequence of copies, moves, assignments and failing allocations
\* every buffer has exactly one owner.  The pointers to freed buffers, which a
\* destructor or an assignment would free again, are exactly those of variables
\* that an exception left in a copy assignment, and of those moved from them.
THEOREM TensorSoleOwner == Spec => []SoleOwner
  <1>1. ASSUME IInv, Blamed PROVE SoleOwner
    <2>1. ASSUME NEW b \in DOMAIN heap PROVE Cardinality(Owners(b)) = 1
      <3>1. PICK s \in Slot \ torn : Data(s) = b
        BY <1>1 DEF IInv, NoneLeaks
      <3>2. \A o \in torn : Data(o) # b
        BY <1>1 DEF IInv, TornDangle
      <3>3. Owners(b) = {s}
        BY <1>1, <3>1, <3>2 DEF Owners, Data, IInv, NoneShared
      <3>4. QED
        BY <3>3, FS_Singleton
    <2>2. ASSUME NEW s \in torn PROVE s \in Slot /\ Held(s)
      BY <1>1, TensorAssumption DEF IInv, Typed, TornDangle, Held, Data
    <2>3. \A s \in Slot : Held(s) /\ Dangling(s) <=> s \in torn
      BY <1>1, <2>2, WhoDangles
    <2>4. QED
      BY <1>1, <2>1, <2>3 DEF SoleOwner, Blamed
  <1>2. VInv /\ Blamed => SoleOwner
    BY <1>1 DEF VInv
  <1>3. QED
    BY <1>2, Invariant, PTL

\* Tensors are values, at every rank and for every shape: an element is what
\* was last stored there in this tensor or the one it was copied or moved
\* from, also after reshape, and at() never leaves the buffer.
THEOREM TensorValueSemantics == Spec => []ValueSemantics
  <1>1. ASSUME VInv, NEW s \in Slot \ torn, Held(s), object[s].data # Null,
               NEW idx \in Indices(object[s].shape)
        PROVE  /\ Offset(object[s], idx) \in DOMAIN heap[object[s].data]
               /\ heap[object[s].data][Offset(object[s], idx)] = value[s][idx]
    <2>1. Data(s) \in Buffer
      BY <1>1 DEF VInv, IInv, Typed, Held, Data
    <2>2. Stands(object[s].shape, object[s].stride, heap[Data(s)], value[s])
      BY <1>1, <2>1 DEF VInv, ArraysStand, Good
    <2>3. PICK shape \in Shapes : shape = object[s].shape /\ shape \in Seq(Nat)
      BY <2>2, TensorAssumption DEF Stands
    <2>4. Offset(object[s], idx) = Place(shape, idx)
      BY <2>2, <2>3, OffsetIsPlace DEF Stands
    <2>5. Place(shape, idx) \in 0..Numel(shape) - 1
      BY <2>3, PlaceBounded
    <2>6. QED
      BY <2>2, <2>3, <2>4, <2>5 DEF Stands, Data
  <1>2. VInv => ValueSemantics
    BY <1>1 DEF ValueSemantics
  <1>3. QED
    BY <1>2, Invariant, PTL
=============================================================================
