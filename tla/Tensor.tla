------------------------------- MODULE Tensor -------------------------------
(***************************************************************************)
(* The Tensor of include/tensor.hpp: an object that owns one malloc'ed     *)
(* buffer of floats next to its shape and strides.  The state is a set of  *)
(* variables that may hold a Tensor, and the heap; the actions are the     *)
(* constructors, assignments, the destructor, reshape and a store through  *)
(* at().  Allocation may fail: malloc returns null, or a vector throws.    *)
(* What the memory then does to a pointer that is not allocated, freeing   *)
(* it again or copying through it, is undefined and ends a behaviour.      *)
(***************************************************************************)
EXTENDS Naturals, Sequences, FiniteSets, Functions

CONSTANTS Slot,         \* variables of the program
          Buffer,       \* addresses malloc can return
          Null, NoTensor,   \* no buffer; no Tensor at all
          Shapes,       \* shapes the program uses
          Values,       \* floats; 0 is what memset leaves
          MaxFailures   \* bound on failing allocations

ASSUME TensorAssumption ==
    /\ Null \notin Buffer /\ NoTensor \notin Buffer \cup {Null}
    /\ Shapes \subseteq Seq(Nat)
    /\ 0 \in Values /\ MaxFailures \in Nat

VARIABLES object,    \* what each variable holds
          heap,      \* contents of the allocated buffers
          failures,  \* failing allocations left
          torn,      \* history: variables with a buffer that an assignment freed
                     \* before an exception left it
          undefined, \* "none", or what the program used: "null" or "freed" memory
          value      \* history: the array each variable should stand for

vars == <<object, heap, failures, torn, undefined, value>>

-----------------------------------------------------------------------------
(* Shapes, strides, offsets *)

\* compute_numel, numel: the product of an empty shape is 1.
Numel(shape) ==
    LET num[i \in 0..Len(shape)] == IF i = 0 THEN 1 ELSE num[i - 1] * shape[i]
    IN num[Len(shape)]

\* compute_strides
Strides(shape) ==
    LET stride[i \in DOMAIN shape] ==
          IF i = Len(shape) THEN 1 ELSE stride[i + 1] * shape[i + 1]
    IN stride

\* The index arithmetic of ptr and at.
Offset(o, idx) ==
    LET sum[i \in 0..Len(o.shape)] ==
          IF i = 0 THEN 0 ELSE sum[i - 1] + idx[i] * o.stride[i]
    IN sum[Len(o.shape)]

Indices(shape) ==
    {idx \in [DOMAIN shape -> 0..Numel(shape)] : \A i \in DOMAIN shape : idx[i] < shape[i]}

-----------------------------------------------------------------------------

Empty == [data |-> Null, shape |-> <<>>, stride |-> <<>>]
Absent == [Empty EXCEPT !.data = NoTensor]
Held(s) == object[s].data # NoTensor

\* The contents of a new buffer: memset, then the fill value.
Zeros(shape, v) == [i \in 0..Numel(shape) - 1 |-> v]
Constant(shape, v) == [idx \in Indices(shape) |-> v]

Init ==
    /\ object = [s \in Slot |-> Absent]
    /\ heap = [b \in {} |-> 0]
    /\ failures = MaxFailures
    /\ torn = {} /\ undefined = "none"
    /\ value = [s \in Slot |-> Constant(<<0>>, 0)]

\* What malloc can return.  No address that a variable still holds is handed
\* out again: to use it is undefined whatever lies there by now.
Free == Buffer \ (DOMAIN heap \cup {object[s].data : s \in Slot})
Allocated(h, b, contents) == [c \in DOMAIN h \cup {b} |->
                                IF c = b THEN contents ELSE h[c]]
Freed(h, b) == Restrict(h, DOMAIN h \ {b})

\* free and memcpy of the pointer of s would be of freed memory.
Dangling(s) == object[s].data \notin DOMAIN heap \cup {Null}
Undefined(used) ==
    undefined' = used /\ UNCHANGED <<object, heap, failures, torn, value>>

\* A vector throws; malloc returns null, and memset or memcpy writes there.
Throws == failures > 0 /\ failures' = failures - 1
MallocFails(shape) == failures > 0 /\ Numel(shape) > 0 /\ Undefined("null")

\* Tensor(shape), and Tensor(shape, fill) with v; Tensor(shape, values) whose
\* count does not match is destroyed again and throws.
Construct(s, shape, v) ==
    /\ ~Held(s)
    /\ \/ \E b \in Free :
            /\ heap' = Allocated(heap, b, Zeros(shape, v))
            /\ object' = [object EXCEPT ![s] =
                            [data |-> b, shape |-> shape, stride |-> Strides(shape)]]
            /\ value' = [value EXCEPT ![s] = Constant(shape, v)]
            /\ UNCHANGED <<failures, torn, undefined>>
       \/ MallocFails(shape)
       \/ Throws /\ UNCHANGED <<object, heap, torn, undefined, value>>

\* Tensor()
Default(s) ==
    /\ ~Held(s)
    /\ object' = [object EXCEPT ![s] = Empty]
    /\ value' = [value EXCEPT ![s] = Constant(<<0>>, 0)]
    /\ UNCHANGED <<heap, failures, torn, undefined>>

\* malloc and memcpy of a copy, when one of the two does not work: an empty or
\* moved-from tensor has one element by its shape and no buffer.
CopyFails(o) ==
    \/ Dangling(o) /\ Undefined("freed")
    \/ object[o].data = Null /\ Undefined("null")
    \/ MallocFails(object[o].shape)

\* What memcpy copies of a tensor whose buffer is allocated.
Copied(o) == [i \in 0..Numel(object[o].shape) - 1 |-> heap[object[o].data][i]]

\* Tensor(const Tensor&)
CopyConstruct(s, o) ==
    /\ ~Held(s) /\ Held(o)
    /\ \/ object[o].data \in DOMAIN heap /\ \E b \in Free :
            /\ heap' = Allocated(heap, b, Copied(o))
            /\ object' = [object EXCEPT ![s] = [object[o] EXCEPT !.data = b]]
            /\ value' = [value EXCEPT ![s] = value[o]]
            /\ UNCHANGED <<failures, torn, undefined>>
       \/ CopyFails(o)
       \/ Throws /\ UNCHANGED <<object, heap, torn, undefined, value>>

\* The moved-from vectors are empty, its pointer is null; a dangling pointer
\* is moved like any other.
Moved(s, o) == [object EXCEPT ![s] = object[o], ![o] = Empty]
MovedValue(s, o) == [value EXCEPT ![s] = value[o], ![o] = Constant(<<0>>, 0)]
MovedTorn(s, o) == IF o \in torn THEN (torn \ {o}) \cup {s} ELSE torn

\* Mutant of MoveConstruct: other.m_data is not reset.
MoveKeeping(s, o) ==
    /\ ~Held(s) /\ Held(o)
    /\ object' = [object EXCEPT ![s] = object[o]]
    /\ value' = MovedValue(s, o) /\ torn' = MovedTorn(s, o)
    /\ UNCHANGED <<heap, failures, undefined>>

\* Tensor(Tensor&&)
MoveConstruct(s, o) ==
    /\ ~Held(s) /\ Held(o)
    /\ object' = Moved(s, o) /\ value' = MovedValue(s, o) /\ torn' = MovedTorn(s, o)
    /\ UNCHANGED <<heap, failures, undefined>>

\* operator=(const Tensor&): the buffer is freed before anything is copied, so
\* a vector that throws leaves a pointer to freed memory.
CopyAssign(s, o) ==
    /\ s # o /\ Held(s) /\ Held(o)
    /\ LET h == Freed(heap, object[s].data)
       IN \/ Dangling(s) /\ Undefined("freed")
          \/ /\ ~Dangling(s) /\ object[o].data \in DOMAIN heap
             /\ \E b \in Free \cup (Buffer \cap {object[s].data}) :
                  /\ heap' = Allocated(h, b, Copied(o))
                  /\ object' = [object EXCEPT ![s] = [object[o] EXCEPT !.data = b]]
                  /\ value' = [value EXCEPT ![s] = value[o]]
                  /\ UNCHANGED <<failures, torn, undefined>>
          \/ ~Dangling(s) /\ CopyFails(o)
          \/ /\ ~Dangling(s) /\ Throws
             /\ heap' = h
             /\ torn' = torn \cup {u \in {s} : object[s].data # Null}
             /\ \E shape \in {object[s].shape, object[o].shape} :
                  object' = [object EXCEPT ![s].shape = shape]
             /\ UNCHANGED <<undefined, value>>

\* operator=(Tensor&&)
MoveAssign(s, o) ==
    /\ s # o /\ Held(s) /\ Held(o)
    /\ IF Dangling(s) THEN Undefined("freed")
       ELSE /\ heap' = Freed(heap, object[s].data)
            /\ object' = Moved(s, o) /\ value' = MovedValue(s, o)
            /\ torn' = MovedTorn(s, o)
            /\ UNCHANGED <<failures, undefined>>

\* ~Tensor
Destroy(s) ==
    /\ Held(s)
    /\ IF Dangling(s) THEN Undefined("freed")
       ELSE /\ heap' = Freed(heap, object[s].data)
            /\ object' = [object EXCEPT ![s] = Absent]
            /\ value' = [value EXCEPT ![s] = Constant(<<0>>, 0)]
            /\ UNCHANGED <<failures, torn, undefined>>

\* Position of an index in row-major order: the number of indices before it.
Before(a, b) == \E i \in DOMAIN a : a[i] < b[i] /\ \A k \in 1..i - 1 : a[k] = b[k]
Rank == [shape \in Shapes |->
          [idx \in Indices(shape) |->
             Cardinality({j \in Indices(shape) : Before(j, idx)})]]

\* The array of s under another shape, with its elements in row-major order.
Rearranged(s, shape) ==
    [idx \in Indices(shape) |->
       value[s][CHOOSE j \in Indices(object[s].shape) :
                  Rank[object[s].shape][j] = Rank[shape][idx]]]

\* Mutant of Reshape: the strides are only resized.
ReshapeOnly(s, shape) ==
    /\ Held(s) /\ Numel(object[s].shape) = Numel(shape)
    /\ object' = [object EXCEPT ![s].shape = shape,
                    ![s].stride = [i \in DOMAIN shape |->
                        IF i \in DOMAIN @ THEN @[i] ELSE 0]]
    /\ value' = IF object[s].data \notin DOMAIN heap THEN value
                ELSE [value EXCEPT ![s] = Rearranged(s, shape)]
    /\ UNCHANGED <<heap, failures, torn, undefined>>

\* reshape: the assertion, then shape and strides; the buffer is not touched.
Reshape(s, shape) ==
    /\ Held(s) /\ Numel(object[s].shape) = Numel(shape)
    /\ object' = [object EXCEPT ![s].shape = shape, ![s].stride = Strides(shape)]
    /\ value' = IF object[s].data \notin DOMAIN heap THEN value
                ELSE [value EXCEPT ![s] = Rearranged(s, shape)]
    /\ UNCHANGED <<heap, failures, torn, undefined>>

\* at(...) = v; the program stores in a tensor that has a buffer.
Store(s, idx, v) ==
    /\ Held(s) /\ object[s].data \in DOMAIN heap /\ idx \in Indices(object[s].shape)
    /\ heap' = [heap EXCEPT ![object[s].data][Offset(object[s], idx)] = v]
    /\ value' = [value EXCEPT ![s][idx] = v]
    /\ UNCHANGED <<object, failures, torn, undefined>>

Next ==
    /\ undefined = "none"
    /\ \E s \in Slot :
         \/ \E shape \in Shapes, v \in Values : Construct(s, shape, v)
         \/ Default(s) \/ Destroy(s)
         \/ \E o \in Slot : \/ CopyConstruct(s, o) \/ MoveConstruct(s, o)
                            \/ CopyAssign(s, o) \/ MoveAssign(s, o)
         \/ \E shape \in Shapes : Reshape(s, shape)
         \/ \E v \in Values :
              /\ Held(s)
              /\ \E idx \in Indices(object[s].shape) : Store(s, idx, v)

Spec == Init /\ [][Next]_vars

-----------------------------------------------------------------------------
(* Properties *)

\* Through every sequence of copies, moves and failing allocations each buffer
\* has exactly one owner, so none leaks; and a variable points to a freed
\* buffer, which it will free again, only after an exception has left a copy
\* assignment to it, or to the variable it was moved from.
Owners(b) == {s \in Slot : object[s].data = b}
SoleOwner ==
    /\ \A b \in DOMAIN heap : Cardinality(Owners(b)) = 1
    /\ \A s \in Slot : Held(s) /\ Dangling(s) <=> s \in torn
    /\ undefined = "freed" => torn # {}

\* A tensor behaves as a value: an element is what was last stored there in
\* this tensor or the one it was copied or moved from, at any rank and after
\* reshape, and an index never leaves the buffer.
ValueSemantics ==
    \A s \in Slot \ torn :
        Held(s) /\ object[s].data # Null =>
            LET o == object[s]
            IN \A idx \in Indices(o.shape) :
                 /\ Offset(o, idx) \in DOMAIN heap[o.data]
                 /\ heap[o.data][Offset(o, idx)] = value[s][idx]

=============================================================================
