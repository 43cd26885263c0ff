---------------------------- MODULE GtensorStorage ----------------------------
(***************************************************************************)
(* gtensor_storage (include/gtensor/gtensor_storage.h), the owner of the   *)
(* memory behind every gtensor container, over an allocator that keeps the *)
(* promise of AllocatorPromise and a device that executes copies and       *)
(* kernels in order, behind the host's back.                               *)
(*                                                                         *)
(* A storage call runs on the host to its end: it is one step.  The device *)
(* only consumes dev.queue, the work of the default stream, whose effect   *)
(* does not depend on when the host goes on; the calls that wait for it    *)
(* (deallocate) drain it as part of their step.                            *)
(***************************************************************************)
EXTENDS Naturals, FiniteSets, SequencesExt

CONSTANTS
  Obj,       \* the names of storage objects
  Ptr,       \* the addresses of blocks
  Null,      \* the null pointer
  Value,     \* the values of an element
  Dead,      \* marks a name whose object is not alive
  Lost,      \* stands for the value of an object without memory
  MaxSize,   \* bound on the sizes asked for
  MaxQueue,  \* bound on the work queued on the device
  Backends   \* the memories to check, of those below

(* Device memory, where copies and kernels are asynchronous and allocation *)
(* either aborts the program (CUDA, HIP) or returns null (SYCL) when there *)
(* is no memory; host memory, where copies are done at once and the        *)
(* allocator throws.                                                       *)
Aborting == [async |-> TRUE, failure |-> "aborts"]
Nulling == [async |-> TRUE, failure |-> "null"]
Throwing == [async |-> FALSE, failure |-> "throws"]

ASSUME ConstantsAssumption ==
  /\ Null \notin Ptr
  /\ Dead \notin [data : Ptr \cup {Null}, size : 0..MaxSize, capacity : 0..MaxSize]
  /\ MaxSize \in Nat \ {0} /\ MaxQueue \in Nat \ {0}
  /\ Backends \subseteq {Aborting, Nulling, Throwing}

(* The elements of an object are told from the marks of one without. *)
ASSUME ValuesAssumption ==
  /\ Value # {} /\ Dead # Lost
  /\ \A n \in 0..MaxSize : {Dead, Lost} \cap [1..n -> Value] = {}

VARIABLES
  store,  \* store[o]: the members data_, size_, capacity_ of o, or Dead
  dev     \* block: sizes of the blocks handed out (0: none); mem: contents;
          \* queue: the work queued on the default stream; backend: the memory

vars == <<store, dev>>

Cells == 1..MaxSize
Contents == [Cells -> Value]
Storages == [data : Ptr \cup {Null}, size : 0..MaxSize, capacity : 0..MaxSize]
Empty == [data |-> Null, size |-> 0, capacity |-> 0]

Alive(o) == store[o] # Dead

(* The contents of a block without owner are of no interest: one value     *)
(* stands for all.                                                         *)
Blank == [i \in Cells |-> CHOOSE v \in Value : TRUE]

(* What n elements can hold; the cells behind them are of no interest. *)
Fills(n) == {c \in Contents : \A i \in Cells : i > n => c[i] = Blank[i]}

(* An object whose memory could not be allocated has a size and no block:  *)
(* using its elements is undefined behaviour.                              *)
Usable(s) == s.size > 0 => s.data # Null

-----------------------------------------------------------------------------
(* The device: gt::copy_n of n elements and kernels, in order.             *)

CopyOp(p, q, n) == [kind |-> "copy", src |-> p, dst |-> q, n |-> n]
KernelOp(q, n, c) == [kind |-> "kernel", dst |-> q, n |-> n, to |-> c]

(* mem after op *)
Applied(mem, op) ==
  LET from == IF op.kind = "copy" THEN mem[op.src] ELSE op.to
  IN  [mem EXCEPT ![op.dst] = [i \in Cells |-> IF i <= op.n THEN from[i] ELSE @[i]]]

(* mem after everything queued is done *)
Final(d) == FoldLeft(Applied, d.mem, d.queue)

SubmitTo(d, op) ==
  IF d.backend.async THEN [d EXCEPT !.queue = Append(@, op)]
                     ELSE [d EXCEPT !.mem = Applied(@, op)]

Synchronized(d) == [d EXCEPT !.mem = Final(d), !.queue = << >>]

(* Blocks the allocator may hand out, with whatever their last owner left. *)
FreshPtr(d) ==
  {p \in Ptr : /\ d.block[p] = 0
               /\ \A i \in 1..Len(d.queue) :
                    LET op == d.queue[i]
                    IN  op.dst # p /\ (op.kind = "copy" => op.src # p)}

GivenOut(d, p, n, c) == [d EXCEPT !.block[p] = n, !.mem[p] = c]

(* What allocate(n) can do: <<device after, pointer returned>> pairs. *)
Allocations(d, n) ==
  {<<GivenOut(d, p, n, c), p>> : p \in FreshPtr(d), c \in Fills(n)}
    \cup (IF d.backend.failure = "null" THEN {<<d, Null>>} ELSE {})

(* Mutant: the block is given back without waiting for the device.         *)
DeallocatedNoSync(d, p) ==
  IF p = Null THEN d ELSE [d EXCEPT !.block[p] = 0]

(* deallocate(p): wait for the default stream, then take p back if valid. *)
Deallocated(d, p) ==
  LET e == Synchronized(d)
  IN  IF p = Null THEN e ELSE [e EXCEPT !.block[p] = 0, !.mem[p] = Blank]

-----------------------------------------------------------------------------
(* resize(new_size, discard): <<device, object>> pairs it can end in.      *)
(* A copy to or from a null block is undefined and has no outcome here.    *)

(* Mutant: the capacity noted is one more than what was allocated.         *)
BlockWithSlack(p, n) == [data |-> p, size |-> n, capacity |-> n + 1]

Block(p, n) == [data |-> p, size |-> n, capacity |-> n]

Kept(s, n) == IF s.size < n THEN s.size ELSE n

(* Mutant: the elements are not copied to the new block.                   *)
GrownDiscards(d, s, n, discard) ==
  {<<Deallocated(a[1], s.data), Block(a[2], n)>> : a \in Allocations(d, n)}

(* new_size > capacity_ > 0: a new block, the common prefix is copied      *)
(* unless discard, the old block is given back.                            *)
Grown(d, s, n, discard) ==
  {<<Deallocated(IF discard \/ s.size = 0
                   THEN a[1]
                   ELSE SubmitTo(a[1], CopyOp(s.data, a[2], Kept(s, n))),
                 s.data),
     Block(a[2], n)>> :
   a \in {b \in Allocations(d, n) :
            discard \/ s.size = 0 \/ (b[2] # Null /\ Usable(s))}}

Resized(d, s, n, discard) ==
  CASE s.capacity = 0 /\ n = 0 -> {<<d, s>>}
    [] s.capacity = 0 /\ n > 0 -> {<<a[1], Block(a[2], n)>> : a \in Allocations(d, n)}
    [] s.capacity > 0 /\ n > s.capacity -> Grown(d, s, n, discard)
    [] s.capacity > 0 /\ n <= s.capacity -> {<<d, [s EXCEPT !.size = n]>>}

(* resize_discard(from.size_), then copy_n(from.data_, size_, data_). *)
Assigned(d, s, from) ==
  {<<IF from.size > 0 THEN SubmitTo(r[1], CopyOp(from.data, r[2].data, from.size))
                      ELSE r[1],
     r[2]>> :
   r \in {q \in Resized(d, s, from.size, TRUE) : from.size > 0 => q[2].data # Null}}

-----------------------------------------------------------------------------
Init ==
  /\ store = [o \in Obj |-> Dead]
  /\ \E b \in Backends :
        dev = [block |-> [p \in Ptr |-> 0],
               mem |-> [p \in Ptr |-> Blank],
               queue |-> << >>,
               backend |-> b]

Room == Len(dev.queue) < MaxQueue

(* gtensor_storage(count) *)
Construct(o, n) ==
  /\ ~ Alive(o)
  /\ IF n = 0
       THEN store' = [store EXCEPT ![o] = Empty] /\ UNCHANGED dev
       ELSE \E a \in Allocations(dev, n) :
              /\ store' = [store EXCEPT ![o] = Block(a[2], n)]
              /\ dev' = a[1]

CopyConstruct(o, s) ==
  /\ Room
  /\ ~ Alive(o) /\ Alive(s) /\ Usable(store[s])
  /\ \E r \in Assigned(dev, Empty, store[s]) :
        /\ store' = [store EXCEPT ![o] = r[2]]
        /\ dev' = r[1]

MoveConstruct(o, s) ==
  /\ ~ Alive(o) /\ Alive(s)
  /\ store' = [store EXCEPT ![o] = store[s], ![s] = Empty]
  /\ UNCHANGED dev

(* operator=(const&), for o = s too: then the resize does nothing and the  *)
(* block is copied onto itself.                                            *)
CopyAssign(o, s) ==
  /\ Room
  /\ Alive(o) /\ Alive(s) /\ Usable(store[s])
  /\ \E r \in Assigned(dev, store[o], store[s]) :
        /\ store' = [store EXCEPT ![o] = r[2]]
        /\ dev' = r[1]

(* Mutant: the block of the target is not given back.                      *)
MoveAssignNoFree(o, s) ==
  /\ Alive(o) /\ Alive(s)
  /\ UNCHANGED dev
  /\ store' = [[store EXCEPT ![o] = store[s]] EXCEPT ![s] = Empty]

(* operator=(&&): for o = s the object gives its block back and is empty. *)
MoveAssign(o, s) ==
  /\ Alive(o) /\ Alive(s)
  /\ dev' = IF store[o].capacity > 0 THEN Deallocated(dev, store[o].data) ELSE dev
  /\ store' = [[store EXCEPT ![o] = store[s]] EXCEPT ![s] = Empty]

Destroy(o) ==
  /\ Alive(o)
  /\ dev' = Deallocated(dev, store[o].data)
  /\ store' = [store EXCEPT ![o] = Dead]

Resize(o, n) ==
  /\ Alive(o)
  /\ \E r \in Resized(dev, store[o], n, FALSE) :
        /\ store' = [store EXCEPT ![o] = r[2]]
        /\ dev' = r[1]

(* resize() or an assignment to an object without capacity: size_ and      *)
(* capacity_ are set before the allocator throws.  (In the other calls the *)
(* exception leaves everything as it was.)                                 *)
AllocateThrows(o, n) ==
  /\ dev.backend.failure = "throws"
  /\ Alive(o) /\ store[o].capacity = 0 /\ n > 0
  /\ store' = [store EXCEPT ![o] = Block(Null, n)]
  /\ UNCHANGED dev

(* An expression is evaluated into the elements of o (assign, launch). *)
Write(o) ==
  /\ Room
  /\ Alive(o) /\ Usable(store[o]) /\ store[o].size > 0
  /\ \E c \in Fills(store[o].size) : dev' = SubmitTo(dev, KernelOp(store[o].data, store[o].size, c))
  /\ UNCHANGED store

(* The device executes the oldest entry of its queue. *)
DeviceStep ==
  /\ dev.queue # << >>
  /\ dev' = [dev EXCEPT !.mem = Applied(@, Head(dev.queue)), !.queue = Tail(@)]
  /\ UNCHANGED store

Next ==
  \/ \E o \in Obj :
       \/ \E n \in 0..MaxSize : Construct(o, n) \/ Resize(o, n) \/ AllocateThrows(o, n)
       \/ \E s \in Obj : CopyConstruct(o, s) \/ MoveConstruct(o, s)
       \/ \E s \in Obj : CopyAssign(o, s) \/ MoveAssign(o, s)
       \/ Destroy(o) \/ Write(o)
  \/ DeviceStep

Spec == Init /\ [][Next]_vars

-----------------------------------------------------------------------------
(* Properties *)

(* Members, blocks, contents and queued work have their declared ranges.   *)
TypeOK ==
  /\ store \in [Obj -> Storages \cup {Dead}]
  /\ dev.block \in [Ptr -> 0..MaxSize]
  /\ dev.mem \in [Ptr -> Contents]
  /\ dev.backend \in Backends
  /\ \A i \in 1..Len(dev.queue) :
       LET op == dev.queue[i]
       IN  /\ op.dst \in Ptr /\ op.n \in Cells
           /\ op.kind = "copy" => op.src \in Ptr
           /\ op.kind = "kernel" => op.to \in Contents

(* A block has one owner, whose capacity is the size it was allocated with *)
(* and whose elements fit, and every block handed out has one: no double   *)
(* free, no leak, no element beyond the block, and deallocate() is given   *)
(* the count of the allocation.                                            *)
SoleOwner ==
  \A p \in Ptr :
    /\ dev.block[p] > 0 <=> \E o \in Obj : Alive(o) /\ store[o].data = p
    /\ \A o1, o2 \in Obj :
         /\ Alive(o1) /\ store[o1].data = p
         /\ Alive(o2) /\ store[o2].data = p
         => /\ o1 = o2
            /\ store[o1].size <= store[o1].capacity
            /\ store[o1].capacity = dev.block[p]

(* Work the device has not done yet touches only blocks some object owns,  *)
(* within their size: neither destruction, nor move, nor reallocation in   *)
(* the host's future pulls memory from under the queue.                    *)
QueuedWorkOnOwned ==
  \A i \in 1..Len(dev.queue) :
    LET op == dev.queue[i]
    IN  /\ op.n <= dev.block[op.dst]
        /\ op.kind = "copy" => op.n <= dev.block[op.src]

(* What an object will hold once the device has caught up. *)
ValueOf(o) ==
  IF ~ Alive(o) THEN Dead
  ELSE IF ~ Usable(store[o]) THEN Lost
  ELSE [i \in 1..store[o].size |-> Final(dev)[store[o].data][i]]

(* Storage objects behave as independent values: whatever the device has   *)
(* left to do, copies are equal to their source, resizing keeps the common *)
(* prefix, moving empties the source and no call changes another object.   *)
Values == INSTANCE StorageValues WITH val <- [o \in Obj |-> ValueOf(o)]

ImplementsValues == Values!Spec
=============================================================================
