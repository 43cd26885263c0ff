-------------------------- MODULE AllocatorPromise --------------------------
(***************************************************************************)
(* What the containers on the device rely on when they call allocate()     *)
(* and deallocate() of the allocator that space.h selects by default, the  *)
(* caching one: a block belongs to one owner at a time, it is handed out   *)
(* with no device work outstanding on it, and giving it back waits for the *)
(* work queued on it.  Builds without the cache do not all promise that:   *)
(* on SYCL the backend allocator frees a block without a wait.             *)
(***************************************************************************)
EXTENDS Naturals

CONSTANTS
  Owner,    \* the objects that call allocate and deallocate
  BlockPtr,      \* the addresses of device blocks
  NullPtr,  \* what a failed allocation returns
  Size      \* the element counts that are asked for

VARIABLES
  held,     \* held[o]: the pointer and count owner o must give back
  busy      \* the blocks that queued device work still touches

vars == <<held, busy>>

NoBlock == [ptr |-> NullPtr, cnt |-> 0]

(* The blocks that some owner holds. *)
InUse == {p \in BlockPtr : \E o \in Owner : held[o].ptr = p}

Init ==
  /\ held = [o \in Owner |-> NoBlock]
  /\ busy = {}

(* Owner o is given a block nobody holds and no work touches, or nothing. *)
Acquire(o, n) ==
  /\ held[o] = NoBlock
  /\ \E p \in (BlockPtr \ (InUse \cup busy)) \cup {NullPtr} :
        held' = [held EXCEPT ![o] = [ptr |-> p, cnt |-> n]]
  /\ UNCHANGED busy

(* Owner o gives its block back: no work on it survives the call. *)
Release(o) ==
  /\ held[o] # NoBlock
  /\ held' = [held EXCEPT ![o] = NoBlock]
  /\ busy' \in SUBSET (busy \ {held[o].ptr})

Launch(o) ==
  /\ held[o].ptr # NullPtr
  /\ busy' = busy \cup {held[o].ptr}
  /\ UNCHANGED held

Complete(p) ==
  /\ p \in busy
  /\ busy' = busy \ {p}
  /\ UNCHANGED held

Next ==
  \/ \E o \in Owner, n \in Size : Acquire(o, n)
  \/ \E o \in Owner : Release(o) \/ Launch(o)
  \/ \E p \in BlockPtr : Complete(p)

Spec == Init /\ [][Next]_vars
=============================================================================
