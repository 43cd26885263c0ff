-------------------------- MODULE CachingAllocator --------------------------
(***************************************************************************)
(* gt::allocator::caching_allocator (include/gtensor/allocator.h), the     *)
(* default allocator of device and managed containers.                     *)
(*                                                                         *)
(* Its static maps free_ and allocated_ are shared by every container of   *)
(* one value type.  heap is the backend allocator below it (cudaMalloc,    *)
(* sycl::malloc_device, ...), and held is the obligation of its callers:   *)
(* the pointer and count each one must pass to deallocate().  busy is what *)
(* gt::synchronize() waits for, the work queued on the default stream,     *)
(* recorded as the set of blocks it touches.                               *)
(*                                                                         *)
(* Left out: used_, which only feeds the DEBUG output, and clear_cache(),  *)
(* which nothing calls and which cannot be instantiated: it is static and  *)
(* calls the deallocate() of its base, which is not.  So no block ever     *)
(* goes back to the backend.  free_ is a set: a block enters it only from  *)
(* allocated_, which CacheAccounting shows it is never in at the same      *)
(* time, so the multimap holds no pair twice.                              *)
(***************************************************************************)
EXTENDS Naturals, FiniteSets

CONSTANTS
  Owner,    \* the containers sharing the maps (one static cache per value type)
  BlockPtr,      \* the addresses the backend allocator can return
  NullPtr,  \* the null pointer
  Size,     \* the counts asked for: gtensor_storage never asks for 0
  Absent    \* marks an address without an entry in a map

ASSUME CacheAssumption ==
  /\ NullPtr \notin BlockPtr
  /\ Size \subseteq Nat \ {0}
  /\ Absent \notin Nat

VARIABLES
  free_,       \* multimap<size, pointer>: cached blocks, as <<size, pointer>> pairs
  allocated_,  \* map<pointer, size>: blocks handed out
  heap,        \* live blocks of the backend allocator, with their sizes
  held,        \* held[o]: pointer and count of owner o's last allocate()
  busy         \* blocks touched by work queued on the default stream

cacheVars == <<free_, allocated_, heap, held, busy>>

NoBlock == [ptr |-> NullPtr, cnt |-> 0]

(* Mutant: any cached block that is not too large counts as a match.       *)
CachedUpTo(n) == {p \in BlockPtr : \E m \in 1..n : <<m, p>> \in free_}

(* What free_.find(cnt) can return. *)
CachedWith(n) == {p \in BlockPtr : <<n, p>> \in free_}

Cached(p) == \E n \in Size : <<n, p>> \in free_

(* std::map::emplace: an existing entry is kept. *)
Emplace(map, p, n) ==
  IF map[p] = Absent THEN [map EXCEPT ![p] = n] ELSE map

CacheInit ==
  /\ free_ = {}
  /\ allocated_ = [p \in BlockPtr |-> Absent]
  /\ heap = [p \in BlockPtr |-> Absent]
  /\ held = [o \in Owner |-> NoBlock]
  /\ busy = {}

-----------------------------------------------------------------------------
(* allocate(cnt) *)

(* Mutant: the cached block is handed out but stays in free_.              *)
HitKeepsEntry(o, n) ==
  /\ held[o] = NoBlock
  /\ \E p \in CachedWith(n) :
        /\ allocated_' = Emplace(allocated_, p, n)
        /\ held' = [held EXCEPT ![o] = [ptr |-> p, cnt |-> n]]
  /\ UNCHANGED <<free_, heap, busy>>

(* A cached block of exactly this count is reused; which of several the    *)
(* multimap's find() returns is unspecified.                               *)
AllocateHit(o, n) ==
  /\ held[o] = NoBlock
  /\ \E p \in CachedWith(n) :
        /\ free_' = free_ \ {<<n, p>>}
        /\ allocated_' = Emplace(allocated_, p, n)
        /\ held' = [held EXCEPT ![o] = [ptr |-> p, cnt |-> n]]
  /\ UNCHANGED <<heap, busy>>

(* Otherwise the backend allocates a new block. *)
AllocateMiss(o, n) ==
  /\ held[o] = NoBlock
  /\ CachedWith(n) = {}
  /\ \E p \in {q \in BlockPtr : heap[q] = Absent} :
        /\ heap' = [heap EXCEPT ![p] = n]
        /\ allocated_' = Emplace(allocated_, p, n)
        /\ held' = [held EXCEPT ![o] = [ptr |-> p, cnt |-> n]]
  /\ UNCHANGED <<free_, busy>>

(* Mutant: a null pointer is recorded like a valid one.                    *)
FailureIsRecorded(o, n) ==
  /\ held[o] = NoBlock
  /\ CachedWith(n) = {}
  /\ allocated_' = [p \in BlockPtr \cup {NullPtr} |-> IF p = NullPtr THEN n ELSE allocated_[p]]
  /\ held' = [held EXCEPT ![o] = [ptr |-> NullPtr, cnt |-> n]]
  /\ UNCHANGED <<free_, heap, busy>>

(* The backend has no memory and returns null (SYCL; CUDA and HIP abort):  *)
(* nothing is recorded and the caller gets the null pointer.               *)
AllocateFails(o, n) ==
  /\ held[o] = NoBlock
  /\ CachedWith(n) = {}
  /\ held' = [held EXCEPT ![o] = [ptr |-> NullPtr, cnt |-> n]]
  /\ UNCHANGED <<free_, allocated_, heap, busy>>

-----------------------------------------------------------------------------
(* deallocate(p, cnt) waits for the default stream, whatever p is; a valid *)
(* pointer must be in allocated_ (assert), moves to the cache under the    *)
(* size recorded there, and cnt is ignored.                                *)

(* Mutant: the block is cached, but its entry stays in allocated_.         *)
ReturnKeepsEntry(p) ==
  IF p = NullPtr
    THEN UNCHANGED <<free_, allocated_>>
    ELSE /\ allocated_[p] # Absent
         /\ free_' = free_ \cup {<<allocated_[p], p>>}
         /\ UNCHANGED allocated_

ReturnToCache(p) ==
  IF p = NullPtr
    THEN UNCHANGED <<free_, allocated_>>
    ELSE /\ allocated_[p] # Absent
         /\ free_' = free_ \cup {<<allocated_[p], p>>}
         /\ allocated_' = [allocated_ EXCEPT ![p] = Absent]

(* Mutant: no gt::synchronize() before the block is cached.                *)
DeallocateNoSync(o) ==
  /\ held[o] # NoBlock
  /\ ReturnToCache(held[o].ptr)
  /\ held' = [held EXCEPT ![o] = NoBlock]
  /\ UNCHANGED <<heap, busy>>

Deallocate(o) ==
  /\ held[o] # NoBlock
  /\ busy' = {}
  /\ ReturnToCache(held[o].ptr)
  /\ held' = [held EXCEPT ![o] = NoBlock]
  /\ UNCHANGED heap

-----------------------------------------------------------------------------
(* The device: an owner queues work on its block, and work completes.      *)

LaunchOn(o) ==
  /\ held[o].ptr # NullPtr
  /\ busy' = busy \cup {held[o].ptr}
  /\ UNCHANGED <<free_, allocated_, heap, held>>

CompleteOn(p) ==
  /\ p \in busy
  /\ busy' = busy \ {p}
  /\ UNCHANGED <<free_, allocated_, heap, held>>

CacheNext ==
  \/ \E o \in Owner, n \in Size :
        AllocateHit(o, n) \/ AllocateMiss(o, n) \/ AllocateFails(o, n)
  \/ \E o \in Owner : Deallocate(o) \/ LaunchOn(o)
  \/ \E p \in BlockPtr : CompleteOn(p)

CacheSpec == CacheInit /\ [][CacheNext]_cacheVars

-----------------------------------------------------------------------------
(* Properties *)

(* Every variable has its declared range. *)
CacheTypeOK ==
  /\ free_ \in SUBSET (Size \X BlockPtr)
  /\ allocated_ \in [BlockPtr -> Size \cup {Absent}]
  /\ heap \in [BlockPtr -> Size \cup {Absent}]
  /\ held \in [Owner -> [ptr : BlockPtr \cup {NullPtr}, cnt : Size \cup {0}]]
  /\ busy \in SUBSET BlockPtr

(* No block is handed out twice: whatever mix of reuse and fresh           *)
(* allocation produced them, two owners never share a pointer.             *)
ExclusiveBlocks ==
  \A o1, o2 \in Owner :
    held[o1].ptr = held[o2].ptr /\ held[o1].ptr # NullPtr => o1 = o2

(* A block in an owner's hands is live at the backend with exactly the     *)
(* count the owner asked for, and the assert in deallocate() will find it. *)
BlockFits ==
  \A o \in Owner :
    held[o].ptr # NullPtr =>
      /\ heap[held[o].ptr] = held[o].cnt
      /\ allocated_[held[o].ptr] = held[o].cnt

(* The maps account for the backend's memory: a live block is either       *)
(* handed out or cached, never both, cached once and under its true size,  *)
(* and no block is in a map that the backend has not allocated.            *)
CacheAccounting ==
  /\ \A p \in BlockPtr :
       /\ heap[p] # Absent <=> (allocated_[p] # Absent \/ Cached(p))
       /\ ~ (allocated_[p] # Absent /\ Cached(p))
  /\ \A e \in free_ : heap[e[2]] = e[1]

(* A block in the cache has no device work pending on it: reuse, by host   *)
(* or device, cannot race with it.                                         *)
NoWorkOnReleased ==
  \A p \in busy : \E o \in Owner : held[o].ptr = p

(* The caching allocator keeps the promise that gtensor's containers rely  *)
(* on: a block is exclusively its owner's and arrives with no work pending *)
(* on it, whether it comes from the cache or from the backend.             *)
Promise == INSTANCE AllocatorPromise

ImplementsPromise == Promise!Spec
=============================================================================
