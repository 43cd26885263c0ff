-------------------------- MODULE OwnershipProofs --------------------------
(***************************************************************************)
(* Proofs about who owns what while devices work behind the host's back:   *)
(* cached blocks (CachingAllocator), FFT plans (FFTPlans), storage         *)
(* (GtensorStorage), and streams with the work on their queues             *)
(* (DeviceRuntime over StreamOwner).  Each part is about any number of     *)
(* owners, addresses, handles, queues or devices, and has its own          *)
(* inductive invariant; they share the facts about folds of a queue.       *)
(***************************************************************************)
EXTENDS GtensorStorage, CachingAllocator, FFTPlans, DeviceRuntime, TLAPS

-----------------------------------------------------------------------------
(* THE CACHING ALLOCATOR                                                   *)
(*                                                                         *)
(* The safety properties of CachingAllocator.tla are inductive together,   *)
(* not one by one: that a cached block has no owner (ExclusiveBlocks after *)
(* a hit) needs BlockFits and CacheAccounting, and that no work is pending *)
(* on it needs NoWorkOnReleased as well.                                   *)

(* No leak into the map: every block recorded as handed out has an owner   *)
(* that will give it back.                                                 *)
AllocatedIsHeld ==
  \A p \in BlockPtr : allocated_[p] # Absent => \E o \in Owner : held[o].ptr = p

(* The inductive invariant: the conjunction of the checked invariants and  *)
(* AllocatedIsHeld.                                                        *)
CacheInv ==
  /\ CacheTypeOK
  /\ ExclusiveBlocks
  /\ BlockFits
  /\ CacheAccounting
  /\ AllocatedIsHeld
  /\ NoWorkOnReleased

(* No count is the mark of an absent entry.                                *)
LEMMA CountsArePresent == \A n \in Size \cup {0} : n \in Nat /\ n # Absent
<1>1. \A n \in Size : n \in Nat
  BY CacheAssumption DEF CacheAssumption
<1>2. 0 \in Nat
  OBVIOUS
<1>3. \A n \in Nat : n # Absent
  BY CacheAssumption DEF CacheAssumption
<1>. QED  BY <1>1, <1>2, <1>3

(* What must hold of a new owner's block for the invariant to survive:     *)
(* nobody holds it and no work is pending on it.                           *)
LEMMA CachedIsUnowned ==
  ASSUME CacheInv, NEW n \in Size, NEW p \in CachedWith(n)
  PROVE  /\ p \in BlockPtr
         /\ <<n, p>> \in free_
         /\ heap[p] = n
         /\ allocated_[p] = Absent
         /\ \A o \in Owner : held[o].ptr # p
         /\ p \notin busy
<1>1. p \in BlockPtr /\ <<n, p>> \in free_
  BY DEF CachedWith
<1>2. heap[p] = n /\ Cached(p)
  BY <1>1 DEF CacheInv, CacheAccounting, Cached
<1>3. allocated_[p] = Absent
  BY <1>1, <1>2 DEF CacheInv, CacheAccounting
<1>4. ASSUME NEW o \in Owner PROVE held[o].ptr # p
  <2>1. SUFFICES ASSUME held[o].ptr = p PROVE FALSE
    OBVIOUS
  <2>2. held[o].cnt = Absent
    BY <1>1, <1>3, <2>1, CacheAssumption DEF CacheAssumption, CacheInv, BlockFits
  <2>3. held[o] \in [ptr : BlockPtr \cup {NullPtr}, cnt : Size \cup {0}]
    BY DEF CacheInv, CacheTypeOK
  <2>. QED  BY <2>2, <2>3, CountsArePresent
<1>5. p \notin busy
  BY <1>4 DEF CacheInv, NoWorkOnReleased
<1>. QED  BY <1>1, <1>2, <1>3, <1>4, <1>5

(* The same of an address the backend allocator considers free.            *)
LEMMA DeadIsUnowned ==
  ASSUME CacheInv, NEW p \in BlockPtr, heap[p] = Absent
  PROVE  /\ allocated_[p] = Absent
         /\ ~ Cached(p)
         /\ \A o \in Owner : held[o].ptr # p
         /\ p \notin busy
<1>1. allocated_[p] = Absent /\ ~ Cached(p)
  BY DEF CacheInv, CacheAccounting
<1>2. ASSUME NEW o \in Owner PROVE held[o].ptr # p
  <2>1. SUFFICES ASSUME held[o].ptr = p PROVE FALSE
    OBVIOUS
  <2>2. held[o].cnt = Absent
    BY <2>1, CacheAssumption DEF CacheAssumption, CacheInv, BlockFits
  <2>3. held[o] \in [ptr : BlockPtr \cup {NullPtr}, cnt : Size \cup {0}]
    BY DEF CacheInv, CacheTypeOK
  <2>. QED  BY <2>2, <2>3, CountsArePresent
<1>3. p \notin busy
  BY <1>2 DEF CacheInv, NoWorkOnReleased
<1>. QED  BY <1>1, <1>2, <1>3

LEMMA CacheInvInit == CacheInit => CacheInv
<1>. SUFFICES ASSUME CacheInit PROVE CacheInv
  OBVIOUS
<1>1. CacheTypeOK
  BY DEF CacheInit, CacheTypeOK, NoBlock
<1>2. ExclusiveBlocks /\ BlockFits /\ NoWorkOnReleased
  BY DEF CacheInit, NoBlock, ExclusiveBlocks, BlockFits, NoWorkOnReleased
<1>3. CacheAccounting /\ AllocatedIsHeld
  BY DEF CacheInit, CacheAccounting, AllocatedIsHeld, Cached
<1>. QED  BY <1>1, <1>2, <1>3 DEF CacheInv

LEMMA AllocateHitStep ==
  ASSUME CacheInv, NEW o \in Owner, NEW n \in Size, AllocateHit(o, n)
  PROVE  CacheInv'
<1>1. PICK p \in CachedWith(n) :
        /\ free_' = free_ \ {<<n, p>>}
        /\ allocated_' = Emplace(allocated_, p, n)
        /\ held' = [held EXCEPT ![o] = [ptr |-> p, cnt |-> n]]
  BY DEF AllocateHit
<1>2. /\ held[o] = NoBlock
      /\ heap' = heap
      /\ busy' = busy
  BY DEF AllocateHit
<1>3. /\ p \in BlockPtr
      /\ <<n, p>> \in free_
      /\ heap[p] = n
      /\ allocated_[p] = Absent
      /\ \A q \in Owner : held[q].ptr # p
      /\ p \notin busy
  BY CachedIsUnowned
<1>4. allocated_' = [allocated_ EXCEPT ![p] = n]
  BY <1>1, <1>3 DEF Emplace
<1>5. /\ held \in [Owner -> [ptr : BlockPtr \cup {NullPtr}, cnt : Size \cup {0}]]
      /\ allocated_ \in [BlockPtr -> Size \cup {Absent}]
  BY DEF CacheInv, CacheTypeOK
<1>6. \A q \in Owner : held'[q] = IF q = o THEN [ptr |-> p, cnt |-> n] ELSE held[q]
  BY <1>1, <1>5
<1>7. \A q \in BlockPtr : allocated_'[q] = IF q = p THEN n ELSE allocated_[q]
  BY <1>3, <1>4, <1>5
<1>8. CacheTypeOK'
  BY <1>1, <1>2, <1>3, <1>4, <1>5 DEF CacheInv, CacheTypeOK
<1>9. ExclusiveBlocks'
  BY <1>3, <1>6 DEF CacheInv, ExclusiveBlocks
<1>10. BlockFits'
  BY <1>2, <1>3, <1>5, <1>6, <1>7 DEF CacheInv, BlockFits
<1>11. CacheAccounting'
  <2>1. ~ Cached(p)'
    BY <1>1, <1>3 DEF CacheInv, CacheAccounting, Cached
  <2>2. \A q \in BlockPtr : q # p => (Cached(q)' <=> Cached(q))
    BY <1>1 DEF Cached
  <2>3. n # Absent
    BY CacheAssumption DEF CacheAssumption
  <2>. QED
    BY <1>1, <1>2, <1>3, <1>7, <2>1, <2>2, <2>3 DEF CacheInv, CacheAccounting
<1>12. AllocatedIsHeld'
  <2>. SUFFICES ASSUME NEW q \in BlockPtr, allocated_'[q] # Absent
                PROVE  \E w \in Owner : held'[w].ptr = q
    BY DEF AllocatedIsHeld
  <2>1. CASE q = p
    BY <1>6, <2>1
  <2>2. CASE q # p
    <3>1. PICK w \in Owner : held[w].ptr = q
      BY <1>7, <2>2 DEF CacheInv, AllocatedIsHeld
    <3>2. w # o
      BY <1>2, <3>1, CacheAssumption DEF CacheAssumption, NoBlock
    <3>. QED  BY <1>6, <3>1, <3>2
  <2>. QED  BY <2>1, <2>2
<1>13. NoWorkOnReleased'
  BY <1>2, <1>6, CacheAssumption
  DEF CacheAssumption, CacheInv, CacheTypeOK, NoWorkOnReleased, NoBlock
<1>. QED  BY <1>8, <1>9, <1>10, <1>11, <1>12, <1>13 DEF CacheInv

LEMMA AllocateMissStep ==
  ASSUME CacheInv, NEW o \in Owner, NEW n \in Size, AllocateMiss(o, n)
  PROVE  CacheInv'
<1>1. PICK p \in {q \in BlockPtr : heap[q] = Absent} :
        /\ heap' = [heap EXCEPT ![p] = n]
        /\ allocated_' = Emplace(allocated_, p, n)
        /\ held' = [held EXCEPT ![o] = [ptr |-> p, cnt |-> n]]
  BY DEF AllocateMiss
<1>2. /\ held[o] = NoBlock
      /\ free_' = free_
      /\ busy' = busy
  BY DEF AllocateMiss
<1>3. /\ p \in BlockPtr
      /\ heap[p] = Absent
      /\ allocated_[p] = Absent
      /\ ~ Cached(p)
      /\ \A q \in Owner : held[q].ptr # p
      /\ p \notin busy
  BY DeadIsUnowned
<1>4. allocated_' = [allocated_ EXCEPT ![p] = n]
  BY <1>1, <1>3 DEF Emplace
<1>5. /\ held \in [Owner -> [ptr : BlockPtr \cup {NullPtr}, cnt : Size \cup {0}]]
      /\ allocated_ \in [BlockPtr -> Size \cup {Absent}]
      /\ heap \in [BlockPtr -> Size \cup {Absent}]
  BY DEF CacheInv, CacheTypeOK
<1>6. \A q \in Owner : held'[q] = IF q = o THEN [ptr |-> p, cnt |-> n] ELSE held[q]
  BY <1>1, <1>5
<1>7. \A q \in BlockPtr : /\ allocated_'[q] = IF q = p THEN n ELSE allocated_[q]
                     /\ heap'[q] = IF q = p THEN n ELSE heap[q]
  BY <1>1, <1>3, <1>4, <1>5
<1>8. CacheTypeOK'
  BY <1>1, <1>2, <1>3, <1>4, <1>5 DEF CacheInv, CacheTypeOK
<1>9. ExclusiveBlocks'
  BY <1>3, <1>6 DEF CacheInv, ExclusiveBlocks
<1>10. BlockFits'
  BY <1>3, <1>5, <1>6, <1>7 DEF CacheInv, BlockFits
<1>11. CacheAccounting'
  <2>1. \A q \in BlockPtr : Cached(q)' <=> Cached(q)
    BY <1>2 DEF Cached
  <2>2. n # Absent
    BY CacheAssumption DEF CacheAssumption
  <2>3. \A e \in free_ : e \in Size \X BlockPtr /\ e = <<e[1], e[2]>> /\ e[2] # p
    BY <1>3 DEF CacheInv, CacheTypeOK, Cached
  <2>. QED
    BY <1>2, <1>3, <1>7, <2>1, <2>2, <2>3 DEF CacheInv, CacheAccounting
<1>12. AllocatedIsHeld'
  <2>. SUFFICES ASSUME NEW q \in BlockPtr, allocated_'[q] # Absent
                PROVE  \E w \in Owner : held'[w].ptr = q
    BY DEF AllocatedIsHeld
  <2>1. CASE q = p
    BY <1>6, <2>1
  <2>2. CASE q # p
    <3>1. PICK w \in Owner : held[w].ptr = q
      BY <1>7, <2>2 DEF CacheInv, AllocatedIsHeld
    <3>2. w # o
      BY <1>2, <3>1, CacheAssumption DEF CacheAssumption, NoBlock
    <3>. QED  BY <1>6, <3>1, <3>2
  <2>. QED  BY <2>1, <2>2
<1>13. NoWorkOnReleased'
  BY <1>2, <1>6, CacheAssumption
  DEF CacheAssumption, CacheInv, CacheTypeOK, NoWorkOnReleased, NoBlock
<1>. QED  BY <1>8, <1>9, <1>10, <1>11, <1>12, <1>13 DEF CacheInv

LEMMA AllocateFailsStep ==
  ASSUME CacheInv, NEW o \in Owner, NEW n \in Size, AllocateFails(o, n)
  PROVE  CacheInv'
<1>1. /\ held[o] = NoBlock
      /\ held' = [held EXCEPT ![o] = [ptr |-> NullPtr, cnt |-> n]]
      /\ UNCHANGED <<free_, allocated_, heap, busy>>
  BY DEF AllocateFails
<1>2. held \in [Owner -> [ptr : BlockPtr \cup {NullPtr}, cnt : Size \cup {0}]]
  BY DEF CacheInv, CacheTypeOK
<1>3. \A q \in Owner : /\ held'[q].ptr = held[q].ptr
                       /\ held[q].ptr # NullPtr => held'[q].cnt = held[q].cnt
  BY <1>1, <1>2 DEF NoBlock
<1>4. CacheTypeOK'
  BY <1>1, <1>2 DEF CacheInv, CacheTypeOK
<1>5. CacheAccounting'
  BY <1>1 DEF CacheInv, CacheAccounting, Cached
<1>6. ExclusiveBlocks' /\ BlockFits' /\ AllocatedIsHeld' /\ NoWorkOnReleased'
  BY <1>1, <1>3 DEF CacheInv, ExclusiveBlocks, BlockFits, AllocatedIsHeld, NoWorkOnReleased
<1>. QED  BY <1>4, <1>5, <1>6 DEF CacheInv

LEMMA DeallocateStep ==
  ASSUME CacheInv, NEW o \in Owner, Deallocate(o)
  PROVE  CacheInv'
<1>. DEFINE p == held[o].ptr
<1>1. /\ held[o] # NoBlock
      /\ busy' = {}
      /\ ReturnToCache(p)
      /\ held' = [held EXCEPT ![o] = NoBlock]
      /\ heap' = heap
  BY DEF Deallocate
<1>2. /\ held \in [Owner -> [ptr : BlockPtr \cup {NullPtr}, cnt : Size \cup {0}]]
      /\ allocated_ \in [BlockPtr -> Size \cup {Absent}]
      /\ free_ \in SUBSET (Size \X BlockPtr)
  BY DEF CacheInv, CacheTypeOK
<1>3. \A q \in Owner : held'[q] = IF q = o THEN NoBlock ELSE held[q]
  BY <1>1, <1>2
<1>4. ExclusiveBlocks'
  BY <1>3 DEF CacheInv, ExclusiveBlocks, NoBlock
<1>5. NoWorkOnReleased'
  BY <1>1 DEF NoWorkOnReleased
<1>6. CASE p = NullPtr
  <2>1. UNCHANGED <<free_, allocated_>>
    BY <1>1, <1>6 DEF ReturnToCache
  <2>2. CacheTypeOK'
    BY <1>1, <1>2, <2>1 DEF CacheInv, CacheTypeOK, NoBlock
  <2>3. BlockFits'
    BY <1>1, <1>3, <2>1 DEF CacheInv, BlockFits, NoBlock
  <2>4. CacheAccounting'
    BY <1>1, <2>1 DEF CacheInv, CacheAccounting, Cached
  <2>5. AllocatedIsHeld'
    <3>. SUFFICES ASSUME NEW q \in BlockPtr, allocated_[q] # Absent
                  PROVE  \E w \in Owner : held'[w].ptr = q
      BY <2>1 DEF AllocatedIsHeld
    <3>1. PICK w \in Owner : held[w].ptr = q
      BY DEF CacheInv, AllocatedIsHeld
    <3>2. w # o
      BY <1>6, <3>1, CacheAssumption DEF CacheAssumption
    <3>. QED  BY <1>3, <3>1, <3>2
  <2>. QED  BY <1>4, <1>5, <2>2, <2>3, <2>4, <2>5 DEF CacheInv
<1>7. CASE p # NullPtr
  <2>. DEFINE n == allocated_[p]
  <2>1. /\ n # Absent
        /\ free_' = free_ \cup {<<n, p>>}
        /\ allocated_' = [allocated_ EXCEPT ![p] = Absent]
    BY <1>1, <1>7 DEF ReturnToCache
  <2>2. p \in BlockPtr /\ n \in Size
    BY <1>2, <1>7, <2>1
  <2>3. /\ heap[p] = n
        /\ ~ Cached(p)
    BY <1>7, <2>1, <2>2 DEF CacheInv, BlockFits, CacheAccounting
  <2>4. \A q \in BlockPtr : allocated_'[q] = IF q = p THEN Absent ELSE allocated_[q]
    BY <1>2, <2>1, <2>2
  <2>5. \A q \in BlockPtr : Cached(q)' <=> (q = p \/ Cached(q))
    BY <2>1, <2>2 DEF Cached
  <2>6. \A w \in Owner : w # o => held[w].ptr # p
    BY <1>7 DEF CacheInv, ExclusiveBlocks
  <2>7. CacheTypeOK'
    BY <1>1, <1>2, <2>1, <2>2 DEF CacheInv, CacheTypeOK, NoBlock
  <2>8. BlockFits'
    <3>. SUFFICES ASSUME NEW w \in Owner, held'[w].ptr # NullPtr
                  PROVE  /\ heap'[held'[w].ptr] = held'[w].cnt
                         /\ allocated_'[held'[w].ptr] = held'[w].cnt
      BY DEF BlockFits
    <3>1. w # o /\ held'[w] = held[w]
      BY <1>3 DEF NoBlock
    <3>2. held[w].ptr \in BlockPtr /\ held[w].ptr # p
      BY <1>2, <2>6, <3>1
    <3>. QED  BY <1>1, <2>4, <3>1, <3>2 DEF CacheInv, BlockFits
  <2>9. CacheAccounting'
    BY <1>1, <2>1, <2>2, <2>3, <2>4, <2>5 DEF CacheInv, CacheAccounting
  <2>10. AllocatedIsHeld'
    <3>. SUFFICES ASSUME NEW q \in BlockPtr, allocated_'[q] # Absent
                  PROVE  \E w \in Owner : held'[w].ptr = q
      BY DEF AllocatedIsHeld
    <3>1. q # p /\ allocated_[q] # Absent
      BY <2>4
    <3>2. PICK w \in Owner : held[w].ptr = q
      BY <3>1 DEF CacheInv, AllocatedIsHeld
    <3>. QED  BY <1>3, <3>1, <3>2
  <2>. QED  BY <1>4, <1>5, <2>7, <2>8, <2>9, <2>10 DEF CacheInv
<1>. QED  BY <1>6, <1>7

LEMMA LaunchOnStep ==
  ASSUME CacheInv, NEW o \in Owner, LaunchOn(o)
  PROVE  CacheInv'
<1>1. /\ held[o].ptr # NullPtr
      /\ busy' = busy \cup {held[o].ptr}
      /\ UNCHANGED <<free_, allocated_, heap, held>>
  BY DEF LaunchOn
<1>2. CacheTypeOK'
  BY <1>1 DEF CacheInv, CacheTypeOK
<1>3. CacheAccounting'
  BY <1>1 DEF CacheInv, CacheAccounting, Cached
<1>4. ExclusiveBlocks' /\ BlockFits' /\ AllocatedIsHeld' /\ NoWorkOnReleased'
  BY <1>1 DEF CacheInv, ExclusiveBlocks, BlockFits, AllocatedIsHeld, NoWorkOnReleased
<1>. QED  BY <1>2, <1>3, <1>4 DEF CacheInv

LEMMA CompleteOnStep ==
  ASSUME CacheInv, NEW p \in BlockPtr, CompleteOn(p)
  PROVE  CacheInv'
<1>1. /\ busy' = busy \ {p}
      /\ UNCHANGED <<free_, allocated_, heap, held>>
  BY DEF CompleteOn
<1>2. CacheTypeOK'
  BY <1>1 DEF CacheInv, CacheTypeOK
<1>3. CacheAccounting'
  BY <1>1 DEF CacheInv, CacheAccounting, Cached
<1>4. ExclusiveBlocks' /\ BlockFits' /\ AllocatedIsHeld' /\ NoWorkOnReleased'
  BY <1>1 DEF CacheInv, ExclusiveBlocks, BlockFits, AllocatedIsHeld, NoWorkOnReleased
<1>. QED  BY <1>2, <1>3, <1>4 DEF CacheInv

LEMMA CacheStutter ==
  ASSUME CacheInv, UNCHANGED cacheVars
  PROVE  CacheInv'
BY DEF cacheVars, CacheInv, CacheTypeOK, ExclusiveBlocks, BlockFits, CacheAccounting,
       AllocatedIsHeld, NoWorkOnReleased, Cached

LEMMA CacheInvNext == CacheInv /\ [CacheNext]_cacheVars => CacheInv'
<1>. SUFFICES ASSUME CacheInv, [CacheNext]_cacheVars PROVE CacheInv'
  OBVIOUS
<1>1. ASSUME NEW o \in Owner, NEW n \in Size,
             AllocateHit(o, n) \/ AllocateMiss(o, n) \/ AllocateFails(o, n)
      PROVE  CacheInv'
  BY <1>1, AllocateHitStep, AllocateMissStep, AllocateFailsStep
<1>2. ASSUME NEW o \in Owner, Deallocate(o) \/ LaunchOn(o)
      PROVE  CacheInv'
  BY <1>2, DeallocateStep, LaunchOnStep
<1>3. ASSUME NEW p \in BlockPtr, CompleteOn(p)
      PROVE  CacheInv'
  BY <1>3, CompleteOnStep
<1>4. CASE UNCHANGED cacheVars
  BY <1>4, CacheStutter
<1>. QED  BY <1>1, <1>2, <1>3, <1>4 DEF CacheNext

(* The strengthening is an invariant of the allocator.                     *)
THEOREM CacheInvariance == CacheSpec => []CacheInv
BY CacheInvInit, CacheInvNext, PTL DEF CacheSpec

(* The maps, the backend and the owners always have their declared types.  *)
THEOREM CacheTypeCorrect == CacheSpec => []CacheTypeOK
<1>1. CacheInv => CacheTypeOK
  BY DEF CacheInv
<1>. QED  BY <1>1, CacheInvariance, PTL

(* No block ever has two owners, for any number of owners and addresses.   *)
THEOREM Exclusion == CacheSpec => []ExclusiveBlocks
<1>1. CacheInv => ExclusiveBlocks
  BY DEF CacheInv
<1>. QED  BY <1>1, CacheInvariance, PTL

(* A held block is live, has the size asked for, and is found by the       *)
(* assert in deallocate().                                                 *)
THEOREM Fitting == CacheSpec => []BlockFits
<1>1. CacheInv => BlockFits
  BY DEF CacheInv
<1>. QED  BY <1>1, CacheInvariance, PTL

(* Every block of the backend is in exactly one of the two maps.           *)
THEOREM Accounting == CacheSpec => [](CacheAccounting /\ AllocatedIsHeld)
<1>1. CacheInv => CacheAccounting /\ AllocatedIsHeld
  BY DEF CacheInv
<1>. QED  BY <1>1, CacheInvariance, PTL

(* The cache never receives a block that queued work still touches.        *)
THEOREM Quiescence == CacheSpec => []NoWorkOnReleased
<1>1. CacheInv => NoWorkOnReleased
  BY DEF CacheInv
<1>. QED  BY <1>1, CacheInvariance, PTL

-----------------------------------------------------------------------------
(* Every step of the allocator is a step of AllocatorPromise or leaves     *)
(* held and busy alone.                                                    *)

LEMMA CacheNextRefines == CacheInv /\ [CacheNext]_cacheVars => [Promise!Next]_Promise!vars
<1>. SUFFICES ASSUME CacheInv, [CacheNext]_cacheVars PROVE Promise!Next \/ UNCHANGED Promise!vars
  OBVIOUS
<1>. USE DEF Promise!NoBlock, Promise!InUse, Promise!vars, NoBlock
<1>1. ASSUME NEW o \in Owner, NEW n \in Size, AllocateHit(o, n)
      PROVE  Promise!Acquire(o, n)
  <2>1. PICK p \in CachedWith(n) : held' = [held EXCEPT ![o] = [ptr |-> p, cnt |-> n]]
    BY <1>1 DEF AllocateHit
  <2>2. p \in BlockPtr /\ (\A q \in Owner : held[q].ptr # p) /\ p \notin busy
    BY CachedIsUnowned
  <2>. QED  BY <1>1, <2>1, <2>2 DEF AllocateHit, Promise!Acquire
<1>2. ASSUME NEW o \in Owner, NEW n \in Size, AllocateMiss(o, n)
      PROVE  Promise!Acquire(o, n)
  <2>1. PICK p \in {q \in BlockPtr : heap[q] = Absent} :
          held' = [held EXCEPT ![o] = [ptr |-> p, cnt |-> n]]
    BY <1>2 DEF AllocateMiss
  <2>2. p \in BlockPtr /\ (\A q \in Owner : held[q].ptr # p) /\ p \notin busy
    BY DeadIsUnowned
  <2>. QED  BY <1>2, <2>1, <2>2 DEF AllocateMiss, Promise!Acquire
<1>3. ASSUME NEW o \in Owner, NEW n \in Size, AllocateFails(o, n)
      PROVE  Promise!Acquire(o, n)
  BY <1>3 DEF AllocateFails, Promise!Acquire
<1>4. ASSUME NEW o \in Owner, Deallocate(o)
      PROVE  Promise!Release(o)
  BY <1>4 DEF Deallocate, Promise!Release
<1>5. ASSUME NEW o \in Owner, LaunchOn(o)
      PROVE  Promise!Launch(o)
  BY <1>5 DEF LaunchOn, Promise!Launch
<1>6. ASSUME NEW p \in BlockPtr, CompleteOn(p)
      PROVE  Promise!Complete(p)
  BY <1>6 DEF CompleteOn, Promise!Complete
<1>7. CASE UNCHANGED cacheVars
  BY <1>7 DEF cacheVars
<1>. QED  BY <1>1, <1>2, <1>3, <1>4, <1>5, <1>6, <1>7 DEF CacheNext, Promise!Next

(* The caching allocator implements the promise of AllocatorPromise: a     *)
(* block, cached or fresh, is exclusively its owner's and arrives idle.    *)
THEOREM CacheRefinement == CacheSpec => ImplementsPromise
<1>1. CacheInit => Promise!Init
  BY DEF CacheInit, Promise!Init, NoBlock, Promise!NoBlock
<1>. QED  BY <1>1, CacheInvariance, CacheNextRefines, PTL DEF CacheSpec, ImplementsPromise, Promise!Spec

-----------------------------------------------------------------------------
(* FFT PLANS                                                               *)
(*                                                                         *)
(* On every backend, as long as the application does not move from an      *)
(* object it moved from before (FromMoved is FALSE; the run in which it    *)
(* does finds a double destruction).  An object is either intact, with the *)
(* parts made for it under its handles, or emptied, with nothing to give   *)
(* back.  Intact says nothing of is_valid_: a CUDA object may hold a plan  *)
(* and refuse to execute it.                                               *)

ByHand(b) == b \in {"cuda", "hip"}

(* Object p of backend b has its parts, which library l has under H.       *)
Intact(p, H, l, b) ==
  /\ p.forward \in H /\ l[p.forward] \in {"forward", "both"}
  /\ p.inverse = None => l[p.forward] = "both"
  /\ p.inverse # None => p.inverse \in H /\ l[p.inverse] = "inverse"
  /\ p.inverse # None <=> b \in {"hip", "bbfft"} \/ p.asymmetric
  /\ p.buffer # None => p.buffer \in H /\ l[p.buffer] = "buffer"

Emptied(p, b) ==
  IF ByHand(b) THEN ~ p.is_valid_ ELSE p.forward = None /\ p.inverse = None

ObjectOK(p, H, l, b) ==
  /\ p \in PlanObjects /\ H \subseteq Handle
  /\ H # {} => Intact(p, H, l, b)
  /\ H = {} => Emptied(p, b)
  /\ \A h \in H : l[h] \in PlanResources

PlansInv ==
  /\ backend \in {"cuda", "hip", "sycl", "bbfft"}
  /\ PlansTypeOK
  /\ \A o \in Plan : ~ PlanAlive(o) => holds[o] = {}
  /\ \A o \in Plan : PlanAlive(o) => ObjectOK(plan[o], holds[o], live, backend)
  /\ \A o, s \in Plan : o # s => holds[o] \cap holds[s] = {}

USE PlansAssumption DEF PlansAssumption

-----------------------------------------------------------------------------
(* One object *)

(* A destructor gives back at most the parts of its object, and nothing    *)
(* that the object does not hold.                                          *)
LEMMA DestroyedHeld ==
  ASSUME PlansInv, NEW o \in Plan, PlanAlive(o)
  PROVE  Destroyed(plan[o]) \subseteq holds[o]
<1> DEFINE p == plan[o]
<1>1. /\ ObjectOK(p, holds[o], live, backend) /\ p \in PlanObjects
      /\ backend \in {"cuda", "hip", "sycl", "bbfft"}
  BY DEF PlansInv, ObjectOK
<1> HIDE DEF p
<1>2. CASE backend = "cuda"
  <2>1. Destroyed(p) = (IF ~ p.is_valid_ THEN {}
                        ELSE {p.forward} \cup (IF p.asymmetric THEN {p.inverse} ELSE {}))
                       \ {None}
    BY <1>2 DEF Destroyed
  <2>. QED  BY <1>1, <1>2, <2>1 DEF ObjectOK, Intact, Emptied, ByHand, p
<1>3. CASE backend = "hip"
  <2>1. Destroyed(p) = (IF p.is_valid_ THEN {p.forward, p.inverse, p.buffer} ELSE {}) \ {None}
    BY <1>3 DEF Destroyed
  <2>. QED  BY <1>1, <1>3, <2>1 DEF ObjectOK, Intact, Emptied, ByHand, p
<1>4. CASE backend \in {"sycl", "bbfft"}
  <2>1. Destroyed(p) = {p.forward, p.inverse} \ {None}
    BY <1>4 DEF Destroyed
  <2>. QED  BY <1>1, <1>4, <2>1 DEF ObjectOK, Intact, Emptied, ByHand, p
<1>. QED  BY <1>1, <1>2, <1>3, <1>4

(* What a library does with other handles does not disturb an object.      *)
LEMMA PlanKept ==
  ASSUME NEW p, NEW H, NEW l, NEW m, NEW b, ObjectOK(p, H, l, b), \A h \in H : m[h] = l[h]
  PROVE  ObjectOK(p, H, m, b)
  BY DEF ObjectOK, Intact

(* A move takes all parts along, whatever it does to the mark.             *)
LEMMA MovedTo ==
  ASSUME NEW p, NEW H, NEW l, NEW b, ObjectOK(p, H, l, b), H # {}, NEW v \in BOOLEAN
  PROVE  ObjectOK([p EXCEPT !.is_valid_ = v], H, l, b)
  BY DEF ObjectOK, Intact, PlanObjects

LEMMA MovedFromEmptied ==
  ASSUME NEW p \in PlanObjects, backend \in {"cuda", "hip", "sycl", "bbfft"}, NEW l
  PROVE  ObjectOK(MovedFrom(p), {}, l, backend)
<1>1. CASE backend \in {"cuda", "hip"}
  BY <1>1 DEF MovedFrom, ObjectOK, Emptied, ByHand, PlanObjects
<1>2. CASE backend \notin {"cuda", "hip"}
  BY <1>2 DEF MovedFrom, ObjectOK, Emptied, ByHand, PlanObjects
<1>. QED  BY <1>1, <1>2

(* An object is alive when it is none of the marks.                        *)
LEMMA ObjectIsAlive ==
  ASSUME NEW p, NEW H, NEW l, NEW b, ObjectOK(p, H, l, b)
  PROVE  p \in PlanObjects /\ p # DeadPlan
  BY DEF ObjectOK

-----------------------------------------------------------------------------
(* The calls *)

LEMMA PlansInvInit == PlansInit => PlansInv
  BY DEF PlansInit, PlansInv, PlansTypeOK, PlanAlive

LEMMA CreateStep ==
  ASSUME PlansInv, NEW o \in Plan, NEW t \in Transform, Create(o, t)
  PROVE  PlansInv'
<1>1. PICK f, i, b \in {h \in Handle : live[h] = DeadPlan} \cup {None} :
        /\ f # None /\ f \notin {i, b} /\ (i = b => i = None)
        /\ i # None <=> SeparateInverse(t)
        /\ b # None => backend = "hip"
        /\ live' = [h \in Handle |->
                      CASE h = f -> IF i = None THEN "both" ELSE "forward"
                        [] h = i -> "inverse"
                        [] h = b -> "buffer"
                        [] OTHER -> live[h]]
        /\ plan' = [plan EXCEPT ![o] = Members(f, i, b, t)]
        /\ holds' = [holds EXCEPT ![o] = {f, i, b} \ {None}]
  BY DEF Create
<1>2. ~ PlanAlive(o) /\ backend' = backend
  BY <1>1 DEF Create
<1>3. /\ f \in Handle /\ (i \in Handle \/ i = None) /\ (b \in Handle \/ b = None)
      /\ \A h \in {f, i, b} : h # None => live[h] = DeadPlan
  BY <1>1
<1>4. /\ live'[f] = IF i = None THEN "both" ELSE "forward"
      /\ i # None => live'[i] = "inverse"
      /\ b # None => live'[b] = "buffer"
      /\ \A h \in Handle \ {f, i, b} : live'[h] = live[h]
  BY <1>1, <1>3
<1>5. live' \in [Handle -> PlanResources \cup {DeadPlan}]
  <2>1. \A h \in Handle : live[h] \in PlanResources \cup {DeadPlan}
    BY DEF PlansInv, PlansTypeOK
  <2>2. \A h \in Handle : live'[h] \in PlanResources \cup {DeadPlan}
    BY <1>3, <1>4, <2>1 DEF PlanResources
  <2>3. live' = [h \in Handle |-> live'[h]]
    BY <1>1
  <2>. QED  BY <2>2, <2>3
<1>6. /\ Members(f, i, b, t) \in PlanObjects
      /\ ObjectOK(Members(f, i, b, t), {f, i, b} \ {None}, live', backend)
  <2>1. Asymmetric(t) \in BOOLEAN
    BY DEF Asymmetric
  <2>2. Members(f, i, b, t) \in PlanObjects
    BY <1>3, <2>1 DEF Members, PlanObjects
  <2>3. i # None <=> backend \in {"hip", "bbfft"} \/ Members(f, i, b, t).asymmetric
    BY <1>1 DEF Members, SeparateInverse
  <2>. QED  BY <1>1, <1>3, <1>4, <2>2, <2>3 DEF Members, ObjectOK, Intact, PlanResources
<1>7. /\ plan' \in [Plan -> PlanObjects \cup {DeadPlan}]
      /\ plan'[o] = Members(f, i, b, t)
      /\ \A u \in Plan \ {o} : plan'[u] = plan[u]
  BY <1>1, <1>6 DEF PlansInv, PlansTypeOK
<1>8. /\ holds' \in [Plan -> SUBSET Handle]
      /\ holds'[o] = {f, i, b} \ {None}
      /\ \A u \in Plan \ {o} : holds'[u] = holds[u]
  BY <1>1, <1>3 DEF PlansInv, PlansTypeOK
<1>9. \A u \in Plan : \A h \in holds[u] : h \in Handle /\ live[h] # DeadPlan
  <2>1. ASSUME NEW u \in Plan, NEW h \in holds[u] PROVE h \in Handle /\ live[h] # DeadPlan
    <3>1. ObjectOK(plan[u], holds[u], live, backend)
      BY <2>1 DEF PlansInv
    <3>. QED  BY <2>1, <3>1 DEF ObjectOK
  <2>. QED  BY <2>1
<1>10. ASSUME NEW u \in Plan, PlanAlive(u)'
       PROVE  ObjectOK(plan'[u], holds'[u], live', backend)
  <2>1. CASE u = o
    BY <1>6, <1>7, <1>8, <2>1
  <2>2. CASE u # o
    <3>1. ObjectOK(plan[u], holds[u], live, backend)
      BY <1>7, <1>10, <2>2 DEF PlansInv, PlanAlive
    <3>2. \A h \in holds[u] : live'[h] = live[h]
      BY <1>3, <1>4, <1>9
    <3>. QED  BY <1>7, <1>8, <2>2, <3>1, <3>2, PlanKept
  <2>. QED  BY <2>1, <2>2
<1>11. \A u \in Plan : ~ PlanAlive(u)' => holds'[u] = {}
  <2>1. PlanAlive(o)'
    BY <1>6, <1>7 DEF PlanAlive
  <2>. QED  BY <1>7, <1>8, <2>1 DEF PlansInv, PlanAlive
<1>12. \A u, v \in Plan : u # v => holds'[u] \cap holds'[v] = {}
  BY <1>3, <1>8, <1>9 DEF PlansInv
<1>. QED  BY <1>2, <1>5, <1>7, <1>8, <1>10, <1>11, <1>12 DEF PlansInv, PlansTypeOK

(* A call that hands the parts of s to o, and destroys at most what o had. *)
LEMMA MovePlanStep ==
  ASSUME PlansInv, ~ FromMoved, NEW o \in Plan, NEW s \in Plan, o # s, Movable(s),
         NEW v \in BOOLEAN,
         plan' = [plan EXCEPT ![o] = [plan[s] EXCEPT !.is_valid_ = v], ![s] = MovedFrom(@)],
         live' \in [Handle -> PlanResources \cup {DeadPlan}],
         \A h \in Handle : h \notin holds[o] => live'[h] = live[h],
         HoldsMoved(o, s), backend' = backend
  PROVE  PlansInv'
<1>1. /\ PlanAlive(s) /\ holds[s] # {} /\ ObjectOK(plan[s], holds[s], live, backend)
      /\ backend \in {"cuda", "hip", "sycl", "bbfft"}
  BY DEF Movable, PlansInv
<1>2. plan[s] \in PlanObjects
  BY <1>1, ObjectIsAlive
<1>3. /\ holds' \in [Plan -> SUBSET Handle]
      /\ holds'[o] = holds[s] /\ holds'[s] = {}
      /\ \A u \in Plan \ {o, s} : holds'[u] = holds[u]
  BY DEF HoldsMoved, PlansInv, PlansTypeOK
<1>4. /\ plan'[o] = [plan[s] EXCEPT !.is_valid_ = v]
      /\ plan'[s] = MovedFrom(plan[s])
      /\ \A u \in Plan \ {o, s} : plan'[u] = plan[u]
      /\ plan' = [u \in Plan |-> plan'[u]]
  BY DEF PlansInv, PlansTypeOK
<1>5. \A u \in Plan \ {o} : \A h \in holds[u] : h \in Handle /\ live'[h] = live[h]
  BY DEF PlansInv, PlansTypeOK
<1>6. ObjectOK(plan'[o], holds'[o], live', backend)
  <2>1. ObjectOK(plan'[o], holds'[o], live, backend)
    BY <1>1, <1>3, <1>4, MovedTo
  <2>. QED  BY <1>3, <1>5, <2>1, PlanKept
<1>7. ObjectOK(plan'[s], holds'[s], live', backend)
  BY <1>1, <1>2, <1>3, <1>4, MovedFromEmptied
<1>8. ASSUME NEW u \in Plan \ {o, s}, PlanAlive(u)
      PROVE  ObjectOK(plan'[u], holds'[u], live', backend)
  <2>1. ObjectOK(plan[u], holds[u], live, backend)
    BY <1>8 DEF PlansInv
  <2>2. \A h \in holds[u] : live'[h] = live[h]
    BY <1>5
  <2>3. ObjectOK(plan[u], holds[u], live', backend)
    BY <2>1, <2>2, PlanKept
  <2>. QED  BY <1>3, <1>4, <2>3
<1>9. \A u \in Plan \ {o, s} : PlanAlive(u)' <=> PlanAlive(u)
  BY <1>4 DEF PlanAlive
<1>10. plan' \in [Plan -> PlanObjects \cup {DeadPlan}]
  <2>1. \A u \in Plan \ {o, s} : plan'[u] \in PlanObjects \cup {DeadPlan}
    BY <1>4 DEF PlansInv, PlansTypeOK
  <2>2. plan'[o] \in PlanObjects /\ plan'[s] \in PlanObjects
    BY <1>6, <1>7, ObjectIsAlive
  <2>. QED  BY <1>4, <2>1, <2>2
<1>11. PlanAlive(o)' /\ PlanAlive(s)'
  BY <1>6, <1>7, ObjectIsAlive DEF PlanAlive
<1>12. \A u \in Plan : PlanAlive(u)' => ObjectOK(plan'[u], holds'[u], live', backend)
  BY <1>6, <1>7, <1>8, <1>9
<1>13. \A u \in Plan : ~ PlanAlive(u)' => holds'[u] = {}
  BY <1>3, <1>9, <1>11 DEF PlansInv
<1>14. \A u, w \in Plan : u # w => holds'[u] \cap holds'[w] = {}
  BY <1>3 DEF PlansInv
<1>. QED  BY <1>3, <1>10, <1>12, <1>13, <1>14 DEF PlansInv, PlansTypeOK

(* o = std::move(s): the targets of the SYCL backends give back at most    *)
(* what they held.                                                         *)
LEMMA MoveAssignStep ==
  ASSUME PlansInv, ~ FromMoved, NEW o \in Plan, NEW s \in Plan, MoveAssignPlan(o, s)
  PROVE  PlansInv'
<1> DEFINE v == IF backend = "cuda" THEN plan[o].is_valid_ ELSE TRUE
<1>1. /\ o # s /\ PlanAlive(o) /\ Movable(s) /\ HoldsMoved(o, s) /\ backend' = backend
      /\ plan' = [plan EXCEPT ![o] = [plan[s] EXCEPT !.is_valid_ = v], ![s] = MovedFrom(@)]
      /\ live' = IF backend \in {"cuda", "hip"} THEN live
                 ELSE [h \in Handle |-> IF h \in Destroyed(plan[o]) THEN DeadPlan ELSE live[h]]
  BY DEF MoveAssignPlan
<1>2. v \in BOOLEAN
  <2>1. plan[o] \in PlanObjects
    BY <1>1 DEF PlansInv, ObjectOK
  <2>2. plan[o].is_valid_ \in BOOLEAN
    BY <2>1 DEF PlanObjects
  <2>. QED  BY <2>2
<1> HIDE DEF v
<1>3. /\ live' \in [Handle -> PlanResources \cup {DeadPlan}]
      /\ \A h \in Handle : h \notin holds[o] => live'[h] = live[h]
  <2>1. Destroyed(plan[o]) \subseteq holds[o]
    BY <1>1, DestroyedHeld
  <2>. QED  BY <1>1, <2>1 DEF PlansInv, PlansTypeOK
<1>. QED  BY <1>1, <1>2, <1>3, MovePlanStep

LEMMA DestroyPlanStep ==
  ASSUME PlansInv, NEW o \in Plan, DestroyPlan(o)
  PROVE  PlansInv'
<1>1. /\ PlanAlive(o) /\ backend' = backend
      /\ live' = [h \in Handle |-> IF h \in Destroyed(plan[o]) THEN DeadPlan ELSE live[h]]
      /\ plan' = [plan EXCEPT ![o] = DeadPlan]
      /\ holds' = [holds EXCEPT ![o] = {}]
  BY DEF DestroyPlan
<1>2. Destroyed(plan[o]) \subseteq holds[o]
  BY <1>1, DestroyedHeld
<1>3. /\ live' \in [Handle -> PlanResources \cup {DeadPlan}]
      /\ \A h \in Handle : h \notin holds[o] => live'[h] = live[h]
  BY <1>1, <1>2 DEF PlansInv, PlansTypeOK
<1>4. /\ plan' \in [Plan -> PlanObjects \cup {DeadPlan}]
      /\ holds' \in [Plan -> SUBSET Handle]
      /\ ~ PlanAlive(o)' /\ holds'[o] = {}
      /\ \A u \in Plan \ {o} : plan'[u] = plan[u] /\ holds'[u] = holds[u]
  BY <1>1 DEF PlansInv, PlansTypeOK, PlanAlive
<1>5. ASSUME NEW u \in Plan \ {o}, PlanAlive(u)
      PROVE  ObjectOK(plan'[u], holds'[u], live', backend)
  <2>1. ObjectOK(plan[u], holds[u], live, backend)
    BY <1>5 DEF PlansInv
  <2>2. \A h \in holds[u] : live'[h] = live[h]
    BY <1>3 DEF PlansInv, PlansTypeOK
  <2>3. ObjectOK(plan[u], holds[u], live', backend)
    BY <2>1, <2>2, PlanKept
  <2>. QED  BY <1>4, <2>3
<1>6. \A u \in Plan : PlanAlive(u)' => u # o /\ PlanAlive(u)
  BY <1>4 DEF PlanAlive
<1>7. \A u \in Plan : ~ PlanAlive(u)' => holds'[u] = {}
  BY <1>4 DEF PlansInv, PlanAlive
<1>8. \A u, w \in Plan : u # w => holds'[u] \cap holds'[w] = {}
  BY <1>4 DEF PlansInv
<1>. QED  BY <1>1, <1>3, <1>4, <1>5, <1>6, <1>7, <1>8 DEF PlansInv, PlansTypeOK

LEMMA PlansInvNext == ASSUME ~ FromMoved PROVE PlansInv /\ [PlansNext]_plansVars => PlansInv'
<1> SUFFICES ASSUME PlansInv, [PlansNext]_plansVars PROVE PlansInv'
  OBVIOUS
<1>1. ASSUME NEW o \in Plan, DestroyPlan(o) PROVE PlansInv'
  BY <1>1, DestroyPlanStep
<1>2. ASSUME NEW o \in Plan, NEW t \in Transform, Create(o, t) PROVE PlansInv'
  BY <1>2, CreateStep
<1>3. ASSUME NEW o \in Plan, NEW s \in Plan, MoveConstructPlan(o, s) PROVE PlansInv'
  <2>1. /\ ~ PlanAlive(o) /\ Movable(s) /\ o # s /\ HoldsMoved(o, s)
        /\ plan' = [plan EXCEPT ![o] = [plan[s] EXCEPT !.is_valid_ = TRUE],
                                ![s] = MovedFrom(@)]
        /\ backend' = backend /\ live' = live
    BY <1>3 DEF MoveConstructPlan, Movable
  <2>2. live' \in [Handle -> PlanResources \cup {DeadPlan}]
    BY <2>1 DEF PlansInv, PlansTypeOK
  <2>3. TRUE \in BOOLEAN
    OBVIOUS
  <2>. QED  BY <2>1, <2>2, <2>3, MovePlanStep
<1>4. ASSUME NEW o \in Plan, NEW s \in Plan, MoveAssignPlan(o, s) PROVE PlansInv'
  BY <1>4, MoveAssignStep
<1>5. CASE UNCHANGED plansVars
  BY <1>5 DEF plansVars, PlansInv, PlansTypeOK, PlanAlive
<1>. QED  BY <1>1, <1>2, <1>3, <1>4, <1>5 DEF PlansNext

LEMMA PlansInvariance == ASSUME ~ FromMoved PROVE PlansSpec => []PlansInv
  BY PlansInvInit, PlansInvNext, PTL DEF PlansSpec

-----------------------------------------------------------------------------
(* What follows *)

(* Every member of a plan object, also of one that was moved from, is a    *)
(* handle of the library or none.                                          *)
THEOREM PlansTypeCorrect == ASSUME ~ FromMoved PROVE PlansSpec => []PlansTypeOK
<1>1. PlansInv => PlansTypeOK
  BY DEF PlansInv
<1>. QED  BY <1>1, PlansInvariance, PTL

(* Whatever is created, moved and destroyed, on every backend, no          *)
(* destructor gives back a plan or work buffer that is gone or that        *)
(* another object will give back.                                          *)
THEOREM NoDoubleDestroy == ASSUME ~ FromMoved PROVE PlansSpec => []SolePlanOwner
<1>1. PlansInv => SolePlanOwner
  <2> SUFFICES ASSUME PlansInv, NEW o \in Plan, PlanAlive(o)
               PROVE  /\ \A h \in Destroyed(plan[o]) : live[h] # DeadPlan
                      /\ \A s \in Plan \ {o} :
                           PlanAlive(s) => Destroyed(plan[o]) \cap Destroyed(plan[s]) = {}
    BY DEF SolePlanOwner
  <2>1. \A u \in Plan : PlanAlive(u) => Destroyed(plan[u]) \subseteq holds[u]
    BY DestroyedHeld
  <2>2. \A h \in holds[o] : live[h] # DeadPlan
    BY DEF PlansInv, ObjectOK
  <2>3. \A s \in Plan \ {o} : holds[o] \cap holds[s] = {}
    BY DEF PlansInv
  <2>. QED  BY <2>1, <2>2, <2>3
<1>. QED  BY <1>1, PlansInvariance, PTL

(* A plan object that does not throw executes, in either direction, plans  *)
(* that exist and were made for what it holds, with their work buffer.     *)
THEOREM PartsStayTogether == ASSUME ~ FromMoved PROVE PlansSpec => []ExecutesOwnPlan
<1>1. PlansInv => ExecutesOwnPlan
  <2> SUFFICES ASSUME PlansInv, NEW o \in Plan, PlanAlive(o), ~ Throws(o)
               PROVE  /\ plan[o].forward \in holds[o]
                      /\ live[plan[o].forward] \in {"forward", "both"}
                      /\ InverseHandle(o) \in holds[o]
                      /\ live[InverseHandle(o)] \in {"inverse", "both"}
                      /\ plan[o].buffer # None => /\ plan[o].buffer \in holds[o]
                                                  /\ live[plan[o].buffer] = "buffer"
    BY DEF ExecutesOwnPlan
  <2>1. ObjectOK(plan[o], holds[o], live, backend)
    BY DEF PlansInv
  <2>2. Intact(plan[o], holds[o], live, backend)
    BY <2>1 DEF ObjectOK, Throws, Emptied, ByHand
  <2>3. CASE backend \in {"hip", "bbfft"}
    <3>1. InverseHandle(o) = plan[o].inverse
      BY <2>3 DEF InverseHandle
    <3>. QED  BY <2>2, <2>3, <3>1 DEF Intact
  <2>4. CASE backend \notin {"hip", "bbfft"}
    <3>1. InverseHandle(o) = IF plan[o].asymmetric THEN plan[o].inverse ELSE plan[o].forward
      BY <2>4 DEF InverseHandle
    <3>. QED  BY <2>2, <2>4, <3>1 DEF Intact
  <2>. QED  BY <2>3, <2>4
<1>. QED  BY <1>1, PlansInvariance, PTL

(* An object whose plan has moved on refuses to execute.                   *)
THEOREM EmptiedThrows == ASSUME ~ FromMoved PROVE PlansSpec => []MovedFromThrows
<1>1. PlansInv => MovedFromThrows
  BY DEF PlansInv, ObjectOK, MovedFromThrows, Emptied, Throws, ByHand
<1>. QED  BY <1>1, PlansInvariance, PTL

HIDE PlansAssumption DEF PlansAssumption

-----------------------------------------------------------------------------
(* STORAGE                                                                 *)
(*                                                                         *)
(* Blocks have one owner each, and the work on the queue stays within      *)
(* blocks that are owned.  Effect says what a call may do to the blocks of *)
(* one object, and OwnStep that any action with such an effect keeps the   *)
(* invariant: it covers construction, assignment and resize(), which share *)
(* the code of resize() and allocate().                                    *)
(*                                                                         *)
(* The second half shows that storage objects are independent values.      *)
(* What blocks hold in the end is a fold over the queue: submitting work   *)
(* applies it there and then, a step of the device changes nothing, and a  *)
(* block the queue does not touch can be handed out without disturbing     *)
(* it.  Each call then turns into the operation of the same name.          *)

(* Facts about the fold of Applied over a queue. *)
Facts == INSTANCE InductionFacts WITH Op <- Applied

Operation ==
  [kind : {"copy"}, src : Ptr, dst : Ptr, n : Cells]
    \cup [kind : {"kernel"}, dst : Ptr, n : Cells, to : Contents]

(* The ranges of a device's blocks and of its queue.                       *)
DevOK(d) ==
  /\ d = [block |-> d.block, mem |-> d.mem, queue |-> d.queue, backend |-> d.backend]
  /\ d.block \in [Ptr -> 0..MaxSize]
  /\ d.queue \in Seq(Operation)

(* An operation that stays within the blocks of device d.                  *)
Within(d, op) ==
  /\ op.n <= d.block[op.dst]
  /\ op.kind = "copy" => op.n <= d.block[op.src]

QueuedOK(d) == \A i \in 1..Len(d.queue) : Within(d, d.queue[i])

(* A storage object and the block it may have.                             *)
Owned(d, s) ==
  /\ s \in Storages /\ s.size <= s.capacity
  /\ s.data \in Ptr => d.block[s.data] = s.capacity
  /\ s.capacity = 0 => s.data = Null

(* What a call may do to the blocks that turns device d and object s into  *)
(* device e and object t: it keeps its block or has a free one instead.    *)
Effect(d, s, e, t) ==
  /\ Owned(e, t)
  /\ t.data \in Ptr /\ t.data # s.data => d.block[t.data] = 0
  /\ s.data \in Ptr /\ s.data # t.data => e.block[s.data] = 0
  /\ \A p \in Ptr : p # s.data /\ p # t.data => e.block[p] = d.block[p]

IInv ==
  /\ store \in [Obj -> Storages \cup {Dead}]
  /\ DevOK(dev)
  /\ SoleOwner
  /\ \A o \in Obj : Alive(o) => Owned(dev, store[o])
  /\ QueuedOK(dev)

USE ConstantsAssumption DEF ConstantsAssumption

-----------------------------------------------------------------------------
(* The device *)

LEMMA AllocationsOK ==
  ASSUME NEW d, DevOK(d), QueuedOK(d), NEW n \in 1..MaxSize, NEW a \in Allocations(d, n)
  PROVE  /\ DevOK(a[1]) /\ QueuedOK(a[1])
         /\ \/ a[2] = Null /\ a[1].block = d.block
            \/ /\ a[2] \in Ptr /\ d.block[a[2]] = 0
               /\ a[1].block = [d.block EXCEPT ![a[2]] = n]
<1>1. CASE a = <<d, Null>>
  BY <1>1
<1>2. CASE a # <<d, Null>>
  <2>1. PICK p \in FreshPtr(d), c \in Fills(n) : a = <<GivenOut(d, p, n, c), p>>
    BY <1>2 DEF Allocations
  <2>2. /\ a[2] = p /\ p \in Ptr /\ d.block[p] = 0
        /\ a[1].block = [d.block EXCEPT ![p] = n] /\ a[1].queue = d.queue
        /\ a[1] = [block |-> a[1].block, mem |-> a[1].mem, queue |-> a[1].queue,
                   backend |-> a[1].backend]
    BY <2>1 DEF FreshPtr, GivenOut, DevOK
  <2>3. DevOK(a[1])
    BY <2>2 DEF DevOK
  <2>4. ASSUME NEW i \in 1..Len(d.queue) PROVE Within(a[1], d.queue[i])
    <3>1. d.queue[i] \in Operation
      BY DEF DevOK
    <3>2. /\ d.queue[i].dst # p
          /\ d.queue[i].kind = "copy" => d.queue[i].src # p
      BY DEF FreshPtr
    <3>3. Within(d, d.queue[i])
      BY DEF QueuedOK
    <3>. QED  BY <2>2, <3>1, <3>2, <3>3 DEF Within, Operation, DevOK
  <2>. QED  BY <2>2, <2>3, <2>4 DEF QueuedOK
<1>. QED  BY <1>1, <1>2

LEMMA DeallocatedOK ==
  ASSUME NEW d, DevOK(d), NEW p \in Ptr \cup {Null}
  PROVE  /\ DevOK(Deallocated(d, p)) /\ QueuedOK(Deallocated(d, p))
         /\ Deallocated(d, p).block = IF p = Null THEN d.block ELSE [d.block EXCEPT ![p] = 0]
<1>1. Synchronized(d) = [block |-> d.block, mem |-> Final(d), queue |-> << >>,
                         backend |-> d.backend]
  <2>1. d = [block |-> d.block, mem |-> d.mem, queue |-> d.queue, backend |-> d.backend]
    BY DEF DevOK
  <2> DEFINE m == Final(d)
  <2>2. Synchronized(d) = [d EXCEPT !.mem = m, !.queue = << >>]
    BY DEF Synchronized
  <2> HIDE DEF m
  <2>3. Synchronized(d) = [block |-> d.block, mem |-> m, queue |-> << >>,
                           backend |-> d.backend]
    BY <2>1, <2>2
  <2>. QED  BY <2>3 DEF m
<1>2. CASE p = Null
  <2>1. Deallocated(d, p) = Synchronized(d)
    BY <1>2 DEF Deallocated
  <2>2. << >> \in Seq(Operation)
    OBVIOUS
  <2>. QED  BY <1>1, <1>2, <2>1, <2>2 DEF DevOK, QueuedOK
<1>3. CASE p # Null
  <2> DEFINE e == Synchronized(d)
  <2>1. Deallocated(d, p) = [e EXCEPT !.block[p] = 0, !.mem[p] = Blank]
    BY <1>3 DEF Deallocated
  <2> HIDE DEF e
  <2>2. e = [block |-> d.block, mem |-> Final(d), queue |-> << >>, backend |-> d.backend]
    BY <1>1 DEF e
  <2>3. Deallocated(d, p) = [block |-> [d.block EXCEPT ![p] = 0],
                             mem |-> [Final(d) EXCEPT ![p] = Blank],
                             queue |-> << >>, backend |-> d.backend]
    BY <2>1, <2>2
  <2>4. << >> \in Seq(Operation)
    OBVIOUS
  <2>. QED  BY <1>3, <2>3, <2>4 DEF DevOK, QueuedOK
<1>. QED  BY <1>2, <1>3

LEMMA SubmitOK ==
  ASSUME NEW d, DevOK(d), QueuedOK(d), NEW op \in Operation, Within(d, op)
  PROVE  /\ DevOK(SubmitTo(d, op)) /\ QueuedOK(SubmitTo(d, op))
         /\ SubmitTo(d, op).block = d.block
<1>1. CASE d.backend.async
  <2>1. /\ SubmitTo(d, op) = [block |-> d.block, mem |-> d.mem, queue |-> Append(d.queue, op),
                            backend |-> d.backend]
    BY <1>1 DEF SubmitTo, DevOK
  <2>2. /\ Append(d.queue, op) \in Seq(Operation)
        /\ \A i \in 1..Len(Append(d.queue, op)) :
             \/ i \in 1..Len(d.queue) /\ Append(d.queue, op)[i] = d.queue[i]
             \/ Append(d.queue, op)[i] = op
    BY DEF DevOK
  <2>3. QueuedOK(SubmitTo(d, op))
    <3>1. PICK e : e = SubmitTo(d, op)
      OBVIOUS
    <3>2. e.block = d.block /\ e.queue = Append(d.queue, op)
      BY <2>1, <3>1
    <3>3. ASSUME NEW i \in 1..Len(e.queue) PROVE Within(e, e.queue[i])
      <4>1. Within(d, e.queue[i])
        BY <2>2, <3>2 DEF QueuedOK
      <4>. QED  BY <3>2, <4>1 DEF Within
    <3>. QED  BY <3>1, <3>3 DEF QueuedOK
  <2>. QED  BY <2>1, <2>2, <2>3 DEF DevOK
<1>2. CASE ~ d.backend.async
  <2>1. /\ SubmitTo(d, op) = [block |-> d.block, mem |-> Applied(d.mem, op), queue |-> d.queue,
                            backend |-> d.backend]
    BY <1>2 DEF SubmitTo, DevOK
  <2>. QED  BY <2>1 DEF DevOK, QueuedOK, Within
<1>. QED  BY <1>1, <1>2

(* A copy is an operation.                                                 *)
LEMMA CopyIsOperation ==
  ASSUME NEW p \in Ptr, NEW q \in Ptr, NEW n \in Cells
  PROVE  CopyOp(p, q, n) \in Operation
  BY DEF CopyOp, Operation

-----------------------------------------------------------------------------
(* resize() *)

(* A new block for an object that has none, or in exchange for its old one. *)
LEMMA BlockOK ==
  ASSUME NEW d, DevOK(d), NEW n \in 1..MaxSize, NEW e, NEW q,
         \/ q = Null /\ e.block = d.block
         \/ q \in Ptr /\ d.block[q] = 0 /\ e.block = [d.block EXCEPT ![q] = n]
  PROVE  /\ Owned(e, Block(q, n))
         /\ q \in Ptr => d.block[q] = 0 /\ e.block[q] = n
         /\ \A p \in Ptr : p # q => e.block[p] = d.block[p]
  BY DEF DevOK, Owned, Block, Storages

LEMMA GrownOK ==
  ASSUME NEW d, DevOK(d), QueuedOK(d), NEW s, Owned(d, s), s.capacity > 0,
         NEW n \in 1..MaxSize, n > s.capacity, NEW discard,
         NEW r \in Grown(d, s, n, discard)
  PROVE  DevOK(r[1]) /\ QueuedOK(r[1]) /\ Effect(d, s, r[1], r[2]) /\ r[2].size = n
<1>1. PICK a \in Allocations(d, n) :
        /\ discard \/ s.size = 0 \/ (a[2] # Null /\ Usable(s))
        /\ r = <<Deallocated(IF discard \/ s.size = 0
                               THEN a[1]
                               ELSE SubmitTo(a[1], CopyOp(s.data, a[2], Kept(s, n))),
                             s.data),
                 Block(a[2], n)>>
  BY DEF Grown
<1>2. /\ DevOK(a[1]) /\ QueuedOK(a[1])
      /\ \/ a[2] = Null /\ a[1].block = d.block
         \/ /\ a[2] \in Ptr /\ d.block[a[2]] = 0
            /\ a[1].block = [d.block EXCEPT ![a[2]] = n]
  BY AllocationsOK
<1> DEFINE e == IF discard \/ s.size = 0
                  THEN a[1] ELSE SubmitTo(a[1], CopyOp(s.data, a[2], Kept(s, n)))
<1>3. DevOK(e) /\ QueuedOK(e) /\ e.block = a[1].block
  <2>1. CASE discard \/ s.size = 0
    BY <1>2, <2>1
  <2>2. CASE ~ (discard \/ s.size = 0)
    <3>1. /\ a[2] \in Ptr /\ s.data \in Ptr /\ a[2] # s.data
          /\ a[1].block[a[2]] = n /\ a[1].block[s.data] = s.capacity
          /\ Kept(s, n) \in Cells /\ Kept(s, n) <= n /\ Kept(s, n) <= s.capacity
      BY <1>1, <1>2, <2>2 DEF Usable, Owned, Storages, Kept, Cells, DevOK
    <3>2. /\ CopyOp(s.data, a[2], Kept(s, n)) \in Operation
          /\ Within(a[1], CopyOp(s.data, a[2], Kept(s, n)))
      BY <3>1, CopyIsOperation DEF Within, CopyOp
    <3>. QED  BY <1>2, <2>2, <3>2, SubmitOK
  <2>. QED  BY <2>1, <2>2
<1> HIDE DEF e
<1>4. s.data \in Ptr \cup {Null}
  BY DEF Owned, Storages
<1>5. r = <<Deallocated(e, s.data), Block(a[2], n)>>
  BY <1>1 DEF e
<1>6. /\ DevOK(r[1]) /\ QueuedOK(r[1])
      /\ r[1].block = IF s.data = Null THEN a[1].block ELSE [a[1].block EXCEPT ![s.data] = 0]
  <2>1. r[1] = Deallocated(e, s.data)
    BY <1>5
  <2>2. DevOK(e)
    BY <1>3
  <2>3. /\ DevOK(Deallocated(e, s.data)) /\ QueuedOK(Deallocated(e, s.data))
        /\ Deallocated(e, s.data).block = IF s.data = Null THEN e.block ELSE [e.block EXCEPT ![s.data] = 0]
    BY <2>2, <1>4, DeallocatedOK
  <2>. QED  BY <1>3, <2>1, <2>3
<1>7. /\ Owned(a[1], Block(a[2], n))
      /\ a[2] \in Ptr => d.block[a[2]] = 0
      /\ \A p \in Ptr : p # a[2] => a[1].block[p] = d.block[p]
  BY <1>2, BlockOK
<1>8. s.data \in Ptr => s.data # a[2]
  BY <1>7 DEF Owned, Storages
<1>9. Block(a[2], n).data = a[2] /\ Block(a[2], n).size = n
  BY DEF Block
<1>10. \A p \in Ptr : p # s.data => r[1].block[p] = a[1].block[p]
  BY <1>2, <1>6 DEF DevOK
<1>11. s.data \in Ptr => r[1].block[s.data] = 0
  BY <1>2, <1>6 DEF DevOK
<1>12. Owned(r[1], Block(a[2], n))
  BY <1>7, <1>8, <1>9, <1>10 DEF Owned
<1>. QED  BY <1>5, <1>6, <1>7, <1>9, <1>10, <1>11, <1>12 DEF Effect

LEMMA ResizedOK ==
  ASSUME NEW d, DevOK(d), QueuedOK(d), NEW s, Owned(d, s), NEW n \in 0..MaxSize,
         NEW discard, NEW r \in Resized(d, s, n, discard)
  PROVE  /\ DevOK(r[1]) /\ QueuedOK(r[1]) /\ Effect(d, s, r[1], r[2])
         /\ r[2].size = n
         /\ n <= s.capacity => r[2].data = s.data /\ r[1] = d
<1>0. s \in Storages /\ s.capacity \in 0..MaxSize /\ s.size \in 0..MaxSize
  BY DEF Owned, Storages
<1>1. CASE s.capacity = 0 /\ n = 0
  <2>1. r = <<d, s>> /\ s.size = 0
    BY <1>0, <1>1 DEF Resized, Owned
  <2>. QED  BY <1>1, <2>1 DEF Effect, Owned
<1>2. CASE s.capacity = 0 /\ n > 0
  <2>1. PICK a \in Allocations(d, n) : r = <<a[1], Block(a[2], n)>>
    BY <1>2 DEF Resized
  <2>2. n \in 1..MaxSize
    BY <1>2
  <2>3. /\ DevOK(a[1]) /\ QueuedOK(a[1])
        /\ \/ a[2] = Null /\ a[1].block = d.block
           \/ /\ a[2] \in Ptr /\ d.block[a[2]] = 0
              /\ a[1].block = [d.block EXCEPT ![a[2]] = n]
    BY <2>2, AllocationsOK
  <2>4. /\ Owned(a[1], Block(a[2], n))
        /\ a[2] \in Ptr => d.block[a[2]] = 0
        /\ \A p \in Ptr : p # a[2] => a[1].block[p] = d.block[p]
    BY <2>2, <2>3, BlockOK
  <2>5. Block(a[2], n).data = a[2] /\ Block(a[2], n).size = n /\ s.data = Null
    BY <1>2 DEF Block, Owned
  <2>. QED  BY <1>2, <2>1, <2>3, <2>4, <2>5 DEF Effect
<1>3. CASE s.capacity > 0 /\ n > s.capacity
  <2>1. r \in Grown(d, s, n, discard) /\ n \in 1..MaxSize
    BY <1>0, <1>3 DEF Resized
  <2>. QED  BY <1>0, <1>3, <2>1, GrownOK
<1>4. CASE s.capacity > 0 /\ n <= s.capacity
  <2>1. r = <<d, [s EXCEPT !.size = n]>>
    BY <1>0, <1>4 DEF Resized
  <2>2. /\ r[2] \in Storages /\ r[2].data = s.data /\ r[2].size = n
        /\ r[2].capacity = s.capacity
    BY <1>0, <2>1 DEF Storages
  <2>. QED  BY <1>4, <2>1, <2>2 DEF Effect, Owned
<1>. QED  BY <1>0, <1>1, <1>2, <1>3, <1>4

LEMMA AssignedOK ==
  ASSUME NEW d, DevOK(d), QueuedOK(d), NEW s, Owned(d, s), NEW from, Owned(d, from),
         Usable(from), from = s \/ from.data \notin Ptr \/ from.data # s.data,
         NEW r \in Assigned(d, s, from)
  PROVE  DevOK(r[1]) /\ QueuedOK(r[1]) /\ Effect(d, s, r[1], r[2])
<1>1. PICK q \in Resized(d, s, from.size, TRUE) :
        /\ from.size > 0 => q[2].data # Null
        /\ r = <<IF from.size > 0 THEN SubmitTo(q[1], CopyOp(from.data, q[2].data, from.size))
                                  ELSE q[1],
                 q[2]>>
  BY DEF Assigned
<1>2. from.size \in 0..MaxSize /\ from.capacity \in 0..MaxSize /\ s.capacity \in 0..MaxSize
  BY DEF Owned, Storages
<1>3. /\ DevOK(q[1]) /\ QueuedOK(q[1]) /\ Effect(d, s, q[1], q[2])
      /\ q[2].size = from.size
      /\ from.size <= s.capacity => q[2].data = s.data /\ q[1] = d
  <2>1. from.size \in 0..MaxSize
    BY <1>2
  <2>2. PICK b \in BOOLEAN : q \in Resized(d, s, from.size, b)
    BY Zenon
  <2>. QED  BY <2>1, <2>2, ResizedOK
<1>4. CASE from.size = 0
  BY <1>1, <1>3, <1>4
<1>5. CASE from.size > 0
  <2>1. from.data \in Ptr /\ q[2].data \in Ptr /\ from.size \in Cells
    BY <1>1, <1>2, <1>3, <1>5 DEF Usable, Owned, Effect, Storages, Cells
  <2>2. from.size <= from.capacity /\ d.block[from.data] = from.capacity
    BY <2>1 DEF Owned
  <2>3. from.size <= q[1].block[q[2].data]
    BY <1>3, <2>1 DEF Effect, Owned
  <2>4. from.size <= q[1].block[from.data]
    <3>1. CASE from = s
      BY <1>3, <2>2, <3>1
    <3>2. CASE from # s
      BY <1>3, <2>1, <2>2, <2>3, <3>2 DEF Effect
    <3>. QED  BY <3>1, <3>2
  <2>5. /\ CopyOp(from.data, q[2].data, from.size) \in Operation
        /\ Within(q[1], CopyOp(from.data, q[2].data, from.size))
    BY <2>1, <2>3, <2>4, CopyIsOperation DEF Within, CopyOp
  <2>6. /\ r[2] = q[2] /\ r[1] = SubmitTo(q[1], CopyOp(from.data, q[2].data, from.size))
    BY <1>1, <1>5
  <2>7. DevOK(r[1]) /\ QueuedOK(r[1]) /\ r[1].block = q[1].block
    BY <1>3, <2>5, <2>6, SubmitOK
  <2>. QED  BY <1>3, <2>6, <2>7 DEF Effect, Owned
<1>. QED  BY <1>2, <1>4, <1>5

-----------------------------------------------------------------------------
(* Steps *)

(* An object that is alive is a storage object.                            *)
LEMMA AliveIs ==
  ASSUME IInv, NEW o \in Obj, Alive(o)
  PROVE  store[o] \in Storages /\ Owned(dev, store[o])
  BY DEF IInv, Alive

LEMMA EmptyIsOwned == ASSUME NEW d PROVE Owned(d, Empty)
  BY DEF Owned, Empty, Storages

(* An action that turns one object into another one, with an effect of     *)
(* resize() on the blocks, keeps the invariant.                            *)
LEMMA OwnStep ==
  ASSUME IInv, NEW o \in Obj, NEW s, s = IF Alive(o) THEN store[o] ELSE Empty, NEW t,
         store' = [store EXCEPT ![o] = t],
         DevOK(dev'), QueuedOK(dev'), Effect(dev, s, dev', t)
  PROVE  IInv'
<1>1. /\ t \in Storages /\ t # Dead /\ Owned(dev', t)
      /\ store'[o] = t /\ Alive(o)'
      /\ \A u \in Obj \ {o} : store'[u] = store[u] /\ (Alive(u)' <=> Alive(u))
  BY DEF Effect, Owned, Storages, IInv, Alive
<1>2. store' \in [Obj -> Storages \cup {Dead}]
  BY <1>1 DEF IInv
<1>3. s \in Storages /\ Owned(dev, s)
  BY AliveIs, EmptyIsOwned DEF Owned
<1>4. ASSUME NEW u \in Obj \ {o}, Alive(u), store[u].data \in Ptr
      PROVE  /\ store[u].data # s.data /\ store[u].data # t.data
             /\ dev'.block[store[u].data] = dev.block[store[u].data]
  <2>1. dev.block[store[u].data] > 0
    BY <1>4 DEF IInv, SoleOwner
  <2>2. store[u].data # s.data
    BY <1>4 DEF IInv, SoleOwner, Empty
  <2>3. store[u].data # t.data
    BY <1>4, <2>1, <2>2 DEF Effect
  <2>. QED  BY <1>4, <2>2, <2>3 DEF Effect
<1>5. ASSUME NEW u \in Obj, Alive(u)' PROVE Owned(dev', store'[u])
  <2>1. CASE u = o
    BY <1>1, <2>1
  <2>2. CASE u # o
    <3>1. Owned(dev, store[u]) /\ store'[u] = store[u] /\ Alive(u)
      BY <1>1, <1>5, <2>2, AliveIs
    <3>. QED  BY <1>4, <2>2, <3>1 DEF Owned
  <2>. QED  BY <2>1, <2>2
<1>6. ASSUME NEW p \in Ptr
      PROVE  dev'.block[p] > 0 <=> \E u \in Obj : Alive(u)' /\ store'[u].data = p
  <2>1. CASE p = t.data
    <3>1. dev'.block[p] = t.capacity /\ t.capacity # 0 /\ t.capacity \in Nat
      BY <1>1, <2>1 DEF Owned, Storages
    <3>. QED  BY <1>1, <2>1, <3>1
  <2>2. CASE p # t.data /\ p = s.data
    BY <1>1, <1>4, <2>2 DEF Effect
  <2>3. CASE p # t.data /\ p # s.data
    <3>1. dev'.block[p] = dev.block[p]
      BY <2>3 DEF Effect
    <3>2. dev.block[p] > 0 <=> \E u \in Obj : Alive(u) /\ store[u].data = p
      BY DEF IInv, SoleOwner
    <3>3. ASSUME NEW u \in Obj
          PROVE  (Alive(u) /\ store[u].data = p) <=> (Alive(u)' /\ store'[u].data = p)
      BY <1>1, <2>3
    <3>. QED  BY <3>1, <3>2, <3>3
  <2>. QED  BY <2>1, <2>2, <2>3
<1>7. ASSUME NEW p \in Ptr, NEW u \in Obj, NEW v \in Obj,
             Alive(u)', store'[u].data = p, Alive(v)', store'[v].data = p
      PROVE  u = v
  <2>1. CASE u = o \/ v = o
    BY <1>1, <1>4, <1>7, <2>1
  <2>2. CASE u # o /\ v # o
    BY <1>1, <1>7, <2>2 DEF IInv, SoleOwner
  <2>. QED  BY <2>1, <2>2
<1>8. SoleOwner'
  BY <1>5, <1>6, <1>7 DEF SoleOwner, Owned
<1>. QED  BY <1>2, <1>5, <1>8 DEF IInv

(* An action that leaves objects and blocks alone keeps the invariant.     *)
LEMMA SameBlocks ==
  ASSUME IInv, store' = store, DevOK(dev'), QueuedOK(dev'), dev'.block = dev.block
  PROVE  IInv'
  BY DEF IInv, SoleOwner, Alive, Owned

(* The block of the target is given back, that of the source changes       *)
(* hands: both move operations.                                            *)
LEMMA MoveStep ==
  ASSUME IInv, NEW o \in Obj, NEW s \in Obj, Alive(s),
         store' = [[store EXCEPT ![o] = store[s]] EXCEPT ![s] = Empty],
         DevOK(dev'), QueuedOK(dev'),
         dev'.block = IF Alive(o) /\ store[o].data # Null
                        THEN [dev.block EXCEPT ![store[o].data] = 0] ELSE dev.block
  PROVE  IInv'
<1>1. /\ store'[s] = Empty /\ Empty \in Storages /\ Empty # Dead
      /\ Empty.data = Null /\ Owned(dev', Empty)
      /\ \A u \in Obj \ {s} : store'[u] = IF u = o THEN store[s] ELSE store[u]
  BY EmptyIsOwned DEF IInv, Empty, Storages
<1>2. store' \in [Obj -> Storages \cup {Dead}]
  BY DEF IInv, Empty, Storages
<1>3. \A u \in Obj : Alive(u) => store[u] \in Storages /\ Owned(dev, store[u])
  BY AliveIs
<1>4. \A u, v \in Obj : Alive(u) /\ Alive(v) /\ store[u].data \in Ptr
                        /\ store[u].data = store[v].data => u = v
  BY DEF IInv, SoleOwner
<1>5. \A p \in Ptr : dev'.block[p] = IF Alive(o) /\ store[o].data = p THEN 0 ELSE dev.block[p]
  BY <1>3 DEF IInv, DevOK, Storages
<1>6. ASSUME NEW u \in Obj \ {s}, Alive(u)'
      PROVE  /\ Owned(dev', store'[u])
             /\ \E v \in Obj : /\ Alive(v) /\ store'[u] = store[v]
                               /\ v = IF u = o THEN s ELSE u
  <2> DEFINE v == IF u = o THEN s ELSE u
  <2>1. v \in Obj /\ Alive(v) /\ store'[u] = store[v]
    BY <1>1, <1>6 DEF Alive
  <2>2. Owned(dev, store[v])
    BY <1>3, <2>1
  <2>3. ASSUME store[v].data \in Ptr PROVE dev'.block[store[v].data] = dev.block[store[v].data]
    BY <1>4, <1>5, <1>6, <2>1, <2>3
  <2>. QED  BY <2>1, <2>2, <2>3 DEF Owned
<1>7. \A u \in Obj : Alive(u)' => Owned(dev', store'[u])
  BY <1>1, <1>6
<1>8. ASSUME NEW p \in Ptr, NEW u \in Obj, NEW w \in Obj,
             Alive(u)', store'[u].data = p, Alive(w)', store'[w].data = p
      PROVE  u = w
  <2>1. u # s /\ w # s
    BY <1>1, <1>8
  <2>2. PICK v \in Obj : /\ Alive(v) /\ store'[u] = store[v]
                         /\ v = IF u = o THEN s ELSE u
    BY <1>6, <1>8, <2>1
  <2>3. PICK x \in Obj : /\ Alive(x) /\ store'[w] = store[x]
                         /\ x = IF w = o THEN s ELSE w
    BY <1>6, <1>8, <2>1
  <2>. QED  BY <1>4, <1>8, <2>1, <2>2, <2>3
<1>9. ASSUME NEW p \in Ptr
      PROVE  dev'.block[p] > 0 <=> \E u \in Obj : Alive(u)' /\ store'[u].data = p
  <2>1. dev.block[p] > 0 <=> \E u \in Obj : Alive(u) /\ store[u].data = p
    BY DEF IInv, SoleOwner
  <2>2. ASSUME NEW u \in Obj, Alive(u)', store'[u].data = p
        PROVE  dev'.block[p] > 0
    <3>1. u # s
      BY <1>1, <2>2
    <3>2. PICK v \in Obj : /\ Alive(v) /\ store'[u] = store[v]
                           /\ v = IF u = o THEN s ELSE u
      BY <1>6, <2>2, <3>1
    <3>3. ~ (Alive(o) /\ store[o].data = p)
      BY <1>4, <2>2, <3>1, <3>2
    <3>. QED  BY <1>5, <2>1, <2>2, <3>2, <3>3
  <2>3. ASSUME dev'.block[p] > 0
        PROVE  \E u \in Obj : Alive(u)' /\ store'[u].data = p
    <3>1. ~ (Alive(o) /\ store[o].data = p) /\ dev.block[p] > 0
      BY <1>5, <2>3
    <3>2. PICK v \in Obj : Alive(v) /\ store[v].data = p
      BY <2>1, <3>1
    <3>3. CASE v = s
      <4>1. o # s
        BY <3>1, <3>2, <3>3
      <4>2. store'[o] = store[s]
        BY <1>1, <4>1
      <4>. QED  BY <3>2, <3>3, <4>2 DEF Alive
    <3>4. CASE v # s
      <4>1. v # o
        BY <3>1, <3>2
      <4>. QED  BY <1>1, <3>2, <3>4, <4>1 DEF Alive
    <3>. QED  BY <3>3, <3>4
  <2>. QED  BY <2>2, <2>3
<1>10. SoleOwner'
  <2>1. ASSUME NEW p \in Ptr, NEW u \in Obj, Alive(u)', store'[u].data = p
        PROVE  store'[u].size <= store'[u].capacity /\ store'[u].capacity = dev'.block[p]
    BY <1>7, <2>1 DEF Owned
  <2>. QED  BY <1>8, <1>9, <2>1 DEF SoleOwner
<1>. QED  BY <1>2, <1>7, <1>10 DEF IInv

(* An object gives its block back and is gone.                             *)
LEMMA DestroyStep ==
  ASSUME IInv, NEW o \in Obj, Destroy(o)
  PROVE  IInv'
<1>1. /\ Alive(o) /\ store[o] \in Storages /\ store' = [store EXCEPT ![o] = Dead]
      /\ dev' = Deallocated(dev, store[o].data) /\ DevOK(dev)
      /\ store[o].data \in Ptr \cup {Null}
  BY AliveIs DEF Destroy, IInv, Storages
<1>2. /\ DevOK(dev') /\ QueuedOK(dev')
      /\ dev'.block = IF store[o].data = Null THEN dev.block
                                              ELSE [dev.block EXCEPT ![store[o].data] = 0]
  BY <1>1, DeallocatedOK
<1>3. /\ store' \in [Obj -> Storages \cup {Dead}]
      /\ ~ Alive(o)'
      /\ \A u \in Obj \ {o} : store'[u] = store[u] /\ (Alive(u)' <=> Alive(u))
  BY <1>1 DEF IInv, Alive
<1>4. \A p \in Ptr : dev'.block[p] = IF store[o].data = p THEN 0 ELSE dev.block[p]
  BY <1>1, <1>2 DEF IInv, DevOK
<1>5. ASSUME NEW u \in Obj \ {o}, Alive(u), store[u].data \in Ptr
      PROVE  store[u].data # store[o].data
  BY <1>1, <1>5 DEF IInv, SoleOwner
<1>6. \A u \in Obj : Alive(u)' => Owned(dev', store'[u])
  BY <1>3, <1>4, <1>5, AliveIs DEF Owned
<1>7. SoleOwner'
  <2>1. ASSUME NEW p \in Ptr
        PROVE  dev'.block[p] > 0 <=> \E u \in Obj : Alive(u)' /\ store'[u].data = p
    BY <1>3, <1>4, <1>5 DEF IInv, SoleOwner
  <2>2. ASSUME NEW p \in Ptr, NEW u \in Obj, NEW v \in Obj,
               Alive(u)', store'[u].data = p, Alive(v)', store'[v].data = p
        PROVE  u = v
    BY <1>3, <2>2 DEF IInv, SoleOwner
  <2>. QED  BY <1>6, <2>1, <2>2 DEF SoleOwner, Owned
<1>. QED  BY <1>2, <1>3, <1>6, <1>7 DEF IInv

-----------------------------------------------------------------------------
(* The specification *)

(* Nothing is alive, no block is handed out and nothing is queued at first. *)
LEMMA InitIInv == Init => IInv
<1> SUFFICES ASSUME Init PROVE IInv
  OBVIOUS
<1>1. PICK b \in Backends :
        dev = [block |-> [p \in Ptr |-> 0], mem |-> [p \in Ptr |-> Blank],
               queue |-> << >>, backend |-> b]
  BY DEF Init
<1>2. dev.block = [p \in Ptr |-> 0] /\ dev.queue = << >>
  BY <1>1
<1>3. DevOK(dev)
  <2>1. << >> \in Seq(Operation)
    OBVIOUS
  <2>. QED  BY <1>1, <1>2, <2>1 DEF DevOK
<1>4. QueuedOK(dev)
  BY <1>2 DEF QueuedOK
<1>5. store \in [Obj -> Storages \cup {Dead}] /\ \A o \in Obj : ~ Alive(o)
  BY DEF Init, Alive
<1>6. SoleOwner
  BY <1>2, <1>5 DEF SoleOwner
<1>. QED  BY <1>3, <1>4, <1>5, <1>6 DEF IInv

(* Every call of the host and every step of the device keeps the invariant. *)
LEMMA NextIInv == IInv /\ [Next]_vars => IInv'
<1> SUFFICES ASSUME IInv, [Next]_vars PROVE IInv'
  OBVIOUS
<1>0. DevOK(dev) /\ QueuedOK(dev) /\ store \in [Obj -> Storages \cup {Dead}]
  BY DEF IInv
<1>1. ASSUME NEW o \in Obj, NEW n \in 0..MaxSize, Construct(o, n)
      PROVE  IInv'
  <2>1. ~ Alive(o) /\ Empty.data = Null /\ Empty.size = 0
    BY <1>1 DEF Construct, Empty
  <2>2. CASE n = 0
    <3>1. store' = [store EXCEPT ![o] = Empty] /\ dev' = dev
      BY <1>1, <2>2 DEF Construct
    <3>2. Effect(dev, Empty, dev, Empty)
      BY EmptyIsOwned DEF Effect
    <3>. QED  BY <1>0, <2>1, <3>1, <3>2, OwnStep
  <2>3. CASE n # 0
    <3>1. n \in 1..MaxSize
      BY <2>3
    <3>2. PICK a \in Allocations(dev, n) :
            store' = [store EXCEPT ![o] = Block(a[2], n)] /\ dev' = a[1]
      BY <1>1, <2>3 DEF Construct
    <3>3. /\ DevOK(a[1]) /\ QueuedOK(a[1])
          /\ \/ a[2] = Null /\ a[1].block = dev.block
             \/ /\ a[2] \in Ptr /\ dev.block[a[2]] = 0
                /\ a[1].block = [dev.block EXCEPT ![a[2]] = n]
      BY <1>0, <3>1, AllocationsOK
    <3>4. /\ Owned(a[1], Block(a[2], n)) /\ Block(a[2], n).data = a[2]
          /\ a[2] \in Ptr => dev.block[a[2]] = 0
          /\ \A p \in Ptr : p # a[2] => a[1].block[p] = dev.block[p]
      BY <1>0, <3>1, <3>3, BlockOK DEF Block
    <3>5. Effect(dev, Empty, a[1], Block(a[2], n))
      BY <2>1, <3>4 DEF Effect
    <3>. QED  BY <2>1, <3>2, <3>3, <3>5, OwnStep
  <2>. QED  BY <2>2, <2>3
<1>2. ASSUME NEW o \in Obj, NEW n \in 0..MaxSize, Resize(o, n)
      PROVE  IInv'
  <2>1. PICK r \in Resized(dev, store[o], n, FALSE) :
          store' = [store EXCEPT ![o] = r[2]] /\ dev' = r[1]
    BY <1>2 DEF Resize
  <2>2. PICK b \in BOOLEAN : r \in Resized(dev, store[o], n, b)
    BY Zenon
  <2>3. Alive(o) /\ Owned(dev, store[o])
    BY <1>2, AliveIs DEF Resize
  <2>4. DevOK(r[1]) /\ QueuedOK(r[1]) /\ Effect(dev, store[o], r[1], r[2])
    BY <1>0, <2>2, <2>3, ResizedOK
  <2>. QED  BY <2>1, <2>3, <2>4, OwnStep
<1>3. ASSUME NEW o \in Obj, NEW n \in 0..MaxSize, AllocateThrows(o, n)
      PROVE  IInv'
  <2>1. /\ Alive(o) /\ store[o].capacity = 0 /\ n \in 1..MaxSize
        /\ store' = [store EXCEPT ![o] = Block(Null, n)] /\ dev' = dev
    BY <1>3 DEF AllocateThrows
  <2>2. Owned(dev, store[o])
    BY <2>1, AliveIs
  <2>3. Effect(dev, store[o], dev, Block(Null, n))
    BY <2>1, <2>2 DEF Effect, Owned, Block, Storages
  <2>. QED  BY <1>0, <2>1, <2>3, OwnStep
<1>4. ASSUME NEW o \in Obj, NEW s \in Obj, CopyConstruct(o, s)
      PROVE  IInv'
  <2>1. PICK r \in Assigned(dev, Empty, store[s]) :
          store' = [store EXCEPT ![o] = r[2]] /\ dev' = r[1]
    BY <1>4 DEF CopyConstruct
  <2>2. ~ Alive(o) /\ Alive(s) /\ Usable(store[s]) /\ Owned(dev, store[s])
    BY <1>4, AliveIs DEF CopyConstruct
  <2>3. Owned(dev, Empty) /\ Empty.data \notin Ptr
    BY EmptyIsOwned DEF Empty
  <2>4. DevOK(r[1]) /\ QueuedOK(r[1]) /\ Effect(dev, Empty, r[1], r[2])
    BY <1>0, <2>2, <2>3, AssignedOK
  <2>. QED  BY <2>1, <2>2, <2>4, OwnStep
<1>5. ASSUME NEW o \in Obj, NEW s \in Obj, CopyAssign(o, s)
      PROVE  IInv'
  <2>1. PICK r \in Assigned(dev, store[o], store[s]) :
          store' = [store EXCEPT ![o] = r[2]] /\ dev' = r[1]
    BY <1>5 DEF CopyAssign
  <2>2. /\ Alive(o) /\ Alive(s) /\ Usable(store[s])
        /\ Owned(dev, store[s]) /\ Owned(dev, store[o])
    BY <1>5, AliveIs DEF CopyAssign
  <2>3. \/ store[s] = store[o]
        \/ store[s].data \notin Ptr
        \/ store[s].data # store[o].data
    BY <2>2 DEF IInv, SoleOwner
  <2>4. DevOK(r[1]) /\ QueuedOK(r[1]) /\ Effect(dev, store[o], r[1], r[2])
    BY <1>0, <2>2, <2>3, AssignedOK
  <2>. QED  BY <2>1, <2>2, <2>4, OwnStep
<1>6. ASSUME NEW o \in Obj, NEW s \in Obj, MoveConstruct(o, s)
      PROVE  IInv'
  <2>1. /\ ~ Alive(o) /\ Alive(s) /\ dev' = dev
        /\ store' = [[store EXCEPT ![o] = store[s]] EXCEPT ![s] = Empty]
    BY <1>6 DEF MoveConstruct
  <2>. QED  BY <1>0, <2>1, MoveStep
<1>7. ASSUME NEW o \in Obj, NEW s \in Obj, MoveAssign(o, s)
      PROVE  IInv'
  <2>1. /\ Alive(o) /\ Alive(s)
        /\ store' = [[store EXCEPT ![o] = store[s]] EXCEPT ![s] = Empty]
        /\ dev' = IF store[o].capacity > 0 THEN Deallocated(dev, store[o].data) ELSE dev
    BY <1>7 DEF MoveAssign
  <2>2. /\ store[o].data \in Ptr \cup {Null}
        /\ store[o].capacity \in Nat
        /\ store[o].capacity = 0 => store[o].data = Null
    BY <2>1, AliveIs DEF Owned, Storages
  <2>3. /\ DevOK(dev') /\ QueuedOK(dev')
        /\ dev'.block = IF store[o].data # Null
                          THEN [dev.block EXCEPT ![store[o].data] = 0] ELSE dev.block
    BY <1>0, <2>1, <2>2, DeallocatedOK
  <2>. QED  BY <2>1, <2>3, MoveStep
<1>8. ASSUME NEW o \in Obj, Write(o)
      PROVE  IInv'
  <2>1. PICK c \in Fills(store[o].size) :
          dev' = SubmitTo(dev, KernelOp(store[o].data, store[o].size, c))
    BY <1>8 DEF Write
  <2>2. /\ store' = store /\ Owned(dev, store[o])
        /\ store[o].data \in Ptr /\ store[o].size \in Cells /\ c \in Contents
    BY <1>8, AliveIs DEF Write, Usable, Storages, Cells, Fills
  <2>3. /\ KernelOp(store[o].data, store[o].size, c) \in Operation
        /\ Within(dev, KernelOp(store[o].data, store[o].size, c))
    BY <2>2 DEF KernelOp, Operation, Within, Owned
  <2>. QED  BY <1>0, <2>1, <2>2, <2>3, SubmitOK, SameBlocks
<1>9. ASSUME DeviceStep
      PROVE  IInv'
  <2>1. /\ store' = store /\ dev.queue # << >>
        /\ dev' = [block |-> dev.block, mem |-> Applied(dev.mem, Head(dev.queue)),
                   queue |-> Tail(dev.queue), backend |-> dev.backend]
    BY <1>0, <1>9 DEF DeviceStep, DevOK
  <2>2. /\ Tail(dev.queue) \in Seq(Operation)
        /\ \A i \in 1..Len(Tail(dev.queue)) :
             i + 1 \in 1..Len(dev.queue) /\ Tail(dev.queue)[i] = dev.queue[i + 1]
    BY <1>0, <2>1 DEF DevOK
  <2>3. QueuedOK(dev')
    BY <1>0, <2>1, <2>2 DEF QueuedOK, Within
  <2>4. DevOK(dev') /\ dev'.block = dev.block
    BY <1>0, <2>1, <2>2 DEF DevOK
  <2>. QED  BY <2>1, <2>3, <2>4, SameBlocks
<1>10. CASE UNCHANGED vars
  BY <1>0, <1>10, SameBlocks DEF vars
<1>11. ASSUME NEW o \in Obj, Destroy(o)
       PROVE  IInv'
  BY <1>11, DestroyStep
<1>. QED  BY <1>1, <1>2, <1>3, <1>4, <1>5, <1>6, <1>7, <1>8, <1>9, <1>10, <1>11 DEF Next

(* Constructing, copying, moving, resizing and destroying storage objects, *)
(* in whatever order, also after an allocation has failed, leaves every    *)
(* block that is handed out with exactly one owner, which knows the size   *)
(* it was allocated with: nothing leaks and nothing is freed twice.        *)
THEOREM Ownership == Spec => []SoleOwner
<1>1. IInv => SoleOwner
  BY DEF IInv
<1>. QED  BY <1>1, InitIInv, NextIInv, PTL DEF Spec

(* A copy or kernel the device has still to run never reaches outside a    *)
(* block that is owned when it runs: the call that takes a block away      *)
(* waits for the queue first.                                              *)
THEOREM QueuedWithin == Spec => []QueuedWorkOnOwned
<1>1. IInv => QueuedWorkOnOwned
  BY DEF IInv, QueuedOK, Within, QueuedWorkOnOwned
<1>. QED  BY <1>1, InitIInv, NextIInv, PTL DEF Spec

-----------------------------------------------------------------------------
(* What the blocks hold when the device has caught up. *)

Memory == [Ptr -> Contents]

(* The rest of the ranges; memory that is not asynchronous has no queue.   *)
MemOK(d) ==
  /\ d.mem \in Memory
  /\ d.backend \in Backends
  /\ ~ d.backend.async => d.queue = << >>

(* The contents of the blocks after the operations of w, in their order.   *)
After(m, w) == FoldLeft(Applied, m, w)

LEMMA BlankIsContents == Blank \in Contents /\ \A n : Fills(n) \subseteq Contents
  BY ValuesAssumption DEF ValuesAssumption, Blank, Contents, Fills

(* An operation changes its target, and of that the elements it counts.    *)
LEMMA AppliedOK ==
  ASSUME NEW m \in Memory, NEW op \in Operation
  PROVE  /\ Applied(m, op) \in Memory
         /\ op.dst \in Ptr /\ (op.kind = "copy" => op.src \in Ptr)
         /\ \A p \in Ptr : p # op.dst => Applied(m, op)[p] = m[p]
         /\ \A i \in Cells : Applied(m, op)[op.dst][i] =
              IF i <= op.n THEN (IF op.kind = "copy" THEN m[op.src] ELSE op.to)[i]
                           ELSE m[op.dst][i]
<1>. DEFINE from == IF op.kind = "copy" THEN m[op.src] ELSE op.to
<1>1. /\ op.dst \in Ptr /\ from \in Contents
      /\ op.kind = "copy" => op.src \in Ptr
  BY DEF Operation, Memory
<1>2. Applied(m, op) = [m EXCEPT ![op.dst] =
                          [i \in Cells |-> IF i <= op.n THEN from[i] ELSE m[op.dst][i]]]
  BY DEF Applied
<1>. HIDE DEF from
<1>3. [i \in Cells |-> IF i <= op.n THEN from[i] ELSE m[op.dst][i]] \in Contents
  BY <1>1 DEF Memory, Contents
<1>4. /\ Applied(m, op) \in Memory
      /\ \A p \in Ptr : p # op.dst => Applied(m, op)[p] = m[p]
      /\ Applied(m, op)[op.dst] = [i \in Cells |-> IF i <= op.n THEN from[i] ELSE m[op.dst][i]]
  BY <1>1, <1>2, <1>3 DEF Memory
<1>. QED  BY <1>1, <1>4 DEF from

(* The fold of the instance of InductionFacts is that of this module.      *)
LEMMA SameFold ==
  ASSUME NEW m, NEW w
  PROVE  After(m, w) = Facts!FoldLeft(Applied, m, w)
  BY Zenon DEF After, FoldLeft, MapThenFoldSet, Max,
               Facts!FoldLeft, Facts!MapThenFoldSet, Facts!Max

LEMMA AfterNothing == ASSUME NEW m PROVE After(m, << >>) = m
  BY SameFold, Facts!FoldEmpty, Zenon

LEMMA AfterAppend ==
  ASSUME NEW m, NEW w \in Seq(Operation), NEW op \in Operation
  PROVE  After(m, Append(w, op)) = Applied(After(m, w), op)
  BY SameFold, Facts!FoldAppend, Zenon

LEMMA AfterHead ==
  ASSUME NEW m, NEW w \in Seq(Operation), w # << >>
  PROVE  After(m, w) = After(Applied(m, Head(w)), Tail(w))
  BY SameFold, Facts!FoldHead, Zenon

LEMMA AfterOK ==
  ASSUME NEW m \in Memory, NEW w \in Seq(Operation)
  PROVE  After(m, w) \in Memory
<1>1. \A v \in Memory, i \in 1 .. Len(w) : Applied(v, w[i]) \in Memory
  <2>1. \A i \in 1 .. Len(w) : w[i] \in Operation
    OBVIOUS
  <2>. QED  BY <2>1, AppliedOK
<1>. QED  BY <1>1, Facts!FoldInvariant, SameFold

(* Work does not care about what a block holds that it does not touch, and *)
(* leaves it alone.                                                        *)
LEMMA AfterElsewhere ==
  ASSUME NEW m \in Memory, NEW w \in Seq(Operation), NEW p \in Ptr, NEW c \in Contents,
         \A i \in 1 .. Len(w) : w[i].dst # p /\ (w[i].kind = "copy" => w[i].src # p)
  PROVE  After([m EXCEPT ![p] = c], w) = [After(m, w) EXCEPT ![p] = c]
<1>. DEFINE R == {v \in Memory \X Memory : v[1] = [v[2] EXCEPT ![p] = c]}
<1>1. <<[m EXCEPT ![p] = c], m>> \in R
  BY DEF Memory
<1>2. ASSUME NEW v, NEW u, NEW i \in 1 .. Len(w), <<v, u>> \in R
      PROVE  <<Applied(v, w[i]), Applied(u, w[i])>> \in R
  <2>1. /\ v \in Memory /\ u \in Memory /\ v = [u EXCEPT ![p] = c]
        /\ w[i] \in Operation
    BY <1>2
  <2>a. w[i].dst # p /\ (w[i].kind = "copy" => w[i].src # p)
    BY <1>2
  <2>b. w[i].dst \in Ptr /\ (w[i].kind = "copy" => w[i].src \in Ptr)
    BY <2>1 DEF Operation
  <2>. DEFINE op == w[i]
              from == IF op.kind = "copy" THEN u[op.src] ELSE op.to
              t == [j \in Cells |-> IF j <= op.n THEN from[j] ELSE u[op.dst][j]]
  <2>2. op.dst # p /\ op.dst \in Ptr /\ (op.kind = "copy" => op.src # p /\ op.src \in Ptr)
    BY <2>a, <2>b
  <2>3. Applied(u, op) = [u EXCEPT ![op.dst] = t]
    BY DEF Applied
  <2>4. Applied(v, op) = [v EXCEPT ![op.dst] = t]
    <3>1. v[op.dst] = u[op.dst] /\ (op.kind = "copy" => v[op.src] = u[op.src])
      BY <2>1, <2>2 DEF Memory
    <3>. QED  BY <3>1 DEF Applied
  <2>5. Applied(u, op) \in Memory /\ Applied(v, op) \in Memory
    BY <2>1, AppliedOK
  <2>. HIDE DEF op, t
  <2>6. Applied(v, op) = [Applied(u, op) EXCEPT ![p] = c]
    BY <2>1, <2>2, <2>3, <2>4 DEF Memory
  <2>. QED  BY <2>5, <2>6 DEF op
<1>. HIDE DEF R
<1>3. <<After([m EXCEPT ![p] = c], w), After(m, w)>> \in R
  BY <1>1, <1>2, Facts!FoldRelated, SameFold
<1>. QED  BY <1>3 DEF R

-----------------------------------------------------------------------------
(* What the calls of the host and the steps of the device do to it. *)

LEMMA FinalIs == ASSUME NEW d PROVE Final(d) = After(d.mem, d.queue)
  BY DEF Final, After

LEMMA FinalOK ==
  ASSUME NEW d, DevOK(d), MemOK(d)
  PROVE  Final(d) \in Memory
  BY FinalIs, AfterOK DEF DevOK, MemOK

(* A block that is handed out has contents nobody wrote, and no other      *)
(* block changes.                                                          *)
LEMMA FinalAllocations ==
  ASSUME NEW d, DevOK(d), MemOK(d), NEW n, NEW a \in Allocations(d, n)
  PROVE  /\ MemOK(a[1])
         /\ a[2] \in Ptr \cup {Null}
         /\ a[2] = Null => a[1] = d
         /\ a[2] \in Ptr => \E c \in Contents : Final(a[1]) = [Final(d) EXCEPT ![a[2]] = c]
<1>1. CASE a = <<d, Null>>
  BY <1>1
<1>2. CASE a # <<d, Null>>
  <2>1. PICK p \in FreshPtr(d), c \in Fills(n) : a = <<GivenOut(d, p, n, c), p>>
    BY <1>2 DEF Allocations
  <2>2. p \in Ptr /\ c \in Contents
    BY BlankIsContents DEF FreshPtr
  <2>3. /\ a[2] = p /\ a[1].mem = [d.mem EXCEPT ![p] = c]
        /\ a[1].queue = d.queue /\ a[1].backend = d.backend
    BY <2>1 DEF GivenOut, DevOK
  <2>4. MemOK(a[1])
    BY <2>2, <2>3 DEF MemOK, Memory
  <2>5. \A i \in 1 .. Len(d.queue) :
          d.queue[i].dst # p /\ (d.queue[i].kind = "copy" => d.queue[i].src # p)
    BY DEF FreshPtr
  <2>6. d.mem \in Memory /\ d.queue \in Seq(Operation)
    BY DEF MemOK, DevOK
  <2>7. After([d.mem EXCEPT ![p] = c], d.queue) = [After(d.mem, d.queue) EXCEPT ![p] = c]
    BY <2>2, <2>5, <2>6, AfterElsewhere
  <2>8. Final(a[1]) = [Final(d) EXCEPT ![p] = c]
    BY <2>3, <2>7, FinalIs
  <2>. QED  BY <2>2, <2>3, <2>4, <2>8
<1>. QED  BY <1>1, <1>2

LEMMA FinalSubmit ==
  ASSUME NEW d, DevOK(d), MemOK(d), NEW op \in Operation
  PROVE  MemOK(SubmitTo(d, op)) /\ Final(SubmitTo(d, op)) = Applied(Final(d), op)
<1>0. d.mem \in Memory /\ d.queue \in Seq(Operation)
  BY DEF MemOK, DevOK
<1>1. CASE d.backend.async
  <2>1. /\ SubmitTo(d, op).mem = d.mem /\ SubmitTo(d, op).queue = Append(d.queue, op)
        /\ SubmitTo(d, op).backend = d.backend
    BY <1>1 DEF SubmitTo, DevOK
  <2>2. MemOK(SubmitTo(d, op))
    BY <1>1, <2>1 DEF MemOK
  <2>3. Final(SubmitTo(d, op)) = After(d.mem, Append(d.queue, op))
    BY <2>1, FinalIs
  <2>4. After(d.mem, Append(d.queue, op)) = Applied(After(d.mem, d.queue), op)
    BY <1>0, AfterAppend
  <2>. QED  BY <2>2, <2>3, <2>4, FinalIs
<1>2. CASE ~ d.backend.async
  <2>1. /\ SubmitTo(d, op).mem = Applied(d.mem, op) /\ SubmitTo(d, op).queue = d.queue
        /\ SubmitTo(d, op).backend = d.backend
    BY <1>2 DEF SubmitTo, DevOK
  <2>2. d.queue = << >>
    BY <1>2 DEF MemOK
  <2>. QED  BY <1>0, <2>1, <2>2, FinalIs, AfterNothing, AppliedOK DEF MemOK
<1>. QED  BY <1>1, <1>2

LEMMA FinalDeallocated ==
  ASSUME NEW d, DevOK(d), MemOK(d), NEW p \in Ptr \cup {Null}
  PROVE  /\ MemOK(Deallocated(d, p))
         /\ Final(Deallocated(d, p)) = IF p = Null THEN Final(d) ELSE [Final(d) EXCEPT ![p] = Blank]
<1>. DEFINE m == Final(d)
            e == [block |-> d.block, mem |-> m, queue |-> << >>, backend |-> d.backend]
<1>1. m \in Memory
  BY FinalOK
<1>2. Synchronized(d) = e
  <2>1. d = [block |-> d.block, mem |-> d.mem, queue |-> d.queue, backend |-> d.backend]
    BY DEF DevOK
  <2>2. Synchronized(d) = [d EXCEPT !.mem = m, !.queue = << >>]
    BY DEF Synchronized
  <2>. HIDE DEF m
  <2>. QED  BY <2>1, <2>2
<1>. HIDE DEF m
<1>3. CASE p = Null
  <2>1. Deallocated(d, p) = e
    BY <1>2, <1>3 DEF Deallocated
  <2>2. e.mem = m /\ e.queue = << >> /\ e.backend = d.backend
    OBVIOUS
  <2>. QED  BY <1>1, <1>3, <2>1, <2>2, FinalIs, AfterNothing DEF MemOK, m
<1>4. CASE p # Null
  <2>. DEFINE t == [block |-> [d.block EXCEPT ![p] = 0], mem |-> [m EXCEPT ![p] = Blank],
                    queue |-> << >>, backend |-> d.backend]
  <2>1. Deallocated(d, p) = [e EXCEPT !.block[p] = 0, !.mem[p] = Blank]
    BY <1>2, <1>4, Zenon DEF Deallocated
  <2>2. Deallocated(d, p) = t
    BY <2>1
  <2>3. t.mem = [m EXCEPT ![p] = Blank] /\ t.queue = << >> /\ t.backend = d.backend
    OBVIOUS
  <2>4. t.mem \in Memory
    BY <1>1, <2>3, BlankIsContents DEF Memory
  <2>. HIDE DEF t
  <2>. QED  BY <1>4, <2>2, <2>3, <2>4, FinalIs, AfterNothing DEF MemOK, m
<1>. QED  BY <1>3, <1>4

(* Giving a block back changes what that block holds alone.                *)
LEMMA DeallocatedElsewhere ==
  ASSUME NEW d, DevOK(d), MemOK(d), NEW p \in Ptr \cup {Null}, NEW q \in Ptr, q # p
  PROVE  Final(Deallocated(d, p))[q] = Final(d)[q]
<1>1. Final(d) \in Memory
  BY FinalOK
<1>2. Final(Deallocated(d, p)) = IF p = Null THEN Final(d) ELSE [Final(d) EXCEPT ![p] = Blank]
  BY FinalDeallocated
<1>. QED  BY <1>1, <1>2 DEF Memory

(* A step of the device is only a matter of time.                          *)
LEMMA FinalStep ==
  ASSUME DevOK(dev), MemOK(dev), DeviceStep
  PROVE  MemOK(dev') /\ Final(dev') = Final(dev)
<1>1. /\ dev.queue # << >> /\ dev.mem \in Memory /\ dev.queue \in Seq(Operation)
      /\ dev'.mem = Applied(dev.mem, Head(dev.queue)) /\ dev'.queue = Tail(dev.queue)
      /\ dev'.backend = dev.backend
  BY DEF DeviceStep, DevOK, MemOK
<1>2. Head(dev.queue) \in Operation
  BY <1>1
<1>3. MemOK(dev')
  BY <1>1, <1>2, AppliedOK DEF MemOK
<1>. QED  BY <1>1, <1>3, FinalIs, AfterHead

-----------------------------------------------------------------------------
(* Values *)

(* What storage object s on device d stands for. *)
Shown(d, s) ==
  IF ~ Usable(s) THEN Lost ELSE [i \in 1 .. s.size |-> Final(d)[s.data][i]]

LEMMA ShownSame ==
  ASSUME NEW d, NEW e, NEW s \in Storages,
         s.data \in Ptr => Final(e)[s.data] = Final(d)[s.data]
  PROVE  Shown(e, s) = Shown(d, s)
<1>1. CASE s.data \in Ptr
  BY <1>1 DEF Shown
<1>2. CASE s.data = Null /\ s.size = 0
  <2>1. 1 .. s.size = {}
    BY <1>2
  <2>. QED  BY <2>1 DEF Shown
<1>3. CASE s.data = Null /\ s.size # 0
  BY <1>3 DEF Shown, Usable, Storages
<1>. QED  BY <1>1, <1>2, <1>3 DEF Storages

(* The elements of an object that has some are told from Dead and Lost.    *)
LEMMA ShownElements ==
  ASSUME NEW d, DevOK(d), MemOK(d), NEW s \in Storages, Usable(s)
  PROVE  /\ Shown(d, s) \in [1 .. s.size -> Value]
         /\ Shown(d, s) # Dead /\ Shown(d, s) # Lost
<1>1. Final(d) \in Memory
  BY FinalOK
<1>2. s.size \in 0 .. MaxSize /\ s.data \in Ptr \cup {Null}
  BY DEF Storages
<1>3. ASSUME NEW i \in 1 .. s.size PROVE Final(d)[s.data][i] \in Value
  <2>1. s.data \in Ptr /\ i \in Cells
    BY <1>2, <1>3 DEF Usable, Cells
  <2>. QED  BY <1>1, <2>1 DEF Memory, Contents
<1>4. Shown(d, s) \in [1 .. s.size -> Value]
  BY <1>3 DEF Shown
<1>. QED  BY <1>2, <1>4, ValuesAssumption DEF ValuesAssumption

LEMMA SubmitDevOK ==
  ASSUME NEW d, DevOK(d), NEW op \in Operation
  PROVE  DevOK(SubmitTo(d, op))
<1>1. CASE d.backend.async
  <2>1. SubmitTo(d, op) = [block |-> d.block, mem |-> d.mem, queue |-> Append(d.queue, op),
                         backend |-> d.backend]
    BY <1>1 DEF SubmitTo, DevOK
  <2>2. Append(d.queue, op) \in Seq(Operation)
    BY DEF DevOK
  <2>. QED  BY <2>1, <2>2 DEF DevOK
<1>2. CASE ~ d.backend.async
  <2>1. SubmitTo(d, op) = [block |-> d.block, mem |-> Applied(d.mem, op), queue |-> d.queue,
                         backend |-> d.backend]
    BY <1>2 DEF SubmitTo, DevOK
  <2>. QED  BY <2>1 DEF DevOK
<1>. QED  BY <1>1, <1>2

(* resize() keeps the common prefix, unless it may discard it, and leaves  *)
(* blocks of others alone; without memory an object is lost unless it had  *)
(* nothing to lose.                                                        *)
LEMMA GrownShown ==
  ASSUME NEW d, DevOK(d), QueuedOK(d), MemOK(d), NEW s, Owned(d, s), s.capacity > 0,
         NEW n \in 1 .. MaxSize, n > s.capacity, NEW discard \in BOOLEAN,
         NEW r \in Grown(d, s, n, discard)
  PROVE  /\ MemOK(r[1])
         /\ \A p \in Ptr : p # s.data /\ p # r[2].data => Final(r[1])[p] = Final(d)[p]
         /\ ~ discard =>
              /\ Usable(s)
              /\ r[2].data # Null =>
                   \A i \in 1 .. n : i <= s.size =>
                     Final(r[1])[r[2].data][i] = Final(d)[s.data][i]
              /\ r[2].data = Null => s.size = 0
<1>1. PICK a \in Allocations(d, n) :
        /\ discard \/ s.size = 0 \/ (a[2] # Null /\ Usable(s))
        /\ r = <<Deallocated(IF discard \/ s.size = 0
                               THEN a[1]
                               ELSE SubmitTo(a[1], CopyOp(s.data, a[2], Kept(s, n))),
                             s.data),
                 Block(a[2], n)>>
  BY DEF Grown
<1>2. /\ DevOK(a[1]) /\ MemOK(a[1]) /\ a[2] \in Ptr \cup {Null}
      /\ a[2] \in Ptr => d.block[a[2]] = 0
  <2>1. MemOK(a[1]) /\ a[2] \in Ptr \cup {Null}
    BY FinalAllocations
  <2>2. DevOK(a[1]) /\ (a[2] \in Ptr => d.block[a[2]] = 0)
    BY AllocationsOK
  <2>. QED  BY <2>1, <2>2
<1>3. /\ \A p \in Ptr : p # a[2] => Final(a[1])[p] = Final(d)[p]
      /\ Final(d) \in Memory /\ Final(a[1]) \in Memory
  <2>1. Final(d) \in Memory /\ Final(a[1]) \in Memory
    BY <1>2, FinalOK
  <2>2. CASE a[2] = Null
    BY <2>1, <2>2, FinalAllocations
  <2>3. CASE a[2] \in Ptr
    <3>1. PICK c \in Contents : Final(a[1]) = [Final(d) EXCEPT ![a[2]] = c]
      BY <2>3, FinalAllocations
    <3>. QED  BY <2>1, <3>1 DEF Memory
  <2>. QED  BY <1>2, <2>2, <2>3, <2>1
<1>4. /\ s \in Storages /\ s.data \in Ptr \cup {Null} /\ s.size \in 0 .. MaxSize
      /\ s.size <= s.capacity /\ s.capacity \in Nat
      /\ s.data \in Ptr => d.block[s.data] = s.capacity
  BY DEF Owned, Storages
<1>5. s.data \in Ptr => s.data # a[2]
  BY <1>2, <1>4
<1>. DEFINE copies == ~ (discard \/ s.size = 0)
            op == CopyOp(s.data, a[2], Kept(s, n))
            e == IF discard \/ s.size = 0 THEN a[1] ELSE SubmitTo(a[1], op)
<1>6. ASSUME copies
      PROVE  /\ a[2] \in Ptr /\ s.data \in Ptr /\ Usable(s) /\ op \in Operation
             /\ op.kind = "copy" /\ op.src = s.data /\ op.dst = a[2] /\ op.n = s.size
  <2>1. a[2] \in Ptr /\ s.data \in Ptr /\ Usable(s)
    BY <1>1, <1>2, <1>4, <1>6 DEF Usable
  <2>2. Kept(s, n) = s.size /\ s.size \in Cells
    <3>1. s.size # 0 /\ s.size < n
      BY <1>4, <1>6
    <3>. HIDE DEF op, e, copies
    <3>. QED  BY <1>4, <3>1 DEF Kept, Cells
  <2>. QED  BY <2>1, <2>2, CopyIsOperation DEF CopyOp
<1>7. /\ DevOK(e) /\ MemOK(e)
      /\ ~ copies => Final(e) = Final(a[1])
      /\ copies => Final(e) = Applied(Final(a[1]), op)
  <2>1. CASE copies
    <3>1. e = SubmitTo(a[1], op)
      BY <2>1
    <3>2. op \in Operation
      BY <1>6, <2>1
    <3>. HIDE DEF e, op
    <3>. QED  BY <1>2, <2>1, <3>1, <3>2, SubmitDevOK, FinalSubmit
  <2>2. CASE ~ copies
    BY <1>2, <2>2
  <2>. QED  BY <2>1, <2>2
<1>8. r[1] = Deallocated(e, s.data) /\ r[2].data = a[2]
  BY <1>1 DEF Block
<1>9. copies => /\ \A p \in Ptr : p # a[2] => Final(e)[p] = Final(a[1])[p]
                /\ \A i \in Cells : i <= s.size =>
                     Final(e)[a[2]][i] = Final(a[1])[s.data][i]
  <2>1. ASSUME copies PROVE op \in Operation
    BY <1>6, <2>1
  <2>. QED  BY <1>3, <1>6, <1>7, <2>1, AppliedOK
<1>. HIDE DEF e, op
<1>10. MemOK(r[1]) /\ \A p \in Ptr : p # s.data => Final(r[1])[p] = Final(e)[p]
  <2>1. Final(e) \in Memory
    BY <1>7, FinalOK
  <2>2. /\ MemOK(r[1])
        /\ Final(r[1]) = IF s.data = Null THEN Final(e) ELSE [Final(e) EXCEPT ![s.data] = Blank]
    BY <1>4, <1>7, <1>8, FinalDeallocated
  <2>. QED  BY <2>1, <2>2 DEF Memory
<1>11. \A p \in Ptr : p # s.data /\ p # r[2].data => Final(r[1])[p] = Final(d)[p]
  BY <1>3, <1>7, <1>8, <1>9, <1>10
<1>12. ASSUME ~ discard
       PROVE  /\ Usable(s)
              /\ r[2].data = Null => s.size = 0
              /\ r[2].data # Null =>
                   \A i \in 1 .. n : i <= s.size =>
                     Final(r[1])[r[2].data][i] = Final(d)[s.data][i]
  <2>1. CASE s.size = 0
    BY <2>1, <1>4 DEF Usable
  <2>2. CASE s.size # 0
    <3>1. copies /\ a[2] \in Ptr /\ s.data \in Ptr /\ Usable(s)
      BY <1>6, <1>12, <2>2
    <3>2. ASSUME NEW i \in 1 .. n, i <= s.size
          PROVE  Final(r[1])[a[2]][i] = Final(d)[s.data][i]
      <4>1. i \in Cells
        BY DEF Cells
      <4>2. Final(r[1])[a[2]] = Final(e)[a[2]]
        BY <1>5, <1>10, <3>1
      <4>3. Final(e)[a[2]][i] = Final(a[1])[s.data][i]
        BY <1>9, <3>1, <3>2, <4>1
      <4>4. Final(a[1])[s.data] = Final(d)[s.data]
        BY <1>3, <1>5, <3>1
      <4>. QED  BY <4>2, <4>3, <4>4
    <3>. QED  BY <1>8, <3>1, <3>2
  <2>. QED  BY <2>1, <2>2
<1>. QED  BY <1>10, <1>11, <1>12

LEMMA ResizedShown ==
  ASSUME NEW d, DevOK(d), QueuedOK(d), MemOK(d), NEW s, Owned(d, s),
         NEW n \in 0 .. MaxSize, NEW discard \in BOOLEAN,
         NEW r \in Resized(d, s, n, discard)
  PROVE  /\ MemOK(r[1])
         /\ \A p \in Ptr : p # s.data /\ p # r[2].data => Final(r[1])[p] = Final(d)[p]
         /\ ~ discard =>
              /\ ~ Usable(s) /\ n > 0 => r[2].data = Null
              /\ Usable(s) /\ r[2].data # Null =>
                   \A i \in 1 .. n : i <= s.size =>
                     Final(r[1])[r[2].data][i] = Final(d)[s.data][i]
              /\ Usable(s) /\ r[2].data = Null => s.size = 0
<1>0. /\ s \in Storages /\ s.capacity \in 0 .. MaxSize /\ s.size \in 0 .. MaxSize
      /\ s.size <= s.capacity
      /\ s.capacity = 0 => s.data = Null /\ s.size = 0
  BY DEF Owned, Storages
<1>1. CASE s.capacity = 0 /\ n = 0
  <2>1. r = <<d, s>> /\ s.size = 0
    BY <1>0, <1>1 DEF Resized
  <2>. QED  BY <1>0, <1>1, <2>1
<1>2. CASE s.capacity = 0 /\ n > 0
  <2>1. PICK a \in Allocations(d, n) : r = <<a[1], Block(a[2], n)>>
    BY <1>2 DEF Resized
  <2>2. /\ MemOK(a[1]) /\ a[2] \in Ptr \cup {Null}
        /\ a[2] = Null => a[1] = d
        /\ a[2] \in Ptr => \E c \in Contents : Final(a[1]) = [Final(d) EXCEPT ![a[2]] = c]
    BY FinalAllocations
  <2>3. \A p \in Ptr : p # a[2] => Final(a[1])[p] = Final(d)[p]
    BY <2>2, FinalOK DEF Memory
  <2>4. Usable(s) /\ \A i \in 1 .. n : ~ (i <= s.size)
    BY <1>0, <1>2 DEF Usable
  <2>. QED  BY <1>0, <1>2, <2>1, <2>2, <2>3, <2>4 DEF Block
<1>3. CASE s.capacity > 0 /\ n > s.capacity
  <2>1. r \in Grown(d, s, n, discard) /\ n \in 1 .. MaxSize
    BY <1>0, <1>3 DEF Resized
  <2>. QED  BY <1>3, <2>1, GrownShown
<1>4. CASE s.capacity > 0 /\ n <= s.capacity
  <2>1. r = <<d, [s EXCEPT !.size = n]>>
    BY <1>0, <1>4 DEF Resized
  <2>2. r[1] = d /\ r[2].data = s.data
    BY <1>0, <2>1 DEF Storages
  <2>3. s.size \in Nat /\ (Usable(s) /\ s.data = Null => s.size = 0)
    BY <1>0 DEF Usable
  <2>4. ~ Usable(s) => s.data = Null
    BY DEF Usable
  <2>. QED  BY <2>2, <2>3, <2>4
<1>. QED  BY <1>0, <1>1, <1>2, <1>3, <1>4

(* An assignment leaves the value of its source and blocks of others alone. *)
LEMMA AssignedShown ==
  ASSUME NEW d, DevOK(d), QueuedOK(d), MemOK(d), NEW s, Owned(d, s),
         NEW from, Owned(d, from), Usable(from),
         from = s \/ from.data \notin Ptr \/ from.data # s.data,
         NEW r \in Assigned(d, s, from)
  PROVE  /\ MemOK(r[1])
         /\ \A p \in Ptr : p # s.data /\ p # r[2].data => Final(r[1])[p] = Final(d)[p]
         /\ Shown(r[1], r[2]) = Shown(d, from)
<1>. DEFINE n == from.size
<1>1. PICK q \in Resized(d, s, n, TRUE) :
        /\ n > 0 => q[2].data # Null
        /\ r = <<IF n > 0 THEN SubmitTo(q[1], CopyOp(from.data, q[2].data, n)) ELSE q[1], q[2]>>
  BY DEF Assigned
<1>2. /\ from \in Storages /\ n \in 0 .. MaxSize /\ from.data \in Ptr \cup {Null}
      /\ from.capacity \in 0 .. MaxSize /\ n <= from.capacity
      /\ from.data \in Ptr => d.block[from.data] = from.capacity
  BY DEF Owned, Storages
<1>3. PICK b \in BOOLEAN : q \in Resized(d, s, n, b)
  BY Zenon
<1>4. /\ DevOK(q[1]) /\ Effect(d, s, q[1], q[2]) /\ q[2].size = n
      /\ n <= s.capacity => q[2].data = s.data /\ q[1] = d
  BY <1>2, <1>3, ResizedOK
<1>5. /\ MemOK(q[1])
      /\ \A p \in Ptr : p # s.data /\ p # q[2].data => Final(q[1])[p] = Final(d)[p]
  BY <1>2, <1>3, ResizedShown
<1>6. r[2] = q[2]
  BY <1>1
<1>7. CASE n = 0
  <2>1. r[1] = q[1]
    BY <1>1, <1>7
  <2>2. Usable(q[2]) /\ Usable(from) /\ 1 .. n = {}
    BY <1>4, <1>7 DEF Usable
  <2>3. Shown(q[1], q[2]) = Shown(d, from)
    BY <1>4, <2>2 DEF Shown
  <2>. QED  BY <1>5, <1>6, <2>1, <2>3
<1>8. CASE n > 0
  <2>. DEFINE op == CopyOp(from.data, q[2].data, n)
              e == SubmitTo(q[1], op)
  <2>1. /\ from.data \in Ptr /\ q[2].data \in Ptr /\ n \in Cells
    BY <1>1, <1>2, <1>4, <1>8 DEF Usable, Effect, Owned, Storages, Cells
  <2>2. /\ op \in Operation /\ op.kind = "copy" /\ op.src = from.data
        /\ op.dst = q[2].data /\ op.n = n
    BY <2>1, CopyIsOperation DEF CopyOp
  <2>3. r[1] = e
    BY <1>1, <1>8
  <2>. HIDE DEF op
  <2>4. MemOK(e) /\ Final(e) = Applied(Final(q[1]), op)
    BY <1>4, <1>5, <2>2, FinalSubmit
  <2>5. Final(q[1]) \in Memory
    BY <1>4, <1>5, FinalOK
  <2>6. /\ \A p \in Ptr : p # q[2].data => Final(e)[p] = Final(q[1])[p]
        /\ \A i \in Cells : i <= n => Final(e)[q[2].data][i] = Final(q[1])[from.data][i]
    BY <2>2, <2>4, <2>5, AppliedOK
  <2>7. Final(q[1])[from.data] = Final(d)[from.data]
    <3>1. CASE from = s
      <4>1. q[1] = d
        BY <1>2, <1>4, <3>1
      <4>. QED  BY <4>1
    <3>2. CASE from # s
      <4>1. from.data # s.data
        BY <2>1, <3>2
      <4>2. from.data # q[2].data
        <5>1. d.block[from.data] > 0
          BY <1>2, <1>8, <2>1
        <5>. QED  BY <1>4, <2>1, <4>1, <5>1 DEF Effect
      <4>. QED  BY <1>5, <2>1, <4>1, <4>2
    <3>. QED  BY <3>1, <3>2
  <2>8. Shown(e, q[2]) = Shown(d, from)
    <3>1. Usable(q[2]) /\ Usable(from)
      BY <2>1 DEF Usable
    <3>2. \A i \in 1 .. n : Final(e)[q[2].data][i] = Final(d)[from.data][i]
      <4>1. \A i \in 1 .. n : i \in Cells /\ i <= n
        BY <1>2 DEF Cells
      <4>. QED  BY <2>6, <2>7, <4>1
    <3>. HIDE DEF e
    <3>. QED  BY <1>4, <3>1, <3>2 DEF Shown
  <2>. HIDE DEF e
  <2>. QED  BY <1>5, <1>6, <2>3, <2>4, <2>6, <2>8
<1>. QED  BY <1>2, <1>7, <1>8

-----------------------------------------------------------------------------
(* The refinement *)

Vals == [o \in Obj |-> ValueOf(o)]

LEMMA ValuesAre ==
  /\ Vals = [o \in Obj |-> IF Alive(o) THEN Shown(dev, store[o]) ELSE Dead]
  /\ Vals' = [o \in Obj |-> IF Alive(o)' THEN Shown(dev', store'[o]) ELSE Dead]
  BY DEF Vals, ValueOf, Shown, Final, Usable, Alive

(* What o is to a call that makes it anew or changes it.                   *)
Was(o) == IF Alive(o) THEN store[o] ELSE Empty

(* An object that nothing is done to keeps its block.                      *)
LEMMA OthersKeep ==
  ASSUME IInv, NEW o \in Obj, NEW t,
         Effect(dev, Was(o), dev', t), NEW u \in Obj \ {o}, Alive(u), store[u].data \in Ptr
  PROVE  store[u].data # Was(o).data /\ store[u].data # t.data
<1>1. dev.block[store[u].data] > 0
  BY DEF IInv, SoleOwner
<1>2. store[u].data # Was(o).data
  BY DEF IInv, SoleOwner, Empty, Was
<1>. QED  BY <1>1, <1>2 DEF Effect

(* A call on one object changes its value alone.                           *)
LEMMA OwnValue ==
  ASSUME IInv, NEW o \in Obj, NEW t \in Storages,
         store' = [store EXCEPT ![o] = t], Effect(dev, Was(o), dev', t),
         \A p \in Ptr : p # Was(o).data /\ p # t.data => Final(dev')[p] = Final(dev)[p]
  PROVE  Vals' = [Vals EXCEPT ![o] = Shown(dev', t)]
<1>1. /\ store'[o] = t /\ t # Dead
      /\ \A u \in Obj \ {o} : store'[u] = store[u]
  BY DEF IInv, Storages
<1>2. Vals' = [u \in Obj |-> IF Alive(u)' THEN Shown(dev', store'[u]) ELSE Dead]
  BY ValuesAre
<1>3. Alive(o)' /\ \A u \in Obj \ {o} : Alive(u)' <=> Alive(u)
  BY <1>1 DEF Alive
<1>4. ASSUME NEW u \in Obj \ {o}, Alive(u)
      PROVE  Shown(dev', store[u]) = Shown(dev, store[u])
  <2>1. store[u] \in Storages
    BY <1>4, AliveIs
  <2>2. store[u].data \in Ptr => Final(dev')[store[u].data] = Final(dev)[store[u].data]
    BY <1>4, OthersKeep
  <2>. QED  BY <2>1, <2>2, ShownSame
<1>. QED  BY <1>1, <1>2, <1>3, <1>4, ValuesAre

(* Moving leaves an empty object behind, whatever the target was.          *)
LEMMA MoveValue ==
  ASSUME IInv, NEW o \in Obj, NEW s \in Obj, Alive(s), MemOK(dev'),
         store' = [[store EXCEPT ![o] = store[s]] EXCEPT ![s] = Empty],
         \A u \in Obj \ {o} : Alive(u) /\ store[u].data \in Ptr =>
           Final(dev')[store[u].data] = Final(dev)[store[u].data]
  PROVE  Vals' = [[Vals EXCEPT ![o] = Vals[s]] EXCEPT ![s] = << >>]
<1>1. /\ store'[s] = Empty /\ Empty # Dead
      /\ o # s => store'[o] = store[s]
      /\ \A u \in Obj \ {o, s} : store'[u] = store[u]
  BY DEF IInv, Empty, Storages
<1>2. Shown(dev', Empty) = << >>
  <2>1. Usable(Empty) /\ 1 .. Empty.size = {}
    BY DEF Empty, Usable
  <2>. QED  BY <2>1 DEF Shown
<1>3. ASSUME NEW u \in Obj, u # o, Alive(u)
      PROVE  Shown(dev', store[u]) = Shown(dev, store[u])
  BY <1>3, AliveIs, ShownSame
<1>4. /\ Alive(s)'
      /\ Alive(o)'
      /\ \A u \in Obj \ {o, s} : Alive(u)' <=> Alive(u)
  BY <1>1 DEF Alive
<1>5. Vals'[s] = << >>
  BY <1>1, <1>2, <1>4, ValuesAre
<1>6. o # s => Vals'[o] = Vals[s]
  BY <1>1, <1>3, <1>4, ValuesAre
<1>7. ASSUME NEW u \in Obj \ {o, s} PROVE Vals'[u] = Vals[u]
  BY <1>1, <1>3, <1>4, ValuesAre
<1>8. /\ Vals \in [Obj -> {Vals[u] : u \in Obj}] /\ Vals' = [u \in Obj |-> Vals'[u]]
  BY ValuesAre
<1>. QED  BY <1>5, <1>6, <1>7, <1>8

(* The kernel that writes the elements of an object.                       *)
LEMMA WriteOperation ==
  ASSUME IInv, NEW o \in Obj, Write(o)
  PROVE  /\ Alive(o) /\ Owned(dev, store[o]) /\ Usable(store[o])
         /\ store[o].data \in Ptr /\ store[o].size \in Cells /\ store' = store
         /\ \E op \in Operation : op.dst = store[o].data /\ dev' = SubmitTo(dev, op)
<1>1. PICK c \in Fills(store[o].size) :
        dev' = SubmitTo(dev, KernelOp(store[o].data, store[o].size, c))
  BY DEF Write
<1>2. /\ Alive(o) /\ Usable(store[o]) /\ Owned(dev, store[o])
      /\ store[o].data \in Ptr /\ store[o].size \in Cells /\ c \in Contents
  BY AliveIs DEF IInv, Write, Usable, Storages, Cells, Fills
<1>3. /\ KernelOp(store[o].data, store[o].size, c) \in Operation
      /\ KernelOp(store[o].data, store[o].size, c).dst = store[o].data
  BY <1>2 DEF KernelOp, Operation
<1>4. store' = store
  BY DEF Write
<1>. QED  BY <1>1, <1>2, <1>3, <1>4

LEMMA InitMem == Init => MemOK(dev)
  BY BlankIsContents DEF Init, MemOK, Memory

(* What is done to the device keeps the contents of blocks in their range. *)
LEMMA NextMem == IInv /\ MemOK(dev) /\ [Next]_vars => MemOK(dev')
<1>. SUFFICES ASSUME IInv, MemOK(dev), [Next]_vars PROVE MemOK(dev')
  OBVIOUS
<1>0. DevOK(dev) /\ QueuedOK(dev)
  BY DEF IInv
<1>1. ASSUME NEW o \in Obj, NEW n \in 0 .. MaxSize, Construct(o, n)
      PROVE  MemOK(dev')
  BY <1>0, <1>1, FinalAllocations DEF Construct
<1>2. ASSUME NEW o \in Obj, NEW n \in 0 .. MaxSize, Resize(o, n)
      PROVE  MemOK(dev')
  <2>1. PICK r \in Resized(dev, store[o], n, FALSE) : dev' = r[1]
    BY <1>2 DEF Resize
  <2>2. PICK b \in BOOLEAN : r \in Resized(dev, store[o], n, b)
    BY Zenon
  <2>3. Owned(dev, store[o])
    BY <1>2 DEF Resize, IInv
  <2>. QED  BY <1>0, <2>1, <2>2, <2>3, ResizedShown
<1>3. ASSUME NEW o \in Obj, NEW s \in Obj, CopyConstruct(o, s)
      PROVE  MemOK(dev')
  <2>1. PICK r \in Assigned(dev, Empty, store[s]) : dev' = r[1]
    BY <1>3 DEF CopyConstruct
  <2>2. Owned(dev, store[s]) /\ Owned(dev, Empty) /\ Usable(store[s])
    BY <1>3, EmptyIsOwned DEF CopyConstruct, IInv
  <2>3. store[s].data \notin Ptr \/ store[s].data # Empty.data
    BY DEF Empty
  <2>. QED  BY <1>0, <2>1, <2>2, <2>3, AssignedShown
<1>4. ASSUME NEW o \in Obj, NEW s \in Obj, CopyAssign(o, s)
      PROVE  MemOK(dev')
  <2>1. PICK r \in Assigned(dev, store[o], store[s]) : dev' = r[1]
    BY <1>4 DEF CopyAssign
  <2>2. /\ Owned(dev, store[s]) /\ Owned(dev, store[o]) /\ Usable(store[s])
        /\ Alive(o) /\ Alive(s)
    BY <1>4 DEF CopyAssign, IInv
  <2>3. \/ store[s] = store[o]
        \/ store[s].data \notin Ptr
        \/ store[s].data # store[o].data
    BY <2>2 DEF IInv, SoleOwner
  <2>. QED  BY <1>0, <2>1, <2>2, <2>3, AssignedShown
<1>5. ASSUME NEW o \in Obj, NEW s \in Obj, MoveAssign(o, s)
      PROVE  MemOK(dev')
  <2>1. store[o].data \in Ptr \cup {Null}
    BY <1>5, AliveIs DEF MoveAssign, Storages
  <2>. QED  BY <1>0, <1>5, <2>1, FinalDeallocated DEF MoveAssign
<1>6. ASSUME NEW o \in Obj, Destroy(o)
      PROVE  MemOK(dev')
  <2>1. store[o].data \in Ptr \cup {Null}
    BY <1>6, AliveIs DEF Destroy, Storages
  <2>. QED  BY <1>0, <1>6, <2>1, FinalDeallocated DEF Destroy
<1>7. ASSUME NEW o \in Obj, Write(o)
      PROVE  MemOK(dev')
  <2>1. PICK op \in Operation : dev' = SubmitTo(dev, op)
    BY <1>7, WriteOperation
  <2>. QED  BY <1>0, <2>1, FinalSubmit
<1>8. CASE DeviceStep
  BY <1>0, <1>8, FinalStep
<1>9. CASE UNCHANGED dev
  BY <1>9
<1>. QED
  BY <1>1, <1>2, <1>3, <1>4, <1>5, <1>6, <1>7, <1>8, <1>9
  DEF Next, MoveConstruct, AllocateThrows, vars

(* What the abstract values are: elements, unless dead or lost.            *)
LEMMA ValueCases ==
  ASSUME IInv, MemOK(dev), NEW o \in Obj
  PROVE  /\ ~ Alive(o) <=> Vals[o] = Dead
         /\ Alive(o) =>
              /\ Vals[o] = Shown(dev, store[o])
              /\ ~ Usable(store[o]) <=> Vals[o] = Lost
              /\ Usable(store[o]) =>
                   /\ Vals[o] \in Values!Elements(store[o].size)
                   /\ Vals[o] # Dead /\ Vals[o] # Lost
                   /\ Len(Vals[o]) = store[o].size
<1>1. CASE ~ Alive(o)
  BY <1>1, ValuesAre
<1>2. CASE Alive(o)
  <2>1. Vals[o] = Shown(dev, store[o])
    BY <1>2, ValuesAre
  <2>2. /\ store[o] \in Storages /\ store[o].size \in Nat
        /\ DevOK(dev)
    BY <1>2, AliveIs DEF IInv, Storages
  <2>3. CASE ~ Usable(store[o])
    BY <1>2, <2>1, <2>3, ValuesAssumption DEF Shown, ValuesAssumption
  <2>4. CASE Usable(store[o])
    <3>1. /\ Shown(dev, store[o]) \in [1 .. store[o].size -> Value]
          /\ Shown(dev, store[o]) # Dead /\ Shown(dev, store[o]) # Lost
      BY <2>2, <2>4, ShownElements
    <3>2. \A f \in [1 .. store[o].size -> Value] : Len(f) = store[o].size
      BY <2>2
    <3>. QED  BY <1>2, <2>1, <2>4, <3>1, <3>2 DEF Values!Elements
  <2>. QED  BY <2>3, <2>4
<1>. QED  BY <1>1, <1>2

(* Each call is the operation of the same name on values; work the device  *)
(* does changes no value.                                                  *)
LEMMA ConstructRefines ==
  ASSUME IInv, MemOK(dev), IInv', MemOK(dev'), NEW o \in Obj, NEW n \in 0 .. MaxSize,
         Construct(o, n)
  PROVE  Vals[o] = Dead /\ \E v \in Values!Elements(n) \cup {Lost} : Vals' = [Vals EXCEPT ![o] = v]
<1>1. PICK t \in Storages :
        /\ store' = [store EXCEPT ![o] = t] /\ t.size = n
        /\ Effect(dev, Empty, dev', t)
        /\ \A p \in Ptr : p # t.data => Final(dev')[p] = Final(dev)[p]
  <2>1. CASE n = 0
    <3>1. Empty \in Storages /\ Empty.size = 0
      BY DEF Empty, Storages
    <3>2. Effect(dev, Empty, dev, Empty)
      BY EmptyIsOwned DEF Effect
    <3>. QED  BY <2>1, <3>1, <3>2 DEF Construct
  <2>2. CASE n # 0
    <3>1. PICK a \in Allocations(dev, n) : store' = [store EXCEPT ![o] = Block(a[2], n)] /\ dev' = a[1]
      BY <2>2 DEF Construct
    <3>2. n \in 1 .. MaxSize /\ DevOK(dev) /\ QueuedOK(dev)
      BY <2>2 DEF IInv
    <3>3. Block(a[2], n) \in Storages /\ Block(a[2], n).size = n /\ Effect(dev, Empty, dev', Block(a[2], n))
      <4>1. \/ a[2] = Null /\ dev'.block = dev.block
            \/ /\ a[2] \in Ptr /\ dev.block[a[2]] = 0
               /\ dev'.block = [dev.block EXCEPT ![a[2]] = n]
        BY <3>1, <3>2, AllocationsOK
      <4>. QED  BY <3>2, <4>1 DEF Block, Storages, Effect, Owned, Empty, DevOK
    <3>4. \A p \in Ptr : p # Block(a[2], n).data => Final(dev')[p] = Final(dev)[p]
      <4>1. /\ a[2] = Null => dev' = dev
            /\ a[2] \in Ptr => \E c \in Contents : Final(dev') = [Final(dev) EXCEPT ![a[2]] = c]
            /\ a[2] \in Ptr \cup {Null}
        BY <3>1, <3>2, FinalAllocations
      <4>2. Final(dev) \in Memory
        BY <3>2, FinalOK
      <4>. QED  BY <4>1, <4>2 DEF Block, Memory
    <3>. QED  BY <3>1, <3>3, <3>4
  <2>. QED  BY <2>1, <2>2
<1>2. ~ Alive(o) /\ Was(o) = Empty
  BY DEF Construct, Was
<1>3. Vals' = [Vals EXCEPT ![o] = Shown(dev', t)]
  BY <1>1, <1>2, OwnValue
<1>4. Shown(dev', t) \in Values!Elements(n) \cup {Lost}
  <2>1. DevOK(dev')
    BY DEF IInv
  <2>2. CASE Usable(t)
    BY <1>1, <2>1, <2>2, ShownElements DEF Values!Elements
  <2>3. CASE ~ Usable(t)
    BY <2>3 DEF Shown
  <2>. QED  BY <2>2, <2>3
<1>. QED  BY <1>2, <1>3, <1>4, ValueCases

LEMMA CopyRefines ==
  ASSUME IInv, MemOK(dev), NEW o \in Obj, NEW s \in Obj,
         CopyConstruct(o, s) \/ CopyAssign(o, s)
  PROVE  Values!Copy(o, s)
<1>. DEFINE old == IF Alive(o) THEN store[o] ELSE Empty
<1>1. PICK r \in Assigned(dev, old, store[s]) :
        store' = [store EXCEPT ![o] = r[2]] /\ dev' = r[1]
  BY DEF CopyConstruct, CopyAssign
<1>2. /\ Alive(s) /\ Usable(store[s]) /\ DevOK(dev) /\ QueuedOK(dev)
      /\ Owned(dev, store[s]) /\ Owned(dev, old)
  BY EmptyIsOwned DEF CopyConstruct, CopyAssign, IInv
<1>3. \/ store[s] = old
      \/ store[s].data \notin Ptr
      \/ store[s].data # old.data
  BY <1>2 DEF IInv, SoleOwner, Empty
<1>. HIDE DEF old
<1>4. /\ \A p \in Ptr : p # old.data /\ p # r[2].data => Final(dev')[p] = Final(dev)[p]
      /\ Shown(dev', r[2]) = Shown(dev, store[s])
  BY <1>1, <1>2, <1>3, AssignedShown
<1>5. Effect(dev, old, dev', r[2])
  BY <1>1, <1>2, <1>3, AssignedOK
<1>6. Vals' = [Vals EXCEPT ![o] = Shown(dev', r[2])]
  <2>1. r[2] \in Storages
    BY <1>5 DEF Effect, Owned
  <2>2. old = Was(o)
    BY DEF old, Was
  <2>3. PICK t \in Storages : t = r[2]
    BY <2>1
  <2>4. \A p \in Ptr : p # old.data /\ p # t.data => Final(dev')[p] = Final(dev)[p]
    BY <1>4, <2>3
  <2>5. store' = [store EXCEPT ![o] = t] /\ Effect(dev, old, dev', t)
    BY <1>1, <1>5, <2>3
  <2>6. Vals' = [Vals EXCEPT ![o] = Shown(dev', t)]
    BY <2>2, <2>4, <2>5, OwnValue
  <2>. QED  BY <2>3, <2>6
<1>7. Vals[s] = Shown(dev, store[s]) /\ Vals[s] # Dead /\ Vals[s] # Lost
  BY <1>2, ValueCases
<1>. QED  BY <1>4, <1>6, <1>7 DEF Values!Copy, Values!HasElements, Vals
LEMMA MoveRefines ==
  ASSUME IInv, MemOK(dev), MemOK(dev'), NEW o \in Obj, NEW s \in Obj,
         MoveConstruct(o, s) \/ MoveAssign(o, s)
  PROVE  Values!Move(o, s)
<1>1. Alive(s) /\ store' = [[store EXCEPT ![o] = store[s]] EXCEPT ![s] = Empty]
  BY DEF MoveConstruct, MoveAssign
<1>2. ASSUME NEW u \in Obj \ {o}, Alive(u), store[u].data \in Ptr
      PROVE  Final(dev')[store[u].data] = Final(dev)[store[u].data]
  <2>1. CASE dev' = dev
    BY <2>1
  <2>2. CASE dev' # dev
    <3>1. Alive(o) /\ dev' = Deallocated(dev, store[o].data)
      BY <2>2 DEF MoveConstruct, MoveAssign
    <3>2. store[o].data \in Ptr \cup {Null} /\ store[u].data # store[o].data
      BY <1>2, <3>1, AliveIs DEF IInv, SoleOwner, Storages
    <3>. QED  BY <1>2, <3>1, <3>2, DeallocatedElsewhere DEF IInv
  <2>. QED  BY <2>1, <2>2
<1>3. Vals' = [[Vals EXCEPT ![o] = Vals[s]] EXCEPT ![s] = << >>]
  BY <1>1, <1>2, MoveValue
<1>4. Vals[s] # Dead
  BY <1>1, ValueCases
<1>. QED  BY <1>3, <1>4 DEF Values!Move, Vals

LEMMA DestroyRefines ==
  ASSUME IInv, MemOK(dev), NEW o \in Obj, Destroy(o)
  PROVE  Values!Destroy(o)
<1>1. /\ Alive(o) /\ dev' = Deallocated(dev, store[o].data)
      /\ store' = [store EXCEPT ![o] = Dead]
  BY DEF Destroy
<1>2. /\ ~ Alive(o)'
      /\ \A u \in Obj \ {o} : store'[u] = store[u] /\ (Alive(u)' <=> Alive(u))
  BY <1>1 DEF IInv, Alive
<1>3. ASSUME NEW u \in Obj \ {o}, Alive(u)
      PROVE  Shown(dev', store[u]) = Shown(dev, store[u])
  <2>1. store[u] \in Storages /\ store[o].data \in Ptr \cup {Null}
    BY <1>1, <1>3, AliveIs DEF Storages
  <2>2. ASSUME store[u].data \in Ptr
        PROVE  Final(dev')[store[u].data] = Final(dev)[store[u].data]
    <3>1. store[u].data # store[o].data
      BY <1>1, <1>3, <2>2 DEF IInv, SoleOwner
    <3>. QED  BY <1>1, <2>1, <2>2, <3>1, DeallocatedElsewhere DEF IInv
  <2>. QED  BY <2>1, <2>2, ShownSame
<1>4. Vals' = [Vals EXCEPT ![o] = Dead]
  BY <1>2, <1>3, ValuesAre
<1>5. Vals[o] # Dead
  BY <1>1, ValueCases
<1>. QED  BY <1>4, <1>5 DEF Values!Destroy, Vals

LEMMA ResizeRefines ==
  ASSUME IInv, MemOK(dev), IInv', MemOK(dev'), NEW o \in Obj, NEW n \in 0 .. MaxSize,
         Resize(o, n)
  PROVE  Values!Resize(o, n) \/ Values!LoseMemory(o) \/ Values!Recover(o, n)
<1>1. PICK r \in Resized(dev, store[o], n, FALSE) :
        store' = [store EXCEPT ![o] = r[2]] /\ dev' = r[1]
  BY DEF Resize
<1>2. /\ Alive(o) /\ DevOK(dev) /\ QueuedOK(dev) /\ Owned(dev, store[o])
      /\ DevOK(dev') /\ store[o].size \in Nat
  BY AliveIs DEF Resize, IInv, Storages
<1>4. PICK b \in BOOLEAN : r \in Resized(dev, store[o], n, b) /\ ~ b
  BY <1>1, Zenon
<1>3. Effect(dev, store[o], dev', r[2]) /\ r[2] \in Storages /\ r[2].size = n
  <2>1. Effect(dev, store[o], dev', r[2]) /\ r[2].size = n
    BY <1>1, <1>2, <1>4, ResizedOK
  <2>. QED  BY <2>1 DEF Effect, Owned
<1>5. /\ \A p \in Ptr : p # store[o].data /\ p # r[2].data => Final(dev')[p] = Final(dev)[p]
      /\ ~ Usable(store[o]) /\ n > 0 => r[2].data = Null
      /\ Usable(store[o]) /\ r[2].data # Null =>
           \A i \in 1 .. n : i <= store[o].size =>
             Final(dev')[r[2].data][i] = Final(dev)[store[o].data][i]
      /\ Usable(store[o]) /\ r[2].data = Null => store[o].size = 0
  BY <1>1, <1>2, <1>4, ResizedShown
<1>6. Vals' = [Vals EXCEPT ![o] = Shown(dev', r[2])]
  <2>1. PICK t \in Storages : t = r[2]
    BY <1>3
  <2>2. Was(o) = store[o]
    BY <1>2 DEF Was
  <2>3. \A p \in Ptr : p # Was(o).data /\ p # t.data => Final(dev')[p] = Final(dev)[p]
    BY <1>5, <2>1, <2>2
  <2>4. store' = [store EXCEPT ![o] = t] /\ Effect(dev, Was(o), dev', t)
    BY <1>1, <1>3, <2>1, <2>2
  <2>5. Vals' = [Vals EXCEPT ![o] = Shown(dev', t)]
    BY <2>3, <2>4, OwnValue
  <2>. QED  BY <2>1, <2>5
<1>7. /\ Vals[o] = Shown(dev, store[o])
      /\ ~ Usable(store[o]) <=> Vals[o] = Lost
      /\ Usable(store[o]) =>
           /\ Vals[o] \in Values!Elements(store[o].size)
           /\ Vals[o] # Dead /\ Vals[o] # Lost
           /\ Len(Vals[o]) = store[o].size
  BY <1>2, ValueCases
<1>8. Usable(r[2]) => Shown(dev', r[2]) \in Values!Elements(n)
  BY <1>2, <1>3, ShownElements DEF Values!Elements
<1>9. CASE Usable(store[o]) /\ Usable(r[2])
  <2>1. ASSUME NEW i \in 1 .. n, i <= Len(Vals[o])
        PROVE  Shown(dev', r[2])[i] = Vals[o][i]
    <3>1. i \in 1 .. store[o].size /\ r[2].data # Null
      BY <1>2, <1>3, <1>7, <1>9, <2>1 DEF Usable
    <3>2. Shown(dev', r[2])[i] = Final(dev')[r[2].data][i]
      BY <1>3, <1>9 DEF Shown
    <3>3. Shown(dev, store[o])[i] = Final(dev)[store[o].data][i]
      BY <1>9, <3>1 DEF Shown
    <3>. QED  BY <1>5, <1>7, <1>9, <3>1, <3>2, <3>3
  <2>. QED
    BY <1>6, <1>7, <1>8, <1>9, <2>1 DEF Values!Resize, Values!HasElements, Vals
<1>10. CASE Usable(store[o]) /\ ~ Usable(r[2])
  <2>1. r[2].data = Null /\ store[o].size = 0
    BY <1>5, <1>10 DEF Usable
  <2>2. Vals[o] = << >>
    BY <1>7, <1>10, <2>1 DEF Values!Elements
  <2>3. Shown(dev', r[2]) = Lost
    BY <1>10 DEF Shown
  <2>. QED  BY <1>6, <2>2, <2>3 DEF Values!LoseMemory, Vals
<1>11. CASE ~ Usable(store[o]) /\ Usable(r[2])
  BY <1>6, <1>7, <1>8, <1>11 DEF Values!Recover, Vals
<1>12. CASE ~ Usable(store[o]) /\ ~ Usable(r[2])
  <2>1. Shown(dev', r[2]) = Lost
    BY <1>12 DEF Shown
  <2>. QED  BY <1>6, <1>7, <1>12, <2>1 DEF Values!LoseMemory, Vals
<1>. QED  BY <1>9, <1>10, <1>11, <1>12

LEMMA AllocateThrowsRefines ==
  ASSUME IInv, MemOK(dev), NEW o \in Obj, NEW n \in 0 .. MaxSize, AllocateThrows(o, n)
  PROVE  Values!LoseMemory(o)
<1>. DEFINE t == Block(Null, n)
<1>1. /\ Alive(o) /\ store[o].capacity = 0 /\ n > 0 /\ dev' = dev
      /\ store' = [store EXCEPT ![o] = t]
  BY DEF AllocateThrows
<1>2. /\ t \in Storages /\ ~ Usable(t) /\ t.data = Null
      /\ Owned(dev, t)
  BY <1>1 DEF Block, Storages, Usable, Owned
<1>3. store[o] \in Storages /\ store[o].size = 0 /\ store[o].data = Null
  BY <1>1, AliveIs DEF IInv, Owned, Storages
<1>4. Effect(dev, store[o], dev', t)
  BY <1>1, <1>2, <1>3 DEF Effect
<1>5. Shown(dev', t) = Lost
  BY <1>2 DEF Shown
<1>. HIDE DEF t
<1>6. Vals' = [Vals EXCEPT ![o] = Lost]
  <2>1. Was(o) = store[o]
    BY <1>1 DEF Was
  <2>. QED  BY <1>1, <1>2, <1>4, <1>5, <2>1, OwnValue
<1>7. Vals[o] = << >>
  <2>1. Usable(store[o]) /\ Vals[o] \in Values!Elements(0)
    BY <1>1, <1>3, ValueCases DEF Usable
  <2>. QED  BY <2>1 DEF Values!Elements
<1>. QED  BY <1>6, <1>7 DEF Values!LoseMemory, Vals

LEMMA WriteRefines ==
  ASSUME IInv, MemOK(dev), IInv', MemOK(dev'), NEW o \in Obj, Write(o)
  PROVE  Values!Write(o)
<1>1. PICK op \in Operation : op.dst = store[o].data /\ dev' = SubmitTo(dev, op)
  BY WriteOperation
<1>2. /\ Alive(o) /\ Owned(dev, store[o]) /\ Usable(store[o])
      /\ store[o].data \in Ptr /\ store' = store /\ DevOK(dev) /\ DevOK(dev')
      /\ store[o] \in Storages
  BY WriteOperation, AliveIs DEF IInv
<1>3. store' = [store EXCEPT ![o] = store[o]]
  BY <1>2 DEF IInv
<1>4. Effect(dev, store[o], dev', store[o])
  <2>1. dev'.block = dev.block
    BY <1>1, <1>2 DEF SubmitTo, DevOK
  <2>. QED  BY <1>2, <2>1 DEF Effect, Owned
<1>5. ASSUME NEW p \in Ptr, p # store[o].data
      PROVE  Final(dev')[p] = Final(dev)[p]
  <2>1. Final(dev') = Applied(Final(dev), op) /\ Final(dev) \in Memory
    BY <1>1, <1>2, FinalSubmit, FinalOK
  <2>. QED  BY <1>1, <1>5, <2>1, AppliedOK
<1>6. Vals' = [Vals EXCEPT ![o] = Shown(dev', store[o])]
  <2>1. Was(o) = store[o]
    BY <1>2 DEF Was
  <2>. QED  BY <1>2, <1>3, <1>4, <1>5, <2>1, OwnValue
<1>7. /\ Vals[o] # Dead /\ Vals[o] # Lost /\ Len(Vals[o]) = store[o].size
  BY <1>2, ValueCases
<1>8. Shown(dev', store[o]) \in Values!Elements(store[o].size)
  BY <1>2, ShownElements DEF Values!Elements
<1>. QED  BY <1>6, <1>7, <1>8 DEF Values!Write, Values!HasElements, Vals
LEMMA NextRefines ==
  IInv /\ MemOK(dev) /\ [Next]_vars => [Values!Next]_Vals
<1>. SUFFICES ASSUME IInv, MemOK(dev), [Next]_vars, ~ UNCHANGED Vals PROVE Values!Next
  OBVIOUS
<1>0. IInv' /\ MemOK(dev')
  BY NextIInv, NextMem
<1>1. ASSUME NEW o \in Obj, NEW n \in 0 .. MaxSize, Construct(o, n)
      PROVE  Values!Construct(o, n)
  BY <1>0, <1>1, ConstructRefines DEF Values!Construct, Vals
<1>2. ASSUME NEW o \in Obj, NEW n \in 0 .. MaxSize, Resize(o, n)
      PROVE  Values!Resize(o, n) \/ Values!LoseMemory(o) \/ Values!Recover(o, n)
  BY <1>0, <1>2, ResizeRefines
<1>3. ASSUME NEW o \in Obj, NEW n \in 0 .. MaxSize, AllocateThrows(o, n)
      PROVE  Values!LoseMemory(o)
  BY <1>3, AllocateThrowsRefines
<1>4. ASSUME NEW o \in Obj, NEW s \in Obj, CopyConstruct(o, s) \/ CopyAssign(o, s)
      PROVE  Values!Copy(o, s)
  BY <1>4, CopyRefines
<1>5. ASSUME NEW o \in Obj, NEW s \in Obj, MoveConstruct(o, s) \/ MoveAssign(o, s)
      PROVE  Values!Move(o, s)
  BY <1>0, <1>5, MoveRefines
<1>6. ASSUME NEW o \in Obj, Destroy(o)
      PROVE  Values!Destroy(o)
  BY <1>6, DestroyRefines
<1>7. ASSUME NEW o \in Obj, Write(o)
      PROVE  Values!Write(o)
  BY <1>0, <1>7, WriteRefines
<1>8. CASE DeviceStep
  <2>1. store' = store /\ DevOK(dev)
    BY <1>8 DEF DeviceStep, IInv
  <2>2. Final(dev') = Final(dev)
    BY <1>8, <2>1, FinalStep
  <2>3. Vals' = Vals
    BY <2>1, <2>2, ValuesAre DEF Alive, Shown
  <2>. QED  BY <2>3
<1>9. CASE UNCHANGED vars
  BY <1>9, ValuesAre DEF vars, Alive
<1>. QED
  BY <1>1, <1>2, <1>3, <1>4, <1>5, <1>6, <1>7, <1>8, <1>9 DEF Next, Values!Next

(* Storage objects, their blocks, what these hold and the work queued have *)
(* their declared ranges.                                                  *)
THEOREM TypeCorrect == Spec => []TypeOK
<1>1. IInv /\ MemOK(dev) => TypeOK
  <2>. SUFFICES ASSUME IInv, MemOK(dev) PROVE TypeOK
    OBVIOUS
  <2>1. \A i \in 1 .. Len(dev.queue) : dev.queue[i] \in Operation
    BY DEF IInv, DevOK
  <2>2. \A op \in Operation :
          /\ op.dst \in Ptr /\ op.n \in Cells
          /\ op.kind = "copy" => op.src \in Ptr
          /\ op.kind = "kernel" => op.to \in Contents
    BY DEF Operation
  <2>. QED  BY <2>1, <2>2 DEF TypeOK, IInv, DevOK, MemOK, Memory
<1>2. MemOK(dev)' <=> MemOK(dev')
  BY DEF MemOK
<1>. QED  BY <1>1, <1>2, InitIInv, InitMem, NextIInv, NextMem, PTL DEF Spec

(* Storage objects are independent values, for any number of objects and   *)
(* whatever the device has left to do: an object that is copied to, moved, *)
(* resized or written changes as the call says, and no other one does.     *)
THEOREM Refinement == Spec => ImplementsValues
<1>1. Init => Values!Init
  BY DEF Init, Values!Init, ValueOf, Alive
<1>2. MemOK(dev)' <=> MemOK(dev')
  BY DEF MemOK
<1>3. Vals = [o \in Obj |-> ValueOf(o)]
  BY DEF Vals
<1>. QED
  BY <1>1, <1>2, <1>3, InitIInv, InitMem, NextIInv, NextMem, NextRefines, PTL
  DEF Spec, ImplementsValues, Values!Spec, Vals

-----------------------------------------------------------------------------
(* STREAMS AND THE WORK ON THEM                                            *)
(*                                                                         *)
(* Streams: UsableStreamOpen is not inductive: the destructor of an object *)
(* that was moved from must not close the queue it still refers to, which  *)
(* the mark keeps it from (MovedIsMarked), whatever the mark moved_from_   *)
(* of a new object is.                                                     *)
(*                                                                         *)
(* Work: ResultsInOrder speaks of buffers nobody works on.  Its invariant  *)
(* says of the others that only the queue that owns a buffer has work      *)
(* that touches it (OwnedWork), and that a buffer will have its expected   *)
(* contents when that queue has executed all of it (Settled), a fold over  *)
(* the queue.                                                              *)

(* Facts about the fold of Executed over a queue. *)
Executions == INSTANCE InductionFacts WITH Op <- Executed

-----------------------------------------------------------------------------
(* Stream objects. *)

(* Every object that was moved from, and not assigned to since, is marked. *)
MovedIsMarked == \A s \in moved : StreamAlive(s) /\ stream[s].moved_from_ = TRUE

StreamsInv == StreamsTypeOK /\ UsableStreamOpen /\ MovedIsMarked

(* What an object that is alive consists of.                               *)
Record == [queue : Queue, moved_from_ : BOOLEAN]

LEMMA StreamsTypeInit == StreamsInit => StreamsTypeOK
  BY DEF StreamsInit, StreamsTypeOK

LEMMA StreamsTypeStep == ASSUME StreamsTypeOK, [StreamsNext]_streamVars PROVE StreamsTypeOK'
<1>. USE StreamsAssumption DEF StreamsAssumption, StreamsTypeOK
<1>0. ASSUME NEW s \in Stream, StreamAlive(s) PROVE stream[s] \in Record
  BY <1>0 DEF StreamAlive, Record
<1>d. ASSUME NEW q, NEW g, SyncAndDestroy(q, g)
      PROVE  stream_queue_map_' \in [Device -> SUBSET Queue]
  BY <1>d DEF SyncAndDestroy
<1>1. CASE UNCHANGED streamVars
  BY <1>1 DEF streamVars
<1>2. ASSUME NEW s \in Stream, New(s) PROVE StreamsTypeOK'
  <2>1. PICK q \in Fresh, g \in Garbage :
          /\ stream' = [stream EXCEPT ![s] = [queue |-> q, moved_from_ |-> g]]
          /\ stream_queue_map_' = [stream_queue_map_ EXCEPT ![current_device_id_] = @ \cup {q}]
    BY <1>2 DEF New
  <2>2. q \in Queue /\ g \in BOOLEAN
    BY DEF Fresh
  <2>. QED  BY <1>2, <2>1, <2>2 DEF New
<1>3. ASSUME NEW s \in Stream, DestroyStream(s) PROVE StreamsTypeOK'
  BY <1>3, <1>d DEF DestroyStream
<1>4. ASSUME NEW t \in Stream, NEW s \in Stream, MoveConstructStream(t, s) PROVE StreamsTypeOK'
  <2>1. PICK g \in Garbage :
          stream' = [stream EXCEPT ![t] = [queue |-> stream[s].queue, moved_from_ |-> g],
                                   ![s].moved_from_ = TRUE]
    BY <1>4 DEF MoveConstructStream
  <2>2. stream[s] \in Record /\ s # t /\ g \in BOOLEAN
    BY <1>0, <1>4 DEF MoveConstructStream
  <2>3. stream' \in [Stream -> Record \cup {DeadStream}]
    BY <2>1, <2>2 DEF Record
  <2>. QED  BY <1>4, <2>3 DEF MoveConstructStream, Record
<1>5. ASSUME NEW t \in Stream, NEW s \in Stream, MoveAssignStream(t, s) PROVE StreamsTypeOK'
  <2>1. stream' = [stream EXCEPT ![t].queue = stream[s].queue, ![s].moved_from_ = TRUE]
    BY <1>5 DEF MoveAssignStream
  <2>2. stream[s] \in Record /\ stream[t] \in Record
    BY <1>0, <1>5 DEF MoveAssignStream
  <2>3. stream' \in [Stream -> Record \cup {DeadStream}]
    BY <2>1, <2>2 DEF Record
  <2>4. stream_queue_map_' \in [Device -> SUBSET Queue]
    BY <1>5, <1>d DEF MoveAssignStream
  <2>. QED  BY <1>5, <2>3, <2>4 DEF MoveAssignStream, Record
<1>6. ASSUME NEW d \in Id, DeviceSet(d) PROVE StreamsTypeOK'
  BY <1>6 DEF DeviceSet
<1>. QED  BY <1>1, <1>2, <1>3, <1>4, <1>5, <1>6 DEF StreamsNext

(* Destroying the stream of a queue closes that queue only, on the current *)
(* device only.                                                            *)
LEMMA ClosesOne ==
  ASSUME StreamsTypeOK, NEW q, NEW g \in BOOLEAN, SyncAndDestroy(q, g)
  PROVE  /\ \A p \in Open : p # q => p \in Open'
         /\ g => Open' = Open
  BY DEF SyncAndDestroy, Open, StreamsTypeOK

(* What a step keeps of the objects it does not change: a usable one is as *)
(* before, and its queue is still open and nobody else's.                  *)
LEMMA StreamsInvStep == ASSUME StreamsInv, [StreamsNext]_streamVars PROVE StreamsInv'
<1>. USE DEF StreamsInv
<1>0. StreamsTypeOK'
  BY StreamsTypeStep
<1>a. ASSUME NEW s \in Stream, StreamAlive(s)
      PROVE  stream[s] \in Record /\ stream[s] # DeadStream
  BY <1>a DEF StreamAlive, Record, StreamsTypeOK
<1>1. CASE UNCHANGED streamVars
  <2>1. Open' = Open
    BY <1>1 DEF streamVars, Open
  <2>. QED  BY <1>0, <1>1, <2>1 DEF streamVars, UsableStreamOpen, MovedIsMarked, StreamAlive
<1>2. ASSUME NEW s \in Stream, New(s) PROVE StreamsInv'
  <2>1. PICK q \in Fresh, g \in Garbage :
          /\ stream' = [stream EXCEPT ![s] = [queue |-> q, moved_from_ |-> g]]
          /\ stream_queue_map_' = [stream_queue_map_ EXCEPT ![current_device_id_] = @ \cup {q}]
    BY <1>2 DEF New
  <2>2. /\ ~ StreamAlive(s) /\ moved' = moved
        /\ q \notin Open /\ \A u \in Stream : StreamAlive(u) => stream[u].queue # q
    BY <1>2 DEF New, Fresh
  <2>3. stream'[s] = [queue |-> q, moved_from_ |-> g] /\ \A u \in Stream \ {s} : stream'[u] = stream[u]
    BY <2>1 DEF StreamsTypeOK
  <2>4. Open \subseteq Open' /\ q \in Open'
    BY <2>1 DEF Open, StreamsTypeOK
  <2>5. UsableStreamOpen'
    BY <2>2, <2>3, <2>4 DEF UsableStreamOpen, StreamAlive
  <2>6. MovedIsMarked'
    <3>1. moved \subseteq Stream \ {s}
      BY <2>2 DEF MovedIsMarked, StreamsTypeOK
    <3>. QED  BY <3>1, <2>2, <2>3 DEF MovedIsMarked, StreamAlive
  <2>. QED  BY <1>0, <2>5, <2>6
<1>3. ASSUME NEW s \in Stream, DestroyStream(s) PROVE StreamsInv'
  <2>1. /\ StreamAlive(s) /\ moved' = moved \ {s}
        /\ SyncAndDestroy(stream[s].queue, stream[s].moved_from_)
        /\ stream'[s] = DeadStream /\ \A u \in Stream \ {s} : stream'[u] = stream[u]
    BY <1>3 DEF DestroyStream, StreamsTypeOK
  <2>2. stream[s].moved_from_ \in BOOLEAN
    BY <1>a, <2>1 DEF Record
  <2>3. ASSUME NEW u \in Stream \ {s}, StreamAlive(u), u \notin moved
        PROVE  stream[u].queue \in Open'
    <3>1. stream[u].queue \in Open
      BY <2>3 DEF UsableStreamOpen
    <3>2. CASE s \in moved
      BY <2>1, <2>2, <3>1, <3>2, ClosesOne DEF MovedIsMarked
    <3>3. CASE s \notin moved
      <4>1. stream[u].queue # stream[s].queue
        BY <2>1, <2>3, <3>3 DEF UsableStreamOpen
      <4>. QED  BY <2>1, <2>2, <3>1, <4>1, ClosesOne
    <3>. QED  BY <3>2, <3>3
  <2>4. UsableStreamOpen'
    <3>1. ASSUME NEW u \in Stream, StreamAlive(u)', u \notin moved'
          PROVE  u # s /\ StreamAlive(u) /\ u \notin moved /\ stream'[u] = stream[u]
      BY <2>1, <3>1 DEF StreamAlive
    <3>. QED  BY <2>3, <3>1 DEF UsableStreamOpen
  <2>5. MovedIsMarked'
    BY <2>1 DEF MovedIsMarked, StreamAlive, StreamsTypeOK
  <2>. QED  BY <1>0, <2>4, <2>5
<1>4. ASSUME NEW t \in Stream, NEW s \in Stream, MoveConstructStream(t, s) PROVE StreamsInv'
  <2>1. PICK g \in Garbage :
          stream' = [stream EXCEPT ![t] = [queue |-> stream[s].queue, moved_from_ |-> g],
                                   ![s].moved_from_ = TRUE]
    BY <1>4 DEF MoveConstructStream
  <2>2. /\ ~ StreamAlive(t) /\ StreamAlive(s) /\ s # t /\ s \notin moved /\ t \notin moved
        /\ moved' = moved \cup {s} /\ stream_queue_map_' = stream_queue_map_
    BY <1>4 DEF MoveConstructStream, MovedIsMarked
  <2>3. Open' = Open
    BY <2>2 DEF Open
  <2>4. /\ stream'[t] = [queue |-> stream[s].queue, moved_from_ |-> g]
        /\ \A u \in Stream \ {s, t} : stream'[u] = stream[u]
    BY <2>1, <2>2 DEF StreamsTypeOK
  <2>5. stream'[s] \in Record /\ stream'[s].moved_from_ = TRUE
    <3>1. stream'[s] = [stream[s] EXCEPT !.moved_from_ = TRUE]
      BY <2>1, <2>2 DEF StreamsTypeOK
    <3>. QED  BY <1>a, <2>2, <3>1 DEF Record
  <2>6. stream'[s] # DeadStream
    BY <2>5, StreamsAssumption DEF StreamsAssumption, Record
  <2>7. UsableStreamOpen'
    <3>1. ASSUME NEW u \in Stream, StreamAlive(u)', u \notin moved'
          PROVE  \/ u = t
                 \/ u # s /\ u # t /\ StreamAlive(u) /\ u \notin moved /\ stream'[u] = stream[u]
      BY <2>2, <2>4, <3>1 DEF StreamAlive
    <3>2. stream'[t].queue = stream[s].queue
      BY <2>4
    <3>. QED  BY <2>2, <2>3, <3>1, <3>2 DEF UsableStreamOpen
  <2>8. MovedIsMarked'
    BY <2>2, <2>4, <2>5, <2>6 DEF MovedIsMarked, StreamAlive, StreamsTypeOK
  <2>. QED  BY <1>0, <2>7, <2>8
<1>5. ASSUME NEW t \in Stream, NEW s \in Stream, MoveAssignStream(t, s) PROVE StreamsInv'
  <2>1. /\ StreamAlive(t) /\ StreamAlive(s) /\ s \notin moved
        /\ stream' = [stream EXCEPT ![t].queue = stream[s].queue, ![s].moved_from_ = TRUE]
        /\ SyncAndDestroy(stream[t].queue, stream'[t].moved_from_)
        /\ moved' = (moved \ {t}) \cup {s}
    BY <1>5 DEF MoveAssignStream
  <2>2. /\ \A u \in Stream \ {s, t} : stream'[u] = stream[u]
        /\ stream'[s].moved_from_ = TRUE /\ stream'[t].queue = stream[s].queue
        /\ s # t => stream'[t].moved_from_ = stream[t].moved_from_
    BY <1>a, <2>1 DEF StreamsTypeOK, Record
  <2>3. stream'[s] \in Record /\ stream'[t] \in Record
    BY <1>a, <2>1 DEF StreamsTypeOK, Record
  <2>4. stream'[s] # DeadStream /\ stream'[t] # DeadStream
    BY <2>3, StreamsAssumption DEF StreamsAssumption, Record
  <2>5. stream'[t].moved_from_ \in BOOLEAN
    BY <2>3 DEF Record
  <2>6. ASSUME NEW q \in Open, t \notin moved => q # stream[t].queue
        PROVE  q \in Open'
    <3>1. CASE stream'[t].moved_from_ = TRUE
      BY <2>1, <2>5, <3>1, ClosesOne
    <3>2. CASE stream'[t].moved_from_ # TRUE
      <4>1. s # t /\ stream[t].moved_from_ # TRUE
        BY <2>2, <3>2
      <4>2. t \notin moved
        BY <4>1 DEF MovedIsMarked
      <4>. QED  BY <2>1, <2>5, <2>6, <4>2, ClosesOne
    <3>. QED  BY <3>1, <3>2
  <2>7. UsableStreamOpen'
    <3>1. ASSUME NEW u \in Stream, StreamAlive(u)', u \notin moved'
          PROVE  \/ u = t /\ t # s
                 \/ u # s /\ u # t /\ StreamAlive(u) /\ u \notin moved /\ stream'[u] = stream[u]
      BY <2>1, <2>2, <3>1 DEF StreamAlive
    <3>2. t # s => stream'[t].queue \in Open'
      <4>1. SUFFICES ASSUME t # s PROVE stream[s].queue \in Open'
        BY <2>2
      <4>2. stream[s].queue \in Open /\ (t \notin moved => stream[s].queue # stream[t].queue)
        BY <2>1, <4>1 DEF UsableStreamOpen
      <4>. QED  BY <2>6, <4>2
    <3>3. ASSUME NEW u \in Stream \ {s, t}, StreamAlive(u), u \notin moved
          PROVE  stream[u].queue \in Open' /\ stream[u].queue # stream[s].queue
      <4>1. /\ stream[u].queue \in Open /\ stream[u].queue # stream[s].queue
            /\ t \notin moved => stream[u].queue # stream[t].queue
        BY <2>1, <3>3 DEF UsableStreamOpen
      <4>. QED  BY <2>6, <4>1
    <3>4. ASSUME NEW u \in Stream, StreamAlive(u)', u \notin moved'
          PROVE  stream'[u].queue \in Open'
      BY <3>1, <3>2, <3>3, <3>4
    <3>5. ASSUME NEW u \in Stream, NEW v \in Stream, StreamAlive(u)', StreamAlive(v)',
                 u \notin moved', v \notin moved', u # v
          PROVE  stream'[u].queue # stream'[v].queue
      <4>1. CASE u = t
        BY <2>2, <3>1, <3>3, <3>5, <4>1
      <4>2. CASE v = t
        BY <2>2, <3>1, <3>3, <3>5, <4>2
      <4>3. CASE u # t /\ v # t
        <5>1. /\ StreamAlive(u) /\ u \notin moved /\ stream'[u] = stream[u]
              /\ StreamAlive(v) /\ v \notin moved /\ stream'[v] = stream[v]
          BY <3>1, <3>5, <4>3
        <5>. QED  BY <3>5, <5>1 DEF UsableStreamOpen
      <4>. QED  BY <4>1, <4>2, <4>3
    <3>. QED  BY <3>4, <3>5 DEF UsableStreamOpen
  <2>8. MovedIsMarked'
    BY <2>1, <2>2, <2>4 DEF MovedIsMarked, StreamAlive, StreamsTypeOK
  <2>. QED  BY <1>0, <2>7, <2>8
<1>6. ASSUME NEW d \in Id, DeviceSet(d) PROVE StreamsInv'
  <2>1. Open' = Open
    BY <1>6 DEF DeviceSet, Open
  <2>. QED  BY <1>0, <1>6, <2>1 DEF DeviceSet, UsableStreamOpen, MovedIsMarked, StreamAlive
<1>. QED  BY <1>1, <1>2, <1>3, <1>4, <1>5, <1>6 DEF StreamsNext

LEMMA StreamsInvInit == StreamsInit => StreamsInv
  BY StreamsTypeInit DEF StreamsInit, StreamsInv, UsableStreamOpen, MovedIsMarked, StreamAlive

(* Objects, queue lists and the current device keep their ranges.          *)
THEOREM StreamsTypeCorrect == StreamsSpec => []StreamsTypeOK
  BY StreamsTypeInit, StreamsTypeStep, PTL DEF StreamsSpec

(* No sequence of constructions, moves, destructions and device changes    *)
(* closes a stream under its owner or gives it two, whatever the mark that *)
(* no constructor sets happens to be.                                      *)
THEOREM StreamsStayOpen == StreamsSpec => []UsableStreamOpen
<1>1. StreamsSpec => []StreamsInv
  BY StreamsInvInit, StreamsInvStep, PTL DEF StreamsSpec
<1>2. StreamsInv => UsableStreamOpen
  BY DEF StreamsInv
<1>. QED  BY <1>1, <1>2, PTL

-----------------------------------------------------------------------------
(* Operations and what they do to the buffers. *)

(* The contents of buffers in this model, and the operations of its calls. *)
BufferContents == {<<"zero">>, <<"new">>}
BufferMemory == [Buffer -> BufferContents]

CopyBufferOp(to, from) == {Store(to, "copy", <<from>>)}
ZeroOp(b) == {Store(b, "zero", << >>)}

Ops == {CopyBufferOp(p[1], p[2]) : p \in Buffer \X Buffer} \cup {ZeroOp(b) : b \in Buffer}

LEMMA AreOps ==
  ASSUME NEW a \in Buffer, NEW b \in Buffer
  PROVE  CopyBufferOp(a, b) \in Ops /\ ZeroOp(a) \in Ops
<1>1. PICK p \in Buffer \X Buffer : p[1] = a /\ p[2] = b
  <2>1. <<a, b>> \in Buffer \X Buffer /\ <<a, b>>[1] = a /\ <<a, b>>[2] = b
    OBVIOUS
  <2>. QED  BY <2>1
<1>2. CopyBufferOp(a, b) = CopyBufferOp(p[1], p[2])
  BY <1>1
<1>. QED  BY <1>2 DEF Ops

(* A copy reads one buffer and writes another.                             *)
LEMMA CopyExecuted ==
  ASSUME NEW m \in BufferMemory, NEW to \in Buffer, NEW from \in Buffer
  PROVE  /\ Touches(CopyBufferOp(to, from)) = {to, from}
         /\ Executed(m, CopyBufferOp(to, from)) = [m EXCEPT ![to] = m[from]]
<1>. DEFINE s == Store(to, "copy", <<from>>)
            op == CopyBufferOp(to, from)
<1>1. op = {s} /\ s.to = to /\ s.name = "copy" /\ s.from = <<from>>
  BY DEF CopyBufferOp, Store
<1>2. Writes(op) = {to}
  BY <1>1 DEF Writes
<1>3. Reads(op) = {from}
  <2>1. ToSet(<<from>>) = {from}
    BY DEF ToSet
  <2>. QED  BY <1>1, <2>1 DEF Reads
<1>4. (CHOOSE r \in op : r.to = to) = s
  BY <1>1
<1>5. Result(m, s) = m[from]
  BY <1>1 DEF Result
<1>6. Executed(m, op) = [b \in Buffer |-> IF b = to THEN m[from] ELSE m[b]]
  <2>1. DOMAIN m = Buffer
    BY DEF BufferMemory
  <2>. QED  BY <1>2, <1>4, <1>5, <2>1 DEF Executed
<1>. QED  BY <1>2, <1>3, <1>6 DEF Touches, BufferMemory

(* A fill with zero writes one buffer.                                     *)
LEMMA ZeroExecuted ==
  ASSUME NEW m \in BufferMemory, NEW to \in Buffer
  PROVE  /\ Touches(ZeroOp(to)) = {to}
         /\ Executed(m, ZeroOp(to)) = [m EXCEPT ![to] = <<"zero">>]
<1>. DEFINE s == Store(to, "zero", << >>)
            op == ZeroOp(to)
<1>1. op = {s} /\ s.to = to /\ s.name = "zero" /\ s.from = << >>
  BY DEF ZeroOp, Store
<1>2. Writes(op) = {to}
  BY <1>1 DEF Writes
<1>3. Reads(op) = {}
  <2>1. ToSet(<< >>) = {}
    BY DEF ToSet
  <2>. QED  BY <1>1, <2>1 DEF Reads
<1>4. (CHOOSE r \in op : r.to = to) = s
  BY <1>1
<1>5. Result(m, s) = <<"zero">>
  <2>1. [i \in DOMAIN << >> |-> m[<< >>[i]]] = << >>
    OBVIOUS
  <2>2. <<"zero">> \o << >> = <<"zero">>
    OBVIOUS
  <2>. QED  BY <1>1, <2>1, <2>2 DEF Result
<1>6. Executed(m, op) = [b \in Buffer |-> IF b = to THEN <<"zero">> ELSE m[b]]
  <2>1. DOMAIN m = Buffer
    BY DEF BufferMemory
  <2>. QED  BY <1>2, <1>4, <1>5, <2>1 DEF Executed
<1>. QED  BY <1>2, <1>3, <1>6 DEF Touches, BufferMemory

(* What an operation does to a buffer depends on the buffers it touches.   *)
LEMMA ExecutedLocal ==
  ASSUME NEW op \in Ops, NEW m \in BufferMemory
  PROVE  /\ Executed(m, op) \in BufferMemory
         /\ Touches(op) \subseteq Buffer
         /\ \A b \in Buffer \ Touches(op) : Executed(m, op)[b] = m[b]
         /\ \A n \in BufferMemory : (\A b \in Touches(op) : n[b] = m[b]) =>
              \A b \in Touches(op) : Executed(n, op)[b] = Executed(m, op)[b]
<1>1. ASSUME NEW to \in Buffer, NEW from \in Buffer, op = CopyBufferOp(to, from)
      PROVE  /\ Executed(m, op) \in BufferMemory
             /\ Touches(op) \subseteq Buffer
             /\ \A b \in Buffer \ Touches(op) : Executed(m, op)[b] = m[b]
             /\ \A n \in BufferMemory : (\A b \in Touches(op) : n[b] = m[b]) =>
                  \A b \in Touches(op) : Executed(n, op)[b] = Executed(m, op)[b]
  <2>1. \A n \in BufferMemory : Executed(n, op) = [n EXCEPT ![to] = n[from]]
    BY <1>1, CopyExecuted
  <2>2. Touches(op) = {to, from}
    BY <1>1, CopyExecuted
  <2>. QED  BY <2>1, <2>2 DEF BufferMemory
<1>2. ASSUME NEW to \in Buffer, op = ZeroOp(to)
      PROVE  /\ Executed(m, op) \in BufferMemory
             /\ Touches(op) \subseteq Buffer
             /\ \A b \in Buffer \ Touches(op) : Executed(m, op)[b] = m[b]
             /\ \A n \in BufferMemory : (\A b \in Touches(op) : n[b] = m[b]) =>
                  \A b \in Touches(op) : Executed(n, op)[b] = Executed(m, op)[b]
  <2>1. \A n \in BufferMemory : Executed(n, op) = [n EXCEPT ![to] = <<"zero">>]
    BY <1>2, ZeroExecuted
  <2>2. Touches(op) = {to}
    BY <1>2, ZeroExecuted
  <2>. QED  BY <2>1, <2>2 DEF BufferMemory, BufferContents
<1>. QED  BY <1>1, <1>2 DEF Ops

-----------------------------------------------------------------------------
(* What a queue that executes everything leaves behind. *)

(* The buffers when the operations of s are done, in their order.          *)
Drained(m, s) == FoldLeft(Executed, m, s)

(* The fold of the instance of InductionFacts is that of this module.      *)
LEMMA SameExecution ==
  ASSUME NEW m, NEW s
  PROVE  Drained(m, s) = Executions!FoldLeft(Executed, m, s)
  BY Zenon DEF Drained, FoldLeft, MapThenFoldSet, Max,
               Executions!FoldLeft, Executions!MapThenFoldSet, Executions!Max

LEMMA DrainedEmpty ==
  ASSUME NEW m
  PROVE  Drained(m, << >>) = m
  BY SameExecution, Executions!FoldEmpty, Zenon

LEMMA DrainedAppend ==
  ASSUME NEW m, NEW s \in Seq(Ops), NEW op \in Ops
  PROVE  Drained(m, Append(s, op)) = Executed(Drained(m, s), op)
  BY SameExecution, Executions!FoldAppend, Zenon

LEMMA DrainedHead ==
  ASSUME NEW m, NEW s \in Seq(Ops), s # << >>
  PROVE  Drained(m, s) = Drained(Executed(m, Head(s)), Tail(s))
  BY SameExecution, Executions!FoldHead, Zenon

(* Draining a queue changes only what its operations touch, and makes of   *)
(* that what it would with any other contents of the other buffers.        *)
LEMMA DrainedLocal ==
  ASSUME NEW m \in BufferMemory, NEW s \in Seq(Ops), NEW B \in SUBSET Buffer,
         \A i \in 1 .. Len(s) : Touches(s[i]) \subseteq B
  PROVE  /\ Drained(m, s) \in BufferMemory
         /\ \A b \in Buffer \ B : Drained(m, s)[b] = m[b]
         /\ \A n \in BufferMemory : (\A b \in B : n[b] = m[b]) =>
              \A b \in B : Drained(n, s)[b] = Drained(m, s)[b]
<1>0. \A i \in 1 .. Len(s) : s[i] \in Ops
  OBVIOUS
<1>1. Drained(m, s) \in {n \in BufferMemory : \A b \in Buffer \ B : n[b] = m[b]}
  <2>. DEFINE V == {n \in BufferMemory : \A b \in Buffer \ B : n[b] = m[b]}
  <2>1. m \in V
    OBVIOUS
  <2>2. ASSUME NEW v \in V, NEW i \in 1 .. Len(s) PROVE Executed(v, s[i]) \in V
    <3>1. v \in BufferMemory /\ s[i] \in Ops
      BY <1>0
    <3>2. Executed(v, s[i]) \in BufferMemory
      BY <3>1, ExecutedLocal
    <3>3. \A b \in Buffer \ B : Executed(v, s[i])[b] = v[b]
      BY <3>1, ExecutedLocal
    <3>. QED  BY <3>2, <3>3
  <2>. HIDE DEF V
  <2>3. Executions!FoldLeft(Executed, m, s) \in V
    BY <2>1, <2>2, Executions!FoldInvariant
  <2>. QED  BY <2>3, SameExecution DEF V
<1>2. ASSUME NEW n \in BufferMemory, \A b \in B : n[b] = m[b]
      PROVE  \A b \in B : Drained(n, s)[b] = Drained(m, s)[b]
  <2>. DEFINE R == {p \in BufferMemory \X BufferMemory : \A b \in B : p[1][b] = p[2][b]}
  <2>1. <<n, m>> \in R
    BY <1>2
  <2>2. ASSUME NEW v, NEW w, NEW i \in 1 .. Len(s), <<v, w>> \in R
        PROVE  <<Executed(v, s[i]), Executed(w, s[i])>> \in R
    <3>1. v \in BufferMemory /\ w \in BufferMemory /\ s[i] \in Ops /\ \A b \in B : v[b] = w[b]
      BY <1>0, <2>2
    <3>2. Executed(v, s[i]) \in BufferMemory /\ Executed(w, s[i]) \in BufferMemory
      BY <3>1, ExecutedLocal
    <3>3. ASSUME NEW b \in B PROVE Executed(v, s[i])[b] = Executed(w, s[i])[b]
      <4>1. CASE b \in Touches(s[i])
        <5>1. \A c \in Touches(s[i]) : v[c] = w[c]
          BY <3>1
        <5>. QED  BY <3>1, <4>1, <5>1, ExecutedLocal
      <4>2. CASE b \notin Touches(s[i])
        BY <3>1, <4>2, ExecutedLocal
      <4>. QED  BY <4>1, <4>2
    <3>. QED  BY <3>2, <3>3
  <2>. HIDE DEF R
  <2>3. <<Executions!FoldLeft(Executed, n, s), Executions!FoldLeft(Executed, m, s)>> \in R
    BY <2>1, <2>2, Executions!FoldRelated
  <2>. QED  BY <2>3, SameExecution DEF R
<1>. QED  BY <1>1, <1>2

-----------------------------------------------------------------------------
(* The invariant of the work.  It is about values of the variables, so     *)
(* that what an action does can be put together from what waiting,         *)
(* submitting and executing do.                                            *)

Devices == [mem : BufferMemory, queue : [Queues -> Seq(Ops)]]
Owners == [Buffer -> Queues \cup {Nobody}]

(* Only the queue that owns a buffer has work that touches it.             *)
OwnedWork(d, o) ==
  \A q \in Queues : \A i \in 1 .. Len(d.queue[q]) :
    \A b \in Touches(d.queue[q][i]) : o[b] = q

(* A buffer has its expected contents, or will have them when its owner    *)
(* has nothing left to do.                                                 *)
Settled(d, o, x) ==
  \A b \in Buffer :
    /\ o[b] = Nobody => d.mem[b] = x[b]
    /\ \A q \in Queues : o[b] = q => Drained(d.mem, d.queue[q])[b] = x[b]

WorkOK(d, o, x) ==
  /\ d \in Devices /\ o \in Owners /\ x \in BufferMemory
  /\ OwnedWork(d, o) /\ Settled(d, o, x)

(* The buffers that queue q owns.                                          *)
Of(o, q) == {b \in Buffer : o[b] = q}

(* No queue is Nobody.                                                     *)
LEMMA NobodyIsNoQueue == Nobody \notin Queues
<1>1. \A d : DefaultQueue(d) # Nobody
  BY DEF DefaultQueue, Nobody
<1>. QED  BY <1>1, NobodyAssumption DEF NobodyAssumption, Queues

(* What the invariant says of draining a queue: it settles the buffers the *)
(* queue owns and leaves the others alone, and it would do the same to     *)
(* them if the others were different.                                      *)
LEMMA OwnersDrain ==
  ASSUME NEW d, NEW o, NEW x, WorkOK(d, o, x), NEW q \in Queues
  PROVE  /\ d.mem \in BufferMemory /\ d.queue[q] \in Seq(Ops)
         /\ \A i \in 1 .. Len(d.queue[q]) : Touches(d.queue[q][i]) \subseteq Of(o, q)
         /\ Drained(d.mem, d.queue[q]) \in BufferMemory
         /\ \A b \in Buffer : o[b] # q => Drained(d.mem, d.queue[q])[b] = d.mem[b]
         /\ \A b \in Buffer : o[b] \in {q, Nobody} =>
              Drained(d.mem, d.queue[q])[b] = x[b]
         /\ \A n \in BufferMemory : (\A b \in Of(o, q) : n[b] = d.mem[b]) =>
              \A b \in Of(o, q) : Drained(n, d.queue[q])[b] = Drained(d.mem, d.queue[q])[b]
<1>1. d.mem \in BufferMemory /\ d.queue[q] \in Seq(Ops)
  BY DEF WorkOK, Devices
<1>2. ASSUME NEW i \in 1 .. Len(d.queue[q])
      PROVE  Touches(d.queue[q][i]) \subseteq Of(o, q)
  <2>1. d.queue[q][i] \in Ops
    BY <1>1
  <2>2. Touches(d.queue[q][i]) \subseteq Buffer
    BY <1>1, <2>1, ExecutedLocal
  <2>. QED  BY <2>2 DEF WorkOK, OwnedWork, Of
<1>3. Of(o, q) \in SUBSET Buffer
  BY DEF Of
<1>4. /\ Drained(d.mem, d.queue[q]) \in BufferMemory
      /\ \A b \in Buffer \ Of(o, q) : Drained(d.mem, d.queue[q])[b] = d.mem[b]
      /\ \A n \in BufferMemory : (\A b \in Of(o, q) : n[b] = d.mem[b]) =>
           \A b \in Of(o, q) : Drained(n, d.queue[q])[b] = Drained(d.mem, d.queue[q])[b]
  BY <1>1, <1>2, <1>3, DrainedLocal
<1>5. \A b \in Buffer : o[b] # q => Drained(d.mem, d.queue[q])[b] = d.mem[b]
  BY <1>4 DEF Of
<1>6. \A b \in Buffer : o[b] \in {q, Nobody} => Drained(d.mem, d.queue[q])[b] = x[b]
  BY <1>5, NobodyIsNoQueue DEF WorkOK, Settled
<1>. QED  BY <1>1, <1>2, <1>4, <1>5, <1>6

(* A record of buffers and queues, updated.                                *)
LEMMA QueueUpdate ==
  ASSUME NEW M, NEW T, NEW d \in [mem : M, queue : T], NEW q, NEW w
  PROVE  [d EXCEPT !.queue[q] = w] = [mem |-> d.mem, queue |-> [d.queue EXCEPT ![q] = w]]
  OBVIOUS

LEMMA DeviceUpdate ==
  ASSUME NEW M, NEW T, NEW d \in [mem : M, queue : T], NEW q, NEW m, NEW w
  PROVE  [d EXCEPT !.mem = m, !.queue[q] = w]
           = [mem |-> m, queue |-> [d.queue EXCEPT ![q] = w]]
<1>. DEFINE e == [d EXCEPT !.mem = m, !.queue[q] = w]
<1>1. e.mem = m /\ e.queue = [d.queue EXCEPT ![q] = w]
  OBVIOUS
<1>2. DOMAIN e = {"mem", "queue"} /\ e = [i \in {"mem", "queue"} |-> e[i]]
  OBVIOUS
<1>. HIDE DEF e
<1>3. e = [mem |-> e.mem, queue |-> e.queue]
  BY <1>2
<1>. QED  BY <1>1, <1>3 DEF e

LEMMA Submitted ==
  ASSUME NEW d \in Devices, NEW q \in Queues, NEW op
  PROVE  Submit(d, q, op)
           = [mem |-> d.mem, queue |-> [d.queue EXCEPT ![q] = Append(d.queue[q], op)]]
<1>. DEFINE w == Append(d.queue[q], op)
<1>1. Submit(d, q, op) = [d EXCEPT !.queue[q] = w]
  BY DEF Submit
<1>. HIDE DEF w
<1>. QED  BY <1>1, QueueUpdate, Zenon DEF w, Devices

LEMMA HasWaited ==
  ASSUME NEW d \in Devices, NEW q \in Queues
  PROVE  Waited(d, q)
           = [mem |-> Drained(d.mem, d.queue[q]), queue |-> [d.queue EXCEPT ![q] = << >>]]
<1>. DEFINE m == Drained(d.mem, d.queue[q])
<1>1. Waited(d, q) = [d EXCEPT !.mem = m, !.queue[q] = << >>]
  BY DEF Waited, Drained
<1>. HIDE DEF m
<1>. QED  BY <1>1, DeviceUpdate, Zenon DEF m, Devices

LEMMA Stepped ==
  ASSUME NEW d \in Devices, NEW q \in Queues
  PROVE  Step(d, q) = [mem |-> Executed(d.mem, Head(d.queue[q])),
                       queue |-> [d.queue EXCEPT ![q] = Tail(d.queue[q])]]
<1>. DEFINE m == Executed(d.mem, Head(d.queue[q]))
            w == Tail(d.queue[q])
<1>1. Step(d, q) = [d EXCEPT !.mem = m, !.queue[q] = w]
  BY DEF Step
<1>. HIDE DEF m, w
<1>. QED  BY <1>1, DeviceUpdate, Zenon DEF m, w, Devices

(* Putting an operation on a queue that owns, or may own, what it touches. *)
LEMMA SubmitKeeps ==
  ASSUME NEW d, NEW o, NEW x, WorkOK(d, o, x), NEW q \in Queues, NEW op \in Ops,
         \A b \in Touches(op) : o[b] \in {Nobody, q}
  PROVE  WorkOK(Submit(d, q, op),
                [b \in Buffer |-> IF b \notin Touches(op) THEN o[b] ELSE q],
                Executed(x, op))
<1>. DEFINE e == Submit(d, q, op)
            p == [b \in Buffer |-> IF b \notin Touches(op) THEN o[b] ELSE q]
            y == Executed(x, op)
<1>1. /\ d \in Devices /\ o \in Owners /\ x \in BufferMemory
      /\ d.mem \in BufferMemory /\ d.queue \in [Queues -> Seq(Ops)]
  BY DEF WorkOK, Devices
<1>2. e = [mem |-> d.mem, queue |-> [d.queue EXCEPT ![q] = Append(@, op)]]
  BY <1>1, Submitted
<1>3. /\ e.mem = d.mem /\ e.queue[q] = Append(d.queue[q], op)
      /\ \A r \in Queues \ {q} : e.queue[r] = d.queue[r]
      /\ e.queue \in [Queues -> Seq(Ops)] /\ e \in Devices
  BY <1>1, <1>2 DEF Devices
<1>4. Touches(op) \subseteq Buffer /\ y \in BufferMemory
  BY <1>1, ExecutedLocal
<1>5. p \in Owners
  BY <1>1 DEF Owners
<1>6. /\ \A b \in Touches(op) : p[b] = q
      /\ \A b \in Buffer \ Touches(op) : p[b] = o[b]
  BY <1>4
<1>. HIDE DEF e, p, y
<1>7. OwnedWork(e, p)
  <2>1. SUFFICES ASSUME NEW r \in Queues, NEW i \in 1 .. Len(e.queue[r]),
                        NEW b \in Touches(e.queue[r][i])
                 PROVE  p[b] = r
    BY DEF OwnedWork
  <2>2. ASSUME NEW j \in 1 .. Len(d.queue[r]), e.queue[r][i] = d.queue[r][j]
        PROVE  p[b] = r
    <3>1. o[b] = r /\ b \in Buffer
      BY <2>2, OwnersDrain DEF Of
    <3>2. b \in Touches(op) => r = q
      BY <3>1, NobodyIsNoQueue
    <3>. QED  BY <1>6, <3>1, <3>2
  <2>3. CASE r # q
    BY <1>3, <2>2, <2>3
  <2>4. CASE r = q
    <3>1. d.queue[q] \in Seq(Ops)
      BY <1>1
    <3>2. CASE i \in 1 .. Len(d.queue[q])
      BY <1>3, <2>2, <2>4, <3>1, <3>2
    <3>3. CASE i = Len(d.queue[q]) + 1
      BY <1>3, <1>6, <2>1, <2>4, <3>1, <3>3
    <3>. QED  BY <1>3, <2>4, <3>1, <3>2, <3>3
  <2>. QED  BY <2>3, <2>4
<1>8. Settled(e, p, y)
  <2>. DEFINE f == Drained(d.mem, d.queue[q])
  <2>1. f \in BufferMemory /\ \A b \in Buffer : o[b] \in {q, Nobody} => f[b] = x[b]
    BY OwnersDrain
  <2>2. Drained(e.mem, e.queue[q]) = Executed(f, op)
    BY <1>1, <1>3, DrainedAppend
  <2>. HIDE DEF f
  <2>3. \A b \in Touches(op) : Executed(f, op)[b] = y[b]
    BY <1>1, <1>4, <2>1, ExecutedLocal DEF y
  <2>4. \A b \in Buffer \ Touches(op) : y[b] = x[b] /\ Executed(f, op)[b] = f[b]
    BY <1>1, <2>1, ExecutedLocal DEF y
  <2>5. SUFFICES ASSUME NEW b \in Buffer
                 PROVE  /\ p[b] = Nobody => e.mem[b] = y[b]
                        /\ \A r \in Queues : p[b] = r =>
                             Drained(e.mem, e.queue[r])[b] = y[b]
    BY DEF Settled
  <2>6. CASE b \in Touches(op)
    BY <1>6, <2>2, <2>3, <2>6, NobodyIsNoQueue
  <2>7. CASE b \notin Touches(op)
    <3>1. p[b] = o[b] /\ y[b] = x[b]
      BY <1>6, <2>4, <2>7
    <3>2. o[b] = Nobody => e.mem[b] = y[b]
      BY <1>3, <3>1 DEF WorkOK, Settled
    <3>3. o[b] = q => Drained(e.mem, e.queue[q])[b] = y[b]
      BY <2>1, <2>2, <2>4, <2>7, <3>1
    <3>4. \A r \in Queues \ {q} : o[b] = r => Drained(e.mem, e.queue[r])[b] = y[b]
      BY <1>3, <3>1 DEF WorkOK, Settled
    <3>. QED  BY <3>1, <3>2, <3>3, <3>4
  <2>. QED  BY <2>6, <2>7
<1>. QED  BY <1>3, <1>4, <1>5, <1>7, <1>8 DEF WorkOK, e, p, y

(* Waiting for a queue: some of the buffers it owned need no owner.        *)
LEMMA WaitKeeps ==
  ASSUME NEW d, NEW o, NEW x, WorkOK(d, o, x), NEW q \in Queues, NEW p \in Owners,
         \A b \in Buffer : p[b] = o[b] \/ (o[b] = q /\ p[b] = Nobody)
  PROVE  WorkOK(Waited(d, q), p, x)
<1>. DEFINE e == Waited(d, q)
            m == Drained(d.mem, d.queue[q])
<1>1. /\ d \in Devices /\ o \in Owners /\ x \in BufferMemory
      /\ d.mem \in BufferMemory /\ d.queue \in [Queues -> Seq(Ops)]
  BY DEF WorkOK, Devices
<1>2. e = [mem |-> m, queue |-> [d.queue EXCEPT ![q] = << >>]]
  BY <1>1, HasWaited
<1>3. /\ m \in BufferMemory
      /\ \A b \in Buffer : o[b] # q => m[b] = d.mem[b]
      /\ \A b \in Buffer : o[b] \in {q, Nobody} => m[b] = x[b]
  BY OwnersDrain
<1>. HIDE DEF e, m
<1>4. /\ e.mem = m /\ e.queue[q] = << >>
      /\ \A r \in Queues \ {q} : e.queue[r] = d.queue[r]
      /\ << >> \in Seq(Ops) /\ e \in Devices
  BY <1>1, <1>2, <1>3 DEF Devices
<1>5. OwnedWork(e, p)
  <2>1. SUFFICES ASSUME NEW r \in Queues, NEW i \in 1 .. Len(e.queue[r]),
                        NEW b \in Touches(e.queue[r][i])
                 PROVE  p[b] = r
    BY DEF OwnedWork
  <2>2. r # q
    BY <1>4, <2>1
  <2>3. e.queue[r] = d.queue[r]
    BY <1>4, <2>2
  <2>4. o[b] = r /\ b \in Buffer
    BY <2>1, <2>3, OwnersDrain DEF Of
  <2>. QED  BY <2>2, <2>4
<1>6. Settled(e, p, x)
  <2>1. SUFFICES ASSUME NEW b \in Buffer
                 PROVE  /\ p[b] = Nobody => e.mem[b] = x[b]
                        /\ \A r \in Queues : p[b] = r =>
                             Drained(e.mem, e.queue[r])[b] = x[b]
    BY DEF Settled
  <2>2. p[b] = Nobody => e.mem[b] = x[b]
    BY <1>3, <1>4
  <2>3. ASSUME NEW r \in Queues, p[b] = r
        PROVE  Drained(e.mem, e.queue[r])[b] = x[b]
    <3>1. o[b] = r
      BY <2>3, NobodyIsNoQueue
    <3>2. CASE r = q
      BY <1>3, <1>4, <3>1, <3>2, DrainedEmpty
    <3>3. CASE r # q
      <4>1. \A c \in Of(o, r) : m[c] = d.mem[c]
        BY <1>3, <3>3 DEF Of
      <4>2. b \in Of(o, r)
        BY <3>1 DEF Of
      <4>3. Drained(m, d.queue[r])[b] = Drained(d.mem, d.queue[r])[b]
        BY <1>3, <4>1, <4>2, OwnersDrain
      <4>4. Drained(d.mem, d.queue[r])[b] = x[b]
        BY <3>1 DEF WorkOK, Settled
      <4>. QED  BY <1>4, <3>3, <4>3, <4>4
    <3>. QED  BY <3>2, <3>3
  <2>. QED  BY <2>2, <2>3
<1>. QED  BY <1>1, <1>4, <1>5, <1>6 DEF WorkOK, e

(* A queue executes its oldest operation.                                  *)
LEMMA StepKeeps ==
  ASSUME NEW d, NEW o, NEW x, WorkOK(d, o, x), NEW q \in Queues, d.queue[q] # << >>
  PROVE  WorkOK(Step(d, q), o, x)
<1>. DEFINE e == Step(d, q)
            op == Head(d.queue[q])
            m == Executed(d.mem, op)
            rest == Tail(d.queue[q])
<1>1. /\ d \in Devices /\ o \in Owners /\ x \in BufferMemory
      /\ d.mem \in BufferMemory /\ d.queue \in [Queues -> Seq(Ops)]
  BY DEF WorkOK, Devices
<1>2. e = [mem |-> m, queue |-> [d.queue EXCEPT ![q] = rest]]
  BY <1>1, Stepped
<1>3. /\ op = d.queue[q][1] /\ 1 \in 1 .. Len(d.queue[q]) /\ op \in Ops
      /\ rest \in Seq(Ops) /\ Len(rest) = Len(d.queue[q]) - 1
      /\ \A i \in 1 .. Len(rest) : /\ i + 1 \in 1 .. Len(d.queue[q])
                                   /\ rest[i] = d.queue[q][i + 1]
  BY <1>1
<1>4. Touches(op) \subseteq Of(o, q)
  BY <1>3, OwnersDrain
<1>5. m \in BufferMemory /\ \A b \in Buffer : o[b] # q => m[b] = d.mem[b]
  BY <1>1, <1>3, <1>4, ExecutedLocal DEF Of
<1>6. Drained(m, rest) = Drained(d.mem, d.queue[q])
  <2>1. d.queue[q] \in Seq(Ops)
    BY <1>1
  <2>. QED  BY <2>1, DrainedHead
<1>. HIDE DEF e, op, m, rest
<1>7. /\ e.mem = m /\ e.queue[q] = rest
      /\ \A r \in Queues \ {q} : e.queue[r] = d.queue[r]
      /\ e \in Devices
  BY <1>1, <1>2, <1>3, <1>5 DEF Devices
<1>8. OwnedWork(e, o)
  <2>1. SUFFICES ASSUME NEW r \in Queues, NEW i \in 1 .. Len(e.queue[r]),
                        NEW b \in Touches(e.queue[r][i])
                 PROVE  o[b] = r
    BY DEF OwnedWork
  <2>2. PICK j \in 1 .. Len(d.queue[r]) : e.queue[r][i] = d.queue[r][j]
    <3>1. CASE r = q
      BY <1>3, <1>7, <2>1, <3>1
    <3>2. CASE r # q
      BY <1>7, <2>1, <3>2
    <3>. QED  BY <3>1, <3>2
  <2>. QED  BY <2>1, <2>2, OwnersDrain DEF Of
<1>9. Settled(e, o, x)
  <2>1. SUFFICES ASSUME NEW b \in Buffer
                 PROVE  /\ o[b] = Nobody => e.mem[b] = x[b]
                        /\ \A r \in Queues : o[b] = r =>
                             Drained(e.mem, e.queue[r])[b] = x[b]
    BY DEF Settled
  <2>2. o[b] = Nobody => e.mem[b] = x[b]
    BY <1>5, <1>7, NobodyIsNoQueue DEF WorkOK, Settled
  <2>3. ASSUME NEW r \in Queues, o[b] = r
        PROVE  Drained(e.mem, e.queue[r])[b] = x[b]
    <3>1. Drained(d.mem, d.queue[r])[b] = x[b]
      BY <2>3 DEF WorkOK, Settled
    <3>2. CASE r = q
      BY <1>6, <1>7, <3>1, <3>2
    <3>3. CASE r # q
      <4>1. \A c \in Of(o, r) : m[c] = d.mem[c]
        BY <1>5, <3>3 DEF Of
      <4>2. b \in Of(o, r)
        BY <2>3 DEF Of
      <4>3. Drained(m, d.queue[r])[b] = Drained(d.mem, d.queue[r])[b]
        BY <1>5, <4>1, <4>2, OwnersDrain
      <4>. QED  BY <1>7, <3>1, <3>3, <4>3
    <3>. QED  BY <3>2, <3>3
  <2>. QED  BY <2>2, <2>3
<1>. QED  BY <1>1, <1>7, <1>8, <1>9 DEF WorkOK, e

(* The program writes into a buffer that nobody works on.                  *)
LEMMA HostWriteKeeps ==
  ASSUME NEW d, NEW o, NEW x, WorkOK(d, o, x), NEW b \in Buffer, o[b] = Nobody
  PROVE  WorkOK([d EXCEPT !.mem[b] = <<"new">>], o, [x EXCEPT ![b] = <<"new">>])
<1>. DEFINE m == [d.mem EXCEPT ![b] = <<"new">>]
            e == [mem |-> m, queue |-> d.queue]
            y == [x EXCEPT ![b] = <<"new">>]
<1>1. /\ d \in Devices /\ o \in Owners /\ x \in BufferMemory
      /\ d.mem \in BufferMemory /\ d.queue \in [Queues -> Seq(Ops)]
  BY DEF WorkOK, Devices
<1>2. [d EXCEPT !.mem[b] = <<"new">>] = e
  BY <1>1 DEF Devices
<1>3. /\ m \in BufferMemory /\ y \in BufferMemory /\ m[b] = y[b]
      /\ \A c \in Buffer \ {b} : m[c] = d.mem[c] /\ y[c] = x[c]
      /\ e \in Devices /\ e.mem = m /\ e.queue = d.queue
  BY <1>1 DEF BufferMemory, BufferContents, Devices
<1>. HIDE DEF m, e, y
<1>4. OwnedWork(e, o)
  BY <1>3 DEF WorkOK, OwnedWork
<1>5. Settled(e, o, y)
  <2>1. SUFFICES ASSUME NEW c \in Buffer
                 PROVE  /\ o[c] = Nobody => e.mem[c] = y[c]
                        /\ \A r \in Queues : o[c] = r =>
                             Drained(e.mem, e.queue[r])[c] = y[c]
    BY DEF Settled
  <2>2. o[c] = Nobody => e.mem[c] = y[c]
    BY <1>3 DEF WorkOK, Settled
  <2>3. ASSUME NEW r \in Queues, o[c] = r
        PROVE  Drained(e.mem, e.queue[r])[c] = y[c]
    <3>1. c # b
      BY <2>3, NobodyIsNoQueue
    <3>2. Drained(d.mem, d.queue[r])[c] = x[c]
      BY <2>3 DEF WorkOK, Settled
    <3>3. \A k \in Of(o, r) : m[k] = d.mem[k]
      BY <1>3, NobodyIsNoQueue DEF Of
    <3>4. c \in Of(o, r)
      BY <2>3 DEF Of
    <3>5. Drained(m, d.queue[r])[c] = Drained(d.mem, d.queue[r])[c]
      BY <1>3, <3>3, <3>4, OwnersDrain
    <3>. QED  BY <1>3, <3>1, <3>2, <3>5
  <2>. QED  BY <2>2, <2>3
<1>. QED  BY <1>1, <1>2, <1>3, <1>4, <1>5 DEF WorkOK, y

-----------------------------------------------------------------------------
(* The actions. *)

(* A call of any kind, on any queue that exists; only one that waits says  *)
(* that its buffers are ready.                                             *)
LEMMA CallKeeps ==
  ASSUME WorkOK(devices, owner, expected), NEW q \in Queues, NEW op \in Ops,
         NEW waits \in BOOLEAN, NEW ready \in BOOLEAN, ready => waits,
         Call(q, op, waits, ready)
  PROVE  WorkOK(devices', owner', expected')
<1>. DEFINE e == Submit(devices, q, op)
            p == [b \in Buffer |-> IF b \notin Touches(op) THEN owner[b] ELSE q]
            y == Executed(expected, op)
<1>1. /\ \A b \in Touches(op) : owner[b] \in {Nobody, q}
      /\ devices' = IF waits THEN Waited(e, q) ELSE e
      /\ owner' = [b \in Buffer |-> IF b \notin Touches(op) THEN owner[b]
                                    ELSE IF ready THEN Nobody ELSE q]
      /\ expected' = y
  BY DEF Call, MayUse
<1>2. WorkOK(e, p, y)
  BY <1>1, SubmitKeeps
<1>3. owner' \in Owners
  BY <1>1 DEF WorkOK, Owners
<1>4. \A b \in Buffer : owner'[b] = p[b] \/ (p[b] = q /\ owner'[b] = Nobody)
  BY <1>1
<1>5. ~ ready => owner' = p
  BY <1>1
<1>. HIDE DEF e, p, y
<1>6. CASE waits
  BY <1>1, <1>2, <1>3, <1>4, <1>6, WaitKeeps
<1>7. CASE ~ waits
  BY <1>1, <1>2, <1>5, <1>7
<1>. QED  BY <1>6, <1>7

(* The queue of a device and the one a view refers to, and the invariant   *)
(* of everything.                                                          *)
RInv ==
  /\ StreamsInv
  /\ view \in Queues
  /\ sync_kernels \in BOOLEAN
  /\ WorkOK(devices, owner, expected)

LEMMA DefaultIsQueue == ASSUME StreamsInv PROVE get_queue \in Queues
  BY DEF StreamsInv, StreamsTypeOK, get_queue, Queues

LEMMA RInvInit == RuntimeInit => RInv
<1>. SUFFICES ASSUME RuntimeInit PROVE RInv
  OBVIOUS
<1>1. StreamsInv
  BY StreamsInvInit DEF RuntimeInit
<1>2. view \in Queues /\ sync_kernels \in BOOLEAN
  BY <1>1, DefaultIsQueue DEF RuntimeInit
<1>3. /\ devices = [mem |-> [b \in Buffer |-> <<"zero">>], queue |-> [q \in Queues |-> << >>]]
      /\ owner = [b \in Buffer |-> Nobody] /\ expected = devices.mem
  BY DEF RuntimeInit
<1>4. << >> \in Seq(Ops) /\ Len(<< >>) = 0
  OBVIOUS
<1>5. devices \in Devices /\ owner \in Owners /\ expected \in BufferMemory
  BY <1>3, <1>4 DEF Devices, Owners, BufferMemory, BufferContents
<1>6. OwnedWork(devices, owner)
  BY <1>3, <1>4 DEF OwnedWork
<1>7. Settled(devices, owner, expected)
  BY <1>3, NobodyIsNoQueue DEF Settled
<1>. QED  BY <1>1, <1>2, <1>5, <1>6, <1>7 DEF RInv, WorkOK

(* What the program asks of a device, and what the device does.            *)
LEMMA WorkStep ==
  ASSUME RInv, Work PROVE WorkOK(devices', owner', expected')
<1>. USE DEF RInv
<1>0. get_queue \in Queues
  BY DefaultIsQueue
<1>1. ASSUME NEW op \in Kernels PROVE op \in Ops
  <2>1. PICK a \in Buffer, b \in Buffer : op = CopyBufferOp(a, b)
    BY <1>1 DEF Kernels, CopyBufferOp
  <2>. QED  BY <2>1, AreOps
<1>2. \A a \in Buffer, b \in Buffer : CopyBufferOp(a, b) \in Ops /\ ZeroOp(a) \in Ops
  BY AreOps
<1>3. ASSUME NEW op \in Kernels, Launch(op) \/ Assign(op)
      PROVE  WorkOK(devices', owner', expected')
  <2>1. PICK ready \in BOOLEAN : ready = FALSE
    OBVIOUS
  <2>2. PICK q \in Queues : Call(q, op, sync_kernels, ready)
    BY <1>0, <1>3, <2>1 DEF Launch, Assign
  <2>. QED  BY <1>1, <2>1, <2>2, CallKeeps
<1>4. ASSUME NEW from \in Buffer, NEW to \in Buffer, CopyBuffer(from, to)
      PROVE  WorkOK(devices', owner', expected')
  <2>1. PICK waits \in BOOLEAN : waits = OnHost({from, to})
    BY DEF OnHost
  <2>2. Call(get_queue, CopyBufferOp(to, from), waits, waits)
    BY <1>4, <2>1 DEF CopyBuffer, CopyBufferOp
  <2>. QED  BY <1>0, <1>2, <2>2, CallKeeps
<1>5. ASSUME NEW from \in Buffer, NEW to \in Buffer, CopyAsync(from, to)
      PROVE  WorkOK(devices', owner', expected')
  <2>1. PICK waits \in BOOLEAN : waits = FALSE
    OBVIOUS
  <2>2. Call(get_queue, CopyBufferOp(to, from), waits, waits)
    BY <1>5, <2>1 DEF CopyAsync, CopyBufferOp
  <2>. QED  BY <1>0, <1>2, <2>2, CallKeeps
<1>6. ASSUME NEW b \in Buffer, Fill(b)
      PROVE  WorkOK(devices', owner', expected')
  <2>1. PICK waits \in BOOLEAN : waits = OnHost({b})
    BY DEF OnHost
  <2>2. Call(get_queue, ZeroOp(b), waits, waits)
    BY <1>6, <2>1 DEF Fill, ZeroOp
  <2>. QED  BY <1>0, <1>2, <2>2, CallKeeps
<1>7. ASSUME NEW b \in Buffer, HostWrite(b)
      PROVE  WorkOK(devices', owner', expected')
  BY <1>7, HostWriteKeeps DEF HostWrite
<1>8. ASSUME NEW q \in Queues, Wait(q)
      PROVE  WorkOK(devices', owner', expected')
  <2>1. /\ owner' \in Owners
        /\ \A b \in Buffer : owner'[b] = owner[b] \/ (owner[b] = q /\ owner'[b] = Nobody)
    BY <1>8 DEF Wait, WorkOK, Owners
  <2>2. devices' = Waited(devices, q) /\ expected' = expected
    BY <1>8 DEF Wait
  <2>. QED  BY <2>1, <2>2, WaitKeeps
<1>9. CASE Synchronize \/ SynchronizeView
  BY <1>0, <1>8, <1>9 DEF Synchronize, SynchronizeView
<1>10. ASSUME NEW q \in Queues, Execute(q)
       PROVE  WorkOK(devices', owner', expected')
  BY <1>10, StepKeeps DEF Execute
<1>. QED  BY <1>3, <1>4, <1>5, <1>6, <1>7, <1>9, <1>10 DEF Work

(* The streams of the runtime are those of StreamOwner.                    *)
LEMMA StreamsStep == ASSUME [RuntimeNext]_allVars PROVE [StreamsNext]_streamVars
  BY DEF RuntimeNext, allVars, NewStreamQueue, StreamsNext

LEMMA RInvStep == ASSUME RInv, [RuntimeNext]_allVars PROVE RInv'
<1>1. StreamsInv'
  BY StreamsStep, StreamsInvStep DEF RInv
<1>2. CASE Work /\ UNCHANGED <<streamVars, view, sync_kernels>>
  BY <1>1, <1>2, WorkStep DEF RInv
<1>3. CASE UNCHANGED <<work, view, sync_kernels>>
  BY <1>1, <1>3 DEF RInv, work
<1>4. CASE /\ ViewDefault \/ \E s \in Stream : ViewStream(s)
           /\ UNCHANGED <<streamVars, work, sync_kernels>>
  <2>1. CASE ViewDefault
    BY <2>1, DefaultIsQueue, <1>1, <1>4 DEF RInv, ViewDefault, work
  <2>2. ASSUME NEW s \in Stream, ViewStream(s) PROVE view' \in Queues
    BY <2>2 DEF ViewStream, StreamAlive, RInv, StreamsInv, StreamsTypeOK, Queues
  <2>. QED  BY <1>1, <1>4, <2>1, <2>2 DEF RInv, work
<1>5. CASE UNCHANGED allVars
  BY <1>1, <1>5 DEF allVars, work, RInv
<1>. QED  BY <1>2, <1>3, <1>4, <1>5 DEF RuntimeNext

LEMMA RuntimeInvariant == RuntimeSpec => []RInv
  BY RInvInit, RInvStep, PTL DEF RuntimeSpec

(* The streams of a runtime with work on their queues behave as the stream *)
(* objects alone do.                                                       *)
THEOREM RuntimeStreams == RuntimeSpec => StreamsSpec
<1>1. RuntimeInit => StreamsInit
  BY DEF RuntimeInit
<1>. QED  BY <1>1, StreamsStep, PTL DEF RuntimeSpec, StreamsSpec

(* Nor does work on their queues close a stream under its owner.           *)
THEOREM RuntimeStreamsStayOpen == RuntimeSpec => []UsableStreamOpen
  BY RuntimeStreams, StreamsStayOpen, PTL

(* Work is on queues that exist, and views refer to one.                   *)
THEOREM RuntimeTypeCorrect == RuntimeSpec => []RuntimeTypeOK
<1>1. RInv => RuntimeTypeOK
  BY DEF RInv, StreamsInv, WorkOK, Devices, Owners, BufferMemory, BufferContents, RuntimeTypeOK
<1>. QED  BY <1>1, RuntimeInvariant, PTL

(* Whichever device was current when a view was made, when work was queued *)
(* and when it was waited for, and whatever became of the streams: no two  *)
(* queues have conflicting work, and a buffer the program may touch has no *)
(* work pending and the contents it would have if every call had done its  *)
(* work at once.                                                           *)
THEOREM ProgramOrder == RuntimeSpec => []ResultsInOrder
<1>1. ASSUME RInv PROVE ResultsInOrder
  <2>. WorkOK(devices, owner, expected)
    BY <1>1 DEF RInv
  <2>1. DOMAIN devices.queue = Queues
    BY DEF WorkOK, Devices
  <2>2. ASSUME NEW q \in Queues, NEW op \in ToSet(devices.queue[q])
        PROVE  Touches(op) \subseteq Of(owner, q)
    <3>1. devices.queue[q] \in Seq(Ops)
      BY DEF WorkOK, Devices
    <3>2. PICK i \in 1 .. Len(devices.queue[q]) : op = devices.queue[q][i]
      BY <2>2, <3>1 DEF ToSet
    <3>. QED  BY <3>2, OwnersDrain
  <2>3. NoRace(devices)
    <3>1. SUFFICES ASSUME NEW q1 \in Queues, NEW q2 \in Queues, q1 # q2,
                          NEW op1 \in ToSet(devices.queue[q1]),
                          NEW op2 \in ToSet(devices.queue[q2])
                   PROVE  ~ Conflict(op1, op2)
      BY <2>1 DEF NoRace
    <3>2. Touches(op1) \subseteq Of(owner, q1) /\ Touches(op2) \subseteq Of(owner, q2)
      BY <2>2
    <3>3. Touches(op1) \cap Touches(op2) = {}
      BY <3>1, <3>2 DEF Of
    <3>4. Writes(op1) \subseteq Touches(op1) /\ Writes(op2) \subseteq Touches(op2)
      BY DEF Touches
    <3>. QED  BY <3>3, <3>4 DEF Conflict
  <2>4. ASSUME NEW b \in Buffer, owner[b] = Nobody
        PROVE  /\ \A op \in Pending(devices) : b \notin Touches(op)
               /\ devices.mem[b] = expected[b]
    <3>1. devices.mem[b] = expected[b]
      BY <2>4 DEF WorkOK, Settled
    <3>2. ASSUME NEW op \in Pending(devices) PROVE b \notin Touches(op)
      <4>1. PICK q \in Queues : op \in ToSet(devices.queue[q])
        BY <2>1, <3>2 DEF Pending
      <4>. QED  BY <2>2, <2>4, <4>1, NobodyIsNoQueue DEF Of
    <3>. QED  BY <3>1, <3>2
  <2>. QED  BY <2>3, <2>4 DEF ResultsInOrder
<1>. QED  BY <1>1, RuntimeInvariant, PTL
=============================================================================
