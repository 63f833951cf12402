---------------------------- MODULE MemoryManager ----------------------------
(***************************************************************************)
(* The two-tier tile cache of the C++ replay runtime                       *)
(* (src/src/memory_manager.cc): a pinned DRAM pool and an HBM pool, each   *)
(* with a byte budget, a table of entries with LRU stamps, and the call    *)
(* ensure_hbm, which brings one tile into HBM and returns its device       *)
(* pointer.                                                                *)
(*                                                                         *)
(* One call is split at every point where it can throw, so that what a     *)
(* failure leaves behind is visible.  A pointer is the number of the call  *)
(* that allocated it (at most one per pool and call); 0 is nullptr.        *)
(* owns_memory is left out: only the *_for_test hooks ever clear it.       *)
(***************************************************************************)
EXTENDS Integers, FiniteSetsExt

CONSTANTS
  Tiles,              \* storage tiles of the manifest
  Size,               \* Size[t]: StorageTile::bytes
  DramBudget,         \* PinnedDramPool budget
  HbmBudget,          \* HbmPool budget
  Setups,             \* configurations under study
  NoTile,             \* no call in progress
  MaxCalls,           \* bound on the number of calls (clock_)
  MaxFaults           \* bound on the number of injected failures

ASSUME SizeAssumption == Size \in [Tiles -> Nat \ {0}]
ASSUME BudgetAssumption == DramBudget \in Nat /\ HbmBudget \in Nat
ASSUME SetupAssumption ==
  Setups \subseteq [disableDramCache : BOOLEAN, retry : BOOLEAN,
                    freeMayFail : BOOLEAN]
ASSUME NoTileAssumption == NoTile \notin Tiles
ASSUME BoundAssumption == MaxCalls \in Nat /\ MaxFaults \in Nat

VARIABLES
  setup,       \* the configuration and its environment, fixed at the start
  pc,          \* where the call in progress stands
  cur,         \* the tile it was called for
  clock,       \* clock_
  lastUsed,    \* Entry::last_used
  dram,        \* tiles whose Entry::dram is set
  hbm,         \* tiles whose Entry::hbm is set
  dramPtr,     \* Entry::dram_ptr
  hbmPtr,      \* Entry::hbm_ptr
  dramUsed,    \* PinnedDramPool::used_bytes_
  hbmUsed,     \* HbmPool::used_bytes_
  dramAllocs,  \* PinnedDramPool::allocations_
  hbmAllocs,   \* HbmPool::allocations_
  metrics,     \* the Metrics fields ensure_hbm writes
  failed,      \* tiles whose latest call threw (history)
  faults,      \* failures injected so far (bounded by MaxFaults)
  starved      \* tiles for which no eviction victim was found (history)

entryVars == <<lastUsed, dram, hbm, dramPtr, hbmPtr>>
dramPool == <<dramUsed, dramAllocs>>
hbmPool == <<hbmUsed, hbmAllocs>>
vars == <<setup, pc, cur, clock, entryVars, dramPool, hbmPool, metrics, failed,
          faults, starved>>

\* Policy tilemem_no_dram_cache.
DisableDramCache == setup.disableDramCache

\* TRUE: a caller that catches and calls again; FALSE: the replay tool.
RetryAfterFailure == setup.retry

\* Whether cudaFree and cudaFreeHost may return an error.
FreeMayFail == setup.freeMayFail

Allocation == [ptr : Nat, bytes : Nat]

Phases == {"idle", "dram", "read", "hbm", "copy", "dead"}

MetricNames == {"hbmHits", "hbmMisses", "dramHits", "dramMisses", "reloads",
                "ioBytes", "h2dBytes", "dramOccupancy", "hbmOccupancy"}

Init ==
  /\ setup \in Setups
  /\ pc = "idle" /\ cur = NoTile
  /\ clock = 0 /\ lastUsed = [t \in Tiles |-> 0]
  /\ dram = {} /\ hbm = {}
  /\ dramPtr = [t \in Tiles |-> 0] /\ hbmPtr = [t \in Tiles |-> 0]
  /\ dramUsed = 0 /\ hbmUsed = 0
  /\ dramAllocs = {} /\ hbmAllocs = {}
  /\ metrics = [m \in MetricNames |-> 0]
  /\ failed = {} /\ faults = 0 /\ starved = {}

-----------------------------------------------------------------------------
\* Mutant: the guard forgets the bytes about to be added.
OverBudgetIgnoresRequest(used, bytes, budget) == used < 0 \/ used > budget

\* used_bytes_ is a size_t: after a failed free it may wrap below zero, and
\* used + bytes wraps back.  A negative integer stands for the wrapped value,
\* which is larger than any budget.
OverBudget(used, bytes, budget) == used + bytes < 0 \/ used + bytes > budget

\* What release(ptr) subtracts: nothing for a null or unknown pointer.
BytesAt(allocs, ptr) ==
  IF \E a \in allocs : a.ptr = ptr
  THEN (CHOOSE a \in allocs : a.ptr = ptr).bytes
  ELSE 0

Without(allocs, ptr) == {a \in allocs : a.ptr # ptr}

\* Mutant: the comparison of the stamps is turned round.
Newest(tier) ==
  {v \in tier \ {cur} : \A u \in tier \ {cur} : lastUsed[v] >= lastUsed[u]}

\* The eviction loops scan every entry of a tier except the one being served
\* and keep the smallest stamp.
Oldest(tier) ==
  {v \in tier \ {cur} : \A u \in tier \ {cur} : lastUsed[v] <= lastUsed[u]}

Fault ==
  /\ faults < MaxFaults
  /\ faults' = faults + 1

\* An exception leaves ensure_hbm.  The replay tool's main catches it outside
\* its loop and exits; any other caller may call again.
Throw ==
  /\ pc' = IF RetryAfterFailure THEN "idle" ELSE "dead"
  /\ cur' = NoTile
  /\ failed' = failed \union {cur}

-----------------------------------------------------------------------------
\* ensure_hbm: the guard on the budgets, the stamp, and the HBM hit.
EnsureRejected(t) ==
  /\ pc = "idle"
  /\ Size[t] > DramBudget \/ Size[t] > HbmBudget
  /\ pc' = IF RetryAfterFailure THEN "idle" ELSE "dead"
  /\ failed' = failed \union {t}
  /\ UNCHANGED <<cur, clock, entryVars, dramPool, hbmPool, metrics, faults,
                 starved>>

\* Mutant: only the DRAM budget is compared with the tile.
TouchChecksDramOnly(t) ==
  /\ pc = "idle"
  /\ clock < MaxCalls
  /\ Size[t] <= DramBudget
  /\ clock' = clock + 1
  /\ lastUsed' = [lastUsed EXCEPT ![t] = clock + 1]

Touch(t) ==
  /\ pc = "idle"
  /\ clock < MaxCalls
  /\ Size[t] <= DramBudget /\ Size[t] <= HbmBudget
  /\ clock' = clock + 1
  /\ lastUsed' = [lastUsed EXCEPT ![t] = clock + 1]

\* Mutant: a hit returns before the stamp is written (FIFO instead of LRU).
EnsureHitKeepsStamp(t) ==
  /\ pc = "idle"
  /\ clock < MaxCalls
  /\ t \in hbm
  /\ clock' = clock + 1
  /\ metrics' = [metrics EXCEPT !["hbmHits"] = @ + 1]
  /\ failed' = failed \ {t}
  /\ UNCHANGED <<pc, cur, entryVars, dramPool, hbmPool, faults, starved>>

EnsureHit(t) ==
  /\ Touch(t)
  /\ t \in hbm
  /\ metrics' = [metrics EXCEPT !["hbmHits"] = @ + 1]
  /\ failed' = failed \ {t}
  /\ UNCHANGED <<pc, cur, dram, hbm, dramPtr, hbmPtr, dramPool, hbmPool,
                 faults, starved>>

EnsureDramHit(t) ==
  /\ Touch(t)
  /\ t \notin hbm /\ t \in dram
  /\ metrics' = [metrics EXCEPT !["hbmMisses"] = @ + 1, !["dramHits"] = @ + 1]
  /\ pc' = "hbm" /\ cur' = t
  /\ UNCHANGED <<dram, hbm, dramPtr, hbmPtr, dramPool, hbmPool, failed,
                 faults, starved>>

EnsureMiss(t) ==
  /\ Touch(t)
  /\ t \notin hbm /\ t \notin dram
  /\ metrics' = [metrics EXCEPT !["hbmMisses"] = @ + 1, !["dramMisses"] = @ + 1,
                                !["reloads"] = @ + 1]
  /\ pc' = "dram" /\ cur' = t
  /\ UNCHANGED <<dram, hbm, dramPtr, hbmPtr, dramPool, hbmPool, failed,
                 faults, starved>>

-----------------------------------------------------------------------------
\* evict_dram_until: one iteration of the loop.  A victim loses its HBM copy
\* with its DRAM copy.
DramPressure == pc = "dram" /\ OverBudget(dramUsed, Size[cur], DramBudget)

ReleaseDram(v) ==
  /\ dramUsed' = dramUsed - BytesAt(dramAllocs, dramPtr[v])
  /\ dramAllocs' = Without(dramAllocs, dramPtr[v])

ReleaseHbm(v) ==
  /\ hbmUsed' = hbmUsed - BytesAt(hbmAllocs, hbmPtr[v])
  /\ hbmAllocs' = Without(hbmAllocs, hbmPtr[v])

\* Mutants: the victim keeps its HBM copy; its HBM flag is cleared but the
\* buffer is not released.
EvictDramKeepsHbm(v) ==
  /\ DramPressure
  /\ v \in Oldest(dram)
  /\ ReleaseDram(v)
  /\ dramPtr' = [dramPtr EXCEPT ![v] = 0]
  /\ dram' = dram \ {v}
  /\ UNCHANGED <<pc, cur, clock, lastUsed, hbm, hbmPtr, hbmPool, metrics,
                 failed, faults, starved>>

EvictDramLosesHbm(v) ==
  /\ DramPressure
  /\ v \in Oldest(dram)
  /\ ReleaseDram(v)
  /\ dramPtr' = [dramPtr EXCEPT ![v] = 0]
  /\ dram' = dram \ {v}
  /\ hbmPtr' = [hbmPtr EXCEPT ![v] = 0]
  /\ hbm' = hbm \ {v}
  /\ UNCHANGED <<pc, cur, clock, lastUsed, hbmPool, metrics, failed, faults,
                 starved>>

EvictDram(v) ==
  /\ DramPressure
  /\ v \in Oldest(dram)
  /\ ReleaseDram(v)
  /\ dramPtr' = [dramPtr EXCEPT ![v] = 0]
  /\ dram' = dram \ {v}
  /\ IF v \in hbm
     THEN /\ ReleaseHbm(v)
          /\ hbmPtr' = [hbmPtr EXCEPT ![v] = 0]
          /\ hbm' = hbm \ {v}
     ELSE UNCHANGED <<hbmPool, hbmPtr, hbm>>
  /\ UNCHANGED <<pc, cur, clock, lastUsed, metrics, failed, faults, starved>>

NoDramVictim ==
  /\ DramPressure
  /\ dram \ {cur} = {}
  /\ Throw
  /\ starved' = starved \union {cur}
  /\ UNCHANGED <<clock, entryVars, dramPool, hbmPool, metrics, faults>>

\* release subtracts before it calls cudaFreeHost, and erases after it.
EvictDramFreeFails(v) ==
  /\ FreeMayFail /\ Fault
  /\ DramPressure
  /\ v \in Oldest(dram)
  /\ dramUsed' = dramUsed - BytesAt(dramAllocs, dramPtr[v])
  /\ Throw
  /\ UNCHANGED <<clock, entryVars, dramAllocs, hbmPool, metrics, starved>>

\* The DRAM copy is gone, the HBM copy is still flagged.
EvictDramHbmFreeFails(v) ==
  /\ FreeMayFail /\ Fault
  /\ DramPressure
  /\ v \in Oldest(dram) \intersect hbm
  /\ ReleaseDram(v)
  /\ dramPtr' = [dramPtr EXCEPT ![v] = 0]
  /\ dram' = dram \ {v}
  /\ hbmUsed' = hbmUsed - BytesAt(hbmAllocs, hbmPtr[v])
  /\ Throw
  /\ UNCHANGED <<clock, lastUsed, hbm, hbmPtr, hbmAllocs, metrics, starved>>

-----------------------------------------------------------------------------
\* dram_pool_.allocate: the budget holds when evict_dram_until has returned.
AllocateDram ==
  /\ pc = "dram" /\ ~DramPressure
  /\ dramPtr' = [dramPtr EXCEPT ![cur] = clock]
  /\ dramUsed' = dramUsed + Size[cur]
  /\ dramAllocs' = dramAllocs \union {[ptr |-> clock, bytes |-> Size[cur]]}
  /\ pc' = "read"
  /\ UNCHANGED <<cur, clock, lastUsed, dram, hbm, hbmPtr, hbmPool, metrics,
                 failed, faults, starved>>

AllocateDramFails ==
  /\ pc = "dram" /\ ~DramPressure
  /\ Fault
  /\ Throw
  /\ UNCHANGED <<clock, entryVars, dramPool, hbmPool, metrics, starved>>

\* io_queue.read fills the new buffer, or throws and leaves it allocated.
ReadTile ==
  /\ pc = "read"
  /\ metrics' = [metrics EXCEPT !["ioBytes"] = @ + Size[cur]]
  /\ dram' = dram \union {cur}
  /\ pc' = "hbm"
  /\ UNCHANGED <<cur, clock, lastUsed, hbm, dramPtr, hbmPtr, dramPool,
                 hbmPool, failed, faults, starved>>

ReadTileFails ==
  /\ pc = "read"
  /\ Fault
  /\ Throw
  /\ UNCHANGED <<clock, entryVars, dramPool, hbmPool, metrics, starved>>

-----------------------------------------------------------------------------
\* evict_hbm_until: one iteration of the loop.
HbmPressure == pc = "hbm" /\ OverBudget(hbmUsed, Size[cur], HbmBudget)

\* Mutant: the buffer is released and the entry still says resident.
EvictHbmKeepsFlag(v) ==
  /\ HbmPressure
  /\ v \in Oldest(hbm)
  /\ ReleaseHbm(v)
  /\ UNCHANGED <<pc, cur, clock, entryVars, dramPool, metrics, failed, faults,
                 starved>>

EvictHbm(v) ==
  /\ HbmPressure
  /\ v \in Oldest(hbm)
  /\ ReleaseHbm(v)
  /\ hbmPtr' = [hbmPtr EXCEPT ![v] = 0]
  /\ hbm' = hbm \ {v}
  /\ UNCHANGED <<pc, cur, clock, lastUsed, dram, dramPtr, dramPool, metrics,
                 failed, faults, starved>>

NoHbmVictim ==
  /\ HbmPressure
  /\ hbm \ {cur} = {}
  /\ Throw
  /\ starved' = starved \union {cur}
  /\ UNCHANGED <<clock, entryVars, dramPool, hbmPool, metrics, faults>>

EvictHbmFreeFails(v) ==
  /\ FreeMayFail /\ Fault
  /\ HbmPressure
  /\ v \in Oldest(hbm)
  /\ hbmUsed' = hbmUsed - BytesAt(hbmAllocs, hbmPtr[v])
  /\ Throw
  /\ UNCHANGED <<clock, entryVars, dramPool, hbmAllocs, metrics, starved>>

-----------------------------------------------------------------------------
\* hbm_pool_.allocate, then the H2D copy and the tail of ensure_hbm.
AllocateHbm ==
  /\ pc = "hbm" /\ ~HbmPressure
  /\ hbmPtr' = [hbmPtr EXCEPT ![cur] = clock]
  /\ hbmUsed' = hbmUsed + Size[cur]
  /\ hbmAllocs' = hbmAllocs \union {[ptr |-> clock, bytes |-> Size[cur]]}
  /\ pc' = "copy"
  /\ UNCHANGED <<cur, clock, lastUsed, dram, hbm, dramPtr, dramPool, metrics,
                 failed, faults, starved>>

AllocateHbmFails ==
  /\ pc = "hbm" /\ ~HbmPressure
  /\ Fault
  /\ Throw
  /\ UNCHANGED <<clock, entryVars, dramPool, hbmPool, metrics, starved>>

CopyFails ==
  /\ pc = "copy"
  /\ Fault
  /\ Throw
  /\ UNCHANGED <<clock, entryVars, dramPool, hbmPool, metrics, starved>>

Copied ==
  /\ pc = "copy"
  /\ hbm' = hbm \union {cur}
  /\ metrics' = [metrics EXCEPT !["h2dBytes"] = @ + Size[cur],
                                !["dramOccupancy"] = Max({@, dramUsed}),
                                !["hbmOccupancy"] = Max({@, hbmUsed})]

\* The DRAM copy is dropped after the copy when the policy disables the cache.
DropDramCopy ==
  IF DisableDramCache
  THEN /\ ReleaseDram(cur)
       /\ dramPtr' = [dramPtr EXCEPT ![cur] = 0]
       /\ dram' = dram \ {cur}
  ELSE UNCHANGED <<dramPool, dramPtr, dram>>

Copy ==
  /\ Copied
  /\ DropDramCopy
  /\ pc' = "idle" /\ cur' = NoTile
  /\ failed' = failed \ {cur}
  /\ UNCHANGED <<clock, lastUsed, hbmPtr, hbmPool, faults, starved>>

DropDramFreeFails ==
  /\ FreeMayFail /\ Fault
  /\ DisableDramCache
  /\ Copied
  /\ dramUsed' = dramUsed - BytesAt(dramAllocs, dramPtr[cur])
  /\ Throw
  /\ UNCHANGED <<clock, lastUsed, dram, dramPtr, dramAllocs, hbmPtr, hbmPool,
                 starved>>

-----------------------------------------------------------------------------
Ensure(t) ==
  /\ UNCHANGED setup
  /\ \/ EnsureRejected(t)
     \/ EnsureHit(t)
     \/ EnsureDramHit(t)
     \/ EnsureMiss(t)

Evict(v) == EvictDram(v) \/ EvictHbm(v)

FreeFails(v) ==
  \/ EvictDramFreeFails(v)
  \/ EvictDramHbmFreeFails(v)
  \/ EvictHbmFreeFails(v)

Load == AllocateDram \/ ReadTile \/ AllocateHbm \/ Copy

Fail ==
  \/ NoDramVictim
  \/ NoHbmVictim
  \/ AllocateDramFails
  \/ ReadTileFails
  \/ AllocateHbmFails
  \/ CopyFails
  \/ DropDramFreeFails

\* A step of the call in progress.
CallStep ==
  /\ UNCHANGED setup
  /\ \/ \E v \in Tiles : Evict(v)
     \/ \E v \in Tiles : FreeFails(v)
     \/ Load
     \/ Fail

Next ==
  \/ \E t \in Tiles : Ensure(t)
  \/ CallStep

\* A call that has started runs on: it is straight-line code on one thread.
Fairness == WF_vars(CallStep)

Spec == Init /\ [][Next]_vars /\ Fairness

-----------------------------------------------------------------------------
\* The types of the state.
TypeOK ==
  /\ setup \in Setups
  /\ pc \in Phases
  /\ cur \in Tiles \union {NoTile}
  /\ pc \in {"idle", "dead"} <=> cur = NoTile
  /\ clock \in Nat
  /\ lastUsed \in [Tiles -> Nat]
  /\ dram \subseteq Tiles /\ hbm \subseteq Tiles
  /\ dramPtr \in [Tiles -> Nat] /\ hbmPtr \in [Tiles -> Nat]
  /\ dramUsed \in Int /\ hbmUsed \in Int
  /\ dramAllocs \subseteq Allocation /\ hbmAllocs \subseteq Allocation
  /\ metrics \in [MetricNames -> Int]
  /\ failed \subseteq Tiles
  /\ faults \in Nat
  /\ starved \subseteq Tiles

\* The bytes the driver really holds for a pool.
LiveBytes(allocs) == SumFunction([a \in allocs |-> a.bytes])

\* Neither tier ever holds more bytes than its budget, leaked buffers included.
PoolsWithinBudget ==
  ~FreeMayFail =>
    LiveBytes(dramAllocs) <= DramBudget /\ LiveBytes(hbmAllocs) <= HbmBudget

\* A tier's residents and their pointers: every resident tile has a live
\* buffer of its own size, and no two residents share one.
OwnBuffers(tier, ptr, allocs) ==
  /\ \A t \in tier : [ptr |-> ptr[t], bytes |-> Size[t]] \in allocs
  /\ \A t, u \in tier : ptr[t] = ptr[u] => t = u

\* A tile flagged resident is never without its buffer: the pointer that
\* ensure_hbm returns on a hit is live, large enough and used by that tile
\* alone, after any sequence of evictions and failed calls.
ResidentBuffersLive ==
  /\ OwnBuffers(dram, dramPtr, dramAllocs)
  /\ OwnBuffers(hbm, hbmPtr, hbmAllocs)

\* The DRAM tier is a cache of the SSD and HBM a cache of DRAM: a tile in HBM
\* still has its DRAM copy, because evict_dram_until drops both.
Inclusion == ~DisableDramCache /\ ~FreeMayFail => hbm \subseteq dram

Unowned(tier, ptr, allocs) == {a \in allocs : \A t \in tier : ptr[t] # a.ptr}

\* No buffer is lost without a failure, and each failed call loses at most
\* one: the buffer whose read or copy threw stays allocated and no entry that
\* the eviction loops look at refers to it.
LeaksBoundedByFaults ==
  pc \in {"idle", "dead"} =>
    Cardinality(Unowned(dram, dramPtr, dramAllocs))
      + Cardinality(Unowned(hbm, hbmPtr, hbmAllocs)) <= faults

\* LRU over both tiers: a tile that was called for and is no longer in a tier
\* is older than every tile still in it, unless its own last call failed.
\* Evictions of the DRAM tier, which take HBM copies with them, keep the order
\* of the HBM tier too.
KeepsRecent(tier) ==
  \A u \in tier, v \in Tiles \ (tier \union failed \union {cur}) :
    lastUsed[v] > 0 => lastUsed[v] < lastUsed[u]

RecencyOrder ==
  ~FreeMayFail =>
    /\ KeepsRecent(hbm)
    /\ ~DisableDramCache => KeepsRecent(dram)

\* The "no eviction victim available" exceptions cannot happen before another
\* failure has leaked a buffer: the guard on the budgets is enough.
NeverStarvedWithoutFault == starved # {} => faults > 0

=============================================================================
