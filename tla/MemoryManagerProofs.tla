------------------------- MODULE MemoryManagerProofs -------------------------
(***************************************************************************)
(* Proofs about MemoryManager, for every set of tiles, sizes, budgets and  *)
(* number of failures: its invariants, that it implements TileCache, and   *)
(* about the Replay that calls it, for every manifest, trace and policy.   *)
(***************************************************************************)
EXTENDS MemoryRefinement, Replay, Collections, FiniteSetTheorems, SequenceTheorems, TLAPS

USE SizeAssumption, BudgetAssumption, SetupAssumption, NoTileAssumption,
    BoundAssumption
USE DEF DisableDramCache, RetryAfterFailure, FreeMayFail

-----------------------------------------------------------------------------
(* Type correctness *)

LEMMA BytesAtType ==
  ASSUME NEW allocs \in SUBSET Allocation, NEW p \in Nat
  PROVE  BytesAt(allocs, p) \in Nat
BY DEF BytesAt, Allocation

LEMMA WithoutType ==
  ASSUME NEW allocs \in SUBSET Allocation, NEW p \in Nat
  PROVE  Without(allocs, p) \subseteq Allocation
BY DEF Without

LEMMA OldestIn ==
  ASSUME NEW tier, NEW v \in Oldest(tier)
  PROVE  v \in tier /\ v # cur
BY DEF Oldest

LEMMA MaxType ==
  ASSUME NEW x \in Int, NEW y \in Int
  PROVE  Max({x, y}) \in Int
<1>1. \E m \in {x, y} : \A n \in {x, y} : m >= n
  OBVIOUS
<1>2. Max({x, y}) \in {x, y}
  BY <1>1 DEF Max
<1>3. QED
  BY <1>2

LEMMA TypeInvStep == TypeOK /\ [Next]_vars => TypeOK'
<1> SUFFICES ASSUME TypeOK, [Next]_vars
             PROVE  TypeOK'
  OBVIOUS
<1> USE DEF TypeOK, Phases, MetricNames, Throw, Fault, entryVars, dramPool,
            hbmPool
<1>0. setup' = setup
  BY DEF Next, Ensure, CallStep, vars
<1> USE <1>0
<1>1. ASSUME NEW t \in Tiles, EnsureRejected(t) PROVE TypeOK'
  BY <1>1 DEF EnsureRejected
<1>2. ASSUME NEW t \in Tiles, EnsureHit(t) PROVE TypeOK'
  BY <1>2 DEF EnsureHit, Touch
<1>3. ASSUME NEW t \in Tiles, EnsureDramHit(t) PROVE TypeOK'
  BY <1>3 DEF EnsureDramHit, Touch
<1>4. ASSUME NEW t \in Tiles, EnsureMiss(t) PROVE TypeOK'
  BY <1>4 DEF EnsureMiss, Touch
<1>5. ASSUME NEW v \in Tiles, EvictDram(v) PROVE TypeOK'
  BY <1>5, BytesAtType, WithoutType
  DEF EvictDram, ReleaseDram, ReleaseHbm, DramPressure
<1>6. ASSUME NEW v \in Tiles, EvictHbm(v) PROVE TypeOK'
  BY <1>6, BytesAtType, WithoutType DEF EvictHbm, ReleaseHbm, HbmPressure
<1>7. ASSUME NEW v \in Tiles, EvictDramFreeFails(v) PROVE TypeOK'
  BY <1>7, BytesAtType DEF EvictDramFreeFails, DramPressure
<1>8. ASSUME NEW v \in Tiles, EvictDramHbmFreeFails(v) PROVE TypeOK'
  BY <1>8, BytesAtType, WithoutType
  DEF EvictDramHbmFreeFails, ReleaseDram, DramPressure
<1>9. ASSUME NEW v \in Tiles, EvictHbmFreeFails(v) PROVE TypeOK'
  BY <1>9, BytesAtType DEF EvictHbmFreeFails, HbmPressure
<1>10. CASE AllocateDram
  BY <1>10 DEF AllocateDram, Allocation
<1>11. CASE ReadTile
  BY <1>11 DEF ReadTile
<1>12. CASE AllocateHbm
  BY <1>12 DEF AllocateHbm, Allocation
<1>13. CASE Copy
  BY <1>13, BytesAtType, WithoutType, MaxType
  DEF Copy, Copied, DropDramCopy, ReleaseDram
<1>14. CASE Fail
  BY <1>14, BytesAtType, MaxType
  DEF Fail, NoDramVictim, NoHbmVictim, AllocateDramFails, ReadTileFails,
      AllocateHbmFails, CopyFails, DropDramFreeFails, Copied,
      DramPressure, HbmPressure
<1>15. CASE UNCHANGED vars
  BY <1>15 DEF vars
<1>16. QED
  BY <1>1, <1>2, <1>3, <1>4, <1>5, <1>6, <1>7, <1>8, <1>9, <1>10, <1>11,
     <1>12, <1>13, <1>14, <1>15
  DEF Next, Ensure, CallStep, Evict, FreeFails, Load

\* Every state has its type, the byte counters included.
THEOREM TypeCorrect == Spec => []TypeOK
<1>1. Init => TypeOK
  BY DEF Init, TypeOK, Phases, MetricNames
<1>2. QED
  BY <1>1, TypeInvStep, PTL DEF Spec

-----------------------------------------------------------------------------
(* Residents own their buffers *)

\* The strengthening of ResidentBuffersLive.  No pointer is newer than the
\* call in progress, the tile being served enters a tier only after its buffer
\* exists, and until then every resident's pointer is older than that buffer.
BufferInv ==
  /\ ResidentBuffersLive
  /\ \A t \in dram : dramPtr[t] <= clock
  /\ \A t \in hbm : hbmPtr[t] <= clock
  /\ pc \in {"dram", "read"} =>
       cur \notin dram /\ \A t \in dram : dramPtr[t] < clock
  /\ pc \in {"dram", "read", "hbm", "copy"} =>
       cur \notin hbm /\ \A t \in hbm : hbmPtr[t] < clock
  /\ pc = "read" =>
       /\ dramPtr[cur] = clock
       /\ [ptr |-> clock, bytes |-> Size[cur]] \in dramAllocs
  /\ pc \in {"hbm", "copy"} => cur \in dram
  /\ pc = "copy" =>
       /\ hbmPtr[cur] = clock
       /\ [ptr |-> clock, bytes |-> Size[cur]] \in hbmAllocs

\* Releasing one resident's buffer leaves the others their own.
LEMMA ReleaseKeepsOthers ==
  ASSUME NEW tier \in SUBSET Tiles, NEW ptr \in [Tiles -> Nat], NEW allocs,
         NEW v \in tier, OwnBuffers(tier, ptr, allocs)
  PROVE  OwnBuffers(tier \ {v}, [ptr EXCEPT ![v] = 0],
                    Without(allocs, ptr[v]))
BY DEF OwnBuffers, Without

\* A buffer for a tile that is not resident disturbs no resident.
LEMMA AllocateKeepsOthers ==
  ASSUME NEW tier \in SUBSET Tiles, NEW ptr \in [Tiles -> Nat], NEW allocs,
         NEW t \in Tiles, t \notin tier, NEW n \in Nat, NEW a,
         OwnBuffers(tier, ptr, allocs)
  PROVE  OwnBuffers(tier, [ptr EXCEPT ![t] = n], allocs \union {a})
BY DEF OwnBuffers

\* A tile with a buffer newer than every resident's may become resident.
LEMMA AdmitKeepsOwn ==
  ASSUME NEW tier \in SUBSET Tiles, NEW ptr \in [Tiles -> Nat], NEW allocs,
         NEW t \in Tiles, NEW n \in Nat, ptr[t] = n,
         [ptr |-> n, bytes |-> Size[t]] \in allocs,
         \A u \in tier : ptr[u] < n,
         OwnBuffers(tier, ptr, allocs)
  PROVE  OwnBuffers(tier \union {t}, ptr, allocs)
BY DEF OwnBuffers

LEMMA BufferInvStep == TypeOK /\ BufferInv /\ [Next]_vars => BufferInv'
<1> SUFFICES ASSUME TypeOK, BufferInv, [Next]_vars
             PROVE  BufferInv'
  OBVIOUS
<1> USE DEF BufferInv, ResidentBuffersLive, Throw, Fault, entryVars,
            dramPool, hbmPool
<1>0. /\ dram \in SUBSET Tiles /\ hbm \in SUBSET Tiles
      /\ dramPtr \in [Tiles -> Nat] /\ hbmPtr \in [Tiles -> Nat]
      /\ clock \in Nat
      /\ pc \in {"dram", "read", "hbm", "copy"} => cur \in Tiles
  BY DEF TypeOK
<1>1. ASSUME NEW t \in Tiles, EnsureRejected(t) PROVE BufferInv'
  BY <1>0, <1>1 DEF EnsureRejected
<1>2. ASSUME NEW t \in Tiles, EnsureHit(t) PROVE BufferInv'
  BY <1>0, <1>2 DEF EnsureHit, Touch
<1>3. ASSUME NEW t \in Tiles, EnsureDramHit(t) PROVE BufferInv'
  BY <1>0, <1>3 DEF EnsureDramHit, Touch
<1>4. ASSUME NEW t \in Tiles, EnsureMiss(t) PROVE BufferInv'
  BY <1>0, <1>4 DEF EnsureMiss, Touch
<1>5. ASSUME NEW v \in Tiles, EvictDram(v) PROVE BufferInv'
  <2>1. v \in dram /\ v # cur
    BY <1>5, OldestIn DEF EvictDram
  <2>2. OwnBuffers(dram, dramPtr, dramAllocs)'
    BY <1>0, <1>5, <2>1, ReleaseKeepsOthers DEF EvictDram, ReleaseDram
  <2>3. OwnBuffers(hbm, hbmPtr, hbmAllocs)'
    BY <1>0, <1>5, ReleaseKeepsOthers DEF EvictDram, ReleaseHbm
  <2>4. QED
    BY <1>0, <1>5, <2>1, <2>2, <2>3 DEF EvictDram, DramPressure
<1>6. ASSUME NEW v \in Tiles, EvictHbm(v) PROVE BufferInv'
  <2>1. v \in hbm /\ v # cur
    BY <1>6, OldestIn DEF EvictHbm
  <2>2. OwnBuffers(hbm, hbmPtr, hbmAllocs)'
    BY <1>0, <1>6, <2>1, ReleaseKeepsOthers DEF EvictHbm, ReleaseHbm
  <2>3. QED
    BY <1>0, <1>6, <2>1, <2>2 DEF EvictHbm, HbmPressure
<1>7. ASSUME NEW v \in Tiles, EvictDramFreeFails(v) PROVE BufferInv'
  BY <1>0, <1>7 DEF EvictDramFreeFails
<1>8. ASSUME NEW v \in Tiles, EvictDramHbmFreeFails(v) PROVE BufferInv'
  <2>1. v \in dram
    BY <1>8, OldestIn DEF EvictDramHbmFreeFails
  <2>2. OwnBuffers(dram, dramPtr, dramAllocs)'
    BY <1>0, <1>8, <2>1, ReleaseKeepsOthers
    DEF EvictDramHbmFreeFails, ReleaseDram
  <2>3. QED
    BY <1>0, <1>8, <2>1, <2>2 DEF EvictDramHbmFreeFails
<1>9. ASSUME NEW v \in Tiles, EvictHbmFreeFails(v) PROVE BufferInv'
  BY <1>0, <1>9 DEF EvictHbmFreeFails
<1>10. CASE AllocateDram
  <2>1. OwnBuffers(dram, dramPtr, dramAllocs)'
    BY <1>0, <1>10, AllocateKeepsOthers DEF AllocateDram
  <2>2. QED
    BY <1>0, <1>10, <2>1 DEF AllocateDram
<1>11. CASE ReadTile
  <2>1. OwnBuffers(dram, dramPtr, dramAllocs)'
    BY <1>0, <1>11, AdmitKeepsOwn DEF ReadTile
  <2>2. QED
    BY <1>0, <1>11, <2>1 DEF ReadTile
<1>12. CASE AllocateHbm
  <2>1. OwnBuffers(hbm, hbmPtr, hbmAllocs)'
    BY <1>0, <1>12, AllocateKeepsOthers DEF AllocateHbm
  <2>2. QED
    BY <1>0, <1>12, <2>1 DEF AllocateHbm
<1>13. ASSUME Copied PROVE OwnBuffers(hbm', hbmPtr, hbmAllocs)
  BY <1>0, <1>13, AdmitKeepsOwn DEF Copied
<1>14. CASE Copy
  <2>1. OwnBuffers(hbm, hbmPtr, hbmAllocs)'
    BY <1>13, <1>14 DEF Copy
  <2>a. cur \in dram /\ OwnBuffers(dram, dramPtr, dramAllocs)
    BY <1>14 DEF Copy, Copied
  <2>b. OwnBuffers(dram \ {cur}, [dramPtr EXCEPT ![cur] = 0],
                   Without(dramAllocs, dramPtr[cur]))
    BY <1>0, <2>a, ReleaseKeepsOthers
  <2>2. OwnBuffers(dram, dramPtr, dramAllocs)'
    <3>1. CASE DisableDramCache
      BY <1>14, <2>b, <3>1 DEF Copy, DropDramCopy, ReleaseDram
    <3>2. CASE ~DisableDramCache
      BY <1>14, <2>a, <3>2 DEF Copy, DropDramCopy
    <3>3. QED
      BY <3>1, <3>2
  <2>3. QED
    BY <1>0, <1>14, <2>1, <2>2 DEF Copy, Copied, DropDramCopy
<1>15. CASE DropDramFreeFails
  BY <1>0, <1>13, <1>15 DEF DropDramFreeFails, Copied
<1>16. CASE NoDramVictim \/ NoHbmVictim \/ AllocateDramFails \/ ReadTileFails
            \/ AllocateHbmFails \/ CopyFails
  BY <1>0, <1>16
  DEF NoDramVictim, NoHbmVictim, AllocateDramFails, ReadTileFails,
      AllocateHbmFails, CopyFails
<1>17. CASE UNCHANGED vars
  BY <1>17 DEF vars
<1>18. QED
  BY <1>1, <1>2, <1>3, <1>4, <1>5, <1>6, <1>7, <1>8, <1>9, <1>10, <1>11,
     <1>12, <1>14, <1>15, <1>16, <1>17
  DEF Next, Ensure, CallStep, Evict, FreeFails, Load, Fail

\* The pointer ensure_hbm returns on a hit is a live buffer of the tile's own,
\* whatever was evicted and whatever failed before, free errors included.
THEOREM ResidentBuffersAlwaysLive == Spec => []ResidentBuffersLive
<1>1. Init => BufferInv
  BY DEF Init, BufferInv, ResidentBuffersLive, OwnBuffers
<1>2. BufferInv => ResidentBuffersLive
  BY DEF BufferInv
<1>3. QED
  BY <1>1, <1>2, TypeCorrect, BufferInvStep, PTL DEF Spec

-----------------------------------------------------------------------------
(* Nested tiers and the LRU order *)

\* The strengthening of Inclusion: without the DRAM cache no tile is in both
\* tiers, which makes an eviction from DRAM harmless to HBM there.
TierInv ==
  ~FreeMayFail => IF DisableDramCache THEN dram \intersect hbm = {}
                                      ELSE hbm \subseteq dram

LEMMA TierInvStep ==
  TypeOK /\ BufferInv /\ TierInv /\ [Next]_vars => TierInv'
<1>0. [Next]_vars => setup' = setup
  BY DEF Next, Ensure, CallStep, vars
<1> SUFFICES ASSUME TypeOK, BufferInv, TierInv, [Next]_vars, ~FreeMayFail
             PROVE  IF DisableDramCache THEN dram' \intersect hbm' = {}
                                        ELSE hbm' \subseteq dram'
  BY <1>0 DEF TierInv
<1> USE DEF TierInv, Throw, entryVars
<1>1. CASE \E t \in Tiles : Ensure(t)
  BY <1>1
  DEF Ensure, EnsureRejected, EnsureHit, EnsureDramHit, EnsureMiss, Touch
<1>2. CASE \E v \in Tiles : Evict(v)
  BY <1>2 DEF Evict, EvictDram, EvictHbm
<1>3. CASE \E v \in Tiles : FreeFails(v)
  BY <1>3
  DEF FreeFails, EvictDramFreeFails, EvictDramHbmFreeFails, EvictHbmFreeFails
<1>4. CASE Load
  BY <1>4
  DEF BufferInv, Load, AllocateDram, ReadTile, AllocateHbm, Copy, Copied,
      DropDramCopy
<1>5. CASE Fail
  BY <1>5
  DEF Fail, NoDramVictim, NoHbmVictim, AllocateDramFails, ReadTileFails,
      AllocateHbmFails, CopyFails, DropDramFreeFails
<1>6. CASE UNCHANGED vars
  BY <1>6 DEF vars
<1>7. QED
  BY <1>1, <1>2, <1>3, <1>4, <1>5, <1>6 DEF Next, CallStep

\* HBM is a cache of DRAM: no tile is in HBM without its DRAM copy.
THEOREM InclusionHolds == Spec => []Inclusion
<1>1. Init => BufferInv /\ TierInv
  BY DEF Init, BufferInv, ResidentBuffersLive, OwnBuffers, TierInv
<1>2. TierInv => Inclusion
  BY DEF TierInv, Inclusion
<1>3. QED
  BY <1>1, <1>2, TypeCorrect, BufferInvStep, TierInvStep, PTL DEF Spec

\* The strengthening of RecencyOrder: stamps are distinct, never from the
\* future, and the tile being served has the newest one.
RecencyInv ==
  /\ RecencyOrder
  /\ \A t \in Tiles : lastUsed[t] <= clock
  /\ \A t, u \in Tiles :
       lastUsed[t] = lastUsed[u] /\ lastUsed[t] > 0 => t = u
  /\ \A t \in dram \union hbm : lastUsed[t] > 0
  /\ pc \in {"dram", "read", "hbm", "copy"} =>
       /\ lastUsed[cur] = clock /\ clock > 0
       /\ \A t \in Tiles \ {cur} : lastUsed[t] < clock

\* The new stamp of a call keeps the stamps distinct.
LEMMA TouchKeepsStamps ==
  ASSUME TypeOK, RecencyInv, NEW t \in Tiles, Touch(t)
  PROVE  /\ \A u \in Tiles : lastUsed'[u] <= clock'
         /\ \A u, w \in Tiles :
              lastUsed'[u] = lastUsed'[w] /\ lastUsed'[u] > 0 => u = w
         /\ lastUsed'[t] = clock' /\ clock' > 0
         /\ \A u \in Tiles \ {t} : /\ lastUsed'[u] = lastUsed[u]
                                   /\ lastUsed'[u] < clock'
BY DEF TypeOK, RecencyInv, Touch

LEMMA RecencyInvStep ==
  TypeOK /\ BufferInv /\ TierInv /\ RecencyInv /\ [Next]_vars => RecencyInv'
<1> SUFFICES ASSUME TypeOK, BufferInv, TierInv, RecencyInv, [Next]_vars
             PROVE  RecencyInv'
  OBVIOUS
<1> USE DEF Throw, entryVars
<1>a. setup' = setup
  BY DEF Next, Ensure, CallStep, vars
<1> USE <1>a
<1>0. /\ dram \in SUBSET Tiles /\ hbm \in SUBSET Tiles
      /\ lastUsed \in [Tiles -> Nat] /\ clock \in Nat
      /\ failed \in SUBSET Tiles
      /\ pc \in {"dram", "read", "hbm", "copy"} => cur \in Tiles
      /\ pc = "idle" => cur = NoTile
  BY DEF TypeOK
<1>1. ASSUME NEW t \in Tiles, Ensure(t) PROVE RecencyInv'
  <2>1. CASE EnsureRejected(t)
    BY <1>0, <2>1 DEF EnsureRejected, RecencyInv, RecencyOrder, KeepsRecent
  <2>2. CASE EnsureHit(t)
    <3>1. RecencyOrder'
      BY <1>0, <2>2, TouchKeepsStamps
      DEF EnsureHit, RecencyInv, RecencyOrder, KeepsRecent, TierInv, Touch
    <3>2. QED
      BY <1>0, <2>2, <3>1, TouchKeepsStamps DEF EnsureHit, RecencyInv, Touch
  <2>3. CASE EnsureDramHit(t)
    <3>1. RecencyOrder'
      BY <1>0, <2>3, TouchKeepsStamps
      DEF EnsureDramHit, RecencyInv, RecencyOrder, KeepsRecent, Touch
    <3>2. QED
      BY <1>0, <2>3, <3>1, TouchKeepsStamps DEF EnsureDramHit, RecencyInv
  <2>4. CASE EnsureMiss(t)
    <3>1. RecencyOrder'
      BY <1>0, <2>4, TouchKeepsStamps
      DEF EnsureMiss, RecencyInv, RecencyOrder, KeepsRecent, Touch
    <3>2. QED
      BY <1>0, <2>4, <3>1, TouchKeepsStamps DEF EnsureMiss, RecencyInv
  <2>5. QED
    BY <1>1, <2>1, <2>2, <2>3, <2>4 DEF Ensure
<1>2. ASSUME NEW v \in Tiles, EvictDram(v) PROVE RecencyInv'
  <2>1. v \in dram /\ \A u \in dram \ {v} : lastUsed[v] < lastUsed[u]
    BY <1>0, <1>2
    DEF EvictDram, DramPressure, Oldest, BufferInv, RecencyInv
  <2>2. RecencyOrder'
    BY <1>0, <1>2, <2>1
    DEF EvictDram, RecencyInv, RecencyOrder, KeepsRecent, TierInv
  <2>3. QED
    BY <1>0, <1>2, <2>2 DEF EvictDram, RecencyInv
<1>3. ASSUME NEW v \in Tiles, EvictHbm(v) PROVE RecencyInv'
  <2>1. v \in hbm /\ \A u \in hbm \ {v} : lastUsed[v] < lastUsed[u]
    BY <1>0, <1>3 DEF EvictHbm, HbmPressure, Oldest, BufferInv, RecencyInv
  <2>2. RecencyOrder'
    BY <1>0, <1>3, <2>1 DEF EvictHbm, RecencyInv, RecencyOrder, KeepsRecent
  <2>3. QED
    BY <1>0, <1>3, <2>2 DEF EvictHbm, RecencyInv
<1>4. CASE \E v \in Tiles : FreeFails(v)
  BY <1>0, <1>4
  DEF FreeFails, EvictDramFreeFails, EvictDramHbmFreeFails, EvictHbmFreeFails,
      RecencyInv, RecencyOrder
<1>5. CASE AllocateDram \/ AllocateHbm
  BY <1>0, <1>5
  DEF AllocateDram, AllocateHbm, RecencyInv, RecencyOrder, KeepsRecent
<1>6. CASE ReadTile
  <2>1. RecencyOrder'
    BY <1>0, <1>6 DEF ReadTile, RecencyInv, RecencyOrder, KeepsRecent
  <2>2. QED
    BY <1>0, <1>6, <2>1 DEF ReadTile, RecencyInv
<1>7. CASE Copy
  <2>1. RecencyOrder'
    BY <1>0, <1>7
    DEF Copy, Copied, DropDramCopy, BufferInv, RecencyInv, RecencyOrder,
        KeepsRecent
  <2>2. QED
    BY <1>0, <1>7, <2>1 DEF Copy, Copied, DropDramCopy, RecencyInv
<1>8. CASE Fail
  BY <1>0, <1>8
  DEF Fail, NoDramVictim, NoHbmVictim, AllocateDramFails, ReadTileFails,
      AllocateHbmFails, CopyFails, DropDramFreeFails, Copied, RecencyInv,
      RecencyOrder, KeepsRecent
<1>9. CASE UNCHANGED vars
  BY <1>9 DEF vars, RecencyInv, RecencyOrder, KeepsRecent
<1>10. QED
  BY <1>1, <1>2, <1>3, <1>4, <1>5, <1>6, <1>7, <1>8, <1>9
  DEF Next, CallStep, Evict, Load

\* LRU over both tiers, evictions of DRAM included: what has left a tier is
\* older than all that is still in it.
THEOREM RecencyOrderHolds == Spec => []RecencyOrder
<1>1. Init => BufferInv /\ TierInv /\ RecencyInv
  BY DEF Init, BufferInv, ResidentBuffersLive, OwnBuffers, TierInv,
         RecencyInv, RecencyOrder, KeepsRecent
<1>2. RecencyInv => RecencyOrder
  BY DEF RecencyInv
<1>3. QED
  BY <1>1, <1>2, TypeCorrect, BufferInvStep, TierInvStep, RecencyInvStep, PTL
  DEF Spec

-----------------------------------------------------------------------------
(* The byte counters and the budgets *)

\* What an allocation table holds, one buffer more and one buffer less.
LEMMA LiveBytesLess ==
  ASSUME NEW allocs \in SUBSET Allocation, IsFiniteSet(allocs), NEW x \in allocs
  PROVE  /\ LiveBytes(allocs) \in Nat /\ LiveBytes(allocs \ {x}) \in Nat
         /\ LiveBytes(allocs) = x.bytes + LiveBytes(allocs \ {x})
<1> DEFINE bytes == [a \in allocs |-> a.bytes]
<1>1. bytes \in [allocs -> Nat] /\ bytes[x] = x.bytes
  BY DEF Allocation
<1>2. [a \in allocs \ {x} |-> bytes[a]] = [a \in allocs \ {x} |-> a.bytes]
  OBVIOUS
<1> HIDE DEF bytes
<1>3. /\ SumFunction(bytes) \in Nat
      /\ SumFunction([a \in allocs \ {x} |-> bytes[a]]) \in Nat
      /\ SumFunction(bytes)
           = bytes[x] + SumFunction([a \in allocs \ {x} |-> bytes[a]])
  BY <1>1, SumTakesAny
<1>4. QED
  BY <1>1, <1>2, <1>3 DEF LiveBytes, bytes

LEMMA LiveBytesOfNone == LiveBytes({}) = 0
BY SumOfNothing DEF LiveBytes

LEMMA LiveBytesType ==
  ASSUME NEW allocs \in SUBSET Allocation, IsFiniteSet(allocs)
  PROVE  LiveBytes(allocs) \in Nat
<1>1. CASE allocs = {}
  <2>1. LiveBytes(allocs) = 0
    BY <1>1, LiveBytesOfNone, Zenon
  <2>2. QED
    BY <2>1
<1>2. CASE allocs # {}
  BY <1>2, LiveBytesLess
<1>3. QED
  BY <1>1, <1>2

LEMMA LiveBytesMore ==
  ASSUME NEW allocs \in SUBSET Allocation, IsFiniteSet(allocs),
         NEW x \in Allocation, x \notin allocs
  PROVE  /\ IsFiniteSet(allocs \union {x})
         /\ LiveBytes(allocs \union {x}) = LiveBytes(allocs) + x.bytes
<1>1. IsFiniteSet(allocs \union {x}) /\ allocs \union {x} \in SUBSET Allocation
  BY FS_AddElement
<1>2. (allocs \union {x}) \ {x} = allocs
  OBVIOUS
<1>3. x.bytes \in Nat
  BY DEF Allocation
<1>4. QED
  BY <1>1, <1>2, <1>3, LiveBytesLess

\* Pointers are the keys of an allocation table.
UniquePointers(allocs) == \A x, y \in allocs : x.ptr = y.ptr => x = y

\* release(ptr) subtracts from the counter what it takes out of the table.
LEMMA ReleaseBalances ==
  ASSUME NEW allocs \in SUBSET Allocation, IsFiniteSet(allocs),
         UniquePointers(allocs), NEW p \in Nat
  PROVE  /\ IsFiniteSet(Without(allocs, p))
         /\ UniquePointers(Without(allocs, p))
         /\ LiveBytes(Without(allocs, p))
              = LiveBytes(allocs) - BytesAt(allocs, p)
<1>1. IsFiniteSet(Without(allocs, p)) /\ UniquePointers(Without(allocs, p))
  BY FS_Subset DEF Without, UniquePointers
<1>2. CASE \E a \in allocs : a.ptr = p
  <2>1. PICK x \in allocs : x.ptr = p /\ BytesAt(allocs, p) = x.bytes
    BY <1>2 DEF BytesAt
  <2>2. Without(allocs, p) = allocs \ {x}
    BY <2>1 DEF Without, UniquePointers
  <2>3. x.bytes \in Nat
    BY DEF Allocation
  <2>4. QED
    BY <1>1, <2>1, <2>2, <2>3, LiveBytesLess
<1>3. CASE ~ \E a \in allocs : a.ptr = p
  <2>1. BytesAt(allocs, p) = 0 /\ Without(allocs, p) = allocs
    BY <1>3 DEF BytesAt, Without
  <2>2. QED
    BY <1>1, <2>1, LiveBytesType
<1>4. QED
  BY <1>2, <1>3

\* The counter of a pool is exact and within the budget.
Exact(held, allocs, budget) == held = LiveBytes(allocs) /\ held <= budget

\* As long as no free has failed.
NoFreeFailed == ~FreeMayFail \/ faults = 0

\* The strengthening of PoolsWithinBudget: pointers are unique because each is
\* the number of the call that allocated it, and newer than any other when it
\* is allocated; so a held and its table move by the same bytes.
LedgerInv ==
  /\ IsFiniteSet(dramAllocs) /\ UniquePointers(dramAllocs)
  /\ IsFiniteSet(hbmAllocs) /\ UniquePointers(hbmAllocs)
  /\ \A x \in dramAllocs : x.ptr <= clock /\ (pc = "dram" => x.ptr < clock)
  /\ \A x \in hbmAllocs :
       x.ptr <= clock /\ (pc \in {"dram", "read", "hbm"} => x.ptr < clock)
  /\ NoFreeFailed =>
       /\ Exact(dramUsed, dramAllocs, DramBudget)
       /\ Exact(hbmUsed, hbmAllocs, HbmBudget)

\* Taking one buffer out of an exact pool.
LEMMA ReleaseStaysExact ==
  ASSUME NEW allocs \in SUBSET Allocation, IsFiniteSet(allocs),
         UniquePointers(allocs), NEW p \in Nat,
         NEW held, NEW budget \in Nat, Exact(held, allocs, budget)
  PROVE  Exact(held - BytesAt(allocs, p), Without(allocs, p), budget)
BY ReleaseBalances, BytesAtType, WithoutType, LiveBytesType DEF Exact

\* Adding one to a pool that has room for it.
LEMMA AllocateStaysExact ==
  ASSUME NEW allocs \in SUBSET Allocation, IsFiniteSet(allocs),
         UniquePointers(allocs), NEW n \in Nat, NEW size \in Nat,
         \A x \in allocs : x.ptr < n,
         NEW more, more = allocs \union {[ptr |-> n, bytes |-> size]},
         NEW held \in Int, NEW budget \in Nat, ~OverBudget(held, size, budget)
  PROVE  /\ IsFiniteSet(more) /\ UniquePointers(more)
         /\ \A x \in more : x.ptr <= n
         /\ Exact(held, allocs, budget) => Exact(held + size, more, budget)
<1> DEFINE x == [ptr |-> n, bytes |-> size]
<1>1. x \in Allocation /\ x \notin allocs /\ x.bytes = size
  BY DEF Allocation
<1>2. more = allocs \union {x}
  OBVIOUS
<1> HIDE DEF x
<1>3. IsFiniteSet(more) /\ LiveBytes(more) = LiveBytes(allocs) + size
  BY <1>1, <1>2, LiveBytesMore
<1>4. UniquePointers(more) /\ \A y \in more : y.ptr <= n
  BY DEF UniquePointers, Allocation
<1>5. Exact(held, allocs, budget) => Exact(held + size, more, budget)
  BY <1>3, LiveBytesType DEF Exact, OverBudget
<1>6. QED
  BY <1>3, <1>4, <1>5

LEMMA LedgerInvStep == TypeOK /\ LedgerInv /\ [Next]_vars => LedgerInv'
<1> SUFFICES ASSUME TypeOK, LedgerInv, [Next]_vars
             PROVE  LedgerInv'
  OBVIOUS
<1> USE DEF LedgerInv, Throw, Fault, entryVars, dramPool, hbmPool, NoFreeFailed
<1>0. /\ dramAllocs \in SUBSET Allocation /\ hbmAllocs \in SUBSET Allocation
      /\ dramPtr \in [Tiles -> Nat] /\ hbmPtr \in [Tiles -> Nat]
      /\ dramUsed \in Int /\ hbmUsed \in Int
      /\ clock \in Nat /\ faults \in Nat /\ setup' = setup
      /\ pc \in {"dram", "read", "hbm", "copy"} =>
           cur \in Tiles /\ Size[cur] \in Nat
      /\ DramBudget \in Int /\ HbmBudget \in Int
  BY DEF TypeOK, Next, Ensure, CallStep, vars
<1>a. ASSUME NEW x \in dramAllocs PROVE x.ptr \in Nat
  BY <1>0 DEF Allocation
<1>b. ASSUME NEW x \in hbmAllocs PROVE x.ptr \in Nat
  BY <1>0 DEF Allocation
<1>1. ASSUME NEW t \in Tiles, Ensure(t) PROVE LedgerInv'
  BY <1>0, <1>1, <1>a, <1>b
  DEF Ensure, EnsureRejected, EnsureHit, EnsureDramHit, EnsureMiss, Touch
<1>c. ASSUME NEW v \in Tiles, ReleaseDram(v)
      PROVE  /\ IsFiniteSet(dramAllocs') /\ UniquePointers(dramAllocs')
             /\ dramAllocs' \subseteq dramAllocs
             /\ NoFreeFailed => Exact(dramUsed', dramAllocs', DramBudget)
  BY <1>0, <1>c, ReleaseBalances, ReleaseStaysExact DEF ReleaseDram, Without
<1>d. ASSUME NEW v \in Tiles, ReleaseHbm(v)
      PROVE  /\ IsFiniteSet(hbmAllocs') /\ UniquePointers(hbmAllocs')
             /\ hbmAllocs' \subseteq hbmAllocs
             /\ NoFreeFailed => Exact(hbmUsed', hbmAllocs', HbmBudget)
  BY <1>0, <1>d, ReleaseBalances, ReleaseStaysExact DEF ReleaseHbm, Without
<1>2. ASSUME NEW v \in Tiles, EvictDram(v) PROVE LedgerInv'
  BY <1>0, <1>2, <1>c, <1>d DEF EvictDram
<1>3. ASSUME NEW v \in Tiles, EvictHbm(v) PROVE LedgerInv'
  BY <1>0, <1>3, <1>d DEF EvictHbm
<1>4. ASSUME NEW v \in Tiles, FreeFails(v) PROVE LedgerInv'
  BY <1>0, <1>4, <1>c
  DEF FreeFails, EvictDramFreeFails, EvictDramHbmFreeFails, EvictHbmFreeFails
<1>5. CASE AllocateDram
  <2>1. /\ dramAllocs \in SUBSET Allocation /\ IsFiniteSet(dramAllocs)
        /\ UniquePointers(dramAllocs) /\ \A x \in dramAllocs : x.ptr < clock
        /\ dramUsed \in Int /\ clock \in Nat
        /\ ~OverBudget(dramUsed, Size[cur], DramBudget) /\ Size[cur] \in Nat
        /\ dramUsed' = dramUsed + Size[cur]
        /\ dramAllocs'
             = dramAllocs \union {[ptr |-> clock, bytes |-> Size[cur]]}
    BY <1>0, <1>5 DEF AllocateDram, DramPressure
  <2>2. /\ IsFiniteSet(dramAllocs') /\ UniquePointers(dramAllocs')
        /\ \A x \in dramAllocs' : x.ptr <= clock
        /\ Exact(dramUsed, dramAllocs, DramBudget)
             => Exact(dramUsed', dramAllocs', DramBudget)
    <3> HIDE DEF LedgerInv
    <3> QED
      BY <2>1, AllocateStaysExact
  <2>3. QED
    BY <1>0, <1>5, <2>2 DEF AllocateDram
<1>6. CASE AllocateHbm
  <2>1. /\ hbmAllocs \in SUBSET Allocation /\ IsFiniteSet(hbmAllocs)
        /\ UniquePointers(hbmAllocs) /\ \A x \in hbmAllocs : x.ptr < clock
        /\ hbmUsed \in Int /\ clock \in Nat
        /\ ~OverBudget(hbmUsed, Size[cur], HbmBudget) /\ Size[cur] \in Nat
        /\ hbmUsed' = hbmUsed + Size[cur]
        /\ hbmAllocs'
             = hbmAllocs \union {[ptr |-> clock, bytes |-> Size[cur]]}
    BY <1>0, <1>6 DEF AllocateHbm, HbmPressure
  <2>2. /\ IsFiniteSet(hbmAllocs') /\ UniquePointers(hbmAllocs')
        /\ \A x \in hbmAllocs' : x.ptr <= clock
        /\ Exact(hbmUsed, hbmAllocs, HbmBudget)
             => Exact(hbmUsed', hbmAllocs', HbmBudget)
    <3> HIDE DEF LedgerInv
    <3> QED
      BY <2>1, AllocateStaysExact
  <2>3. QED
    BY <1>0, <1>6, <2>2 DEF AllocateHbm
<1>7. CASE ReadTile
  BY <1>0, <1>7 DEF ReadTile
<1>8. CASE Copy
  BY <1>0, <1>8, <1>c DEF Copy, Copied, DropDramCopy
<1>9. CASE Fail
  BY <1>0, <1>9
  DEF Fail, NoDramVictim, NoHbmVictim, AllocateDramFails, ReadTileFails,
      AllocateHbmFails, CopyFails, DropDramFreeFails, Copied
<1>10. CASE UNCHANGED vars
  BY <1>10 DEF vars
<1>11. QED
  BY <1>1, <1>2, <1>3, <1>4, <1>5, <1>6, <1>7, <1>8, <1>9, <1>10
  DEF Next, CallStep, Evict, Load

LEMMA LedgerInvInit == Init => LedgerInv
BY LiveBytesOfNone, FS_EmptySet
DEF Init, LedgerInv, UniquePointers, Exact

\* Neither pool ever holds more bytes than its budget, whatever reads, copies
\* and allocations failed before.
THEOREM PoolsStayWithinBudget == Spec => []PoolsWithinBudget
<1>1. LedgerInv => PoolsWithinBudget
  BY DEF LedgerInv, PoolsWithinBudget, NoFreeFailed, Exact
<1>2. QED
  BY <1>1, LedgerInvInit, TypeCorrect, LedgerInvStep, PTL DEF Spec

-----------------------------------------------------------------------------
(* Lost buffers *)

\* The buffers of each pool that no entry can reach any more.
LostDram == Lost(dram, dramPtr, dramAllocs, "read")
LostHbm == Lost(hbm, hbmPtr, hbmAllocs, "copy")

\* A released buffer had an owner: what is lost stays the same.
LEMMA ReleaseLosesNothing ==
  ASSUME NEW tier \in SUBSET Tiles, NEW ptr \in [Tiles -> Nat], NEW allocs,
         NEW v \in tier
  PROVE  Unowned(tier \ {v}, [ptr EXCEPT ![v] = 0], Without(allocs, ptr[v]))
           = Unowned(tier, ptr, allocs)
BY DEF Unowned, Without

\* The buffer of the call in progress is not lost while the call may still use
\* it, and is lost when the call ends without it.
LEMMA InFlightIsNotLost ==
  ASSUME NEW tier \in SUBSET Tiles, NEW ptr \in [Tiles -> Nat],
         NEW allocs \in SUBSET Allocation, NEW t \in Tiles, t \notin tier,
         NEW n \in Nat, \A x \in allocs : x.ptr < n, NEW size
  PROVE  \A x : (/\ x \in Unowned(tier, [ptr EXCEPT ![t] = n],
                                  allocs \union {[ptr |-> n, bytes |-> size]})
                 /\ x.ptr # n) <=> x \in Unowned(tier, ptr, allocs)
BY DEF Unowned, Allocation

LEMMA DramStepLosesNothing ==
  ASSUME TypeOK
  PROVE  /\ \A v \in dram :
              ReleaseDram(v) /\ dram' = dram \ {v}
                /\ dramPtr' = [dramPtr EXCEPT ![v] = 0]
                => Unowned(dram, dramPtr, dramAllocs)'
                     = Unowned(dram, dramPtr, dramAllocs)
         /\ AllocateDram /\ cur \notin dram
              /\ (\A x \in dramAllocs : x.ptr < clock)
              => \A x : x \in Unowned(dram, dramPtr, dramAllocs)'
                            /\ x.ptr # clock
                         <=> x \in Unowned(dram, dramPtr, dramAllocs)
<1>0. /\ dram \in SUBSET Tiles /\ dramPtr \in [Tiles -> Nat]
      /\ dramAllocs \in SUBSET Allocation /\ clock \in Nat
  BY DEF TypeOK
<1>a. \A v \in dram :
        Unowned(dram \ {v}, [dramPtr EXCEPT ![v] = 0],
                Without(dramAllocs, dramPtr[v]))
          = Unowned(dram, dramPtr, dramAllocs)
  BY <1>0, ReleaseLosesNothing
<1>1. ASSUME NEW v \in dram, ReleaseDram(v), dram' = dram \ {v},
             dramPtr' = [dramPtr EXCEPT ![v] = 0]
      PROVE  Unowned(dram, dramPtr, dramAllocs)'
               = Unowned(dram, dramPtr, dramAllocs)
  BY <1>1, <1>a DEF ReleaseDram
<1>2. ASSUME AllocateDram, cur \notin dram, \A x \in dramAllocs : x.ptr < clock,
             NEW x
      PROVE  x \in Unowned(dram, dramPtr, dramAllocs)' /\ x.ptr # clock
               <=> x \in Unowned(dram, dramPtr, dramAllocs)
  <2>1. cur \in Tiles
    BY <1>2 DEF AllocateDram, TypeOK
  <2>2. (/\ x \in Unowned(
                dram, [dramPtr EXCEPT ![cur] = clock],
                dramAllocs \union {[ptr |-> clock, bytes |-> Size[cur]]})
         /\ x.ptr # clock) <=> x \in Unowned(dram, dramPtr, dramAllocs)
    BY <1>0, <1>2, <2>1, InFlightIsNotLost
  <2>3. QED
    BY <1>2, <2>2 DEF AllocateDram
<1>3. QED
  BY <1>1, <1>2

LEMMA HbmStepLosesNothing ==
  ASSUME TypeOK
  PROVE  /\ \A v \in hbm :
              ReleaseHbm(v) /\ hbm' = hbm \ {v}
                /\ hbmPtr' = [hbmPtr EXCEPT ![v] = 0]
                => Unowned(hbm, hbmPtr, hbmAllocs)'
                     = Unowned(hbm, hbmPtr, hbmAllocs)
         /\ AllocateHbm /\ cur \notin hbm
              /\ (\A x \in hbmAllocs : x.ptr < clock)
              => \A x : x \in Unowned(hbm, hbmPtr, hbmAllocs)'
                            /\ x.ptr # clock
                         <=> x \in Unowned(hbm, hbmPtr, hbmAllocs)
<1>0. /\ hbm \in SUBSET Tiles /\ hbmPtr \in [Tiles -> Nat]
      /\ hbmAllocs \in SUBSET Allocation /\ clock \in Nat
  BY DEF TypeOK
<1>a. \A v \in hbm :
        Unowned(hbm \ {v}, [hbmPtr EXCEPT ![v] = 0],
                Without(hbmAllocs, hbmPtr[v]))
          = Unowned(hbm, hbmPtr, hbmAllocs)
  BY <1>0, ReleaseLosesNothing
<1>1. ASSUME NEW v \in hbm, ReleaseHbm(v), hbm' = hbm \ {v},
             hbmPtr' = [hbmPtr EXCEPT ![v] = 0]
      PROVE  Unowned(hbm, hbmPtr, hbmAllocs)'
               = Unowned(hbm, hbmPtr, hbmAllocs)
  BY <1>1, <1>a DEF ReleaseHbm
<1>2. ASSUME AllocateHbm, cur \notin hbm, \A x \in hbmAllocs : x.ptr < clock,
             NEW x
      PROVE  x \in Unowned(hbm, hbmPtr, hbmAllocs)' /\ x.ptr # clock
               <=> x \in Unowned(hbm, hbmPtr, hbmAllocs)
  <2>1. cur \in Tiles
    BY <1>2 DEF AllocateHbm, TypeOK
  <2>2. (/\ x \in Unowned(
                hbm, [hbmPtr EXCEPT ![cur] = clock],
                hbmAllocs \union {[ptr |-> clock, bytes |-> Size[cur]]})
         /\ x.ptr # clock) <=> x \in Unowned(hbm, hbmPtr, hbmAllocs)
    BY <1>0, <1>2, <2>1, InFlightIsNotLost
  <2>3. QED
    BY <1>2, <2>2 DEF AllocateHbm
<1>3. QED
  BY <1>1, <1>2

LEMMA LostStays ==
  TypeOK /\ BufferInv /\ LedgerInv /\ [Next]_vars =>
    /\ ~ReadTileFails => LostDram' = LostDram
    /\ ~CopyFails => LostHbm' = LostHbm
<1> SUFFICES ASSUME TypeOK, BufferInv, LedgerInv, [Next]_vars
             PROVE  /\ ~ReadTileFails => LostDram' = LostDram
                    /\ ~CopyFails => LostHbm' = LostHbm
  OBVIOUS
<1> USE DEF LostDram, LostHbm, Lost, Throw, entryVars, dramPool, hbmPool
<1>0. /\ dram \in SUBSET Tiles /\ hbm \in SUBSET Tiles
      /\ dramPtr \in [Tiles -> Nat] /\ hbmPtr \in [Tiles -> Nat]
      /\ dramAllocs \in SUBSET Allocation /\ hbmAllocs \in SUBSET Allocation
      /\ clock \in Nat
      /\ pc \in {"dram", "read", "hbm", "copy"} => cur \in Tiles
      /\ pc \in {"dram", "read"} => cur \notin dram
      /\ pc \in {"dram", "read", "hbm", "copy"} => cur \notin hbm
  BY DEF TypeOK, BufferInv
<1>1. ASSUME NEW t \in Tiles, Ensure(t)
      PROVE  LostDram' = LostDram /\ LostHbm' = LostHbm
  BY <1>1
  DEF Ensure, EnsureRejected, EnsureHit, EnsureDramHit, EnsureMiss, Touch,
      Unowned
<1>2. ASSUME NEW v \in Tiles, EvictDram(v)
      PROVE  LostDram' = LostDram /\ LostHbm' = LostHbm
  <2>1. v \in dram /\ pc = "dram" /\ pc' = "dram"
    BY <1>2, OldestIn DEF EvictDram, DramPressure
  <2>2. Unowned(dram, dramPtr, dramAllocs)' = Unowned(dram, dramPtr, dramAllocs)
    BY <1>2, <2>1, DramStepLosesNothing DEF EvictDram
  <2>3. Unowned(hbm, hbmPtr, hbmAllocs)' = Unowned(hbm, hbmPtr, hbmAllocs)
    <3>1. CASE v \in hbm
      BY <1>2, <3>1, HbmStepLosesNothing DEF EvictDram
    <3>2. CASE v \notin hbm
      BY <1>2, <3>2 DEF EvictDram, Unowned
    <3>3. QED
      BY <3>1, <3>2
  <2>4. QED
    BY <2>1, <2>2, <2>3
<1>3. ASSUME NEW v \in Tiles, EvictHbm(v)
      PROVE  LostDram' = LostDram /\ LostHbm' = LostHbm
  <2>1. v \in hbm /\ pc = "hbm" /\ pc' = "hbm"
    BY <1>3, OldestIn DEF EvictHbm, HbmPressure
  <2>2. Unowned(hbm, hbmPtr, hbmAllocs)' = Unowned(hbm, hbmPtr, hbmAllocs)
    BY <1>3, <2>1, HbmStepLosesNothing DEF EvictHbm
  <2>3. QED
    BY <1>3, <2>1, <2>2 DEF EvictHbm, Unowned
<1>4. ASSUME NEW v \in Tiles, FreeFails(v)
      PROVE  LostDram' = LostDram /\ LostHbm' = LostHbm
  <2>1. CASE EvictDramFreeFails(v)
    BY <2>1 DEF EvictDramFreeFails, DramPressure, Unowned
  <2>2. CASE EvictDramHbmFreeFails(v)
    <3>1. v \in dram
      BY <2>2, OldestIn DEF EvictDramHbmFreeFails
    <3>2. Unowned(dram, dramPtr, dramAllocs)'
            = Unowned(dram, dramPtr, dramAllocs)
      BY <2>2, <3>1, DramStepLosesNothing DEF EvictDramHbmFreeFails
    <3>3. QED
      BY <2>2, <3>2 DEF EvictDramHbmFreeFails, DramPressure, Unowned
  <2>3. CASE EvictHbmFreeFails(v)
    BY <2>3 DEF EvictHbmFreeFails, HbmPressure, Unowned
  <2>4. QED
    BY <1>4, <2>1, <2>2, <2>3 DEF FreeFails
<1>5. CASE AllocateDram
  <2>1. /\ \A x \in dramAllocs : x.ptr < clock
        /\ pc = "dram" /\ pc' = "read" /\ clock' = clock
    BY <1>5 DEF AllocateDram, LedgerInv
  <2>2. \A x : x \in Unowned(dram, dramPtr, dramAllocs)' /\ x.ptr # clock
                <=> x \in Unowned(dram, dramPtr, dramAllocs)
    BY <1>0, <1>5, <2>1, DramStepLosesNothing
  <2>3. LostDram' = LostDram
    BY <2>1, <2>2
  <2>4. QED
    BY <1>5, <2>1, <2>3 DEF AllocateDram, Unowned
<1>6. CASE AllocateHbm
  <2>1. /\ \A x \in hbmAllocs : x.ptr < clock
        /\ pc = "hbm" /\ pc' = "copy" /\ clock' = clock
    BY <1>6 DEF AllocateHbm, LedgerInv
  <2>2. \A x : x \in Unowned(hbm, hbmPtr, hbmAllocs)' /\ x.ptr # clock
                <=> x \in Unowned(hbm, hbmPtr, hbmAllocs)
    BY <1>0, <1>6, <2>1, HbmStepLosesNothing
  <2>3. LostHbm' = LostHbm
    BY <2>1, <2>2
  <2>4. QED
    BY <1>6, <2>1, <2>3 DEF AllocateHbm, Unowned
<1>7. CASE ReadTile
  BY <1>0, <1>7 DEF ReadTile, BufferInv, Unowned
<1>8. ASSUME Copied, clock' = clock, pc' \in {"idle", "dead"},
             UNCHANGED <<hbmPtr, hbmAllocs>>
      PROVE  LostHbm' = LostHbm
  BY <1>0, <1>8 DEF Copied, BufferInv, Unowned
<1>9. CASE Copy
  <2>1. LostHbm' = LostHbm
    BY <1>8, <1>9 DEF Copy
  <2>2. Unowned(dram, dramPtr, dramAllocs)' = Unowned(dram, dramPtr, dramAllocs)
    <3>1. CASE DisableDramCache
      <4>1. cur \in dram
        BY <1>9 DEF Copy, Copied, BufferInv
      <4>2. QED
        BY <1>9, <3>1, <4>1, DramStepLosesNothing DEF Copy, DropDramCopy
    <3>2. CASE ~DisableDramCache
      BY <1>9, <3>2 DEF Copy, DropDramCopy, Unowned
    <3>3. QED
      BY <3>1, <3>2
  <2>3. QED
    BY <1>9, <2>1, <2>2 DEF Copy, Copied
<1>10. CASE DropDramFreeFails
  <2>1. LostHbm' = LostHbm
    BY <1>8, <1>10 DEF DropDramFreeFails
  <2>2. QED
    BY <1>10, <2>1 DEF DropDramFreeFails, Copied, Unowned
<1>11. CASE NoDramVictim \/ NoHbmVictim \/ AllocateDramFails
            \/ AllocateHbmFails \/ ReadTileFails \/ CopyFails
  BY <1>11
  DEF NoDramVictim, NoHbmVictim, AllocateDramFails, ReadTileFails,
      AllocateHbmFails, CopyFails, DramPressure, HbmPressure, Unowned
<1>12. CASE UNCHANGED vars
  BY <1>12 DEF vars, Unowned
<1>13. QED
  BY <1>1, <1>2, <1>3, <1>4, <1>5, <1>6, <1>7, <1>9, <1>10, <1>11, <1>12
  DEF Next, CallStep, Evict, Load, Fail

\* A read or a copy that throws loses the buffer it was to fill.
LEMMA ReadLoses ==
  ASSUME TypeOK, BufferInv, LedgerInv, ReadTileFails
  PROVE  LET x == [ptr |-> clock, bytes |-> Size[cur]]
         IN  LostDram' = LostDram \union {x} /\ x \notin LostDram
<1> DEFINE x == [ptr |-> clock, bytes |-> Size[cur]]
<1>1. /\ pc = "read" /\ pc' \in {"idle", "dead"}
      /\ UNCHANGED <<clock, dram, dramPtr, dramAllocs>>
  BY DEF ReadTileFails, Throw, entryVars, dramPool
<1>2. x \in dramAllocs /\ \A t \in dram : dramPtr[t] # x.ptr
  BY <1>1 DEF BufferInv, TypeOK
<1>3. \A y \in dramAllocs : y.ptr = clock <=> y = x
  BY <1>2 DEF LedgerInv, UniquePointers
<1>4. QED
  BY <1>1, <1>2, <1>3 DEF LostDram, Lost, Unowned

LEMMA CopyLoses ==
  ASSUME TypeOK, BufferInv, LedgerInv, CopyFails
  PROVE  LET x == [ptr |-> clock, bytes |-> Size[cur]]
         IN  LostHbm' = LostHbm \union {x} /\ x \notin LostHbm
<1> DEFINE x == [ptr |-> clock, bytes |-> Size[cur]]
<1>1. /\ pc = "copy" /\ pc' \in {"idle", "dead"}
      /\ UNCHANGED <<clock, hbm, hbmPtr, hbmAllocs>>
  BY DEF CopyFails, Throw, entryVars, hbmPool
<1>2. x \in hbmAllocs /\ \A t \in hbm : hbmPtr[t] # x.ptr
  BY <1>1 DEF BufferInv, TypeOK
<1>3. \A y \in hbmAllocs : y.ptr = clock <=> y = x
  BY <1>2 DEF LedgerInv, UniquePointers
<1>4. QED
  BY <1>1, <1>2, <1>3 DEF LostHbm, Lost, Unowned

\* The strengthening of LeaksBoundedByFaults, in the middle of a call too.
LeakInv == Cardinality(LostDram) + Cardinality(LostHbm) <= faults

LEMMA LostIsFinite ==
  ASSUME LedgerInv
  PROVE  /\ IsFiniteSet(LostDram) /\ IsFiniteSet(LostHbm)
         /\ Cardinality(LostDram) \in Nat /\ Cardinality(LostHbm) \in Nat
<1>1. LostDram \subseteq dramAllocs /\ LostHbm \subseteq hbmAllocs
  BY DEF LostDram, LostHbm, Lost, Unowned
<1>2. IsFiniteSet(dramAllocs) /\ IsFiniteSet(hbmAllocs)
  BY DEF LedgerInv
<1>3. IsFiniteSet(LostDram) /\ IsFiniteSet(LostHbm)
  BY ONLY <1>1, <1>2, FS_Subset
<1>4. QED
  BY ONLY <1>3, FS_CardinalityType

LEMMA LeakInvStep ==
  TypeOK /\ BufferInv /\ LedgerInv /\ LeakInv /\ [Next]_vars => LeakInv'
<1> SUFFICES ASSUME TypeOK, BufferInv, LedgerInv, LeakInv, [Next]_vars
             PROVE  LeakInv'
  OBVIOUS
<1>1. faults \in Nat /\ faults' \in Nat /\ faults' >= faults
  <2>1. faults \in Nat
    BY DEF TypeOK
  <2>2. ASSUME NEW t \in Tiles, Ensure(t) PROVE faults' = faults
    BY <2>2 DEF Ensure, EnsureRejected, EnsureHit, EnsureDramHit, EnsureMiss
  <2>3. Load => faults' = faults
    BY DEF Load, AllocateDram, ReadTile, AllocateHbm, Copy
  <2>4. ASSUME NEW v \in Tiles, Evict(v) PROVE faults' = faults
    BY <2>4 DEF Evict, EvictDram, EvictHbm
  <2>5. ASSUME NEW v \in Tiles, FreeFails(v) PROVE faults' = faults + 1
    BY <2>5 DEF FreeFails, EvictDramFreeFails, EvictDramHbmFreeFails,
                EvictHbmFreeFails, Fault
  <2>6. Fail => faults' = faults \/ faults' = faults + 1
    BY DEF Fail, NoDramVictim, NoHbmVictim, AllocateDramFails, ReadTileFails,
           AllocateHbmFails, CopyFails, DropDramFreeFails, Fault
  <2>7. faults' = faults \/ faults' = faults + 1
    BY <2>2, <2>3, <2>4, <2>5, <2>6 DEF Next, CallStep, vars
  <2> QED
    BY ONLY <2>1, <2>7
<1> USE LostStays, LostIsFinite DEF LeakInv
<1>2. CASE ReadTileFails
  <2>1. faults' = faults + 1 /\ ~CopyFails
    BY <1>2 DEF ReadTileFails, CopyFails, Fault
  <2>2. Cardinality(LostDram') = Cardinality(LostDram) + 1
    BY <1>2, ReadLoses, FS_AddElement
  <2>3. QED
    BY <1>1, <2>1, <2>2
<1>3. CASE CopyFails
  <2>1. faults' = faults + 1 /\ ~ReadTileFails
    BY <1>3 DEF ReadTileFails, CopyFails, Fault
  <2>2. Cardinality(LostHbm') = Cardinality(LostHbm) + 1
    BY <1>3, CopyLoses, FS_AddElement
  <2>3. QED
    BY <1>1, <2>1, <2>2
<1>4. CASE ~ReadTileFails /\ ~CopyFails
  BY <1>1, <1>4
<1>5. QED
  BY <1>2, <1>3, <1>4

LEMMA LeakInvInit == Init => BufferInv /\ LeakInv
BY FS_EmptySet
DEF Init, BufferInv, ResidentBuffersLive, OwnBuffers, LeakInv, LostDram,
    LostHbm, Lost, Unowned

\* No failure loses more than one buffer and nothing else loses any.
THEOREM LeaksStayBounded == Spec => []LeaksBoundedByFaults
<1>1. LeakInv => LeaksBoundedByFaults
  BY DEF LeakInv, LeaksBoundedByFaults, LostDram, LostHbm, Lost
<1>2. QED
  BY <1>1, LedgerInvInit, LeakInvInit, TypeCorrect, BufferInvStep,
     LedgerInvStep, LeakInvStep, PTL
  DEF Spec

-----------------------------------------------------------------------------
(* Every accepted tile finds room *)

\* The strengthening of NeverStarvedWithoutFault: only a tile that fits both
\* budgets is ever served.
StarvedInv ==
  /\ pc \in {"dram", "read", "hbm", "copy"} =>
       Size[cur] <= DramBudget /\ Size[cur] <= HbmBudget
  /\ NeverStarvedWithoutFault

\* A pool without tiles and without losses is empty.
LEMMA NothingLeftNothingUsed ==
  ASSUME LedgerInv, LeakInv, faults = 0
  PROVE  /\ pc = "dram" /\ dram = {} => dramUsed = 0
         /\ pc = "hbm" /\ hbm = {} => hbmUsed = 0
<1>1. LostDram = {} /\ LostHbm = {}
  <2>1. Cardinality(LostDram) = 0 /\ Cardinality(LostHbm) = 0
    BY LostIsFinite DEF LeakInv
  <2>2. QED
    BY <2>1, LostIsFinite, FS_EmptySet
<1>2. dramUsed = LiveBytes(dramAllocs) /\ hbmUsed = LiveBytes(hbmAllocs)
  BY DEF LedgerInv, NoFreeFailed, Exact
<1>3. pc = "dram" /\ dram = {} => dramAllocs = {}
  BY <1>1 DEF LostDram, Lost, Unowned
<1>4. pc = "hbm" /\ hbm = {} => hbmAllocs = {}
  BY <1>1 DEF LostHbm, Lost, Unowned
<1>5. QED
  BY <1>2, <1>3, <1>4, LiveBytesOfNone

LEMMA StarvedInvStep ==
  TypeOK /\ BufferInv /\ LedgerInv /\ LeakInv /\ StarvedInv /\ [Next]_vars
    => StarvedInv'
<1> SUFFICES ASSUME TypeOK, BufferInv, LedgerInv, LeakInv, StarvedInv,
                    [Next]_vars
             PROVE  StarvedInv'
  OBVIOUS
<1> USE DEF StarvedInv, NeverStarvedWithoutFault, Throw, Fault
<1>0. /\ faults \in Nat
      /\ pc \in {"dram", "read", "hbm", "copy"} => Size[cur] \in Nat
  BY DEF TypeOK
<1>1. CASE \E t \in Tiles : Ensure(t)
  BY <1>1
  DEF Ensure, EnsureRejected, EnsureHit, EnsureDramHit, EnsureMiss, Touch
<1>2. CASE \E v \in Tiles : Evict(v)
  BY <1>2 DEF Evict, EvictDram, EvictHbm
<1>3. CASE \E v \in Tiles : FreeFails(v)
  BY <1>0, <1>3
  DEF FreeFails, EvictDramFreeFails, EvictDramHbmFreeFails, EvictHbmFreeFails
<1>4. CASE Load
  BY <1>4 DEF Load, AllocateDram, ReadTile, AllocateHbm, Copy, Copied
<1>5. CASE NoDramVictim
  <2>1. pc = "dram" /\ OverBudget(dramUsed, Size[cur], DramBudget) /\ dram = {}
    BY <1>5 DEF NoDramVictim, DramPressure, BufferInv
  <2>2. faults # 0
    BY <1>0, <2>1, NothingLeftNothingUsed DEF OverBudget
  <2>3. QED
    BY <1>0, <1>5, <2>2 DEF NoDramVictim
<1>6. CASE NoHbmVictim
  <2>1. pc = "hbm" /\ OverBudget(hbmUsed, Size[cur], HbmBudget) /\ hbm = {}
    BY <1>6 DEF NoHbmVictim, HbmPressure, BufferInv
  <2>2. faults # 0
    BY <1>0, <2>1, NothingLeftNothingUsed DEF OverBudget
  <2>3. QED
    BY <1>0, <1>6, <2>2 DEF NoHbmVictim
<1>7. CASE AllocateDramFails \/ ReadTileFails \/ AllocateHbmFails \/ CopyFails
           \/ DropDramFreeFails
  BY <1>0, <1>7
  DEF AllocateDramFails, ReadTileFails, AllocateHbmFails, CopyFails,
      DropDramFreeFails
<1>8. CASE UNCHANGED vars
  BY <1>8 DEF vars
<1>9. QED
  BY <1>1, <1>2, <1>3, <1>4, <1>5, <1>6, <1>7, <1>8 DEF Next, CallStep, Fail

\* "No eviction victim available" cannot come first: the guard on the budgets
\* leaves every tile room until another failure has lost a buffer.
THEOREM NeverStarvedFirst == Spec => []NeverStarvedWithoutFault
<1>1. Init => StarvedInv
  BY DEF Init, StarvedInv, NeverStarvedWithoutFault
<1>2. StarvedInv => NeverStarvedWithoutFault
  BY DEF StarvedInv
<1>3. QED
  BY <1>1, <1>2, LedgerInvInit, LeakInvInit, TypeCorrect, BufferInvStep,
     LedgerInvStep, LeakInvStep, StarvedInvStep, PTL
  DEF Spec

-----------------------------------------------------------------------------
(* The abstract cache *)

\* The library's sum is the same operator in the instance.
LEMMA SumInCache ==
  ASSUME NEW f
  PROVE  Cache!SumFunction(f) = SumFunction(f)
BY Zenon
DEF SumFunction, SumFunctionOnSet, FoldFunctionOnSet, MapThenFoldSet,
    Cache!SumFunction, Cache!SumFunctionOnSet, Cache!FoldFunctionOnSet,
    Cache!MapThenFoldSet

\* What a tier of the abstract cache holds, one tile more and one tile less.
LEMMA BytesLess ==
  ASSUME NEW tier \in SUBSET Tiles, IsFiniteSet(tier), NEW t \in tier
  PROVE  /\ Cache!Bytes(tier) \in Nat /\ Cache!Bytes(tier \ {t}) \in Nat
         /\ Cache!Bytes(tier) = Size[t] + Cache!Bytes(tier \ {t})
<1> DEFINE size == [u \in tier |-> Size[u]]
<1>1. size \in [tier -> Nat] /\ size[t] = Size[t]
  OBVIOUS
<1>2. [u \in tier \ {t} |-> size[u]] = [u \in tier \ {t} |-> Size[u]]
  OBVIOUS
<1> HIDE DEF size
<1>3. /\ SumFunction(size) \in Nat
      /\ SumFunction([u \in tier \ {t} |-> size[u]]) \in Nat
      /\ SumFunction(size)
           = size[t] + SumFunction([u \in tier \ {t} |-> size[u]])
  BY <1>1, SumTakesAny
<1>4. /\ Cache!Bytes(tier) = SumFunction(size)
      /\ Cache!Bytes(tier \ {t}) = SumFunction([u \in tier \ {t} |-> size[u]])
  BY <1>2, SumInCache DEF Cache!Bytes, size
<1>5. QED
  BY <1>1, <1>3, <1>4

LEMMA BytesOfNone == Cache!Bytes({}) = 0
<1> DEFINE none == [t \in {} |-> Size[t]]
<1>1. Cache!Bytes({}) = SumFunction(none)
  BY SumInCache DEF Cache!Bytes
<1>2. DOMAIN none = {}
  OBVIOUS
<1> HIDE DEF none
<1>3. QED
  BY <1>1, <1>2, SumOfNothing

LEMMA BytesType ==
  ASSUME NEW tier \in SUBSET Tiles, IsFiniteSet(tier)
  PROVE  Cache!Bytes(tier) \in Nat
<1>1. CASE tier = {}
  <2>1. Cache!Bytes(tier) = 0
    BY <1>1, BytesOfNone, Zenon
  <2>2. QED
    BY <2>1
<1>2. CASE tier # {}
  BY <1>2, BytesLess
<1>3. QED
  BY <1>1, <1>2

LEMMA BytesMore ==
  ASSUME NEW tier \in SUBSET Tiles, IsFiniteSet(tier),
         NEW t \in Tiles, t \notin tier
  PROVE  /\ IsFiniteSet(tier \union {t})
         /\ Cache!Bytes(tier \union {t}) = Cache!Bytes(tier) + Size[t]
<1>1. IsFiniteSet(tier \union {t}) /\ tier \union {t} \in SUBSET Tiles
  BY FS_AddElement
<1>2. (tier \union {t}) \ {t} = tier
  OBVIOUS
<1>3. QED
  BY <1>1, <1>2, BytesLess

\* The bytes of the buffer the call in progress has just allocated.
InFlight(stage) == IF pc = stage THEN Size[cur] ELSE 0

\* Every byte of a pool is a resident tile's, lost, or in flight.
BalanceInv ==
  /\ IsFiniteSet(dram) /\ IsFiniteSet(hbm)
  /\ ~FreeMayFail =>
       /\ dramUsed = Cache!Bytes(dram) + LiveBytes(LostDram) + InFlight("read")
       /\ hbmUsed = Cache!Bytes(hbm) + LiveBytes(LostHbm) + InFlight("copy")

\* A resident's release gives back exactly its size.
LEMMA ReleaseGivesBackSize ==
  ASSUME NEW tier, NEW ptr, NEW allocs, UniquePointers(allocs),
         OwnBuffers(tier, ptr, allocs), NEW v \in tier
  PROVE  BytesAt(allocs, ptr[v]) = Size[v]
<1> DEFINE x == [ptr |-> ptr[v], bytes |-> Size[v]]
<1>1. x \in allocs /\ x.ptr = ptr[v] /\ x.bytes = Size[v]
  BY DEF OwnBuffers
<1> HIDE DEF x
<1>2. \A y \in allocs : y.ptr = ptr[v] => y = x
  BY <1>1 DEF UniquePointers
<1>3. QED
  BY <1>1, <1>2 DEF BytesAt

LEMMA LostBytesType ==
  ASSUME TypeOK, LedgerInv
  PROVE  /\ LostDram \in SUBSET Allocation /\ LiveBytes(LostDram) \in Nat
         /\ LostHbm \in SUBSET Allocation /\ LiveBytes(LostHbm) \in Nat
<1>1. LostDram \in SUBSET Allocation /\ LostHbm \in SUBSET Allocation
  BY DEF TypeOK, LostDram, LostHbm, Lost, Unowned
<1>2. QED
  BY <1>1, LostIsFinite, LiveBytesType

\* A failed read or copy loses the bytes of the tile.
LEMMA LostBytesGrow ==
  ASSUME TypeOK, BufferInv, LedgerInv
  PROVE  /\ ReadTileFails =>
              LiveBytes(LostDram') = LiveBytes(LostDram) + Size[cur]
         /\ CopyFails =>
              LiveBytes(LostHbm') = LiveBytes(LostHbm) + Size[cur]
<1> DEFINE x == [ptr |-> clock, bytes |-> Size[cur]]
<1>1. ReadTileFails \/ CopyFails => x \in Allocation /\ x.bytes = Size[cur]
  BY DEF Allocation, TypeOK, ReadTileFails, CopyFails
<1>2. ReadTileFails => LostDram' = LostDram \union {x} /\ x \notin LostDram
  BY ReadLoses
<1>3. CopyFails => LostHbm' = LostHbm \union {x} /\ x \notin LostHbm
  BY CopyLoses
<1> HIDE DEF x
<1>4. QED
  BY <1>1, <1>2, <1>3, LostBytesType, LostIsFinite, LiveBytesMore

LEMMA BalanceInvStep ==
  TypeOK /\ BufferInv /\ LedgerInv /\ BalanceInv /\ [Next]_vars => BalanceInv'
<1> SUFFICES ASSUME TypeOK, BufferInv, LedgerInv, BalanceInv, [Next]_vars
             PROVE  BalanceInv'
  OBVIOUS
<1>0. /\ dram \in SUBSET Tiles /\ hbm \in SUBSET Tiles
      /\ IsFiniteSet(dram) /\ IsFiniteSet(hbm)
      /\ UniquePointers(dramAllocs) /\ UniquePointers(hbmAllocs)
      /\ OwnBuffers(dram, dramPtr, dramAllocs)
      /\ OwnBuffers(hbm, hbmPtr, hbmAllocs)
      /\ setup' = setup
      /\ pc \in {"dram", "read", "hbm", "copy"} =>
           cur \in Tiles /\ Size[cur] \in Nat
      /\ pc \in {"dram", "read"} => cur \notin dram
      /\ pc \in {"dram", "read", "hbm", "copy"} => cur \notin hbm
  BY DEF TypeOK, BufferInv, ResidentBuffersLive, LedgerInv, BalanceInv, Next,
         Ensure, CallStep, vars
<1>1. /\ Cache!Bytes(dram) \in Nat /\ LiveBytes(LostDram) \in Nat
      /\ Cache!Bytes(hbm) \in Nat /\ LiveBytes(LostHbm) \in Nat
  BY <1>0, BytesType, LostBytesType
<1>a. /\ ~ReadTileFails => LostDram' = LostDram
      /\ ~CopyFails => LostHbm' = LostHbm
  BY LostStays
<1>b. ASSUME NEW v \in dram, ReleaseDram(v), dram' = dram \ {v}
      PROVE  /\ IsFiniteSet(dram')
             /\ dramUsed' = dramUsed - Size[v]
             /\ Cache!Bytes(dram') \in Nat
             /\ Cache!Bytes(dram) = Size[v] + Cache!Bytes(dram')
             /\ Size[v] \in Nat
  BY <1>0, <1>b, ReleaseGivesBackSize, BytesLess, FS_RemoveElement
  DEF ReleaseDram
<1>c. ASSUME NEW v \in hbm, ReleaseHbm(v), hbm' = hbm \ {v}
      PROVE  /\ IsFiniteSet(hbm')
             /\ hbmUsed' = hbmUsed - Size[v]
             /\ Cache!Bytes(hbm') \in Nat
             /\ Cache!Bytes(hbm) = Size[v] + Cache!Bytes(hbm')
             /\ Size[v] \in Nat
  BY <1>0, <1>c, ReleaseGivesBackSize, BytesLess, FS_RemoveElement
  DEF ReleaseHbm
<1> USE DEF BalanceInv, InFlight, Throw, entryVars, dramPool, hbmPool
<1>2. CASE \E t \in Tiles : Ensure(t)
  <2>1. ~ReadTileFails /\ ~CopyFails
    BY <1>2
    DEF Ensure, EnsureRejected, EnsureHit, EnsureDramHit, EnsureMiss, Touch,
        ReadTileFails, CopyFails
  <2>2. QED
    BY <1>0, <1>2, <1>a, <2>1
    DEF Ensure, EnsureRejected, EnsureHit, EnsureDramHit, EnsureMiss, Touch
<1>3. ASSUME NEW v \in Tiles, EvictDram(v) PROVE BalanceInv'
  <2>1. /\ ~ReadTileFails /\ ~CopyFails
        /\ v \in dram /\ pc = "dram" /\ pc' = "dram"
    BY <1>3, OldestIn DEF EvictDram, DramPressure, ReadTileFails, CopyFails
  <2>2. /\ IsFiniteSet(dram')
        /\ ~FreeMayFail =>
             dramUsed' = Cache!Bytes(dram') + LiveBytes(LostDram') + 0
    <3>1. /\ dramUsed' = dramUsed - Size[v] /\ IsFiniteSet(dram')
          /\ Cache!Bytes(dram') \in Nat /\ Size[v] \in Nat
          /\ Cache!Bytes(dram) = Size[v] + Cache!Bytes(dram')
      BY <1>3, <1>b, <2>1 DEF EvictDram
    <3>2. ~FreeMayFail => dramUsed = Cache!Bytes(dram) + LiveBytes(LostDram) + 0
      BY <2>1
    <3>3. QED
      BY <1>1, <1>a, <2>1, <3>1, <3>2
  <2>3. /\ IsFiniteSet(hbm')
        /\ ~FreeMayFail =>
             hbmUsed' = Cache!Bytes(hbm') + LiveBytes(LostHbm') + 0
    <3>1. CASE v \in hbm
      BY <1>0, <1>1, <1>3, <1>a, <1>c, <2>1, <3>1 DEF EvictDram
    <3>2. CASE v \notin hbm
      BY <1>0, <1>1, <1>3, <1>a, <2>1, <3>2 DEF EvictDram
    <3>3. QED
      BY <3>1, <3>2
  <2>4. QED
    BY <1>0, <1>1, <2>1, <2>2, <2>3
<1>4. ASSUME NEW v \in Tiles, EvictHbm(v) PROVE BalanceInv'
  <2>1. ~ReadTileFails /\ ~CopyFails /\ v \in hbm /\ pc = "hbm" /\ pc' = "hbm"
    BY <1>4, OldestIn DEF EvictHbm, HbmPressure, ReadTileFails, CopyFails
  <2>2. QED
    BY <1>0, <1>1, <1>4, <1>a, <1>c, <2>1 DEF EvictHbm
<1>5. ASSUME NEW v \in Tiles, FreeFails(v) PROVE BalanceInv'
  <2>1. FreeMayFail /\ (dram' = dram \/ dram' = dram \ {v}) /\ hbm' = hbm
    BY <1>5
    DEF FreeFails, EvictDramFreeFails, EvictDramHbmFreeFails, EvictHbmFreeFails
  <2>2. QED
    BY <1>0, <2>1, FS_RemoveElement
<1>6. CASE AllocateDram
  <2>1. ~ReadTileFails /\ ~CopyFails
    BY <1>6 DEF AllocateDram, ReadTileFails, CopyFails
  <2>2. QED
    BY <1>0, <1>1, <1>6, <1>a, <2>1 DEF AllocateDram
<1>7. CASE ReadTile
  <2>1. ~ReadTileFails /\ ~CopyFails /\ pc = "read" /\ pc' = "hbm"
    BY <1>7 DEF ReadTile, ReadTileFails, CopyFails
  <2>2. /\ IsFiniteSet(dram')
        /\ Cache!Bytes(dram') = Cache!Bytes(dram) + Size[cur]
    BY <1>0, <1>7, <2>1, BytesMore DEF ReadTile
  <2>3. QED
    BY <1>0, <1>1, <1>7, <1>a, <2>1, <2>2 DEF ReadTile
<1>8. CASE AllocateHbm
  <2>1. ~ReadTileFails /\ ~CopyFails
    BY <1>8 DEF AllocateHbm, ReadTileFails, CopyFails
  <2>2. QED
    BY <1>0, <1>1, <1>8, <1>a, <2>1 DEF AllocateHbm
<1>9. CASE Copy
  <2>1. /\ ~ReadTileFails /\ ~CopyFails /\ pc = "copy" /\ pc' = "idle"
        /\ hbm' = hbm \union {cur} /\ hbmUsed' = hbmUsed /\ cur \in dram
    BY <1>9 DEF Copy, Copied, ReadTileFails, CopyFails, BufferInv
  <2>2. /\ IsFiniteSet(hbm')
        /\ Cache!Bytes(hbm') = Cache!Bytes(hbm) + Size[cur]
    BY <1>0, <2>1, BytesMore
  <2>3. /\ IsFiniteSet(dram')
        /\ ~FreeMayFail =>
             dramUsed' = Cache!Bytes(dram') + LiveBytes(LostDram') + 0
    <3>1. CASE DisableDramCache
      BY <1>0, <1>1, <1>9, <1>a, <1>b, <2>1, <3>1 DEF Copy, DropDramCopy
    <3>2. CASE ~DisableDramCache
      BY <1>0, <1>1, <1>9, <1>a, <2>1, <3>2 DEF Copy, DropDramCopy
    <3>3. QED
      BY <3>1, <3>2
  <2>4. QED
    BY <1>0, <1>1, <1>a, <2>1, <2>2, <2>3
<1>10. CASE ReadTileFails
  <2>1. ~CopyFails /\ pc = "read" /\ pc' \in {"idle", "dead"}
    BY <1>10 DEF ReadTileFails, CopyFails
  <2>2. LiveBytes(LostDram') = LiveBytes(LostDram) + Size[cur]
    BY <1>10, LostBytesGrow
  <2>3. QED
    BY <1>0, <1>1, <1>10, <1>a, <2>1, <2>2 DEF ReadTileFails
<1>11. CASE CopyFails
  <2>1. ~ReadTileFails /\ pc = "copy" /\ pc' \in {"idle", "dead"}
    BY <1>11 DEF ReadTileFails, CopyFails
  <2>2. LiveBytes(LostHbm') = LiveBytes(LostHbm) + Size[cur]
    BY <1>11, LostBytesGrow
  <2>3. QED
    BY <1>0, <1>1, <1>11, <1>a, <2>1, <2>2 DEF CopyFails
<1>12. CASE NoDramVictim \/ NoHbmVictim \/ AllocateDramFails \/ AllocateHbmFails
  <2>1. ~ReadTileFails /\ ~CopyFails
    BY <1>12
    DEF NoDramVictim, NoHbmVictim, AllocateDramFails, AllocateHbmFails,
        DramPressure, HbmPressure, ReadTileFails, CopyFails
  <2>2. QED
    BY <1>0, <1>12, <1>a, <2>1
    DEF NoDramVictim, NoHbmVictim, AllocateDramFails, AllocateHbmFails,
        DramPressure, HbmPressure
<1>13. CASE DropDramFreeFails
  <2>1. /\ FreeMayFail /\ dram' = dram /\ hbm' = hbm \union {cur}
    BY <1>13 DEF DropDramFreeFails, Copied
  <2>2. QED
    BY <1>0, <2>1, FS_AddElement
<1>14. CASE UNCHANGED vars
  <2>1. LostDram' = LostDram /\ LostHbm' = LostHbm
    BY <1>14 DEF vars, LostDram, LostHbm, Lost, Unowned
  <2>2. QED
    BY <1>14, <2>1 DEF vars
<1>15. QED
  BY <1>2, <1>3, <1>4, <1>5, <1>6, <1>7, <1>8, <1>9, <1>10, <1>11, <1>12,
     <1>13, <1>14
  DEF Next, CallStep, Evict, Load, Fail

\* The stamps order the tiles as the calls did.
AskedInv == asked = {p \in Tiles \X Tiles : lastUsed[p[1]] < lastUsed[p[2]]}

LEMMA AskedInvStep ==
  TypeOK /\ RecencyInv /\ AskedInv /\ [RefinementNext]_<<vars, asked>>
    => AskedInv'
<1> SUFFICES ASSUME TypeOK, RecencyInv, AskedInv,
                    [RefinementNext]_<<vars, asked>>
             PROVE  AskedInv'
  OBVIOUS
<1>0. lastUsed \in [Tiles -> Nat] /\ clock \in Nat
  BY DEF TypeOK
<1>1. ASSUME NEW t \in Tiles, Ensure(t),
             asked' = IF clock' = clock THEN asked ELSE Asked(t)
      PROVE  AskedInv'
  <2>1. CASE EnsureRejected(t)
    BY <1>1, <2>1 DEF EnsureRejected, entryVars, AskedInv
  <2>2. CASE Touch(t)
    <3>1. asked' = Asked(t)
      BY <1>0, <1>1, <2>2 DEF Touch
    <3>2. lastUsed' = [lastUsed EXCEPT ![t] = clock + 1]
      BY <2>2 DEF Touch
    <3>3. \A u \in Tiles : lastUsed[u] \in Nat /\ lastUsed[u] < clock + 1
      BY <1>0 DEF RecencyInv
    <3>4. \A u, w \in Tiles :
            <<u, w>> \in Asked(t) <=> lastUsed'[u] < lastUsed'[w]
      BY <1>0, <3>2, <3>3 DEF Asked, AskedInv
    <3>5. Asked(t) \subseteq Tiles \X Tiles
      BY DEF Asked, AskedInv
    <3>6. QED
      BY <3>1, <3>4, <3>5 DEF AskedInv
  <2>3. QED
    BY <1>1, <2>1, <2>2 DEF Ensure, EnsureHit, EnsureDramHit, EnsureMiss
<1>2. CASE CallStep /\ UNCHANGED asked
  <2>1. lastUsed' = lastUsed
    BY <1>2
    DEF CallStep, Evict, EvictDram, EvictHbm, FreeFails, EvictDramFreeFails,
        EvictDramHbmFreeFails, EvictHbmFreeFails, Load, AllocateDram, ReadTile,
        AllocateHbm, Copy, Fail, NoDramVictim, NoHbmVictim, AllocateDramFails,
        ReadTileFails, AllocateHbmFails, CopyFails, DropDramFreeFails, entryVars
  <2>2. QED
    BY <1>2, <2>1 DEF AskedInv
<1>3. CASE UNCHANGED <<vars, asked>>
  BY <1>3 DEF vars, entryVars, AskedInv
<1>4. QED
  BY <1>1, <1>2, <1>3 DEF RefinementNext

\* The victim of an eviction loop is the tile requested least recently.
LEMMA OldestIsLeastRecent ==
  ASSUME TypeOK, RecencyInv, AskedInv,
         NEW tier \in SUBSET (dram \union hbm), cur \notin tier,
         NEW v \in Oldest(tier)
  PROVE  Cache!LeastRecent(tier) = v
<1>0. /\ lastUsed \in [Tiles -> Nat] /\ tier \in SUBSET Tiles
      /\ v \in tier
  BY DEF TypeOK, Oldest
<1>1. \A u \in tier \ {v} : lastUsed[v] < lastUsed[u]
  BY <1>0 DEF Oldest, RecencyInv
<1>2. \A t, u \in tier : <<t, u>> \in asked <=> lastUsed[t] < lastUsed[u]
  BY <1>0 DEF AskedInv
<1>3. \A t \in tier \ {v} : <<v, t>> \in asked
  BY <1>0, <1>1, <1>2
<1>4. ASSUME NEW u \in tier, \A t \in tier \ {u} : <<u, t>> \in asked
      PROVE  u = v
  <2>1. u # v => lastUsed[u] < lastUsed[v] /\ lastUsed[v] < lastUsed[u]
    BY <1>0, <1>1, <1>2, <1>4
  <2>2. lastUsed[u] \in Nat /\ lastUsed[v] \in Nat
    BY <1>0, <1>4
  <2>3. QED
    BY <2>1, <2>2
<1>5. QED
  BY <1>0, <1>3, <1>4 DEF Cache!LeastRecent

\* What the invariants say of the abstract cache's conditions.
LEMMA FitsIsNoPressure ==
  ASSUME TypeOK, LedgerInv, BalanceInv, ~FreeMayFail
  PROVE  /\ pc = "dram" => (DramPressure <=> ~Cache!WarmFits)
         /\ pc = "read" => Cache!WarmFits
         /\ pc = "hbm" => (HbmPressure <=> ~Cache!HotFits)
         /\ pc = "copy" => Cache!HotFits
<1>0. /\ dram \in SUBSET Tiles /\ hbm \in SUBSET Tiles
      /\ IsFiniteSet(dram) /\ IsFiniteSet(hbm)
      /\ pc \in {"dram", "read", "hbm", "copy"} => Size[cur] \in Nat
  BY DEF TypeOK, BalanceInv
<1>1. /\ Cache!Bytes(dram) \in Nat /\ LiveBytes(LostDram) \in Nat
      /\ Cache!Bytes(hbm) \in Nat /\ LiveBytes(LostHbm) \in Nat
  BY <1>0, BytesType, LostBytesType
<1>2. dramUsed <= DramBudget /\ hbmUsed <= HbmBudget
  BY DEF LedgerInv, NoFreeFailed, Exact
<1>3. /\ dramUsed = Cache!Bytes(dram) + LiveBytes(LostDram) + InFlight("read")
      /\ hbmUsed = Cache!Bytes(hbm) + LiveBytes(LostHbm) + InFlight("copy")
  BY DEF BalanceInv
<1>4. /\ Cache!WarmFits
           <=> Cache!Bytes(dram) + LiveBytes(LostDram) + Size[cur] <= DramBudget
      /\ Cache!HotFits
           <=> Cache!Bytes(hbm) + LiveBytes(LostHbm) + Size[cur] <= HbmBudget
  BY DEF Cache!WarmFits, Cache!HotFits, LostDram, LostHbm
<1>5. QED
  BY <1>0, <1>1, <1>2, <1>3, <1>4
  DEF DramPressure, HbmPressure, OverBudget, InFlight

RefinementInv ==
  /\ TypeOK /\ BufferInv /\ TierInv /\ RecencyInv /\ LedgerInv /\ BalanceInv
  /\ AskedInv

LEMMA RefinementInvHolds == RefinementSpec => []RefinementInv
<1>1. RefinementInit => RefinementInv
  <2> SUFFICES ASSUME RefinementInit PROVE RefinementInv
    OBVIOUS
  <2>1. TypeOK
    BY DEF RefinementInit, Init, TypeOK, Phases, MetricNames
  <2>2. TierInv /\ RecencyInv
    BY DEF RefinementInit, Init, TierInv, RecencyInv, RecencyOrder, KeepsRecent
  <2>3. BalanceInv
    BY BytesOfNone, LiveBytesOfNone, FS_EmptySet
    DEF RefinementInit, Init, BalanceInv, InFlight, LostDram, LostHbm, Lost,
        Unowned
  <2>4. AskedInv
    BY DEF RefinementInit, Init, AskedInv
  <2>5. QED
    BY <2>1, <2>2, <2>3, <2>4, LedgerInvInit, LeakInvInit
    DEF RefinementInit, RefinementInv
<1>2. RefinementInv /\ [RefinementNext]_<<vars, asked>> => RefinementInv'
  <2>1. [RefinementNext]_<<vars, asked>> => [Next]_vars
    BY DEF RefinementNext, Next
  <2>2. QED
    BY <2>1, TypeInvStep, BufferInvStep, TierInvStep, RecencyInvStep,
       LedgerInvStep, BalanceInvStep, AskedInvStep
    DEF RefinementInv
<1>3. QED
  BY <1>1, <1>2, PTL DEF RefinementSpec

\* One step of the implementation against the abstract cache.
LEMMA StepImplements ==
  RefinementInv /\ ~FreeMayFail /\ [RefinementNext]_<<vars, asked>>
    => [Cache!Next]_(Cache!vars)
<1> SUFFICES ASSUME RefinementInv, ~FreeMayFail,
                    [RefinementNext]_<<vars, asked>>
             PROVE  [Cache!Next]_(Cache!vars)
  OBVIOUS
<1> USE DEF Throw, entryVars, dramPool, hbmPool
<1>0. /\ TypeOK /\ BufferInv /\ RecencyInv /\ LedgerInv /\ BalanceInv
      /\ AskedInv
      /\ setup' = setup /\ [Next]_vars
  BY DEF RefinementInv, RefinementNext, Ensure, CallStep, vars, Next
<1>a. /\ ~ReadTileFails => LiveBytes(LostDram') = LiveBytes(LostDram)
      /\ ~CopyFails => LiveBytes(LostHbm') = LiveBytes(LostHbm)
  BY <1>0, LostStays
<1>b. /\ pc \in {"dram", "read", "hbm", "copy"} => cur # NoTile /\ cur \in Tiles
      /\ pc \in {"idle", "dead"} => cur = NoTile
      /\ pc \in {"dram", "read"} => cur \notin dram
      /\ pc \in {"hbm", "copy"} => cur \in dram
      /\ pc \in {"dram", "read", "hbm", "copy"} => cur \notin hbm
  BY <1>0 DEF TypeOK, BufferInv
<1>1. ASSUME NEW t \in Tiles, Ensure(t),
             asked' = IF clock' = clock THEN asked ELSE Asked(t)
      PROVE  [Cache!Next]_(Cache!vars)
  <2>1. ~ReadTileFails /\ ~CopyFails
    BY <1>1
    DEF Ensure, EnsureRejected, EnsureHit, EnsureDramHit, EnsureMiss, Touch,
        ReadTileFails, CopyFails
  <2>2. CASE EnsureRejected(t)
    <3>1. UNCHANGED <<setup, dram, hbm, asked, cur>>
      BY <1>0, <1>1, <2>2 DEF EnsureRejected
    <3>2. QED
      BY <1>a, <2>1, <3>1 DEF Cache!vars, LostDram, LostHbm
  <2>3. CASE Touch(t)
    <3>1. Cache!MostRecent(t) /\ cur = NoTile
      BY <1>0, <1>1, <1>b, <2>3 DEF Cache!MostRecent, Asked, Touch, TypeOK
    <3>2. CASE EnsureHit(t)
      <4>1. Cache!Hit(t)
        BY <1>a, <2>1, <3>1, <3>2 DEF EnsureHit, Cache!Hit, LostDram, LostHbm
      <4>2. QED
        BY <1>0, <4>1 DEF Cache!Next
    <3>3. CASE EnsureDramHit(t) \/ EnsureMiss(t)
      <4>1. Cache!Request(t)
        BY <1>a, <2>1, <2>3, <3>1, <3>3
        DEF EnsureDramHit, EnsureMiss, Touch, Cache!Request, LostDram, LostHbm
      <4>2. QED
        BY <1>0, <4>1 DEF Cache!Next
    <3>4. QED
      BY <1>1, <2>3, <3>2, <3>3, <2>2 DEF Ensure
  <2>4. QED
    BY <1>1, <2>2, <2>3 DEF Ensure, EnsureHit, EnsureDramHit, EnsureMiss
<1>2. ASSUME NEW v \in Tiles, EvictDram(v), UNCHANGED asked
      PROVE  Cache!DropWarm
  <2>1. /\ ~ReadTileFails /\ ~CopyFails /\ pc = "dram"
        /\ v \in dram /\ v \in Oldest(dram) /\ DramPressure
    BY <1>2, OldestIn DEF EvictDram, DramPressure, ReadTileFails, CopyFails
  <2>2. Cache!LeastRecent(dram) = v /\ ~Cache!WarmFits
    BY <1>0, <1>b, <2>1, OldestIsLeastRecent, FitsIsNoPressure
  <2>3. /\ dram' = dram \ {v} /\ hbm' = hbm \ {v}
        /\ UNCHANGED <<asked, cur>>
    BY <1>2 DEF EvictDram
  <2>4. QED
    BY <1>a, <1>b, <2>1, <2>2, <2>3 DEF Cache!DropWarm, LostDram, LostHbm
<1>3. ASSUME NEW v \in Tiles, EvictHbm(v), UNCHANGED asked
      PROVE  Cache!DropHot
  <2>1. /\ ~ReadTileFails /\ ~CopyFails /\ pc = "hbm"
        /\ v \in hbm /\ v \in Oldest(hbm) /\ HbmPressure
    BY <1>3, OldestIn DEF EvictHbm, HbmPressure, ReadTileFails, CopyFails
  <2>2. Cache!LeastRecent(hbm) = v /\ ~Cache!HotFits
    BY <1>0, <1>b, <2>1, OldestIsLeastRecent, FitsIsNoPressure
  <2>3. /\ hbm' = hbm \ {v} /\ UNCHANGED <<dram, asked, cur>>
    BY <1>3 DEF EvictHbm
  <2>4. QED
    BY <1>a, <1>b, <2>1, <2>2, <2>3 DEF Cache!DropHot, LostDram, LostHbm
<1>4. ASSUME AllocateDram \/ AllocateHbm, UNCHANGED asked
      PROVE  UNCHANGED Cache!vars
  <2>1. /\ ~ReadTileFails /\ ~CopyFails
        /\ UNCHANGED <<setup, dram, hbm, asked, cur>>
    BY <1>0, <1>4 DEF AllocateDram, AllocateHbm, ReadTileFails, CopyFails
  <2>2. QED
    BY <1>a, <2>1 DEF Cache!vars, LostDram, LostHbm
<1>5. ASSUME ReadTile, UNCHANGED asked
      PROVE  Cache!FillWarm
  <2>1. ~ReadTileFails /\ ~CopyFails /\ pc = "read"
    BY <1>5 DEF ReadTile, ReadTileFails, CopyFails
  <2>2. Cache!WarmFits
    BY <1>0, <2>1, FitsIsNoPressure
  <2>3. QED
    BY <1>5, <1>a, <1>b, <2>1, <2>2
    DEF ReadTile, Cache!FillWarm, LostDram, LostHbm
<1>6. ASSUME Copy, UNCHANGED asked
      PROVE  Cache!FillHot
  <2>1. ~ReadTileFails /\ ~CopyFails /\ pc = "copy"
    BY <1>6 DEF Copy, Copied, ReadTileFails, CopyFails
  <2>2. Cache!HotFits
    BY <1>0, <2>1, FitsIsNoPressure
  <2>3. /\ hbm' = hbm \union {cur} /\ cur' = NoTile
        /\ dram' = IF DisableDramCache THEN dram \ {cur} ELSE dram
    BY <1>6 DEF Copy, Copied, DropDramCopy
  <2>4. QED
    BY <1>6, <1>a, <1>b, <2>1, <2>2, <2>3 DEF Cache!FillHot, LostDram, LostHbm
<1>7. ASSUME Fail, UNCHANGED asked
      PROVE  Cache!GiveUp
  <2>0. /\ pc \in {"dram", "read", "hbm", "copy"} /\ cur' = NoTile
        /\ UNCHANGED <<dram, hbm, asked>>
    BY <1>7
    DEF Fail, NoDramVictim, NoHbmVictim, AllocateDramFails, ReadTileFails,
        AllocateHbmFails, CopyFails, DropDramFreeFails, DramPressure,
        HbmPressure
  <2>1. CASE ReadTileFails
    <3>1. pc = "read" /\ ~CopyFails
      BY <2>1 DEF ReadTileFails, CopyFails
    <3>2. LiveBytes(LostDram') = LiveBytes(LostDram) + Size[cur]
      BY <1>0, <2>1, LostBytesGrow
    <3>3. QED
      BY <1>0, <1>a, <1>b, <2>0, <3>1, <3>2, FitsIsNoPressure
      DEF Cache!GiveUp, LostDram, LostHbm
  <2>2. CASE CopyFails
    <3>1. pc = "copy" /\ ~ReadTileFails
      BY <2>2 DEF ReadTileFails, CopyFails
    <3>2. LiveBytes(LostHbm') = LiveBytes(LostHbm) + Size[cur]
      BY <1>0, <2>2, LostBytesGrow
    <3>3. QED
      BY <1>0, <1>a, <1>b, <2>0, <3>1, <3>2, FitsIsNoPressure
      DEF Cache!GiveUp, LostDram, LostHbm
  <2>3. CASE ~ReadTileFails /\ ~CopyFails
    BY <1>a, <1>b, <2>0, <2>3 DEF Cache!GiveUp, LostDram, LostHbm
  <2>4. QED
    BY <2>1, <2>2, <2>3
<1>8. CASE UNCHANGED <<vars, asked>>
  BY <1>8 DEF vars, Cache!vars, Lost, Unowned
<1>9. ASSUME CallStep, UNCHANGED asked
      PROVE  [Cache!Next]_(Cache!vars)
  <2>1. ~ \E v \in Tiles : FreeFails(v)
    BY DEF FreeFails, EvictDramFreeFails, EvictDramHbmFreeFails,
           EvictHbmFreeFails
  <2>2. QED
    BY <1>0, <1>2, <1>3, <1>4, <1>5, <1>6, <1>7, <1>9, <2>1
    DEF CallStep, Evict, Load, Cache!Next, Cache!Serve
<1>10. QED
  BY <1>1, <1>8, <1>9 DEF RefinementNext

\* The safety half of ImplementsTileCache: every step of the memory manager is
\* a step of the abstract cache or changes nothing it can see.  ensure_hbm
\* hits, requests, evicts, fills and gives up as TileCache says, for all tiles,
\* sizes and budgets and any number of failures.
THEOREM TileCacheImplemented ==
  ASSUME \A s \in Setups : ~s.freeMayFail
  PROVE  RefinementSpec => Cache!Init /\ [][Cache!Next]_(Cache!vars)
<1>1. RefinementInit => Cache!Init
  <2> SUFFICES ASSUME RefinementInit PROVE Cache!Init
    OBVIOUS
  <2>1. /\ Lost(dram, dramPtr, dramAllocs, "read") = {}
        /\ Lost(hbm, hbmPtr, hbmAllocs, "copy") = {}
    BY DEF RefinementInit, Init, Lost, Unowned
  <2>2. QED
    BY <2>1, LiveBytesOfNone DEF RefinementInit, Init, Cache!Init
<1>2. RefinementInv => ~FreeMayFail
  BY DEF RefinementInv, TypeOK
<1>3. QED
  BY <1>1, <1>2, RefinementInvHolds, StepImplements, PTL DEF RefinementSpec

-----------------------------------------------------------------------------
(* The planner: what its lists contain.                                    *)

\* How many elements of K come up to k: its place in the order of K.
Place(K, k) == Cardinality({j \in K : j <= k})

LEMMA PlaceType ==
  ASSUME NEW K \in SUBSET Nat, IsFiniteSet(K), NEW k \in K
  PROVE  Place(K, k) \in 1 .. Cardinality(K) /\ Cardinality(K) \in Nat
<1> DEFINE U == {j \in K : j <= k}
<1>1. U \in SUBSET K /\ k \in U
  OBVIOUS
<1> HIDE DEF U
<1>2. IsFiniteSet(U) /\ Cardinality(U) <= Cardinality(K)
  BY <1>1, FS_Subset
<1>3. Cardinality(U) \in Nat /\ Cardinality(K) \in Nat /\ Cardinality(U) # 0
  BY <1>1, <1>2, FS_CardinalityType, FS_EmptySet
<1>4. QED
  BY <1>2, <1>3 DEF U, Place

\* No two elements have one place,
LEMMA PlacesApart ==
  ASSUME NEW K \in SUBSET Nat, IsFiniteSet(K), NEW j \in K, NEW k \in K,
         Place(K, j) = Place(K, k)
  PROVE  j = k
<1> SUFFICES ASSUME NEW a \in K, NEW b \in K, a < b, Place(K, a) = Place(K, b)
             PROVE  FALSE
  <2>1. j \in Nat /\ k \in Nat
    OBVIOUS
  <2>2. QED
    BY <2>1
<1> DEFINE A == {i \in K : i <= a}
           B == {i \in K : i <= b}
<1>0. a \in Nat /\ b \in Nat
  OBVIOUS
<1>1. A \in SUBSET B /\ B \in SUBSET K
  <2>1. \A i \in K : i <= a => i <= b
    BY <1>0
  <2>2. QED
    BY <2>1
<1>2. b \in B /\ b \notin A
  BY <1>0
<1>3. Cardinality(A) = Cardinality(B)
  BY DEF Place
<1> HIDE DEF A, B
<1>4. IsFiniteSet(B)
  BY <1>1, FS_Subset
<1>5. A = B
  BY <1>1, <1>3, <1>4, FS_Subset
<1>6. QED
  BY <1>2, <1>5

\* and every place is taken: an injection of K into as many numbers.
LEMMA EveryPlaceTaken ==
  ASSUME NEW K \in SUBSET Nat, IsFiniteSet(K), NEW n \in 1 .. Cardinality(K)
  PROVE  \E k \in K : Place(K, k) = n
<1> DEFINE D == 1 .. Cardinality(K)
           f == [k \in K |-> Place(K, k)]
<1>1. Cardinality(K) \in Nat
  BY FS_CardinalityType
<1>2. IsFiniteSet(D) /\ Cardinality(D) = Cardinality(K)
  BY <1>1, FS_Interval
<1>3. f \in Injection(K, D)
  BY PlaceType, PlacesApart DEF Injection, IsInjective
<1> HIDE DEF D
<1>4. f \in Surjection(K, D)
  <2> HIDE DEF f
  <2>1. QED
    BY <1>2, <1>3, FS_Injection
<1>5. QED
  BY <1>4 DEF Surjection, D

\* The element of K at place n.
Nth(K, n) == CHOOSE k \in K : Place(K, k) = n

\* The elements of s at K.
Elements(s, K) == {s[k] : k \in K}

\* What At picks: the elements of s at K, each place of K once.
LEMMA AtPicks ==
  ASSUME NEW s, NEW K \in SUBSET Nat, IsFiniteSet(K), NEW T, T = Elements(s, K)
  PROVE  /\ At(s, K) \in Seq(T) /\ ToSet(At(s, K)) = T
         /\ \A n \in DOMAIN At(s, K) : Nth(K, n) \in K /\ At(s, K)[n] = s[Nth(K, n)]
         /\ \A m, n \in DOMAIN At(s, K) : Nth(K, m) = Nth(K, n) => m = n
<1> DEFINE N == Cardinality(K)
<1>0. T = {s[k] : k \in K}
  BY DEF Elements
<1>1. N \in Nat
  BY FS_CardinalityType
<1>2. At(s, K) = [n \in 1 .. N |-> s[Nth(K, n)]]
  BY DEF At, Nth, Place
<1>3. \A n \in 1 .. N : Nth(K, n) \in K /\ Place(K, Nth(K, n)) = n
  BY EveryPlaceTaken DEF Nth
<1>4. ASSUME NEW k \in K
      PROVE  Place(K, k) \in 1 .. N /\ Nth(K, Place(K, k)) = k
  <2>1. Place(K, k) \in 1 .. N
    BY PlaceType
  <2> DEFINE j == Nth(K, Place(K, k))
  <2>2. j \in K /\ Place(K, j) = Place(K, k)
    BY <1>3, <2>1
  <2> HIDE DEF j
  <2>3. j = k
    BY ONLY <2>2, PlacesApart, k \in K, K \in SUBSET Nat, IsFiniteSet(K)
  <2>4. QED
    BY <2>1, <2>3 DEF j
<1> HIDE DEF N
<1>5. At(s, K) \in [1 .. N -> T]
  <2>1. ASSUME NEW n \in 1 .. N PROVE s[Nth(K, n)] \in T
    BY ONLY <1>0, <1>3, n \in 1 .. N
  <2>2. QED
    BY ONLY <1>2, <2>1
<1>6. ToSet(At(s, K)) = T
  <2>1. DOMAIN At(s, K) = 1 .. N /\ \A n \in 1 .. N : At(s, K)[n] = s[Nth(K, n)]
    BY <1>2
  <2>2. ASSUME NEW k \in K PROVE s[k] \in ToSet(At(s, K))
    <3>1. Place(K, k) \in DOMAIN At(s, K) /\ At(s, K)[Place(K, k)] = s[k]
      BY ONLY <1>4, <2>1, k \in K
    <3>2. QED
      BY ONLY <3>1 DEF ToSet
  <2>3. QED
    BY ONLY <1>0, <1>3, <2>1, <2>2 DEF ToSet
<1>7. DOMAIN At(s, K) = 1 .. N /\ \A n \in 1 .. N : At(s, K)[n] = s[Nth(K, n)]
  BY ONLY <1>2
<1>8. At(s, K) \in Seq(T)
  BY ONLY <1>1, <1>5
<1>9. QED
  BY ONLY <1>3, <1>6, <1>7, <1>8

-----------------------------------------------------------------------------
\* Event i of trace tr requires t.
Requires(tr, i, t) ==
  LayerOf[t] = tr[i].layer /\ ExpertOf[t] \in tr[i].experts

LEMMA FirstNumbers ==
  ASSUME NEW n \in Nat
  PROVE  IsFiniteSet(1 .. n) /\ Cardinality(1 .. n) = n
BY FS_Interval

\* The list of an event has all the tiles it requires, each once.
LEMMA RequiredIs ==
  ASSUME NEW tr, NEW i
  PROVE  /\ RequiredForEvent(tr, i) \in Seq(Tiles)
         /\ ToSet(RequiredForEvent(tr, i)) = {t \in Tiles : Requires(tr, i, t)}
<1> DEFINE K == {k \in DOMAIN TileOrder : /\ LayerOf[TileOrder[k]] = tr[i].layer
                                          /\ ExpertOf[TileOrder[k]] \in tr[i].experts}
           S == {TileOrder[k] : k \in K}
<1>1. /\ DOMAIN TileOrder = 1 .. Len(TileOrder) /\ Len(TileOrder) \in Nat
      /\ \A k \in DOMAIN TileOrder : TileOrder[k] \in Tiles
      /\ \A t \in Tiles : \E k \in DOMAIN TileOrder : TileOrder[k] = t
  BY ManifestAssumption DEF ToSet
<1>2. K \in SUBSET Nat /\ IsFiniteSet(K)
  <2>1. K \in SUBSET (1 .. Len(TileOrder)) /\ K \in SUBSET Nat
    BY <1>1
  <2> HIDE DEF K
  <2>2. QED
    BY <1>1, <2>1, FirstNumbers, FS_Subset
<1>3. RequiredForEvent(tr, i) = At(TileOrder, K)
  BY DEF RequiredForEvent
<1>4. S = {t \in Tiles : Requires(tr, i, t)}
  BY <1>1 DEF Requires
<1> HIDE DEF K
<1>5. At(TileOrder, K) \in Seq(S) /\ ToSet(At(TileOrder, K)) = S
  <2>1. S = Elements(TileOrder, K)
    BY DEF Elements
  <2> HIDE DEF S
  <2>2. QED
    BY ONLY <1>2, <2>1, AtPicks
<1>6. S \in SUBSET Tiles
  BY <1>4
<1> HIDE DEF S
<1>7. At(TileOrder, K) \in Seq(Tiles)
  BY <1>5, <1>6
<1>8. QED
  BY <1>3, <1>4, <1>5, <1>7

\* The indices of a sequence that meet a condition.
LEMMA SomeIndices ==
  ASSUME NEW S, NEW s \in Seq(S), NEW K \in SUBSET DOMAIN s
  PROVE  K \in SUBSET Nat /\ IsFiniteSet(K)
<1>1. DOMAIN s = 1 .. Len(s) /\ Len(s) \in Nat
  OBVIOUS
<1>2. QED
  BY <1>1, FirstNumbers, FS_Subset

\* The elements of a list without their repeats.
LEMMA DistinctIs ==
  ASSUME NEW S, NEW ids \in Seq(S)
  PROVE  /\ Distinct(ids) \in Seq(S) /\ ToSet(Distinct(ids)) = ToSet(ids)
         /\ IsInjective(Distinct(ids))
<1> DEFINE K == {k \in DOMAIN ids : \A j \in 1 .. k - 1 : ids[j] # ids[k]}
           T == {ids[k] : k \in K}
<1>1. DOMAIN ids = 1 .. Len(ids) /\ Len(ids) \in Nat /\ \A k \in DOMAIN ids : ids[k] \in S
  OBVIOUS
<1>2. K \in SUBSET Nat /\ IsFiniteSet(K) /\ K \in SUBSET DOMAIN ids
  <2>1. K \in SUBSET DOMAIN ids
    OBVIOUS
  <2> HIDE DEF K
  <2>2. QED
    BY <2>1, SomeIndices
<1>3. \A j, k \in K : ids[j] = ids[k] => j = k
  <2> SUFFICES ASSUME NEW j \in K, NEW k \in K, ids[j] = ids[k], j < k
               PROVE  FALSE
    BY <1>2
  <2>1. j \in 1 .. k - 1
    BY <1>1, <1>2
  <2>2. QED
    BY <2>1
<1>4. \A k \in DOMAIN ids : \E j \in K : ids[j] = ids[k]
  <2> SUFFICES ASSUME NEW k \in DOMAIN ids PROVE \E j \in K : ids[j] = ids[k]
    OBVIOUS
  <2> DEFINE Same == {j \in DOMAIN ids : ids[j] = ids[k]}
  <2>1. Same \in SUBSET Nat /\ k \in Same
    BY <1>1
  <2>2. \E j \in Same : \A l \in Same : j <= l
    <3> HIDE DEF Same
    <3>1. QED
      BY <2>1, LeastOf
  <2>3. PICK j \in Same : \A l \in Same : j <= l
    BY <2>2
  <2>4. \A l \in 1 .. j - 1 : ids[l] # ids[j]
    <3> SUFFICES ASSUME NEW l \in 1 .. j - 1, ids[l] = ids[j] PROVE FALSE
      OBVIOUS
    <3>1. l \in Same /\ j \in Nat /\ l \in Nat /\ l < j
      BY <1>1, <2>3
    <3>2. QED
      BY <2>3, <3>1
  <2>5. QED
    BY <2>3, <2>4
<1>5. T = ToSet(ids) /\ T \in SUBSET S
  <2>1. ToSet(ids) = {ids[k] : k \in DOMAIN ids}
    BY DEF ToSet
  <2>2. \A k \in K : k \in DOMAIN ids
    OBVIOUS
  <2> HIDE DEF K
  <2>3. T \subseteq ToSet(ids)
    BY ONLY <2>1, <2>2 DEF T
  <2>4. ToSet(ids) \subseteq T
    BY ONLY <1>4, <2>1 DEF T
  <2>5. T \subseteq S
    BY ONLY <1>1, <2>2 DEF T
  <2>6. QED
    BY ONLY <2>3, <2>4, <2>5
<1>6. Distinct(ids) = At(ids, K)
  BY DEF Distinct
<1> HIDE DEF K
<1>7. /\ At(ids, K) \in Seq(T) /\ ToSet(At(ids, K)) = T
      /\ \A n \in DOMAIN At(ids, K) : Nth(K, n) \in K /\ At(ids, K)[n] = ids[Nth(K, n)]
      /\ \A m, n \in DOMAIN At(ids, K) : Nth(K, m) = Nth(K, n) => m = n
  <2>1. T = Elements(ids, K)
    BY DEF Elements
  <2> HIDE DEF T
  <2>2. QED
    BY ONLY <1>2, <2>1, AtPicks
<1> HIDE DEF T
<1>8. IsInjective(At(ids, K))
  BY <1>3, <1>7 DEF IsInjective
<1>9. At(ids, K) \in Seq(S)
  BY <1>5, <1>7
<1>10. QED
  BY <1>5, <1>6, <1>7, <1>8, <1>9

\* The events ahead are counted from 1.
LEMMA HorizonIs ==
  ASSUME NEW tr, Len(tr) \in Nat, NEW i \in Nat
  PROVE  /\ Cardinality(Horizon(tr, i)) \in Nat
         /\ \A k \in 1 .. Cardinality(Horizon(tr, i)) : i + k \in Horizon(tr, i)
         /\ \A j \in Horizon(tr, i) : j - i \in 1 .. Cardinality(Horizon(tr, i))
         /\ \A j : j \in Horizon(tr, i)
              <=> j \in i + 1 .. i + Lookahead /\ j <= Len(tr)
<1> DEFINE last == Least(Len(tr), i + Lookahead)
           n == Cardinality(Horizon(tr, i))
<1>1. /\ last \in Int /\ Lookahead \in Int
      /\ last <= Len(tr) /\ last <= i + Lookahead
      /\ last = Len(tr) \/ last = i + Lookahead
  BY ManifestAssumption DEF Least
<1>2. Horizon(tr, i) = i + 1 .. last
  BY DEF Horizon
<1> HIDE DEF last
<1>3. n = IF i + 1 > last THEN 0 ELSE last - (i + 1) + 1
  BY <1>1, <1>2, FS_Interval
<1> HIDE DEF n
<1>4. n \in Nat /\ (n = 0 \/ n = last - i) /\ (n = 0 => last <= i)
  BY <1>1, <1>3
<1>5. \A k \in 1 .. n : i + k \in i + 1 .. last
  BY <1>1, <1>4
<1>6. \A j \in i + 1 .. last : j - i \in 1 .. n
  BY <1>1, <1>4
<1>7. \A j : j \in i + 1 .. last <=> j \in i + 1 .. i + Lookahead /\ j <= Len(tr)
  BY <1>1
<1>8. QED
  BY <1>2, <1>4, <1>5, <1>6, <1>7 DEF n

\* What the events of the horizon require, each tile once.
LEMMA FutureTilesIs ==
  ASSUME NEW tr, Len(tr) \in Nat, NEW i \in Nat
  PROVE  /\ FutureTiles(tr, i) \in Seq(Tiles) /\ IsInjective(FutureTiles(tr, i))
         /\ ToSet(FutureTiles(tr, i))
              = {t \in Tiles : \E j \in Horizon(tr, i) : Requires(tr, j, t)}
<1> DEFINE n == Cardinality(Horizon(tr, i))
           ss == [k \in 1 .. n |-> RequiredForEvent(tr, i + k)]
<1>1. n \in Nat
  BY HorizonIs
<1>2. /\ \A k \in 1 .. n : i + k \in Horizon(tr, i)
      /\ \A j \in Horizon(tr, i) : j - i \in 1 .. n /\ i + (j - i) = j
  <2>1. \A j \in Horizon(tr, i) : j \in Int
    BY ONLY Len(tr) \in Nat, i \in Nat, ManifestAssumption DEF Horizon
  <2> HIDE DEF n
  <2>2. QED
    BY ONLY Len(tr) \in Nat, i \in Nat, <2>1, HorizonIs DEF n
<1>3. FutureTiles(tr, i) = Distinct(FlattenSeq(ss))
  BY DEF FutureTiles
<1> HIDE DEF n
<1>4. ss \in [1 .. n -> Seq(Tiles)]
  BY RequiredIs
<1>5. \A k \in 1 .. n : ToSet(ss[k]) = {t \in Tiles : Requires(tr, i + k, t)}
  BY RequiredIs
<1> HIDE DEF ss
<1>6. /\ FlattenSeq(ss) \in Seq(Tiles)
      /\ ToSet(FlattenSeq(ss)) = UNION {ToSet(ss[k]) : k \in 1 .. n}
  <2>1. n \in Nat
    BY <1>1
  <2>2. QED
    BY ONLY <1>4, <2>1, FlattenIs
<1>7. UNION {ToSet(ss[k]) : k \in 1 .. n}
        = {t \in Tiles : \E j \in Horizon(tr, i) : Requires(tr, j, t)}
  <2>1. ASSUME NEW k \in 1 .. n, NEW t \in ToSet(ss[k])
        PROVE  t \in Tiles /\ \E j \in Horizon(tr, i) : Requires(tr, j, t)
    BY <1>2, <1>5
  <2>2. ASSUME NEW t \in Tiles, NEW j \in Horizon(tr, i), Requires(tr, j, t)
        PROVE  j - i \in 1 .. n /\ t \in ToSet(ss[j - i])
    BY <1>2, <1>5, <2>2
  <2>3. QED
    BY <2>1, <2>2
<1>8. /\ Distinct(FlattenSeq(ss)) \in Seq(Tiles) /\ IsInjective(Distinct(FlattenSeq(ss)))
      /\ ToSet(Distinct(FlattenSeq(ss))) = ToSet(FlattenSeq(ss))
  BY <1>6, DistinctIs
<1>9. QED
  BY <1>3, <1>6, <1>7, <1>8

\* ... but not what the event itself requires.
LEMMA FutureIs ==
  ASSUME NEW tr, Len(tr) \in Nat, NEW i \in Nat
  PROVE  /\ Future(tr, i) \in Seq(Tiles) /\ IsInjective(Future(tr, i))
         /\ ToSet(Future(tr, i))
              = {t \in Tiles : /\ \E j \in Horizon(tr, i) : Requires(tr, j, t)
                               /\ ~Requires(tr, i, t)}
<1> DEFINE f == FutureTiles(tr, i)
           R == ToSet(RequiredForEvent(tr, i))
           K == {k \in DOMAIN f : f[k] \notin R}
           T == {f[k] : k \in K}
           Ahead == {t \in Tiles : \E j \in Horizon(tr, i) : Requires(tr, j, t)}
<1>1. f \in Seq(Tiles) /\ IsInjective(f) /\ ToSet(f) = Ahead
  BY FutureTilesIs
<1>2. R = {t \in Tiles : Requires(tr, i, t)}
  BY RequiredIs
<1>3. Future(tr, i) = At(f, K)
  BY DEF Future
<1> HIDE DEF f
<1>4. K \in SUBSET Nat /\ IsFiniteSet(K) /\ K \in SUBSET DOMAIN f
  <2>1. K \in SUBSET DOMAIN f
    OBVIOUS
  <2> HIDE DEF K
  <2>2. QED
    BY <1>1, <2>1, SomeIndices
<1>5. T = Ahead \ R /\ T \in SUBSET Tiles
  <2> HIDE DEF R
  <2>1. T = ToSet(f) \ R
    BY DEF ToSet
  <2>2. QED
    BY <1>1, <2>1
<1>6. \A j, k \in K : f[j] = f[k] => j = k
  BY ONLY <1>1, <1>4 DEF IsInjective
<1>7. T = Elements(f, K)
  BY DEF Elements
<1> HIDE DEF K, T
<1>8. /\ At(f, K) \in Seq(T) /\ ToSet(At(f, K)) = T
      /\ \A n \in DOMAIN At(f, K) : Nth(K, n) \in K /\ At(f, K)[n] = f[Nth(K, n)]
      /\ \A m, n \in DOMAIN At(f, K) : Nth(K, m) = Nth(K, n) => m = n
  BY ONLY <1>4, <1>7, AtPicks
<1>9. IsInjective(At(f, K))
  BY <1>6, <1>8 DEF IsInjective
<1>10. At(f, K) \in Seq(Tiles)
  BY <1>5, <1>8
<1>11. Ahead \ R = {t \in Tiles : /\ \E j \in Horizon(tr, i) : Requires(tr, j, t)
                                  /\ ~Requires(tr, i, t)}
  BY <1>2
<1>12. QED
  BY <1>3, <1>5, <1>8, <1>9, <1>10, <1>11

\* An order of a finite set has all its elements.
LEMMA OrderIs ==
  ASSUME NEW S, IsFiniteSet(S), NEW p \in SetToSeqs(S)
  PROVE  p \in Seq(S) /\ IsInjective(p) /\ ToSet(p) = S
<1> DEFINE D == 1 .. Cardinality(S)
<1>1. Cardinality(S) \in Nat
  BY FS_CardinalityType
<1>2. p \in [D -> S] /\ \A m, n \in D : m # n => p[m] # p[n]
  BY DEF SetToSeqs
<1>3. IsInjective(p) /\ p \in Injection(D, S)
  BY <1>2 DEF Injection, IsInjective
<1>4. Cardinality(D) = Cardinality(S)
  BY <1>1, FirstNumbers
<1> HIDE DEF D
<1>5. p \in Surjection(D, S)
  BY <1>3, <1>4, FS_Injection
<1>6. ToSet(p) = S
  BY <1>2, <1>5 DEF ToSet, Surjection
<1>7. QED
  BY <1>1, <1>2, <1>3, <1>6 DEF D

LEMMA FiniteElements ==
  ASSUME NEW S, NEW s \in Seq(S)
  PROVE  IsFiniteSet(ToSet(s)) /\ ToSet(s) \in SUBSET S
<1>1. DOMAIN s = 1 .. Len(s) /\ Len(s) \in Nat
  OBVIOUS
<1>2. s \in Surjection(DOMAIN s, ToSet(s)) /\ ToSet(s) \in SUBSET S
  BY DEF Surjection, ToSet
<1>3. IsFiniteSet(DOMAIN s)
  BY <1>1, FirstNumbers
<1>4. QED
  BY <1>2, <1>3, FS_Surjection

\* The tiles a policy may prefetch at event i.
Upcoming(pol, tr, i) ==
  IF pol \in NoPrefetchPolicies \/ Lookahead <= 0
  THEN {}
  ELSE {t \in Tiles : /\ \E j \in Horizon(tr, i) : Requires(tr, j, t)
                      /\ ~Requires(tr, i, t)}

LEMMA PlansAre ==
  ASSUME NEW tr, Len(tr) \in Nat, NEW i \in Nat, NEW pol, NEW p \in Plans(pol, tr, i)
  PROVE  p \in Seq(Tiles) /\ IsInjective(p) /\ ToSet(p) = Upcoming(pol, tr, i)
<1>1. CASE pol \in NoPrefetchPolicies \/ Lookahead <= 0
  <2>1. p = <<>> /\ Upcoming(pol, tr, i) = {}
    BY <1>1 DEF Plans, Upcoming
  <2>2. QED
    BY <2>1 DEF IsInjective, ToSet
<1>2. CASE /\ ~(pol \in NoPrefetchPolicies \/ Lookahead <= 0)
           /\ pol \in InOrderPolicies
  <2>1. p = Future(tr, i)
    BY <1>2 DEF Plans
  <2>2. QED
    BY <1>2, <2>1, FutureIs DEF Upcoming
<1>3. CASE /\ ~(pol \in NoPrefetchPolicies \/ Lookahead <= 0)
           /\ pol \notin InOrderPolicies
  <2> DEFINE S == ToSet(Future(tr, i))
  <2>1. p \in SetToSeqs(S)
    BY <1>3 DEF Plans, ByScore
  <2>2. S = Upcoming(pol, tr, i)
    BY <1>3, FutureIs DEF Upcoming
  <2>3. Future(tr, i) \in Seq(Tiles)
    BY FutureIs
  <2>4. IsFiniteSet(S) /\ S \in SUBSET Tiles
    BY <2>3, FiniteElements
  <2> HIDE DEF S
  <2>5. p \in Seq(S) /\ IsInjective(p) /\ ToSet(p) = S
    BY <2>1, <2>4, OrderIs
  <2>6. p \in Seq(Tiles)
    BY <2>4, <2>5
  <2>7. QED
    BY <2>2, <2>5, <2>6
<1>4. QED
  BY <1>1, <1>2, <1>3

-----------------------------------------------------------------------------
(* The replay *)

Busy == {"dram", "read", "hbm", "copy"}

\* Where main and the call it waits for stand: a call that returns has put
\* its tile into HBM, and one that throws ends the replay.
LoopInv ==
  /\ trace \in Traces /\ event \in Nat /\ queue \in Seq(Tiles) /\ awaiting \in BOOLEAN
  /\ phase \in {"plan", "prefetch", "required", "done", "failed"}
  /\ phase \in {"plan", "done"} => ~awaiting
  /\ phase # "failed" =>
       /\ ~awaiting => pc = "idle"
       /\ awaiting => queue # <<>>
       /\ awaiting /\ pc = "idle" => Head(queue) \in hbm
       /\ awaiting /\ pc \in Busy => Head(queue) = cur

\* What the events of a trace from one on require.
AheadOf ==
  [r \in Traces \X Nat |->
     {t \in Tiles : \E j \in Nat : r[2] <= j /\ j <= Len(r[1]) /\ Requires(r[1], j, t)}]

\* What is prefetched has been used or will be required: by later events and,
\* in the required loop, by what is left of its list.
UsedInv ==
  /\ phase \in {"plan", "prefetch"} =>
       prefetched \subseteq used \union AheadOf[<<trace, event>>]
  /\ phase = "prefetch" =>
       event <= Len(trace) /\ ToSet(queue) \subseteq AheadOf[<<trace, event>>]
  /\ phase = "required" =>
       /\ prefetched \subseteq used \union ToSet(queue)
                                    \union AheadOf[<<trace, event + 1>>]
       /\ awaiting => Head(queue) \in used

\* A resident fits both budgets, so a call for it is a hit.
FitInv ==
  /\ \A t \in hbm : Size[t] <= DramBudget /\ Size[t] <= HbmBudget
  /\ pc \in Busy => Size[cur] <= DramBudget /\ Size[cur] <= HbmBudget

HitsInv ==
  /\ prefetchHits \in Nat /\ demandMisses \in Nat
  /\ prefetchHits <= metrics["hbmHits"]
  /\ policy \in NoPrefetchPolicies =>
       /\ prefetched = {} /\ prefetchHits = 0
       /\ phase = "prefetch" => queue = <<>>
       /\ pc # "dead" => metrics["hbmMisses"] = demandMisses

\* What a finished replay has reported.
ReportInv ==
  phase = "done" =>
    /\ prefetched \subseteq used /\ report.prefetchWaste = 0
    /\ policy \in NoPrefetchPolicies => report.deadlineMisses = demandMisses

ReplayInv == TypeOK /\ BufferInv /\ LoopInv /\ UsedInv /\ FitInv /\ HitsInv /\ ReportInv

\* How a call starts, and what it counts.
LEMMA EnsureDoes ==
  ASSUME TypeOK, NEW t \in Tiles, Ensure(t)
  PROVE  /\ pc = "idle" /\ hbm' = hbm
         /\ \/ /\ pc' = "dead" /\ metrics' = metrics
               /\ Size[t] > DramBudget \/ Size[t] > HbmBudget
            \/ /\ pc' = "idle" /\ t \in hbm
               /\ metrics'["hbmHits"] = metrics["hbmHits"] + 1
               /\ metrics'["hbmMisses"] = metrics["hbmMisses"]
            \/ /\ pc' \in Busy /\ cur' = t /\ t \notin hbm
               /\ Size[t] <= DramBudget /\ Size[t] <= HbmBudget
               /\ metrics'["hbmHits"] = metrics["hbmHits"]
               /\ metrics'["hbmMisses"] = metrics["hbmMisses"] + 1
<1> USE DEF TypeOK, MetricNames, Busy
<1>1. ~RetryAfterFailure
  BY ReplayAssumption DEF RetryAfterFailure
<1>2. CASE EnsureRejected(t)
  BY <1>1, <1>2 DEF EnsureRejected, entryVars
<1>3. CASE EnsureHit(t)
  BY <1>3 DEF EnsureHit, Touch
<1>4. CASE EnsureDramHit(t)
  BY <1>4 DEF EnsureDramHit, Touch
<1>5. CASE EnsureMiss(t)
  BY <1>5 DEF EnsureMiss, Touch
<1>6. QED
  BY <1>2, <1>3, <1>4, <1>5 DEF Ensure

\* How it goes on, and how it ends.
LEMMA CallDoes ==
  ASSUME TypeOK, CallStep
  PROVE  /\ pc \in Busy /\ hbm' \in SUBSET (hbm \union {cur})
         /\ metrics'["hbmHits"] = metrics["hbmHits"]
         /\ metrics'["hbmMisses"] = metrics["hbmMisses"]
         /\ \/ pc' = "dead"
            \/ pc' = "idle" /\ cur \in hbm'
            \/ pc' \in Busy /\ cur' = cur
<1> USE DEF TypeOK, MetricNames, Busy, Throw, entryVars, dramPool, hbmPool
<1>1. ~RetryAfterFailure
  BY ReplayAssumption DEF RetryAfterFailure
<1>2. ASSUME NEW v \in Tiles, EvictDram(v) \/ EvictHbm(v)
      PROVE  /\ pc \in Busy /\ hbm' \in SUBSET (hbm \union {cur})
             /\ pc' = pc /\ cur' = cur /\ metrics' = metrics
  BY <1>2 DEF EvictDram, EvictHbm, DramPressure, HbmPressure
<1>3. ASSUME NEW v \in Tiles, FreeFails(v)
      PROVE  /\ pc \in Busy /\ hbm' \in SUBSET (hbm \union {cur})
             /\ pc' = "dead" /\ metrics' = metrics
  BY <1>1, <1>3
  DEF FreeFails, EvictDramFreeFails, EvictDramHbmFreeFails, EvictHbmFreeFails,
      DramPressure, HbmPressure
<1>4. CASE Load
  BY <1>4 DEF Load, AllocateDram, ReadTile, AllocateHbm, Copy, Copied
<1>5. CASE Fail
  BY <1>1, <1>5
  DEF Fail, NoDramVictim, NoHbmVictim, AllocateDramFails, ReadTileFails,
      AllocateHbmFails, CopyFails, DropDramFreeFails, Copied,
      DramPressure, HbmPressure
<1>6. QED
  BY <1>2, <1>3, <1>4, <1>5 DEF CallStep, Evict

\* A step of the replay is a step of the memory manager, none, or a failure
\* outside it.
LEMMA MemoryMoves ==
  ASSUME LoopInv, [ReplayStep]_allVars
  PROVE  \/ [Next]_vars
         \/ /\ faults' = faults + 1
            /\ UNCHANGED <<setup, pc, cur, clock, entryVars, dramPool, hbmPool,
                           metrics, failed, starved>>
<1>1. queue # <<>> => Head(queue) \in Tiles
  BY DEF LoopInv
<1>2. CASE PrefetchCall \/ RequiredCall
  BY <1>1, <1>2 DEF PrefetchCall, RequiredCall, Next
<1>3. CASE MemoryStep
  BY <1>3 DEF MemoryStep, Next
<1>4. CASE ComputeThrows \/ FinishThrows
  BY <1>4 DEF ComputeThrows, FinishThrows, Fault
<1>5. CASE \/ Plan \/ PrefetchReturn \/ PrefetchDone \/ Compute \/ EnsureThrew
           \/ NextEvent \/ Finish
  BY <1>5
  DEF Plan, PrefetchReturn, PrefetchDone, Compute, EnsureThrew, NextEvent, Finish
<1>6. CASE UNCHANGED allVars
  BY <1>6 DEF allVars
<1>7. QED
  BY <1>2, <1>3, <1>4, <1>5, <1>6 DEF ReplayStep

LEMMA MemoryInvStep ==
  ASSUME TypeOK, BufferInv, LoopInv, [ReplayStep]_allVars
  PROVE  TypeOK' /\ BufferInv'
<1>1. CASE [Next]_vars
  BY <1>1, TypeInvStep, BufferInvStep
<1>2. CASE /\ faults' = faults + 1
           /\ UNCHANGED <<setup, pc, cur, clock, entryVars, dramPool, hbmPool,
                          metrics, failed, starved>>
  BY <1>2
  DEF TypeOK, BufferInv, ResidentBuffersLive, entryVars, dramPool, hbmPool
<1>3. QED
  BY <1>1, <1>2, MemoryMoves

LEMMA TraceIs ==
  ASSUME NEW tr \in Traces
  PROVE  Len(tr) \in Nat
BY TraceAssumption

LEMMA TailOf ==
  ASSUME NEW S, NEW q \in Seq(S), q # <<>>
  PROVE  /\ Tail(q) \in Seq(S) /\ Head(q) \in S
         /\ ToSet(q) = {Head(q)} \union ToSet(Tail(q))
<1>1. /\ Len(q) \in Nat \ {0} /\ DOMAIN q = 1 .. Len(q) /\ Head(q) = q[1]
      /\ Tail(q) \in Seq(S) /\ Len(Tail(q)) = Len(q) - 1
      /\ DOMAIN Tail(q) = 1 .. Len(q) - 1
      /\ \A k \in 1 .. Len(q) - 1 : Tail(q)[k] = q[k + 1]
      /\ Head(q) \in S
  OBVIOUS
<1>2. ASSUME NEW k \in DOMAIN q
      PROVE  q[k] = Head(q) \/ q[k] \in ToSet(Tail(q))
  <2>1. CASE k = 1
    BY <1>1, <2>1
  <2>2. CASE k # 1
    <3>1. k - 1 \in DOMAIN Tail(q) /\ Tail(q)[k - 1] = q[k]
      BY <1>1, <2>2
    <3>2. QED
      BY <3>1 DEF ToSet
  <2>3. QED
    BY <2>1, <2>2
<1>3. ASSUME NEW k \in DOMAIN Tail(q)
      PROVE  Tail(q)[k] \in ToSet(q)
  <2>1. k + 1 \in DOMAIN q /\ q[k + 1] = Tail(q)[k]
    BY <1>1
  <2>2. QED
    BY <2>1 DEF ToSet
<1>4. Head(q) \in ToSet(q)
  BY <1>1 DEF ToSet
<1>5. QED
  BY <1>1, <1>2, <1>3, <1>4 DEF ToSet

LEMMA NothingQueued == ToSet(<<>>) = {}
BY DEF ToSet

LEMMA AheadIs ==
  ASSUME NEW tr \in Traces, NEW i \in Nat
  PROVE  /\ i > Len(tr) => AheadOf[<<tr, i>>] = {}
         /\ i <= Len(tr) => AheadOf[<<tr, i>>]
              = ToSet(RequiredForEvent(tr, i)) \union AheadOf[<<tr, i + 1>>]
         /\ \A pol : Upcoming(pol, tr, i) \subseteq AheadOf[<<tr, i + 1>>]
<1>1. Len(tr) \in Nat
  BY TraceIs
<1>2. \A k \in Nat : AheadOf[<<tr, k>>]
        = {t \in Tiles : \E j \in Nat : k <= j /\ j <= Len(tr) /\ Requires(tr, j, t)}
  BY DEF AheadOf
<1>3. ToSet(RequiredForEvent(tr, i)) = {t \in Tiles : Requires(tr, i, t)}
  BY RequiredIs
<1>4. ASSUME i > Len(tr) PROVE AheadOf[<<tr, i>>] = {}
  BY <1>1, <1>2, <1>4
<1>5. ASSUME i <= Len(tr)
      PROVE  AheadOf[<<tr, i>>]
               = ToSet(RequiredForEvent(tr, i)) \union AheadOf[<<tr, i + 1>>]
  <2>1. \A j \in Nat : i <= j <=> (j = i \/ i + 1 <= j)
    OBVIOUS
  <2>2. QED
    BY <1>2, <1>3, <1>5, <2>1
<1>6. ASSUME NEW pol PROVE Upcoming(pol, tr, i) \subseteq AheadOf[<<tr, i + 1>>]
  <2>1. \A j \in Horizon(tr, i) : j \in Nat /\ i + 1 <= j /\ j <= Len(tr)
    BY <1>1, HorizonIs, ManifestAssumption
  <2>2. QED
    BY <1>2, <2>1 DEF Upcoming
<1>7. QED
  BY <1>4, <1>5, <1>6

LEMMA LoopInvStep ==
  ASSUME TypeOK, LoopInv, [ReplayStep]_allVars
  PROVE  LoopInv'
<1> USE DEF LoopInv
<1>1. Len(trace) \in Nat
  BY TraceIs
<1>2. CASE MemoryStep
  <2>1. /\ UNCHANGED <<trace, event, queue, awaiting, phase>>
        /\ CallStep /\ pc \in Busy
    BY <1>2, CallDoes DEF MemoryStep, replayVars, inputVars, loopVars
  <2>2. \/ pc' = "dead"
        \/ pc' = "idle" /\ cur \in hbm'
        \/ pc' \in Busy /\ cur' = cur
    BY <2>1, CallDoes
  <2>3. phase # "failed" => awaiting /\ Head(queue) = cur
    BY <2>1 DEF Busy
  <2>4. QED
    BY <2>1, <2>2, <2>3 DEF Busy
<1>3. CASE Plan
  <2>1. queue' \in Seq(Tiles)
    BY <1>1, <1>3, PlansAre DEF Plan
  <2>2. QED
    BY <1>3, <2>1 DEF Plan, inputVars, vars
<1>4. CASE PrefetchCall \/ RequiredCall
  <2>1. Head(queue) \in Tiles
    BY <1>4, TailOf DEF PrefetchCall, RequiredCall
  <2>2. /\ Ensure(Head(queue)) /\ queue # <<>> /\ awaiting' = TRUE
        /\ phase \in {"prefetch", "required"}
        /\ UNCHANGED <<trace, event, queue, phase>>
    BY <1>4 DEF PrefetchCall, RequiredCall, inputVars
  <2>3. \/ pc' = "dead"
        \/ pc' = "idle" /\ Head(queue) \in hbm'
        \/ pc' \in Busy /\ cur' = Head(queue)
    BY <2>1, <2>2, EnsureDoes
  <2>4. QED
    BY <2>2, <2>3 DEF Busy
<1>5. CASE PrefetchReturn \/ Compute
  <2>1. Tail(queue) \in Seq(Tiles)
    BY <1>5, TailOf DEF PrefetchReturn, Compute
  <2>2. QED
    BY <1>5, <2>1 DEF PrefetchReturn, Compute, inputVars, vars
<1>6. CASE PrefetchDone
  <2>1. Required \in Seq(Tiles)
    BY RequiredIs DEF Required
  <2>2. QED
    BY <1>6, <2>1 DEF PrefetchDone, inputVars, vars
<1>7. CASE EnsureThrew \/ ComputeThrows \/ FinishThrows
  BY <1>7 DEF EnsureThrew, ComputeThrows, FinishThrows, inputVars
<1>8. CASE NextEvent
  BY <1>8 DEF NextEvent, inputVars, vars
<1>9. CASE Finish
  BY <1>9 DEF Finish, inputVars, vars
<1>10. CASE UNCHANGED allVars
  <2>1. UNCHANGED <<trace, event, queue, awaiting, phase, pc, cur, hbm>>
    BY <1>10 DEF allVars, replayVars, inputVars, loopVars, vars, entryVars
  <2>2. QED
    BY <2>1
<1>11. QED
  BY <1>2, <1>3, <1>4, <1>5, <1>6, <1>7, <1>8, <1>9, <1>10 DEF ReplayStep

LEMMA UsedInvStep ==
  ASSUME LoopInv, UsedInv, [ReplayStep]_allVars
  PROVE  UsedInv'
<1> USE DEF UsedInv
<1>1. trace \in Traces /\ event \in Nat /\ Len(trace) \in Nat /\ queue \in Seq(Tiles)
  BY TraceIs DEF LoopInv
<1>2. CASE MemoryStep \/ UNCHANGED allVars
  BY <1>2
  DEF MemoryStep, allVars, replayVars, inputVars, loopVars, setVars
<1>3. CASE Plan
  <2>1. ToSet(queue') = Upcoming(policy, trace, event) /\ event <= Len(trace)
    BY <1>1, <1>3, PlansAre DEF Plan
  <2>2. ToSet(queue') \subseteq AheadOf[<<trace, event>>]
    BY <1>1, <2>1, AheadIs
  <2>3. ToSet(queue)' = ToSet(queue')
    BY DEF ToSet
  <2>4. QED
    BY <1>3, <2>1, <2>2, <2>3 DEF Plan, inputVars, setVars
<1>4. CASE PrefetchCall
  <2>1. ToSet(queue)' = ToSet(queue)
    BY <1>4 DEF PrefetchCall, ToSet
  <2>2. QED
    BY <1>4, <2>1 DEF PrefetchCall, inputVars, setVars
<1>5. CASE PrefetchReturn
  <2>1. ToSet(queue) = {Head(queue)} \union ToSet(Tail(queue))
    BY <1>1, <1>5, TailOf DEF PrefetchReturn, LoopInv
  <2>2. ToSet(queue)' = ToSet(Tail(queue))
    BY <1>5 DEF PrefetchReturn, ToSet
  <2>3. QED
    BY <1>5, <2>1, <2>2 DEF PrefetchReturn, inputVars
<1>6. CASE PrefetchDone
  <2>1. AheadOf[<<trace, event>>]
          = ToSet(Required) \union AheadOf[<<trace, event + 1>>]
    BY <1>1, <1>6, AheadIs DEF PrefetchDone, Required
  <2>2. ToSet(queue)' = ToSet(Required)
    BY <1>6 DEF PrefetchDone, ToSet
  <2>3. ~awaiting
    BY <1>6 DEF PrefetchDone, LoopInv
  <2>4. QED
    BY <1>6, <2>1, <2>2, <2>3 DEF PrefetchDone, inputVars, setVars
<1>7. CASE RequiredCall
  <2>1. ToSet(queue)' = ToSet(queue)
    BY <1>7 DEF RequiredCall, ToSet
  <2>2. QED
    BY <1>7, <2>1 DEF RequiredCall, inputVars
<1>8. CASE Compute
  <2>1. ToSet(queue) = {Head(queue)} \union ToSet(Tail(queue))
    BY <1>1, <1>8, TailOf DEF Compute, LoopInv
  <2>2. ToSet(queue)' = ToSet(Tail(queue))
    BY <1>8 DEF Compute, ToSet
  <2>3. QED
    BY <1>8, <2>1, <2>2 DEF Compute, inputVars, setVars
<1>9. CASE EnsureThrew \/ ComputeThrows \/ FinishThrows \/ Finish
  BY <1>9 DEF EnsureThrew, ComputeThrows, FinishThrows, Finish
<1>10. CASE NextEvent
  BY <1>10, NothingQueued DEF NextEvent, inputVars, setVars
<1>11. QED
  BY <1>2, <1>3, <1>4, <1>5, <1>6, <1>7, <1>8, <1>9, <1>10 DEF ReplayStep

LEMMA FitInvStep ==
  ASSUME TypeOK, LoopInv, FitInv, [ReplayStep]_allVars
  PROVE  FitInv'
<1> USE DEF FitInv
<1>1. CASE MemoryStep
  BY <1>1, CallDoes DEF MemoryStep, Busy
<1>2. CASE PrefetchCall \/ RequiredCall
  <2>1. Head(queue) \in Tiles /\ Ensure(Head(queue))
    BY <1>2, TailOf DEF PrefetchCall, RequiredCall, LoopInv
  <2>2. QED
    BY <2>1, EnsureDoes DEF Busy
<1>3. CASE ~(MemoryStep \/ PrefetchCall \/ RequiredCall)
  <2>1. \/ UNCHANGED vars
        \/ UNCHANGED <<setup, pc, cur, clock, entryVars, dramPool, hbmPool,
                       metrics, failed, starved>>
    BY <1>3
    DEF ReplayStep, Plan, PrefetchReturn, PrefetchDone, Compute, EnsureThrew,
        ComputeThrows, NextEvent, Finish, FinishThrows, allVars
  <2>2. UNCHANGED <<hbm, pc, cur>>
    BY <2>1 DEF vars, entryVars
  <2>3. QED
    BY <2>2
<1>4. QED
  BY <1>1, <1>2, <1>3

LEMMA HitsInvStep ==
  ASSUME TypeOK, LoopInv, FitInv, HitsInv, [ReplayStep]_allVars
  PROVE  HitsInv'
<1> USE DEF HitsInv
<1>1. metrics["hbmHits"] \in Int /\ metrics["hbmMisses"] \in Int
  BY DEF TypeOK, MetricNames
<1>2. CASE MemoryStep
  <2>1. /\ metrics'["hbmHits"] = metrics["hbmHits"]
        /\ metrics'["hbmMisses"] = metrics["hbmMisses"] /\ pc # "dead"
    BY <1>2, CallDoes DEF MemoryStep, Busy
  <2>2. UNCHANGED replayVars
    BY <1>2 DEF MemoryStep
  <2>3. QED
    BY <2>1, <2>2 DEF replayVars, inputVars, loopVars, setVars, countVars
<1>3. CASE Plan
  <2>1. policy \in NoPrefetchPolicies => queue' = <<>>
    BY <1>3 DEF Plan, Plans
  <2>2. QED
    BY <1>3, <2>1 DEF Plan, inputVars, setVars, countVars, vars
<1>4. CASE PrefetchCall
  <2>1. Head(queue) \in Tiles /\ Ensure(Head(queue)) /\ policy \notin NoPrefetchPolicies
    BY <1>4, TailOf DEF PrefetchCall, LoopInv
  <2>2. metrics'["hbmHits"] \in {metrics["hbmHits"], metrics["hbmHits"] + 1}
    BY <2>1, EnsureDoes
  <2>3. QED
    BY <1>1, <1>4, <2>1, <2>2 DEF PrefetchCall, inputVars, setVars, countVars
<1>5. CASE RequiredCall
  <2>1. Head(queue) \in Tiles /\ Ensure(Head(queue)) /\ pc = "idle"
    BY <1>5, TailOf, EnsureDoes DEF RequiredCall, LoopInv
  <2>2. /\ UNCHANGED <<policy, phase, queue, prefetched>> /\ phase = "required"
        /\ prefetchHits' = prefetchHits
             + IF Head(queue) \in prefetched /\ Head(queue) \in hbm THEN 1 ELSE 0
        /\ demandMisses' = demandMisses + IF Head(queue) \in hbm THEN 0 ELSE 1
    BY <1>5 DEF RequiredCall, HitFromPrefetch, inputVars
  <2>3. \/ /\ pc' = "dead" /\ metrics' = metrics /\ Head(queue) \notin hbm
        \/ /\ Head(queue) \in hbm
           /\ metrics'["hbmHits"] = metrics["hbmHits"] + 1
           /\ metrics'["hbmMisses"] = metrics["hbmMisses"]
        \/ /\ Head(queue) \notin hbm
           /\ metrics'["hbmHits"] = metrics["hbmHits"]
           /\ metrics'["hbmMisses"] = metrics["hbmMisses"] + 1
    <3>1. Size[Head(queue)] > DramBudget \/ Size[Head(queue)] > HbmBudget
            => Head(queue) \notin hbm
      BY SizeAssumption, BudgetAssumption, <2>1 DEF FitInv
    <3>2. QED
      BY <2>1, <3>1, EnsureDoes
  <2>4. QED
    BY <1>1, <2>1, <2>2, <2>3
<1>6. CASE PrefetchReturn
  <2>1. policy \notin NoPrefetchPolicies
    BY <1>6 DEF PrefetchReturn, LoopInv
  <2>2. QED
    BY <1>6, <2>1 DEF PrefetchReturn, inputVars, countVars, vars
<1>7. CASE PrefetchDone \/ NextEvent \/ EnsureThrew
  BY <1>7 DEF PrefetchDone, NextEvent, EnsureThrew, inputVars, setVars, countVars, vars
<1>8. CASE Compute \/ Finish
  BY <1>8 DEF Compute, Finish, inputVars, setVars, vars
<1>9. CASE ComputeThrows \/ FinishThrows
  BY <1>9 DEF ComputeThrows, FinishThrows, inputVars, setVars, countVars
<1>10. CASE UNCHANGED allVars
  BY <1>10 DEF allVars, replayVars, inputVars, loopVars, setVars, countVars, vars
<1>11. QED
  BY <1>2, <1>3, <1>4, <1>5, <1>6, <1>7, <1>8, <1>9, <1>10 DEF ReplayStep

LEMMA ReportInvStep ==
  ASSUME TypeOK, LoopInv, UsedInv, HitsInv, ReportInv, [ReplayStep]_allVars
  PROVE  ReportInv'
<1>1. trace \in Traces /\ event \in Nat
  BY DEF LoopInv
<1>2. CASE Finish
  <2>1. prefetched \ used = {}
    BY <1>1, <1>2, AheadIs DEF Finish, UsedInv
  <2>2. report'.prefetchWaste = 0
    BY <1>2, <2>1, FS_EmptySet DEF Finish
  <2>3. report'.deadlineMisses = NotNegative(metrics["hbmMisses"] - prefetchHits)
    BY <1>2 DEF Finish
  <2>4. pc = "idle"
    BY <1>2 DEF Finish, LoopInv
  <2>5. policy \in NoPrefetchPolicies => report'.deadlineMisses = demandMisses
    BY <2>3, <2>4 DEF HitsInv, NotNegative
  <2>6. QED
    BY <1>2, <2>1, <2>2, <2>5 DEF Finish, ReportInv, inputVars, setVars
<1>3. CASE phase = "done" /\ ~UNCHANGED replayVars
  <2>1. ReplayStep /\ ~MemoryStep
    BY <1>3 DEF allVars, MemoryStep
  <2>2. QED
    BY <1>3, <2>1
    DEF ReplayStep, Plan, PrefetchCall, PrefetchReturn, PrefetchDone,
        RequiredCall, Compute, EnsureThrew, ComputeThrows, NextEvent, Finish,
        FinishThrows
<1>4. CASE UNCHANGED replayVars
  BY <1>4 DEF ReportInv, replayVars, inputVars, loopVars, setVars, countVars
<1>5. CASE phase # "done" /\ ~Finish
  <2>1. phase' # "done"
    BY <1>5
    DEF ReplayStep, MemoryStep, Plan, PrefetchCall, PrefetchReturn,
        PrefetchDone, RequiredCall, Compute, EnsureThrew, ComputeThrows,
        NextEvent, FinishThrows, allVars, replayVars, loopVars
  <2>2. QED
    BY <2>1 DEF ReportInv
<1>6. QED
  BY <1>2, <1>3, <1>4, <1>5

LEMMA ReplayInvHolds == ReplaySpec => []ReplayInv
<1>1. ReplayInit => ReplayInv
  <2>1. SUFFICES ASSUME ReplayInit PROVE ReplayInv
    OBVIOUS
  <2>2. TypeOK
    BY <2>1 DEF ReplayInit, Init, TypeOK, Phases, MetricNames
  <2>3. BufferInv
    BY <2>1 DEF ReplayInit, Init, BufferInv, ResidentBuffersLive, OwnBuffers
  <2>4. LoopInv
    <3>1. /\ trace \in Traces /\ event = 1 /\ queue = <<>> /\ awaiting = FALSE
          /\ phase = "plan" /\ pc = "idle"
      BY <2>1 DEF ReplayInit, Init
    <3>2. queue \in Seq(Tiles)
      BY <3>1
    <3>3. QED
      BY <3>1, <3>2 DEF LoopInv
  <2>5. UsedInv /\ ReportInv
    BY <2>1 DEF ReplayInit, UsedInv, ReportInv
  <2>6. FitInv
    BY <2>1 DEF ReplayInit, Init, FitInv, Busy
  <2>7. HitsInv
    BY <2>1 DEF ReplayInit, Init, HitsInv, MetricNames
  <2>8. QED
    BY <2>2, <2>3, <2>4, <2>5, <2>6, <2>7 DEF ReplayInv
<1>2. ReplayInv /\ [ReplayStep]_allVars => ReplayInv'
  <2>1. SUFFICES ASSUME ReplayInv, [ReplayStep]_allVars PROVE ReplayInv'
    OBVIOUS
  <2>2. TypeOK /\ BufferInv /\ LoopInv /\ UsedInv /\ FitInv /\ HitsInv /\ ReportInv
    BY <2>1 DEF ReplayInv
  <2>3. TypeOK' /\ BufferInv'
    BY <2>1, <2>2, MemoryInvStep
  <2>4. LoopInv' /\ UsedInv' /\ FitInv'
    BY <2>1, <2>2, LoopInvStep, UsedInvStep, FitInvStep
  <2>5. HitsInv' /\ ReportInv'
    BY <2>1, <2>2, HitsInvStep, ReportInvStep
  <2>6. QED
    BY <2>3, <2>4, <2>5 DEF ReplayInv
<1>3. QED
  BY <1>1, <1>2, PTL DEF ReplaySpec

\* No kernel of a replay runs on a weight that is not in HBM.
THEOREM KernelsRunOnResidentWeights == ReplaySpec => ComputesOnResidentWeight
<1> DEFINE Runs ==
      gemmCalls' # gemmCalls =>
        /\ Head(queue) \in hbm
        /\ [ptr |-> hbmPtr[Head(queue)], bytes |-> Size[Head(queue)]] \in hbmAllocs
<1>1. ReplayInv /\ [ReplayStep]_allVars => Runs
  <2>1. SUFFICES ASSUME ReplayInv, ReplayStep, gemmCalls' # gemmCalls
                 PROVE  /\ Head(queue) \in hbm
                        /\ [ptr |-> hbmPtr[Head(queue)], bytes |-> Size[Head(queue)]]
                             \in hbmAllocs
    BY DEF allVars, replayVars, countVars
  <2>2. Compute
    BY <2>1
    DEF ReplayStep, MemoryStep, Plan, PrefetchCall, PrefetchReturn,
        PrefetchDone, RequiredCall, EnsureThrew, ComputeThrows, NextEvent,
        Finish, FinishThrows, replayVars, countVars
  <2>3. Head(queue) \in hbm
    BY <2>1, <2>2 DEF Compute, ReplayInv, LoopInv
  <2>4. ResidentBuffersLive
    BY <2>1 DEF ReplayInv, BufferInv
  <2>5. QED
    BY <2>3, <2>4 DEF ResidentBuffersLive, OwnBuffers
<1>2. ReplayInv /\ [ReplayStep]_allVars => [Runs]_allVars
  BY <1>1
<1> HIDE DEF Runs
<1>3. ReplaySpec => [][Runs]_allVars
  BY <1>2, ReplayInvHolds, PTL DEF ReplaySpec
<1>4. QED
  BY <1>3 DEF ComputesOnResidentWeight, Runs

\* The metrics of prefetching say what they should.
THEOREM PrefetchMetricsHold == ReplaySpec => []PrefetchMetrics
<1>1. ReplayInv => PrefetchMetrics
  BY DEF ReplayInv, HitsInv, ReportInv, PrefetchMetrics
<1>2. QED
  BY <1>1, ReplayInvHolds, PTL

\* A plan is what the events ahead require and the current one does not.
THEOREM PlansAreUpcoming == ReplaySpec => []PlanIsUpcoming
<1>1. ReplayInv => PlanIsUpcoming
  <2>1. SUFFICES ASSUME ReplayInv, NEW p \in Plans(policy, trace, event)
                 PROVE  /\ IsInjective(p)
                        /\ ToSet(p) =
                             IF policy \in NoPrefetchPolicies \/ Lookahead <= 0
                             THEN {}
                             ELSE {t \in Tiles :
                               /\ \E j \in event + 1 .. event + Lookahead :
                                    /\ j <= Len(trace)
                                    /\ trace[j].layer = LayerOf[t]
                                    /\ ExpertOf[t] \in trace[j].experts
                               /\ ~ /\ trace[event].layer = LayerOf[t]
                                    /\ ExpertOf[t] \in trace[event].experts}
    BY DEF PlanIsUpcoming
  <2>2. event \in Nat /\ Len(trace) \in Nat
    BY <2>1, TraceIs DEF ReplayInv, LoopInv
  <2>3. IsInjective(p) /\ ToSet(p) = Upcoming(policy, trace, event)
    BY <2>2, PlansAre
  <2>4. \A j : j \in Horizon(trace, event)
          <=> j \in event + 1 .. event + Lookahead /\ j <= Len(trace)
    BY <2>2, HorizonIs
  <2>5. QED
    BY <2>3, <2>4 DEF Upcoming, Requires
<1>2. QED
  BY <1>1, ReplayInvHolds, PTL

-----------------------------------------------------------------------------
(* The order of a plan *)

\* What At picks keeps its order.
LEMMA NthInOrder ==
  ASSUME NEW K \in SUBSET Nat, IsFiniteSet(K),
         NEW m \in 1 .. Cardinality(K), NEW n \in 1 .. Cardinality(K), m < n
  PROVE  Nth(K, m) < Nth(K, n) /\ Nth(K, m) \in K /\ Nth(K, n) \in K
<1> DEFINE j == Nth(K, m)
           k == Nth(K, n)
           A == {i \in K : i <= j}
           B == {i \in K : i <= k}
<1>1. j \in K /\ Place(K, j) = m /\ k \in K /\ Place(K, k) = n
  BY EveryPlaceTaken DEF Nth
<1> HIDE DEF j, k
<1>2. Cardinality(A) = m /\ Cardinality(B) = n /\ A \in SUBSET K /\ j \in Nat /\ k \in Nat
  BY <1>1 DEF Place
<1>3. ASSUME k <= j PROVE FALSE
  <2>1. B \in SUBSET A
    <3>1. \A i \in K : i <= k => i <= j
      BY <1>2, <1>3
    <3>2. QED
      BY <3>1
  <2>2. IsFiniteSet(A) /\ Cardinality(A) \in Nat
    <3> HIDE DEF A
    <3>1. QED
      BY <1>2, FS_Subset, FS_CardinalityType
  <2>3. Cardinality(B) <= Cardinality(A)
    <3> HIDE DEF A, B
    <3>1. QED
      BY <2>1, <2>2, FS_Subset
  <2>4. QED
    BY <1>2, <2>3
<1>4. QED
  BY <1>1, <1>2, <1>3 DEF j, k

LEMMA AtInOrder ==
  ASSUME NEW s, NEW K \in SUBSET Nat, IsFiniteSet(K),
         NEW m \in DOMAIN At(s, K), NEW n \in DOMAIN At(s, K), m < n
  PROVE  /\ Nth(K, m) < Nth(K, n) /\ Nth(K, m) \in K /\ Nth(K, n) \in K
         /\ At(s, K)[m] = s[Nth(K, m)] /\ At(s, K)[n] = s[Nth(K, n)]
<1>1. At(s, K) = [i \in 1 .. Cardinality(K) |-> s[Nth(K, i)]]
  BY DEF At, Nth, Place
<1>2. QED
  BY <1>1, NthInOrder

\* The elements of a flat list come part after part: `part` says of each
\* place which part it is in.
IsCut(part, c, ss, n) ==
  /\ part \in [DOMAIN c -> 1 .. n]
  /\ \A x, y \in DOMAIN c : x <= y => part[x] <= part[y]
  /\ \A x \in DOMAIN c : c[x] \in ToSet(ss[part[x]])
  /\ \A i \in 1 .. n : \A e \in ToSet(ss[i]) :
       \E x \in DOMAIN c : part[x] = i /\ c[x] = e

LEMMA JoinCuts ==
  ASSUME NEW S, NEW n \in Nat, NEW ss, NEW a \in Seq(S), NEW b \in Seq(S),
         b = ss[n + 1], NEW part, IsCut(part, a, ss, n)
  PROVE  \E cut : IsCut(cut, a \o b, ss, n + 1)
<1> DEFINE c == a \o b
           cut == [x \in DOMAIN c |-> IF x <= Len(a) THEN part[x] ELSE n + 1]
<1>1. /\ c \in Seq(S) /\ Len(c) = Len(a) + Len(b)
      /\ Len(a) \in Nat /\ Len(b) \in Nat
      /\ DOMAIN a = 1 .. Len(a) /\ DOMAIN b = 1 .. Len(b) /\ DOMAIN c = 1 .. Len(c)
      /\ \A i \in 1 .. Len(a) : c[i] = a[i]
      /\ \A i \in 1 .. Len(b) : c[Len(a) + i] = b[i]
  OBVIOUS
<1> HIDE DEF c
<1>2. /\ \A x \in DOMAIN a : part[x] \in 1 .. n /\ a[x] \in ToSet(ss[part[x]])
      /\ \A x, y \in DOMAIN a : x <= y => part[x] <= part[y]
      /\ \A i \in 1 .. n : \A e \in ToSet(ss[i]) :
           \E x \in DOMAIN a : part[x] = i /\ a[x] = e
  BY DEF IsCut
<1>3. \A x \in DOMAIN c :
        \/ x \in DOMAIN a /\ cut[x] = part[x] /\ c[x] = a[x]
        \/ x > Len(a) /\ x - Len(a) \in DOMAIN b /\ cut[x] = n + 1 /\ c[x] = b[x - Len(a)]
  <2> SUFFICES ASSUME NEW x \in 1 .. Len(c)
               PROVE  \/ x \in DOMAIN a /\ cut[x] = part[x] /\ c[x] = a[x]
                      \/ /\ x > Len(a) /\ x - Len(a) \in DOMAIN b
                         /\ cut[x] = n + 1 /\ c[x] = b[x - Len(a)]
    BY <1>1
  <2>1. CASE x <= Len(a)
    BY <1>1, <2>1
  <2>2. CASE x > Len(a)
    <3>1. x - Len(a) \in 1 .. Len(b) /\ Len(a) + (x - Len(a)) = x
      BY <1>1, <2>2
    <3>2. c[x] = b[x - Len(a)]
      BY <1>1, <3>1
    <3>3. cut[x] = n + 1
      BY <1>1, <2>2
    <3>4. QED
      BY <1>1, <2>2, <3>1, <3>2, <3>3
  <2>3. x <= Len(a) \/ x > Len(a)
    BY <1>1
  <2>4. QED
    BY ONLY <2>1, <2>2, <2>3
<1>4. /\ \A x \in DOMAIN a : x \in DOMAIN c /\ cut[x] = part[x] /\ c[x] = a[x]
      /\ \A i \in DOMAIN b : /\ Len(a) + i \in DOMAIN c /\ c[Len(a) + i] = b[i]
                             /\ cut[Len(a) + i] = n + 1
  BY <1>1
<1> HIDE DEF cut
<1>5. \A x \in DOMAIN c : cut[x] \in 1 .. n + 1 /\ c[x] \in ToSet(ss[cut[x]])
  <2> SUFFICES ASSUME NEW x \in DOMAIN c
               PROVE  cut[x] \in 1 .. n + 1 /\ c[x] \in ToSet(ss[cut[x]])
    OBVIOUS
  <2>1. CASE x \in DOMAIN a /\ cut[x] = part[x] /\ c[x] = a[x]
    <3>1. part[x] \in 1 .. n /\ a[x] \in ToSet(ss[part[x]])
      BY <1>2, <2>1
    <3>2. QED
      BY <2>1, <3>1
  <2>2. CASE x > Len(a) /\ x - Len(a) \in DOMAIN b /\ cut[x] = n + 1 /\ c[x] = b[x - Len(a)]
    <3>1. c[x] \in ToSet(b)
      BY ONLY <2>2 DEF ToSet
    <3>2. QED
      BY <2>2, <3>1
  <2>3. QED
    BY ONLY <1>3, <2>1, <2>2
<1>6. \A x, y \in DOMAIN c : x <= y => cut[x] <= cut[y]
  <2> SUFFICES ASSUME NEW x \in DOMAIN c, NEW y \in DOMAIN c, x <= y
               PROVE  cut[x] <= cut[y]
    OBVIOUS
  <2>1. CASE y \in DOMAIN a
    <3>1. x \in DOMAIN a
      BY <1>1, <2>1
    <3>2. QED
      BY <1>2, <1>4, <2>1, <3>1
  <2>2. CASE y \notin DOMAIN a
    <3>1. cut[y] = n + 1 /\ cut[x] \in 1 .. n + 1
      BY <1>3, <1>5, <2>2
    <3>2. QED
      BY <3>1
  <2>3. QED
    BY <2>1, <2>2
<1>7. ASSUME NEW i \in 1 .. n + 1, NEW e \in ToSet(ss[i])
      PROVE  \E x \in DOMAIN c : cut[x] = i /\ c[x] = e
  <2>1. CASE i = n + 1
    <3>1. PICK j \in DOMAIN b : b[j] = e
      BY <1>7, <2>1 DEF ToSet
    <3>2. QED
      BY <1>4, <2>1, <3>1
  <2>2. CASE i \in 1 .. n
    <3>1. PICK x \in DOMAIN a : part[x] = i /\ a[x] = e
      BY <1>2, <1>7, <2>2
    <3>2. QED
      BY <1>4, <3>1
  <2>3. QED
    BY <2>1, <2>2
<1>8. cut \in [DOMAIN c -> 1 .. n + 1]
  <2>1. cut = [x \in DOMAIN c |-> cut[x]]
    BY DEF cut
  <2>2. QED
    BY <1>5, <2>1
<1>9. IsCut(cut, c, ss, n + 1)
  BY <1>5, <1>6, <1>7, <1>8 DEF IsCut
<1>10. QED
  BY <1>9 DEF c

LEMMA FlattenCuts ==
  ASSUME NEW S, NEW n \in Nat, NEW ss \in [1 .. n -> Seq(S)]
  PROVE  \E part : IsCut(part, FlattenSeq(ss), ss, n)
<1>1. ss \in Seq(Seq(S)) /\ Len(ss) = n
  OBVIOUS
<1>2. CASE n = 0
  <2>1. FlattenSeq(ss) = ss /\ DOMAIN ss = {}
    BY <1>1, <1>2 DEF FlattenSeq
  <2>2. IsCut(ss, FlattenSeq(ss), ss, n)
    BY <1>2, <2>1 DEF IsCut
  <2>3. QED
    BY <2>2
<1>3. CASE n # 0
  <2> DEFINE g == CHOOSE g : IsFlat(g, ss, n)
             Good(k) == g[k] \in Seq(S) /\ \E part : IsCut(part, g[k], ss, k)
             Bad == {k \in 1 .. n : ~Good(k)}
  <2>1. FlattenSeq(ss) = g[n]
    BY <1>1, <1>3 DEF FlattenSeq, IsFlat
  <2>2. IsFlat(g, ss, n)
    BY FlatExists
  <2> HIDE DEF g
  <2>3. \A i \in 1 .. n : g[i] = IF i = 1 THEN ss[i] ELSE g[i - 1] \o ss[i]
    BY <2>2 DEF IsFlat
  <2>4. Bad = {}
    <3> SUFFICES ASSUME Bad # {} PROVE FALSE
      OBVIOUS
    <3>1. PICK k \in Bad : \A j \in Bad : k <= j
      <4>1. Bad \in SUBSET Nat
        OBVIOUS
      <4> HIDE DEF Bad
      <4>2. QED
        BY <4>1, LeastOf
    <3>2. k \in 1 .. n /\ ~Good(k)
      BY <3>1
    <3>3. CASE k = 1
      <4> DEFINE part == [x \in DOMAIN ss[1] |-> 1]
      <4>1. g[k] = ss[1] /\ ss[1] \in Seq(S)
        BY <2>3, <3>2, <3>3
      <4>2. IsCut(part, ss[1], ss, 1)
        BY DEF IsCut, ToSet
      <4> HIDE DEF part
      <4>3. QED
        BY <3>2, <3>3, <4>1, <4>2
    <3>4. CASE k # 1
      <4>1. k - 1 \in 1 .. n /\ k - 1 \notin Bad
        <5> HIDE DEF Bad
        <5>1. QED
          BY <3>1, <3>2, <3>4
      <4>2. Good(k - 1) /\ ss[k] \in Seq(S)
        <5> HIDE DEF Good
        <5>1. QED
          BY <3>2, <4>1
      <4>3. g[k] = g[k - 1] \o ss[k] /\ k = (k - 1) + 1 /\ k - 1 \in Nat
        <5>1. k \in 1 .. n
          BY <3>2
        <5>2. k = (k - 1) + 1 /\ k - 1 \in Nat
          BY <5>1
        <5>3. g[k] = g[k - 1] \o ss[k]
          BY <2>3, <3>4, <5>1
        <5>4. QED
          BY <5>2, <5>3
      <4>4. PICK part : IsCut(part, g[k - 1], ss, k - 1)
        BY <4>2
      <4>5. \E cut : IsCut(cut, g[k - 1] \o ss[k], ss, (k - 1) + 1)
        BY ONLY <4>2, <4>3, <4>4, JoinCuts
      <4>6. g[k] \in Seq(S)
        BY <4>2, <4>3
      <4>7. Good(k)
        BY ONLY <4>3, <4>5, <4>6 DEF Good
      <4>8. QED
        BY ONLY <3>2, <4>7
    <3>5. QED
      BY <3>3, <3>4
  <2>5. Good(n)
    <3>1. n \in 1 .. n
      BY <1>3
    <3> HIDE DEF Good
    <3>2. QED
      BY ONLY <2>4, <3>1
  <2>6. QED
    BY ONLY <2>1, <2>5
<1>4. QED
  BY ONLY <1>2, <1>3

\* Without its repeats a list has the first place of each element, in order.
LEMMA DistinctInOrder ==
  ASSUME NEW S, NEW ids \in Seq(S),
         NEW m \in DOMAIN Distinct(ids), NEW n \in DOMAIN Distinct(ids), m < n
  PROVE  \E j, k \in DOMAIN ids :
           /\ j < k /\ ids[j] = Distinct(ids)[m] /\ ids[k] = Distinct(ids)[n]
           /\ \A l \in DOMAIN ids : ids[l] = ids[k] => k <= l
<1> DEFINE K == {k \in DOMAIN ids : \A j \in 1 .. k - 1 : ids[j] # ids[k]}
<1>1. K \in SUBSET DOMAIN ids /\ \A k \in K : \A j \in 1 .. k - 1 : ids[j] # ids[k]
  OBVIOUS
<1>2. Distinct(ids) = At(ids, K)
  BY DEF Distinct
<1> HIDE DEF K
<1>3. K \in SUBSET Nat /\ IsFiniteSet(K)
  BY <1>1, SomeIndices
<1>4. /\ Nth(K, m) < Nth(K, n) /\ Nth(K, m) \in K /\ Nth(K, n) \in K
      /\ Distinct(ids)[m] = ids[Nth(K, m)] /\ Distinct(ids)[n] = ids[Nth(K, n)]
  BY <1>2, <1>3, AtInOrder
<1>5. \A l \in DOMAIN ids : ids[l] = ids[Nth(K, n)] => Nth(K, n) <= l
  <2> DEFINE k == Nth(K, n)
  <2>0. DOMAIN ids \in SUBSET Nat /\ k \in Nat
    <3>1. DOMAIN ids = 1 .. Len(ids)
      OBVIOUS
    <3>2. Nth(K, n) \in Nat
      BY <1>3, <1>4
    <3>3. QED
      BY <3>1, <3>2
  <2> SUFFICES ASSUME NEW l \in DOMAIN ids, ids[l] = ids[k], l < k PROVE FALSE
    BY <2>0
  <2> HIDE DEF k
  <2>1. k \in K /\ k \in Nat
    BY <1>3, <1>4 DEF k
  <2>2. l \in 1 .. k - 1
    BY <2>1
  <2>3. QED
    BY <1>1, <2>1, <2>2
<1>6. QED
  BY <1>1, <1>4, <1>5

\* Of two tiles ahead, the first has a use no later than every use of the other.
DueFirst(tr, i, t, u) ==
  \E use \in Uses(tr, i, t) : \A later \in Uses(tr, i, u) : use <= later

LEMMA UsesAre ==
  ASSUME NEW tr, Len(tr) \in Nat, NEW i \in Nat, NEW t \in Tiles
  PROVE  Uses(tr, i, t) = {j \in i + 1 .. Len(tr) : Requires(tr, j, t)}
<1>1. \A j : Contains(RequiredForEvent(tr, j), t) <=> t \in ToSet(RequiredForEvent(tr, j))
  BY DEF Contains, ToSet
<1>2. \A j : Contains(RequiredForEvent(tr, j), t) <=> Requires(tr, j, t)
  BY <1>1, RequiredIs
<1>3. QED
  BY <1>2 DEF Uses

LEMMA FutureTilesInOrder ==
  ASSUME NEW tr, Len(tr) \in Nat, NEW i \in Nat,
         NEW m \in DOMAIN FutureTiles(tr, i), NEW n \in DOMAIN FutureTiles(tr, i), m < n
  PROVE  DueFirst(tr, i, FutureTiles(tr, i)[m], FutureTiles(tr, i)[n])
<1> DEFINE h == Cardinality(Horizon(tr, i))
           ss == [k \in 1 .. h |-> RequiredForEvent(tr, i + k)]
           c == FlattenSeq(ss)
           t == FutureTiles(tr, i)[m]
           u == FutureTiles(tr, i)[n]
<1>1. /\ h \in Nat
      /\ \A k \in 1 .. h : i + k \in Horizon(tr, i)
      /\ \A j \in Horizon(tr, i) : j - i \in 1 .. h
      /\ \A j : j \in Horizon(tr, i) <=> j \in i + 1 .. i + Lookahead /\ j <= Len(tr)
  BY HorizonIs
<1>2. FutureTiles(tr, i) = Distinct(c)
  BY DEF FutureTiles
<1>3. FutureTiles(tr, i) \in Seq(Tiles)
  BY FutureTilesIs
<1>4. t \in Tiles /\ u \in Tiles
  BY <1>3
<1> HIDE DEF h
<1>5. ss \in [1 .. h -> Seq(Tiles)]
  BY RequiredIs
<1>6. \A k \in 1 .. h : ToSet(ss[k]) = {x \in Tiles : Requires(tr, i + k, x)}
  BY RequiredIs
<1> HIDE DEF ss
<1>7. c \in Seq(Tiles)
  <2>1. h \in Nat
    BY <1>1
  <2>2. QED
    BY ONLY <1>5, <2>1, FlattenIs
<1>8. PICK part : IsCut(part, c, ss, h)
  <2>1. h \in Nat
    BY <1>1
  <2>2. QED
    BY ONLY <1>5, <2>1, FlattenCuts
<1> HIDE DEF c
<1>9. PICK j \in DOMAIN c, k \in DOMAIN c :
        /\ j < k /\ c[j] = t /\ c[k] = u
        /\ \A l \in DOMAIN c : c[l] = c[k] => k <= l
  <2>1. m \in DOMAIN Distinct(c) /\ n \in DOMAIN Distinct(c)
    BY <1>2
  <2>2. QED
    BY <1>2, <1>7, <2>1, DistinctInOrder
<1> HIDE DEF t, u
<1>10. part[j] \in 1 .. h /\ t \in ToSet(ss[part[j]])
  BY <1>8, <1>9 DEF IsCut
<1>11. i + part[j] \in Uses(tr, i, t)
  <2>1. Requires(tr, i + part[j], t) /\ i + part[j] \in Horizon(tr, i)
    BY <1>1, <1>6, <1>10
  <2>2. i + part[j] \in i + 1 .. Len(tr)
    BY <1>1, <1>10, <2>1
  <2>3. QED
    BY <1>4, <2>1, <2>2, UsesAre
<1>12. ASSUME NEW later \in Uses(tr, i, u) PROVE i + part[j] <= later
  <2>1. later \in i + 1 .. Len(tr) /\ Requires(tr, later, u)
    BY <1>4, <1>12, UsesAre
  <2>2. CASE later \in Horizon(tr, i)
    <3>1. later - i \in 1 .. h /\ i + (later - i) = later
      BY <1>1, <2>1, <2>2
    <3>2. u \in ToSet(ss[later - i])
      BY <1>4, <1>6, <2>1, <3>1
    <3>3. PICK x \in DOMAIN c : part[x] = later - i /\ c[x] = u
      BY <1>8, <3>1, <3>2 DEF IsCut
    <3>4. k <= x /\ j \in Nat /\ k \in Nat /\ x \in Nat /\ j <= x
      BY <1>7, <1>9, <3>3
    <3>5. part[j] <= part[x]
      BY <1>8, <1>9, <3>4 DEF IsCut
    <3>6. QED
      BY <1>10, <2>1, <3>3, <3>5
  <2>3. CASE later \notin Horizon(tr, i)
    <3>1. i + part[j] \in i + 1 .. i + Lookahead /\ Lookahead \in Int
      BY <1>1, <1>10, ManifestAssumption
    <3>2. later \notin i + 1 .. i + Lookahead /\ later \in Int /\ i + 1 <= later
      BY <1>1, <2>1, <2>3
    <3>3. QED
      BY <3>1, <3>2
  <2>4. QED
    BY <2>2, <2>3
<1>13. QED
  BY <1>11, <1>12 DEF DueFirst, t, u

LEMMA FutureInOrder ==
  ASSUME NEW tr, Len(tr) \in Nat, NEW i \in Nat,
         NEW m \in DOMAIN Future(tr, i), NEW n \in DOMAIN Future(tr, i), m < n
  PROVE  DueFirst(tr, i, Future(tr, i)[m], Future(tr, i)[n])
<1> DEFINE f == FutureTiles(tr, i)
           K == {k \in DOMAIN f : f[k] \notin ToSet(RequiredForEvent(tr, i))}
<1>1. f \in Seq(Tiles)
  BY FutureTilesIs
<1>2. Future(tr, i) = At(f, K)
  BY DEF Future
<1>3. K \in SUBSET DOMAIN f
  OBVIOUS
<1>4. \A j, k \in DOMAIN f : j < k => DueFirst(tr, i, f[j], f[k])
  BY FutureTilesInOrder
<1> HIDE DEF f, K
<1>5. K \in SUBSET Nat /\ IsFiniteSet(K)
  BY <1>1, <1>3, SomeIndices
<1>6. /\ Nth(K, m) < Nth(K, n) /\ Nth(K, m) \in K /\ Nth(K, n) \in K
      /\ Future(tr, i)[m] = f[Nth(K, m)] /\ Future(tr, i)[n] = f[Nth(K, n)]
  BY <1>2, <1>5, AtInOrder
<1>7. QED
  BY <1>3, <1>4, <1>6

-----------------------------------------------------------------------------
\* What the first place of a sum needs: totals of integers are integers.
LEMMA TotalIsInteger ==
  ASSUME NEW S, IsFiniteSet(S), NEW f, \A x \in S : f[x] \in Int
  PROVE  Totals(f, S)[S] \in Int
<1> DEFINE Bad == {s \in SUBSET S : Totals(f, s)[s] \notin Int}
<1>0. Bad \in SUBSET SUBSET S
  OBVIOUS
<1>1. ASSUME Bad # {} PROVE FALSE
  <2>1. PICK s \in Bad : \A u \in SUBSET s : u # s => u \notin Bad
    <3> HIDE DEF Bad
    <3>1. QED
      BY <1>0, <1>1, SmallestException
  <2>2. s \in SUBSET S /\ IsFiniteSet(s) /\ Totals(f, s)[s] \notin Int
    BY <2>1, FS_Subset
  <2>3. s # {}
    <3>1. Totals(f, {})[{}] = 0
      BY <2>2, TotalStep
    <3>2. s = {} => Totals(f, s)[s] = 0
      BY <3>1, Zenon
    <3>3. QED
      BY <2>2, <3>2
  <2>4. Totals(f, Rest(s))[Rest(s)] \in Int /\ f[Pick(s)] \in Int
    <3>1. Rest(s) \in SUBSET s /\ Rest(s) # s /\ Pick(s) \in s
      BY <2>3, RestIsLess
    <3>2. QED
      BY <2>1, <2>2, <3>1
  <2>5. Totals(f, s)[s] = f[Pick(s)] + Totals(f, Rest(s))[Rest(s)]
    BY <2>2, <2>3, TotalStep
  <2>6. QED
    BY <2>2, <2>4, <2>5
<1>2. S \notin Bad
  BY <1>1
<1>3. QED
  BY <1>2

LEMMA TokensType ==
  ASSUME NEW tr \in Traces, NEW i \in Nat, NEW t
  PROVE  TokensLater(tr, i, t) \in Int
<1> DEFINE U == Uses(tr, i, t)
           f == [j \in U |-> tr[j].tokens]
<1>1. Len(tr) \in Nat /\ DOMAIN tr = 1 .. Len(tr) /\ \A j \in DOMAIN tr : tr[j].tokens \in Int
  BY TraceAssumption
<1>2. U \in SUBSET (1 .. Len(tr))
  BY <1>1 DEF Uses
<1>3. IsFiniteSet(U)
  <2> HIDE DEF U
  <2>1. QED
    BY <1>1, <1>2, FirstNumbers, FS_Subset
<1>4. \A j \in U : f[j] \in Int
  BY <1>1, <1>2
<1>5. DOMAIN f = U
  OBVIOUS
<1> HIDE DEF U
<1>6. TokensLater(tr, i, t) = SumFunction(f)
  BY DEF TokensLater, U
<1> HIDE DEF f
<1>7. QED
  BY <1>3, <1>4, <1>5, <1>6, SumDef, TotalIsInteger

\* A tile that will be required is due after the event, at the first event that
\* requires it.
LEMMA DueIs ==
  ASSUME NEW tr, Len(tr) \in Nat, NEW i \in Nat, NEW t, Uses(tr, i, t) # {}
  PROVE  /\ Due(tr, i, t) \in Uses(tr, i, t)
         /\ \A use \in Uses(tr, i, t) : Due(tr, i, t) <= use
         /\ Due(tr, i, t) \in Nat /\ Due(tr, i, t) - i \in Nat \ {0}
<1>1. Uses(tr, i, t) \in SUBSET Nat /\ \A use \in Uses(tr, i, t) : i < use
  BY DEF Uses
<1>2. \E use \in Uses(tr, i, t) : \A later \in Uses(tr, i, t) : use <= later
  BY <1>1, LeastOf
<1>3. /\ Due(tr, i, t) \in Uses(tr, i, t)
      /\ \A use \in Uses(tr, i, t) : Due(tr, i, t) <= use
  BY <1>2 DEF Due, Min
<1>4. QED
  BY <1>1, <1>3

\* The distance of a score is that of the first use or of a later one, and it
\* is that of the first unless the first reads as unset and another follows.
LEMMA DistanceIs ==
  ASSUME NEW tr, Len(tr) \in Nat, NEW i \in Nat, NEW t, Uses(tr, i, t) # {}
  PROVE  /\ Distance(tr, i, t) \in Nat \ {0}
         /\ Due(tr, i, t) - i <= Distance(tr, i, t)
         /\ Due(tr, i, t) - i # Unset \/ Uses(tr, i, t) = {i + Unset}
              => Distance(tr, i, t) = Due(tr, i, t) - i
<1> DEFINE U == Uses(tr, i, t)
           V == {j \in U : j - i # Unset}
           d == Due(tr, i, t)
<1>1. /\ d \in U /\ \A use \in U : d <= use
      /\ d \in Nat /\ d - i \in Nat \ {0}
  BY DueIs
<1>2. U \in SUBSET Nat /\ Unset \in Nat
  BY ManifestAssumption DEF Uses
<1>3. V \in SUBSET U /\ \A j \in U : j \notin V <=> j - i = Unset
  OBVIOUS
<1>4. Distance(tr, i, t) = IF V = {} THEN Unset ELSE Min(V) - i
  BY DEF Distance
<1> HIDE DEF U, V, d
<1>5. CASE V = {}
  <2>1. d - i = Unset
    BY <1>1, <1>3, <1>5
  <2>2. QED
    BY <1>1, <1>4, <1>5, <2>1 DEF d
<1>6. CASE V # {}
  <2>1. \E use \in V : \A later \in V : use <= later
    <3>1. V \in SUBSET Nat
      BY <1>2, <1>3
    <3>2. QED
      BY ONLY <1>6, <3>1, LeastOf
  <2>2. Min(V) \in V /\ \A later \in V : Min(V) <= later
    BY <2>1 DEF Min
  <2>3. Min(V) \in Nat /\ d <= Min(V)
    BY <1>1, <1>2, <1>3, <2>2
  <2>4. d - i <= Min(V) - i /\ Min(V) - i \in Nat \ {0}
    BY <1>1, <2>3
  <2>5. d - i # Unset => Min(V) = d
    BY <1>1, <1>3, <2>2, <2>3
  <2>6. ASSUME U = {i + Unset} PROVE d - i # Unset
    <3>1. Min(V) = i + Unset
      BY <1>3, <2>2, <2>6
    <3>2. Min(V) - i # Unset
      BY <1>3, <2>2
    <3>3. QED
      BY <1>2, <3>1, <3>2
  <2>7. QED
    BY <1>1, <1>4, <1>6, <2>4, <2>5, <2>6 DEF d, U
<1>7. QED
  BY <1>5, <1>6

-----------------------------------------------------------------------------
(* Scores are fractions with positive denominators. *)

IsFraction(a) == a.num \in Int /\ a.den \in Nat \ {0}

LEMMA Cancel ==
  ASSUME NEW x \in Int, NEW y \in Int, NEW k \in Nat \ {0}, x * k <= y * k
  PROVE  x <= y
<1>1. ASSUME y < x PROVE FALSE
  <2>1. y + 1 <= x /\ (y + 1) * k = y * k + k
    BY <1>1
  <2>2. (y + 1) * k <= x * k
    BY <2>1
  <2>3. QED
    BY <2>1, <2>2
<1>2. QED
  BY <1>1

LEMMA Scale ==
  ASSUME NEW x \in Int, NEW y \in Int, NEW k \in Nat, x <= y
  PROVE  x * k <= y * k
OBVIOUS

LEMMA NotAboveTransitive ==
  ASSUME NEW a, NEW b, NEW c, IsFraction(a), IsFraction(b), IsFraction(c),
         NotAbove(a, b), NotAbove(b, c)
  PROVE  NotAbove(a, c)
<1> DEFINE an == a.num ad == a.den bn == b.num bd == b.den cn == c.num cd == c.den
<1>1. /\ an \in Int /\ bn \in Int /\ cn \in Int
      /\ ad \in Nat \ {0} /\ bd \in Nat \ {0} /\ cd \in Nat \ {0}
      /\ an * bd <= bn * ad /\ bn * cd <= cn * bd
  BY DEF IsFraction, NotAbove
<1>2. NotAbove(a, c) <=> an * cd <= cn * ad
  BY DEF NotAbove
<1> HIDE DEF an, ad, bn, bd, cn, cd
<1>3. (an * bd) * cd <= (bn * ad) * cd
  BY <1>1, Scale
<1>4. (bn * cd) * ad <= (cn * bd) * ad
  BY <1>1, Scale
<1>5. (bn * ad) * cd = (bn * cd) * ad /\ (an * bd) * cd = (an * cd) * bd
      /\ (cn * bd) * ad = (cn * ad) * bd
  BY <1>1
<1>6. (an * cd) * bd <= (cn * ad) * bd /\ an * cd \in Int /\ cn * ad \in Int
  BY <1>1, <1>3, <1>4, <1>5
<1>7. an * cd <= cn * ad
  BY <1>1, <1>6, Cancel
<1>8. QED
  BY <1>2, <1>7

\* 700 / d + x, or x, is larger for a smaller d or a larger x.
LEMMA SoonerScoresMore ==
  ASSUME NEW a \in {0, 700}, NEW d \in Nat \ {0}, NEW e \in Nat \ {0},
         NEW x \in Int, NEW y \in Int, y <= x, a = 700 => d <= e,
         y < x \/ (a = 700 /\ d < e)
  PROVE  (a + y * e) * d < (a + x * d) * e
<1>1. (a + y * e) * d = a * d + y * (d * e) /\ (a + x * d) * e = a * e + x * (d * e)
  OBVIOUS
<1>2. d * e \in Nat \ {0}
  OBVIOUS
<1>3. y * (d * e) <= x * (d * e) /\ y * (d * e) \in Int /\ x * (d * e) \in Int
  BY <1>2, Scale
<1>4. a * d \in Int /\ a * e \in Int /\ a * d <= a * e /\ (a = 700 /\ d < e => a * d < a * e)
  OBVIOUS
<1>5. y < x => y * (d * e) < x * (d * e)
  <2>1. x * (d * e) <= y * (d * e) => x <= y
    BY <1>2, Cancel
  <2>2. QED
    BY <1>3, <2>1
<1>6. QED
  BY <1>1, <1>3, <1>4, <1>5

\* A list whose neighbours descend descends.
LEMMA Descends ==
  ASSUME NEW len \in Nat, NEW s, \A k \in 1 .. len : IsFraction(s[k]),
         \A k \in 1 .. len - 1 : NotAbove(s[k + 1], s[k]),
         NEW m \in 1 .. len, NEW n \in 1 .. len, m < n
  PROVE  NotAbove(s[n], s[m])
<1> DEFINE Bad == {k \in m + 1 .. len : ~NotAbove(s[k], s[m])}
<1>1. ASSUME Bad # {} PROVE FALSE
  <2>1. PICK k \in Bad : \A j \in Bad : k <= j
    <3>1. Bad \in SUBSET Nat
      OBVIOUS
    <3> HIDE DEF Bad
    <3>2. QED
      BY <1>1, <3>1, LeastOf
  <2>2. k \in m + 1 .. len /\ ~NotAbove(s[k], s[m])
    BY <2>1
  <2>3. k - 1 \in 1 .. len - 1 /\ k - 1 \in 1 .. len /\ (k - 1) + 1 = k /\ k \in 1 .. len
    BY <2>2
  <2>4. NotAbove(s[k], s[k - 1])
    BY <2>3
  <2>5. CASE k - 1 = m
    BY <2>2, <2>4, <2>5
  <2>6. CASE k - 1 # m
    <3>1. k - 1 \in m + 1 .. len
      BY <2>2, <2>6
    <3>2. NotAbove(s[k - 1], s[m])
      <4>1. k - 1 \notin Bad
        <5> HIDE DEF Bad
        <5>1. QED
          BY <2>1, <2>2
      <4>2. QED
        BY <3>1, <4>1
    <3>3. NotAbove(s[k], s[m])
      BY <2>3, <2>4, <3>2, NotAboveTransitive
    <3>4. QED
      BY <2>2, <3>3
  <2>7. QED
    BY <2>5, <2>6
<1>2. n \in m + 1 .. len
  OBVIOUS
<1>3. QED
  BY <1>1, <1>2

\* What the proofs need of a tile in a plan.
LEMMA ScoreIs ==
  ASSUME NEW pol, NEW tr \in Traces, NEW i \in Nat, NEW t \in Tiles, Uses(tr, i, t) # {}
  PROVE  /\ IsFraction(Score(pol, tr, i, t))
         /\ \E a \in {0, 700}, r \in Int :
              /\ a = 0 <=> pol = "tilemem_no_deadline"
              /\ r = IF pol = "tilemem_no_eviction_regret" THEN 0
                     ELSE 30 * TokensLater(tr, i, t)
              /\ Score(pol, tr, i, t).den = Distance(tr, i, t)
              /\ Score(pol, tr, i, t).num = a + (r - 25 * Size[t]) * Distance(tr, i, t)
<1> DEFINE d == Distance(tr, i, t)
           a == IF pol = "tilemem_no_deadline" THEN 0 ELSE 700
           r == IF pol = "tilemem_no_eviction_regret" THEN 0 ELSE 30 * TokensLater(tr, i, t)
<1>1. Len(tr) \in Nat
  BY TraceIs
<1>2. d \in Nat \ {0}
  BY <1>1, DistanceIs
<1>3. TokensLater(tr, i, t) \in Int
  BY TokensType
<1>4. r \in Int /\ a \in {0, 700} /\ (a = 0 <=> pol = "tilemem_no_deadline")
  BY <1>3
<1>5. Score(pol, tr, i, t) = [num |-> a + (r - 25 * Size[t]) * d, den |-> d]
  BY DEF Score
<1>6. Size[t] \in Nat
  BY SizeAssumption
<1>7. r = IF pol = "tilemem_no_eviction_regret" THEN 0 ELSE 30 * TokensLater(tr, i, t)
  OBVIOUS
<1> HIDE DEF d, a, r
<1>8. /\ Score(pol, tr, i, t).den = d
      /\ Score(pol, tr, i, t).num = a + (r - 25 * Size[t]) * d
  BY <1>5
<1>9. IsFraction(Score(pol, tr, i, t))
  BY <1>2, <1>4, <1>6, <1>8 DEF IsFraction
<1>10. QED
  BY <1>4, <1>7, <1>8, <1>9 DEF d

\* The criteria a policy counts, as in Dominates.
BetterBy(pol, tr, i, t, u) ==
  /\ pol # "tilemem_no_deadline" => Due(tr, i, t) <= Due(tr, i, u)
  /\ pol # "tilemem_no_eviction_regret" => TokensLater(tr, i, t) >= TokensLater(tr, i, u)
  /\ Size[t] <= Size[u]
  /\ \/ pol # "tilemem_no_deadline" /\ Due(tr, i, t) < Due(tr, i, u)
     \/ pol # "tilemem_no_eviction_regret" /\ TokensLater(tr, i, t) > TokensLater(tr, i, u)
     \/ Size[t] < Size[u]

\* The better tile has the higher score, if its first use is what counts.
LEMMA BetterScoresMore ==
  ASSUME NEW pol, NEW tr \in Traces, NEW i \in Nat,
         NEW t \in Tiles, Uses(tr, i, t) # {}, NEW u \in Tiles, Uses(tr, i, u) # {},
         BetterBy(pol, tr, i, t, u),
         pol # "tilemem_no_deadline" => Distance(tr, i, t) = Due(tr, i, t) - i
  PROVE  ~NotAbove(Score(pol, tr, i, t), Score(pol, tr, i, u))
<1> DEFINE d == Distance(tr, i, t)
           e == Distance(tr, i, u)
           st == Score(pol, tr, i, t)
           su == Score(pol, tr, i, u)
           kt == TokensLater(tr, i, t)
           ku == TokensLater(tr, i, u)
<1>1. Len(tr) \in Nat
  BY TraceIs
<1>2. /\ d \in Nat \ {0} /\ e \in Nat \ {0}
      /\ Due(tr, i, t) \in Nat /\ Due(tr, i, u) \in Nat /\ Due(tr, i, u) - i <= e
  BY <1>1, DueIs, DistanceIs
<1>3. PICK a \in {0, 700}, r \in Int :
        /\ a = 0 <=> pol = "tilemem_no_deadline"
        /\ r = IF pol = "tilemem_no_eviction_regret" THEN 0 ELSE 30 * kt
        /\ st.den = d /\ st.num = a + (r - 25 * Size[t]) * d
  BY ScoreIs
<1>4. PICK b \in {0, 700}, q \in Int :
        /\ b = 0 <=> pol = "tilemem_no_deadline"
        /\ q = IF pol = "tilemem_no_eviction_regret" THEN 0 ELSE 30 * ku
        /\ su.den = e /\ su.num = b + (q - 25 * Size[u]) * e
  BY ScoreIs
<1>5. kt \in Int /\ ku \in Int
  BY TokensType
<1>6. Size[t] \in Nat /\ Size[u] \in Nat
  BY SizeAssumption
<1>7. /\ pol # "tilemem_no_deadline" => d <= e
      /\ pol # "tilemem_no_eviction_regret" => kt >= ku
      /\ Size[t] <= Size[u]
      /\ \/ pol # "tilemem_no_deadline" /\ d < e
         \/ pol # "tilemem_no_eviction_regret" /\ kt > ku
         \/ Size[t] < Size[u]
  BY <1>2 DEF BetterBy
<1> HIDE DEF d, e, st, su, kt, ku
<1> DEFINE x == r - 25 * Size[t]
           y == q - 25 * Size[u]
<1>8. /\ x \in Int /\ y \in Int /\ a = b /\ y <= x
      /\ a = 700 => d <= e
      /\ y < x \/ (a = 700 /\ d < e)
  BY <1>3, <1>4, <1>5, <1>6, <1>7
<1>9. st.num = a + x * d /\ su.num = a + y * e /\ st.den = d /\ su.den = e
  BY <1>3, <1>4, <1>8
<1> HIDE DEF x, y
<1>10. (a + y * e) * d < (a + x * d) * e
  BY <1>2, <1>3, <1>8, SoonerScoresMore
<1>11. (a + y * e) * d \in Int /\ (a + x * d) * e \in Int
  BY <1>2, <1>3, <1>8
<1>12. ~ st.num * su.den <= su.num * st.den
  BY <1>9, <1>10, <1>11
<1>13. QED
  BY <1>12 DEF NotAbove, st, su

\* Every tile of a plan will be used.
LEMMA PlannedAreUsed ==
  ASSUME NEW pol, NEW tr, Len(tr) \in Nat, NEW i \in Nat,
         NEW p \in Plans(pol, tr, i), NEW n \in DOMAIN p
  PROVE  p[n] \in Tiles /\ Uses(tr, i, p[n]) # {}
<1>1. p[n] \in Upcoming(pol, tr, i)
  <2>1. ToSet(p) = Upcoming(pol, tr, i)
    BY PlansAre
  <2>2. p[n] \in ToSet(p)
    BY DEF ToSet
  <2>3. QED
    BY <2>1, <2>2
<1>2. PICK j \in Horizon(tr, i) : p[n] \in Tiles /\ Requires(tr, j, p[n])
  BY <1>1 DEF Upcoming
<1>3. j \in i + 1 .. Len(tr)
  BY HorizonIs, ManifestAssumption
<1>4. QED
  BY <1>2, <1>3, UsesAre

\* Policies that keep the order of the trace plan what is due first.
THEOREM PlansAreInDueOrder == ReplaySpec => []DueTilesFirst
<1>1. ReplayInv => DueTilesFirst
  <2>1. SUFFICES ASSUME ReplayInv, policy \in InOrderPolicies,
                        NEW p \in Plans(policy, trace, event),
                        NEW m \in DOMAIN p, NEW n \in DOMAIN p, m < n
                 PROVE  Due(trace, event, p[m]) <= Due(trace, event, p[n])
    BY DEF DueTilesFirst
  <2>2. event \in Nat /\ Len(trace) \in Nat
    BY <2>1, TraceIs DEF ReplayInv, LoopInv
  <2>3. p = Future(trace, event)
    <3>1. p = <<>> \/ p = Future(trace, event)
      BY <2>1 DEF Plans
    <3>2. QED
      BY <2>1, <3>1
  <2>4. PICK use \in Uses(trace, event, p[m]) :
          \A later \in Uses(trace, event, p[n]) : use <= later
    BY <2>1, <2>2, <2>3, FutureInOrder DEF DueFirst
  <2>5. Uses(trace, event, p[n]) # {}
    BY <2>1, <2>2, PlannedAreUsed
  <2>6. /\ Due(trace, event, p[m]) <= use
        /\ Due(trace, event, p[n]) \in Uses(trace, event, p[n])
        /\ Due(trace, event, p[m]) \in Nat /\ Due(trace, event, p[n]) \in Nat
    BY <2>2, <2>4, <2>5, DueIs
  <2>7. use \in Nat /\ use <= Due(trace, event, p[n])
    BY <2>2, <2>4, <2>6 DEF Uses
  <2>8. QED
    BY <2>6, <2>7
<1>2. QED
  BY <1>1, ReplayInvHolds, PTL

\* Policies that sort by score plan no tile before a better one, whatever the
\* trace, the sizes and the lookahead, but for a better tile whose first use is
\* as far ahead as what stands for "not set" and overwritten by a later use.
THEOREM PlansAreBestFirst == ReplaySpec => []BetterTilesFirst
<1>1. ReplayInv => BetterTilesFirst
  <2>1. SUFFICES ASSUME ReplayInv, policy \in ScoredPolicies,
                        NEW p \in Plans(policy, trace, event),
                        NEW m \in DOMAIN p, NEW n \in DOMAIN p, m < n,
                        policy # "tilemem_no_deadline" => ~Overwritten(p[n]),
                        Dominates(p[n], p[m])
                 PROVE  FALSE
    BY DEF BetterTilesFirst
  <2>2. event \in Nat /\ Len(trace) \in Nat /\ trace \in Traces
    BY <2>1, TraceIs DEF ReplayInv, LoopInv
  <2> DEFINE s == [k \in 1 .. Len(p) |-> Score(policy, trace, event, p[k])]
  <2>3. p \in Seq(Tiles) /\ Len(p) \in Nat /\ DOMAIN p = 1 .. Len(p)
    BY <2>1, <2>2, PlansAre
  <2>4. \A k \in 1 .. Len(p) : p[k] \in Tiles /\ Uses(trace, event, p[k]) # {}
    BY <2>1, <2>2, <2>3, PlannedAreUsed
  <2>5. \A k \in 1 .. Len(p) : IsFraction(s[k])
    BY <2>2, <2>4, ScoreIs
  <2>6. p \in ByScore(policy, trace, event)
    <3>1. p # <<>>
      BY <2>1, <2>3
    <3>2. policy \notin InOrderPolicies
      BY <2>1 DEF ScoredPolicies, InOrderPolicies
    <3>3. QED
      BY <2>1, <3>1, <3>2 DEF Plans
  <2>7. \A k \in 1 .. Len(p) - 1 : NotAbove(s[k + 1], s[k])
    <3>1. \A k \in 1 .. Len(p) - 1 : k \in 1 .. Len(p) /\ k + 1 \in 1 .. Len(p)
      BY <2>3
    <3>2. QED
      BY <2>6, <3>1 DEF ByScore
  <2>8. m \in 1 .. Len(p) /\ n \in 1 .. Len(p)
    BY <2>1, <2>3
  <2> HIDE DEF s
  <2>9. NotAbove(s[n], s[m])
    BY ONLY <2>1, <2>3, <2>5, <2>7, <2>8, Descends
  <2>10. NotAbove(Score(policy, trace, event, p[n]), Score(policy, trace, event, p[m]))
    BY <2>8, <2>9 DEF s
  <2>11. BetterBy(policy, trace, event, p[n], p[m])
    BY <2>1 DEF Dominates, BetterBy
  <2>12. policy # "tilemem_no_deadline"
           => Distance(trace, event, p[n]) = Due(trace, event, p[n]) - event
    BY <2>1, <2>2, <2>4, <2>8, DistanceIs DEF Overwritten
  <2>13. QED
    BY <2>2, <2>4, <2>8, <2>10, <2>11, <2>12, BetterScoresMore
<1>2. QED
  BY <1>1, ReplayInvHolds, PTL

=============================================================================
