------------------------------- MODULE Replay -------------------------------
(***************************************************************************)
(* The replay tool (src/tools/replay/main.cc): one pass over a routing     *)
(* trace, in which the Scheduler plans each event and the MemoryManager    *)
(* brings the planned tiles into HBM: first those of later events, then    *)
(* those the event requires, each of which is computed on at once.  Any    *)
(* exception ends the process without metrics.                             *)
(***************************************************************************)
EXTENDS MemoryManager, SequencesExt

CONSTANTS
  TileOrder, LayerOf, ExpertOf, Lookahead, Unset,  \* as in Scheduler
  Traces                                           \* routing traces under study

INSTANCE Scheduler

ASSUME ReplayAssumption == \A s \in Setups : ~s.retry
\* A trace is a list of events, and TileOrder lists the manifest.
ASSUME TraceAssumption ==
  \A t \in Traces : t \in Seq(ToSet(t)) /\ \A j \in DOMAIN t : t[j].tokens \in Int
ASSUME ManifestAssumption ==
  /\ TileOrder \in Seq(Tiles) /\ IsInjective(TileOrder)
  /\ ToSet(TileOrder) = Tiles
  /\ Lookahead \in Int /\ Unset \in Nat \ {0}

VARIABLES
  policy,        \* config.policy
  trace,         \* the loaded trace
  event,         \* index of the event in progress
  phase,         \* the loop main is in
  queue,         \* ids that loop has still to serve, the current one first
  awaiting,      \* ensure_hbm has been called for the current one
  prefetched,    \* set prefetched
  used,          \* set used
  prefetchHits,  \* metrics.prefetch_hits
  gemmCalls,     \* metrics.gemm_calls
  demandMisses,  \* HBM misses of the required loop (history)
  report         \* the metrics main derives at the end

loopVars == <<phase, queue, awaiting>>
setVars == <<prefetched, used>>
countVars == <<prefetchHits, gemmCalls, demandMisses, report>>
inputVars == <<policy, trace>>
replayVars == <<inputVars, event, loopVars, setVars, countVars>>

NoReport == [prefetchWaste |-> 0, deadlineMisses |-> 0, evictionCount |-> 0]

ReplayInit ==
  /\ Init
  /\ policy \in Policies /\ trace \in Traces
  /\ DisableDramCache <=> policy = "tilemem_no_dram_cache"
  /\ event = 1
  /\ phase = "plan" /\ queue = <<>> /\ awaiting = FALSE
  /\ prefetched = {} /\ used = {}
  /\ prefetchHits = 0 /\ gemmCalls = 0 /\ demandMisses = 0
  /\ report = NoReport

Required == RequiredForEvent(trace, event)

-----------------------------------------------------------------------------
Plan ==
  /\ phase = "plan"
  /\ event <= Len(trace)
  /\ queue' \in Plans(policy, trace, event)
  /\ phase' = "prefetch"
  /\ UNCHANGED <<vars, inputVars, event, awaiting, setVars, countVars>>

\* ensure_hbm for the next planned tile.  The `seen` set of the loop skips
\* nothing: a plan has no repeats.
PrefetchCall ==
  /\ phase = "prefetch" /\ queue # <<>> /\ ~awaiting
  /\ Ensure(Head(queue))
  /\ awaiting' = TRUE
  /\ UNCHANGED <<inputVars, event, phase, queue, setVars, countVars>>

PrefetchReturn ==
  /\ phase = "prefetch" /\ awaiting /\ pc = "idle"
  /\ prefetched' = prefetched \union {Head(queue)}
  /\ queue' = Tail(queue) /\ awaiting' = FALSE
  /\ UNCHANGED <<vars, inputVars, event, phase, used, countVars>>

PrefetchDone ==
  /\ phase = "prefetch" /\ queue = <<>>
  /\ phase' = "required"
  /\ queue' = Required
  /\ UNCHANGED <<vars, inputVars, event, awaiting, setVars, countVars>>

-----------------------------------------------------------------------------
\* Mutant: a prefetched tile counts as a hit even if it has been evicted.
HitFromPrefetchEver(t) == t \in prefetched

HitFromPrefetch(t) == t \in prefetched /\ t \in hbm

\* Mutant: the weight is looked up once, and ensured only if it is missing
\* from the tiles prefetched so far.
RequiredCallTrustsPrefetch ==
  /\ phase = "required" /\ queue # <<>> /\ ~awaiting
  /\ LET t == Head(queue) IN
       /\ prefetchHits' = prefetchHits + IF t \in prefetched THEN 1 ELSE 0
       /\ used' = used \union {t}
       /\ IF t \in prefetched THEN UNCHANGED vars ELSE Ensure(t)
       /\ UNCHANGED demandMisses
  /\ awaiting' = TRUE
  /\ UNCHANGED <<inputVars, event, phase, queue, prefetched, gemmCalls, report>>

RequiredCall ==
  /\ phase = "required" /\ queue # <<>> /\ ~awaiting
  /\ LET t == Head(queue) IN
       /\ prefetchHits' = prefetchHits + IF HitFromPrefetch(t) THEN 1 ELSE 0
       /\ used' = used \union {t}
       /\ demandMisses' = demandMisses + IF t \in hbm THEN 0 ELSE 1
       /\ Ensure(t)
  /\ awaiting' = TRUE
  /\ UNCHANGED <<inputVars, event, phase, queue, prefetched, gemmCalls, report>>

\* compute_queue.run on the pointer ensure_hbm has just returned.
Compute ==
  /\ phase = "required" /\ awaiting /\ pc = "idle"
  /\ gemmCalls' = gemmCalls + 1
  /\ queue' = Tail(queue) /\ awaiting' = FALSE
  /\ UNCHANGED <<vars, inputVars, event, phase, setVars, prefetchHits,
                 demandMisses, report>>

\* An exception of ensure_hbm, or of the kernel, reaches main's handler.
EnsureThrew ==
  /\ phase \in {"prefetch", "required"} /\ pc = "dead"
  /\ phase' = "failed"
  /\ UNCHANGED <<vars, inputVars, event, queue, awaiting, setVars, countVars>>

ComputeThrows ==
  /\ phase = "required" /\ awaiting /\ pc = "idle"
  /\ Fault
  /\ phase' = "failed"
  /\ UNCHANGED <<setup, pc, cur, clock, entryVars, dramPool, hbmPool, metrics,
                 failed, starved, inputVars, event, queue, awaiting, setVars,
                 countVars>>

-----------------------------------------------------------------------------
NextEvent ==
  /\ phase = "required" /\ queue = <<>>
  /\ event' = event + 1
  /\ phase' = "plan"
  /\ UNCHANGED <<vars, inputVars, queue, awaiting, setVars, countVars>>

NotNegative(n) == IF n > 0 THEN n ELSE 0

Finish ==
  /\ phase = "plan" /\ event > Len(trace)
  /\ report' = [prefetchWaste  |-> Cardinality(prefetched \ used),
                deadlineMisses |-> NotNegative(metrics["hbmMisses"]
                                                 - prefetchHits),
                evictionCount  |-> NotNegative(metrics["reloads"]
                                                 - metrics["dramMisses"])]
  /\ phase' = "done"
  /\ UNCHANGED <<vars, inputVars, event, queue, awaiting, setVars,
                 prefetchHits, gemmCalls, demandMisses>>

\* The last synchronisation, or the writing of the metrics, throws.
FinishThrows ==
  /\ phase = "plan" /\ event > Len(trace)
  /\ Fault
  /\ phase' = "failed"
  /\ UNCHANGED <<setup, pc, cur, clock, entryVars, dramPool, hbmPool, metrics,
                 failed, starved, inputVars, event, queue, awaiting, setVars,
                 countVars>>

MemoryStep == CallStep /\ UNCHANGED replayVars

ReplayStep ==
  \/ MemoryStep
  \/ Plan
  \/ PrefetchCall
  \/ PrefetchReturn
  \/ PrefetchDone
  \/ RequiredCall
  \/ Compute
  \/ EnsureThrew
  \/ ComputeThrows
  \/ NextEvent
  \/ Finish
  \/ FinishThrows

allVars == <<vars, replayVars>>

\* One thread runs main to the end.
ReplaySpec ==
  ReplayInit /\ [][ReplayStep]_allVars /\ WF_allVars(ReplayStep)

-----------------------------------------------------------------------------
\* A plan is what the next Lookahead events require and the current one does
\* not, each tile once, or nothing under a policy without prefetching.
PlanIsUpcoming ==
  phase = "plan" /\ event <= Len(trace) =>
    \A p \in Plans(policy, trace, event) :
      /\ IsInjective(p)
      /\ ToSet(p) =
           IF policy \in NoPrefetchPolicies \/ Lookahead <= 0
           THEN {}
           ELSE {t \in Tiles : /\ \E j \in event + 1 .. event + Lookahead :
                                    /\ j <= Len(trace)
                                    /\ trace[j].layer = LayerOf[t]
                                    /\ ExpertOf[t] \in trace[j].experts
                               /\ ~ /\ trace[event].layer = LayerOf[t]
                                    /\ ExpertOf[t] \in trace[event].experts}

\* Under a policy that keeps the order of the trace, no tile of a plan is due
\* after one that comes later in it: what layers and repeats do to the order
\* of the events ahead is no more than that.
DueTilesFirst ==
  phase = "plan" /\ event <= Len(trace) /\ policy \in InOrderPolicies =>
    \A p \in Plans(policy, trace, event) : \A m, n \in DOMAIN p :
      m < n => Due(trace, event, p[m]) <= Due(trace, event, p[n])

\* The first use of t is exactly as far ahead as what stands for "not set", and
\* another use follows.
Overwritten(t) ==
  Due(trace, event, t) - event = Unset /\ Uses(trace, event, t) # {event + Unset}

\* By every criterion the policy counts t is as good as u, and better by one:
\* it is due earlier, used by more tokens, or smaller.
Dominates(t, u) ==
  LET urgency == policy # "tilemem_no_deadline"
      regret == policy # "tilemem_no_eviction_regret"
      due(x) == Due(trace, event, x)
      tokens(x) == TokensLater(trace, event, x)
  IN  /\ urgency => due(t) <= due(u)
      /\ regret => tokens(t) >= tokens(u)
      /\ Size[t] <= Size[u]
      /\ \/ urgency /\ due(t) < due(u)
         \/ regret /\ tokens(t) > tokens(u)
         \/ Size[t] < Size[u]

\* A policy that sorts by score never prefetches a tile before one that is
\* better by every criterion of its score, due dates being those of the trace
\* and not the distances the score is made of.  The exception is the code's
\* own: a better tile whose first use is overwritten, under a policy that
\* counts urgency, is ranked as if it were due later.
BetterTilesFirst ==
  phase = "plan" /\ event <= Len(trace) /\ policy \in ScoredPolicies =>
    \A p \in Plans(policy, trace, event) : \A m, n \in DOMAIN p :
      m < n /\ (policy # "tilemem_no_deadline" => ~Overwritten(p[n]))
        => ~Dominates(p[n], p[m])

\* The kernel never runs on a weight that is not in HBM: between the plan and
\* the kernel no prefetch of the same event, no eviction and no failure takes
\* the tile away, even when prefetching evicts what the event requires.
ComputesOnResidentWeight ==
  [][gemmCalls' # gemmCalls =>
       /\ Head(queue) \in hbm
       /\ [ptr |-> hbmPtr[Head(queue)], bytes |-> Size[Head(queue)]]
            \in hbmAllocs]_allVars

\* What the metrics of prefetching say.  A prefetch hit is a hit: what is
\* counted before ensure_hbm runs is still in HBM when ensure_hbm looks.
\* Policies only prefetch what the rest of the trace requires, so a finished
\* replay has used all it prefetched, and prefetch_waste stays 0 however often
\* a prefetched tile was evicted before its event.  And without prefetching
\* every HBM miss is a deadline miss and none is hidden.
PrefetchMetrics ==
  /\ prefetchHits <= metrics["hbmHits"]
  /\ phase = "done" =>
       /\ prefetched \subseteq used /\ report.prefetchWaste = 0
       /\ policy \in NoPrefetchPolicies => report.deadlineMisses = demandMisses

=============================================================================
