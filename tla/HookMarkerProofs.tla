-------------------------- MODULE HookMarkerProofs --------------------------
(***************************************************************************)
(* The evidence of a run never counts a call twice, and a server of one    *)
(* process loses few calls: for every set of servers and processes, every  *)
(* flush interval, and any number of calls, restarts, kills and I/O        *)
(* errors.                                                                 *)
(***************************************************************************)
EXTENDS HookMarker, FiniteSetTheorems, TLAPS

\* The values of the parts that carry counts.
Types ==
  /\ mem \in [Procs -> Hook]
  /\ buffer \in [Procs -> Marker]
  /\ file \in Marker
  /\ calls \in Nat

\* What a process keeps, is about to write, or has left in the file counts no
\* more than the calls there have been; the marker of an earlier run may count
\* more, but is never read.
CountsWithin ==
  /\ \A p \in Procs : mem[p].count <= calls /\ buffer[p].hook.count <= calls
  /\ file.run # "old" => file.hook.count <= calls

IInv == Types /\ CountsWithin

-----------------------------------------------------------------------------
\* No record at all is a record of no calls.
LEMMA NothingCountsNothing ==
  /\ NoHook \in Hook /\ NoHook.count = 0
  /\ Nothing \in Marker /\ Nothing.hook = NoHook /\ Nothing.run # "old"
  /\ \A m \in Marker : m.hook \in Hook
BY DEF NoHook, Hook, Nothing, Marker

\* _read_marker returns nothing of an earlier run.
LEMMA ReadMarkerWithin ==
  ASSUME IInv
  PROVE  /\ ReadMarker \in Marker
         /\ ReadMarker.hook \in Hook
         /\ ReadMarker.hook.count <= calls
<1>1. CASE state # "good" \/ file.run = "old"
  <2>1. ReadMarker = Nothing
    BY <1>1 DEF ReadMarker
  <2> QED BY <2>1, NothingCountsNothing DEF IInv, Types
<1>2. CASE ~(state # "good" \/ file.run = "old")
  <2>1. ReadMarker = file
    BY <1>2 DEF ReadMarker
  <2> QED BY <2>1, <1>2 DEF IInv, Types, CountsWithin, Marker
<1> QED BY <1>1, <1>2

\* What a marker becomes when a process adds what it knows.
LEMMA UpdatesKeepCounts ==
  ASSUME NEW m \in Marker, NEW hook \in Hook
  PROVE  /\ Installed(m) \in Marker /\ Installed(m).hook = m.hook
         /\ Bootstrapped(m) \in Marker /\ Bootstrapped(m).hook = m.hook
         /\ [m EXCEPT !.run = "now", !.hooked = TRUE, !.hook = hook] \in Marker
         /\ [m EXCEPT !.run = "now", !.hooked = TRUE, !.hook = hook].hook = hook
BY DEF Installed, Bootstrapped, Marker

\* The verification does not touch the number of calls.
LEMMA VerifiedKeepsCount ==
  ASSUME NEW hook \in Hook, NEW result, NEW dispatch
  PROVE  /\ Verified(hook, result, dispatch) \in Hook
         /\ Verified(hook, result, dispatch).count = hook.count
BY DEF Verified, Hook

\* One call more.
LEMMA CountedOnce ==
  ASSUME NEW hook \in Hook
  PROVE  /\ [hook EXCEPT !.active = TRUE, !.count = @ + 1] \in Hook
         /\ [hook EXCEPT !.active = TRUE, !.count = @ + 1].count = hook.count + 1
<1> DEFINE active == [hook EXCEPT !.active = TRUE]
<1>1. active \in Hook /\ active.count = hook.count
  BY DEF Hook
<1>2. /\ [hook EXCEPT !.active = TRUE, !.count = @ + 1]
           = [active EXCEPT !.count = hook.count + 1]
      /\ hook.count + 1 \in Nat
  BY <1>1 DEF Hook
<1> HIDE DEF active
<1>3. /\ [active EXCEPT !.count = hook.count + 1] \in Hook
      /\ [active EXCEPT !.count = hook.count + 1].count = hook.count + 1
  BY <1>1, <1>2 DEF Hook
<1> QED BY <1>2, <1>3

\* Closing the file leaves what the process read and changed, or a torn file.
LEMMA WriteOutWithin ==
  ASSUME IInv, NEW p \in Procs, WriteOut(p)
  PROVE  file' \in Marker /\ file'.hook.count <= calls
BY NothingCountsNothing DEF WriteOut, IInv, Types, CountsWithin

-----------------------------------------------------------------------------
LEMMA InitIInv == Init => IInv
<1> SUFFICES ASSUME Init PROVE IInv
  OBVIOUS
<1>1. OldMarker \in Marker
  BY DEF OldMarker, Marker, Hook
<1>2. Types
  BY <1>1, NothingCountsNothing DEF Init, Types
<1>3. CountsWithin
  BY NothingCountsNothing DEF Init, CountsWithin, OldMarker
<1> QED BY <1>2, <1>3 DEF IInv

\* A step that makes no call keeps the invariant if what it puts into memory,
\* buffer and file counts no more than the calls there have been.
LEMMA QuietStep ==
  ASSUME IInv, server' = server, calls' = calls, NEW p \in Procs,
         NEW hook \in Hook, hook.count <= calls, NEW m \in Marker, m.hook.count <= calls,
         mem' = mem \/ mem' = [mem EXCEPT ![p] = hook],
         buffer' = buffer \/ buffer' = [buffer EXCEPT ![p] = m],
         file' = file \/ (file' \in Marker /\ file'.hook.count <= calls)
  PROVE  IInv'
<1>1. Procs' = Procs
  BY DEF Procs
<1>2. mem' \in [Procs -> Hook] /\ \A q \in Procs : mem'[q].count <= calls
  BY DEF IInv, Types, CountsWithin
<1>3. buffer' \in [Procs -> Marker] /\ \A q \in Procs : buffer'[q].hook.count <= calls
  BY DEF IInv, Types, CountsWithin
<1>4. file' \in Marker /\ (file'.run # "old" => file'.hook.count <= calls)
  BY DEF IInv, Types, CountsWithin
<1> QED BY <1>1, <1>2, <1>3, <1>4 DEF IInv, Types, CountsWithin

LEMMA NextIInv == IInv /\ [Next]_vars => IInv'
<1> SUFFICES ASSUME IInv, [Next]_vars PROVE IInv'
  OBVIOUS
<1>0. CASE UNCHANGED vars
  BY <1>0 DEF vars, procVars, fileVars, countVars, IInv, Types, CountsWithin, Procs
<1>1. ASSUME server' = server, NEW p \in Procs,
             Start(p) \/ StartFails(p) \/ OpenMarker(p) \/ InstallWritten(p) \/ Reread(p)
             \/ BootWritten(p) \/ ErrorWritten(p) \/ FlushWritten(p) \/ Exit(p)
             \/ ExitWritten(p) \/ Kill(p) \/ UpdateRaises(p)
      PROVE  IInv'
  <2> USE <1>1
  <2>0. /\ NoHook \in Hook /\ NoHook.count <= calls
        /\ Nothing \in Marker /\ Nothing.hook.count <= calls
    BY NothingCountsNothing DEF IInv, Types
  <2>1. CASE Start(p)
    <3>1. Installed(ReadMarker) \in Marker /\ Installed(ReadMarker).hook.count <= calls
      BY ReadMarkerWithin, UpdatesKeepCounts
    <3> QED BY <2>0, <2>1, <3>1, QuietStep DEF Start, fileVars
  <2>2. CASE StartFails(p)
    BY <2>0, <2>2, QuietStep DEF StartFails, fileVars
  <2>3. CASE OpenMarker(p)
    BY <2>0, <2>3, QuietStep DEF OpenMarker, Truncate, procVars, countVars
  <2>4. CASE InstallWritten(p)
    BY <2>0, <2>4, WriteOutWithin, QuietStep DEF InstallWritten, countVars
  <2>5. CASE Reread(p)
    <3>1. Bootstrapped(ReadMarker) \in Marker /\ Bootstrapped(ReadMarker).hook.count <= calls
      BY ReadMarkerWithin, UpdatesKeepCounts
    <3> QED BY <2>0, <2>5, <3>1, QuietStep DEF Reread, fileVars, countVars
  <2>6. CASE BootWritten(p)
    BY <2>0, <2>6, WriteOutWithin, QuietStep DEF BootWritten, countVars
  <2>7. CASE ErrorWritten(p)
    BY <2>0, <2>7, WriteOutWithin, QuietStep DEF ErrorWritten, countVars
  <2>8. CASE FlushWritten(p)
    BY <2>0, <2>8, WriteOutWithin, QuietStep DEF FlushWritten, countVars
  <2>9. CASE Exit(p)
    <3>1. mem[p] \in Hook /\ mem[p].count <= calls
      BY DEF IInv, Types, CountsWithin
    <3>2. Flushed(mem[p]) \in Marker /\ Flushed(mem[p]).hook = mem[p]
      BY <3>1, ReadMarkerWithin, UpdatesKeepCounts DEF Flushed
    <3>3. buffer' = buffer \/ buffer' = [buffer EXCEPT ![p] = Flushed(mem[p])]
      BY <2>9 DEF Exit
    <3>4. PICK hook \in {mem[p], NoHook} : mem' = [mem EXCEPT ![p] = hook]
      BY <2>9 DEF Exit
    <3>5. calls' = calls /\ file' = file
      BY <2>9 DEF Exit, fileVars, countVars
    <3> QED BY <2>0, <3>1, <3>2, <3>3, <3>4, <3>5, QuietStep
  <2>10. CASE ExitWritten(p)
    BY <2>0, <2>10, WriteOutWithin, QuietStep DEF ExitWritten, countVars
  <2>11. CASE Kill(p)
    BY <2>0, <2>11, QuietStep DEF Kill
  <2>12. CASE UpdateRaises(p)
    <3>1. mem' = mem \/ mem' = [mem EXCEPT ![p] = NoHook]
      BY <2>12 DEF UpdateRaises
    <3>2. buffer' = buffer \/ buffer' = [buffer EXCEPT ![p] = Nothing]
      BY <2>12 DEF UpdateRaises
    <3>3. calls' = calls /\ (file' = file \/ file' = Nothing)
      BY <2>12 DEF UpdateRaises
    <3> QED BY <2>0, <3>1, <3>2, <3>3, QuietStep
  <2> QED
    BY <2>1, <2>2, <2>3, <2>4, <2>5, <2>6, <2>7, <2>8, <2>9, <2>10, <2>11, <2>12
<1>2. ASSUME server' = server, NEW p \in Procs, Invoke(p) PROVE IInv'
  <2>1. PICK result \in {"none", "out"}, dispatch \in {"none", "in"} :
          LET hook == [Verified(Known(p), result, dispatch) EXCEPT
                         !.active = TRUE, !.count = @ + 1]
          IN  /\ mem' = [mem EXCEPT ![p] = hook]
              /\ buffer' = buffer \/ buffer' = [buffer EXCEPT ![p] = Flushed(hook)]
    BY <1>2 DEF Invoke
  <2> DEFINE hook == [Verified(Known(p), result, dispatch) EXCEPT
                        !.active = TRUE, !.count = @ + 1]
  <2>2. Known(p) \in Hook /\ Known(p).count <= calls
    BY ReadMarkerWithin DEF Known, IInv, Types, CountsWithin
  <2>3. Verified(Known(p), result, dispatch) \in Hook
        /\ Verified(Known(p), result, dispatch).count = Known(p).count
    BY <2>2, VerifiedKeepsCount
  <2>4. calls \in Nat /\ calls' = calls + 1 /\ file' = file
    BY <1>2 DEF Invoke, IInv, Types, fileVars
  <2>5. hook \in Hook /\ hook.count <= calls'
    <3>1. hook \in Hook /\ hook.count = Verified(Known(p), result, dispatch).count + 1
      BY <2>3, CountedOnce
    <3>2. Known(p).count \in Nat
      BY <2>2 DEF Hook
    <3> QED BY <2>2, <2>3, <2>4, <3>1, <3>2
  <2>6. Flushed(hook) \in Marker /\ Flushed(hook).hook = hook
    BY <2>5, ReadMarkerWithin, UpdatesKeepCounts DEF Flushed
  <2>7. Procs' = Procs
    BY <1>2 DEF Procs
  <2>8. /\ mem' = [mem EXCEPT ![p] = hook]
        /\ buffer' = buffer \/ buffer' = [buffer EXCEPT ![p] = Flushed(hook)]
    BY <2>1
  <2> HIDE DEF hook
  <2>9. \A q \in Procs : /\ mem[q] \in Hook /\ mem[q].count <= calls
                         /\ buffer[q] \in Marker /\ buffer[q].hook.count <= calls
                         /\ mem[q].count \in Nat /\ buffer[q].hook.count \in Nat
    BY DEF IInv, Types, CountsWithin, Marker, Hook
  <2>10. mem' \in [Procs -> Hook] /\ \A q \in Procs : mem'[q].count <= calls'
    <3>1. mem' \in [Procs -> Hook] /\ \A q \in Procs : mem'[q] = IF q = p THEN hook ELSE mem[q]
      BY <2>5, <2>8 DEF IInv, Types
    <3>2. \A q \in Procs : mem[q].count <= calls'
      BY <2>4, <2>9
    <3> QED BY <2>5, <3>1, <3>2
  <2>11. buffer' \in [Procs -> Marker] /\ \A q \in Procs : buffer'[q].hook.count <= calls'
    <3>1. /\ buffer' \in [Procs -> Marker]
          /\ \A q \in Procs : buffer'[q] = buffer[q] \/ buffer'[q] = Flushed(hook)
      BY <2>6, <2>8 DEF IInv, Types
    <3>2. \A q \in Procs : buffer[q].hook.count <= calls'
      BY <2>4, <2>9
    <3> QED BY <2>5, <2>6, <3>1, <3>2
  <2>12. file' \in Marker /\ (file'.run # "old" => file'.hook.count <= calls')
    <3>1. file.hook.count \in Nat
      BY DEF IInv, Types, Marker, Hook
    <3> QED BY <2>4, <3>1 DEF IInv, Types, CountsWithin
  <2> QED BY <2>4, <2>7, <2>10, <2>11, <2>12 DEF IInv, Types, CountsWithin
<1> QED BY <1>0, <1>1, <1>2 DEF Next

\* Evidence that the sweep accepts never counts a call twice and never one of
\* another run, however the processes' updates of the marker interleave, and
\* whoever is killed or fails to write.
THEOREM EvidenceNeverOverCounts == Spec => []NeverOverCounts
<1>1. IInv => NeverOverCounts
  BY DEF IInv, CountsWithin, NeverOverCounts, Accepted
<1> QED BY <1>1, InitIInv, NextIInv, PTL DEF Spec

-----------------------------------------------------------------------------
(* A server of one process *)

\* A server of one process whose start-up writes, and no update of the marker
\* cut after its truncation.
Undisturbed ==
  /\ Cardinality(Procs) = 1 /\ ~BootMayFail
  /\ cuts = 0 /\ errors.boot = 0

\* What the marker says, or will say once the update in progress is written.
Saved(p) == IF p \in writing THEN buffer[p] ELSE ReadMarker

Evidence(m) == m.run = "now" /\ m.booted

\* Failures that may cost calls, and how many they may cost.
Failures == kills + errors.flush + errors.exit
Cost == Failures * FlushInterval

Labels == Updating \union {"off", "reread", "serve", "unhooked"}

Counters ==
  /\ pc \in [Procs -> Labels]
  /\ cuts \in Nat /\ kills \in Nat
  /\ errors \in [{"boot", "flush", "exit"} -> Nat]

\* The process is the only writer, and writes where the code updates the file.
OnlyWriter(p) ==
  /\ writing \subseteq {p} /\ clashed = {}
  /\ pc[p] \in {"off", "install", "reread", "boot", "serve", "flush", "exit"}
  /\ p \in writing => pc[p] \in {"install", "boot", "flush", "exit"}

\* A process counts, and may have something to flush, from its first call on.
Counting(p) ==
  /\ p \in dirty => mem[p].active
  /\ mem[p].active => pc[p] \in {"serve", "flush", "exit"}
  /\ pc[p] \in {"flush", "exit"} => p \in dirty

\* What is about to be written takes the counts over at start-up, and is what
\* the process has counted later on; it keeps the bootstrap's fields.
Buffered(p) ==
  /\ pc[p] \in {"install", "boot"} =>
       /\ buffer[p].run = "now" /\ buffer[p].hook.count = Saved(p).hook.count
       /\ Evidence(Saved(p)) => Evidence(buffer[p])
  /\ pc[p] = "boot" => Evidence(buffer[p])
  /\ pc[p] \in {"flush", "exit"} => buffer[p].hook = mem[p] /\ Evidence(buffer[p])

\* The bootstrap's fields are there when a call is made, and stay.
Booted(p) ==
  pc[p] \in {"serve", "flush", "exit"} \/ calls > 0 => Evidence(Saved(p))

\* What the process and the marker may have missed.
Missed(p) ==
  /\ ~mem[p].active => calls - Saved(p).hook.count <= Cost
  /\ mem[p].active => calls - mem[p].count <= Cost
  /\ mem[p].active /\ pc[p] # "flush" =>
       calls - Saved(p).hook.count <= Cost + (mem[p].count % FlushInterval)
  /\ pc[p] = "flush" => calls - Saved(p).hook.count <= Cost + FlushInterval
  /\ mem[p].active /\ p \notin dirty => Saved(p).hook.count = mem[p].count
  /\ kills = 0 /\ errors.exit = 0 =>
       calls = IF mem[p].active THEN mem[p].count ELSE Saved(p).hook.count

SoleInv ==
  Undisturbed => \A p \in Procs :
    OnlyWriter(p) /\ Counting(p) /\ Buffered(p) /\ Booted(p) /\ Missed(p)

\* The parts of SoleInv for the process.
Sole(p) == OnlyWriter(p) /\ Counting(p) /\ Buffered(p) /\ Booted(p) /\ Missed(p)

SoleIInv == IInv /\ Counters /\ server \in Servers /\ SoleInv

LEMMA TheOnlyProcess ==
  ASSUME server \in Servers, Cardinality(Procs) = 1
  PROVE  \E p : Procs = {p}
BY ServerAssumption, FS_Singleton DEF Procs

LEMMA CountersStep ==
  ASSUME Counters, [Next]_vars
  PROVE  /\ Counters' /\ Procs' = Procs /\ server' = server
         /\ Undisturbed' => Undisturbed
<1>1. CASE UNCHANGED vars
  BY <1>1 DEF Counters, vars, procVars, countVars, Undisturbed, Procs, BootMayFail
<1>2. ASSUME server' = server, NEW p \in Procs,
             \/ Start(p) \/ StartFails(p) \/ OpenMarker(p) \/ InstallWritten(p)
             \/ Reread(p) \/ BootWritten(p) \/ ErrorWritten(p) \/ Invoke(p)
             \/ FlushWritten(p) \/ Exit(p) \/ ExitWritten(p) \/ Kill(p)
             \/ UpdateRaises(p)
      PROVE  /\ Counters' /\ Procs' = Procs /\ server' = server
             /\ Undisturbed' => Undisturbed
  <2>1. Procs' = Procs /\ (BootMayFail' <=> BootMayFail)
    BY <1>2 DEF Procs, BootMayFail
  <2>2. pc' = pc \/ \E label \in Labels : pc' = [pc EXCEPT ![p] = label]
    <3>1. AfterError(p) \in Labels
      BY DEF AfterError, Labels
    <3>2. QED
      BY <1>2, <3>1
      DEF Start, StartFails, OpenMarker, InstallWritten, Reread, BootWritten,
          ErrorWritten, Invoke, FlushWritten, Exit, ExitWritten, Kill,
          UpdateRaises, Goto, procVars, Labels, Updating
  <2>3. pc' \in [Procs -> Labels]
    BY <2>2 DEF Counters
  <2>4. /\ kills' = kills \/ kills' = kills + 1
        /\ cuts' = cuts \/ cuts' = cuts + 1
        /\ \/ errors' = errors
           \/ errors' = [errors EXCEPT !.boot = @ + 1]
           \/ errors' = [errors EXCEPT !.flush = @ + 1]
           \/ errors' = [errors EXCEPT !.exit = @ + 1]
    <3>1. CASE Kill(p)
      BY <3>1 DEF Kill, Counters
    <3>2. CASE UpdateRaises(p)
      BY <3>2 DEF UpdateRaises, Counters
    <3>3. CASE ~Kill(p) /\ ~UpdateRaises(p)
      BY <1>2, <3>3
      DEF Start, StartFails, OpenMarker, InstallWritten, Reread, BootWritten,
          ErrorWritten, Invoke, FlushWritten, Exit, ExitWritten, countVars
    <3>4. QED
      BY <3>1, <3>2, <3>3
  <2>5. /\ kills' \in Nat /\ cuts' \in Nat
        /\ errors' \in [{"boot", "flush", "exit"} -> Nat]
        /\ cuts' = 0 => cuts = 0
        /\ errors'.boot = 0 => errors.boot = 0
    BY <2>4 DEF Counters
  <2>6. QED
    BY <1>2, <2>1, <2>3, <2>5 DEF Counters, Undisturbed
<1>3. QED
  BY <1>1, <1>2 DEF Next

LEMMA CostGrows ==
  ASSUME Counters
  PROVE  /\ Cost \in Nat /\ FlushInterval \in Nat \ {0}
         /\ Failures' = Failures => Cost' = Cost
         /\ Failures' = Failures + 1 => Cost' = Cost + FlushInterval
<1>1. Failures \in Nat /\ FlushInterval \in Nat \ {0}
  BY IntervalAssumption DEF Counters, Failures
<1>2. \A n, f \in Nat : n * f \in Nat /\ (n + 1) * f = n * f + f
  OBVIOUS
<1>3. QED
  BY <1>1, <1>2 DEF Cost

\* Counting on from a number that is no multiple.
LEMMA ModNext ==
  ASSUME NEW n \in Nat, NEW d \in Nat \ {0}
  PROVE  /\ n % d \in 0 .. d - 1
         /\ (n + 1) % d # 0 => (n + 1) % d = (n % d) + 1
<1> DEFINE q == n \div d
           r == n % d
           p == (n + 1) \div d
           s == (n + 1) % d
<1>1. q \in Int /\ r \in 0 .. d - 1 /\ n = d * q + r
  BY SMT
<1>2. p \in Int /\ s \in 0 .. d - 1 /\ n + 1 = d * p + s
  BY SMT
<1> HIDE DEF q, r, p, s
<1>3. ASSUME s # 0 PROVE s = r + 1
  <2>1. d * (p - q) = r + 1 - s /\ d * (q - p) = s - r - 1
    BY <1>1, <1>2, SMT
  <2>2. ~(p - q >= 1)
    <3>1. ASSUME p - q >= 1 PROVE d * (p - q) >= d
      <4>1. d * (p - q - 1) >= 0 /\ d * (p - q) = d * (p - q - 1) + d
        BY <3>1, <1>1, <1>2, SMT
      <4>2. QED
        BY <4>1, <1>1, <1>2
    <3>2. QED
      BY <3>1, <2>1, <1>1, <1>2, <1>3
  <2>3. ~(q - p >= 1)
    <3>1. ASSUME q - p >= 1 PROVE d * (q - p) >= d
      <4>1. d * (q - p - 1) >= 0 /\ d * (q - p) = d * (q - p - 1) + d
        BY <3>1, <1>1, <1>2, SMT
      <4>2. QED
        BY <4>1, <1>1, <1>2
    <3>2. QED
      BY <3>1, <2>1, <1>1, <1>2, <1>3
  <2>4. p = q
    BY <2>2, <2>3, <1>1, <1>2
  <2>5. QED
    BY <2>4, <1>1, <1>2
<1>4. QED
  BY <1>1, <1>3 DEF r, s


\* The facts every step of the process starts from.
LEMMA SoleFacts ==
  ASSUME IInv, Counters, Undisturbed, NEW p, Procs = {p}, Sole(p)
  PROVE  /\ p \in Procs /\ calls \in Nat /\ mem \in [Procs -> Hook]
         /\ mem[p] \in Hook /\ mem[p].count \in Nat /\ mem[p].active \in BOOLEAN
         /\ buffer[p] \in Marker /\ buffer[p].hook \in Hook
         /\ ReadMarker \in Marker /\ ReadMarker.hook \in Hook
         /\ Saved(p) \in Marker /\ Saved(p).hook.count \in Nat
         /\ mem[p].count % FlushInterval \in 0 .. FlushInterval - 1
         /\ writing \subseteq {p} /\ clashed = {}
<1>1. p \in Procs /\ calls \in Nat /\ mem \in [Procs -> Hook]
  BY DEF IInv, Types
<1>2. mem[p] \in Hook /\ mem[p].count \in Nat /\ mem[p].active \in BOOLEAN
  BY DEF IInv, Types, Hook
<1>3. buffer[p] \in Marker /\ buffer[p].hook \in Hook
  BY DEF IInv, Types, Marker
<1>4. ReadMarker \in Marker /\ ReadMarker.hook \in Hook
  BY ReadMarkerWithin
<1>5. Saved(p) \in Marker /\ Saved(p).hook.count \in Nat
  BY <1>3, <1>4 DEF Saved, Hook
<1>6. mem[p].count % FlushInterval \in 0 .. FlushInterval - 1
  BY <1>2, IntervalAssumption, ModNext
<1>7. writing \subseteq {p} /\ clashed = {}
  BY DEF Sole, OnlyWriter
<1>8. QED
  BY <1>1, <1>2, <1>3, <1>4, <1>5, <1>6, <1>7

\* What is written is what is read afterwards.
LEMMA WrittenIsSaved ==
  ASSUME NEW p, clashed = {}, writing = {p}, buffer[p].run = "now", WriteOut(p)
  PROVE  /\ writing' = {} /\ clashed' = {}
         /\ ReadMarker' = buffer[p] /\ Saved(p)' = buffer[p] /\ Saved(p) = buffer[p]
<1>1. /\ state' = "good" /\ file' = buffer[p] /\ writing' = {} /\ clashed' = {}
  BY DEF WriteOut
<1>2. ReadMarker' = buffer[p]
  BY <1>1 DEF ReadMarker
<1>3. QED
  BY <1>1, <1>2 DEF Saved

\* The process starts, opens the marker, or writes at start-up.
LEMMA SoleStartStep ==
  ASSUME IInv, Counters, Undisturbed, NEW p, Procs = {p}, Sole(p),
         \/ Start(p) \/ OpenMarker(p) \/ InstallWritten(p) \/ Reread(p)
         \/ BootWritten(p)
  PROVE  Sole(p)'
<1>0. /\ p \in Procs /\ calls \in Nat /\ mem[p] \in Hook /\ mem[p].count \in Nat
      /\ mem[p].active \in BOOLEAN
      /\ buffer[p] \in Marker /\ ReadMarker \in Marker
      /\ Saved(p) \in Marker /\ Saved(p).hook.count \in Nat
      /\ mem[p].count % FlushInterval \in 0 .. FlushInterval - 1
      /\ Cost \in Nat /\ FlushInterval \in Nat
      /\ writing \subseteq {p} /\ clashed = {}
      /\ pc \in [Procs -> Labels] /\ buffer \in [Procs -> Marker]
  BY SoleFacts, CostGrows DEF Counters, IInv, Types
<1>1. /\ Cost' = Cost
      /\ UNCHANGED <<mem, dirty, calls, kills, errors>>
  <2>1. UNCHANGED <<mem, dirty, calls, kills, errors>>
    BY DEF Start, OpenMarker, InstallWritten, Reread, BootWritten, countVars,
           procVars
  <2>2. QED
    BY <2>1 DEF Cost, Failures
<1>2. OnlyWriter(p) /\ Counting(p) /\ Buffered(p) /\ Booted(p) /\ Missed(p)
  BY DEF Sole
<1>3. CASE Start(p) \/ Reread(p)
  <2> DEFINE m == IF Start(p) THEN Installed(ReadMarker)
                  ELSE Bootstrapped(ReadMarker)
  <2>1. /\ pc[p] \in {"off", "reread"} /\ pc'[p] = IF Start(p) THEN "install" ELSE "boot"
        /\ buffer'[p] = m /\ UNCHANGED <<file, state, writing, clashed>>
    BY <1>0, <1>3 DEF Start, Reread, Goto, fileVars
  <2>2. m.run = "now" /\ m.hook = ReadMarker.hook
        /\ (m.booted = IF Start(p) THEN ReadMarker.booted ELSE TRUE)
    BY <1>0 DEF Installed, Bootstrapped, Marker
  <2>3. p \notin writing
    BY <1>2, <2>1 DEF OnlyWriter
  <2>4. Saved(p) = ReadMarker /\ Saved(p)' = ReadMarker /\ ReadMarker' = ReadMarker
    BY <2>1, <2>3 DEF Saved, ReadMarker
  <2>5. ~mem[p].active /\ p \notin dirty
    BY <1>2, <2>1 DEF Counting
  <2> HIDE DEF m
  <2>6. OnlyWriter(p)' /\ Counting(p)' /\ Booted(p)'
    BY <1>0, <1>1, <1>2, <2>1, <2>3, <2>4, <2>5
    DEF OnlyWriter, Counting, Booted, Evidence
  <2>7. Buffered(p)'
    BY <1>1, <2>1, <2>2, <2>4 DEF Buffered, Evidence
  <2>8. Missed(p)'
    BY <1>1, <1>2, <2>1, <2>4, <2>5 DEF Missed
  <2>9. QED
    BY <2>6, <2>7, <2>8 DEF Sole
<1>4. CASE OpenMarker(p)
  <2>1. /\ pc[p] \in {"install", "boot", "flush", "exit"} /\ p \notin writing
        /\ writing' = {p} /\ clashed' = {} /\ UNCHANGED <<pc, buffer>>
    BY <1>0, <1>2, <1>4
    DEF OpenMarker, Truncate, Updating, OnlyWriter, procVars
  <2>2. Saved(p)' = buffer[p]
    BY <2>1 DEF Saved
  <2>3. OnlyWriter(p)' /\ Counting(p)'
    BY <1>1, <1>2, <2>1 DEF OnlyWriter, Counting
  <2>4. Buffered(p)' /\ Booted(p)'
    BY <1>1, <1>2, <2>1, <2>2 DEF Buffered, Booted
  <2>5. Missed(p)'
    <3>1. CASE pc[p] \in {"install", "boot"}
      BY <1>1, <1>2, <2>1, <2>2, <3>1 DEF Missed, Buffered, Counting
    <3>2. CASE pc[p] \in {"flush", "exit"}
      BY <1>0, <1>1, <1>2, <2>1, <2>2, <3>2 DEF Missed, Buffered, Counting
    <3>3. QED
      BY <2>1, <3>1, <3>2
  <2>6. QED
    BY <2>3, <2>4, <2>5 DEF Sole
<1>5. CASE InstallWritten(p) \/ BootWritten(p)
  <2>1. /\ pc[p] \in {"install", "boot"} /\ p \in writing /\ WriteOut(p)
        /\ pc'[p] = IF pc[p] = "install" THEN "reread" ELSE "serve"
        /\ UNCHANGED buffer
    BY <1>0, <1>5 DEF InstallWritten, BootWritten, Goto
  <2>2. /\ writing' = {} /\ clashed' = {}
        /\ Saved(p)' = buffer[p] /\ Saved(p) = buffer[p]
    BY <1>0, <1>2, <2>1, WrittenIsSaved DEF Buffered
  <2>3. ~mem[p].active /\ p \notin dirty
    BY <1>2, <2>1 DEF Counting
  <2>4. OnlyWriter(p)' /\ Counting(p)' /\ Buffered(p)'
    BY <1>1, <2>1, <2>2, <2>3 DEF OnlyWriter, Counting, Buffered
  <2>5. Booted(p)'
    BY <1>1, <1>2, <2>1, <2>2 DEF Booted, Buffered
  <2>6. Missed(p)'
    BY <1>1, <1>2, <2>1, <2>2, <2>3 DEF Missed
  <2>7. QED
    BY <2>4, <2>5, <2>6 DEF Sole
<1>6. QED
  BY <1>3, <1>4, <1>5

\* A wrapped call.
LEMMA SoleInvokeStep ==
  ASSUME IInv, Counters, Undisturbed, NEW p, Procs = {p}, Sole(p), Invoke(p)
  PROVE  Sole(p)'
<1>0. /\ p \in Procs /\ calls \in Nat /\ mem \in [Procs -> Hook]
      /\ mem[p] \in Hook /\ mem[p].count \in Nat /\ mem[p].active \in BOOLEAN
      /\ ReadMarker \in Marker /\ ReadMarker.hook \in Hook
      /\ Saved(p).hook.count \in Nat
      /\ Cost \in Nat /\ FlushInterval \in Nat \ {0}
      /\ pc \in [Procs -> Labels] /\ buffer \in [Procs -> Marker]
  BY SoleFacts, CostGrows DEF Counters, IInv, Types
<1>2. OnlyWriter(p) /\ Counting(p) /\ Buffered(p) /\ Booted(p) /\ Missed(p)
  BY DEF Sole
<1>3. PICK result \in {"none", "out"}, dispatch \in {"none", "in"} :
        LET hook == [Verified(Known(p), result, dispatch) EXCEPT
                       !.active = TRUE, !.count = @ + 1]
        IN  /\ mem' = [mem EXCEPT ![p] = hook]
            /\ IF FlushDue(hook.count)
               THEN Goto(p, "flush") /\ buffer' = [buffer EXCEPT ![p] = Flushed(hook)]
               ELSE UNCHANGED <<pc, buffer>>
  BY DEF Invoke
<1> DEFINE hook == [Verified(Known(p), result, dispatch) EXCEPT
                      !.active = TRUE, !.count = @ + 1]
           n == Known(p).count
<1>4. /\ pc[p] = "serve" /\ calls' = calls + 1 /\ dirty' = dirty \union {p}
      /\ UNCHANGED <<file, state, writing, clashed, kills, errors>>
  BY DEF Invoke, fileVars
<1>5. Saved(p) = ReadMarker /\ Saved(p)' = ReadMarker /\ p \notin writing
      /\ Cost' = Cost /\ Evidence(ReadMarker)
  BY <1>2, <1>4
  DEF Saved, ReadMarker, OnlyWriter, Cost, Failures, Booted
<1>6. Known(p) \in Hook /\ n \in Nat
  BY <1>0 DEF Known, Hook
<1>7. hook \in Hook /\ hook.count = n + 1 /\ hook.active
  <2>1. /\ Verified(Known(p), result, dispatch) \in Hook
        /\ Verified(Known(p), result, dispatch).count = n
    BY <1>6, VerifiedKeepsCount
  <2>2. hook \in Hook /\ hook.count = n + 1
    BY <2>1, CountedOnce
  <2>3. hook.active
    BY <2>1 DEF Hook
  <2>4. QED
    BY <2>2, <2>3
<1>8. /\ mem'[p] = hook
      /\ \/ /\ pc'[p] = "flush" /\ buffer'[p] = Flushed(hook)
         \/ /\ ~FlushDue(n + 1) /\ pc'[p] = "serve" /\ buffer'[p] = buffer[p]
  <2>1. mem' = [mem EXCEPT ![p] = hook]
    BY <1>3
  <2>2. IF FlushDue(hook.count)
        THEN Goto(p, "flush") /\ buffer' = [buffer EXCEPT ![p] = Flushed(hook)]
        ELSE UNCHANGED <<pc, buffer>>
    BY <1>3
  <2> HIDE DEF hook, n
  <2>3. QED
    BY <1>0, <1>4, <1>7, <2>1, <2>2 DEF Goto
<1>9. Flushed(hook).hook = hook /\ Evidence(Flushed(hook))
  BY <1>0, <1>5 DEF Flushed, Marker, Evidence
<1> HIDE DEF hook, n
<1>10. /\ OnlyWriter(p)' /\ Counting(p)' /\ Buffered(p)' /\ Booted(p)'
  BY <1>0, <1>2, <1>4, <1>5, <1>7, <1>8, <1>9
  DEF OnlyWriter, Counting, Buffered, Booted
<1>11. Missed(p)'
  <2> DEFINE d == calls - ReadMarker.hook.count
  <2>1. calls - n <= Cost
    BY <1>2, <1>5 DEF Known, Missed, n
  <2>2. /\ n % FlushInterval \in 0 .. FlushInterval - 1
        /\ (n + 1) % FlushInterval # 0 =>
             (n + 1) % FlushInterval = (n % FlushInterval) + 1
    BY <1>0, <1>6, ModNext
  <2>3. d <= Cost + (n % FlushInterval)
    BY <1>0, <1>2, <1>4, <1>5, <2>1, <2>2 DEF Known, Missed, n
  <2>4. kills = 0 /\ errors.exit = 0 => calls = n
    BY <1>2, <1>5 DEF Known, Missed, n
  <2>5. d \in Int /\ d + 1 = calls' - Saved(p)'.hook.count
    BY <1>0, <1>4, <1>5
  <2> HIDE DEF d
  <2>6. calls' - (n + 1) <= Cost
    BY <1>0, <1>4, <1>6, <2>1
  <2>7. p \in dirty'
    BY <1>4
  <2>8. kills' = 0 /\ errors'.exit = 0 => calls' = n + 1
    BY <1>4, <2>4
  <2>9. CASE pc'[p] = "flush"
    <3>1. d + 1 <= Cost + FlushInterval
      BY <1>0, <2>2, <2>3, <2>5
    <3>2. QED
      BY <1>5, <1>7, <1>8, <2>5, <2>6, <2>7, <2>8, <2>9, <3>1 DEF Missed
  <2>10. CASE pc'[p] # "flush"
    <3>1. (n + 1) % FlushInterval # 0
      BY <1>8, <2>10 DEF FlushDue
    <3>2. d + 1 <= Cost + ((n + 1) % FlushInterval)
      BY <1>0, <2>2, <2>3, <2>5, <3>1
    <3>3. QED
      BY <1>5, <1>7, <1>8, <2>5, <2>6, <2>7, <2>8, <2>10, <3>2 DEF Missed
  <2>11. QED
    BY <2>9, <2>10
<1>12. QED
  BY <1>10, <1>11 DEF Sole


\* The process flushes, exits, is killed, or fails to write.
LEMMA SoleStopStep ==
  ASSUME IInv, Counters, Counters', Undisturbed, Undisturbed', NEW p, Procs = {p},
         Sole(p),
         FlushWritten(p) \/ Exit(p) \/ ExitWritten(p) \/ Kill(p) \/ UpdateRaises(p)
  PROVE  Sole(p)'
<1>0. /\ p \in Procs /\ calls \in Nat /\ mem \in [Procs -> Hook]
      /\ mem[p] \in Hook /\ mem[p].count \in Nat /\ mem[p].active \in BOOLEAN
      /\ ReadMarker \in Marker
      /\ Saved(p).hook.count \in Nat /\ Saved(p) \in Marker
      /\ mem[p].count % FlushInterval \in 0 .. FlushInterval - 1
      /\ Cost \in Nat /\ FlushInterval \in Nat \ {0}
      /\ writing \subseteq {p} /\ clashed = {}
      /\ pc \in [Procs -> Labels] /\ buffer \in [Procs -> Marker]
      /\ kills \in Nat /\ errors.flush \in Nat /\ errors.exit \in Nat
  BY SoleFacts, CostGrows DEF Counters, IInv, Types
<1>1. calls' = calls
  BY DEF FlushWritten, Exit, ExitWritten, Kill, UpdateRaises, countVars
<1>2. OnlyWriter(p) /\ Counting(p) /\ Buffered(p) /\ Booted(p) /\ Missed(p)
  BY DEF Sole
<1>3. ~NoHook.active
  BY DEF NoHook
<1>4. CASE FlushWritten(p) \/ ExitWritten(p)
  <2>1. /\ pc[p] \in {"flush", "exit"} /\ p \in writing /\ WriteOut(p)
        /\ pc'[p] = IF pc[p] = "flush" THEN "serve" ELSE "off"
        /\ mem'[p] = IF pc[p] = "flush" THEN mem[p] ELSE NoHook
        /\ dirty' = dirty \ {p} /\ UNCHANGED <<buffer, kills, errors>>
    BY <1>0, <1>4 DEF FlushWritten, ExitWritten, Goto, countVars
  <2>2. /\ buffer[p].hook = mem[p] /\ Evidence(buffer[p]) /\ buffer[p].run = "now"
        /\ p \in dirty /\ mem[p].active
    BY <1>2, <2>1 DEF Buffered, Evidence, Counting
  <2>3. /\ writing' = {} /\ clashed' = {}
        /\ Saved(p)' = buffer[p] /\ Saved(p) = buffer[p] /\ Cost' = Cost
    BY <1>0, <2>1, <2>2, WrittenIsSaved DEF Cost, Failures
  <2>4. OnlyWriter(p)' /\ Counting(p)' /\ Buffered(p)' /\ Booted(p)'
    BY <1>3, <2>1, <2>2, <2>3 DEF OnlyWriter, Counting, Buffered, Booted
  <2>5. calls - mem[p].count <= Cost
        /\ (kills = 0 /\ errors.exit = 0 => calls = mem[p].count)
    BY <1>2, <2>2 DEF Missed
  <2>6. Missed(p)'
    BY <1>0, <1>1, <1>3, <2>1, <2>2, <2>3, <2>5 DEF Missed
  <2>7. QED
    BY <2>4, <2>6 DEF Sole
<1>5. CASE Exit(p)
  <2>1. /\ pc[p] = "serve" /\ UNCHANGED <<file, state, writing, clashed, dirty>>
        /\ UNCHANGED <<kills, errors>>
        /\ mem'[p] = IF p \in dirty THEN mem[p] ELSE NoHook
        /\ pc'[p] = IF p \in dirty THEN "exit" ELSE "off"
        /\ p \in dirty => buffer'[p] = Flushed(mem[p])
    BY <1>0, <1>2, <1>5 DEF Exit, OnlyWriter, Goto, fileVars, countVars
  <2>2. /\ p \notin writing /\ Saved(p) = ReadMarker /\ Saved(p)' = ReadMarker
        /\ Cost' = Cost /\ Evidence(ReadMarker)
    BY <1>2, <2>1 DEF OnlyWriter, Saved, ReadMarker, Cost, Failures, Booted
  <2>3. Flushed(mem[p]).hook = mem[p] /\ Evidence(Flushed(mem[p]))
    BY <1>0, <2>2 DEF Flushed, Marker, Evidence
  <2>4. OnlyWriter(p)' /\ Counting(p)' /\ Buffered(p)' /\ Booted(p)'
    BY <1>2, <1>3, <2>1, <2>2, <2>3 DEF OnlyWriter, Counting, Buffered, Booted
  <2>5. Missed(p)'
    <3>1. CASE p \in dirty
      BY <1>0, <1>1, <1>2, <2>1, <2>2, <3>1 DEF Missed, Counting
    <3>2. CASE p \notin dirty
      BY <1>0, <1>1, <1>2, <1>3, <2>1, <2>2, <3>2 DEF Missed
    <3>3. QED
      BY <3>1, <3>2
  <2>6. QED
    BY <2>4, <2>5 DEF Sole
<1>6. CASE Kill(p)
  <2>1. /\ pc'[p] = "off" /\ mem'[p] = NoHook /\ dirty' = dirty \ {p}
        /\ writing' = writing \ {p} /\ clashed' = clashed \ {p}
        /\ kills' = kills + 1 /\ UNCHANGED <<file, state, errors>>
        /\ cuts' = cuts + IF p \in writing THEN 1 ELSE 0
    BY <1>0, <1>6 DEF Kill, Goto
  <2>2. p \notin writing
    BY <2>1 DEF Undisturbed
  <2>3. Saved(p) = ReadMarker /\ Saved(p)' = ReadMarker
    BY <2>1, <2>2 DEF Saved, ReadMarker
  <2>4. Cost' = Cost + FlushInterval
    <3>1. Failures' = Failures + 1
      <4>1. kills' = kills + 1 /\ errors' = errors
        BY <2>1
      <4>2. kills \in Nat /\ errors.flush \in Nat /\ errors.exit \in Nat
        BY <1>0
      <4>3. QED
        BY <4>1, <4>2 DEF Failures
    <3>2. QED
      BY <3>1, CostGrows
  <2>5. OnlyWriter(p)' /\ Counting(p)' /\ Buffered(p)' /\ Booted(p)'
    BY <1>0, <1>1, <1>2, <1>3, <2>1, <2>2, <2>3
    DEF OnlyWriter, Counting, Buffered, Booted
  <2>6. calls - ReadMarker.hook.count <= Cost + FlushInterval
    BY <1>0, <1>2, <2>3 DEF Missed
  <2>7. Missed(p)'
    BY <1>0, <1>1, <1>3, <2>1, <2>3, <2>4, <2>6 DEF Missed
  <2>8. QED
    BY <2>5, <2>7 DEF Sole
<1>7. CASE UpdateRaises(p)
  <2>1. /\ cuts' = cuts + IF p \in writing THEN 1 ELSE 0
        /\ writing' = writing \ {p} /\ clashed' = clashed \ {p} /\ kills' = kills
        /\ UNCHANGED <<file, state>> \/ p \in writing
    BY <1>7 DEF UpdateRaises
  <2>2. p \notin writing /\ UNCHANGED <<file, state>>
    BY <2>1 DEF Undisturbed
  <2>3. errors'.boot = 0 /\ errors.boot = 0
    BY DEF Undisturbed
  <2>4. \/ /\ pc[p] = "flush" /\ pc'[p] = "serve"
           /\ errors' = [errors EXCEPT !.flush = @ + 1]
           /\ UNCHANGED <<mem, dirty, buffer>>
        \/ /\ pc[p] = "exit" /\ pc'[p] = "off"
           /\ mem'[p] = NoHook /\ dirty' = dirty \ {p}
           /\ errors' = [errors EXCEPT !.exit = @ + 1] /\ UNCHANGED buffer
    <3>1. errors' # [errors EXCEPT !.boot = @ + 1]
      BY <2>3 DEF Counters
    <3>2. QED
      BY <1>0, <1>2, <1>7, <3>1 DEF UpdateRaises, Goto, OnlyWriter
  <2>5. Saved(p) = ReadMarker /\ Saved(p)' = ReadMarker /\ Evidence(ReadMarker)
    BY <1>2, <2>1, <2>2, <2>4 DEF Saved, ReadMarker, Booted
  <2>6. Cost' = Cost + FlushInterval
    <3>1. Failures' = Failures + 1
      BY <1>0, <2>1, <2>4 DEF Failures, Counters
    <3>2. QED
      BY <3>1, CostGrows
  <2>7. OnlyWriter(p)' /\ Counting(p)' /\ Buffered(p)' /\ Booted(p)'
    BY <1>0, <1>1, <1>2, <1>3, <2>1, <2>2, <2>4, <2>5
    DEF OnlyWriter, Counting, Buffered, Booted
  <2>8. /\ calls - ReadMarker.hook.count <= Cost + FlushInterval
        /\ calls - mem[p].count <= Cost /\ mem[p].active /\ p \in dirty
    BY <1>0, <1>2, <2>4, <2>5 DEF Missed, Counting
  <2>9. CASE pc[p] = "flush"
    <3>1. pc'[p] = "serve" /\ mem' = mem /\ dirty' = dirty /\ errors'.exit = errors.exit
      BY <2>4, <2>9 DEF Counters
    <3>2. Missed(p)'
      BY <1>0, <1>1, <1>2, <2>1, <2>5, <2>6, <2>8, <3>1 DEF Missed
    <3>3. QED
      BY <2>7, <3>2 DEF Sole
  <2>10. CASE pc[p] = "exit"
    <3>1. pc'[p] = "off" /\ mem'[p] = NoHook /\ errors'.exit # 0
      BY <1>0, <2>4, <2>10 DEF Counters
    <3>2. Missed(p)'
      BY <1>0, <1>1, <1>3, <2>5, <2>6, <2>8, <3>1 DEF Missed
    <3>3. QED
      BY <2>7, <3>2 DEF Sole
  <2>11. QED
    BY <2>4, <2>9, <2>10
<1>8. QED
  BY <1>4, <1>5, <1>6, <1>7

LEMMA SoleInitIInv == Init => SoleIInv
<1> SUFFICES ASSUME Init PROVE SoleIInv
  OBVIOUS
<1>1. IInv
  BY InitIInv
<1>2. Counters
  BY DEF Init, Counters, Labels
<1>3. ASSUME NEW p \in Procs PROVE Sole(p)
  <2>1. /\ pc[p] = "off" /\ ~mem[p].active /\ dirty = {} /\ calls = 0
        /\ writing = {} /\ clashed = {}
    BY DEF Init, NoHook
  <2>2. Saved(p).hook.count \in Nat
    BY <2>1, <1>1, ReadMarkerWithin DEF Saved, Hook
  <2>3. Saved(p).hook.count = 0 /\ Cost = 0
    <3>1. Saved(p) = Nothing
      <4>1. Saved(p) = ReadMarker
        BY <2>1 DEF Saved
      <4>2. state # "good" \/ file.run = "old"
        BY DEF Init, OldMarker
      <4>3. QED
        BY <4>1, <4>2 DEF ReadMarker
    <3>2. Failures = 0
      BY DEF Init, Failures
    <3>3. Cost = 0
      BY <3>2, IntervalAssumption DEF Cost
    <3>4. QED
      BY <3>1, <3>3, NothingCountsNothing
  <2>4. QED
    BY <2>1, <2>3 DEF Sole, OnlyWriter, Counting, Buffered, Booted, Missed
<1>4. QED
  BY <1>1, <1>2, <1>3 DEF Init, SoleIInv, SoleInv, Sole

LEMMA SoleNextIInv == SoleIInv /\ [Next]_vars => SoleIInv'
<1> SUFFICES ASSUME SoleIInv, [Next]_vars PROVE SoleIInv'
  OBVIOUS
<1>1. /\ IInv' /\ Counters' /\ server' \in Servers /\ Procs' = Procs
      /\ Undisturbed' => Undisturbed
  BY NextIInv, CountersStep DEF SoleIInv
<1>2. ASSUME Undisturbed', NEW p, Procs = {p} PROVE Sole(p)'
  <2>1. Undisturbed /\ Sole(p) /\ IInv /\ Counters /\ p \in Procs
    BY <1>1, <1>2 DEF SoleIInv, SoleInv, Sole
  <2>2. CASE UNCHANGED vars
    <3>1. /\ Saved(p)' = Saved(p) /\ Cost' = Cost
          /\ UNCHANGED <<pc, mem, dirty, buffer, writing, clashed, calls, kills, errors>>
      BY <2>2
      DEF vars, procVars, fileVars, countVars, Saved, ReadMarker, Cost, Failures
    <3>2. QED
      BY <2>1, <3>1 DEF Sole, OnlyWriter, Counting, Buffered, Booted, Missed
  <2>3. CASE Next
    <3>1. /\ \/ Start(p) \/ StartFails(p) \/ OpenMarker(p) \/ InstallWritten(p)
             \/ Reread(p) \/ BootWritten(p) \/ ErrorWritten(p) \/ Invoke(p)
             \/ FlushWritten(p) \/ Exit(p) \/ ExitWritten(p) \/ Kill(p)
             \/ UpdateRaises(p)
      BY <1>2, <2>3 DEF Next
    <3>2. ~StartFails(p) /\ ~ErrorWritten(p)
      BY <2>1 DEF StartFails, ErrorWritten, Undisturbed, Sole, OnlyWriter
    <3>3. QED
      BY <1>1, <1>2, <2>1, <3>1, <3>2, SoleStartStep, SoleInvokeStep, SoleStopStep
  <2>4. QED
    BY <2>2, <2>3
<1>3. SoleInv'
  <2> SUFFICES ASSUME Undisturbed', NEW q \in Procs PROVE Sole(q)'
    BY <1>1 DEF SoleInv, Sole
  <2>1. PICK p : Procs = {p}
    BY <1>1, TheOnlyProcess DEF Undisturbed, SoleIInv
  <2>2. QED
    BY <1>2, <2>1
<1>4. QED
  BY <1>1, <1>3 DEF SoleIInv

\* A server of one process loses at most one flush interval of calls for each
\* kill or failed flush, and without any it has recorded every call once
\* nothing is dirty.
THEOREM SoleProcessEvidenceIsKept == Spec => []SoleProcessKeepsEvidence
<1>1. SoleIInv => SoleProcessKeepsEvidence
  <2> SUFFICES ASSUME SoleIInv, Undisturbed, NEW p \in Procs,
                      pc[p] \in {"serve", "off"}, calls > 0
               PROVE  /\ Accepted
                      /\ calls - file.hook.count
                           <= Failures * FlushInterval
                                + IF pc[p] = "off" THEN 0 ELSE FlushInterval - 1
                      /\ kills = 0 /\ errors.exit = 0 /\ p \notin dirty =>
                           file.hook.count = calls
    BY DEF SoleProcessKeepsEvidence, Undisturbed, Failures
  <2>1. OnlyWriter(p) /\ Counting(p) /\ Booted(p) /\ Missed(p)
    BY DEF SoleIInv, SoleInv
  <2>2. Saved(p) = ReadMarker /\ Evidence(ReadMarker)
    BY <2>1 DEF OnlyWriter, Booted, Saved
  <2>3. Accepted /\ ReadMarker = file
    BY <2>2 DEF Evidence, Accepted, ReadMarker, Nothing
  <2>4. /\ mem[p].count \in Nat /\ file.hook.count \in Nat /\ calls \in Nat
        /\ mem[p].active \in BOOLEAN
    BY DEF SoleIInv, IInv, Types, Marker, Hook
  <2>5. mem[p].count % FlushInterval \in 0 .. FlushInterval - 1
    BY <2>4, IntervalAssumption, ModNext
  <2>6. Cost \in Nat /\ FlushInterval \in Nat \ {0}
    BY CostGrows DEF SoleIInv
  <2>7. calls - file.hook.count
          <= Cost + IF pc[p] = "off" THEN 0 ELSE FlushInterval - 1
    <3>1. CASE mem[p].active
      BY <2>1, <2>2, <2>3, <2>4, <2>5, <2>6, <3>1 DEF Missed, Counting
    <3>2. CASE ~mem[p].active
      BY <2>1, <2>2, <2>3, <2>4, <2>6, <3>2 DEF Missed
    <3>3. QED
      BY <3>1, <3>2
  <2>8. kills = 0 /\ errors.exit = 0 /\ p \notin dirty => file.hook.count = calls
    BY <2>1, <2>2, <2>3 DEF Missed
  <2>9. QED
    BY <2>3, <2>7, <2>8 DEF Cost
<1>2. QED
  BY <1>1, SoleInitIInv, SoleNextIInv, PTL DEF Spec

=============================================================================
