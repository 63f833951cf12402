------------------------------ MODULE HookMarker ------------------------------
(***************************************************************************)
(* The serving hook's evidence file (src/tilepo/kt_patch/sglang_hook.py    *)
(* and bootstrap.py).  Every Python process of the server's process group  *)
(* runs bootstrap_from_env at start-up, counts the MoE calls it wraps, and *)
(* merges its counts into one JSON marker, without a lock: each update     *)
(* reads the file, then truncates it, then writes it.  Processes are       *)
(* stopped with SIGTERM or SIGKILL, which run no atexit handler; and an    *)
(* update may raise, before or after the file is truncated.                *)
(*                                                                         *)
(* A file that is truncated, or that two writers wrote at once, does not   *)
(* parse ("torn").  Data is kept to what tells runs and counts apart.      *)
(***************************************************************************)
EXTENDS Integers, FiniteSets

CONSTANTS
  Servers,        \* the servers under study
  FlushInterval,  \* TILEPO_HOOK_FLUSH_INTERVAL
  MaxCalls,       \* bound on the wrapped calls of all processes
  MaxStarts,      \* bound on the number of process starts
  MaxFaults       \* bound on the killed processes and the updates that raise

ASSUME IntervalAssumption == FlushInterval \in Nat \ {0}
ASSUME ServerAssumption == \A s \in Servers : IsFiniteSet(s.procs)

\* A hook record: what _record_invocation keeps of the calls it has counted.
NoHook == [active |-> FALSE, count |-> 0, passed |-> 0, failed |-> 0]
Hook == [active : BOOLEAN, count : Nat, passed : Nat, failed : Nat]

\* What the marker says.  run is the run id it carries ("" when it has none),
\* booted that bootstrap's own fields are there, hooked its serving_hook.
Nothing == [run |-> "", booted |-> FALSE, hooked |-> FALSE, hook |-> NoHook]
Marker == [run : {"", "old", "now"}, booted : BOOLEAN, hooked : BOOLEAN,
           hook : Hook]

VARIABLES
  server,     \* its processes, and whether bootstrap_from_env may raise
  pc,         \* where a process stands
  mem,        \* _HOOK_METRICS of a process; inactive while it is empty
  dirty,      \* processes whose _HOOK_DIRTY is set
  buffer,     \* what a process has read and is about to write
  file,       \* the marker's content, if it parses
  state,      \* of the marker: "absent", "torn" or "good"
  writing,    \* processes between the truncation and the close of the file
  clashed,    \* those among them whose write overlaps another one
  calls,      \* wrapped calls so far (history)
  starts,     \* process starts so far
  kills,      \* processes killed so far
  errors,     \* updates that raised, by where the process stood
  cuts        \* kills and errors between truncation and close (history)

fileVars == <<file, state, writing, clashed>>
procVars == <<pc, mem, dirty, buffer>>
countVars == <<calls, starts, kills, errors, cuts>>
vars == <<server, procVars, fileVars, countVars>>

\* The server's processes, each with the hook installed.
Procs == server.procs

BootMayFail == server.bootMayFail

\* The marker of an earlier run is still there when a sweep is run again.
OldMarker ==
  [run |-> "old", booted |-> TRUE, hooked |-> TRUE,
   hook |-> [active |-> TRUE, count |-> 2, passed |-> 2, failed |-> 0]]

Init ==
  /\ server \in Servers
  /\ pc = [p \in Procs |-> "off"]
  /\ mem = [p \in Procs |-> NoHook]
  /\ dirty = {}
  /\ buffer = [p \in Procs |-> Nothing]
  /\ \/ state = "absent" /\ file = Nothing
     \/ state = "good" /\ file = OldMarker
  /\ writing = {} /\ clashed = {}
  /\ calls = 0 /\ starts = 0 /\ kills = 0
  /\ errors = [at \in {"boot", "flush", "exit"} |-> 0] /\ cuts = 0

-----------------------------------------------------------------------------
\* Mutant: the run id of the marker is not looked at.
ReadMarkerOfAnyRun == IF state # "good" THEN Nothing ELSE file

\* _read_marker: a marker that does not parse, or of another run, is nothing.
ReadMarker ==
  IF state # "good" \/ file.run = "old" THEN Nothing ELSE file

\* path.write_text, first half: the file is truncated.
Truncate(p) ==
  /\ state' = "torn"
  /\ file' = Nothing
  /\ writing' = writing \union {p}
  /\ clashed' = IF writing = {} THEN clashed
                                ELSE clashed \union writing \union {p}

\* Second half: the text reaches the file.  Overlapping writes may leave the
\* tail of the longer text behind the shorter one.
WriteOut(p) ==
  /\ \/ state' = "good" /\ file' = buffer[p]
     \/ p \in clashed /\ state' = "torn" /\ file' = Nothing
  /\ writing' = writing \ {p}
  /\ clashed' = clashed \ {p}

Goto(p, label) == pc' = [pc EXCEPT ![p] = label]

-----------------------------------------------------------------------------
\* Mutant: install_sglang_hook's fresh state replaces what was counted.
InstalledForgets(m) ==
  [m EXCEPT !.run = "now", !.hooked = TRUE, !.hook = NoHook]

\* _merge_marker({"serving_hook": ...}): counts already there win.
Installed(m) == [m EXCEPT !.run = "now", !.hooked = TRUE]

\* _write_bootstrap_marker: the bootstrap's fields are replaced, the hook's
\* existing ones win.
Bootstrapped(m) == [m EXCEPT !.run = "now", !.booted = TRUE, !.hooked = TRUE]

\* bootstrap_from_env: the probe touches no file; then install_sglang_hook
\* merges its state, and the bootstrap merges its own into a second reading.
Start(p) ==
  /\ pc[p] = "off" /\ starts < MaxStarts
  /\ buffer' = [buffer EXCEPT ![p] = Installed(ReadMarker)]
  /\ Goto(p, "install")
  /\ starts' = starts + 1
  /\ UNCHANGED <<mem, dirty, fileVars, calls, kills, errors, cuts>>

\* bootstrap_from_env raised: sitecustomize writes the error, without run id
\* and without reading, and the process serves unhooked.
StartFails(p) ==
  /\ BootMayFail
  /\ pc[p] = "off" /\ starts < MaxStarts
  /\ buffer' = [buffer EXCEPT ![p] = Nothing]
  /\ Goto(p, "error")
  /\ starts' = starts + 1
  /\ UNCHANGED <<mem, dirty, fileVars, calls, kills, errors, cuts>>

Updating == {"install", "boot", "flush", "exit", "error", "hookederror"}

OpenMarker(p) ==
  /\ pc[p] \in Updating
  /\ p \notin writing
  /\ Truncate(p)
  /\ UNCHANGED <<procVars, countVars>>

InstallWritten(p) ==
  /\ pc[p] = "install" /\ p \in writing
  /\ WriteOut(p)
  /\ Goto(p, "reread")
  /\ UNCHANGED <<mem, dirty, buffer, countVars>>

Reread(p) ==
  /\ pc[p] = "reread"
  /\ buffer' = [buffer EXCEPT ![p] = Bootstrapped(ReadMarker)]
  /\ Goto(p, "boot")
  /\ UNCHANGED <<mem, dirty, fileVars, countVars>>

BootWritten(p) ==
  /\ pc[p] = "boot" /\ p \in writing
  /\ WriteOut(p)
  /\ Goto(p, "serve")
  /\ UNCHANGED <<mem, dirty, buffer, countVars>>

\* What sitecustomize leaves: an error after the installation leaves the
\* wrapped methods in place.
AfterError(p) == IF pc[p] = "hookederror" THEN "serve" ELSE "unhooked"

ErrorWritten(p) ==
  /\ pc[p] \in {"error", "hookederror"} /\ p \in writing
  /\ WriteOut(p)
  /\ Goto(p, AfterError(p))
  /\ UNCHANGED <<mem, dirty, buffer, countVars>>

-----------------------------------------------------------------------------
\* _verify_dispatch_contract: with hidden states in the result or in the
\* argument, reference and candidate are the same tensor.
Reference(result, dispatch) == IF result # "none" THEN result ELSE dispatch

Candidate(result, dispatch) ==
  IF result # "none" THEN result ELSE Reference(result, dispatch)

Verified(hook, result, dispatch) ==
  IF Reference(result, dispatch) = "none" THEN hook
  ELSE IF Candidate(result, dispatch) = Reference(result, dispatch)
  THEN [hook EXCEPT !.passed = @ + 1]
  ELSE [hook EXCEPT !.failed = @ + 1]

\* The first call of a process goes on from the counts of the marker.
Known(p) == IF mem[p].active THEN mem[p] ELSE ReadMarker.hook

FlushDue(count) == count = 1 \/ count % FlushInterval = 0

\* flush_sglang_hook_marker: what the marker says, with the counts of the
\* process in place of those it had.
Flushed(hook) ==
  [ReadMarker EXCEPT !.run = "now", !.hooked = TRUE, !.hook = hook]

\* A wrapped call returns or raises (it then has no result).  Either way it
\* is recorded, and a flush that is due reads the marker at once.
Invoke(p) ==
  /\ pc[p] = "serve" /\ calls < MaxCalls
  /\ \E result \in {"none", "out"}, dispatch \in {"none", "in"} :
       LET hook == [Verified(Known(p), result, dispatch) EXCEPT
                      !.active = TRUE, !.count = @ + 1]
       IN  /\ mem' = [mem EXCEPT ![p] = hook]
           /\ IF FlushDue(hook.count)
              THEN Goto(p, "flush") /\ buffer' = [buffer EXCEPT ![p] = Flushed(hook)]
              ELSE UNCHANGED <<pc, buffer>>
  /\ dirty' = dirty \union {p}
  /\ calls' = calls + 1
  /\ UNCHANGED <<fileVars, starts, kills, errors, cuts>>

FlushWritten(p) ==
  /\ pc[p] = "flush" /\ p \in writing
  /\ WriteOut(p)
  /\ Goto(p, "serve")
  /\ dirty' = dirty \ {p}
  /\ UNCHANGED <<mem, buffer, countVars>>

\* The interpreter exits: the atexit handler flushes what is not written.
Exit(p) ==
  /\ pc[p] \in {"serve", "unhooked"}
  /\ IF p \in dirty
     THEN Goto(p, "exit") /\ buffer' = [buffer EXCEPT ![p] = Flushed(mem[p])]
     ELSE Goto(p, "off") /\ UNCHANGED buffer
  /\ mem' = [mem EXCEPT ![p] = IF p \in dirty THEN @ ELSE NoHook]
  /\ UNCHANGED <<dirty, fileVars, countVars>>

ExitWritten(p) ==
  /\ pc[p] = "exit" /\ p \in writing
  /\ WriteOut(p)
  /\ Goto(p, "off")
  /\ mem' = [mem EXCEPT ![p] = NoHook]
  /\ dirty' = dirty \ {p}
  /\ UNCHANGED <<buffer, countVars>>

Faults == kills + errors.boot + errors.flush + errors.exit

\* stop_process_group, or a crash: nothing is flushed.
Kill(p) ==
  /\ pc[p] # "off" /\ Faults < MaxFaults
  /\ Goto(p, "off")
  /\ mem' = [mem EXCEPT ![p] = NoHook]
  /\ dirty' = dirty \ {p}
  /\ writing' = writing \ {p} /\ clashed' = clashed \ {p}
  /\ kills' = kills + 1
  /\ cuts' = cuts + IF p \in writing THEN 1 ELSE 0
  /\ UNCHANGED <<buffer, file, state, calls, starts, errors>>

\* An I/O error while the marker is opened or written; of what was to be
\* written nothing or a part is there.  During start-up the methods are already
\* wrapped: sitecustomize writes the error and the process serves hooked.  A
\* flush raises into the wrapped call, whose answer is lost, and is still due.
\* At exit, and in sitecustomize itself, the interpreter prints the error.
UpdateRaises(p) ==
  /\ pc[p] \in Updating
  /\ Faults < MaxFaults
  /\ \/ UNCHANGED <<file, state>>
     \/ p \in writing /\ state' = "torn" /\ file' = Nothing
  /\ writing' = writing \ {p} /\ clashed' = clashed \ {p}
  /\ cuts' = cuts + IF p \in writing THEN 1 ELSE 0
  /\ \/ /\ pc[p] \in {"install", "boot"}
        /\ Goto(p, "hookederror") /\ buffer' = [buffer EXCEPT ![p] = Nothing]
        /\ errors' = [errors EXCEPT !.boot = @ + 1]
        /\ UNCHANGED <<mem, dirty>>
     \/ /\ pc[p] \in {"error", "hookederror"}
        /\ Goto(p, AfterError(p))
        /\ errors' = [errors EXCEPT !.boot = @ + 1]
        /\ UNCHANGED <<mem, dirty, buffer>>
     \/ /\ pc[p] = "flush"
        /\ Goto(p, "serve")
        /\ errors' = [errors EXCEPT !.flush = @ + 1]
        /\ UNCHANGED <<mem, dirty, buffer>>
     \/ /\ pc[p] = "exit"
        /\ Goto(p, "off")
        /\ mem' = [mem EXCEPT ![p] = NoHook] /\ dirty' = dirty \ {p}
        /\ errors' = [errors EXCEPT !.exit = @ + 1]
        /\ UNCHANGED buffer
  /\ UNCHANGED <<calls, starts, kills>>

Next ==
  UNCHANGED server /\ \E p \in Procs :
    \/ Start(p)
    \/ StartFails(p)
    \/ OpenMarker(p)
    \/ InstallWritten(p)
    \/ Reread(p)
    \/ BootWritten(p)
    \/ ErrorWritten(p)
    \/ Invoke(p)
    \/ FlushWritten(p)
    \/ Exit(p)
    \/ ExitWritten(p)
    \/ Kill(p)
    \/ UpdateRaises(p)

Spec == Init /\ [][Next]_vars

-----------------------------------------------------------------------------
\* _load_hot_backend_probe of the sweep: the marker is evidence for the run
\* only if it parses, carries the run's id and has the bootstrap's fields.
Accepted == state = "good" /\ file.run = "now" /\ file.booted

\* The evidence of a run never counts a call twice and never counts a call of
\* another run, however the processes' updates interleave and whoever is
\* killed: a process that takes over the counts of the marker and the one
\* that wrote them never both add up.
NeverOverCounts == Accepted => file.hook.count <= calls

\* A server of one process loses at most one flush interval of calls per kill
\* or failed flush and never the bootstrap's fields, unless an update of the
\* file is cut after its truncation or start-up cannot write; and as long as
\* none is killed or fails to flush at its exit, a process has recorded every
\* call once nothing is dirty: what a failed flush has not written the next
\* one does.
SoleProcessKeepsEvidence ==
  Cardinality(Procs) = 1 /\ ~BootMayFail /\ cuts = 0 /\ errors.boot = 0 =>
    \A p \in Procs :
      pc[p] \in {"serve", "off"} /\ calls > 0 =>
        /\ Accepted
        /\ calls - file.hook.count
             <= (kills + errors.flush + errors.exit) * FlushInterval
                  + IF pc[p] = "off" THEN 0 ELSE FlushInterval - 1
        /\ kills = 0 /\ errors.exit = 0 /\ p \notin dirty => file.hook.count = calls

=============================================================================
