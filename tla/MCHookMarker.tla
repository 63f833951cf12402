---------------------------- MODULE MCHookMarker ----------------------------
(***************************************************************************)
(* Instances of HookMarker.                                                *)
(***************************************************************************)
EXTENDS HookMarker

CONSTANTS p1, p2

\* Two processes, whose bootstrap may fail; and one, whose does not.
MCServers ==
  {[procs |-> {p1, p2}, bootMayFail |-> TRUE],
   [procs |-> {p1}, bootMayFail |-> FALSE]}

=============================================================================
