------------------------------- MODULE MCSweep -------------------------------
(***************************************************************************)
(* Instances of Sweep: two runs of system C, the sweeps with the hook or   *)
(* without it, and the conditions they run under.                          *)
(***************************************************************************)
EXTENDS Sweep

CONSTANTS hook, native

MCConfigs == {hook, native}

\* No server outlives its sweep and the operator does not change the flag; or
\* orphaned servers, torn rows and any use of the flag.
Steady == [skips : {{TRUE}, {FALSE}}, orphans : {FALSE}, tears : {FALSE}]
Rough == [skips : {{TRUE}, {FALSE}, BOOLEAN}, orphans : {TRUE}, tears : {TRUE}]
AllSites == Steady \union Rough

=============================================================================
