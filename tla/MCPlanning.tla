----------------------------- MODULE MCPlanning -----------------------------
(***************************************************************************)
(* The deployment plans and exported rankings that small profiles of two   *)
(* layers of five experts give; single precision numbers have three bits.  *)
(***************************************************************************)
EXTENDS ProfileTuning

Route(layer, expert, count) == [key |-> <<layer, expert>>, count |-> count]
Row(workload, routes) == [workload |-> workload, routes |-> routes]

\* Layer 0 in one row, layer 1 in two; and rows of another workload, which
\* count only when there are no others.
Rows(counts, c) ==
  <<Row("long", [i \in 1 .. 5 |-> Route(0, i - 1, counts[i])]),
    Row("unnamed", <<Route(1, 4, c), Route(1, 0, 2)>>), Row("long", <<Route(1, 0, 1)>>),
    Row("mixed", <<Route(0, 0, 9)>>)>>

\* Recorded in one slice, or in three.
Whole(rows) == [rows |-> rows, logical |-> <<Counts(Hits(rows))>>]

Split(rows) ==
  LET counts == Counts(Hits(rows))
      late == [key \in Keys |-> IF counts[key] > 4 THEN 1 ELSE 0]
  IN  [rows |-> rows,
       logical |-> <<[key \in Keys |-> counts[key] - 2 * late[key]], late, late>>]

\* Counts that are exact, or not: then 5 is read as 4, and 4 + 1 + 1 is 4 or 6.
MCProfiles ==
  {Whole(Rows(counts, c)) : counts \in [1 .. 5 -> {1, 4}], c \in {1, 9}}
  \union {Split(Rows(counts \o <<1, 4>>, c)) : counts \in {4, 5, 6} \X {1, 5} \X {4, 6},
                                               c \in {1, 6}}
  \union {Whole(<<Row("mixed", <<Route(0, 0, c), Route(1, 3, 1)>>)>>) : c \in {1, 9}}
  \union {Split(<<Row("mixed", <<Route(0, 0, 4), Route(0, 1, c)>>)>>) : c \in {5, 6}}
  \union {Whole(<<Row("long", <<>>)>>), Whole(<<>>)}

MCBudgets == {{}, {1}, {2, 4}, {1, 2, 3, 5}, {4, 6, 8}}

=============================================================================
