---------------------------- MODULE MCAdmission ----------------------------
(***************************************************************************)
(* What is made of sweep manifests.  Either they are admitted and packaged *)
(* (Admission: two workloads, two expert budgets, two rows per system, and *)
(* evidence around every border of the gate), or they are merged, reported *)
(* and verified as evidence (Evidence: a grid of one workload, one budget, *)
(* KT and one policy, two repeats).  The two share no file.                *)
(***************************************************************************)
EXTENDS Admission, Evidence

MCWorkloads == {"mixed", "long"}
MCExperts == <<4, 8>>
MCSources == <<"sweepA", "sweepB">>
MCOuts == {"package", "admission", "sweepB"}

Perf(tok, p95, p99, gpu) == [tok |-> tok, p95 |-> p95, p99 |-> p99, gpu |-> gpu]
Row(w, e, system, policy, flaw, perf) ==
  [workload |-> w, expert |-> e, system |-> system, policy |-> policy, flaw |-> flaw]
  @@ perf

Rows(w, e, system, policy, perfs) ==
  [i \in DOMAIN perfs |-> Row(w, e, system, policy, "none", perfs[i])]

Plain == Perf(100, 10, 20, 5)
Spread == <<Perf(90, 9, 18, 5), Perf(110, 11, 22, 5)>>
Wins == Perf(103, 10, 20, 5)

\* On, below and beyond the threshold; one tail worse; metrics that miss.
CPerfs ==
  {Wins, Perf(102, 10, 20, 5), Perf(130, 11, 20, 5), Perf(130, 10, 21, 5),
   Perf(130, 9, Missing, 5), Perf(Missing, 9, 19, 5)}

KTMixed(perfs) == Rows("mixed", 4, "B", "kt", perfs)
Long(c) == Rows("long", 8, "B", "kt", <<Plain, Plain>>)
           \o Rows("long", 8, "C", "coarse", <<c, c>>)

\* Sweep A measures the mixed workload at budget 4, sweep B the long one and,
\* perhaps, mixed at budget 8.
EvidenceA ==
  {KTMixed(b) \o Rows("mixed", 4, "C", "coarse", <<c1, c2>>) :
     b \in {<<Plain, Plain>>}, c1, c2 \in CPerfs}
  \union {KTMixed(Spread) \o Rows("mixed", 4, "C", "coarse", <<Wins, c>>) : c \in CPerfs}

Mixed8 == Rows("mixed", 8, "B", "kt", <<Plain, Plain>>)
          \o Rows("mixed", 8, "C", "fine", <<Perf(150, 8, 8, 9), Perf(150, 8, 8, 9)>>)

EvidenceB ==
  {Long(Wins), Long(Wins) \o Mixed8, SubSeq(Long(Wins), 1, 3),
   Long(Wins) \o <<Row("other", 2, "C", "fine", "lowbit", Plain)>>}

MCFirstEvidence == {"sweepA" :> a @@ "sweepB" :> b : a \in EvidenceA, b \in EvidenceB}

\* A later sweep finds TilePO slower, or fails.
MCLaterEvidence ==
  {Long(Perf(90, 10, 20, 5)),
   <<Row("mixed", 4, "C", "coarse", "failed", Plain)>>}

\* Evidence of two placement policies at one budget, as merged manifests hold.
TwoPolicies ==
  {"sweepA" :> KTMixed(<<Plain, Plain>>)
               \o Rows("mixed", 4, "C", "coarse", <<c, c>>)
               \o Rows("mixed", 4, "C", "fine", <<d, d>>)
   @@ "sweepB" :> Long(Wins) :
     c, d \in {Perf(102, 10, 20, 5), Wins, Perf(130, 10, 20, 5)}}


-----------------------------------------------------------------------------
CONSTANT Tools

VARIABLE tool   \* "admission" or "evidence"

Request(real, repeats) ==
  [workloads |-> {"mixed"}, experts |-> {4}, policies |-> {"kt_expert", "tilepo_fine"},
   asyncs |-> {"off", "on"}, repeats |-> repeats, real |-> real]

Key(policy, async, system) ==
  [workload |-> "mixed", experts |-> 4, policy |-> policy, async |-> async,
   system |-> system]

Result(key, flaw) == [key |-> key, flaw |-> flaw]
Same(n, row) == [i \in 1 .. n |-> row]
Swept(rows) == [rows |-> rows, expected |-> Len(rows)]

KtOff == Key("kt_expert", "off", "B")
FineOff == Key("tilepo_fine", "off", "C")
FineOn == Key("tilepo_fine", "on", "C")
KtAsFine == Key("tilepo_fine", "on", "B")   \* labelled with the policy of its sweep

\* The cells of the grid; an interrupted one; rows with each flaw; and the KT
\* baseline of a sweep of the other policy, under that policy's label.
MCSweepManifests ==
  {Swept(Same(2, Result(KtOff, "none")) \o Same(2, Result(FineOff, "none"))),
   Swept(Same(2, Result(FineOn, "none"))),
   [rows |-> <<Result(FineOn, "none")>>, expected |-> 2],
   Swept(Same(2, Result(KtAsFine, "none"))),
   Swept(Same(2, Result(KtOff, "none")) \o Same(2, Result(FineOn, "none")))}
  \union {Swept(<<Result(FineOn, "none"), Result(FineOn, flaw)>>) :
            flaw \in {"label", "metric", "unreal", "requests", "lowbit"}}

\* Whole, partial, repeated and reordered.
MCMergeLists ==
  {<<"s1", "s2">>, <<"s2", "s1">>, <<"s1", "s1">>, <<"s1", "s2", "s2">>, <<"s2", "s2", "s2">>}

MCRelease == Request(TRUE, 2)
MCRequests == {Request(TRUE, 2), Request(FALSE, 1)}

\* What the other tool starts from makes no difference.
MCInit ==
  /\ Init /\ EvidenceInit /\ tool \in Tools
  /\ tool = "evidence" =>
       LET one == CHOOSE evidence \in FirstEvidence : TRUE
       IN  out = "package" /\ \A d \in SourceDirs : disk[Manifest(d)].body = one[d]

MCNext ==
  \/ tool = "admission" /\ Next /\ UNCHANGED <<tool, evidenceVars>>
  \/ tool = "evidence" /\ EvidenceNext /\ UNCHANGED <<tool, vars>>

MCSpec == MCInit /\ [][MCNext]_<<tool, vars, evidenceVars>>

=============================================================================
