--------------------------- MODULE AdmissionProofs ---------------------------
(***************************************************************************)
(* Proofs about Admission, for every evidence, every number and order of   *)
(* manifests, every package directory and any number of sweeps,            *)
(* admissions, finalizations and kills; and about Evidence, for every      *)
(* release grid and any sequence of sweeps, merges, reports and            *)
(* verifications.                                                          *)
(***************************************************************************)
EXTENDS Admission, Evidence, Collections, FiniteSetTheorems, SequenceTheorems, TLAPS

\* What a finalizer that has not given up is in.
Finalizing == pc \in {"copy", "sign", "released"}

InputBases ==
  {"selected_plan", "fallback_plan", "admission_report_md",
   "selected_server_command", "tilepo_sweep_manifest"}

\* The first four inputs are admission's, the others manifests.
IsInputPath(p) ==
  p = Path(p.dir, p.base, 1) /\ p.base \in InputBases

\* Where the tools are; how many files have been copied tells the step.
StateType ==
  /\ pc \in {"idle", "admit", "copy", "sign", "released"}
  /\ pc = "admit" => step \in 1 .. 6
  /\ pc = "copy" => step \in 1 .. Len(InputPaths) /\ Len(copied) = step - 1
  /\ pc = "sign" => step \in 1 .. 4
  /\ pc \in {"sign", "released"} => Len(copied) = Len(InputPaths)
  /\ copied \in Seq([base : InputBases, nth : Nat])

\* No two copies have one name, each has the base name of its input and
\* admission's own files, whose base names differ, keep their names.
NamesInv ==
  /\ \A i \in DOMAIN copied :
       /\ i \in DOMAIN InputPaths
       /\ copied[i].base = InputPaths[i].base
       /\ i <= 4 => copied[i] = Name(InputPaths[i].base)
       /\ Exists(StoredAs(i))
  /\ \A i, j \in DOMAIN copied : copied[i] = copied[j] => i = j

\* The plan in memory is the one admission has left and has passed its gate.
PlanInv ==
  Finalizing =>
    /\ Exists(InputPaths[1])
    /\ ~disk[InputPaths[1]].torn
    /\ disk[InputPaths[1]].body = plan
    /\ plan.gate = "PASS"

\* Copies of admission's files are as the files are now: nothing is copied
\* over one of them but the file itself.
CopiesInv ==
  Finalizing =>
    \A i \in DOMAIN copied :
      i <= 4 => Exists(InputPaths[i]) /\ disk[StoredAs(i)] = disk[InputPaths[i]]

\* No copy has landed on input j before it was its turn.
Spared(j) == \A i \in DOMAIN copied : i < j => StoredAs(i) # InputPaths[j]

\* An input that was spared is copied as it was; one that is still to be
\* copied is there if it was there, and as it was.
InputsInv ==
  Finalizing =>
    /\ \A i \in DOMAIN copied : Spared(i) => disk[StoredAs(i)] = inputs[i]
    /\ pc = "copy" =>
         \A j \in DOMAIN InputPaths :
           j >= step /\ Spared(j) /\ Exists(InputPaths[j])
             => inputs[j] = disk[InputPaths[j]]

\* What has been signed.
SignedInv ==
  /\ pc = "sign" =>
       /\ step > 1 => Exists(Packaged(Name("README")))
       /\ step > 2 => Exists(Packaged(Name("CLAIM_CHECKLIST")))
  /\ pc = "released" \/ (pc = "sign" /\ step > 3) =>
       /\ Exists(Packaged(Name("raw_files")))
       /\ Exists(Packaged(Name("README")))
       /\ Exists(Packaged(Name("CLAIM_CHECKLIST")))
       /\ InPackage("raw_files").body = Checksums

\* A summary that the gate and the selections of some rows have made, and
\* admission's files of it.
IsSummary(s) == s = Summary(s.rows)
FallbackOf(s) == [w \in DOMAIN s.selections |-> s.selections[w].fallback]
Holds(base, body) == Exists(AdmissionFile(base)) /\ disk[AdmissionFile(base)].body = body
PlanOf(s) == [gate |-> s.gate, selections |-> s.selections]

\* While admission runs, the files it has passed are of its summary; when the
\* latest one has ended, all are of one summary.
AdmissionInv ==
  /\ pc = "admit" =>
       /\ interrupted = TRUE /\ IsSummary(summary)
       /\ step > 2 => Holds("admission_report_md", summary)
       /\ step > 4 => Holds("selected_plan", PlanOf(summary))
       /\ step > 5 => Holds("fallback_plan", FallbackOf(summary))
  /\ pc # "admit" /\ ~interrupted /\ Exists(AdmissionFile("selected_plan")) =>
       LET s == disk[AdmissionFile("admission_report_md")].body
       IN  /\ IsSummary(s)
           /\ Holds("admission_report_md", s)
           /\ Holds("selected_plan", PlanOf(s))
           /\ Holds("fallback_plan", FallbackOf(s))

IInv ==
  StateType /\ NamesInv /\ PlanInv /\ CopiesInv /\ InputsInv /\ SignedInv /\ AdmissionInv

-----------------------------------------------------------------------------
(* The operators of the model.                                             *)

\* Writing a file changes that file alone.
LEMMA WrittenChangesOneFile ==
  ASSUME NEW p, NEW content
  PROVE  /\ DOMAIN Written(p, content) = DOMAIN disk \union {p}
         /\ Written(p, content)[p] = content
         /\ \A q \in DOMAIN disk : q # p => Written(p, content)[q] = disk[q]
BY DEF Written

LEMMA InputPathsAre ==
  /\ Len(Sources) \in Nat
  /\ DOMAIN InputPaths = 1 .. 4 + Len(Sources)
  /\ Len(InputPaths) = 4 + Len(Sources)
  /\ InputPaths[1] = AdmissionFile("selected_plan")
  /\ InputPaths[2] = AdmissionFile("fallback_plan")
  /\ InputPaths[3] = AdmissionFile("admission_report_md")
  /\ InputPaths[4] = AdmissionFile("selected_server_command")
  /\ \A i \in 5 .. 4 + Len(Sources) : InputPaths[i] = Manifest(Sources[i - 4])
<1> DEFINE First == <<AdmissionFile("selected_plan"), AdmissionFile("fallback_plan"),
                      AdmissionFile("admission_report_md"),
                      AdmissionFile("selected_server_command")>>
           More == [i \in DOMAIN Sources |-> Manifest(Sources[i])]
           AllPaths == {First[i] : i \in 1 .. 4} \union {More[i] : i \in DOMAIN Sources}
<1>1. Len(Sources) \in Nat /\ DOMAIN Sources = 1 .. Len(Sources)
  BY DirAssumption
<1>2. /\ First \in Seq(AllPaths) /\ Len(First) = 4
      /\ First[1] = AdmissionFile("selected_plan")
      /\ First[2] = AdmissionFile("fallback_plan")
      /\ First[3] = AdmissionFile("admission_report_md")
      /\ First[4] = AdmissionFile("selected_server_command")
  OBVIOUS
<1>3. \A i \in DOMAIN Sources : More[i] \in AllPaths /\ More[i] = Manifest(Sources[i])
  OBVIOUS
<1>4. More \in Seq(AllPaths) /\ Len(More) = Len(Sources)
  <2> HIDE DEF AllPaths
  <2>1. More \in [1 .. Len(Sources) -> AllPaths]
    BY <1>1, <1>3
  <2> QED BY <1>1, <2>1
<1>5. InputPaths = First \o More
  BY DEF InputPaths
<1> HIDE DEF First, More, AllPaths
<1>6. /\ Len(First \o More) = 4 + Len(Sources)
      /\ DOMAIN (First \o More) = 1 .. 4 + Len(Sources)
      /\ \A i \in 1 .. 4 + Len(Sources) :
           (First \o More)[i] = IF i <= 4 THEN First[i] ELSE More[i - 4]
  <2>0. First \in Seq(AllPaths) /\ More \in Seq(AllPaths)
    BY <1>2, <1>4
  <2>1. /\ First \o More \in Seq(AllPaths)
        /\ Len(First \o More) = Len(First) + Len(More)
        /\ \A i \in 1 .. Len(First) + Len(More) :
             (First \o More)[i]
               = IF i <= Len(First) THEN First[i] ELSE More[i - Len(First)]
    BY <2>0, ConcatProperties, Zenon
  <2> QED BY <1>1, <1>2, <1>4, <2>1
<1>7. DOMAIN InputPaths = 1 .. 4 + Len(Sources) /\ Len(InputPaths) = 4 + Len(Sources)
  BY <1>1, <1>5, <1>6
<1>8. \A i \in 1 .. 4 : InputPaths[i] = First[i]
  BY <1>1, <1>5, <1>6
<1>9. \A i \in 5 .. 4 + Len(Sources) : InputPaths[i] = Manifest(Sources[i - 4])
  <2> SUFFICES ASSUME NEW i \in 5 .. 4 + Len(Sources)
               PROVE  InputPaths[i] = Manifest(Sources[i - 4])
    OBVIOUS
  <2>1. InputPaths[i] = More[i - 4] /\ i - 4 \in DOMAIN Sources
    BY <1>1, <1>5, <1>6
  <2> QED BY <1>3, <2>1
<1> QED BY <1>1, <1>2, <1>7, <1>8, <1>9

\* Where the inputs lie: one base name for all manifests, another for each of
\* admission's files.
LEMMA InputsApart ==
  /\ \A i \in DOMAIN InputPaths :
       /\ i \in Nat \ {0}
       /\ InputPaths[i] = Path(InputPaths[i].dir, InputPaths[i].base, 1)
       /\ InputPaths[i].base \in InputBases
       /\ i <= 4 <=> InputPaths[i].base # "tilepo_sweep_manifest"
       /\ i <= 4 => InputPaths[i].dir = "admission"
       /\ i > 4 => InputPaths[i].dir # "admission"
  /\ \A i, j \in DOMAIN InputPaths :
       i <= 4 /\ InputPaths[i].base = InputPaths[j].base => i = j
  /\ {1, 2, 3, 4} \subseteq DOMAIN InputPaths
<1>1. \A i \in DOMAIN InputPaths : i \in {1, 2, 3, 4} \/ i \in 5 .. 4 + Len(Sources)
  BY InputPathsAre
<1>2. {1, 2, 3, 4} \subseteq DOMAIN InputPaths
  BY InputPathsAre
<1>3. \A i \in 5 .. 4 + Len(Sources) :
        /\ InputPaths[i] = Manifest(Sources[i - 4])
        /\ Sources[i - 4] # "admission"
  BY InputPathsAre, DirAssumption
<1>4. \A i \in 5 .. 4 + Len(Sources) :
        /\ InputPaths[i] = Path(InputPaths[i].dir, "tilepo_sweep_manifest", 1)
        /\ InputPaths[i].base = "tilepo_sweep_manifest"
        /\ InputPaths[i].dir # "admission"
        /\ i > 4 /\ i \in Nat \ {0}
  <2>1. \A d : Manifest(d) = Path(Manifest(d).dir, "tilepo_sweep_manifest", 1)
    BY DEF Manifest, Path
  <2>2. \A d : Manifest(d).base = "tilepo_sweep_manifest" /\ Manifest(d).dir = d
    BY DEF Manifest, Path
  <2>3. \A i \in 5 .. 4 + Len(Sources) : i > 4 /\ i \in Nat \ {0}
    BY InputPathsAre
  <2> QED BY <1>3, <2>1, <2>2, <2>3
<1>5. \A i \in {1, 2, 3, 4} :
        /\ InputPaths[i] = Path("admission", InputPaths[i].base, 1)
        /\ InputPaths[i].dir = "admission"
        /\ InputPaths[i].base \in InputBases \ {"tilepo_sweep_manifest"}
  BY InputPathsAre DEF AdmissionFile, Path, InputBases
<1>6. \A i, j \in {1, 2, 3, 4} : InputPaths[i].base = InputPaths[j].base => i = j
  BY InputPathsAre DEF AdmissionFile, Path
<1>7. \A i \in DOMAIN InputPaths :
        /\ i \in Nat \ {0}
        /\ InputPaths[i] = Path(InputPaths[i].dir, InputPaths[i].base, 1)
        /\ InputPaths[i].base \in InputBases
        /\ i <= 4 <=> InputPaths[i].base # "tilepo_sweep_manifest"
        /\ i <= 4 => InputPaths[i].dir = "admission"
        /\ i > 4 => InputPaths[i].dir # "admission"
  BY <1>1, <1>4, <1>5 DEF InputBases
<1>8. \A i, j \in DOMAIN InputPaths :
        i <= 4 /\ InputPaths[i].base = InputPaths[j].base => i = j
  BY <1>1, <1>4, <1>5, <1>6
<1> QED BY <1>2, <1>7, <1>8

\* Of one name more than there are copies, one is free; the first is taken.
LEMMA UniqueNameIsFree ==
  ASSUME copied \in Seq([base : InputBases, nth : Nat]), NEW p, p.base \in InputBases
  PROVE  /\ UniqueName(p) \in [base : InputBases, nth : Nat]
         /\ UniqueName(p).base = p.base
         /\ UniqueName(p) \notin Used
         /\ (\A i \in DOMAIN copied : copied[i].base # p.base)
              => UniqueName(p) = Name(p.base)
<1> DEFINE N(n) == [base |-> p.base, nth |-> n]
           nths == {n \in 1 .. Len(copied) + 1 : N(n) \notin Used}
           least == CHOOSE n \in nths : \A k \in nths : n <= k
<1>1. Len(copied) \in Nat /\ DOMAIN copied = 1 .. Len(copied)
  OBVIOUS
<1>2. nths # {}
  <2> SUFFICES ASSUME nths = {} PROVE FALSE
    OBVIOUS
  <2>1. \A n \in 1 .. Len(copied) + 1 : \E i \in DOMAIN copied : copied[i] = N(n)
    BY DEF Used
  <2> DEFINE at == [n \in 1 .. Len(copied) + 1 |-> CHOOSE i \in DOMAIN copied : copied[i] = N(n)]
  <2>2. \A n \in 1 .. Len(copied) + 1 : at[n] \in DOMAIN copied /\ copied[at[n]] = N(n)
    BY <2>1
  <2>3. at \in [1 .. Len(copied) + 1 -> 1 .. Len(copied)]
    BY <1>1, <2>2
  <2>4. /\ IsFiniteSet(1 .. Len(copied) + 1) /\ IsFiniteSet(1 .. Len(copied))
        /\ Cardinality(1 .. Len(copied)) = Len(copied)
        /\ Cardinality(1 .. Len(copied) + 1) = Len(copied) + 1
    <3>1. 1 \in Int /\ Len(copied) \in Int /\ Len(copied) + 1 \in Int
      BY <1>1
    <3>2. IsFiniteSet(1 .. Len(copied)) /\ Cardinality(1 .. Len(copied)) = Len(copied)
      BY <1>1, <3>1, FS_Interval
    <3>3. /\ IsFiniteSet(1 .. Len(copied) + 1)
          /\ Cardinality(1 .. Len(copied) + 1) = Len(copied) + 1
      BY <1>1, <3>1, FS_Interval
    <3> QED BY ONLY <3>2, <3>3
  <2> HIDE DEF at
  <2>5. PICK x, y \in 1 .. Len(copied) + 1 : x # y /\ at[x] = at[y]
    <3> DEFINE S == 1 .. Len(copied) + 1
               T == 1 .. Len(copied)
    <3>1. /\ IsFiniteSet(S) /\ IsFiniteSet(T) /\ at \in [S -> T]
          /\ Cardinality(T) < Cardinality(S)
      BY <1>1, <2>3, <2>4
    <3> HIDE DEF S, T
    <3>2. \E x, y \in S : x # y /\ at[x] = at[y]
      BY ONLY <3>1, FS_PigeonHole
    <3> QED BY <3>2 DEF S
  <2>6. N(x) = N(y)
    BY <2>2, <2>5
  <2> QED BY <2>5, <2>6
<1>3. \E n \in nths : \A k \in nths : n <= k
  <2>1. nths \in SUBSET Nat
    BY <1>1
  <2> HIDE DEF nths
  <2> QED BY ONLY <1>2, <2>1, LeastOf
<1>4. least \in nths /\ \A k \in nths : least <= k
  BY <1>3
<1>5. UniqueName(p) = N(least)
  BY DEF UniqueName
<1>6. (\A i \in DOMAIN copied : copied[i].base # p.base) => least = 1
  <2> SUFFICES ASSUME \A i \in DOMAIN copied : copied[i].base # p.base
               PROVE  least = 1
    OBVIOUS
  <2>1. N(1) \notin Used
    BY DEF Used
  <2>2. 1 \in nths
    BY <1>1, <2>1
  <2> QED BY <1>1, <1>4, <2>2
<1>7. least \in Nat /\ N(least) \notin Used
  BY <1>1, <1>4
<1> HIDE DEF least
<1>8. N(least) \in [base : InputBases, nth : Nat] /\ N(least).base = p.base
  BY <1>7
<1> QED BY <1>5, <1>6, <1>7, <1>8 DEF Name

\* What the gate and the selections say of each other, whatever the rows.
LEMMA SummaryFacts ==
  ASSUME NEW s, IsSummary(s), s.gate = "PASS"
  PROVE  FallbackOf(s) = [w \in Workloads |-> s.selections[w].budget]
<1>1. s.gate = Gate(s.rows) /\ s.selections = Selections(s.rows)
  BY DEF IsSummary, Summary
<1>2. \A w \in Workloads : Complete(s.rows, w) # {}
  BY <1>1 DEF Gate
<1>3. DOMAIN s.selections = Workloads
  BY <1>1, <1>2 DEF Selections
<1>4. \A w \in Workloads : s.selections[w] = Selection(s.rows, w)
  BY <1>1, <1>2 DEF Selections
<1>5. \A w \in Workloads : Selection(s.rows, w).fallback = Selection(s.rows, w).budget
  BY DEF Selection, Choice
<1>6. \A w \in Workloads : s.selections[w].fallback = s.selections[w].budget
  BY <1>4, <1>5
<1> QED BY <1>3, <1>6 DEF FallbackOf

\* Different names are different files of the package.
LEMMA PackagedApart ==
  /\ \A S, T : \A m, n \in [base : S, nth : T] : Packaged(m) = Packaged(n) => m = n
  /\ \A b \in InputBases : Name(b) \in [base : InputBases, nth : Nat]
  /\ \A n, p : Packaged(n) = p => p.base = n.base /\ p.nth = n.nth
<1>1. \A n : Packaged(n).base = n.base /\ Packaged(n).nth = n.nth
  BY DEF Packaged, Path
<1>2. \A S, T : \A n \in [base : S, nth : T] : n = [base |-> n.base, nth |-> n.nth]
  OBVIOUS
<1>3. \A b \in InputBases : Name(b) \in [base : InputBases, nth : Nat]
  BY DEF Name
<1> QED BY <1>1, <1>2, <1>3

\* Rows after rows are rows.
LEMMA RowsAfterRows ==
  ASSUME NEW a, NEW b, AreRows(a), AreRows(b)
  PROVE  AreRows(a \o b)
<1> DEFINE S == Range(a) \union Range(b)
<1>1. a \in Seq(Range(a)) /\ b \in Seq(Range(b))
  BY DEF AreRows
<1>2. a \in Seq(S) /\ b \in Seq(S)
  BY <1>1
<1>3. /\ \A i \in 1 .. Len(a), m \in Metrics : a[i][m] \in Int \union {Missing}
      /\ \A i \in 1 .. Len(b), m \in Metrics : b[i][m] \in Int \union {Missing}
  BY <1>1 DEF AreRows
<1> HIDE DEF S
<1>4. /\ a \o b \in Seq(S)
      /\ Len(a \o b) = Len(a) + Len(b)
      /\ \A i \in 1 .. Len(a) + Len(b) :
           (a \o b)[i] = IF i <= Len(a) THEN a[i] ELSE b[i - Len(a)]
  BY <1>2, ConcatProperties, Zenon
<1>5. Len(a) \in Nat /\ Len(b) \in Nat
  BY <1>2
<1>7. a \o b \in Seq(Range(a \o b))
  BY <1>4, SeqOfRange, Zenon
<1>8. ASSUME NEW i \in DOMAIN (a \o b), NEW m \in Metrics
      PROVE  (a \o b)[i][m] \in Int \union {Missing}
  <2>1. i \in 1 .. Len(a) + Len(b)
    BY <1>4
  <2>2. CASE i <= Len(a)
    BY <1>3, <1>4, <1>5, <2>1, <2>2
  <2>3. CASE i > Len(a)
    <3>1. i - Len(a) \in 1 .. Len(b) /\ (a \o b)[i] = b[i - Len(a)]
      BY <1>4, <1>5, <2>1, <2>3
    <3> QED BY <1>3, <3>1
  <2> QED BY <1>5, <2>1, <2>2, <2>3
<1> QED BY <1>7, <1>8 DEF AreRows

LEMMA FlattenRows ==
  ASSUME NEW ss, NEW n \in Nat, ss \in [1 .. n -> Range(ss)],
         \A i \in 1 .. n : AreRows(ss[i])
  PROVE  AreRows(FlattenSeq(ss))
<1>1. ss \in Seq(Range(ss)) /\ Len(ss) = n
  OBVIOUS
<1>2. CASE n = 0
  <2>1. FlattenSeq(ss) = ss /\ DOMAIN ss = {}
    BY <1>1, <1>2 DEF FlattenSeq
  <2> QED BY <1>1, <2>1 DEF AreRows
<1>3. CASE n # 0
  <2> DEFINE g == CHOOSE g : IsFlat(g, ss, n)
  <2>1. FlattenSeq(ss) = g[n]
    BY <1>1, <1>3 DEF FlattenSeq, IsFlat
  <2>2. IsFlat(g, ss, n)
    BY FlatExists
  <2> HIDE DEF g
  <2>3. \A i \in 1 .. n : g[i] = IF i = 1 THEN ss[i] ELSE g[i - 1] \o ss[i]
    BY <2>2 DEF IsFlat
  <2> DEFINE Bad == {i \in 1 .. n : ~AreRows(g[i])}
  <2>4. Bad = {}
    <3> SUFFICES ASSUME Bad # {} PROVE FALSE
      OBVIOUS
    <3>1. PICK k \in Bad : \A j \in Bad : k <= j
      <4>1. Bad \in SUBSET Nat
        OBVIOUS
      <4> HIDE DEF Bad
      <4> QED BY <4>1, LeastOf
    <3>2. k \in 1 .. n /\ ~AreRows(g[k])
      BY <3>1
    <3>3. k # 1
      BY <2>3, <3>2
    <3>4. k - 1 \in 1 .. n /\ k - 1 \notin Bad
      BY <3>1, <3>2, <3>3
    <3>5. AreRows(g[k - 1]) /\ AreRows(ss[k])
      BY <3>2, <3>4
    <3>6. g[k] = g[k - 1] \o ss[k]
      BY <2>3, <3>2, <3>3
    <3> QED BY <3>2, <3>5, <3>6, RowsAfterRows
  <2> QED BY <1>3, <2>1, <2>4
<1> QED BY <1>2, <1>3

-----------------------------------------------------------------------------
(* Medians and best scores: why half of the rows lie on one side.          *)

\* i has the highest score in s, and is the first that has it.
Leads(i, s, score) ==
  \A j \in s : score[i] > score[j] \/ (score[i] = score[j] /\ i <= j)

\* What max returns exists.
LEMMA SomeoneLeads ==
  ASSUME NEW S \in SUBSET Int, IsFiniteSet(S), S # {}, NEW score \in [S -> Int]
  PROVE  \E i \in S : Leads(i, S, score)
<1> DEFINE Bad == {s \in SUBSET S : s # {} /\ ~\E i \in s : Leads(i, s, score)}
<1> SUFFICES ASSUME Bad # {} PROVE FALSE
  OBVIOUS
<1>1. PICK s \in Bad : \A u \in SUBSET s : u # s => u \notin Bad
  <2>1. Bad \in SUBSET SUBSET S
    OBVIOUS
  <2> HIDE DEF Bad
  <2> QED BY <2>1, SmallestException
<1>2. s \in SUBSET S /\ s # {} /\ ~\E i \in s : Leads(i, s, score)
  BY <1>1
<1>3. PICK x \in s : TRUE
  BY <1>2
<1>4. s \ {x} # {}
  <2> SUFFICES ASSUME s \ {x} = {} PROVE FALSE
    OBVIOUS
  <2>1. Leads(x, s, score)
    BY <1>2 DEF Leads
  <2> QED BY <1>2, <2>1
<1>5. s \ {x} \notin Bad
  BY <1>1, <1>3
<1>6. PICK m \in s \ {x} : Leads(m, s \ {x}, score)
  BY <1>2, <1>4, <1>5
<1>7. x \in Int /\ m \in Int /\ \A j \in s : j \in Int /\ score[j] \in Int
  BY <1>2, <1>3, <1>6
<1>8. Leads(x, s, score) \/ Leads(m, s, score)
  BY <1>3, <1>6, <1>7 DEF Leads
<1> QED BY <1>2, <1>3, <1>6, <1>8

LEMMA LeastAndGreatest ==
  ASSUME NEW S \in SUBSET Int, IsFiniteSet(S), S # {}
  PROVE  /\ \E i \in S : \A j \in S : i <= j
         /\ \E i \in S : \A j \in S : j <= i
<1> DEFINE down == [i \in S |-> 0 - i]
           up == [i \in S |-> i]
<1>1. down \in [S -> Int] /\ up \in [S -> Int]
  OBVIOUS
<1>2. \A i \in S : down[i] = 0 - i /\ up[i] = i
  OBVIOUS
<1> HIDE DEF down, up
<1>3. PICK i \in S : Leads(i, S, down)
  BY <1>1, SomeoneLeads
<1>4. PICK k \in S : Leads(k, S, up)
  BY <1>1, SomeoneLeads
<1>5. \A j \in S : i <= j
  BY <1>2, <1>3 DEF Leads
<1>6. \A j \in S : j <= k
  BY <1>2, <1>4 DEF Leads
<1> QED BY <1>5, <1>6

\* The values of a metric in finitely many rows.
IsTable(f) == IsFiniteSet(DOMAIN f) /\ \A i \in DOMAIN f : f[i] \in Int

Below(f, v) == {i \in DOMAIN f : f[i] < v}
UpTo(f, v) == {i \in DOMAIN f : f[i] <= v}
From(f, v) == {i \in DOMAIN f : v <= f[i]}

LEMMA ValuesFinite ==
  ASSUME NEW f, IsTable(f), NEW T \in SUBSET DOMAIN f
  PROVE  IsFiniteSet({f[i] : i \in T}) /\ {f[i] : i \in T} \in SUBSET Int
<1>1. IsFiniteSet(T)
  BY FS_Subset DEF IsTable
<1> DEFINE V == {f[i] : i \in T}
           g == [i \in T |-> f[i]]
<1>2. g \in Surjection(T, V)
  BY DEF Surjection
<1>3. V \in SUBSET Int
  BY DEF IsTable
<1> HIDE DEF V, g
<1>4. IsFiniteSet(V)
  BY <1>1, <1>2, FS_Surjection
<1> QED BY <1>3, <1>4 DEF V

LEMMA Counts ==
  ASSUME NEW f, IsTable(f), NEW S \in SUBSET DOMAIN f, NEW T \in SUBSET S
  PROVE  /\ Cardinality(S) \in Nat /\ Cardinality(T) \in Nat
         /\ Cardinality(T) <= Cardinality(S)
         /\ Cardinality(S \ T) = Cardinality(S) - Cardinality(T)
<1>1. IsFiniteSet(S)
  BY FS_Subset DEF IsTable
<1>2. IsFiniteSet(T) /\ Cardinality(T) <= Cardinality(S)
  BY <1>1, FS_Subset
<1>3. Cardinality(S \ T) = Cardinality(S) - Cardinality(S \cap T)
  BY <1>1, FS_Difference
<1>4. S \cap T = T
  OBVIOUS
<1> QED BY <1>1, <1>2, <1>3, <1>4, FS_CardinalityType

\* The k-th smallest value is one of the values, fewer than k lie below it and
\* at least k do not lie above it.
LEMMA KthSmallestIs ==
  ASSUME NEW f, IsTable(f), NEW k \in Nat, 1 <= k, k <= Cardinality(DOMAIN f)
  PROVE  \E i \in DOMAIN f :
           /\ KthSmallest(f, k) = f[i]
           /\ Cardinality(Below(f, f[i])) < k
           /\ Cardinality(UpTo(f, f[i])) >= k
<1> DEFINE Deep == {i \in DOMAIN f : Cardinality(UpTo(f, f[i])) >= k}
           V == {f[i] : i \in Deep}
<1>0. /\ Cardinality({}) = 0
      /\ \A S \in SUBSET DOMAIN f : Cardinality(S) \in Nat
      /\ \A v : UpTo(f, v) \in SUBSET DOMAIN f /\ Below(f, v) \in SUBSET DOMAIN f
  BY Counts, FS_EmptySet DEF UpTo, Below
<1>1. \E i \in DOMAIN f : UpTo(f, f[i]) = DOMAIN f
  <2>1. DOMAIN f # {}
    BY <1>0
  <2> DEFINE W == {f[i] : i \in DOMAIN f}
  <2>2. IsFiniteSet(W) /\ W \in SUBSET Int
    BY ValuesFinite
  <2>3. W # {}
    BY <2>1
  <2>4. \E v \in W : \A w \in W : w <= v
    <3> HIDE DEF W
    <3> QED BY <2>2, <2>3, LeastAndGreatest
  <2> QED BY <2>4 DEF UpTo
<1>2. IsFiniteSet(V) /\ V \in SUBSET Int
  BY ValuesFinite
<1>3. V # {}
  BY <1>1
<1>4. \E v \in V : \A w \in V : v <= w
  <2> HIDE DEF V
  <2> QED BY <1>2, <1>3, LeastAndGreatest
<1>5. PICK i \in Deep : \A j \in Deep : f[i] <= f[j]
  BY <1>4
<1>6. i \in DOMAIN f /\ Cardinality(UpTo(f, f[i])) >= k
  BY <1>5
<1>7. Cardinality(Below(f, f[i])) < k
  <2> SUFFICES ASSUME Cardinality(Below(f, f[i])) >= k PROVE FALSE
    BY <1>0
  <2> DEFINE B == {f[j] : j \in Below(f, f[i])}
  <2>1. Below(f, f[i]) # {}
    BY <1>0
  <2>2. IsFiniteSet(B) /\ B \in SUBSET Int
    BY <1>0, ValuesFinite
  <2>3. \E v \in B : \A w \in B : w <= v
    <3>1. B # {}
      BY <2>1
    <3> HIDE DEF B
    <3> QED BY <2>2, <3>1, LeastAndGreatest
  <2>4. PICK j \in Below(f, f[i]) : \A l \in Below(f, f[i]) : f[l] <= f[j]
    BY <2>3
  <2>5. j \in DOMAIN f /\ f[j] < f[i]
    BY <2>4 DEF Below
  <2>6. UpTo(f, f[j]) = Below(f, f[i])
    BY <1>6, <2>4, <2>5 DEF UpTo, Below, IsTable
  <2>7. f[i] <= f[j]
    BY <1>5, <2>5, <2>6
  <2> QED BY <1>6, <2>5, <2>7 DEF IsTable
<1>8. \E v \in {f[j] : j \in DOMAIN f} :
        Cardinality(Below(f, v)) < k /\ Cardinality(UpTo(f, v)) >= k
  BY <1>6, <1>7
<1>9. KthSmallest(f, k)
        = CHOOSE v \in {f[j] : j \in DOMAIN f} :
            Cardinality(Below(f, v)) < k /\ Cardinality(UpTo(f, v)) >= k
  BY DEF KthSmallest, Below, UpTo
<1> QED BY <1>8, <1>9

\* Half of the values lie below the lower of the two middle ones and half
\* above the upper, equality allowed.
LEMMA MedianHalves ==
  ASSUME NEW f, IsTable(f), DOMAIN f # {}
  PROVE  \E i, j \in DOMAIN f :
           /\ TwiceMedian(f) = f[i] + f[j] /\ f[i] <= f[j]
           /\ 2 * Cardinality(UpTo(f, f[i])) >= Cardinality(DOMAIN f)
           /\ 2 * Cardinality(From(f, f[j])) >= Cardinality(DOMAIN f)
<1> DEFINE n == Cardinality(DOMAIN f)
<1>1. n \in Nat /\ n # 0
  BY FS_CardinalityType, FS_EmptySet DEF IsTable
<1> HIDE DEF n
<1>2. /\ (n + 1) \div 2 \in Nat /\ 1 <= (n + 1) \div 2 /\ (n + 1) \div 2 <= n
      /\ (n \div 2) + 1 \in Nat /\ 1 <= (n \div 2) + 1 /\ (n \div 2) + 1 <= n
      /\ (n + 1) \div 2 <= (n \div 2) + 1
      /\ 2 * ((n + 1) \div 2) >= n
      /\ 2 * (n \div 2) <= n
  BY <1>1
<1> DEFINE lo == (n + 1) \div 2
           hi == (n \div 2) + 1
<1>3. /\ lo \in Nat /\ 1 <= lo /\ lo <= n /\ hi \in Nat /\ 1 <= hi /\ hi <= n
      /\ lo <= hi /\ 2 * lo >= n /\ 2 * (hi - 1) <= n
  BY <1>1, <1>2
<1>4. TwiceMedian(f) = KthSmallest(f, lo) + KthSmallest(f, hi)
  BY <1>1 DEF TwiceMedian, n
<1> HIDE DEF lo, hi
<1>5. PICK i \in DOMAIN f :
        /\ KthSmallest(f, lo) = f[i]
        /\ Cardinality(Below(f, f[i])) < lo
        /\ Cardinality(UpTo(f, f[i])) >= lo
  BY <1>3, KthSmallestIs DEF n
<1>6. PICK j \in DOMAIN f :
        /\ KthSmallest(f, hi) = f[j]
        /\ Cardinality(Below(f, f[j])) < hi
        /\ Cardinality(UpTo(f, f[j])) >= hi
  BY <1>3, KthSmallestIs DEF n
<1>7. \A S \in SUBSET DOMAIN f : Cardinality(S) \in Nat
  BY Counts
<1>8. \A v : Below(f, v) \in SUBSET DOMAIN f /\ UpTo(f, v) \in SUBSET DOMAIN f
             /\ From(f, v) \in SUBSET DOMAIN f
  BY DEF Below, UpTo, From
<1>9. f[i] <= f[j]
  <2> SUFFICES ASSUME f[j] < f[i] PROVE FALSE
    BY DEF IsTable
  <2>1. UpTo(f, f[j]) \in SUBSET Below(f, f[i])
    BY DEF UpTo, Below, IsTable
  <2>2. Cardinality(UpTo(f, f[j])) <= Cardinality(Below(f, f[i]))
    BY <1>8, <2>1, Counts
  <2> QED BY <1>3, <1>5, <1>6, <1>7, <1>8, <2>2
<1>10. Cardinality(From(f, f[j])) = n - Cardinality(Below(f, f[j]))
  <2>1. From(f, f[j]) = DOMAIN f \ Below(f, f[j])
    BY DEF From, Below, IsTable
  <2> QED BY <1>8, <2>1, Counts DEF n
<1>11. 2 * Cardinality(UpTo(f, f[i])) >= n
  BY <1>1, <1>3, <1>5, <1>7, <1>8
<1>12. 2 * Cardinality(From(f, f[j])) >= n
  <2>1. Cardinality(Below(f, f[j])) \in Nat
    BY <1>7, <1>8
  <2> QED BY <1>1, <1>3, <1>6, <1>10, <2>1
<1> QED BY <1>4, <1>5, <1>6, <1>9, <1>11, <1>12 DEF n

\* Halves that can be counted carry over to larger sets.
LEMMA HalfOf ==
  ASSUME NEW f, IsTable(f), DOMAIN f # {}, NEW S \in SUBSET DOMAIN f,
         2 * Cardinality(S) >= Cardinality(DOMAIN f),
         NEW T \in SUBSET DOMAIN f, S \subseteq T
  PROVE  2 * Cardinality(T) >= Cardinality(DOMAIN f)
<1>1. Cardinality(S) \in Nat /\ Cardinality(T) \in Nat /\ Cardinality(S) <= Cardinality(T)
  BY Counts
<1>2. Cardinality(DOMAIN f) \in Nat
  BY Counts
<1> QED BY <1>1, <1>2

\* A tail that is no slower in the medians is held in the rows.
LEMMA HeldInRows ==
  ASSUME NEW b, IsTable(b), DOMAIN b # {}, NEW c, IsTable(c), DOMAIN c # {},
         TwiceMedian(c) <= TwiceMedian(b)
  PROVE  TailHeld(b, c)
<1>1. PICK i, j \in DOMAIN b :
        /\ TwiceMedian(b) = b[i] + b[j] /\ b[i] <= b[j]
        /\ 2 * Cardinality(From(b, b[j])) >= Cardinality(DOMAIN b)
  BY MedianHalves
<1>2. PICK k, l \in DOMAIN c :
        /\ TwiceMedian(c) = c[k] + c[l] /\ c[k] <= c[l]
        /\ 2 * Cardinality(UpTo(c, c[k])) >= Cardinality(DOMAIN c)
  BY MedianHalves
<1> DEFINE t == b[i] + b[j]
           Tb == {x \in DOMAIN b : 2 * b[x] >= t}
           Tc == {x \in DOMAIN c : 2 * c[x] <= t}
<1>3. b[i] \in Int /\ b[j] \in Int /\ c[k] \in Int /\ c[l] \in Int
  BY DEF IsTable
<1>4. t \in Int /\ c[k] + c[l] <= t /\ t <= 2 * b[j] /\ 2 * c[k] <= t
  BY <1>1, <1>2, <1>3
<1>5. From(b, b[j]) \subseteq Tb
  BY <1>3, <1>4 DEF From, IsTable
<1>6. UpTo(c, c[k]) \subseteq Tc
  BY <1>3, <1>4 DEF UpTo, IsTable
<1>7. 2 * Cardinality(Tb) >= Cardinality(DOMAIN b)
  BY <1>1, <1>5, HalfOf DEF From
<1>8. 2 * Cardinality(Tc) >= Cardinality(DOMAIN c)
  BY <1>2, <1>6, HalfOf DEF UpTo
<1>9. t \in Sums(b)
  BY DEF Sums
<1> QED BY <1>7, <1>8, <1>9 DEF TailHeld, Half

\* A throughput that wins in the medians wins in the rows.
LEMMA WonInRows ==
  ASSUME NEW b, IsTable(b), DOMAIN b # {}, NEW c, IsTable(c), DOMAIN c # {},
         100 * TwiceMedian(c) >= TwiceMedian(b) * (100 + WinPercent)
  PROVE  ThroughputWon(b, c)
<1>1. PICK i, j \in DOMAIN b :
        /\ TwiceMedian(b) = b[i] + b[j] /\ b[i] <= b[j]
        /\ 2 * Cardinality(UpTo(b, b[i])) >= Cardinality(DOMAIN b)
  BY MedianHalves
<1>2. PICK k, l \in DOMAIN c :
        /\ TwiceMedian(c) = c[k] + c[l] /\ c[k] <= c[l]
        /\ 2 * Cardinality(From(c, c[l])) >= Cardinality(DOMAIN c)
  BY MedianHalves
<1> DEFINE t == b[i] + b[j]
           goal == t * (100 + WinPercent)
           Tb == {x \in DOMAIN b : 2 * b[x] <= t}
           Tc == {x \in DOMAIN c : 200 * c[x] >= goal}
<1>3. b[i] \in Int /\ b[j] \in Int /\ c[k] \in Int /\ c[l] \in Int
  BY DEF IsTable
<1>4. t \in Int /\ 2 * b[i] <= t
  BY <1>1, <1>3
<1>5. goal \in Int
  BY <1>4, RequestAssumption
<1>6. 100 * (c[k] + c[l]) >= goal
  BY <1>1, <1>2
<1>7. UpTo(b, b[i]) \subseteq Tb
  BY <1>3, <1>4 DEF UpTo, IsTable
<1>8. From(c, c[l]) \subseteq Tc
  <2> HIDE DEF goal
  <2> QED BY <1>2, <1>3, <1>5, <1>6 DEF From, IsTable
<1>9. 2 * Cardinality(Tb) >= Cardinality(DOMAIN b)
  BY <1>1, <1>7, HalfOf DEF UpTo
<1>10. 2 * Cardinality(Tc) >= Cardinality(DOMAIN c)
  BY <1>2, <1>8, HalfOf DEF From
<1>11. t \in Sums(b)
  BY DEF Sums
<1> QED BY <1>9, <1>10, <1>11 DEF ThroughputWon, Half

\* The rows of a cell that have a metric are a table of numbers.
LEMMA RecordedIsTable ==
  ASSUME NEW rows, AreRows(rows), NEW cell \in SUBSET DOMAIN rows, NEW m \in Metrics
  PROVE  /\ IsTable(Recorded(rows, cell, m))
         /\ TwiceMedian(Recorded(rows, cell, m)) \in Int \union {Missing}
         /\ TwiceMedian(Recorded(rows, cell, m)) # Missing
              => DOMAIN Recorded(rows, cell, m) # {}
<1> DEFINE f == Recorded(rows, cell, m)
<1>1. DOMAIN f = {j \in cell : rows[j][m] # Missing}
  BY DEF Recorded
<1>2. \A i \in DOMAIN f : f[i] = rows[i][m] /\ f[i] \in Int
  BY <1>1 DEF Recorded, AreRows
<1>3. IsFiniteSet(DOMAIN f)
  <2>1. DOMAIN rows = 1 .. Len(rows) /\ Len(rows) \in Nat
    BY DEF AreRows
  <2>2. IsFiniteSet(1 .. Len(rows))
    BY <2>1, FS_Interval
  <2>3. DOMAIN f \in SUBSET (1 .. Len(rows))
    BY <1>1, <2>1
  <2> QED BY <2>2, <2>3, FS_Subset
<1> HIDE DEF f
<1>4. IsTable(f)
  BY <1>2, <1>3 DEF IsTable
<1>5. CASE DOMAIN f = {}
  <2>1. TwiceMedian(f) = Missing
    BY <1>5, FS_EmptySet DEF TwiceMedian
  <2> QED BY <1>4, <2>1 DEF f
<1>6. CASE DOMAIN f # {}
  <2>1. TwiceMedian(f) \in Int
    BY <1>4, <1>6, MedianHalves DEF IsTable
  <2> QED BY <1>4, <1>6, <2>1 DEF f
<1> QED BY <1>5, <1>6

LEMMA FirstRepeatsOf ==
  \A rows, w, e, system :
    FirstRepeats(Cell(rows, w, e, system)) \in SUBSET DOMAIN rows
BY DEF FirstRepeats, Cell

\* The budget selected for a workload that TilePO is admitted for is one that
\* it is admitted for.
LEMMA BestIsAdmitted ==
  ASSUME NEW rows, AreRows(rows), NEW w, NEW system,
         NEW indexes \in SUBSET DOMAIN Experts, indexes # {}
  PROVE  Best(indexes, rows, w, system) \in indexes
<1> DEFINE value(i) == Score(Measured(rows, w, i, system))
           score == [i \in indexes |-> value(i)]
<1>1. ASSUME NEW i \in indexes PROVE value(i) \in Int
  <2> DEFINE cell == FirstRepeats(Cell(rows, w, Experts[i], system))
             metrics == Measured(rows, w, i, system)
  <2>1. cell \in SUBSET DOMAIN rows
    BY FirstRepeatsOf
  <2> HIDE DEF cell
  <2>2. \A m \in Metrics : TwiceMedian(Recorded(rows, cell, m)) \in Int \union {Missing}
    BY <2>1, RecordedIsTable
  <2>3. metrics = [m \in Metrics |-> TwiceMedian(Recorded(rows, cell, m))]
    BY DEF Measured, Aggregate, cell
  <2> HIDE DEF metrics
  <2>4. /\ OrElse(metrics.tok, 0) \in Int
        /\ OrElse(metrics.p95, 2000000) \in Int
        /\ OrElse(metrics.gpu, 2000000) \in Int
    <3>1. metrics.tok \in Int \union {Missing} /\ metrics.p95 \in Int \union {Missing}
          /\ metrics.gpu \in Int \union {Missing}
      BY <2>2, <2>3 DEF Metrics
    <3> QED BY <3>1 DEF OrElse
  <2> DEFINE tok == OrElse(metrics.tok, 0)
             p95 == OrElse(metrics.p95, 2000000)
             gpu == OrElse(metrics.gpu, 2000000)
  <2>5. Score(metrics) =
          CASE Policy = "tail_latency" -> -100 * p95
            [] Policy = "memory_saving" -> -100 * gpu
            [] Policy = "balanced" -> 100 * tok - p95 - 10 * gpu
            [] Policy = "throughput" -> 100 * tok
    BY DEF Score
  <2>6. tok \in Int /\ p95 \in Int /\ gpu \in Int
    BY <2>4
  <2> HIDE DEF tok, p95, gpu
  <2>7. /\ -100 * p95 \in Int /\ -100 * gpu \in Int
        /\ 100 * tok - p95 - 10 * gpu \in Int /\ 100 * tok \in Int
    BY <2>6, SMT
  <2>8. Score(metrics) \in Int
    BY <2>5, <2>7, RequestAssumption, SMT
  <2> QED BY <2>8 DEF metrics
<1> HIDE DEF value
<1>2. score \in [indexes -> Int]
  BY <1>1
<1>3. IsFiniteSet(indexes) /\ indexes \in SUBSET Int
  <2>1. DOMAIN Experts = 1 .. Len(Experts) /\ Len(Experts) \in Nat
    BY RequestAssumption
  <2>2. IsFiniteSet(1 .. Len(Experts))
    BY <2>1, FS_Interval
  <2> QED BY <2>1, <2>2, FS_Subset
<1> HIDE DEF score
<1>4. \E i \in indexes : Leads(i, indexes, score)
  BY <1>2, <1>3, SomeoneLeads
<1>5. Best(indexes, rows, w, system) = CHOOSE i \in indexes : Leads(i, indexes, score)
  BY DEF Best, Leads, score, value
<1> QED BY <1>4, <1>5

-----------------------------------------------------------------------------
(* What leaves the parts of the invariant alone.                           *)

LEMMA NamesStay ==
  ASSUME NamesInv, UNCHANGED <<copied, out>>, DOMAIN disk \subseteq DOMAIN disk'
  PROVE  NamesInv'
BY DEF NamesInv, StoredAs, Packaged, Exists

LEMMA NoNames ==
  ASSUME copied' = <<>>
  PROVE  NamesInv' /\ copied' \in Seq([base : InputBases, nth : Nat])
<1>1. DOMAIN copied' = {}
  OBVIOUS
<1> QED BY <1>1 DEF NamesInv

\* The three files of admission the properties speak of.
Settled == {AdmissionFile(b) : b \in {"selected_plan", "fallback_plan", "admission_report_md"}}

SettledUntouched ==
  \A p \in Settled :
    /\ p \in DOMAIN disk' <=> p \in DOMAIN disk
    /\ p \in DOMAIN disk => disk'[p] = disk[p]

LEMMA SettledStay ==
  ASSUME AdmissionInv, pc # "admit", pc' # "admit", interrupted' = interrupted,
         SettledUntouched
  PROVE  AdmissionInv'
<1>1. /\ AdmissionFile("selected_plan") \in Settled
      /\ AdmissionFile("fallback_plan") \in Settled
      /\ AdmissionFile("admission_report_md") \in Settled
  BY DEF Settled
<1>2. \A body :
        /\ Holds("selected_plan", body) => Holds("selected_plan", body)'
        /\ Holds("fallback_plan", body) => Holds("fallback_plan", body)'
        /\ Holds("admission_report_md", body) => Holds("admission_report_md", body)'
  BY <1>1 DEF SettledUntouched, Holds, Exists
<1> SUFFICES ASSUME ~interrupted, Exists(AdmissionFile("selected_plan"))'
             PROVE  LET s == disk[AdmissionFile("admission_report_md")].body
                    IN  (/\ IsSummary(s)
                         /\ Holds("admission_report_md", s)
                         /\ Holds("selected_plan", PlanOf(s))
                         /\ Holds("fallback_plan", FallbackOf(s)))'
  BY DEF AdmissionInv
<1> DEFINE s == disk[AdmissionFile("admission_report_md")].body
<1>3. Exists(AdmissionFile("selected_plan"))
  BY <1>1 DEF SettledUntouched, Exists
<1>4. /\ IsSummary(s)
      /\ Holds("admission_report_md", s)
      /\ Holds("selected_plan", PlanOf(s))
      /\ Holds("fallback_plan", FallbackOf(s))
  BY <1>3 DEF AdmissionInv
<1>5. disk'[AdmissionFile("admission_report_md")].body = s
  BY <1>1, <1>4 DEF SettledUntouched, Holds, Exists
<1> HIDE DEF s
<1> QED BY <1>2, <1>4, <1>5 DEF Holds, Exists

\* A file that is not one of the three is written, or a file is written over
\* by itself.
LEMMA WriteElsewhere ==
  ASSUME NEW q, NEW content, disk' = Written(q, content),
         q \notin Settled \/ (q \in DOMAIN disk /\ content = disk[q])
  PROVE  SettledUntouched
<1>1. /\ DOMAIN disk' = DOMAIN disk \union {q} /\ disk'[q] = content
      /\ \A p \in DOMAIN disk : p # q => disk'[p] = disk[p]
  BY WrittenChangesOneFile
<1>2. \A p \in Settled : p # q \/ (p \in DOMAIN disk /\ disk'[p] = disk[p])
  BY <1>1
<1> QED BY <1>1, <1>2 DEF SettledUntouched

-----------------------------------------------------------------------------
(* The actions.                                                            *)

LEMMA InitHolds ==
  ASSUME Init
  PROVE  IInv
<1>1. pc = "idle" /\ copied = <<>> /\ interrupted = FALSE
  BY DEF Init
<1>2. NamesInv /\ copied \in Seq([base : InputBases, nth : Nat])
  <2>1. DOMAIN copied = {} /\ copied \in Seq([base : InputBases, nth : Nat])
    BY <1>1
  <2> QED BY <2>1 DEF NamesInv
<1>3. StateType
  BY <1>1, <1>2 DEF StateType
<1>4. PlanInv /\ CopiesInv /\ InputsInv /\ SignedInv
  BY <1>1 DEF PlanInv, CopiesInv, InputsInv, SignedInv, Finalizing
<1>5. ~Exists(AdmissionFile("selected_plan"))
  <2>1. DOMAIN disk = {Manifest(d) : d \in SourceDirs}
    BY DEF Init
  <2>2. \A d \in SourceDirs : Manifest(d) # AdmissionFile("selected_plan")
    BY DEF Manifest, AdmissionFile, Path
  <2> QED BY <2>1, <2>2 DEF Exists
<1>6. AdmissionInv
  BY <1>1, <1>5 DEF AdmissionInv
<1> QED BY <1>2, <1>3, <1>4, <1>6 DEF IInv

\* A sweep or a crash leaves no tool running.
LEMMA IdleStep ==
  ASSUME pc' = "idle", copied' \in Seq([base : InputBases, nth : Nat]),
         NamesInv', AdmissionInv'
  PROVE  IInv'
BY DEF IInv, StateType, PlanInv, CopiesInv, InputsInv, SignedInv, Finalizing

LEMMA SweepAgainStep ==
  ASSUME IInv, NEW d \in SourceDirs, NEW rows, SweepAgain(d, rows)
  PROVE  IInv'
<1>1. /\ disk' = Written(Manifest(d), Whole(rows)) /\ pc' = "idle"
      /\ UNCHANGED <<copied, out, interrupted>>
      /\ pc # "admit"
  BY DEF SweepAgain, Between
<1>2. Manifest(d) \notin Settled
  BY DEF Settled, Manifest, AdmissionFile, Path
<1>3. SettledUntouched
  BY <1>1, <1>2, WriteElsewhere
<1>4. AdmissionInv'
  BY <1>1, <1>3, SettledStay DEF IInv
<1>5. NamesInv'
  BY <1>1, NamesStay, WrittenChangesOneFile DEF IInv
<1>6. copied' \in Seq([base : InputBases, nth : Nat])
  BY <1>1 DEF IInv, StateType
<1> QED BY <1>1, <1>4, <1>5, <1>6, IdleStep

LEMMA StartAdmissionStep ==
  ASSUME IInv, StartAdmission
  PROVE  IInv'
<1>1. /\ summary' = Summary(LoadedRows) /\ interrupted' = TRUE
      /\ pc' = "admit" /\ step' = 1
      /\ UNCHANGED <<disk, out, plan, copied, inputs>>
  BY DEF StartAdmission
<1>2. StateType'
  BY <1>1 DEF IInv, StateType
<1>3. NamesInv'
  BY <1>1, NamesStay DEF IInv
<1>4. PlanInv' /\ CopiesInv' /\ InputsInv' /\ SignedInv'
  BY <1>1 DEF PlanInv, CopiesInv, InputsInv, SignedInv, Finalizing
<1>5. IsSummary(summary')
  BY <1>1 DEF IsSummary, Summary
<1>6. AdmissionInv'
  BY <1>1, <1>5 DEF AdmissionInv, IsSummary
<1> QED BY <1>2, <1>3, <1>4, <1>6 DEF IInv

LEMMA WriteAdmissionStep ==
  ASSUME IInv, WriteAdmission
  PROVE  IInv'
<1> DEFINE base == AdmissionFiles[step]
           q == AdmissionFile(base)
           content == Whole(AdmissionBody(base))
<1>1. /\ pc = "admit" /\ step \in {1, 2, 3, 4, 5, 6} /\ interrupted = TRUE /\ IsSummary(summary)
      /\ step > 2 => Holds("admission_report_md", summary)
      /\ step > 4 => Holds("selected_plan", PlanOf(summary))
      /\ step > 5 => Holds("fallback_plan", FallbackOf(summary))
  BY DEF WriteAdmission, IInv, StateType, AdmissionInv
<1>2. disk' = Written(q, content) /\ UNCHANGED <<copied, out>>
  BY DEF WriteAdmission
<1>3. step < 6 => pc' = pc /\ step' = step + 1 /\ summary' = summary
  BY DEF WriteAdmission, AdmissionFiles
<1>4. step < 6 => interrupted' = TRUE
  BY <1>1 DEF WriteAdmission, AdmissionFiles
<1>5. step = 6 => pc' = "idle"
  BY DEF WriteAdmission, AdmissionFiles
<1> HIDE DEF content
<1>6. /\ DOMAIN disk' = DOMAIN disk \union {q} /\ disk'[q] = content
      /\ \A p \in DOMAIN disk : p # q => disk'[p] = disk[p]
  <2> HIDE DEF base, q
  <2> QED BY <1>2 DEF Written
<1>11. NamesInv'
  BY <1>2, <1>6, NamesStay DEF IInv
<1>12. (pc' = "admit" /\ step' \in 1 .. 6) \/ pc' = "idle"
  BY <1>1, <1>3, <1>5
<1>13. StateType'
  BY <1>2, <1>12 DEF IInv, StateType
<1>14. PlanInv' /\ CopiesInv' /\ InputsInv' /\ SignedInv'
  BY <1>12 DEF PlanInv, CopiesInv, InputsInv, SignedInv, Finalizing
<1>7. \A b, body :
        Holds(b, body) /\ b # base =>
          AdmissionFile(b) \in DOMAIN disk' /\ disk'[AdmissionFile(b)].body = body
  <2>1. \A b : b # base => AdmissionFile(b) # q
    BY DEF AdmissionFile, Path
  <2> QED BY <1>6, <2>1 DEF Holds, Exists
<1>8. q \in DOMAIN disk' /\ disk'[q].body = AdmissionBody(base)
  BY <1>6 DEF Whole, content
<1>9. CASE step \in {1, 2, 3, 4, 5}
  <2>1. pc' = "admit" /\ step' = step + 1 /\ summary' = summary /\ interrupted' = TRUE
    BY <1>1, <1>3, <1>4, <1>9
  <2>2. step' > 2 => Holds("admission_report_md", summary)'
    <3>1. CASE step = 2
      <4>1. base = "admission_report_md" /\ AdmissionBody(base) = summary
        BY <3>1 DEF AdmissionFiles, AdmissionBody, Report
      <4> QED BY <1>8, <2>1, <4>1 DEF Holds, Exists
    <3>2. CASE step > 2
      <4>1. base # "admission_report_md"
        BY <1>9, <3>2 DEF AdmissionFiles
      <4> QED BY <1>1, <1>7, <2>1, <3>2, <4>1 DEF Holds, Exists
    <3> QED BY <1>1, <2>1, <3>1, <3>2
  <2>3. step' > 4 => Holds("selected_plan", PlanOf(summary))'
    <3>1. CASE step = 4
      <4>1. base = "selected_plan" /\ AdmissionBody(base) = PlanOf(summary)
        BY <3>1 DEF AdmissionFiles, AdmissionBody, SelectedPlan, PlanOf
      <4> QED BY <1>8, <2>1, <4>1 DEF Holds, Exists, PlanOf
    <3>2. CASE step > 4
      <4>1. base # "selected_plan"
        BY <1>9, <3>2 DEF AdmissionFiles
      <4> QED BY <1>1, <1>7, <2>1, <3>2, <4>1 DEF Holds, Exists, PlanOf
    <3> QED BY <1>1, <2>1, <3>1, <3>2
  <2>4. step' > 5 => Holds("fallback_plan", FallbackOf(summary))'
    <3>1. step' > 5 => step = 5
      BY <1>9, <2>1
    <3>2. step = 5 => base = "fallback_plan" /\ AdmissionBody(base) = FallbackOf(summary)
      BY DEF AdmissionFiles, AdmissionBody, FallbackPlan, FallbackOf
    <3> QED BY <1>8, <2>1, <3>1, <3>2 DEF Holds, Exists, FallbackOf
  <2>5. IsSummary(summary')
    BY <1>1, <2>1
  <2>6. AdmissionInv'
    BY <2>1, <2>2, <2>3, <2>4, <2>5 DEF AdmissionInv, IsSummary
  <2> QED BY <1>11, <1>13, <1>14, <2>6 DEF IInv
<1>10. CASE step = 6
  <2>1. base = "selected_server_command"
    BY <1>10 DEF AdmissionFiles
  <2>2. /\ AdmissionFile("admission_report_md") \in DOMAIN disk'
        /\ disk'[AdmissionFile("admission_report_md")].body = summary
    BY <1>1, <1>7, <1>10, <2>1
  <2>3. /\ AdmissionFile("selected_plan") \in DOMAIN disk'
        /\ disk'[AdmissionFile("selected_plan")].body = PlanOf(summary)
    BY <1>1, <1>7, <1>10, <2>1
  <2>4. /\ AdmissionFile("fallback_plan") \in DOMAIN disk'
        /\ disk'[AdmissionFile("fallback_plan")].body = FallbackOf(summary)
    BY <1>1, <1>7, <1>10, <2>1
  <2>5. pc' = "idle"
    BY <1>5, <1>10
  <2>6. (LET s == disk[AdmissionFile("admission_report_md")].body
         IN  /\ IsSummary(s)
             /\ Holds("admission_report_md", s)
             /\ Holds("selected_plan", PlanOf(s))
             /\ Holds("fallback_plan", FallbackOf(s)))'
    BY <1>1, <2>2, <2>3, <2>4 DEF Holds, Exists
  <2>7. AdmissionInv'
    BY <2>5, <2>6 DEF AdmissionInv
  <2> QED BY <1>11, <1>13, <1>14, <2>7 DEF IInv
<1> QED BY <1>1, <1>9, <1>10

LEMMA StartFinalizationStep ==
  ASSUME IInv, StartFinalization
  PROVE  IInv'
<1>1. /\ Exists(InputPaths[1])
      /\ ~disk[InputPaths[1]].torn /\ disk[InputPaths[1]].body.gate = "PASS"
      /\ plan' = disk[InputPaths[1]].body /\ copied' = <<>>
      /\ inputs' = [i \in {j \in DOMAIN InputPaths : Exists(InputPaths[j])}
                      |-> disk[InputPaths[i]]]
      /\ pc' = "copy" /\ step' = 1
      /\ UNCHANGED <<disk, out, interrupted>>
      /\ pc # "admit"
  BY DEF StartFinalization, MayFinalize, Between
<1>2. NamesInv' /\ copied' \in Seq([base : InputBases, nth : Nat])
  BY <1>1, NoNames
<1>3. DOMAIN copied' = {} /\ Len(copied') = 0
  BY <1>1
<1>4. StateType'
  BY <1>1, <1>2, <1>3, InputPathsAre DEF StateType
<1>5. PlanInv'
  BY <1>1 DEF PlanInv, Exists
<1>6. CopiesInv' /\ SignedInv'
  BY <1>1, <1>3 DEF CopiesInv, SignedInv
<1>7. InputsInv'
  BY <1>1, <1>3 DEF InputsInv, Exists
<1>8. AdmissionInv'
  <2>1. SettledUntouched
    BY <1>1 DEF SettledUntouched
  <2> QED BY <1>1, <2>1, SettledStay DEF IInv
<1> QED BY <1>2, <1>4, <1>5, <1>6, <1>7, <1>8 DEF IInv

LEMMA MissingInputStep ==
  ASSUME IInv, MissingInput
  PROVE  IInv'
<1>1. /\ pc = "copy" /\ pc' = "idle" /\ copied' = <<>>
      /\ UNCHANGED <<disk, out, interrupted>>
  BY DEF MissingInput
<1>2. NamesInv' /\ copied' \in Seq([base : InputBases, nth : Nat])
  BY <1>1, NoNames
<1>3. SettledUntouched
  BY <1>1 DEF SettledUntouched
<1>4. AdmissionInv'
  BY <1>1, <1>3, SettledStay DEF IInv
<1> QED BY <1>1, <1>2, <1>4, IdleStep

\* A copy is a file of its own in the package: it is none of the earlier ones
\* and, if it is one of admission's files, it is the input itself.
LEMMA TheCopy ==
  ASSUME IInv, pc = "copy", Exists(InputPaths[step])
  PROVE  LET name == UniqueName(InputPaths[step])
             q == Packaged(name)
         IN  /\ step \in DOMAIN InputPaths
             /\ name \in [base : InputBases, nth : Nat]
             /\ name.base = InputPaths[step].base
             /\ name \notin Used
             /\ step <= 4 => name = Name(InputPaths[step].base)
             /\ \A i \in DOMAIN copied : StoredAs(i) # q
             /\ \A i \in DOMAIN InputPaths : i <= 4 /\ q = InputPaths[i] => i = step
<1> DEFINE p == InputPaths[step]
           name == UniqueName(p)
           q == Packaged(name)
<1>1. /\ step \in 1 .. Len(InputPaths) /\ Len(copied) = step - 1
      /\ copied \in Seq([base : InputBases, nth : Nat])
  BY DEF IInv, StateType
<1>2. step \in DOMAIN InputPaths /\ p.base \in InputBases
  BY <1>1, InputPathsAre, InputsApart
<1>3. /\ name \in [base : InputBases, nth : Nat]
      /\ name.base = p.base
      /\ name \notin Used
      /\ (\A i \in DOMAIN copied : copied[i].base # p.base) => name = Name(p.base)
  BY <1>1, <1>2, UniqueNameIsFree
<1> HIDE DEF name, p
<1>4. DOMAIN copied = 1 .. step - 1
  BY <1>1
<1>5. \A i \in DOMAIN copied : copied[i] \in [base : InputBases, nth : Nat]
  <2> DEFINE Names == [base : InputBases, nth : Nat]
  <2>1. copied \in Seq(Names)
    BY <1>1
  <2> HIDE DEF Names
  <2>2. \A i \in DOMAIN copied : copied[i] \in Names
    BY <2>1
  <2> QED BY <2>2 DEF Names
<1>6. step <= 4 => name = Name(p.base)
  <2> SUFFICES ASSUME step <= 4, NEW i \in DOMAIN copied
               PROVE  copied[i].base # p.base
    BY <1>3
  <2>1. i \in DOMAIN InputPaths /\ copied[i].base = InputPaths[i].base
    BY DEF IInv, NamesInv
  <2>2. i # step
    BY <1>1, <1>4
  <2> QED BY <1>2, <2>1, <2>2, InputsApart DEF p
<1>7. \A i \in DOMAIN copied : StoredAs(i) # q
  <2> SUFFICES ASSUME NEW i \in DOMAIN copied PROVE Packaged(copied[i]) # q
    BY DEF StoredAs
  <2>1. copied[i] # name
    BY <1>3 DEF Used
  <2> QED BY <1>3, <1>5, <2>1, PackagedApart
<1>8. \A i \in DOMAIN InputPaths : i <= 4 /\ q = InputPaths[i] => i = step
  <2> SUFFICES ASSUME NEW i \in DOMAIN InputPaths, i <= 4, q = InputPaths[i]
               PROVE  i = step
    OBVIOUS
  <2>1. q.base = name.base
    BY DEF Packaged, Path
  <2>2. InputPaths[i].base = p.base
    BY <1>3, <2>1
  <2> QED BY <1>2, <2>2, InputsApart DEF p
<1> QED BY <1>2, <1>3, <1>6, <1>7, <1>8 DEF p, name

\* Admission's three files are inputs.
LEMMA SettledAreInputs ==
  Settled = {InputPaths[1], InputPaths[2], InputPaths[3]}
BY InputPathsAre DEF Settled

LEMMA CopyInputStep ==
  ASSUME IInv, CopyInput
  PROVE  IInv'
<1> DEFINE p == InputPaths[step]
           name == UniqueName(p)
           q == Packaged(name)
<1>1. /\ pc = "copy" /\ Exists(p)
      /\ disk' = Written(q, disk[p])
      /\ copied' = Append(copied, name)
      /\ UNCHANGED <<out, plan, inputs, interrupted>>
      /\ IF step < Len(InputPaths) THEN pc' = "copy" /\ step' = step + 1
                                   ELSE pc' = "sign" /\ step' = 1
  BY DEF CopyInput
<1>2. /\ step \in DOMAIN InputPaths
      /\ name \in [base : InputBases, nth : Nat]
      /\ name.base = p.base
      /\ name \notin Used
      /\ step <= 4 => name = Name(p.base)
      /\ \A i \in DOMAIN copied : StoredAs(i) # q
      /\ \A i \in DOMAIN InputPaths : i <= 4 /\ q = InputPaths[i] => i = step
  BY <1>1, TheCopy
<1> HIDE DEF name, q
<1>3. /\ DOMAIN disk' = DOMAIN disk \union {q} /\ disk'[q] = disk[p]
      /\ \A r \in DOMAIN disk : r # q => disk'[r] = disk[r]
  BY <1>1 DEF Written
<1>4. /\ step \in 1 .. Len(InputPaths) /\ Len(copied) = step - 1
      /\ copied \in Seq([base : InputBases, nth : Nat])
      /\ DOMAIN copied = 1 .. step - 1
  BY <1>1 DEF IInv, StateType
<1>5. /\ copied' \in Seq([base : InputBases, nth : Nat])
      /\ Len(copied') = step /\ DOMAIN copied' = 1 .. step
      /\ copied'[step] = name
      /\ \A i \in DOMAIN copied : copied'[i] = copied[i]
  <2>1. /\ Append(copied, name) \in Seq([base : InputBases, nth : Nat])
        /\ Len(Append(copied, name)) = Len(copied) + 1
        /\ \A i \in 1 .. Len(copied) : Append(copied, name)[i] = copied[i]
        /\ Append(copied, name)[Len(copied) + 1] = name
    BY <1>2, <1>4, AppendProperties
  <2> QED BY <1>1, <1>4, <2>1
<1>6. \A i \in DOMAIN copied' : i \in DOMAIN copied \/ i = step
  BY <1>4, <1>5
<1>7. DOMAIN copied \subseteq DOMAIN copied' /\ step \notin DOMAIN copied
  BY <1>4, <1>5
<1>8. /\ \A i \in DOMAIN copied : StoredAs(i)' = StoredAs(i)
      /\ \A i \in DOMAIN copied' : i = step => StoredAs(i)' = q
  BY <1>1, <1>5 DEF StoredAs, Packaged, q
<1>9. \A i \in DOMAIN copied : Exists(StoredAs(i)) /\ disk'[StoredAs(i)] = disk[StoredAs(i)]
  BY <1>2, <1>3 DEF IInv, NamesInv, Exists
\* Admission's files stay as they are.
<1>10. \A i \in DOMAIN InputPaths :
         i <= 4 => /\ InputPaths[i] \in DOMAIN disk' <=> InputPaths[i] \in DOMAIN disk
                   /\ InputPaths[i] \in DOMAIN disk => disk'[InputPaths[i]] = disk[InputPaths[i]]
  BY <1>1, <1>2, <1>3 DEF Exists
<1>11. StateType'
  BY <1>1, <1>4, <1>5, InputPathsAre DEF StateType
<1>12. NamesInv'
  <2>1. ASSUME NEW i \in DOMAIN copied'
        PROVE  /\ i \in DOMAIN InputPaths
               /\ copied'[i].base = InputPaths[i].base
               /\ i <= 4 => copied'[i] = Name(InputPaths[i].base)
               /\ StoredAs(i)' \in DOMAIN disk'
    <3>1. CASE i = step
      BY <1>2, <1>3, <1>5, <1>8, <3>1
    <3>2. CASE i \in DOMAIN copied
      BY <1>3, <1>5, <1>8, <1>9, <3>2 DEF IInv, NamesInv, Exists
    <3> QED BY <1>6, <2>1, <3>1, <3>2
  <2>2. \A i \in DOMAIN copied : copied[i] # name
    BY <1>2 DEF Used
  <2>3. ASSUME NEW i \in DOMAIN copied', NEW j \in DOMAIN copied', copied'[i] = copied'[j]
        PROVE  i = j
    BY <1>5, <1>6, <2>2, <2>3 DEF IInv, NamesInv
  <2> QED BY <2>1, <2>3 DEF NamesInv, Exists
<1>13. {1, 2, 3, 4} \subseteq DOMAIN InputPaths
  BY InputsApart
<1>14. PlanInv'
  <2>1. /\ Exists(InputPaths[1]) /\ ~disk[InputPaths[1]].torn
        /\ disk[InputPaths[1]].body = plan /\ plan.gate = "PASS"
    BY <1>1 DEF IInv, PlanInv, Finalizing
  <2>2. InputPaths[1] \in DOMAIN disk' /\ disk'[InputPaths[1]] = disk[InputPaths[1]]
    BY <1>10, <1>13, <2>1 DEF Exists
  <2> QED BY <1>1, <2>1, <2>2 DEF PlanInv, Exists
<1>15. CopiesInv'
  <2> SUFFICES ASSUME NEW i \in DOMAIN copied', i <= 4
               PROVE  /\ InputPaths[i] \in DOMAIN disk'
                      /\ disk'[StoredAs(i)'] = disk'[InputPaths[i]]
    BY DEF CopiesInv, Exists
  <2>1. CASE i = step
    BY <1>1, <1>2, <1>3, <1>8, <1>10, <2>1 DEF Exists
  <2>2. CASE i \in DOMAIN copied
    <3>1. /\ i \in DOMAIN InputPaths /\ InputPaths[i] \in DOMAIN disk
          /\ disk[StoredAs(i)] = disk[InputPaths[i]]
      BY <1>1, <2>2 DEF IInv, CopiesInv, NamesInv, Finalizing, Exists
    <3> QED BY <1>8, <1>9, <1>10, <2>2, <3>1
  <2> QED BY <1>6, <2>1, <2>2
<1>16. InputsInv'
  <2>1. \A j \in DOMAIN InputPaths : Spared(j)' => Spared(j)
    BY <1>7, <1>8 DEF Spared
  <2>2. ASSUME NEW i \in DOMAIN copied', Spared(i)'
        PROVE  disk'[StoredAs(i)'] = inputs[i]
    <3>1. i \in DOMAIN InputPaths /\ Spared(i)
      BY <1>12, <2>1, <2>2 DEF NamesInv
    <3>2. CASE i = step
      BY <1>1, <1>3, <1>4, <1>8, <3>1, <3>2 DEF IInv, InputsInv, Finalizing
    <3>3. CASE i \in DOMAIN copied
      BY <1>1, <1>8, <1>9, <3>1, <3>3 DEF IInv, InputsInv, Finalizing
    <3> QED BY <1>6, <3>2, <3>3
  <2>3. ASSUME pc' = "copy", NEW j \in DOMAIN InputPaths, j >= step', Spared(j)',
               InputPaths[j] \in DOMAIN disk'
        PROVE  inputs[j] = disk'[InputPaths[j]]
    <3>1. step' = step + 1
      BY <1>1, <2>3
    <3>2. j > step /\ j >= step
      BY <1>4, <2>3, <3>1, InputPathsAre
    <3>3. InputPaths[j] # q
      BY <1>4, <1>5, <1>8, <2>3, <3>2 DEF Spared
    <3>4. InputPaths[j] \in DOMAIN disk /\ disk'[InputPaths[j]] = disk[InputPaths[j]]
      BY <1>3, <2>3, <3>3
    <3> QED BY <1>1, <2>1, <2>3, <3>2, <3>4 DEF IInv, InputsInv, Finalizing, Exists
  <2> QED BY <1>1, <2>2, <2>3 DEF InputsInv, Exists
<1>17. SignedInv'
  BY <1>1 DEF SignedInv
<1>18. AdmissionInv'
  <2>1. SettledUntouched
    BY <1>10, <1>13, SettledAreInputs DEF SettledUntouched
  <2>2. pc # "admit" /\ pc' # "admit" /\ interrupted' = interrupted
    BY <1>1
  <2> QED BY <2>1, <2>2, SettledStay DEF IInv
<1> QED BY <1>11, <1>12, <1>14, <1>15, <1>16, <1>17, <1>18 DEF IInv

\* What is signed is neither a copy nor an input.
LEMMA SignedApart ==
  ASSUME NEW b \in {"README", "CLAIM_CHECKLIST", "raw_files", "tilepo_v0_1_release_manifest"}
  PROVE  /\ \A i \in DOMAIN InputPaths : Packaged(Name(b)) # InputPaths[i]
         /\ \A n : n.base \in InputBases => Packaged(Name(b)) # Packaged(n)
         /\ \A c : c # b => Packaged(Name(b)) # Packaged(Name(c))
<1>1. b \notin InputBases
  BY DEF InputBases
<1>2. \A n : Packaged(n).base = n.base
  BY DEF Packaged, Path
<1>3. \A c : Name(c).base = c
  BY DEF Name
<1>4. \A i \in DOMAIN InputPaths : InputPaths[i].base \in InputBases
  BY InputsApart
<1> QED BY <1>1, <1>2, <1>3, <1>4

LEMMA SignStep ==
  ASSUME IInv, Sign
  PROVE  IInv'
<1> DEFINE base == SignFiles[step]
           q == Packaged(Name(base))
           content == Whole(SignBody(base))
<1>1. /\ pc = "sign" /\ step \in {1, 2, 3, 4}
      /\ copied \in Seq([base : InputBases, nth : Nat])
      /\ Len(copied) = Len(InputPaths)
  BY DEF Sign, IInv, StateType
<1>2. /\ disk' = Written(q, content)
      /\ UNCHANGED <<out, plan, copied, inputs, interrupted>>
  BY DEF Sign
<1>3. \/ step \in {1, 2, 3} /\ pc' = "sign" /\ step' = step + 1
      \/ step = 4 /\ pc' = "released"
  BY <1>1 DEF Sign, SignFiles
<1>4. base \in {"README", "CLAIM_CHECKLIST", "raw_files", "tilepo_v0_1_release_manifest"}
  BY <1>1 DEF SignFiles
<1>5. /\ \A i \in DOMAIN InputPaths : q # InputPaths[i]
      /\ \A n : n.base \in InputBases => q # Packaged(n)
      /\ \A c : c # base => q # Packaged(Name(c))
  <2> HIDE DEF base
  <2>1. /\ \A i \in DOMAIN InputPaths : Packaged(Name(base)) # InputPaths[i]
        /\ \A n : n.base \in InputBases => Packaged(Name(base)) # Packaged(n)
        /\ \A c : c # base => Packaged(Name(base)) # Packaged(Name(c))
    BY <1>4, SignedApart
  <2> QED BY <2>1
<1> HIDE DEF q, content
<1>6. /\ DOMAIN disk' = DOMAIN disk \union {q} /\ disk'[q] = content
      /\ \A r \in DOMAIN disk : r # q => disk'[r] = disk[r]
  BY <1>2 DEF Written
<1>7. \A i \in DOMAIN copied :
        /\ StoredAs(i)' = StoredAs(i) /\ StoredAs(i) \in DOMAIN disk
        /\ disk'[StoredAs(i)] = disk[StoredAs(i)]
  <2> SUFFICES ASSUME NEW i \in DOMAIN copied
               PROVE  /\ StoredAs(i)' = StoredAs(i) /\ StoredAs(i) \in DOMAIN disk
                      /\ disk'[StoredAs(i)] = disk[StoredAs(i)]
    OBVIOUS
  <2>1. /\ i \in DOMAIN InputPaths /\ copied[i].base = InputPaths[i].base
        /\ StoredAs(i) \in DOMAIN disk
    BY DEF IInv, NamesInv, Exists
  <2>2. copied[i].base \in InputBases
    BY <2>1, InputsApart
  <2>3. StoredAs(i) # q
    BY <1>5, <2>2 DEF StoredAs
  <2>4. StoredAs(i)' = StoredAs(i)
    BY <1>2 DEF StoredAs, Packaged
  <2> QED BY <1>6, <2>1, <2>3, <2>4
<1>8. \A i \in DOMAIN InputPaths :
        /\ InputPaths[i] \in DOMAIN disk' <=> InputPaths[i] \in DOMAIN disk
        /\ InputPaths[i] \in DOMAIN disk => disk'[InputPaths[i]] = disk[InputPaths[i]]
  BY <1>5, <1>6
<1>9. StateType'
  BY <1>1, <1>2, <1>3 DEF StateType
<1>10. NamesInv'
  BY <1>2, <1>6, NamesStay DEF IInv
<1>11. PlanInv'
  <2>1. 1 \in DOMAIN InputPaths
    BY InputsApart
  <2> QED BY <1>1, <1>2, <1>8, <2>1 DEF IInv, PlanInv, Finalizing, Exists
<1>12. CopiesInv'
  <2>1. \A i \in DOMAIN copied : i \in DOMAIN InputPaths
    BY DEF IInv, NamesInv
  <2> QED BY <1>1, <1>2, <1>7, <1>8, <2>1 DEF IInv, CopiesInv, Finalizing, Exists
<1>13. InputsInv'
  <2>1. \A i \in DOMAIN InputPaths : Spared(i)' => Spared(i)
    BY <1>2, <1>7 DEF Spared
  <2>2. \A i \in DOMAIN copied : i \in DOMAIN InputPaths
    BY DEF IInv, NamesInv
  <2>3. pc' # "copy"
    BY <1>3
  <2> QED BY <1>1, <1>2, <1>7, <2>1, <2>2, <2>3 DEF IInv, InputsInv, Finalizing
<1>14. AdmissionInv'
  <2>1. {1, 2, 3} \subseteq DOMAIN InputPaths
    BY InputsApart
  <2>2. SettledUntouched
    BY <1>8, <2>1, SettledAreInputs DEF SettledUntouched
  <2>3. pc # "admit" /\ pc' # "admit" /\ interrupted' = interrupted
    BY <1>1, <1>2, <1>3
  <2> QED BY <2>2, <2>3, SettledStay DEF IInv
\* The checksums are of files that no later step writes.
<1> DEFINE listed == Used \union {Name("README"), Name("CLAIM_CHECKLIST")}
<1>15. \A n : Packaged(n)' = Packaged(n)
  BY <1>2 DEF Packaged
<1>16. listed' = listed
  BY <1>2 DEF Used
<1>17. base \notin {"README", "CLAIM_CHECKLIST"} => \A n \in listed : q # Packaged(n)
  <2>1. \A n \in Used : \E i \in DOMAIN copied : n = copied[i]
    BY DEF Used
  <2>2. \A i \in DOMAIN copied : copied[i].base \in InputBases
    BY InputsApart DEF IInv, NamesInv
  <2>3. \A n \in Used : n.base \in InputBases
    BY <2>1, <2>2
  <2> HIDE DEF base
  <2> QED BY <1>5, <2>3
<1>18. ASSUME \A n \in listed : Packaged(n) \in DOMAIN disk,
              \A n \in listed : q # Packaged(n)
       PROVE  Checksums' = Checksums
  <2>1. \A n \in listed : disk'[Packaged(n)'] = disk[Packaged(n)]
    BY <1>6, <1>15, <1>18
  <2> HIDE DEF listed
  <2>2. [n \in listed' |-> disk'[Packaged(n)']] = [n \in listed |-> disk[Packaged(n)]]
    BY <1>16, <2>1
  <2> QED BY <2>2 DEF Checksums, listed
<1>19. \A n \in Used : Packaged(n) \in DOMAIN disk
  BY DEF Used, IInv, NamesInv, StoredAs, Exists
<1>20. CASE step \in {1, 2}
  <2>1. step = 1 => base = "README"
    BY DEF SignFiles
  <2>2. step = 2 => base = "CLAIM_CHECKLIST"
    BY DEF SignFiles
  <2>3. pc' = "sign" /\ step' = step + 1
    BY <1>3, <1>20
  <2>4. step' > 1 => Packaged(Name("README"))' \in DOMAIN disk'
    BY <1>1, <1>6, <1>15, <1>20, <2>1, <2>3 DEF IInv, SignedInv, Exists, q
  <2>5. step' > 2 => Packaged(Name("CLAIM_CHECKLIST"))' \in DOMAIN disk'
    <3>1. step' > 2 => step = 2
      BY <1>20, <2>3
    <3> QED BY <1>6, <1>15, <2>2, <3>1 DEF q
  <2>6. SignedInv'
    BY <1>20, <2>3, <2>4, <2>5 DEF SignedInv, Exists
  <2> QED BY <1>9, <1>10, <1>11, <1>12, <1>13, <1>14, <2>6 DEF IInv
<1>21. CASE step = 3
  <2>1. base = "raw_files"
    BY <1>21 DEF SignFiles
  <2>2. /\ Packaged(Name("README")) \in DOMAIN disk
        /\ Packaged(Name("CLAIM_CHECKLIST")) \in DOMAIN disk
    BY <1>1, <1>21 DEF IInv, SignedInv, Exists
  <2>3. Checksums' = Checksums
    BY <1>17, <1>18, <1>19, <2>1, <2>2
  <2>4. q = Packaged(Name("raw_files")) /\ content = Whole(Checksums)
    BY <2>1 DEF q, content, SignBody
  <2>5. disk'[Packaged(Name("raw_files"))'].body = Checksums
    BY <1>6, <1>15, <2>4 DEF Whole
  <2>6. pc' = "sign" /\ step' = 4
    BY <1>3, <1>21
  <2>7. SignedInv'
    BY <1>6, <1>15, <2>2, <2>3, <2>4, <2>5, <2>6 DEF SignedInv, InPackage, Exists
  <2> QED BY <1>9, <1>10, <1>11, <1>12, <1>13, <1>14, <2>7 DEF IInv
<1>22. CASE step = 4
  <2>1. base = "tilepo_v0_1_release_manifest"
    BY <1>22 DEF SignFiles
  <2>2. /\ Packaged(Name("raw_files")) \in DOMAIN disk
        /\ Packaged(Name("README")) \in DOMAIN disk
        /\ Packaged(Name("CLAIM_CHECKLIST")) \in DOMAIN disk
        /\ disk[Packaged(Name("raw_files"))].body = Checksums
    BY <1>1, <1>22 DEF IInv, SignedInv, InPackage, Exists
  <2>3. Checksums' = Checksums
    BY <1>17, <1>18, <1>19, <2>1, <2>2
  <2>4. q # Packaged(Name("raw_files"))
    BY <1>5, <2>1
  <2>5. disk'[Packaged(Name("raw_files"))'].body = Checksums
    BY <1>6, <1>15, <2>2, <2>4
  <2>6. pc' = "released"
    BY <1>3, <1>22
  <2>7. SignedInv'
    BY <1>6, <1>15, <2>2, <2>3, <2>5, <2>6 DEF SignedInv, InPackage, Exists
  <2> QED BY <1>9, <1>10, <1>11, <1>12, <1>13, <1>14, <2>7 DEF IInv
<1> QED BY <1>1, <1>20, <1>21, <1>22

LEMMA CrashStep ==
  ASSUME IInv, Crash
  PROVE  IInv'
<1>1. /\ pc' = "idle" /\ copied' = <<>> /\ interrupted' = interrupted
      /\ pc \in {"admit", "copy", "sign"}
  BY DEF Crash, Between
<1>2. NamesInv' /\ copied' \in Seq([base : InputBases, nth : Nat])
  BY <1>1, NoNames
<1>3. CASE pc = "admit"
  <2>1. interrupted = TRUE
    BY <1>3 DEF IInv, AdmissionInv
  <2>2. AdmissionInv'
    BY <1>1, <2>1 DEF AdmissionInv
  <2> QED BY <1>1, <1>2, <2>2, IdleStep
<1>4. CASE pc = "copy"
  <2> DEFINE p == InputPaths[step]
             q == Packaged(UniqueName(p))
  <2>1. \/ disk' = disk
        \/ Exists(p) /\ p # q /\ disk' = Written(q, Torn(disk[p].body))
    BY <1>4 DEF Crash, Tear
  <2>2. ASSUME Exists(p), p # q
        PROVE  q \notin Settled
    <3>1. \A i \in DOMAIN InputPaths : i <= 4 /\ q = InputPaths[i] => i = step
      BY <1>4, <2>2, TheCopy
    <3>2. {1, 2, 3} \subseteq DOMAIN InputPaths
      BY InputsApart
    <3> HIDE DEF q
    <3> QED BY <2>2, <3>1, <3>2, SettledAreInputs
  <2>3. SettledUntouched
    <3> HIDE DEF p, q
    <3>1. CASE disk' = disk
      BY <3>1 DEF SettledUntouched
    <3>2. CASE Exists(p) /\ p # q /\ disk' = Written(q, Torn(disk[p].body))
      <4> DEFINE content == Torn(disk[p].body)
      <4> HIDE DEF content
      <4>1. disk' = Written(q, content)
        BY <3>2 DEF content
      <4> QED BY <2>2, <3>2, <4>1 DEF SettledUntouched, Written
    <3> QED BY <2>1, <3>1, <3>2
  <2>4. AdmissionInv'
    BY <1>1, <1>4, <2>3, SettledStay DEF IInv
  <2> QED BY <1>1, <1>2, <2>4, IdleStep
<1>5. CASE pc = "sign"
  <2> DEFINE base == SignFiles[step]
             q == Packaged(Name(base))
             content == Torn(SignBody(base))
  <2>1. disk' = disk \/ disk' = Written(q, content)
    BY <1>5 DEF Crash, Tear
  <2>2. base \in {"README", "CLAIM_CHECKLIST", "raw_files", "tilepo_v0_1_release_manifest"}
    <3>1. step \in {1, 2, 3, 4}
      BY <1>5 DEF IInv, StateType
    <3> QED BY <3>1 DEF SignFiles
  <2>3. \A i \in DOMAIN InputPaths : q # InputPaths[i]
    <3> HIDE DEF base
    <3>1. \A i \in DOMAIN InputPaths : Packaged(Name(base)) # InputPaths[i]
      BY <2>2, SignedApart
    <3> QED BY <3>1
  <2> HIDE DEF q, content
  <2>4. q \notin Settled
    <3>1. {1, 2, 3} \subseteq DOMAIN InputPaths
      BY InputsApart
    <3> QED BY <2>3, <3>1, SettledAreInputs
  <2>5. SettledUntouched
    BY <2>1, <2>4 DEF SettledUntouched, Written
  <2>6. AdmissionInv'
    BY <1>1, <1>5, <2>5, SettledStay DEF IInv
  <2> QED BY <1>1, <1>2, <2>6, IdleStep
<1> QED BY <1>1, <1>3, <1>4, <1>5

LEMMA Invariance == Spec => []IInv
<1>1. Init => IInv
  BY InitHolds
<1>2. IInv /\ [Next]_vars => IInv'
  <2> SUFFICES ASSUME IInv, [Next]_vars PROVE IInv'
    OBVIOUS
  <2>1. CASE UNCHANGED vars
    BY <2>1 DEF vars, IInv, StateType, NamesInv, PlanInv, CopiesInv, InputsInv, SignedInv,
      AdmissionInv, Finalizing, Exists, Holds, Spared, StoredAs, Packaged, InPackage,
      Checksums, Used
  <2>2. CASE \E d \in SourceDirs, rows \in LaterEvidence : SweepAgain(d, rows)
    BY <2>2, SweepAgainStep
  <2>3. CASE StartAdmission
    BY <2>3, StartAdmissionStep
  <2>4. CASE WriteAdmission
    BY <2>4, WriteAdmissionStep
  <2>5. CASE StartFinalization
    BY <2>5, StartFinalizationStep
  <2>6. CASE CopyInput
    BY <2>6, CopyInputStep
  <2>7. CASE MissingInput
    BY <2>7, MissingInputStep
  <2>8. CASE Sign
    BY <2>8, SignStep
  <2>9. CASE Crash
    BY <2>9, CrashStep
  <2> QED
    BY <2>1, <2>2, <2>3, <2>4, <2>5, <2>6, <2>7, <2>8, <2>9 DEF Next
<1> QED BY <1>1, <1>2, PTL DEF Spec

-----------------------------------------------------------------------------
\* A finished package has a name for every input; the first three are
\* admission's own.
LEMMA FinishedPackage ==
  ASSUME IInv, pc = "released"
  PROVE  /\ DOMAIN copied = DOMAIN InputPaths
         /\ StoredAs(1) = Packaged(Name("selected_plan"))
         /\ StoredAs(2) = Packaged(Name("fallback_plan"))
         /\ StoredAs(3) = Packaged(Name("admission_report_md"))
         /\ \A i \in {1, 2, 3} :
              InputPaths[i] \in DOMAIN disk /\ disk[StoredAs(i)] = disk[InputPaths[i]]
<1>1. Len(copied) = Len(InputPaths) /\ copied \in Seq([base : InputBases, nth : Nat])
  BY DEF IInv, StateType
<1>2. DOMAIN copied = DOMAIN InputPaths
  BY <1>1, InputPathsAre
<1>3. {1, 2, 3} \subseteq DOMAIN copied
  BY <1>2, InputsApart
<1>4. \A i \in {1, 2, 3} : StoredAs(i) = Packaged(Name(InputPaths[i].base))
  BY <1>3 DEF IInv, NamesInv, StoredAs
<1>5. /\ InputPaths[1].base = "selected_plan" /\ InputPaths[2].base = "fallback_plan"
      /\ InputPaths[3].base = "admission_report_md"
  BY InputPathsAre DEF AdmissionFile, Path
<1>6. \A i \in {1, 2, 3} :
        InputPaths[i] \in DOMAIN disk /\ disk[StoredAs(i)] = disk[InputPaths[i]]
  BY <1>3 DEF IInv, CopiesInv, Finalizing, Exists
<1> QED BY <1>2, <1>4, <1>5, <1>6

\* A finished package holds the plan the finalizer read, whole, with a passing
\* gate, whatever was admitted, rejected or cut short before and wherever the
\* package lies.
THEOREM PassingPlansAreShipped == Spec => []OnlyPassingPlansShipped
<1>1. IInv => OnlyPassingPlansShipped
  <2> SUFFICES ASSUME IInv, pc = "released"
               PROVE  /\ ~InPackage("selected_plan").torn
                      /\ InPackage("selected_plan").body.gate = "PASS"
                      /\ InPackage("selected_plan").body = plan
    BY DEF OnlyPassingPlansShipped
  <2>1. InPackage("selected_plan") = disk[InputPaths[1]]
    BY FinishedPackage DEF InPackage
  <2> QED BY <2>1 DEF IInv, PlanInv, Finalizing
<1> QED BY <1>1, Invariance, PTL

\* The plan, the fallback plan and the report of a finished package are of one
\* admission if the latest one was not cut short, and every workload has its
\* fallback.
THEOREM PlansAreOfOneAdmission == Spec => []PlansOfOneAdmission
<1>1. IInv => PlansOfOneAdmission
  <2> SUFFICES ASSUME IInv, pc = "released", ~interrupted
               PROVE  LET selections == InPackage("selected_plan").body.selections
                          text == InPackage("admission_report_md").body
                      IN  /\ text.gate = "PASS" /\ text.selections = selections
                          /\ InPackage("fallback_plan").body
                               = [w \in Workloads |-> selections[w].budget]
    BY DEF PlansOfOneAdmission
  <2> DEFINE s == disk[AdmissionFile("admission_report_md")].body
  <2>1. /\ InPackage("selected_plan") = disk[AdmissionFile("selected_plan")]
        /\ InPackage("fallback_plan") = disk[AdmissionFile("fallback_plan")]
        /\ InPackage("admission_report_md").body = s
        /\ AdmissionFile("selected_plan") \in DOMAIN disk
    BY FinishedPackage, InputPathsAre DEF InPackage
  <2>2. /\ IsSummary(s)
        /\ disk[AdmissionFile("selected_plan")].body = PlanOf(s)
        /\ disk[AdmissionFile("fallback_plan")].body = FallbackOf(s)
    BY <2>1 DEF IInv, AdmissionInv, Holds, Exists
  <2>3. PlanOf(s).gate = "PASS"
    <3>1. disk[InputPaths[1]].body.gate = "PASS"
      BY DEF IInv, PlanInv, Finalizing
    <3> QED BY <2>2, <3>1, InputPathsAre
  <2> HIDE DEF s
  <2>4. s.gate = "PASS" /\ PlanOf(s).selections = s.selections
    BY <2>3 DEF PlanOf
  <2>5. FallbackOf(s) = [w \in Workloads |-> s.selections[w].budget]
    BY <2>2, <2>4, SummaryFacts
  <2> QED BY <2>1, <2>2, <2>4, <2>5
<1> QED BY <1>1, Invariance, PTL

\* A finished package holds every input as it was when the finalizer started,
\* unless a copy has landed on an input first, and everything in it is as its
\* checksum says, for any manifests, names and places of the package.
THEOREM PackagesAreFaithful == Spec => []PackageIsFaithful
<1>1. IInv => PackageIsFaithful
  <2> SUFFICES ASSUME IInv, pc = "released"
               PROVE  /\ NoInputOverwritten =>
                           \A i \in DOMAIN InputPaths : disk[StoredAs(i)] = inputs[i]
                      /\ \A n \in DOMAIN InPackage("raw_files").body :
                           disk[Packaged(n)] = InPackage("raw_files").body[n]
    BY DEF PackageIsFaithful
  <2>1. ASSUME NoInputOverwritten, NEW i \in DOMAIN InputPaths
        PROVE  disk[StoredAs(i)] = inputs[i]
    <3>1. i \in DOMAIN copied
      BY FinishedPackage
    <3>2. Spared(i)
      BY <2>1, <3>1 DEF Spared, NoInputOverwritten
    <3> QED BY <3>1, <3>2 DEF IInv, InputsInv, Finalizing
  <2>2. InPackage("raw_files").body = Checksums
    BY DEF IInv, SignedInv
  <2>3. \A n \in DOMAIN Checksums : disk[Packaged(n)] = Checksums[n]
    BY DEF Checksums
  <2> QED BY <2>1, <2>2, <2>3
<1> QED BY <1>1, Invariance, PTL

-----------------------------------------------------------------------------
(* The evidence.                                                           *)

\* Manifests hold rows, copies of manifests over one another and copies cut
\* short included.
ManifestsInv ==
  \A d \in SourceDirs : Exists(Manifest(d)) /\ AreRows(disk[Manifest(d)].body)

\* So does what admission decides from.
EvidenceInv == ManifestsInv /\ (pc = "admit" => AreRows(summary.rows))

LEMMA ManifestsStay ==
  ASSUME ManifestsInv, NEW q, NEW content, disk' = disk \/ disk' = Written(q, content),
         \A d \in SourceDirs : q = Manifest(d) => AreRows(content.body)
  PROVE  ManifestsInv'
<1>1. \A d \in SourceDirs : Manifest(d) \in DOMAIN disk /\ AreRows(disk[Manifest(d)].body)
  BY DEF ManifestsInv, Exists
<1>2. CASE disk' = disk
  BY <1>1, <1>2 DEF ManifestsInv, Exists
<1>3. CASE disk' = Written(q, content)
  <2>1. /\ DOMAIN disk' = DOMAIN disk \union {q} /\ disk'[q] = content
        /\ \A p \in DOMAIN disk : p # q => disk'[p] = disk[p]
    BY <1>3 DEF Written
  <2>2. \A d \in SourceDirs :
          Manifest(d) \in DOMAIN disk' /\ AreRows(disk'[Manifest(d)].body)
    BY <1>1, <2>1
  <2> QED BY <2>2 DEF ManifestsInv, Exists
<1> QED BY <1>2, <1>3

LEMMA ManifestsAre ==
  /\ \A d : Manifest(d).base = "tilepo_sweep_manifest" /\ Manifest(d).dir = d
  /\ \A b : AdmissionFile(b).dir = "admission"
  /\ \A n : Packaged(n).base = n.base
  /\ \A i \in DOMAIN InputPaths :
       InputPaths[i].base = "tilepo_sweep_manifest" => \E d \in SourceDirs : InputPaths[i] = Manifest(d)
<1>1. \A i \in DOMAIN InputPaths :
        InputPaths[i].base = "tilepo_sweep_manifest"
          => i \in 5 .. 4 + Len(Sources) /\ i - 4 \in DOMAIN Sources
  <2>1. DOMAIN Sources = 1 .. Len(Sources)
    BY DirAssumption
  <2> QED BY <2>1, InputPathsAre, InputsApart
<1> QED BY <1>1, InputPathsAre DEF Manifest, AdmissionFile, Packaged, Path, SourceDirs

\* What is copied onto a manifest is a manifest.
LEMMA CopyKeepsManifests ==
  ASSUME IInv, ManifestsInv, pc = "copy", Exists(InputPaths[step]), NEW d \in SourceDirs,
         Packaged(UniqueName(InputPaths[step])) = Manifest(d)
  PROVE  AreRows(disk[InputPaths[step]].body)
<1>1. /\ step \in DOMAIN InputPaths
      /\ UniqueName(InputPaths[step]).base = InputPaths[step].base
  BY TheCopy
<1>2. InputPaths[step].base = "tilepo_sweep_manifest"
  BY <1>1, ManifestsAre
<1>3. PICK c \in SourceDirs : InputPaths[step] = Manifest(c)
  BY <1>1, <1>2, ManifestsAre
<1> QED BY <1>3 DEF ManifestsInv

LEMMA LoadedRowsAreRows ==
  ASSUME ManifestsInv
  PROVE  AreRows(LoadedRows)
<1> DEFINE ss == [i \in DOMAIN Sources |-> disk[Manifest(Sources[i])].body]
           n == Len(Sources)
<1>1. n \in Nat /\ DOMAIN Sources = 1 .. n
  BY DirAssumption
<1>2. \A i \in 1 .. n : AreRows(ss[i])
  BY <1>1 DEF ManifestsInv, SourceDirs
<1>3. ss \in [1 .. n -> Range(ss)]
  BY <1>1 DEF Range
<1>4. LoadedRows = FlattenSeq(ss)
  BY DEF LoadedRows
<1> HIDE DEF ss, n
<1> QED BY <1>1, <1>2, <1>3, <1>4, FlattenRows

LEMMA EvidenceStep ==
  ASSUME IInv, EvidenceInv, Next
  PROVE  EvidenceInv'
<1>0. ManifestsInv /\ (pc = "admit" => AreRows(summary.rows))
  BY DEF EvidenceInv
<1>1. ASSUME NEW d \in SourceDirs, NEW rows \in LaterEvidence, SweepAgain(d, rows)
      PROVE  EvidenceInv'
  <2>1. disk' = Written(Manifest(d), Whole(rows)) /\ pc' = "idle"
    BY <1>1 DEF SweepAgain
  <2>2. AreRows(Whole(rows).body)
    BY EvidenceAssumption DEF Whole
  <2> QED BY <1>0, <2>1, <2>2, ManifestsStay DEF EvidenceInv
<1>2. ASSUME StartAdmission PROVE EvidenceInv'
  <2>1. summary' = Summary(LoadedRows) /\ disk' = disk
    BY <1>2 DEF StartAdmission
  <2>2. AreRows(summary'.rows)
    BY <1>0, <2>1, LoadedRowsAreRows DEF Summary
  <2>3. ManifestsInv'
    BY <1>0, <2>1 DEF ManifestsInv, Exists
  <2> QED BY <2>2, <2>3 DEF EvidenceInv
<1>3. ASSUME WriteAdmission PROVE EvidenceInv'
  <2> DEFINE q == AdmissionFile(AdmissionFiles[step])
             content == Whole(AdmissionBody(AdmissionFiles[step]))
  <2>1. disk' = Written(q, content)
    BY <1>3 DEF WriteAdmission
  <2>2. pc = "admit" /\ (pc' = "admit" => summary' = summary)
    BY <1>3 DEF WriteAdmission
  <2>3. \A d \in SourceDirs : q # Manifest(d)
    BY ManifestsAre, DirAssumption
  <2> HIDE DEF q, content
  <2>4. ManifestsInv'
    BY <1>0, <2>1, <2>3, ManifestsStay
  <2> QED BY <1>0, <2>2, <2>4 DEF EvidenceInv
<1>4. ASSUME StartFinalization \/ MissingInput PROVE EvidenceInv'
  <2>1. disk' = disk /\ pc' # "admit"
    BY <1>4 DEF StartFinalization, MissingInput
  <2> QED BY <1>0, <2>1 DEF EvidenceInv, ManifestsInv, Exists
<1>5. ASSUME CopyInput PROVE EvidenceInv'
  <2> DEFINE q == Packaged(UniqueName(InputPaths[step]))
             content == disk[InputPaths[step]]
  <2>1. /\ pc = "copy" /\ Exists(InputPaths[step]) /\ pc' # "admit"
        /\ disk' = Written(q, content)
    BY <1>5 DEF CopyInput
  <2>2. \A d \in SourceDirs : q = Manifest(d) => AreRows(content.body)
    BY <1>0, <2>1, CopyKeepsManifests
  <2> HIDE DEF q, content
  <2> QED BY <1>0, <2>1, <2>2, ManifestsStay DEF EvidenceInv
<1>6. ASSUME NEW b, pc = "sign", b = SignFiles[step]
      PROVE  \A d \in SourceDirs : Packaged(Name(b)) # Manifest(d)
  <2>1. step \in {1, 2, 3, 4}
    BY <1>6 DEF IInv, StateType
  <2>2. b # "tilepo_sweep_manifest"
    BY <1>6, <2>1 DEF SignFiles
  <2> QED BY <2>2, ManifestsAre DEF Name
<1>7. ASSUME Sign PROVE EvidenceInv'
  <2> DEFINE q == Packaged(Name(SignFiles[step]))
             content == Whole(SignBody(SignFiles[step]))
  <2>1. disk' = Written(q, content) /\ pc = "sign" /\ pc' # "admit"
    BY <1>7 DEF Sign
  <2>2. \A d \in SourceDirs : q # Manifest(d)
    BY <1>6, <2>1
  <2> HIDE DEF q, content
  <2> QED BY <1>0, <2>1, <2>2, ManifestsStay DEF EvidenceInv
<1>8. ASSUME Crash PROVE EvidenceInv'
  <2>1. pc' = "idle" /\ pc \in {"admit", "copy", "sign"}
    BY <1>8 DEF Crash, Between
  <2>2. CASE pc = "admit"
    <3> DEFINE q == AdmissionFile(AdmissionFiles[step])
               content == Torn(AdmissionBody(AdmissionFiles[step]))
    <3>1. disk' = disk \/ disk' = Written(q, content)
      BY <1>8, <2>2 DEF Crash, Tear
    <3>2. \A d \in SourceDirs : q # Manifest(d)
      BY ManifestsAre, DirAssumption
    <3> HIDE DEF q, content
    <3> QED BY <1>0, <2>1, <3>1, <3>2, ManifestsStay DEF EvidenceInv
  <2>3. CASE pc = "copy"
    <3> DEFINE q == Packaged(UniqueName(InputPaths[step]))
               content == Torn(disk[InputPaths[step]].body)
    <3>1. disk' = disk \/ (Exists(InputPaths[step]) /\ disk' = Written(q, content))
      BY <1>8, <2>3 DEF Crash, Tear
    <3>2. Exists(InputPaths[step]) =>
            \A d \in SourceDirs : q = Manifest(d) => AreRows(content.body)
      BY <1>0, <2>3, CopyKeepsManifests DEF Torn
    <3> HIDE DEF q, content
    <3>3. CASE disk' = disk
      BY <1>0, <2>1, <3>3 DEF EvidenceInv, ManifestsInv, Exists
    <3>4. CASE Exists(InputPaths[step]) /\ disk' = Written(q, content)
      BY <1>0, <2>1, <3>2, <3>4, ManifestsStay DEF EvidenceInv
    <3> QED BY <3>1, <3>3, <3>4
  <2>4. CASE pc = "sign"
    <3> DEFINE q == Packaged(Name(SignFiles[step]))
               content == Torn(SignBody(SignFiles[step]))
    <3>1. disk' = disk \/ disk' = Written(q, content)
      BY <1>8, <2>4 DEF Crash, Tear
    <3>2. \A d \in SourceDirs : q # Manifest(d)
      BY <1>6, <2>4
    <3> HIDE DEF q, content
    <3> QED BY <1>0, <2>1, <3>1, <3>2, ManifestsStay DEF EvidenceInv
  <2> QED BY <2>1, <2>2, <2>3, <2>4
<1> QED BY <1>1, <1>2, <1>3, <1>4, <1>5, <1>7, <1>8 DEF Next

LEMMA EvidenceInvariance == Spec => []EvidenceInv
<1>1. Init => EvidenceInv
  <2> SUFFICES ASSUME Init PROVE EvidenceInv
    OBVIOUS
  <2>1. pc = "idle"
    BY DEF Init
  <2>2. PICK evidence \in FirstEvidence :
          disk = [p \in {Manifest(d) : d \in SourceDirs} |-> Whole(evidence[p.dir])]
    BY DEF Init
  <2>3. \A d \in SourceDirs :
          Manifest(d) \in DOMAIN disk /\ disk[Manifest(d)] = Whole(evidence[d])
    BY <2>2, ManifestsAre
  <2>4. \A d \in SourceDirs : AreRows(Whole(evidence[d]).body)
    BY EvidenceAssumption DEF Whole
  <2> QED BY <2>1, <2>3, <2>4 DEF EvidenceInv, ManifestsInv, Exists
<1>2. IInv /\ EvidenceInv /\ [Next]_vars => EvidenceInv'
  <2> SUFFICES ASSUME IInv, EvidenceInv, [Next]_vars PROVE EvidenceInv'
    OBVIOUS
  <2>1. CASE UNCHANGED vars
    BY <2>1 DEF vars, EvidenceInv, ManifestsInv, Exists
  <2>2. CASE Next
    BY <2>2, EvidenceStep
  <2> QED BY <2>1, <2>2
<1> QED BY <1>1, <1>2, Invariance, PTL DEF Spec

\* Where TilePO is selected, it is at a budget whose medians win.
LEMMA SelectedWins ==
  ASSUME NEW rows, AreRows(rows), NEW w, Selection(rows, w).system = "TilePO"
  PROVE  \E i \in DOMAIN Experts :
           /\ Selection(rows, w).budget = Experts[i]
           /\ StrictWin(Measured(rows, w, i, "B"), Measured(rows, w, i, "C"))
<1>1. Admitted(rows, w) # {}
  BY DEF Selection, Choice
<1>2. Admitted(rows, w) \in SUBSET DOMAIN Experts
  BY DEF Admitted, Complete
<1> DEFINE i == Best(Admitted(rows, w), rows, w, "C")
<1>3. i \in Admitted(rows, w)
  BY <1>1, <1>2, BestIsAdmitted
<1>4. Selection(rows, w).budget = Experts[i]
  BY <1>1 DEF Selection, Choice
<1> HIDE DEF i
<1> QED BY <1>2, <1>3, <1>4 DEF Admitted

\* A passing gate means what it should of every row and every selection: no
\* row of any manifest is disqualified, and where TilePO is selected a line
\* separates half of KT's rows from half of TilePO's, whatever the evidence,
\* the number of repeats, the threshold and the policy.
THEOREM AdmissionsAreByMajority == Spec => []AdmittedByMajority
<1>1. IInv /\ EvidenceInv => AdmittedByMajority
  <2> SUFFICES ASSUME IInv, EvidenceInv, pc = "admit", summary.gate = "PASS"
               PROVE  AdmittedByMajority
    BY DEF AdmittedByMajority
  <2> DEFINE rows == summary.rows
  <2>1. AreRows(rows) /\ summary.gate = Gate(rows) /\ summary.selections = Selections(rows)
    BY DEF EvidenceInv, IInv, AdmissionInv, IsSummary, Summary
  <2>2. ~Flawed(rows) /\ \A w \in Workloads : Complete(rows, w) # {}
    BY <2>1 DEF Gate
  <2>3. \A w \in Workloads : summary.selections[w] = Selection(rows, w)
    BY <2>1, <2>2 DEF Selections
  <2> HIDE DEF rows
  <2>4. ASSUME NEW w \in Workloads, Selection(rows, w).system = "TilePO"
        PROVE  LET values(system, m) ==
                     Recorded(rows, FirstRepeats(Cell(rows, w, Selection(rows, w).budget, system)), m)
               IN  /\ ThroughputWon(values("B", "tok"), values("C", "tok"))
                   /\ \A m \in {"p95", "p99"} : TailHeld(values("B", m), values("C", m))
    <3>1. PICK i \in DOMAIN Experts :
            /\ Selection(rows, w).budget = Experts[i]
            /\ StrictWin(Measured(rows, w, i, "B"), Measured(rows, w, i, "C"))
      BY <2>1, <2>4, SelectedWins
    <3> DEFINE b == FirstRepeats(Cell(rows, w, Experts[i], "B"))
               c == FirstRepeats(Cell(rows, w, Experts[i], "C"))
               B(m) == Recorded(rows, b, m)
               C(m) == Recorded(rows, c, m)
    <3>2. \A m \in Metrics :
            /\ Measured(rows, w, i, "B")[m] = TwiceMedian(B(m))
            /\ Measured(rows, w, i, "C")[m] = TwiceMedian(C(m))
      BY DEF Measured, Aggregate
    <3>3. b \in SUBSET DOMAIN rows /\ c \in SUBSET DOMAIN rows
      BY FirstRepeatsOf
    <3> HIDE DEF b, c
    <3>4. \A m \in Metrics :
            /\ IsTable(B(m)) /\ IsTable(C(m))
            /\ TwiceMedian(B(m)) # Missing => DOMAIN B(m) # {}
            /\ TwiceMedian(C(m)) # Missing => DOMAIN C(m) # {}
      BY <2>1, <3>3, RecordedIsTable
    <3> HIDE DEF B, C
    <3>5. {"tok", "p95", "p99"} \subseteq Metrics
      BY DEF Metrics
    <3>6. ThroughputWon(B("tok"), C("tok"))
      <4>1. /\ TwiceMedian(B("tok")) # Missing /\ TwiceMedian(C("tok")) # Missing
            /\ 100 * TwiceMedian(C("tok")) >= TwiceMedian(B("tok")) * (100 + WinPercent)
        BY <3>1, <3>2, <3>5 DEF StrictWin, Faster
      <4> QED BY <3>4, <3>5, <4>1, WonInRows
    <3>7. ASSUME NEW m \in {"p95", "p99"} PROVE TailHeld(B(m), C(m))
      <4>1. /\ TwiceMedian(B(m)) # Missing /\ TwiceMedian(C(m)) # Missing
            /\ TwiceMedian(C(m)) <= TwiceMedian(B(m))
        BY <3>1, <3>2, <3>5 DEF StrictWin, NotSlower
      <4> QED BY <3>4, <3>5, <4>1, HeldInRows
    <3> QED BY <3>1, <3>6, <3>7 DEF B, C, b, c
  <2> QED BY <2>2, <2>3, <2>4 DEF AdmittedByMajority, rows
<1> QED BY <1>1, Invariance, EvidenceInvariance, PTL

-----------------------------------------------------------------------------
\* Evidence (module Evidence), for every grid, every sequence of sweeps, merges
\* and reports.  First the counting.

\* The places of I whose key is one of T.
Within(key, I, T) == {i \in I : key[i] \in T}
Many(key, I, k) == Cardinality(Within(key, I, {k}))

\* As many keys with at least r places as there are places for, r times over:
\* each has exactly r, and no place has another key.
LEMMA ProductGrows ==
  ASSUME NEW r \in Nat, NEW n \in Nat PROVE r * (n + 1) = r * n + r /\ r * n \in Nat
OBVIOUS

LEMMA WithinAdds ==
  ASSUME NEW key, NEW I, IsFiniteSet(I), NEW T, NEW k \in T
  PROVE  /\ Cardinality(Within(key, I, T)) \in Nat
         /\ Cardinality(Within(key, I, {k})) \in Nat
         /\ Cardinality(Within(key, I, T \ {k})) \in Nat
         /\ Cardinality(Within(key, I, T))
              = Cardinality(Within(key, I, T \ {k})) + Cardinality(Within(key, I, {k}))
<1> DEFINE A == Within(key, I, T \ {k})
           B == Within(key, I, {k})
<1>1. /\ Within(key, I, T) = A \union B /\ A \intersect B = {}
      /\ Within(key, I, T) \subseteq I /\ A \subseteq I /\ B \subseteq I
  BY DEF Within
<1> HIDE DEF A, B
<1>2. IsFiniteSet(A) /\ IsFiniteSet(B) /\ IsFiniteSet(Within(key, I, T))
  BY ONLY <1>1, IsFiniteSet(I), FS_Subset
<1>3. Cardinality(A \union B)
        = Cardinality(A) + Cardinality(B) - Cardinality(A \intersect B)
  BY ONLY <1>2, FS_Union
<1>4. Cardinality({}) = 0
  BY FS_EmptySet
<1>5. /\ Cardinality(A) \in Nat /\ Cardinality(B) \in Nat
      /\ Cardinality(Within(key, I, T)) \in Nat
  BY ONLY <1>2, FS_CardinalityType
<1>6. Cardinality(Within(key, I, T))
        = Cardinality(A) + Cardinality(B) - Cardinality({})
  BY ONLY <1>1, <1>3
<1>7. Cardinality(Within(key, I, T)) = Cardinality(A) + Cardinality(B)
  BY ONLY <1>4, <1>5, <1>6
<1> QED BY ONLY <1>5, <1>7 DEF A, B

LEMMA WithinAtLeast ==
  ASSUME NEW key, NEW I, IsFiniteSet(I), NEW K, IsFiniteSet(K), NEW r \in Nat,
         \A k \in K : Cardinality(Within(key, I, {k})) >= r
  PROVE  \A T \in SUBSET K : Cardinality(Within(key, I, T)) >= r * Cardinality(T)
<1> DEFINE C(T) == Cardinality(Within(key, I, T))
           Bad == {T \in SUBSET K : ~(C(T) >= r * Cardinality(T))}
<1> SUFFICES ASSUME Bad # {} PROVE FALSE
  OBVIOUS
<1>1. PICK T \in Bad : \A u \in SUBSET T : u # T => u \notin Bad
  <2>1. Bad \in SUBSET SUBSET K
    OBVIOUS
  <2> HIDE DEF Bad
  <2> QED BY ONLY <2>1, Bad # {}, IsFiniteSet(K), SmallestException
<1>2. T \in SUBSET K /\ ~(C(T) >= r * Cardinality(T))
  BY <1>1
<1>3. IsFiniteSet(T) /\ Cardinality(T) \in Nat
  BY ONLY <1>2, IsFiniteSet(K), FS_Subset, FS_CardinalityType
<1>4. T # {}
  <2> SUFFICES ASSUME T = {} PROVE FALSE
    OBVIOUS
  <2>1. Within(key, I, T) = {}
    BY DEF Within
  <2>2. C(T) = 0 /\ r * Cardinality(T) = 0
    BY <2>1, FS_EmptySet
  <2> QED BY <1>2, <2>2
<1>5. PICK k \in T : TRUE
  BY <1>4
<1>6. /\ C(T) \in Nat /\ C({k}) \in Nat /\ C(T \ {k}) \in Nat
      /\ C(T) = C(T \ {k}) + C({k})
  BY ONLY IsFiniteSet(I), <1>5, WithinAdds
<1>7. /\ T \ {k} \in SUBSET K /\ T \ {k} \notin Bad
  BY <1>1, <1>2, <1>5
<1>8. /\ Cardinality(T \ {k}) = Cardinality(T) - 1 /\ Cardinality(T \ {k}) \in Nat
  <2>1. IsFiniteSet(T \ {k}) /\ Cardinality(T \ {k}) = Cardinality(T) - 1
    BY ONLY <1>3, <1>5, FS_RemoveElement
  <2> QED BY <2>1, FS_CardinalityType
<1> DEFINE n == Cardinality(T \ {k})
<1>9. C(T \ {k}) >= r * n
  BY <1>7
<1>10. C({k}) >= r
  BY <1>2, <1>5
<1>11. Cardinality(T) = n + 1 /\ n \in Nat
  BY <1>3, <1>8
<1> HIDE DEF n, C
<1>12. r * (n + 1) = r * n + r /\ r * n \in Nat
  BY <1>11, ProductGrows
<1>13. C(T) >= r * (n + 1)
  BY <1>6, <1>9, <1>10, <1>12
<1> QED BY <1>2, <1>11, <1>13

LEMMA ExactlyMany ==
  ASSUME NEW key, NEW I, IsFiniteSet(I), NEW K, IsFiniteSet(K), NEW r \in Nat,
         \A k \in K : Many(key, I, k) >= r,
         Cardinality(I) = r * Cardinality(K)
  PROVE  /\ \A i \in I : key[i] \in K
         /\ \A k \in K : Many(key, I, k) = r
<1>1. \A T \in SUBSET K : Cardinality(Within(key, I, T)) >= r * Cardinality(T)
  BY WithinAtLeast DEF Many
<1>2. /\ Within(key, I, K) \subseteq I
      /\ IsFiniteSet(Within(key, I, K))
      /\ Cardinality(Within(key, I, K)) <= Cardinality(I)
      /\ Cardinality(Within(key, I, K)) \in Nat /\ Cardinality(I) \in Nat
  <2>1. Within(key, I, K) \subseteq I
    BY DEF Within
  <2> QED BY ONLY <2>1, IsFiniteSet(I), FS_Subset, FS_CardinalityType
<1>3. Cardinality(Within(key, I, K)) = Cardinality(I)
  BY <1>1, <1>2
<1>4. Within(key, I, K) = I
  BY ONLY <1>2, <1>3, IsFiniteSet(I), FS_Subset
<1>5. \A i \in I : key[i] \in K
  BY <1>4 DEF Within
<1>6. ASSUME NEW k \in K PROVE Many(key, I, k) = r
  <2>1. /\ Cardinality(Within(key, I, {k})) \in Nat
        /\ Cardinality(Within(key, I, K \ {k})) \in Nat
        /\ Cardinality(I)
             = Cardinality(Within(key, I, K \ {k})) + Cardinality(Within(key, I, {k}))
    BY ONLY <1>3, <1>6, IsFiniteSet(I), WithinAdds
  <2> DEFINE n == Cardinality(K \ {k})
  <2>2. n \in Nat /\ Cardinality(K) = n + 1
    <3>1. IsFiniteSet(K \ {k}) /\ Cardinality(K \ {k}) = Cardinality(K) - 1
      BY ONLY <1>6, IsFiniteSet(K), FS_RemoveElement
    <3>2. Cardinality(K \ {k}) \in Nat /\ Cardinality(K) \in Nat
      BY ONLY <3>1, IsFiniteSet(K), FS_CardinalityType
    <3> QED BY <3>1, <3>2
  <2>3. Cardinality(Within(key, I, K \ {k})) >= r * n
    BY <1>1
  <2> HIDE DEF n
  <2>4. r * (n + 1) = r * n + r /\ r * n \in Nat
    BY <2>2, ProductGrows
  <2>5. Cardinality(Within(key, I, {k})) >= r
    BY <1>6 DEF Many
  <2>6. Cardinality(I) = r * n + r
    BY <2>2, <2>4
  <2> QED BY <2>1, <2>3, <2>4, <2>5, <2>6 DEF Many
<1> QED BY <1>5, <1>6

-----------------------------------------------------------------------------
LEMMA ImageCounts ==
  ASSUME NEW S, IsFiniteSet(S), NEW f, f \in [S -> {f[x] : x \in S}],
         \A x, y \in S : f[x] = f[y] => x = y
  PROVE  /\ IsFiniteSet({f[x] : x \in S})
         /\ Cardinality({f[x] : x \in S}) = Cardinality(S)
<1> DEFINE T == {f[x] : x \in S}
<1>1. f \in Bijection(S, T)
  BY DEF Bijection, Injection, Surjection, IsInjective
<1> HIDE DEF T
<1>2. ExistsBijection(S, T)
  BY ONLY <1>1 DEF ExistsBijection
<1>3. IsFiniteSet(T) /\ Cardinality(T) = Cardinality(S)
  BY ONLY <1>2, IsFiniteSet(S), FS_Bijection
<1> QED BY ONLY <1>3 DEF T

LEMMA GridArithmetic ==
  ASSUME NEW w \in Nat, NEW e \in Nat, NEW p \in Nat, NEW a \in Nat, NEW r \in Nat
  PROVE  w * e * r * (1 + p * a) = r * (w * e + (w * e) * (p * a))
OBVIOUS

\* The groups of the release.
ReleaseGrid == Release.workloads \X Release.experts
TilePOGrid == ReleaseGrid \X ((Release.policies \ {Kt}) \X Release.asyncs)
KtKey(p) == GroupKey(p[1], p[2], Kt, "off", "B")
TilePOKey(p) == GroupKey(p[1][1], p[1][2], p[2][1], p[2][2], "C")

LEMMA ReleaseKeysAre ==
  /\ ReleaseKeys = {KtKey(p) : p \in ReleaseGrid} \union {TilePOKey(p) : p \in TilePOGrid}
  /\ {KtKey(p) : p \in ReleaseGrid} \intersect {TilePOKey(p) : p \in TilePOGrid} = {}
<1> DEFINE KK == {KtKey(p) : p \in ReleaseGrid}
           TK == {TilePOKey(p) : p \in TilePOGrid}
           KtKeys == {GroupKey(w, e, Kt, "off", "B") :
                        w \in Release.workloads, e \in Release.experts}
           TilePOKeys == {GroupKey(w, e, policy, async, "C") :
                            w \in Release.workloads, e \in Release.experts,
                            policy \in Release.policies \ {Kt}, async \in Release.asyncs}
<1>1. KK = KtKeys
  <2>1. ASSUME NEW k \in KK PROVE k \in KtKeys
    BY DEF KtKey, ReleaseGrid
  <2>2. ASSUME NEW w \in Release.workloads, NEW e \in Release.experts
        PROVE  GroupKey(w, e, Kt, "off", "B") \in KK
    <3>1. <<w, e>> \in ReleaseGrid /\ KtKey(<<w, e>>) = GroupKey(w, e, Kt, "off", "B")
      BY DEF KtKey, ReleaseGrid
    <3> QED BY <3>1
  <2> QED BY <2>1, <2>2
<1>2. TK = TilePOKeys
  <2>1. ASSUME NEW k \in TK PROVE k \in TilePOKeys
    BY DEF TilePOKey, TilePOGrid, ReleaseGrid
  <2>2. ASSUME NEW w \in Release.workloads, NEW e \in Release.experts,
               NEW policy \in Release.policies \ {Kt}, NEW async \in Release.asyncs
        PROVE  GroupKey(w, e, policy, async, "C") \in TK
    <3>1. /\ <<<<w, e>>, <<policy, async>>>> \in TilePOGrid
          /\ TilePOKey(<<<<w, e>>, <<policy, async>>>>)
               = GroupKey(w, e, policy, async, "C")
      BY DEF TilePOKey, TilePOGrid, ReleaseGrid
    <3> QED BY <3>1
  <2> QED BY <2>1, <2>2
<1>3. \A k \in KK : k.system = "B"
  BY DEF KtKey, GroupKey
<1>4. \A k \in TK : k.system = "C"
  BY DEF TilePOKey, GroupKey
<1>5. ReleaseKeys = KtKeys \union TilePOKeys
  BY DEF ReleaseKeys
<1> HIDE DEF KK, TK, KtKeys, TilePOKeys
<1>6. ReleaseKeys = KK \union TK /\ KK \intersect TK = {}
  BY ONLY <1>1, <1>2, <1>3, <1>4, <1>5
<1> QED BY ONLY <1>6 DEF KK, TK

LEMMA ReleaseKeysCount ==
  /\ IsFiniteSet(ReleaseKeys) /\ Cardinality(ReleaseKeys) \in Nat
  /\ ReleaseRows = Release.repeats * Cardinality(ReleaseKeys)
<1> DEFINE W == Release.workloads
           E == Release.experts
           P == Release.policies \ {Kt}
           A == Release.asyncs
           KK == {KtKey(p) : p \in ReleaseGrid}
           TK == {TilePOKey(p) : p \in TilePOGrid}
<1>1. IsFiniteSet(W) /\ IsFiniteSet(E) /\ IsFiniteSet(P) /\ IsFiniteSet(A)
  <2>1. IsFiniteSet(W) /\ IsFiniteSet(E) /\ IsFiniteSet(A) /\ IsFiniteSet(Release.policies)
    BY ReleaseAssumption
  <2>2. P \in SUBSET Release.policies
    OBVIOUS
  <2> HIDE DEF W, E, P, A
  <2> QED BY ONLY <2>1, <2>2, FS_Subset
<1> DEFINE w == Cardinality(W)
           e == Cardinality(E)
           p == Cardinality(P)
           a == Cardinality(A)
           r == Release.repeats
<1>2. w \in Nat /\ e \in Nat /\ p \in Nat /\ a \in Nat
  BY ONLY <1>1, FS_CardinalityType
<1>3. r \in Nat /\ ReleaseRows = w * e * r * (1 + p * a)
  BY ReleaseAssumption
<1>4. IsFiniteSet(ReleaseGrid) /\ Cardinality(ReleaseGrid) = w * e
  <2> HIDE DEF W, E
  <2>1. IsFiniteSet(W \X E) /\ Cardinality(W \X E) = Cardinality(W) * Cardinality(E)
    BY ONLY <1>1, FS_Product
  <2> QED BY ONLY <2>1 DEF ReleaseGrid, W, E
<1>5. IsFiniteSet(TilePOGrid) /\ Cardinality(TilePOGrid) = (w * e) * (p * a)
  <2> HIDE DEF P, A, w, e
  <2>1. IsFiniteSet(P \X A) /\ Cardinality(P \X A) = Cardinality(P) * Cardinality(A)
    BY ONLY <1>1, FS_Product
  <2>2. /\ IsFiniteSet(ReleaseGrid \X (P \X A))
        /\ Cardinality(ReleaseGrid \X (P \X A))
             = Cardinality(ReleaseGrid) * Cardinality(P \X A)
    BY ONLY <1>4, <2>1, FS_Product
  <2> QED BY ONLY <1>4, <2>1, <2>2 DEF TilePOGrid, P, A
<1>6. IsFiniteSet(KK) /\ Cardinality(KK) = w * e
  <2> DEFINE f == [q \in ReleaseGrid |-> KtKey(q)]
  <2>1. \A x, y \in ReleaseGrid : f[x] = f[y] => x = y
    BY DEF KtKey, GroupKey, ReleaseGrid
  <2>2. {f[q] : q \in ReleaseGrid} = KK /\ f \in [ReleaseGrid -> {f[q] : q \in ReleaseGrid}]
    OBVIOUS
  <2> HIDE DEF f, KK
  <2> QED BY ONLY <1>4, <2>1, <2>2, ImageCounts
<1>7. IsFiniteSet(TK) /\ Cardinality(TK) = (w * e) * (p * a)
  <2> DEFINE f == [q \in TilePOGrid |-> TilePOKey(q)]
  <2>1. \A x, y \in TilePOGrid : f[x] = f[y] => x = y
    BY DEF TilePOKey, GroupKey, TilePOGrid, ReleaseGrid
  <2>2. {f[q] : q \in TilePOGrid} = TK /\ f \in [TilePOGrid -> {f[q] : q \in TilePOGrid}]
    OBVIOUS
  <2> HIDE DEF f, TK
  <2> QED BY ONLY <1>5, <2>1, <2>2, ImageCounts
<1> HIDE DEF w, e, p, a, r, KK, TK
<1>8. w * e \in Nat /\ (w * e) * (p * a) \in Nat
  BY ONLY <1>2
<1>9. ReleaseKeys = KK \union TK /\ KK \intersect TK = {}
  BY ONLY ReleaseKeysAre DEF KK, TK
<1>10. /\ IsFiniteSet(KK \union TK)
       /\ Cardinality(KK \union TK)
            = Cardinality(KK) + Cardinality(TK) - Cardinality(KK \intersect TK)
  BY ONLY <1>6, <1>7, FS_Union
<1>11. Cardinality({}) = 0
  BY FS_EmptySet
<1>12. Cardinality(ReleaseKeys) = w * e + (w * e) * (p * a)
  <2>1. Cardinality(ReleaseKeys) = Cardinality(KK) + Cardinality(TK) - Cardinality({})
    BY ONLY <1>9, <1>10
  <2> QED BY ONLY <1>6, <1>7, <1>8, <1>11, <2>1
<1>13. w * e * r * (1 + p * a) = r * (w * e + (w * e) * (p * a))
  BY ONLY <1>2, <1>3, GridArithmetic
<1>14. ReleaseRows = Release.repeats * Cardinality(ReleaseKeys)
  BY ONLY <1>3, <1>12, <1>13 DEF r
<1> QED BY ONLY <1>8, <1>9, <1>10, <1>12, <1>14

-----------------------------------------------------------------------------
\* Rows that the verification has passed.
Verified(rows) ==
  /\ rows \in Seq(SweptRows) /\ Len(rows) = ReleaseRows
  /\ ReportPasses(rows, Release)
  /\ \A i \in DOMAIN rows : ReleaseRow(rows[i])

\* Every manifest holds rows of sweeps.
RowsInv == \A name \in DOMAIN manifests : manifests[name].rows \in Seq(SweptRows)

\* What passed has been verified, and its summary is that of its rows.
VerdictInv ==
  verdict.status = "PASS" =>
    /\ Verified(verdict.rows)
    /\ verdict.summary =
         [gate |-> "PASS", request |-> Release, groups |-> Grouped(verdict.rows, Release)]

\* The headline compares two groups of the summary it was read from.
HeadlineInv ==
  headline.answered =>
    /\ headline.best \in DOMAIN headline.of.groups /\ headline.best.policy # Kt
    /\ headline.baseline \in KtGroups(headline.of.groups, CellOf(headline.best))

ReleaseInv == RowsInv /\ VerdictInv /\ HeadlineInv

-----------------------------------------------------------------------------
\* The groups of the release are wanted, and none is missing.
LEMMA ReleaseKeysAreCounted ==
  ASSUME NEW rows, Covered(Grouped(rows, Release), Release), NEW k \in ReleaseKeys
  PROVE  RowsIn(Grouped(rows, Release), k) >= Release.repeats
<1>1. CASE k \in {GroupKey(w, e, Kt, "off", "B") :
                  w \in Release.workloads, e \in Release.experts}
  <2>1. Kt \in Release.policies /\ "off" \in Release.asyncs
    BY ReleaseAssumption
  <2> QED BY <1>1, <2>1 DEF Covered
<1>2. CASE k \in {GroupKey(w, e, policy, async, "C") :
                  w \in Release.workloads, e \in Release.experts,
                  policy \in Release.policies \ {Kt}, async \in Release.asyncs}
  BY <1>2 DEF Covered
<1> QED BY <1>1, <1>2 DEF ReleaseKeys

LEMMA VerifiedRowsAreExact ==
  ASSUME NEW rows, Verified(rows)
  PROVE  /\ \A i \in DOMAIN rows : rows[i].key \in ReleaseKeys /\ rows[i].flaw = "none"
         /\ \A key \in ReleaseKeys :
              Cardinality({i \in DOMAIN rows : rows[i].key = key}) = Release.repeats
         /\ DOMAIN Grouped(rows, Release) = ReleaseKeys
<1> DEFINE I == DOMAIN rows
           of == [i \in I |-> rows[i].key]
           G == Grouped(rows, Release)
<1>1. Release.repeats \in Nat \ {0} /\ Release.real
  BY ReleaseAssumption
<1>2. I = 1 .. Len(rows) /\ Len(rows) \in Nat /\ Len(rows) = ReleaseRows
      /\ \A i \in I : rows[i] \in SweptRows
  BY DEF Verified
<1>3. IsFiniteSet(I) /\ Cardinality(I) = ReleaseRows
  <2> DEFINE n == Len(rows)
  <2> HIDE DEF I, n
  <2>1. IsFiniteSet(1 .. n) /\ Cardinality(1 .. n) = IF 1 > n THEN 0 ELSE n - 1 + 1
    BY ONLY <1>2, FS_Interval DEF n
  <2> QED BY ONLY <1>2, <2>1 DEF n
<1>4. ASSUME NEW k
      PROVE  Many(of, I, k) = Cardinality({i \in I : rows[i].key = k})
  <2>1. Within(of, I, {k}) = {i \in I : rows[i].key = k}
    BY DEF Within
  <2> QED BY ONLY <2>1 DEF Many
<1>5. ASSUME NEW k \in ReleaseKeys
      PROVE  /\ k \in DOMAIN G
             /\ Many(of, I, k) >= Release.repeats
  <2>1. RowsIn(G, k) >= Release.repeats
    BY ReleaseKeysAreCounted DEF Verified, ReportPasses
  <2>2. k \in DOMAIN G
    BY ONLY <1>1, <2>1 DEF RowsIn
  <2>3. G[k] = Cardinality({i \in I : rows[i].key = k})
    BY <2>2 DEF Grouped
  <2> QED BY ONLY <1>4, <2>1, <2>2, <2>3 DEF RowsIn
<1> HIDE DEF I, of
<1>6. /\ \A i \in I : of[i] \in ReleaseKeys
      /\ \A k \in ReleaseKeys : Many(of, I, k) = Release.repeats
  <2>1. /\ Release.repeats \in Nat /\ IsFiniteSet(ReleaseKeys)
        /\ Cardinality(I) = Release.repeats * Cardinality(ReleaseKeys)
    BY ONLY <1>1, <1>3, ReleaseKeysCount
  <2>2. \A k \in ReleaseKeys : Many(of, I, k) >= Release.repeats
    BY ONLY <1>5
  <2> QED BY ONLY <1>3, <2>1, <2>2, ExactlyMany
<1>7. \A i \in I : rows[i].key \in ReleaseKeys
  BY <1>6 DEF of
<1>8. \A i \in I : rows[i].flaw = "none"
  <2>1. \A i \in I : rows[i].flaw \in Flaws
    BY <1>2, SweptAssumption
  <2>2. \A i \in I : RowValid(rows[i], Release.real) /\ ReleaseRow(rows[i])
    BY DEF Verified, ReportPasses, I
  <2> QED BY ONLY <1>1, <2>1, <2>2 DEF Flaws, RowValid, ReleaseRow
<1>9. DOMAIN G \subseteq ReleaseKeys
  BY <1>7 DEF Grouped, I
<1> QED BY <1>4, <1>5, <1>6, <1>7, <1>8, <1>9 DEF I

\* KT has one group of each cell, of system B; the other policies' groups are
\* of system C.
LEMMA ReleaseKeysBySystem ==
  ASSUME NEW k \in ReleaseKeys
  PROVE  /\ k.policy = Kt => k.system = "B"
         /\ k.policy # Kt => k.system = "C"
         /\ \E p \in ReleaseGrid : CellOf(k) = p
<1>1. CASE \E w \in Release.workloads, e \in Release.experts :
             k = GroupKey(w, e, Kt, "off", "B")
  <2>1. PICK w \in Release.workloads, e \in Release.experts :
          k = GroupKey(w, e, Kt, "off", "B")
    BY <1>1
  <2>2. /\ k.workload = w /\ k.experts = e /\ k.policy = Kt /\ k.system = "B"
        /\ <<w, e>> \in ReleaseGrid
    BY ONLY <2>1 DEF GroupKey, ReleaseGrid
  <2> QED BY ONLY <2>2 DEF CellOf
<1>2. CASE \E w \in Release.workloads, e \in Release.experts,
              policy \in Release.policies \ {Kt}, async \in Release.asyncs :
             k = GroupKey(w, e, policy, async, "C")
  <2>1. PICK w \in Release.workloads, e \in Release.experts,
             policy \in Release.policies \ {Kt}, async \in Release.asyncs :
          k = GroupKey(w, e, policy, async, "C")
    BY <1>2
  <2>2. /\ k.workload = w /\ k.experts = e /\ k.policy # Kt /\ k.system = "C"
        /\ <<w, e>> \in ReleaseGrid
    BY ONLY <2>1 DEF GroupKey, ReleaseGrid
  <2> QED BY ONLY <2>2 DEF CellOf
<1> QED BY <1>1, <1>2 DEF ReleaseKeys

LEMMA OneBaseline ==
  ASSUME NEW groups, DOMAIN groups = ReleaseKeys, NEW cell \in Cells(groups)
  PROVE  Cardinality(KtGroups(groups, cell)) = 1
<1>1. PICK k \in ReleaseKeys : cell = CellOf(k)
  BY DEF Cells
<1>2. PICK w \in Release.workloads, e \in Release.experts : cell = <<w, e>>
  <2>1. PICK p \in ReleaseGrid : cell = p
    BY <1>1, ReleaseKeysBySystem
  <2> QED BY <2>1 DEF ReleaseGrid
<1> DEFINE b == GroupKey(w, e, Kt, "off", "B")
<1>3. b \in KtGroups(groups, cell)
  BY <1>2 DEF KtGroups, ReleaseKeys, CellOf, GroupKey
<1>4. ASSUME NEW x \in KtGroups(groups, cell) PROVE x = b
  <2>1. x \in ReleaseKeys /\ x.policy = Kt /\ CellOf(x) = <<w, e>>
    BY <1>2 DEF KtGroups
  <2>2. PICK u \in Release.workloads, v \in Release.experts :
          x = GroupKey(u, v, Kt, "off", "B")
    BY <2>1 DEF ReleaseKeys, GroupKey
  <2>3. u = w /\ v = e
    BY <2>1, <2>2 DEF CellOf, GroupKey
  <2> QED BY <2>2, <2>3
<1>5. KtGroups(groups, cell) = {b}
  BY <1>3, <1>4
<1> QED BY ONLY <1>5, FS_Singleton

LEMMA VerifiedIsAnswerable ==
  ASSUME VerdictInv, verdict.status = "PASS"
  PROVE  /\ verdict.summary.gate = "PASS"
         /\ DOMAIN verdict.summary.groups = ReleaseKeys
         /\ report = verdict.summary => Answerable
<1>1. /\ verdict.summary.gate = "PASS"
      /\ DOMAIN verdict.summary.groups = ReleaseKeys
  BY VerifiedRowsAreExact DEF VerdictInv
<1>2. ASSUME report = verdict.summary PROVE Answerable
  <2>1. \A cell \in Cells(report.groups) : Cardinality(KtGroups(report.groups, cell)) = 1
    BY <1>1, <1>2, OneBaseline
  <2>2. PICK policy \in Release.policies : policy # Kt
    BY ReleaseAssumption
  <2>3. PICK w \in Release.workloads, e \in Release.experts : TRUE
    BY ReleaseAssumption
  <2>4. GroupKey(w, e, policy, "off", "C") \in ReleaseKeys
    BY <2>2, ReleaseAssumption DEF ReleaseKeys
  <2>5. \E k \in DOMAIN report.groups : k.policy # Kt
    BY <1>1, <1>2, <2>2, <2>4 DEF GroupKey
  <2> QED BY <1>1, <1>2, <2>1, <2>5 DEF Answerable
<1> QED BY <1>1, <1>2

-----------------------------------------------------------------------------
LEMMA ReleaseInvInit == EvidenceInit => ReleaseInv
BY DEF EvidenceInit, ReleaseInv, RowsInv, VerdictInv, HeadlineInv,
       NoReport, NoVerdict, NoHeadline

LEMMA RowsInvStep ==
  ASSUME RowsInv, [EvidenceNext]_evidenceVars
  PROVE  RowsInv'
<1>1. CASE UNCHANGED manifests
  BY <1>1 DEF RowsInv
<1>2. CASE \E name \in Sweeps, manifest \in SweepManifests : SweepWrites(name, manifest)
  <2>1. PICK name \in Sweeps, manifest \in SweepManifests : SweepWrites(name, manifest)
    BY <1>2
  <2>2. manifest.rows \in Seq(SweptRows)
    BY SweptAssumption
  <2> QED BY ONLY RowsInv, <2>1, <2>2 DEF SweepWrites, WithManifest, RowsInv
<1>3. CASE \E list \in MergeLists : Merge(list)
  <2>1. PICK list \in MergeLists : Merge(list)
    BY <1>3
  <2> DEFINE there == {i \in DOMAIN list : list[i] \in DOMAIN manifests}
             rows(i) == IF i \in there THEN manifests[list[i]].rows ELSE <<>>
             ss == [i \in DOMAIN list |-> rows(i)]
             n == Len(list)
  <2>2. n \in Nat /\ DOMAIN list = 1 .. n
    BY SweptAssumption
  <2>3. \A i \in DOMAIN list : rows(i) \in Seq(SweptRows)
    BY DEF RowsInv
  <2>4. ss \in [1 .. n -> Seq(SweptRows)]
    BY <2>2, <2>3
  <2>5. /\ DOMAIN manifests' = DOMAIN manifests \union {"merged"}
        /\ \A name \in DOMAIN manifests' :
             manifests'[name].rows = IF name = "merged" THEN FlattenSeq(ss)
                                     ELSE manifests[name].rows
    BY <2>1 DEF Merge, WithManifest
  <2> HIDE DEF ss, n
  <2>6. FlattenSeq(ss) \in Seq(SweptRows)
    BY ONLY <2>2, <2>4, FlattenIs
  <2> QED BY ONLY RowsInv, <2>5, <2>6 DEF RowsInv
<1> QED BY <1>1, <1>2, <1>3 DEF EvidenceNext, evidenceVars, WriteReport, ReportRaises,
             Verify, VerifyRaises, Headline, HeadlineRaises

\* As many release rows as rows: each is one.
LEMMA CountsMatchIsAll ==
  ASSUME NEW manifest, NEW S, manifest.rows \in Seq(S), CountsMatch(manifest)
  PROVE  \A i \in DOMAIN manifest.rows : ReleaseRow(manifest.rows[i])
<1> DEFINE I == DOMAIN manifest.rows
           R == {i \in I : ReleaseRow(manifest.rows[i])}
           n == Len(manifest.rows)
<1>1. I = 1 .. n /\ n \in Nat /\ R \in SUBSET I
  OBVIOUS
<1>2. n = ReleaseRows /\ Cardinality(R) = ReleaseRows
  BY DEF CountsMatch
<1> HIDE DEF I, R, n
<1>3. IsFiniteSet(1 .. n) /\ Cardinality(1 .. n) = IF 1 > n THEN 0 ELSE n - 1 + 1
  BY ONLY <1>1, FS_Interval
<1>4. IsFiniteSet(I) /\ Cardinality(I) = Cardinality(R)
  BY ONLY <1>1, <1>2, <1>3
<1>5. I = R
  BY ONLY <1>1, <1>4, FS_Subset
<1> QED BY ONLY <1>5 DEF I, R

LEMMA VerdictInvStep ==
  ASSUME RowsInv, VerdictInv, [EvidenceNext]_evidenceVars
  PROVE  VerdictInv'
<1>1. CASE UNCHANGED verdict
  BY <1>1 DEF VerdictInv, Verified
<1>2. CASE \E name \in ManifestNames : Verify(name)
  <2>1. PICK name \in ManifestNames : Verify(name)
    BY <1>2
  <2> DEFINE rows == manifests[name].rows
  <2>2. /\ name \in DOMAIN manifests
        /\ verdict' = [status |-> IF ReportPasses(rows, Release)
                                     /\ CountsMatch(manifests[name]) THEN "PASS" ELSE "FAIL",
                       rows |-> rows, summary |-> report']
        /\ report' = [gate |-> IF ReportPasses(rows, Release) THEN "PASS" ELSE "FAIL",
                      request |-> Release, groups |-> Grouped(rows, Release)]
    BY <2>1 DEF Verify, WriteSummary
  <2>3. rows \in Seq(SweptRows)
    BY <2>2 DEF RowsInv
  <2>4. SUFFICES ASSUME verdict'.status = "PASS"
                 PROVE  /\ Verified(verdict'.rows)
                        /\ verdict'.summary =
                             [gate |-> "PASS", request |-> Release,
                              groups |-> Grouped(verdict'.rows, Release)]
    BY DEF VerdictInv, Verified
  <2>5. ReportPasses(rows, Release) /\ CountsMatch(manifests[name])
    BY ONLY <2>2, <2>4
  <2>6. Len(rows) = ReleaseRows /\ \A i \in DOMAIN rows : ReleaseRow(rows[i])
    <3>1. \A i \in DOMAIN rows : ReleaseRow(rows[i])
      BY ONLY <2>3, <2>5, CountsMatchIsAll
    <3> QED BY ONLY <2>5, <3>1 DEF CountsMatch
  <2>7. Verified(rows)
    BY ONLY <2>3, <2>5, <2>6 DEF Verified
  <2> QED BY ONLY <2>2, <2>5, <2>7
<1>3. CASE \E name \in ManifestNames : VerifyRaises(name)
  BY <1>3 DEF VerifyRaises, VerdictInv, NoVerdict
<1> QED BY <1>1, <1>2, <1>3 DEF EvidenceNext, evidenceVars, SweepWrites, Merge,
             WriteReport, ReportRaises, Headline, HeadlineRaises

LEMMA HeadlineInvStep ==
  ASSUME HeadlineInv, [EvidenceNext]_evidenceVars
  PROVE  HeadlineInv'
<1>1. CASE UNCHANGED headline
  BY <1>1 DEF HeadlineInv
<1>2. CASE Headline
  <2>1. PICK k \in DOMAIN report.groups :
          /\ k.policy # Kt
          /\ headline' = [answered |-> TRUE, best |-> k, of |-> report,
                          baseline |-> CHOOSE b \in KtGroups(report.groups, CellOf(k)) : TRUE]
    BY <1>2 DEF Headline
  <2> DEFINE baselines == KtGroups(report.groups, CellOf(k))
  <2>2. Cardinality(baselines) = 1
    BY <1>2 DEF Headline, Answerable, Cells
  <2>3. baselines # {}
    BY ONLY <2>2, FS_EmptySet
  <2>4. (CHOOSE b \in baselines : TRUE) \in baselines
    BY ONLY <2>3
  <2> QED BY ONLY <2>1, <2>4 DEF HeadlineInv
<1>3. CASE HeadlineRaises
  BY <1>3 DEF HeadlineRaises, HeadlineInv, NoHeadline
<1> QED BY <1>1, <1>2, <1>3 DEF EvidenceNext, evidenceVars, SweepWrites, Merge,
             WriteReport, ReportRaises, Verify, VerifyRaises

LEMMA ReleaseIsInvariant == EvidenceSpec => []ReleaseInv
<1>1. ReleaseInv /\ [EvidenceNext]_evidenceVars => ReleaseInv'
  BY RowsInvStep, VerdictInvStep, HeadlineInvStep DEF ReleaseInv
<1> QED BY <1>1, ReleaseInvInit, PTL DEF EvidenceSpec

\* Evidence that passed the verification is the release grid, as many rows as
\* repeats in every group, every row without a flaw: the report's lower bound
\* for each group and the tool's total leave no room for anything else.
THEOREM VerifiedGridsAreExact == EvidenceSpec => []VerifiedEvidenceIsExact
<1>1. ReleaseInv => VerifiedEvidenceIsExact
  BY VerifiedRowsAreExact DEF ReleaseInv, VerdictInv, VerifiedEvidenceIsExact
<1> QED BY <1>1, ReleaseIsInvariant, PTL

\* A headline can be answered from it, and compares TilePO with KT.
THEOREM VerifiedGridsHaveHeadlines == EvidenceSpec => []VerifiedEvidenceHasHeadline
<1>1. ASSUME ReleaseInv PROVE VerifiedEvidenceHasHeadline
  <2>1. verdict.status = "PASS" /\ report = verdict.summary => Answerable
    BY <1>1, VerifiedIsAnswerable DEF ReleaseInv
  <2>2. ASSUME verdict.status = "PASS", headline.answered, headline.of = verdict.summary
        PROVE  headline.best.system = "C" /\ headline.baseline.system = "B"
    <3>1. DOMAIN headline.of.groups = ReleaseKeys
      BY <1>1, <2>2, VerifiedIsAnswerable DEF ReleaseInv
    <3>2. /\ headline.best \in ReleaseKeys /\ headline.best.policy # Kt
          /\ headline.baseline \in ReleaseKeys /\ headline.baseline.policy = Kt
      BY <1>1, <2>2, <3>1 DEF ReleaseInv, HeadlineInv, KtGroups
    <3> QED BY ONLY <3>2, ReleaseKeysBySystem
  <2> QED BY <2>1, <2>2 DEF VerifiedEvidenceHasHeadline
<1> QED BY <1>1, ReleaseIsInvariant, PTL

=============================================================================
