------------------------------ MODULE Collections ------------------------------
(***************************************************************************)
(* Lemmas about what the models are built from: least numbers, sums over   *)
(* finite sets, which are folds whose recursion is a function on the       *)
(* subsets of the set, and lists that are joined and flattened.            *)
(***************************************************************************)
EXTENDS Integers, SequencesExt, Functions, FiniteSetTheorems, SequenceTheorems, TLAPS

-----------------------------------------------------------------------------
\* A non-empty set of natural numbers has a least element.
NatLess == {ss \in Nat \X Nat : ss[1] < ss[2]}

LEMMA NatIsWellFounded == IsWellFoundedOn(NatLess, Nat)
BY NatLessThanWellFounded DEF OpToRel, NatLess

LEMMA LeastOf ==
  ASSUME NEW S \in SUBSET Nat, S # {}
  PROVE  \E n \in S : \A k \in S : n <= k
<1>1. PICK n \in S : \A k \in S : <<k, n>> \notin NatLess
  BY NatIsWellFounded, WFMin
<1>2. \A k \in S : ~(k < n)
  BY <1>1 DEF NatLess
<1>3. QED
  BY <1>2

\* Induction on a finite set, as the existence of a smallest exception.
LEMMA SmallestException ==
  ASSUME NEW S, IsFiniteSet(S), NEW Bad \in SUBSET SUBSET S, Bad # {}
  PROVE  \E s \in Bad : \A u \in SUBSET s : u # s => u \notin Bad
<1>1. SUBSET S = FiniteSubsetsOf(S)
  BY FS_FiniteSubsetsOfFinite
<1>2. IsWellFoundedOn(StrictSubsetOrdering(S), SUBSET S)
  BY <1>1, FS_StrictSubsetOrderingWellFounded
<1>3. PICK s \in Bad : \A u \in Bad : <<u, s>> \notin StrictSubsetOrdering(S)
  BY <1>2, WFMin
<1>4. \A u \in SUBSET s :
        u # s /\ u \in SUBSET S => <<u, s>> \in StrictSubsetOrdering(S)
  BY DEF StrictSubsetOrdering
<1>5. \A u \in SUBSET s : u # s => u \notin Bad
  BY <1>3, <1>4
<1> QED
  BY <1>5

\* The element a fold takes first, and what is left for later.
Pick(s) == CHOOSE x \in s : TRUE
Rest(s) == s \ {Pick(s)}

\* g is the table of the sums of f over the subsets of S.
IsTotal(g, f, S) ==
  g = [s \in SUBSET S |-> IF s = {} THEN 0 ELSE f[Pick(s)] + g[Rest(s)]]

Totals(f, S) == CHOOSE g : IsTotal(g, f, S)

LEMMA SumDef ==
  ASSUME NEW f
  PROVE SumFunction(f) = Totals(f, DOMAIN f)[DOMAIN f]
BY Zenon
DEF SumFunction, SumFunctionOnSet, FoldFunctionOnSet, MapThenFoldSet, Totals,
    IsTotal, Pick, Rest

LEMMA RestIsLess ==
  ASSUME NEW s
  PROVE  Rest(s) \in SUBSET s /\ (s # {} => Pick(s) \in s /\ Rest(s) # s)
BY DEF Pick, Rest

\* A finite set has one table of totals,
LEMMA TotalUnique ==
  ASSUME NEW S, IsFiniteSet(S), NEW f, NEW g, NEW h,
         IsTotal(g, f, S), IsTotal(h, f, S)
  PROVE  g = h
<1>1. /\ g = [s \in SUBSET S |-> g[s]] /\ h = [s \in SUBSET S |-> h[s]]
      /\ \A s \in SUBSET S :
           /\ g[s] = IF s = {} THEN 0 ELSE f[Pick(s)] + g[Rest(s)]
           /\ h[s] = IF s = {} THEN 0 ELSE f[Pick(s)] + h[Rest(s)]
  BY DEF IsTotal
<1> DEFINE Bad == {s \in SUBSET S : g[s] # h[s]}
<1>0. Bad \in SUBSET SUBSET S
  OBVIOUS
<1>2. ASSUME Bad # {} PROVE FALSE
  <2>1. PICK s \in Bad : \A u \in SUBSET s : u # s => u \notin Bad
    <3> HIDE DEF Bad
    <3> QED
      BY <1>0, <1>2, SmallestException
  <2>2. s # {}
    BY <1>1, <2>1
  <2>4. g[Rest(s)] = h[Rest(s)]
    BY <2>1, <2>2, RestIsLess
  <2> QED
    BY <1>1, <2>1, <2>2, <2>4
<1>3. \A s \in SUBSET S : g[s] = h[s]
  BY <1>2
<1> QED
  BY <1>1, <1>3

\* whose part for a subset is the subset's own,
LEMMA TotalRestricts ==
  ASSUME NEW S, NEW f, NEW g, IsTotal(g, f, S), NEW T \in SUBSET S
  PROVE  IsTotal([s \in SUBSET T |-> g[s]], f, T)
<1> DEFINE h == [s \in SUBSET T |-> g[s]]
<1>1. \A s \in SUBSET S : g[s] = IF s = {} THEN 0 ELSE f[Pick(s)] + g[Rest(s)]
  BY DEF IsTotal
<1>2. \A s \in SUBSET T : h[Rest(s)] = g[Rest(s)]
  BY RestIsLess
<1>3. h = [s \in SUBSET T |-> IF s = {} THEN 0 ELSE f[Pick(s)] + h[Rest(s)]]
  BY <1>1, <1>2
<1> QED
  BY <1>3 DEF IsTotal

\* and it has one: the fold's recursion is well founded.
LEMMA TotalExists ==
  ASSUME NEW S, IsFiniteSet(S), NEW f
  PROVE  \A s \in SUBSET S : IsTotal(Totals(f, s), f, s)
<1> DEFINE Bad == {s \in SUBSET S : ~ IsTotal(Totals(f, s), f, s)}
<1>0. Bad \in SUBSET SUBSET S
  OBVIOUS
<1>1. ASSUME Bad # {} PROVE FALSE
  <2>1. PICK s \in Bad : \A u \in SUBSET s : u # s => u \notin Bad
    <3> HIDE DEF Bad
    <3> QED
      BY <1>0, <1>1, SmallestException
  <2>2. \A u \in SUBSET s : u # s => IsTotal(Totals(f, u), f, u)
    BY <2>1
  <2> DEFINE value(u) ==
               IF u # s THEN Totals(f, u)[u]
               ELSE IF s = {} THEN 0
               ELSE f[Pick(s)] + Totals(f, Rest(s))[Rest(s)]
             g == [u \in SUBSET s |-> value(u)]
  <2>3. ASSUME NEW u \in SUBSET s, u # {}
        PROVE  g[Rest(u)] = Totals(f, Rest(u))[Rest(u)]
    <3>1. Rest(u) \in SUBSET s /\ Rest(u) # s
      BY <2>3, RestIsLess
    <3> QED
      BY <3>1
  <2>4. ASSUME NEW u \in SUBSET s, u # s, u # {}
        PROVE  Totals(f, u)[Rest(u)] = Totals(f, Rest(u))[Rest(u)]
    <3>0. Rest(u) \in SUBSET u /\ Rest(u) \in SUBSET s /\ Rest(u) # s
      BY <2>4, RestIsLess
    <3>a. IsTotal(Totals(f, u), f, u)
      BY <2>2, <2>4
    <3>1. IsTotal([v \in SUBSET Rest(u) |-> Totals(f, u)[v]], f, Rest(u))
      BY <3>0, <3>a, TotalRestricts
    <3>2. IsTotal(Totals(f, Rest(u)), f, Rest(u))
      BY <2>2, <3>0
    <3>3. IsFiniteSet(Rest(u))
      BY <2>1, <3>0, FS_Subset
    <3>4. Totals(f, Rest(u)) = [v \in SUBSET Rest(u) |-> Totals(f, u)[v]]
      BY <3>1, <3>2, <3>3, TotalUnique
    <3> QED
      BY <3>4
  <2>5. \A u \in SUBSET s : g[u] = value(u)
    OBVIOUS
  <2>6. ASSUME NEW u \in SUBSET s
        PROVE  value(u) = IF u = {} THEN 0 ELSE f[Pick(u)] + g[Rest(u)]
    <3>1. CASE u = s
      BY <2>3, <3>1
    <3>2. CASE u # s
      <4>1. Totals(f, u)[u] =
              IF u = {} THEN 0 ELSE f[Pick(u)] + Totals(f, u)[Rest(u)]
        BY <2>2, <3>2 DEF IsTotal
      <4> HIDE DEF g
      <4> QED
        BY <2>3, <2>4, <3>2, <4>1
    <3> QED
      BY <3>1, <3>2
  <2>7. g = [u \in SUBSET s |-> IF u = {} THEN 0 ELSE f[Pick(u)] + g[Rest(u)]]
    <3> HIDE DEF value
    <3>1. g = [u \in SUBSET s |-> value(u)]
      OBVIOUS
    <3> HIDE DEF g
    <3> QED
      BY <2>6, <3>1
  <2>8. IsTotal(g, f, s)
    <3> HIDE DEF g
    <3> QED
      BY <2>7 DEF IsTotal
  <2>9. IsTotal(Totals(f, s), f, s)
    <3> HIDE DEF g
    <3> QED
      BY <2>8 DEF Totals
  <2> QED
    BY <2>1, <2>9
<1> QED
  BY <1>1

LEMMA TotalStep ==
  ASSUME NEW S, IsFiniteSet(S), NEW f
  PROVE  /\ Totals(f, {})[{}] = 0
         /\ S # {} => Totals(f, S)[S] = f[Pick(S)] + Totals(f, Rest(S))[Rest(S)]
<1>1. IsTotal(Totals(f, S), f, S) /\ IsTotal(Totals(f, {}), f, {})
  BY TotalExists
<1>2. Totals(f, {})[{}] = 0
  BY <1>1 DEF IsTotal
<1>3. ASSUME S # {}
      PROVE  Totals(f, S)[S] = f[Pick(S)] + Totals(f, Rest(S))[Rest(S)]
  <2>1. Rest(S) \in SUBSET S
    BY RestIsLess
  <2>2. IsTotal(Totals(f, Rest(S)), f, Rest(S)) /\ IsFiniteSet(Rest(S))
    BY <2>1, TotalExists, FS_Subset
  <2>3. IsTotal([s \in SUBSET Rest(S) |-> Totals(f, S)[s]], f, Rest(S))
    BY <1>1, <2>1, TotalRestricts
  <2>4. Totals(f, Rest(S)) = [s \in SUBSET Rest(S) |-> Totals(f, S)[s]]
    BY <2>2, <2>3, TotalUnique
  <2>5. Totals(f, S)[S] = f[Pick(S)] + Totals(f, S)[Rest(S)]
    BY <1>1, <1>3 DEF IsTotal
  <2> QED
    BY <2>4, <2>5
<1> QED
  BY <1>2, <1>3

LEMMA TotalAgrees ==
  ASSUME NEW S, IsFiniteSet(S), NEW f, NEW h, \A x \in S : f[x] = h[x]
  PROVE  Totals(f, S) = Totals(h, S)
<1>1. IsTotal(Totals(f, S), f, S) /\ IsTotal(Totals(h, S), h, S)
  BY TotalExists
<1> DEFINE g == Totals(f, S)
<1>2. g = [s \in SUBSET S |-> IF s = {} THEN 0 ELSE f[Pick(s)] + g[Rest(s)]]
  BY <1>1 DEF IsTotal
<1>3. \A s \in SUBSET S : s # {} => f[Pick(s)] = h[Pick(s)]
  BY RestIsLess
<1> HIDE DEF g
<1>4. g = [s \in SUBSET S |-> IF s = {} THEN 0 ELSE h[Pick(s)] + g[Rest(s)]]
  BY <1>2, <1>3
<1>5. IsTotal(g, h, S)
  BY <1>4 DEF IsTotal
<1> QED
  BY <1>1, <1>5, TotalUnique DEF g

LEMMA TotalType ==
  ASSUME NEW S, IsFiniteSet(S), NEW f \in [S -> Nat]
  PROVE  \A s \in SUBSET S : Totals(f, s)[s] \in Nat
<1> DEFINE Bad == {s \in SUBSET S : Totals(f, s)[s] \notin Nat}
<1>0. Bad \in SUBSET SUBSET S
  OBVIOUS
<1>1. ASSUME Bad # {} PROVE FALSE
  <2>1. PICK s \in Bad : \A u \in SUBSET s : u # s => u \notin Bad
    <3> HIDE DEF Bad
    <3> QED
      BY <1>0, <1>1, SmallestException
  <2>2. IsFiniteSet(s)
    BY <2>1, FS_Subset
  <2>3. s # {}
    <3>1. Totals(f, {})[{}] = 0
      BY <2>2, TotalStep
    <3>2. Totals(f, s)[s] \notin Nat
      BY <2>1
    <3>3. s = {} => Totals(f, s)[s] = 0
      BY <3>1, Zenon
    <3> QED
      BY <3>2, <3>3
  <2>4. Totals(f, Rest(s))[Rest(s)] \in Nat /\ f[Pick(s)] \in Nat
    BY <2>1, <2>3, RestIsLess
  <2>5. Totals(f, s)[s] = f[Pick(s)] + Totals(f, Rest(s))[Rest(s)]
    BY <2>2, <2>3, TotalStep
  <2> QED
    BY <2>1, <2>4, <2>5
<1> QED
  BY <1>1

\* The order in which a fold takes the elements makes no difference.
LEMMA TotalTakesAny ==
  ASSUME NEW S, IsFiniteSet(S), NEW f \in [S -> Nat]
  PROVE  \A s \in SUBSET S : \A x \in s :
           Totals(f, s)[s] = f[x] + Totals(f, s \ {x})[s \ {x}]
<1> DEFINE T(s) == Totals(f, s)[s]
           Good(s) == \A x \in s : T(s) = f[x] + T(s \ {x})
           Bad == {s \in SUBSET S : ~ Good(s)}
<1>0. Bad \in SUBSET SUBSET S
  OBVIOUS
<1>1. ASSUME Bad # {} PROVE FALSE
  <2>1. PICK s \in Bad : \A u \in SUBSET s : u # s => u \notin Bad
    <3> HIDE DEF Bad
    <3> QED
      BY <1>0, <1>1, SmallestException
  <2>2. s \in SUBSET S /\ IsFiniteSet(s) /\ ~ Good(s)
    BY <2>1, FS_Subset
  <2>3. \A u \in SUBSET s : u # s => Good(u)
    BY <2>1
  <2>4. \A u \in SUBSET S : T(u) \in Nat
    BY TotalType
  <2>5. PICK x \in s : T(s) # f[x] + T(s \ {x})
    BY <2>2
  <2> DEFINE y == Pick(s)
  <2>6. y \in s /\ T(s) = f[y] + T(s \ {y})
    <3>1. s # {} /\ y \in s
      BY <2>5, RestIsLess
    <3> QED
      BY <2>2, <3>1, TotalStep DEF Rest
  <2> HIDE DEF y, T
  <2>7. x # y
    BY <2>5, <2>6
  <2>8. T(s \ {y}) = f[x] + T((s \ {y}) \ {x})
    BY <2>3, <2>5, <2>6, <2>7
  <2>9. T(s \ {x}) = f[y] + T((s \ {x}) \ {y})
    BY <2>3, <2>5, <2>6, <2>7
  <2>10. (s \ {y}) \ {x} = (s \ {x}) \ {y}
    OBVIOUS
  <2>11. f[x] \in Nat /\ f[y] \in Nat /\ T((s \ {x}) \ {y}) \in Nat
    BY <2>2, <2>4, <2>5, <2>6
  <2> QED
    BY <2>5, <2>6, <2>8, <2>9, <2>10, <2>11
<1> QED
  BY <1>1

\* Two sets without a common element are counted one after the other.
LEMMA TotalOfUnion ==
  ASSUME NEW S, IsFiniteSet(S), NEW f \in [S -> Nat],
         NEW A \in SUBSET S, NEW B \in SUBSET S, A \intersect B = {}
  PROVE  /\ Totals(f, A)[A] \in Nat /\ Totals(f, B)[B] \in Nat
         /\ Totals(f, A \union B)[A \union B] = Totals(f, A)[A] + Totals(f, B)[B]
<1> DEFINE T(s) == Totals(f, s)[s]
           Bad == {b \in SUBSET B : T(A \union b) # T(A) + T(b)}
<1>0. Bad \in SUBSET SUBSET B /\ IsFiniteSet(B)
  BY FS_Subset
<1>1. \A s \in SUBSET S : T(s) \in Nat
  BY TotalType
<1>2. T({}) = 0
  BY <1>0, TotalStep
<1>3. \A s \in SUBSET S : \A x \in s : T(s) = f[x] + T(s \ {x})
  <2>1. ASSUME NEW s \in SUBSET S, NEW x \in s PROVE T(s) = f[x] + T(s \ {x})
    BY ONLY TotalTakesAny, IsFiniteSet(S), f \in [S -> Nat], <2>1
  <2> QED BY <2>1
<1> HIDE DEF T
<1>4. ASSUME Bad # {} PROVE FALSE
  <2>1. PICK b \in Bad : \A u \in SUBSET b : u # b => u \notin Bad
    <3> HIDE DEF Bad
    <3> QED BY <1>0, <1>4, SmallestException
  <2>2. b \in SUBSET B /\ T(A \union b) # T(A) + T(b)
    BY <2>1
  <2>3. b # {}
    <3>1. CASE b = {}
      <4>1. A \union b = A
        BY <3>1
      <4>2. T(A \union b) = T(A) /\ T(b) = 0 /\ T(A) \in Nat
        BY <3>1, <4>1, <1>1, <1>2
      <4> QED BY <2>2, <4>2
    <3> QED BY <3>1
  <2>4. PICK x \in b : TRUE
    BY <2>3
  <2>5. T(A \union (b \ {x})) = T(A) + T(b \ {x})
    BY <2>1, <2>2, <2>4
  <2>6. (A \union b) \ {x} = A \union (b \ {x})
    BY <2>2, <2>4
  <2>7. /\ T(A \union b) = f[x] + T(A \union (b \ {x}))
        /\ T(b) = f[x] + T(b \ {x}) /\ f[x] \in Nat
        /\ T(A) \in Nat /\ T(b \ {x}) \in Nat
    <3>1. A \union b \in SUBSET S /\ x \in A \union b /\ b \in SUBSET S /\ b \ {x} \in SUBSET S
      BY <2>2, <2>4
    <3>2. T(A \union b) = f[x] + T((A \union b) \ {x})
      BY <1>3, <3>1
    <3> QED BY <1>1, <1>3, <2>4, <2>6, <3>1, <3>2
  <2> QED BY <2>2, <2>5, <2>7
<1>5. B \in SUBSET B /\ B \notin Bad
  BY <1>4
<1>6. T(A \union B) = T(A) + T(B)
  BY <1>5
<1> QED BY <1>1, <1>6 DEF T

\* What the proofs use of sums: all of it, none of it, one element at a time.
LEMMA SumOfNothing ==
  ASSUME NEW f, DOMAIN f = {} PROVE SumFunction(f) = 0
BY SumDef, TotalStep, FS_EmptySet

LEMMA SumTakesAny ==
  ASSUME NEW S, IsFiniteSet(S), NEW f \in [S -> Nat], NEW x \in S
  PROVE  /\ SumFunction(f) \in Nat
         /\ SumFunction([y \in S \ {x} |-> f[y]]) \in Nat
         /\ SumFunction(f) = f[x] + SumFunction([y \in S \ {x} |-> f[y]])
<1> DEFINE less == [y \in S \ {x} |-> f[y]]
<1>1. SumFunction(f) = Totals(f, S)[S]
  BY SumDef
<1>2. SumFunction(less) = Totals(less, S \ {x})[S \ {x}]
  <2>1. DOMAIN less = S \ {x}
    OBVIOUS
  <2> HIDE DEF less
  <2> QED
    BY <2>1, SumDef
<1>3. Totals(less, S \ {x}) = Totals(f, S \ {x})
  <2>1. IsFiniteSet(S \ {x}) /\ \A y \in S \ {x} : less[y] = f[y]
    BY FS_RemoveElement
  <2> HIDE DEF less
  <2> QED
    BY <2>1, TotalAgrees
<1> QED
  BY <1>1, <1>2, <1>3, TotalType, TotalTakesAny

LEMMA SumOnSetDef ==
  ASSUME NEW f, NEW S
  PROVE SumFunctionOnSet(f, S) = Totals(f, S)[S]
BY Zenon
DEF SumFunctionOnSet, FoldFunctionOnSet, MapThenFoldSet, Totals, IsTotal, Pick, Rest

LEMMA SumOfZeros ==
  ASSUME NEW S, IsFiniteSet(S), NEW f \in [S -> Nat],
         NEW Z \in SUBSET S, \A x \in Z : f[x] = 0
  PROVE  Totals(f, Z)[Z] = 0
<1> DEFINE T(s) == Totals(f, s)[s]
           Bad == {z \in SUBSET Z : T(z) # 0}
<1>1. IsFiniteSet(Z) /\ Bad \in SUBSET SUBSET Z
  BY FS_Subset
<1>2. T({}) = 0
  BY <1>1, TotalStep
<1>3. ASSUME NEW s \in SUBSET S, NEW x \in s PROVE T(s) = f[x] + T(s \ {x})
  BY ONLY TotalTakesAny, IsFiniteSet(S), f \in [S -> Nat], <1>3
<1> HIDE DEF T
<1>4. ASSUME Bad # {} PROVE FALSE
  <2>1. PICK b \in Bad : \A u \in SUBSET b : u # b => u \notin Bad
    <3> HIDE DEF Bad
    <3> QED BY ONLY <1>1, <1>4, SmallestException
  <2>2. b \in SUBSET Z /\ T(b) # 0
    BY <2>1
  <2>3. PICK x \in b : TRUE
    BY <1>2, <2>2
  <2>4. T(b \ {x}) = 0
    BY <2>1, <2>2, <2>3
  <2>5. T(b) = f[x] + T(b \ {x}) /\ f[x] = 0
    BY <1>3, <2>2, <2>3
  <2> QED BY <2>2, <2>4, <2>5
<1> QED BY <1>4 DEF T

\* A sum over a set that has every element that counts is as large.
LEMMA SumOfMore ==
  ASSUME NEW S, IsFiniteSet(S), NEW f \in [S -> Nat],
         NEW A \in SUBSET S, NEW B \in SUBSET S, \A x \in A \ B : f[x] = 0
  PROVE  /\ SumFunctionOnSet(f, A) \in Nat /\ SumFunctionOnSet(f, B) \in Nat
         /\ SumFunctionOnSet(f, A) <= SumFunctionOnSet(f, B)
<1> DEFINE T(s) == Totals(f, s)[s]
           C == A \intersect B
           D == A \ B
           E == B \ A
<1>1. /\ C \in SUBSET S /\ D \in SUBSET S /\ E \in SUBSET S
      /\ C \intersect D = {} /\ C \intersect E = {}
      /\ C \union D = A /\ C \union E = B /\ \A x \in D : f[x] = 0
  OBVIOUS
<1> HIDE DEF C, D, E
<1>2. T(D) = 0
  BY ONLY <1>1, IsFiniteSet(S), f \in [S -> Nat], SumOfZeros
<1>3. T(C) \in Nat /\ T(C \union D) = T(C) + T(D)
  BY ONLY <1>1, IsFiniteSet(S), f \in [S -> Nat], TotalOfUnion
<1>4. T(E) \in Nat /\ T(C \union E) = T(C) + T(E)
  BY ONLY <1>1, IsFiniteSet(S), f \in [S -> Nat], TotalOfUnion
<1>5. SumFunctionOnSet(f, A) = T(A) /\ SumFunctionOnSet(f, B) = T(B)
  BY SumOnSetDef
<1> HIDE DEF T
<1>6. T(A) = T(C) + T(D) /\ T(B) = T(C) + T(E)
  BY ONLY <1>1, <1>3, <1>4
<1> QED BY ONLY <1>2, <1>3, <1>4, <1>5, <1>6

\* The least and the greatest of some numbers.
LEMMA LeastIs ==
  ASSUME NEW S \in SUBSET Nat, S # {}
  PROVE  Min(S) \in S /\ \A x \in S : Min(S) <= x
<1>1. \E x \in S : \A y \in S : x =< y
  BY LeastOf
<1> QED BY <1>1 DEF Min

LEMMA GreatestIs ==
  ASSUME NEW S \in SUBSET Nat, S # {}, IsFiniteSet(S)
  PROVE  Max(S) \in S /\ \A x \in S : Max(S) >= x
<1> DEFINE Bad == {s \in SUBSET S : s # {} /\ ~\E x \in s : \A y \in s : x >= y}
<1>1. ASSUME Bad # {} PROVE FALSE
  <2>1. PICK s \in Bad : \A u \in SUBSET s : u # s => u \notin Bad
    <3>1. Bad \in SUBSET SUBSET S
      OBVIOUS
    <3> HIDE DEF Bad
    <3> QED BY ONLY <1>1, <3>1, IsFiniteSet(S), SmallestException
  <2>2. PICK x \in s : TRUE
    BY <2>1
  <2> DEFINE u == s \ {x}
  <2>3. u \notin Bad /\ u \in SUBSET S /\ s \in SUBSET S
    BY <2>1, <2>2
  <2>4. CASE u = {}
    <3>1. \A y \in s : x >= y
      BY <2>2, <2>3, <2>4
    <3> QED BY <2>1, <2>2, <3>1
  <2>5. CASE u # {}
    <3>1. PICK z \in u : \A y \in u : z >= y
      BY <2>3, <2>5
    <3>2. x \in Nat /\ z \in Nat /\ s \subseteq Nat
      BY <2>2, <2>3, <3>1
    <3>3. \E v \in s : \A y \in s : v >= y
      <4>1. CASE x >= z
        <5>1. \A y \in s : x >= y
          BY <3>1, <3>2, <4>1
        <5> QED BY <2>2, <5>1
      <4>2. CASE z >= x
        <5>1. \A y \in s : z >= y
          BY <3>1, <3>2, <4>2
        <5> QED BY <3>1, <5>1
      <4> QED BY <3>2, <4>1, <4>2
    <3> QED BY <2>1, <3>3
  <2> QED BY <2>4, <2>5
<1>2. \E x \in S : \A y \in S : x >= y
  BY <1>1
<1> QED BY <1>2 DEF Max

-----------------------------------------------------------------------------
\* Two lists one after the other.
LEMMA JoinIs ==
  ASSUME NEW S, NEW a \in Seq(S), NEW b \in Seq(S)
  PROVE  a \o b \in Seq(S) /\ ToSet(a \o b) = ToSet(a) \union ToSet(b)
<1> DEFINE c == a \o b
<1>1. /\ c \in Seq(S) /\ Len(c) = Len(a) + Len(b)
      /\ Len(a) \in Nat /\ Len(b) \in Nat
      /\ DOMAIN a = 1 .. Len(a) /\ DOMAIN b = 1 .. Len(b) /\ DOMAIN c = 1 .. Len(c)
      /\ \A i \in 1 .. Len(a) : c[i] = a[i]
      /\ \A i \in 1 .. Len(b) : c[Len(a) + i] = b[i]
  OBVIOUS
<1> HIDE DEF c
<1>2. \A i \in DOMAIN c : c[i] \in ToSet(a) \union ToSet(b)
  <2> SUFFICES ASSUME NEW i \in 1 .. Len(c) PROVE c[i] \in ToSet(a) \union ToSet(b)
    BY <1>1
  <2>1. CASE i <= Len(a)
    BY <1>1, <2>1 DEF ToSet
  <2>2. CASE i > Len(a)
    <3>1. i - Len(a) \in 1 .. Len(b) /\ Len(a) + (i - Len(a)) = i
      BY <1>1, <2>2
    <3>2. c[i] = b[i - Len(a)]
      BY <1>1, <3>1
    <3>3. QED
      BY <1>1, <3>1, <3>2 DEF ToSet
  <2>3. QED
    BY <1>1, <2>1, <2>2
<1>3. \A i \in DOMAIN a : i \in DOMAIN c /\ c[i] = a[i]
  BY <1>1
<1>4. \A i \in DOMAIN b : Len(a) + i \in DOMAIN c /\ c[Len(a) + i] = b[i]
  BY <1>1
<1>5. ToSet(c) = ToSet(a) \union ToSet(b)
  BY <1>2, <1>3, <1>4 DEF ToSet
<1>6. QED
  BY <1>1, <1>5 DEF c

\* The table FlattenSeq is computed from: the first i lists as one.
IsFlat(g, ss, n) ==
  g = [i \in 1 .. n |-> IF i = 1 THEN ss[i] ELSE g[i - 1] \o ss[i]]

LEMMA FlatExists ==
  ASSUME NEW ss, NEW n \in Nat
  PROVE  \E g : IsFlat(g, ss, n)
<1> DEFINE Bad == {k \in Nat : ~\E g : IsFlat(g, ss, k)}
<1> SUFFICES ASSUME Bad # {} PROVE FALSE
  OBVIOUS
<1>1. PICK k \in Bad : \A j \in Bad : k <= j
  <2>1. Bad \in SUBSET Nat
    OBVIOUS
  <2> HIDE DEF Bad
  <2>2. QED
    BY <2>1, LeastOf
<1>2. k \in Nat /\ ~\E g : IsFlat(g, ss, k)
  BY <1>1
<1>3. k # 0
  <2>1. IsFlat([i \in 1 .. 0 |-> ss], ss, 0)
    BY DEF IsFlat
  <2>2. QED
    BY <1>2, <2>1
<1>4. PICK g : IsFlat(g, ss, k - 1)
  BY <1>1, <1>2, <1>3
<1> DEFINE h == [i \in 1 .. k |-> IF i = 1 THEN ss[i] ELSE g[i - 1] \o ss[i]]
<1>5. \A i \in 1 .. k - 1 : g[i] = IF i = 1 THEN ss[i] ELSE g[i - 1] \o ss[i]
  BY <1>4 DEF IsFlat
<1>6. \A i \in 1 .. k - 1 : h[i] = g[i]
  <2>1. \A i \in 1 .. k : h[i] = IF i = 1 THEN ss[i] ELSE g[i - 1] \o ss[i]
    OBVIOUS
  <2> HIDE DEF h
  <2>2. QED
    BY <1>2, <1>5, <2>1
<1>7. \A i \in 1 .. k : i # 1 => h[i - 1] = g[i - 1]
  <2> HIDE DEF h
  <2>1. QED
    BY <1>2, <1>6
<1>8. h = [i \in 1 .. k |-> IF i = 1 THEN ss[i] ELSE h[i - 1] \o ss[i]]
  <2> DEFINE new == [i \in 1 .. k |-> IF i = 1 THEN ss[i] ELSE h[i - 1] \o ss[i]]
  <2>1. \A i \in 1 .. k : new[i] = IF i = 1 THEN ss[i] ELSE h[i - 1] \o ss[i]
    OBVIOUS
  <2>2. \A i \in 1 .. k : h[i] = IF i = 1 THEN ss[i] ELSE g[i - 1] \o ss[i]
    OBVIOUS
  <2>3. new = [i \in 1 .. k |-> new[i]] /\ h = [i \in 1 .. k |-> h[i]]
    OBVIOUS
  <2> HIDE DEF new, h
  <2>4. \A i \in 1 .. k : new[i] = h[i]
    <3> SUFFICES ASSUME NEW i \in 1 .. k PROVE new[i] = h[i]
      OBVIOUS
    <3>1. CASE i = 1
      BY <2>1, <2>2, <3>1
    <3>2. CASE i # 1
      BY <1>7, <2>1, <2>2, <3>2
    <3>3. QED
      BY <3>1, <3>2
  <2>5. new = h
    BY <2>3, <2>4
  <2>6. QED
    BY <2>5 DEF new
<1> HIDE DEF h
<1>9. IsFlat(h, ss, k)
  BY <1>8 DEF IsFlat
<1>10. QED
  BY <1>2, <1>9

\* A flat list has the elements of its parts.
LEMMA FlattenIs ==
  ASSUME NEW S, NEW n \in Nat, NEW ss \in [1 .. n -> Seq(S)]
  PROVE  /\ FlattenSeq(ss) \in Seq(S)
         /\ ToSet(FlattenSeq(ss)) = UNION {ToSet(ss[i]) : i \in 1 .. n}
<1>1. ss \in Seq(Seq(S)) /\ Len(ss) = n
  OBVIOUS
<1>2. CASE n = 0
  <2>1. FlattenSeq(ss) = ss /\ ss = <<>>
    BY <1>1, <1>2 DEF FlattenSeq
  <2>2. QED
    BY <1>2, <2>1 DEF ToSet
<1>3. CASE n # 0
  <2> DEFINE g == CHOOSE g : IsFlat(g, ss, n)
             Parts(k) == UNION {ToSet(ss[i]) : i \in 1 .. k}
             Good(k) == g[k] \in Seq(S) /\ ToSet(g[k]) = Parts(k)
  <2>1. FlattenSeq(ss) = g[n]
    BY <1>1, <1>3 DEF FlattenSeq, IsFlat
  <2>2. IsFlat(g, ss, n)
    BY FlatExists
  <2> HIDE DEF g
  <2>3. \A i \in 1 .. n : g[i] = IF i = 1 THEN ss[i] ELSE g[i - 1] \o ss[i]
    BY <2>2 DEF IsFlat
  <2> DEFINE Bad == {k \in 1 .. n : ~Good(k)}
  <2>4. Bad = {}
    <3> SUFFICES ASSUME Bad # {} PROVE FALSE
      OBVIOUS
    <3>1. PICK k \in Bad : \A j \in Bad : k <= j
      <4>1. Bad \in SUBSET Nat
        OBVIOUS
      <4> HIDE DEF Bad
      <4>2. QED
        BY <4>1, LeastOf
    <3>2. k \in 1 .. n /\ ~Good(k)
      BY <3>1
    <3>3. CASE k = 1
      <4>1. g[k] = ss[k] /\ ss[k] \in Seq(S) /\ Parts(k) = ToSet(ss[k])
        BY <2>3, <3>2, <3>3
      <4>2. QED
        BY <3>2, <4>1
    <3>4. CASE k # 1
      <4>1. k - 1 \in 1 .. n /\ k - 1 \notin Bad
        <5> HIDE DEF Bad
        <5>1. QED
          BY <3>1, <3>2, <3>4
      <4>2. Good(k - 1) /\ ss[k] \in Seq(S)
        <5> HIDE DEF Good
        <5>1. QED
          BY <3>2, <4>1
      <4>3. g[k] = g[k - 1] \o ss[k]
        BY <2>3, <3>2, <3>4
      <4>4. g[k] \in Seq(S) /\ ToSet(g[k]) = ToSet(g[k - 1]) \union ToSet(ss[k])
        BY <4>2, <4>3, JoinIs
      <4>5. Parts(k) = Parts(k - 1) \union ToSet(ss[k])
        <5>1. \A i : i \in 1 .. k <=> i \in 1 .. k - 1 \/ i = k
          BY <3>2
        <5>2. QED
          BY <5>1
      <4> HIDE DEF Parts
      <4>6. Good(k)
        BY ONLY <4>2, <4>4, <4>5 DEF Good
      <4>7. QED
        BY ONLY <3>2, <4>6
    <3>5. QED
      BY <3>3, <3>4
  <2>5. Good(n)
    <3>1. n \in 1 .. n
      BY <1>3
    <3> HIDE DEF Good
    <3>2. QED
      BY ONLY <2>4, <3>1
  <2>6. QED
    BY ONLY <2>1, <2>5
<1>4. QED
  BY ONLY <1>2, <1>3

=============================================================================
