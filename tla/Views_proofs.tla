---------------------------- MODULE Views_proofs ----------------------------
(***************************************************************************)
(* What two pages show is what they were given: the theorems of Overview   *)
(* and of PriceVolumeChart, and what they need about sums, counts and      *)
(* greatest times. The inductive invariants only type the data and say     *)
(* that samples are in order; the work is in the derivations, by           *)
(* induction on the numbers and the finite sets they run over.             *)
(***************************************************************************)
EXTENDS Overview, PriceVolumeChart, FiniteSetTheorems, WellFoundedInduction, TLAPS

-----------------------------------------------------------------------------
(* Induction, as the least counterexample: what fails for some number      *)
(* fails for a least one.                                                  *)

LEMMA LeastNumber == ASSUME NEW T, T \subseteq Nat, T # {} PROVE \E m \in T : \A n \in T : m <= n
<1> DEFINE R == {ss \in Nat \X Nat : ss[1] < ss[2]}
<1>1. IsWellFoundedOn(R, Nat)
  BY NatLessThanWellFounded DEF OpToRel
<1>2. PICK m \in T : \A y \in T : ~(<<y, m>> \in R)
  <2> HIDE DEF R
  <2> QED BY <1>1, WFMin
<1>3. ASSUME NEW n \in T, ~(m <= n) PROVE FALSE
  <2>1. <<n, m>> \in Nat \X Nat /\ n < m
    BY <1>3
  <2> QED BY <1>2, <2>1
<1> QED BY <1>3

\* And what fails for some subset of a finite set fails for a smallest one.
LEMMA SmallestSubset ==
  ASSUME NEW S, IsFiniteSet(S), NEW T, T \subseteq SUBSET S, T # {}
  PROVE  \E m \in T : \A n \in T : n \subseteq m => n = m
<1> DEFINE R == StrictSubsetOrdering(S)
<1>1. IsWellFoundedOn(R, FiniteSubsetsOf(S)) /\ FiniteSubsetsOf(S) = SUBSET S
  BY FS_StrictSubsetOrderingWellFounded, FS_FiniteSubsetsOfFinite
<1>2. PICK m \in T : \A y \in T : ~(<<y, m>> \in R)
  <2> HIDE DEF R
  <2> QED BY <1>1, WFMin
<1> QED BY <1>2 DEF StrictSubsetOrdering

-----------------------------------------------------------------------------
(* Sums of functions over finite sets.                                     *)

Chosen(s) == CHOOSE x \in s : TRUE

\* What the fold gives a set, if g is what it gives the smaller ones.
Term(f, g, s) == IF s = {} THEN 0 ELSE f[Chosen(s)] + g[s \ {Chosen(s)}]

Folds(f, g, S) == g = [s \in SUBSET S |-> Term(f, g, s)]

LEMMA ChosenRemoved ==
  ASSUME NEW s, IsFiniteSet(s), NEW x \in s
  PROVE  /\ IsFiniteSet(s \ {x}) /\ Cardinality(s \ {x}) \in Nat
         /\ Cardinality(s) \in Nat /\ Cardinality(s) = Cardinality(s \ {x}) + 1
<1>1. Cardinality(s) \in Nat /\ Cardinality(s \ {x}) = Cardinality(s) - 1 /\ IsFiniteSet(s \ {x})
  BY FS_CardinalityType, FS_RemoveElement
<1>2. Cardinality(s \ {x}) \in Nat
  BY <1>1, FS_CardinalityType
<1> QED BY <1>1, <1>2

\* There is such a function: for the empty set alone, and then for sets of one
\* element more.
LEMMA FoldExists == ASSUME NEW f, NEW S, IsFiniteSet(S) PROVE \E g : Folds(f, g, S)
<1> DEFINE Small(n) == {s \in SUBSET S : Cardinality(s) <= n}
           FoldsTo(n) == \E g : g = [s \in Small(n) |-> Term(f, g, s)]
<1>1. \A s \in SUBSET S : IsFiniteSet(s) /\ Cardinality(s) \in Nat
  BY FS_Subset, FS_CardinalityType
<1>2. FoldsTo(0)
  <2>1. \A s \in Small(0) : s = {}
    BY <1>1, FS_EmptySet
  <2>2. [s \in Small(0) |-> 0] = [s \in Small(0) |-> Term(f, [r \in Small(0) |-> 0], s)]
    BY <2>1 DEF Term
  <2> QED BY <2>2
<1>3. ASSUME NEW n \in Nat, FoldsTo(n) PROVE FoldsTo(n + 1)
  <2>1. PICK g : g = [s \in Small(n) |-> Term(f, g, s)]
    BY <1>3
  <2> DEFINE h == [s \in Small(n + 1) |-> Term(f, g, s)]
  <2>2. ASSUME NEW s \in Small(n + 1) PROVE Term(f, g, s) = Term(f, h, s)
    <3>1. CASE s = {}
      BY <3>1 DEF Term
    <3>2. CASE s # {}
      <4> DEFINE r == s \ {Chosen(s)}
      <4>1. Chosen(s) \in s
        BY <3>2 DEF Chosen
      <4>2. r \in Small(n) /\ r \in Small(n + 1)
        BY <1>1, <4>1, ChosenRemoved
      <4>3. h[r] = Term(f, g, r) /\ g[r] = Term(f, g, r)
        <5> HIDE DEF r, Small
        <5> QED BY <2>1, <4>2
      <4> QED BY <3>2, <4>3 DEF Term
    <3> QED BY <3>1, <3>2
  <2>3. h = [s \in Small(n + 1) |-> Term(f, h, s)]
    <3> HIDE DEF Small
    <3> QED BY <2>2
  <2> QED BY <2>3
<1>4. \A n \in Nat : FoldsTo(n)
  <2> SUFFICES ASSUME NEW k \in Nat, ~FoldsTo(k) PROVE FALSE
    OBVIOUS
  <2> HIDE DEF FoldsTo
  <2>1. PICK m \in {n \in Nat : ~FoldsTo(n)} : \A n \in {l \in Nat : ~FoldsTo(l)} : m <= n
    BY LeastNumber
  <2>2. CASE m = 0
    BY <1>2, <2>1, <2>2
  <2>3. CASE m # 0
    <3>1. m - 1 \in Nat /\ FoldsTo(m - 1) /\ m = (m - 1) + 1
      BY <2>1, <2>3
    <3> QED BY <1>3, <2>1, <3>1
  <2> QED BY <2>2, <2>3
<1>5. Small(Cardinality(S)) = SUBSET S
  BY <1>1, FS_Subset
<1>6. FoldsTo(Cardinality(S))
  <2> HIDE DEF FoldsTo
  <2> QED BY <1>1, <1>4
<1> QED BY <1>5, <1>6 DEF Folds

LEMMA FoldAt ==
  ASSUME NEW f, NEW g, NEW S, Folds(f, g, S), NEW s \in SUBSET S
  PROVE  /\ s = {} => g[s] = 0
         /\ s # {} => Chosen(s) \in s /\ g[s] = f[Chosen(s)] + g[s \ {Chosen(s)}]
<1>1. g[s] = Term(f, g, s)
  BY DEF Folds
<1> QED BY <1>1 DEF Term, Chosen

\* Which element is taken first makes no difference.
LEMMA FoldSplits ==
  ASSUME NEW S, IsFiniteSet(S), NEW f, \A x \in S : f[x] \in Int, NEW g, Folds(f, g, S)
  PROVE  \A s \in SUBSET S : g[s] \in Int /\ \A x \in s : g[s] = f[x] + g[s \ {x}]
<1> DEFINE Split(s) == g[s] \in Int /\ \A x \in s : g[s] = f[x] + g[s \ {x}]
<1>1. ASSUME NEW s \in SUBSET S, \A r \in SUBSET s : r # s => Split(r) PROVE Split(s)
  <2>1. CASE s = {}
    <3>1. g[s] = 0
      BY <2>1, FoldAt
    <3> QED BY <2>1, <3>1
  <2>2. CASE s # {}
    <3> DEFINE c == Chosen(s)
    <3>1. c \in s /\ g[s] = f[c] + g[s \ {c}]
      BY <2>2, FoldAt
    <3> HIDE DEF c
    <3>2. Split(s \ {c}) /\ f[c] \in Int
      BY <1>1, <3>1
    <3>3. ASSUME NEW x \in s, x # c PROVE g[s] = f[x] + g[s \ {x}]
      <4>1. g[s \ {c}] = f[x] + g[(s \ {c}) \ {x}]
        BY <3>2, <3>3
      <4>2. Split(s \ {x}) /\ c \in s \ {x}
        BY <1>1, <3>1, <3>3
      <4>3. g[s \ {x}] = f[c] + g[(s \ {x}) \ {c}]
        BY <4>2
      <4>4. (s \ {c}) \ {x} = (s \ {x}) \ {c}
        OBVIOUS
      <4>5. Split((s \ {c}) \ {x}) /\ f[x] \in Int
        BY <1>1, <3>1, <3>3
      <4>6. g[s \ {c}] = f[x] + g[(s \ {x}) \ {c}] /\ g[(s \ {x}) \ {c}] \in Int
        BY <4>1, <4>4, <4>5
      <4> HIDE DEF Split
      <4> QED BY <3>1, <3>2, <4>3, <4>5, <4>6
    <3>4. g[s] \in Int
      BY <3>1, <3>2
    <3> QED BY <3>1, <3>3, <3>4
  <2> QED BY <2>1, <2>2
<1> HIDE DEF Split
<1>2. ASSUME NEW t \in SUBSET S, ~Split(t) PROVE FALSE
  <2> DEFINE Bad == {s \in SUBSET S : ~Split(s)}
  <2>0. t \in Bad /\ Bad \subseteq SUBSET S
    BY <1>2
  <2>1. PICK m \in Bad : \A n \in Bad : n \subseteq m => n = m
    <3> HIDE DEF Bad
    <3> QED BY <2>0, SmallestSubset
  <2>2. \A r \in SUBSET m : r # m => Split(r)
    BY <2>1
  <2> QED BY <1>1, <2>1, <2>2
<1> QED BY <1>2 DEF Split

\* Nor which set it is a part of.
LEMMA FoldsAgree ==
  ASSUME NEW S, IsFiniteSet(S), NEW T \in SUBSET S, NEW f, NEW g, NEW h,
         Folds(f, g, S), Folds(f, h, T)
  PROVE  g[T] = h[T]
<1> DEFINE Differ == {s \in SUBSET T : g[s] # h[s]}
<1>1. ASSUME NEW m \in Differ, \A n \in Differ : n \subseteq m => n = m PROVE FALSE
  <2>1. m # {}
    BY FoldAt
  <2>2. /\ Chosen(m) \in m
        /\ g[m] = f[Chosen(m)] + g[m \ {Chosen(m)}]
        /\ h[m] = f[Chosen(m)] + h[m \ {Chosen(m)}]
    <3>1. m \in SUBSET S /\ m \in SUBSET T
      OBVIOUS
    <3> QED BY <2>1, <3>1, FoldAt
  <2> QED BY <1>1, <2>2
<1>2. Differ = {}
  <2> HIDE DEF Differ
  <2>1. Differ \subseteq SUBSET S
    BY DEF Differ
  <2> QED BY <1>1, <2>1, SmallestSubset
<1> QED BY <1>2

LEMMA SumIsFold ==
  ASSUME NEW f, NEW S, IsFiniteSet(S)
  PROVE  \E g : Folds(f, g, S) /\ SumFunctionOnSet(f, S) = g[S]
<1> DEFINE g == CHOOSE h : h = [s \in SUBSET S |->
                  IF s = {} THEN 0 ELSE f[CHOOSE x \in s : TRUE] + h[s \ {CHOOSE x \in s : TRUE}]]
<1>1. SumFunctionOnSet(f, S) = g[S]
  BY DEF SumFunctionOnSet, FoldFunctionOnSet, MapThenFoldSet
<1>2. \E h : h = [s \in SUBSET S |->
             IF s = {} THEN 0 ELSE f[CHOOSE x \in s : TRUE] + h[s \ {CHOOSE x \in s : TRUE}]]
  <2>1. PICK h : Folds(f, h, S)
    BY FoldExists
  <2> WITNESS h
  <2> QED BY <2>1 DEF Folds, Term, Chosen
<1>3. Folds(f, g, S)
  BY <1>2 DEF Folds, Term, Chosen
<1> QED BY <1>1, <1>3

\* The sum over a finite set, one element apart.
LEMMA SumSplits ==
  ASSUME NEW S, IsFiniteSet(S), NEW f, \A x \in S : f[x] \in Int
  PROVE  /\ SumFunctionOnSet(f, S) \in Int
         /\ S = {} => SumFunctionOnSet(f, S) = 0
         /\ \A x \in S : SumFunctionOnSet(f, S) = f[x] + SumFunctionOnSet(f, S \ {x})
<1>1. PICK g : Folds(f, g, S) /\ SumFunctionOnSet(f, S) = g[S]
  BY SumIsFold
<1>2. ASSUME NEW x \in S PROVE SumFunctionOnSet(f, S \ {x}) = g[S \ {x}]
  <2>1. IsFiniteSet(S \ {x})
    BY FS_RemoveElement
  <2>2. PICK h : Folds(f, h, S \ {x}) /\ SumFunctionOnSet(f, S \ {x}) = h[S \ {x}]
    BY <2>1, SumIsFold
  <2> QED BY <1>1, <2>2, FoldsAgree
<1>3. S \in SUBSET S /\ (S = {} => g[S] = 0)
  BY <1>1, FoldAt
<1>4. g[S] \in Int /\ \A x \in S : g[S] = f[x] + g[S \ {x}]
  BY <1>1, <1>3, FoldSplits
<1> QED BY <1>1, <1>2, <1>3, <1>4

\* The sum of a subset is an integer, and takes one element of it away.
LEMMA PartSplits ==
  ASSUME NEW S, IsFiniteSet(S), NEW f, \A x \in S : f[x] \in Int, NEW s \in SUBSET S
  PROVE  /\ IsFiniteSet(s) /\ SumFunctionOnSet(f, s) \in Int
         /\ s = {} => SumFunctionOnSet(f, s) = 0
         /\ \A x \in s : SumFunctionOnSet(f, s) = f[x] + SumFunctionOnSet(f, s \ {x})
<1>1. IsFiniteSet(s)
  BY FS_Subset
<1> QED BY <1>1, SumSplits

\* Functions that agree on a set have the same sum over it.
LEMMA SumsAgree ==
  ASSUME NEW S, IsFiniteSet(S), NEW f, NEW g, \A x \in S : f[x] \in Int /\ g[x] = f[x]
  PROVE  SumFunctionOnSet(g, S) = SumFunctionOnSet(f, S)
<1> DEFINE Differ == {s \in SUBSET S : SumFunctionOnSet(g, s) # SumFunctionOnSet(f, s)}
<1>1. ASSUME NEW m \in Differ, \A n \in Differ : n \subseteq m => n = m PROVE FALSE
  <2>0. m \in SUBSET S /\ \A x \in S : f[x] \in Int /\ g[x] \in Int
    OBVIOUS
  <2>1. m # {}
    <3>1. m = {} => SumFunctionOnSet(f, m) = 0
      BY <2>0, PartSplits
    <3>2. m = {} => SumFunctionOnSet(g, m) = 0
      BY <2>0, PartSplits
    <3> QED BY <3>1, <3>2
  <2>2. PICK x \in m : TRUE
    BY <2>1
  <2>3. m \ {x} \notin Differ
    BY <1>1
  <2>4. SumFunctionOnSet(g, m \ {x}) = SumFunctionOnSet(f, m \ {x})
    BY <2>3
  <2>5. SumFunctionOnSet(f, m) = f[x] + SumFunctionOnSet(f, m \ {x})
    BY <2>0, PartSplits
  <2>6. SumFunctionOnSet(g, m) = g[x] + SumFunctionOnSet(g, m \ {x})
    BY <2>0, PartSplits
  <2> QED BY <2>4, <2>5, <2>6
<1>2. Differ = {}
  <2> HIDE DEF Differ
  <2>1. Differ \subseteq SUBSET S
    BY DEF Differ
  <2> QED BY <1>1, <2>1, SmallestSubset
<1> QED BY <1>2

\* The sum over two disjoint sets.
LEMMA SumOfBoth ==
  ASSUME NEW S, NEW T, IsFiniteSet(S), IsFiniteSet(T), S \cap T = {},
         NEW f, \A x \in S \cup T : f[x] \in Int
  PROVE  SumFunctionOnSet(f, S \cup T) = SumFunctionOnSet(f, S) + SumFunctionOnSet(f, T)
<1> DEFINE Differ == {s \in SUBSET T :
                        SumFunctionOnSet(f, S \cup s) # SumFunctionOnSet(f, S) + SumFunctionOnSet(f, s)}
<1>0. \A s \in SUBSET (S \cup T) :
        \A x \in s : SumFunctionOnSet(f, s) = f[x] + SumFunctionOnSet(f, s \ {x})
  <2> DEFINE U == S \cup T
  <2>1. IsFiniteSet(U) /\ \A x \in U : f[x] \in Int
    BY FS_Union
  <2> HIDE DEF U
  <2>2. ASSUME NEW s \in SUBSET U, NEW x \in s
        PROVE  SumFunctionOnSet(f, s) = f[x] + SumFunctionOnSet(f, s \ {x})
    BY <2>1, PartSplits
  <2> QED BY <2>2 DEF U
<1>1. ASSUME NEW m \in Differ, \A n \in Differ : n \subseteq m => n = m PROVE FALSE
  <2>1. SumFunctionOnSet(f, S) \in Int
    BY SumSplits
  <2>2. CASE m = {}
    <3>1. SumFunctionOnSet(f, m) = 0
      BY <2>2, PartSplits
    <3>2. SumFunctionOnSet(f, S \cup m) = SumFunctionOnSet(f, S)
      <4>1. S \cup m = S
        BY <2>2
      <4> QED BY <4>1
    <3> QED BY <2>1, <3>1, <3>2
  <2>3. CASE m # {}
    <3>1. PICK x \in m : TRUE
      BY <2>3
    <3>2. m \ {x} \notin Differ
      BY <1>1
    <3>3. SumFunctionOnSet(f, S \cup (m \ {x})) = SumFunctionOnSet(f, S) + SumFunctionOnSet(f, m \ {x})
      BY <3>2
    <3>4. S \cup (m \ {x}) = (S \cup m) \ {x} /\ S \cup m \in SUBSET (S \cup T) /\ x \in S \cup m
          /\ m \ {x} \in SUBSET T
      BY <3>1
    <3>5. SumFunctionOnSet(f, S \cup m) = f[x] + SumFunctionOnSet(f, (S \cup m) \ {x})
      BY <1>0, <3>4
    <3>6. SumFunctionOnSet(f, m) = f[x] + SumFunctionOnSet(f, m \ {x})
      BY PartSplits
    <3>7. f[x] \in Int /\ SumFunctionOnSet(f, m \ {x}) \in Int
      BY <3>4, PartSplits
    <3>8. SumFunctionOnSet(f, S \cup m) = f[x] + SumFunctionOnSet(f, S \cup (m \ {x}))
      BY <3>4, <3>5
    <3>9. SumFunctionOnSet(f, S \cup m) = SumFunctionOnSet(f, S) + SumFunctionOnSet(f, m)
      BY <2>1, <3>3, <3>6, <3>7, <3>8
    <3> QED BY <3>9
  <2> QED BY <2>2, <2>3
<1>2. Differ = {}
  <2> HIDE DEF Differ
  <2>1. Differ \subseteq SUBSET T
    BY DEF Differ
  <2> QED BY <1>1, <2>1, SmallestSubset
<1> QED BY <1>2

\* Where a function is zero it adds nothing.
LEMMA SumOfRest ==
  ASSUME NEW S, IsFiniteSet(S), NEW T \in SUBSET S,
         NEW f, \A x \in S : f[x] \in Int, \A x \in S \ T : f[x] = 0
  PROVE  SumFunctionOnSet(f, S) = SumFunctionOnSet(f, T)
<1>1. IsFiniteSet(T) /\ IsFiniteSet(S \ T)
  BY FS_Subset
<1>2. SumFunctionOnSet(f, S \ T) = 0
  <2> DEFINE Bad == {s \in SUBSET (S \ T) : SumFunctionOnSet(f, s) # 0}
  <2>1. ASSUME NEW m \in Bad, \A n \in Bad : n \subseteq m => n = m PROVE FALSE
    <3>0. m \in SUBSET S
      OBVIOUS
    <3>1. m # {} /\ \A x \in m : SumFunctionOnSet(f, m) = f[x] + SumFunctionOnSet(f, m \ {x})
      BY <3>0, PartSplits
    <3>2. PICK x \in m : TRUE
      BY <3>1
    <3>3. m \ {x} \notin Bad
      BY <2>1
    <3>4. SumFunctionOnSet(f, m \ {x}) = 0 /\ f[x] = 0
      BY <3>3
    <3> QED BY <3>1, <3>4
  <2>2. Bad = {}
    <3> HIDE DEF Bad
    <3>1. Bad \subseteq SUBSET (S \ T)
      BY DEF Bad
    <3> QED BY <1>1, <2>1, <3>1, SmallestSubset
  <2> QED BY <2>2
<1>3. SumFunctionOnSet(f, T \cup (S \ T)) = SumFunctionOnSet(f, T) + SumFunctionOnSet(f, S \ T)
  BY <1>1, SumOfBoth
<1>4. SumFunctionOnSet(f, T) \in Int
  BY PartSplits
<1>5. T \cup (S \ T) = S
  OBVIOUS
<1>6. SumFunctionOnSet(f, S) = SumFunctionOnSet(f, T) + SumFunctionOnSet(f, S \ T)
  BY <1>3, <1>5, Zenon
<1> QED BY <1>2, <1>4, <1>6

\* What grows step by step has grown by the sum of its steps.
LEMMA Telescope ==
  ASSUME NEW c, NEW v, NEW a \in Nat, NEW b \in Nat, 1 < a, a <= b,
         \A k \in (a - 1)..b : c[k] \in Int,
         \A k \in a..b : v[k] = c[k] - c[k - 1]
  PROVE  SumFunctionOnSet(v, a..b) = c[b] - c[a - 1]
<1> DEFINE Sum(n) == SumFunctionOnSet(v, a..n)
           Grown(n) == Sum(n) = c[n] - c[a - 1]
<1>1. ASSUME NEW n \in Nat, a <= n, n <= b
      PROVE  Sum(n) \in Int /\ Sum(n) = v[n] + Sum(n - 1) /\ v[n] = c[n] - c[n - 1]
  <2>1. IsFiniteSet(a..n)
    BY <1>1, FS_Interval
  <2>2. \A k \in a..n : v[k] \in Int
    <3>1. ASSUME NEW k \in a..n PROVE v[k] \in Int
      <4>1. k \in a..b /\ k \in (a - 1)..b /\ k - 1 \in (a - 1)..b
        BY <1>1
      <4> QED BY <4>1
    <3> QED BY <3>1
  <2>3. n \in a..n /\ n \in a..b /\ (a..n) \ {n} = a..(n - 1)
    BY <1>1
  <2>4. /\ SumFunctionOnSet(v, a..n) \in Int
        /\ \A k \in a..n :
             SumFunctionOnSet(v, a..n) = v[k] + SumFunctionOnSet(v, (a..n) \ {k})
    BY <2>1, <2>2, SumSplits
  <2>5. SumFunctionOnSet(v, a..n) = v[n] + SumFunctionOnSet(v, a..(n - 1))
    BY <2>3, <2>4
  <2> QED BY <2>3, <2>4, <2>5
<1>2. Grown(a)
  <2>1. a..(a - 1) = {} /\ IsFiniteSet({})
    BY FS_EmptySet
  <2>2. Sum(a - 1) = 0
    BY <2>1, SumSplits
  <2>3. c[a] \in Int /\ c[a - 1] \in Int
    OBVIOUS
  <2> HIDE DEF Sum
  <2> QED BY <1>1, <2>2, <2>3
<1>3. ASSUME NEW n \in Nat, a < n, n <= b, Grown(n - 1) PROVE Grown(n)
  <2>1. c[n] \in Int /\ c[n - 1] \in Int /\ c[a - 1] \in Int
    BY <1>3
  <2> HIDE DEF Sum
  <2> QED BY <1>1, <1>3, <2>1
<1> HIDE DEF Grown
<1>4. ASSUME ~Grown(b) PROVE FALSE
  <2> DEFINE Bad == {n \in Nat : a <= n /\ n <= b /\ ~Grown(n)}
  <2>1. b \in Bad
    BY <1>4
  <2>2. PICK m \in Bad : \A n \in Bad : m <= n
    <3> HIDE DEF Bad
    <3>1. Bad \subseteq Nat
      BY DEF Bad
    <3> QED BY <2>1, <3>1, LeastNumber
  <2>3. a < m
    BY <1>2, <2>2
  <2>4. m - 1 \in Nat /\ Grown(m - 1)
    BY <2>2, <2>3
  <2> QED BY <1>3, <2>2, <2>3, <2>4
<1> QED BY <1>4 DEF Grown

-----------------------------------------------------------------------------
(* The price chart.                                                        *)

Samples == [t: SampleTime, volume: Volume]

\* The samples are in order; a drag is between two of their times, and a window
\* is not empty.
ChartInv ==
  /\ points \in Seq(Samples)
  /\ \A i, j \in DOMAIN points : i < j => points[i].t < points[j].t
  /\ drag = Nowhere \/ drag \in SampleTime \X SampleTime
  /\ picked = Nowhere \/ (picked \in SampleTime \X SampleTime /\ picked[1] < picked[2])

\* What a bar is: its sample, and how much its volume grew.
LEMMA BarIs ==
  ASSUME ChartInv
  PROVE  /\ DOMAIN points = 1..Len(points) /\ Len(points) \in Nat
         /\ DOMAIN VisibleBars = InWindow /\ InWindow \subseteq DOMAIN points
         /\ \A i \in DOMAIN points :
              /\ points[i].t \in SampleTime /\ points[i].t \in Nat
              /\ points[i].volume \in Nat
         /\ \A i \in InWindow :
              /\ Inside(points[i].t)
              /\ VisibleBars[i].t = points[i].t
              /\ 1 < i => i - 1 \in DOMAIN points
              /\ 1 < i /\ points[i - 1].volume <= points[i].volume
                 => VisibleBars[i].volume = points[i].volume - points[i - 1].volume
<1>1. DOMAIN points = 1..Len(points) /\ Len(points) \in Nat
  BY DEF ChartInv
<1>2. \A i \in DOMAIN points : points[i] \in Samples
  BY <1>1 DEF ChartInv
<1>3. \A i \in DOMAIN points :
        /\ points[i].t \in SampleTime /\ points[i].t \in Nat
        /\ points[i].volume \in Nat
  BY <1>2, ChartAssumption DEF Samples
<1>4. DOMAIN VisibleBars = InWindow /\ InWindow \subseteq DOMAIN points
  BY DEF VisibleBars, Restrict, InWindow
<1>5. ASSUME NEW i \in InWindow
      PROVE  /\ Inside(points[i].t)
             /\ VisibleBars[i].t = points[i].t
             /\ 1 < i => i - 1 \in DOMAIN points
             /\ 1 < i /\ points[i - 1].volume <= points[i].volume
                => VisibleBars[i].volume = points[i].volume - points[i - 1].volume
  <2>1. i \in DOMAIN points /\ VisibleBars[i] = BarsAt(DOMAIN points)[i] /\ Inside(points[i].t)
    BY DEF VisibleBars, Restrict, InWindow
  <2>2. 1 < i => i - 1 \in DOMAIN points
    BY <1>1, <2>1
  <2>3. 1 < i /\ points[i - 1].volume <= points[i].volume => ~(points[i].volume < points[i - 1].volume)
    BY <1>3, <2>1, <2>2
  <2> QED BY <2>1, <2>2, <2>3 DEF BarsAt
<1> QED BY <1>1, <1>3, <1>4, <1>5

LEMMA VolumeKept == ASSUME ChartInv PROVE ZoomKeepsVolume
<1> DEFINE volumes == [i \in DOMAIN VisibleBars |-> VisibleBars[i].volume]
           cumulative == [k \in DOMAIN points |-> points[k].volume]
<1>1. ASSUME NEW a \in DOMAIN VisibleBars, NEW b \in DOMAIN VisibleBars, 1 < a, a <= b,
             \A k \in a..b : points[k - 1].volume <= points[k].volume
      PROVE  points[b].volume - points[a - 1].volume = SumFunctionOnSet(volumes, a..b)
  <2>1. /\ a \in InWindow /\ b \in InWindow /\ a \in DOMAIN points /\ b \in DOMAIN points
        /\ a \in Nat /\ b \in Nat
    BY BarIs
  <2>2. \A k \in (a - 1)..b : k \in DOMAIN points /\ points[k].volume \in Nat
    BY <1>1, <2>1, BarIs
  <2>3. ASSUME NEW k \in a..b PROVE k \in InWindow
    <3>1. k \in DOMAIN points /\ k \in Nat
      BY <2>1, <2>2
    <3>2. points[a].t <= points[k].t /\ points[k].t <= points[b].t
      <4>1. (a < k \/ a = k) /\ (k < b \/ k = b)
        BY <2>1, <3>1
      <4>2. /\ a < k => points[a].t < points[k].t
            /\ k < b => points[k].t < points[b].t
        BY <2>1, <3>1 DEF ChartInv
      <4>3. points[a].t \in Nat /\ points[b].t \in Nat /\ points[k].t \in Nat
        BY <2>1, <3>1, BarIs
      <4> QED BY <4>1, <4>2, <4>3
    <3>3. Inside(points[a].t) /\ Inside(points[b].t)
      BY <2>1, BarIs
    <3>4. points[a].t \in Nat /\ points[b].t \in Nat /\ points[k].t \in Nat
      BY <2>1, <3>1, BarIs
    <3>5. picked = Nowhere \/ (picked[1] \in Nat /\ picked[2] \in Nat)
      BY ChartAssumption DEF ChartInv
    <3>6. Inside(points[k].t)
      BY <3>2, <3>3, <3>4, <3>5 DEF Inside
    <3> QED BY <3>1, <3>6 DEF InWindow
  <2>4. ASSUME NEW k \in a..b PROVE volumes[k] = cumulative[k] - cumulative[k - 1]
    <3>1. 1 < k /\ k \in InWindow /\ k - 1 \in (a - 1)..b /\ k \in (a - 1)..b
      BY <1>1, <2>1, <2>3
    <3>2. VisibleBars[k].volume = points[k].volume - points[k - 1].volume
      BY <1>1, <3>1, BarIs
    <3>3. k \in DOMAIN VisibleBars /\ k \in DOMAIN points /\ k - 1 \in DOMAIN points
      BY <2>2, <3>1, BarIs
    <3> QED BY <3>2, <3>3
  <2>5. \A k \in (a - 1)..b : cumulative[k] \in Int
    BY <2>2
  <2>6. a - 1 \in DOMAIN points
    BY <1>1, <2>1, <2>2
  <2> HIDE DEF volumes
  <2>7. SumFunctionOnSet(volumes, a..b) = cumulative[b] - cumulative[a - 1]
    <3> HIDE DEF cumulative
    <3> QED BY <1>1, <2>1, <2>4, <2>5, Telescope
  <2> QED BY <2>1, <2>6, <2>7
<1> QED BY <1>1 DEF ZoomKeepsVolume

LEMMA LabelsAre ==
  ASSUME ChartInv
  PROVE  /\ Labels \subseteq Nat
         /\ \A t \in Labels : Inside(t) /\ \E i \in InWindow : points[i].t = t
         /\ \A i \in InWindow : points[i].t \in Labels
         /\ Labels # {} => /\ Min(Labels) \in Labels /\ Max(Labels) \in Labels
                           /\ \A t \in Labels : Min(Labels) <= t /\ t <= Max(Labels)
<1>1. /\ Labels \subseteq Nat
      /\ \A t \in Labels : Inside(t) /\ \E i \in InWindow : points[i].t = t
      /\ \A i \in InWindow : points[i].t \in Labels
  BY BarIs DEF Labels
<1>2. ASSUME Labels # {} PROVE Min(Labels) \in Labels /\ \A t \in Labels : Min(Labels) <= t
  <2>1. \E m \in Labels : \A n \in Labels : m <= n
    BY <1>1, <1>2, LeastNumber
  <2> QED BY <2>1 DEF Min
<1>3. ASSUME Labels # {} PROVE Max(Labels) \in Labels /\ \A t \in Labels : t <= Max(Labels)
  <2> DEFINE Backwards == {Len(points) - i : i \in InWindow}
  <2>1. InWindow # {} /\ \A i \in InWindow : i \in 1..Len(points)
    BY <1>1, <1>3, BarIs
  <2>2. Backwards \subseteq Nat /\ Backwards # {}
    BY <2>1, BarIs
  <2>3. PICK m \in Backwards : \A n \in Backwards : m <= n
    <3> HIDE DEF Backwards
    <3> QED BY <2>2, LeastNumber
  <2>4. PICK l \in InWindow : m = Len(points) - l
    BY <2>3
  <2>5. ASSUME NEW i \in InWindow PROVE i <= l
    <3>1. Len(points) - i \in Backwards
      OBVIOUS
    <3>2. Len(points) - l <= Len(points) - i
      BY <2>3, <2>4, <3>1
    <3>3. i \in Nat /\ l \in Nat /\ Len(points) \in Nat
      BY <2>1, BarIs
    <3> QED BY <3>2, <3>3
  <2>6. ASSUME NEW i \in InWindow PROVE points[i].t <= points[l].t
    <3>1. i <= l /\ i \in DOMAIN points /\ l \in DOMAIN points /\ i \in Nat /\ l \in Nat
      BY <2>1, <2>4, <2>5, BarIs
    <3> QED BY <3>1, BarIs DEF ChartInv
  <2>7. \E g \in Labels : \A t \in Labels : t <= g
    BY <1>1, <2>4, <2>6
  <2> QED BY <2>7 DEF Max
<1> QED BY <1>1, <1>2, <1>3

\* There is a nearest bar, and it is the first of those.
LEMMA NearestIs ==
  ASSUME ChartInv, NEW t \in Nat, InWindow # {}
  PROVE  LET n == Nearest(VisibleBars, t)
         IN  /\ n \in InWindow
             /\ \A j \in InWindow :
                  /\ Distance(points[n].t, t) <= Distance(points[j].t, t)
                  /\ j < n => Distance(points[n].t, t) < Distance(points[j].t, t)
<1> DEFINE far(i) == Distance(VisibleBars[i].t, t)
           Best == {i \in DOMAIN VisibleBars : \A j \in DOMAIN VisibleBars : far(i) <= far(j)}
<1>1. \A i \in InWindow : far(i) = Distance(points[i].t, t) /\ far(i) \in Nat /\ i \in Nat
  BY BarIs DEF Distance
<1>2. DOMAIN VisibleBars = InWindow
  BY BarIs
<1>3. Best # {}
  <2> DEFINE Distances == {far(i) : i \in InWindow}
  <2>1. Distances \subseteq Nat /\ Distances # {}
    BY <1>1
  <2>2. PICK d \in Distances : \A e \in Distances : d <= e
    <3> HIDE DEF Distances
    <3> QED BY <2>1, LeastNumber
  <2>3. PICK i \in InWindow : d = far(i)
    BY <2>2
  <2>4. \A j \in InWindow : far(j) \in Distances
    OBVIOUS
  <2>5. i \in Best
    BY <1>2, <2>2, <2>3, <2>4
  <2> QED BY <2>5
<1>4. Best \subseteq Nat
  BY <1>1, <1>2
<1>5. Nearest(VisibleBars, t) = Min(Best)
  BY DEF Nearest
<1>6. Min(Best) \in Best /\ \A j \in Best : Min(Best) <= j
  <2> HIDE DEF Best
  <2>1. \E m \in Best : \A n \in Best : m <= n
    BY <1>3, <1>4, LeastNumber
  <2> QED BY <2>1 DEF Min
<1> DEFINE n == Nearest(VisibleBars, t)
<1>7. n \in InWindow /\ \A j \in InWindow : far(n) <= far(j)
  BY <1>2, <1>5, <1>6
<1>8. ASSUME NEW j \in InWindow, j < n PROVE far(n) < far(j)
  <2>1. j \notin Best
    <3>1. j \in Nat /\ n \in Nat /\ j < n
      BY <1>1, <1>7, <1>8
    <3>2. \A i \in Best : n <= i
      BY <1>5, <1>6
    <3> HIDE DEF Best, n
    <3> QED BY <3>1, <3>2
  <2>2. PICK k \in InWindow : ~(far(j) <= far(k))
    BY <1>2, <2>1
  <2> HIDE DEF far, n
  <2> QED BY <1>1, <1>7, <2>2
<1> QED BY <1>1, <1>7, <1>8

\* The nearest bar of a later time is no earlier one.
LEMMA NearestAscends ==
  ASSUME ChartInv, InWindow # {}, NEW t \in Nat, NEW u \in Nat, t < u
  PROVE  points[Nearest(VisibleBars, t)].t <= points[Nearest(VisibleBars, u)].t
<1> DEFINE n == Nearest(VisibleBars, t)
           m == Nearest(VisibleBars, u)
<1>1. n \in InWindow /\ m \in InWindow
  BY NearestIs
<1>2. /\ n \in DOMAIN points /\ m \in DOMAIN points /\ n \in Nat /\ m \in Nat
      /\ points[n].t \in Nat /\ points[m].t \in Nat
  BY <1>1, BarIs
<1>3. m < n => points[m].t < points[n].t
  BY <1>2 DEF ChartInv
<1>4. n < m => points[n].t < points[m].t
  BY <1>2 DEF ChartInv
<1>5. /\ m < n => Distance(points[n].t, t) < Distance(points[m].t, t)
      /\ Distance(points[m].t, u) <= Distance(points[n].t, u)
  BY <1>1, NearestIs
<1> HIDE DEF n, m
<1>6. ~(m < n)
  BY <1>2, <1>3, <1>5 DEF Distance
<1>7. n < m \/ n = m
  BY <1>2, <1>6
<1>8. points[n].t <= points[m].t
  BY <1>2, <1>4, <1>7
<1> QED BY <1>8 DEF n, m

LEMMA MarkersKept == ASSUME ChartInv PROVE MarkersInPlace
<1> DEFINE inView(m) == picked = Nowhere \/ (Min(Labels) <= m.t /\ m.t <= Max(Labels))
           at(m) == VisibleBars[Nearest(VisibleBars, m.t)].t
<1>1. \A m \in Markers : m.t \in Nat
  BY ChartAssumption DEF Markers
<1>2. \A d \in DrawnMarkers :
        /\ Labels # {} /\ d.marker \in Markers /\ inView(d.marker)
        /\ d.buy = IsBuy(d.marker) /\ d.at = at(d.marker)
  BY DEF DrawnMarkers
<1>3. ASSUME NEW m \in Markers, Labels # {}, inView(m) PROVE \E d \in DrawnMarkers : d.marker = m
  <2>1. [marker |-> m, buy |-> IsBuy(m), at |-> at(m)] \in DrawnMarkers
    BY <1>3 DEF DrawnMarkers
  <2> QED BY <2>1
<1>4. Labels # {} => InWindow # {}
  BY LabelsAre
<1>5. ASSUME NEW m \in Markers, InWindow # {}
      PROVE  /\ at(m) = points[Nearest(VisibleBars, m.t)].t /\ at(m) \in Labels
             /\ \A t \in Labels : Distance(at(m), m.t) <= Distance(t, m.t)
  <2>1. /\ Nearest(VisibleBars, m.t) \in InWindow
        /\ \A j \in InWindow : Distance(points[Nearest(VisibleBars, m.t)].t, m.t)
                              <= Distance(points[j].t, m.t)
    BY <1>1, <1>5, NearestIs
  <2>2. at(m) = points[Nearest(VisibleBars, m.t)].t
    BY <2>1, BarIs
  <2> QED BY <2>1, <2>2, LabelsAre
<1> HIDE DEF inView, at
<1>6. ASSUME NEW m \in Markers, NEW t \in Labels, NEW u \in Labels, t <= m.t, m.t <= u
      PROVE  \E d \in DrawnMarkers : d.marker = m
  <2>1. /\ t \in Nat /\ u \in Nat /\ m.t \in Nat /\ Min(Labels) \in Nat /\ Max(Labels) \in Nat
        /\ Min(Labels) <= t /\ u <= Max(Labels)
    BY <1>1, LabelsAre
  <2>2. inView(m)
    BY <1>6, <2>1 DEF inView
  <2> QED BY <1>3, <2>2
<1>7. ASSUME NEW d \in DrawnMarkers, picked # Nowhere PROVE Inside(d.marker.t)
  <2>1. Min(Labels) <= d.marker.t /\ d.marker.t <= Max(Labels) /\ d.marker.t \in Nat
    BY <1>1, <1>2, <1>7 DEF inView
  <2>2. /\ Inside(Min(Labels)) /\ Inside(Max(Labels))
        /\ Min(Labels) \in Nat /\ Max(Labels) \in Nat
    BY <1>2, LabelsAre
  <2>3. picked[1] \in Nat /\ picked[2] \in Nat
    BY <1>7, ChartAssumption DEF ChartInv
  <2> QED BY <1>7, <2>1, <2>2, <2>3 DEF Inside
<1>8. ASSUME NEW c \in ClosedTrade, NEW d \in DrawnMarkers, NEW e \in DrawnMarkers,
             d.marker = [t |-> c.opened, dir |-> c.dir, act |-> "open"],
             e.marker = [t |-> c.closed, dir |-> c.dir, act |-> "close"]
      PROVE  d.buy # e.buy /\ d.at <= e.at
  <2>1. d.buy # e.buy
    BY <1>2, <1>8 DEF IsBuy
  <2>2. c.opened \in Nat /\ c.closed \in Nat /\ c.opened < c.closed
    BY ChartAssumption
  <2>3. /\ d.at = points[Nearest(VisibleBars, c.opened)].t
        /\ e.at = points[Nearest(VisibleBars, c.closed)].t
    BY <1>2, <1>4, <1>5, <1>8
  <2> QED BY <1>2, <1>4, <2>1, <2>2, <2>3, NearestAscends
<1> QED
  <2>1. \A d \in DrawnMarkers :
          d.at \in Labels /\ \A t \in Labels : Distance(d.at, d.marker.t) <= Distance(t, d.marker.t)
    BY <1>2, <1>4, <1>5
  <2> QED BY <1>6, <1>7, <1>8, <2>1 DEF MarkersInPlace

LEMMA ChartInvHolds == ChartSpec => []ChartInv
<1>1. ChartInit => ChartInv
  BY DEF ChartInit, ChartInv, Nowhere
<1>2. ChartInv /\ [ChartNext]_chartVars => ChartInv'
  <2> SUFFICES ASSUME ChartInv, [ChartNext]_chartVars PROVE ChartInv'
    OBVIOUS
  <2>0. Labels \subseteq SampleTime
    BY BarIs DEF Labels
  <2>1. CASE NewSample
    <3>1. PICK t \in SampleTime, v \in Volume :
            /\ \A i \in DOMAIN points : points[i].t < t
            /\ points' = Append(points, [t |-> t, volume |-> v])
      BY <2>1 DEF NewSample
    <3>2. [t |-> t, volume |-> v] \in Samples
      BY DEF Samples
    <3>3. \A i, j \in DOMAIN points' : i < j => points'[i].t < points'[j].t
      BY <3>1, <3>2, BarIs DEF ChartInv
    <3> QED BY <2>1, <3>1, <3>2, <3>3 DEF NewSample, ChartInv
  <2>2. CASE OldestGone
    <3>1. points # <<>> /\ points' = Tail(points)
      BY <2>2 DEF OldestGone
    <3>2. points' \in Seq(Samples)
      BY <3>1 DEF ChartInv
    <3>3. /\ DOMAIN points' = 1..(Len(points) - 1)
          /\ \A i \in DOMAIN points' : points'[i] = points[i + 1]
      BY <3>1, BarIs DEF ChartInv
    <3>4. ASSUME NEW i \in DOMAIN points', NEW j \in DOMAIN points', i < j
          PROVE  points'[i].t < points'[j].t
      <4>1. i + 1 \in DOMAIN points /\ j + 1 \in DOMAIN points /\ i + 1 < j + 1
        BY <3>3, <3>4, BarIs
      <4>2. points[i + 1].t < points[j + 1].t
        BY <4>1 DEF ChartInv
      <4> QED BY <3>3, <4>2
    <3> QED BY <2>2, <3>2, <3>4 DEF OldestGone, ChartInv
  <2>3. ASSUME NEW t \in SampleTime, MouseDown(t) \/ MouseMove(t) PROVE ChartInv'
    BY <2>3 DEF MouseDown, MouseMove, ChartInv, Nowhere
  <2>4. CASE FinishDrag
    <3>1. drag \in SampleTime \X SampleTime /\ drag[1] \in Nat /\ drag[2] \in Nat
      BY <2>4, ChartAssumption DEF FinishDrag, ChartInv
    <3> QED BY <2>4, <3>1 DEF FinishDrag, ChartInv
  <2>5. CASE MouseLeave \/ ClearSelection
    BY <2>5 DEF MouseLeave, ClearSelection, ChartInv
  <2>6. ASSUME NEW p \in DOMAIN Period, ChangePeriod(p) PROVE ChartInv'
    BY <2>6 DEF ChangePeriod, ChartInv
  <2>7. CASE UNCHANGED chartVars
    BY <2>7 DEF chartVars, ChartInv
  <2> QED BY <2>1, <2>2, <2>3, <2>4, <2>5, <2>6, <2>7 DEF ChartNext
<1> QED BY <1>1, <1>2, PTL DEF ChartSpec

\* The chart shows what there is (PriceVolumeChart.tsx): zooming loses no volume,
\* every entry and exit in the window is drawn on the sample nearest to it, and
\* no drag leaves an empty window, for any samples, periods and trades.
THEOREM ChartShowsWhatIs == ChartSpec => []ChartFaithful
<1>1. ChartInv => ChartFaithful
  <2>1. ChartInv => (picked # Nowhere => picked[1] < picked[2])
    BY DEF ChartInv
  <2> QED BY <2>1, VolumeKept, MarkersKept DEF ChartFaithful
<1> QED BY <1>1, ChartInvHolds, PTL

-----------------------------------------------------------------------------
(* The overview's lists, which grow a row at a time or vanish.             *)

BookInv ==
  /\ listed \subseteq Account /\ IsFiniteSet(listed)
  /\ DOMAIN positions \subseteq Account /\ IsFiniteSet(DOMAIN positions)
  /\ \A s \in DOMAIN positions :
       positions[s].dir \in {"long", "short"} /\ positions[s].entry \in Price
  /\ \A y \in DOMAIN marks : marks[y] \in Price

Outcomes == {[dir |-> Null, act |-> Null], [dir |-> <<"long">>, act |-> <<"opened">>],
             [dir |-> <<"flat">>, act |-> <<"no_op">>]}

Decisions == {[t |-> t, sym |-> y, dir |-> o.dir, act |-> o.act] :
                t \in Moment, y \in Symbols, o \in Outcomes}

FlowInv == log \in Seq(Decisions) /\ paid \in Seq(Moment)

\* A market's samples are in order, and there is a time after all of them.
PriceInv ==
  /\ samples \in [Symbols -> Seq([t: Instant, price: Price])]
  /\ \A y \in Symbols : \A i, j \in DOMAIN samples[y] : i < j => samples[y][i].t <= samples[y][j].t
  /\ \E n \in Nat : \A y \in Symbols : \A i \in DOMAIN samples[y] : samples[y][i].t <= n

OverviewInv == BookInv /\ FlowInv /\ PriceInv

LEMMA SampleTyped ==
  ASSUME PriceInv, NEW y \in Symbols
  PROVE  /\ Len(samples[y]) \in Nat /\ DOMAIN samples[y] = 1..Len(samples[y])
         /\ \A i \in DOMAIN samples[y] :
              i \in Nat /\ samples[y][i].t \in Instant /\ samples[y][i].t \in Nat
              /\ samples[y][i].price \in Price
<1>1. samples[y] \in Seq([t: Instant, price: Price])
  BY DEF PriceInv
<1>2. Len(samples[y]) \in Nat /\ DOMAIN samples[y] = 1..Len(samples[y])
  BY <1>1
<1>3. \A i \in DOMAIN samples[y] : i \in Nat /\ samples[y][i] \in [t: Instant, price: Price]
  <2> DEFINE R == [t: Instant, price: Price]
  <2>1. samples[y] \in Seq(R)
    BY <1>1
  <2> HIDE DEF R
  <2>2. \A i \in 1..Len(samples[y]) : samples[y][i] \in R
    BY <2>1
  <2> QED BY <1>2, <2>2 DEF R
<1> QED BY <1>2, <1>3, OverviewAssumption

LEMMA OverviewInvHolds == OverviewSpec => []OverviewInv
<1>1. OverviewInit => OverviewInv
  BY FS_EmptySet DEF OverviewInit, OverviewInv, BookInv, FlowInv, PriceInv, Empty
<1>2. OverviewInv /\ [OverviewNext]_overviewVars => OverviewInv'
  <2> SUFFICES ASSUME OverviewInv, [OverviewNext]_overviewVars PROVE OverviewInv'
    OBVIOUS
  <2> USE DEF OverviewInv
  <2>1. CASE List
    <3>1. listed' \subseteq Account /\ IsFiniteSet(listed')
      <4>1. CASE listed' = {}
        BY <4>1, FS_EmptySet
      <4>2. ASSUME NEW s \in Account, listed' = listed \cup {s}
            PROVE  listed' \subseteq Account /\ IsFiniteSet(listed')
        BY <4>2, FS_AddElement DEF BookInv
      <4> QED BY <2>1, <4>1, <4>2 DEF List
    <3>2. BookInv'
      BY <2>1, <3>1 DEF List, BookInv
    <3> QED BY <2>1, <3>2 DEF List, FlowInv, PriceInv
  <2>2. CASE Hold
    <3>1. CASE positions' = Empty
      BY <2>2, <3>1, FS_EmptySet DEF Hold, BookInv, Empty, FlowInv, PriceInv
    <3>2. ASSUME NEW s \in Account, NEW d \in {"long", "short"}, NEW p \in Price,
                 positions' = With(positions, s, [dir |-> d, entry |-> p])
          PROVE  BookInv'
      <4>1. DOMAIN positions' = DOMAIN positions \cup {s} /\ IsFiniteSet(DOMAIN positions')
        BY <3>2, FS_AddElement DEF With, BookInv
      <4> QED BY <2>2, <3>2, <4>1 DEF Hold, BookInv, With
    <3> QED BY <2>2, <3>1, <3>2 DEF Hold, FlowInv, PriceInv
  <2>3. CASE Mark
    <3>1. BookInv'
      BY <2>3 DEF Mark, BookInv, Empty, With
    <3> QED BY <2>3, <3>1 DEF Mark, FlowInv, PriceInv
  <2>4. CASE Decide
    <3>1. \E d \in Decisions : log' = Append(log, d)
      BY <2>4 DEF Decide, Decisions, Outcomes
    <3>2. FlowInv'
      BY <2>4, <3>1 DEF Decide, FlowInv
    <3> QED BY <2>4, <3>2 DEF Decide, BookInv, PriceInv
  <2>5. CASE Pay
    <3>1. FlowInv'
      BY <2>5 DEF Pay, FlowInv
    <3> QED BY <2>5, <3>1 DEF Pay, BookInv, PriceInv
  <2>6. CASE Sample
    <3>1. PICK y \in Symbols, t \in Instant, p \in Price :
            /\ \A i \in DOMAIN samples[y] : samples[y][i].t <= t
            /\ samples' = [samples EXCEPT ![y] = Append(@, [t |-> t, price |-> p])]
      BY <2>6 DEF Sample
    <3>2. PICK n \in Nat : \A z \in Symbols : \A i \in DOMAIN samples[z] : samples[z][i].t <= n
      BY DEF PriceInv
    <3>3. t \in Nat /\ \A z \in Symbols : \A i \in DOMAIN samples[z] : samples[z][i].t \in Nat
      BY SampleTyped, OverviewAssumption DEF PriceInv
    <3>4. samples' \in [Symbols -> Seq([t: Instant, price: Price])]
      <4>1. samples[y] \in Seq([t: Instant, price: Price]) /\ [t |-> t, price |-> p] \in [t: Instant, price: Price]
        BY DEF PriceInv
      <4>2. Append(samples[y], [t |-> t, price |-> p]) \in Seq([t: Instant, price: Price])
        BY <4>1
      <4> QED BY <3>1, <4>2 DEF PriceInv
    <3>5. \A z \in Symbols : z # y => samples'[z] = samples[z]
      BY <3>1 DEF PriceInv
    <3>6. /\ samples[y] \in Seq([t: Instant, price: Price])
          /\ samples'[y] = Append(samples[y], [t |-> t, price |-> p])
      BY <3>1 DEF PriceInv
    <3>7. /\ DOMAIN samples'[y] = DOMAIN samples[y] \cup {Len(samples[y]) + 1}
          /\ \A i \in DOMAIN samples[y] :
               samples'[y][i] = samples[y][i] /\ i \in Nat /\ i < Len(samples[y]) + 1
          /\ samples'[y][Len(samples[y]) + 1].t = t
      BY <3>6
    <3>8. \A z \in Symbols : \A i, j \in DOMAIN samples'[z] :
            i < j => samples'[z][i].t <= samples'[z][j].t
      <4>1. ASSUME NEW i \in DOMAIN samples'[y], NEW j \in DOMAIN samples'[y], i < j
            PROVE  samples'[y][i].t <= samples'[y][j].t
        <5>1. Len(samples[y]) \in Nat
          BY <3>6
        <5>2. i \in DOMAIN samples[y]
          BY <3>7, <4>1, <5>1
        <5> QED BY <3>1, <3>7, <4>1, <5>2 DEF PriceInv
      <4>2. ASSUME NEW z \in Symbols, z # y, NEW i \in DOMAIN samples'[z], NEW j \in DOMAIN samples'[z],
                   i < j
            PROVE  samples'[z][i].t <= samples'[z][j].t
        BY <3>5, <4>2 DEF PriceInv
      <4> QED BY <4>1, <4>2
    <3>9. \E m \in Nat : \A z \in Symbols : \A i \in DOMAIN samples'[z] : samples'[z][i].t <= m
      <4>1. n + t \in Nat
        BY <3>3
      <4>2. \A z \in Symbols : \A i \in DOMAIN samples'[z] : samples'[z][i].t <= n + t
        BY <3>2, <3>3, <3>5, <3>7
      <4> QED BY <4>1, <4>2
    <3>10. PriceInv'
      BY <3>4, <3>8, <3>9 DEF PriceInv
    <3> QED BY <2>6, <3>10 DEF Sample, BookInv, FlowInv
  <2>7. CASE UNCHANGED overviewVars
    BY <2>7 DEF overviewVars, BookInv, FlowInv, PriceInv
  <2> QED BY <2>1, <2>2, <2>3, <2>4, <2>5, <2>6, <2>7 DEF OverviewNext
<1> QED BY <1>1, <1>2, PTL DEF OverviewSpec

-----------------------------------------------------------------------------
(* The portfolio, the positions and the sessions.                          *)

LEMMA PnlTyped ==
  ASSUME BookInv
  PROVE  /\ Priced \in SUBSET DOMAIN positions /\ IsFiniteSet(Priced)
         /\ DOMAIN Pnl = Priced /\ \A s \in Priced : Pnl[s] \in Int
<1>1. Priced \in SUBSET DOMAIN positions /\ IsFiniteSet(Priced)
  BY FS_Subset DEF BookInv, Priced
<1>2. ASSUME NEW s \in Priced PROVE Pnl[s] \in Int
  <2>1. positions[s].entry \in Nat \ {0} /\ marks[SymbolOf[s]] \in Nat
    BY OverviewAssumption DEF BookInv, Priced
  <2> DEFINE gain == Notional * (marks[SymbolOf[s]] - positions[s].entry)
  <2>2. gain \in Int
    BY <2>1, OverviewAssumption
  <2>3. gain \div positions[s].entry \in Int
    <3> HIDE DEF gain
    <3> QED BY <2>1, <2>2
  <2>4. Pnl[s] = (gain \div positions[s].entry) * (IF positions[s].dir = "long" THEN 1 ELSE -1)
    BY DEF Pnl, UnrealizedPnl
  <2> HIDE DEF gain
  <2>5. (IF positions[s].dir = "long" THEN 1 ELSE -1) \in Int
    OBVIOUS
  <2> QED BY <2>3, <2>4, <2>5
<1> QED BY <1>1, <1>2 DEF Pnl

\* What a session or a position without a price adds to a sum is nothing.
LEMMA SumOfValues ==
  ASSUME BookInv, NEW S, IsFiniteSet(S),
         NEW f, DOMAIN f = S,
         \A s \in S : f[s] = Value(IF s \in Priced THEN <<Pnl[s]>> ELSE Null)
  PROVE  SumFunction(f) = SumFunctionOnSet(Pnl, S \cap Priced)
<1>1. \A s \in S : f[s] = IF s \in Priced THEN Pnl[s] ELSE 0
  BY DEF Value, Null
<1>2. \A s \in S : f[s] \in Int
  BY <1>1, PnlTyped
<1>3. SumFunctionOnSet(f, S) = SumFunctionOnSet(f, S \cap Priced)
  <2>1. S \cap Priced \in SUBSET S /\ \A s \in S \ (S \cap Priced) : f[s] = 0
    BY <1>1
  <2> QED BY <1>2, <2>1, SumOfRest
<1>4. SumFunctionOnSet(f, S \cap Priced) = SumFunctionOnSet(Pnl, S \cap Priced)
  <2>1. IsFiniteSet(S \cap Priced) /\ \A s \in S \cap Priced : Pnl[s] \in Int /\ f[s] = Pnl[s]
    BY <1>1, PnlTyped, FS_Intersection
  <2> QED BY <2>1, SumsAgree
<1> QED BY <1>3, <1>4 DEF SumFunction

LEMMA TilesKept == ASSUME BookInv PROVE TilesAgree
<1> DEFINE rows == BuildPositionRows
           inTable == SumFunction([s \in DOMAIN rows |-> Value(rows[s].pnl)])
           ofSessions == SumFunction([s \in listed |-> Value(BuildSessionRows[s].pnl)])
           orphans == Priced \ listed
           Held == DOMAIN positions
<1>1. DOMAIN rows = Held
  BY DEF BuildPositionRows
<1>2. inTable = SumFunctionOnSet(Pnl, Priced)
  <2> DEFINE f == [s \in DOMAIN rows |-> Value(rows[s].pnl)]
  <2>1. DOMAIN f = Held /\ IsFiniteSet(Held)
    BY <1>1 DEF BookInv
  <2>2. \A s \in Held : f[s] = Value(IF s \in Priced THEN <<Pnl[s]>> ELSE Null)
    BY <1>1 DEF BuildPositionRows
  <2>3. Held \cap Priced = Priced
    BY PnlTyped
  <2>4. SumFunction(f) = SumFunctionOnSet(Pnl, Held \cap Priced)
    <3> HIDE DEF f
    <3> QED BY <2>1, <2>2, SumOfValues
  <2> QED BY <2>3, <2>4
<1>3. ofSessions = SumFunctionOnSet(Pnl, listed \cap Priced)
  <2> DEFINE f == [s \in listed |-> Value(BuildSessionRows[s].pnl)]
  <2>1. DOMAIN f = listed /\ IsFiniteSet(listed)
    BY DEF BookInv
  <2>2. \A s \in listed : f[s] = Value(IF s \in Priced THEN <<Pnl[s]>> ELSE Null)
    BY DEF BuildSessionRows
  <2> HIDE DEF f
  <2>3. SumFunction(f) = SumFunctionOnSet(Pnl, listed \cap Priced)
    BY <2>1, <2>2, SumOfValues
  <2> QED BY <2>3 DEF f
<1>4. SumFunction(Restrict(Pnl, orphans)) = SumFunctionOnSet(Pnl, orphans)
  <2> DEFINE f == Restrict(Pnl, orphans)
  <2>1. DOMAIN f = orphans /\ \A s \in orphans : f[s] = Pnl[s] /\ Pnl[s] \in Int
    BY PnlTyped DEF Restrict
  <2>2. IsFiniteSet(orphans)
    BY PnlTyped, FS_Subset
  <2> HIDE DEF f, orphans
  <2>3. SumFunctionOnSet(f, orphans) = SumFunctionOnSet(Pnl, orphans)
    BY <2>1, <2>2, SumsAgree
  <2> QED BY <2>1, <2>3 DEF SumFunction, f
<1>5. SumFunctionOnSet(Pnl, Priced)
        = SumFunctionOnSet(Pnl, listed \cap Priced) + SumFunctionOnSet(Pnl, orphans)
  <2>1. /\ IsFiniteSet(listed \cap Priced) /\ IsFiniteSet(orphans)
        /\ (listed \cap Priced) \cap orphans = {}
        /\ \A s \in (listed \cap Priced) \cup orphans : Pnl[s] \in Int
    BY PnlTyped, FS_Subset
  <2>2. (listed \cap Priced) \cup orphans = Priced
    OBVIOUS
  <2>3. SumFunctionOnSet(Pnl, (listed \cap Priced) \cup orphans)
          = SumFunctionOnSet(Pnl, listed \cap Priced) + SumFunctionOnSet(Pnl, orphans)
    <3> HIDE DEF orphans
    <3> QED BY <2>1, SumOfBoth
  <2> QED BY <2>2, <2>3
<1>6. SummarisePortfolio.unrealized = SumFunctionOnSet(Pnl, Priced)
  BY PnlTyped DEF SummarisePortfolio, SumFunction
<1>7. SummarisePortfolio.deployed =
        SumFunction([s \in DOMAIN rows |-> IF rows[s].margin = Null THEN Notional ELSE rows[s].margin[1]])
  <2>1. ASSUME NEW s \in Held
        PROVE  Margin(s) = IF rows[s].margin = Null THEN Notional ELSE rows[s].margin[1]
    <3>1. rows[s].margin = IF s \in listed THEN <<Margin(s)>> ELSE Null
      BY DEF BuildPositionRows
    <3>2. s \notin listed => Margin(s) = Notional
      BY OverviewAssumption DEF Margin
    <3> QED BY <3>1, <3>2 DEF Null
  <2>2. [s \in Held |-> Margin(s)]
          = [s \in DOMAIN rows |-> IF rows[s].margin = Null THEN Notional ELSE rows[s].margin[1]]
    BY <1>1, <2>1
  <2> QED BY <2>2 DEF SummarisePortfolio
<1>8. SummarisePortfolio.long + SummarisePortfolio.short = Sized(Held)
  <2>1. /\ IsFiniteSet(Going("long")) /\ IsFiniteSet(Going("short"))
        /\ Going("long") \cap Going("short") = {} /\ Going("long") \cup Going("short") = Held
    BY FS_Subset DEF BookInv, Going
  <2>2. /\ Cardinality(Held) = Cardinality(Going("long")) + Cardinality(Going("short"))
        /\ Cardinality(Going("long")) \in Nat /\ Cardinality(Going("short")) \in Nat
    <3>1. Cardinality(Going("long")) \in Nat /\ Cardinality(Going("short")) \in Nat
      BY <2>1, FS_CardinalityType
    <3>2. Cardinality(Going("long") \cup Going("short"))
            = Cardinality(Going("long")) + Cardinality(Going("short"))
              - Cardinality(Going("long") \cap Going("short"))
      BY <2>1, FS_Union
    <3>3. Cardinality(Going("long") \cap Going("short")) = 0
      BY <2>1, FS_EmptySet
    <3> QED BY <2>1, <3>1, <3>2, <3>3
  <2>3. \A a, b \in Nat : Notional * a + Notional * b = Notional * (a + b)
    BY OverviewAssumption
  <2> QED BY <2>2, <2>3 DEF SummarisePortfolio, Sized
<1> QED BY <1>2, <1>3, <1>4, <1>5, <1>6, <1>7, <1>8 DEF TilesAgree

-----------------------------------------------------------------------------
(* The decision and order charts.                                          *)

\* Sets of counts and times are finite, since what they are taken from is.
LEMMA FiniteImage ==
  ASSUME NEW S, IsFiniteSet(S), NEW f
  PROVE  IsFiniteSet({f[x] : x \in S})
<1> DEFINE T == {f[x] : x \in S}
           g == [x \in S |-> f[x]]
<1>1. g \in Surjection(S, T)
  BY DEF Surjection
<1> HIDE DEF g, T
<1>2. IsFiniteSet(T)
  BY <1>1, FS_Surjection
<1> QED BY <1>2 DEF T

LEMMA MinAndMax ==
  ASSUME NEW T, T \subseteq Nat, T # {}, IsFiniteSet(T)
  PROVE  /\ Min(T) \in T /\ \A n \in T : Min(T) <= n
         /\ Max(T) \in T /\ \A n \in T : n <= Max(T)
<1>1. \E m \in T : \A n \in T : m <= n
  BY LeastNumber
<1>2. Min(T) \in T /\ \A n \in T : Min(T) <= n
  BY <1>1 DEF Min
<1> DEFINE Topless == {s \in SUBSET T : s # {} /\ \A m \in s : \E n \in s : ~(n <= m)}
<1>3. ASSUME NEW s \in Topless, \A r \in Topless : r \subseteq s => r = s PROVE FALSE
  <2>1. PICK x \in s : TRUE
    OBVIOUS
  <2>2. PICK y \in s : ~(y <= x)
    OBVIOUS
  <2>3. s \ {x} \notin Topless /\ y \in s \ {x} /\ s \ {x} \in SUBSET T
    <3>1. x \in Nat /\ y \in Nat /\ y # x
      BY <2>2
    <3>2. s \ {x} \subseteq s /\ s \ {x} # s
      BY <2>1
    <3>3. s \ {x} \notin Topless
      <4> HIDE DEF Topless
      <4> QED BY <1>3, <3>2
    <3> QED BY <3>1, <3>3
  <2>4. PICK m \in s \ {x} : \A n \in s \ {x} : n <= m
    BY <2>3
  <2>5. m \in Nat /\ y \in Nat /\ x \in Nat /\ y <= m
    BY <2>3, <2>4
  <2>6. \A n \in s : n <= m
    BY <2>2, <2>4, <2>5
  <2> QED BY <2>4, <2>6
<1>4. Topless = {}
  <2> DEFINE U == T
  <2>1. Topless \subseteq SUBSET U /\ IsFiniteSet(U)
    OBVIOUS
  <2> HIDE DEF Topless, U
  <2>2. Topless # {} => \E s \in Topless : \A r \in Topless : r \subseteq s => r = s
    BY <2>1, SmallestSubset
  <2> QED BY <1>3, <2>2
<1>5. \E m \in T : \A n \in T : n <= m
  BY <1>4
<1>6. Max(T) \in T /\ \A n \in T : n <= Max(T)
  BY <1>5 DEF Max
<1> QED BY <1>2, <1>6

\* The counts of some places add up to how many items are at one of them.
LEMMA CountsAddUp ==
  ASSUME NEW I, IsFiniteSet(I), NEW place, NEW P, IsFiniteSet(P)
  PROVE  SumFunction([p \in P |-> Cardinality({i \in I : place[i] = p})])
           = Cardinality({i \in I : place[i] \in P})
<1> DEFINE At(s) == {i \in I : place[i] \in s}
           f == [p \in P |-> Cardinality({i \in I : place[i] = p})]
           Wrong == {s \in SUBSET P : SumFunctionOnSet(f, s) # Cardinality(At(s))}
<1>1. \A s \in SUBSET P : IsFiniteSet(At(s)) /\ Cardinality(At(s)) \in Nat
  BY FS_Subset, FS_CardinalityType
<1>2. ASSUME NEW p \in P
      PROVE  f[p] = Cardinality(At({p})) /\ f[p] \in Nat /\ IsFiniteSet(At({p}))
  <2>1. {i \in I : place[i] = p} = At({p}) /\ {p} \in SUBSET P
    OBVIOUS
  <2>2. f[p] = Cardinality({i \in I : place[i] = p})
    OBVIOUS
  <2> QED BY <1>1, <2>1, <2>2
<1>3. ASSUME NEW m \in Wrong, \A n \in Wrong : n \subseteq m => n = m PROVE FALSE
  <2>0. m \in SUBSET P /\ \A p \in P : f[p] \in Int
    BY <1>2
  <2>1. CASE m = {}
    <3>1. SumFunctionOnSet(f, m) = 0
      <4> HIDE DEF f
      <4> QED BY <2>0, <2>1, PartSplits
    <3>2. At(m) = {}
      BY <2>1
    <3> QED BY <3>1, <3>2, FS_EmptySet
  <2>2. CASE m # {}
    <3>1. PICK p \in m : TRUE
      BY <2>2
    <3>2. m \ {p} \notin Wrong /\ m \ {p} \in SUBSET P /\ p \in P
      BY <1>3, <2>0, <3>1
    <3>3. SumFunctionOnSet(f, m \ {p}) = Cardinality(At(m \ {p}))
      BY <3>2
    <3>4. SumFunctionOnSet(f, m) = f[p] + SumFunctionOnSet(f, m \ {p})
      <4> HIDE DEF f
      <4> QED BY <2>0, <3>1, PartSplits
    <3>5. At(m) = At({p}) \cup At(m \ {p}) /\ At({p}) \cap At(m \ {p}) = {}
      BY <3>1
    <3>6. IsFiniteSet(At({p})) /\ IsFiniteSet(At(m \ {p}))
      BY <1>1, <1>2, <3>2
    <3>7. Cardinality(At({p}) \cup At(m \ {p}))
            = Cardinality(At({p})) + Cardinality(At(m \ {p})) - Cardinality(At({p}) \cap At(m \ {p}))
      <4> HIDE DEF At
      <4> QED BY <3>6, FS_Union
    <3>8. Cardinality(At({p}) \cap At(m \ {p})) = 0
      BY <3>5, FS_EmptySet
    <3>9. Cardinality(At(m \ {p})) \in Nat /\ f[p] = Cardinality(At({p})) /\ f[p] \in Nat
      BY <1>1, <1>2, <3>2
    <3>10. Cardinality(At(m)) = Cardinality(At({p})) + Cardinality(At(m \ {p}))
      <4>1. Cardinality(At(m)) = Cardinality(At({p}) \cup At(m \ {p}))
        BY <3>5
      <4> HIDE DEF At, f
      <4> QED BY <4>1, <3>7, <3>8, <3>9
    <3>11. SumFunctionOnSet(f, m) = Cardinality(At(m))
      <4> HIDE DEF At, f
      <4> QED BY <3>3, <3>4, <3>9, <3>10
    <3> QED BY <3>11
  <2> QED BY <2>1, <2>2
<1>4. Wrong = {}
  <2> HIDE DEF Wrong
  <2>1. Wrong \subseteq SUBSET P
    BY DEF Wrong
  <2> QED BY <1>3, <2>1, SmallestSubset
<1>5. SumFunctionOnSet(f, P) = Cardinality(At(P))
  BY <1>4
<1>6. SumFunction(f) = SumFunctionOnSet(f, P)
  BY DEF SumFunction
<1> QED BY <1>5, <1>6

\* The buckets end with the newest time's, and a time up to it is in one of them
\* unless it is before the first.
LastStart(m, b) == (m \div b) * b
Starts(m, b, n) == {LastStart(m, b) - i * b : i \in 0..(n - 1)}

LEMMA BucketsCover ==
  ASSUME NEW b \in {1, 4, 96}, NEW n \in {14, 24}, NEW m \in Nat
  PROVE  /\ LastStart(m, b) \in Starts(m, b, n) /\ IsFiniteSet(Starts(m, b, n))
         /\ LastStart(m, b) \in Int /\ LastStart(m, b) <= m /\ m < LastStart(m, b) + b
         /\ Max(Starts(m, b, n)) = LastStart(m, b)
         /\ Min(Starts(m, b, n)) \in Int /\ Min(Starts(m, b, n)) <= LastStart(m, b)
         /\ \A t \in Nat : t <= m =>
              (LastStart(t, b) \in Starts(m, b, n) <=> Min(Starts(m, b, n)) <= t)
<1> DEFINE last   == (m \div b) * b
           first  == last - (n - 1) * b
           starts == {last - i * b : i \in 0..(n - 1)}
<1>1. m \div b \in Nat /\ last \in Int /\ last <= m /\ m < last + b
  OBVIOUS
<1>2. last \in starts /\ first \in starts
  <2>1. 0 \in 0..(n - 1) /\ n - 1 \in 0..(n - 1) /\ last - 0 * b = last
    BY <1>1
  <2> QED BY <2>1
<1>3. \A s \in starts : s \in Int /\ first <= s /\ s <= last
  <2>1. ASSUME NEW i \in 0..(n - 1)
        PROVE  last - i * b \in Int /\ first <= last - i * b /\ last - i * b <= last
    BY <1>1
  <2> QED BY <2>1
<1>4. IsFiniteSet(starts)
  <2>1. starts \in SUBSET (first..last)
    BY <1>1, <1>3
  <2>2. IsFiniteSet(first..last)
    BY <1>1, FS_Interval
  <2> HIDE DEF starts, first, last
  <2> QED BY <2>1, <2>2, FS_Subset
<1>5. Max(starts) = last /\ Min(starts) = first
  <2> HIDE DEF starts, first, last
  <2>1. Max(starts) \in starts /\ \A s \in starts : s <= Max(starts)
    <3>1. \E x \in starts : \A s \in starts : x >= s
      BY <1>1, <1>2, <1>3
    <3>2. Max(starts) \in starts /\ \A s \in starts : Max(starts) >= s
      BY <3>1 DEF Max
    <3> QED BY <1>3, <3>2
  <2>2. Min(starts) \in starts /\ \A s \in starts : Min(starts) <= s
    <3>1. \E x \in starts : \A s \in starts : x <= s
      BY <1>1, <1>2, <1>3
    <3> QED BY <3>1 DEF Min
  <2>3. Max(starts) = last
    <3>1. Max(starts) \in Int /\ last \in Int /\ Max(starts) <= last /\ last <= Max(starts)
      BY <1>2, <1>3, <2>1
    <3> QED BY <3>1
  <2>4. Min(starts) = first
    <3>1. first \in Int /\ Min(starts) \in Int /\ first <= Min(starts) /\ Min(starts) <= first
      BY <1>2, <1>3, <2>2
    <3> QED BY <3>1
  <2> QED BY <2>3, <2>4
<1>6. ASSUME NEW t \in Nat, t <= m PROVE (t \div b) * b \in starts <=> first <= t
  <2> DEFINE i == (m \div b) - (t \div b)
  <2>1. t \div b \in Nat /\ t \div b <= m \div b /\ (t \div b) * b <= t /\ t < (t \div b) * b + b
    BY <1>6
  <2>2. (t \div b) * b = last - i * b /\ i \in Nat
    BY <1>1, <2>1
  <2>3. first <= t => i \in 0..(n - 1)
    BY <1>1, <2>1, <2>2
  <2>4. (t \div b) * b \in starts => first <= t
    BY <1>3, <2>1
  <2> QED BY <2>2, <2>3, <2>4
<1>7. Starts(m, b, n) = starts /\ LastStart(m, b) = last
  BY DEF Starts, LastStart
<1>8. first \in Int /\ first <= last
  BY <1>1
<1> HIDE DEF starts, first, last
<1> QED BY <1>1, <1>2, <1>4, <1>5, <1>6, <1>7, <1>8 DEF LastStart

\* A chart whose items have a time, and a key it has a series for or none.
Charts(items, key, keys) ==
  /\ IsFiniteSet(DOMAIN items) /\ \A i \in DOMAIN items : items[i].t \in Nat
  /\ IsFiniteSet(keys) /\ Null \notin keys
  /\ \A i \in DOMAIN items : key[i] = Null \/ key[i] \in keys

LEMMA ChartCounts ==
  ASSUME NEW items, NEW key, NEW keys, Charts(items, key, keys)
  PROVE  ChartComplete(items, key, keys)
<1> SUFFICES ASSUME DOMAIN items # {} PROVE ChartComplete(items, key, keys)
  BY DEF ChartComplete
<1> DEFINE times  == Times(items)
           m      == Max(times)
           g      == ChooseGranularity(times)
           keyed  == {i \in DOMAIN items : key[i] # Null}
           start(i) == (items[i].t \div g.bucket) * g.bucket
<1>1. /\ times \subseteq Nat /\ times # {} /\ IsFiniteSet(times)
      /\ \A i \in DOMAIN items : items[i].t \in times
  <2>1. IsFiniteSet({items[i] : i \in DOMAIN items})
    BY FiniteImage DEF Charts
  <2> DEFINE at == [i \in DOMAIN items |-> items[i].t]
  <2>2. IsFiniteSet({at[i] : i \in DOMAIN items})
    <3> HIDE DEF at
    <3> QED BY FiniteImage DEF Charts
  <2>3. times = {at[i] : i \in DOMAIN items}
    BY DEF Times
  <2> QED BY <2>2, <2>3 DEF Charts, Times
<1>2. m \in Nat /\ \A i \in DOMAIN items : items[i].t \in Nat /\ items[i].t <= m
  BY <1>1, MinAndMax
<1>3. PICK b \in {1, 4, 96}, n \in {14, 24} : g.bucket = b /\ g.starts = Starts(m, b, n)
  <2> DEFINE span == m - Min(times)
  <2>1. CASE span <= 6 * Hour
    <3>1. g = [bucket |-> 1, starts |-> Starts(m, 1, 24)]
      BY <2>1 DEF ChooseGranularity, Starts, LastStart
    <3> HIDE DEF g, m
    <3> QED BY <3>1
  <2>2. CASE ~(span <= 6 * Hour) /\ span <= 2 * Day
    <3>1. g = [bucket |-> 4, starts |-> Starts(m, 4, 24)]
      BY <2>2 DEF ChooseGranularity, Hour, Starts, LastStart
    <3> HIDE DEF g, m
    <3> QED BY <3>1
  <2>3. CASE ~(span <= 6 * Hour) /\ ~(span <= 2 * Day)
    <3>1. g = [bucket |-> 96, starts |-> Starts(m, 96, 14)]
      BY <2>3 DEF ChooseGranularity, Day, Starts, LastStart
    <3> HIDE DEF g, m
    <3> QED BY <3>1
  <2> QED BY <2>1, <2>2, <2>3
<1> HIDE DEF g, m, times
<1> DEFINE last  == Max(g.starts)
           first == Min(g.starts)
<1>4. /\ last \in Int /\ last <= m /\ m < last + b /\ IsFiniteSet(g.starts)
      /\ first \in Int /\ first <= last
  BY <1>2, <1>3, BucketsCover
<1>6. \A i \in DOMAIN items : start(i) \in g.starts <=> first <= items[i].t
  <2>1. ASSUME NEW i \in DOMAIN items PROVE LastStart(items[i].t, b) \in g.starts <=> first <= items[i].t
    BY <1>2, <1>3, BucketsCover
  <2> QED BY <1>3, <2>1 DEF LastStart
<1>7. SumFunction(BucketCounts(items, key, keys, g)) = Cardinality({i \in keyed : items[i].t >= Min(g.starts)})
  <2> DEFINE place == [i \in DOMAIN items |-> <<start(i), key[i]>>]
             P == g.starts \X keys
  <2>1. IsFiniteSet(P)
    BY <1>4, FS_Product DEF Charts
  <2>2. BucketCounts(items, key, keys, g)
          = [p \in P |-> Cardinality({i \in DOMAIN items : place[i] = p})]
    BY DEF BucketCounts
  <2>3. {i \in DOMAIN items : place[i] \in P} = {i \in keyed : items[i].t >= Min(g.starts)}
    <3>1. ASSUME NEW i \in DOMAIN items
          PROVE  place[i] \in P <=> key[i] # Null /\ items[i].t >= Min(g.starts)
      <4>1. place[i] \in P <=> start(i) \in g.starts /\ key[i] \in keys
        OBVIOUS
      <4>2. key[i] \in keys <=> key[i] # Null
        BY DEF Charts
      <4>3. start(i) \in g.starts <=> items[i].t >= Min(g.starts)
        BY <1>2, <1>4, <1>6
      <4> QED BY <4>1, <4>2, <4>3
    <3> HIDE DEF place, P
    <3> QED BY <3>1
  <2>4. SumFunction([p \in P |-> Cardinality({i \in DOMAIN items : place[i] = p})])
          = Cardinality({i \in DOMAIN items : place[i] \in P})
    <3> HIDE DEF place, P
    <3> QED BY <2>1, CountsAddUp DEF Charts
  <2> QED BY <2>2, <2>3, <2>4
<1>8. \A i \in keyed : m - items[i].t <= Max(g.starts) - Min(g.starts) => items[i].t >= Min(g.starts)
  BY <1>2, <1>4
<1>9. Max(g.starts) <= m /\ m < Max(g.starts) + g.bucket
  BY <1>3, <1>4
<1> QED BY <1>7, <1>8, <1>9 DEF ChartComplete, g, m, times

LEMMA LogTyped ==
  ASSUME FlowInv
  PROVE  /\ DOMAIN log = 1..Len(log) /\ Len(log) \in Nat /\ IsFiniteSet(DOMAIN log)
         /\ \A i \in DOMAIN log : /\ i \in Nat /\ log[i].t \in Nat /\ log[i].sym \in Symbols
                                  /\ log[i].dir \in {Null, <<"long">>, <<"flat">>}
<1>1. DOMAIN log = 1..Len(log) /\ Len(log) \in Nat /\ \A i \in 1..Len(log) : log[i] \in Decisions
  BY DEF FlowInv
<1>2. IsFiniteSet(1..Len(log))
  BY <1>1, FS_Interval
<1>3. \A d \in Decisions : /\ d.t \in Nat /\ d.sym \in Symbols
                           /\ d.dir \in {Null, <<"long">>, <<"flat">>}
  BY OverviewAssumption DEF Decisions, Outcomes
<1> QED BY <1>1, <1>2, <1>3

LEMMA FlowKept == ASSUME FlowInv PROVE FlowComplete
<1>1. ChartComplete(log, [i \in DOMAIN log |-> log[i].dir], {<<"long">>, <<"flat">>, <<"short">>})
  <2>1. IsFiniteSet({<<"long">>, <<"flat">>, <<"short">>})
    <3>1. IsFiniteSet({<<"long">>})
      BY FS_Singleton
    <3>2. IsFiniteSet({<<"long">>} \cup {<<"flat">>})
      BY <3>1, FS_AddElement
    <3>3. IsFiniteSet(({<<"long">>} \cup {<<"flat">>}) \cup {<<"short">>})
      BY <3>2, FS_AddElement
    <3>4. ({<<"long">>} \cup {<<"flat">>}) \cup {<<"short">>} = {<<"long">>, <<"flat">>, <<"short">>}
      OBVIOUS
    <3> QED BY <3>3, <3>4
  <2>2. Null \notin {<<"long">>, <<"flat">>, <<"short">>}
    BY DEF Null
  <2>3. Charts(log, [i \in DOMAIN log |-> log[i].dir], {<<"long">>, <<"flat">>, <<"short">>})
    BY <2>1, <2>2, LogTyped DEF Charts
  <2> QED BY <2>3, ChartCounts
<1>2. ChartComplete(Orders, [i \in DOMAIN Orders |-> OrderKey(Orders[i].sym)], SeriesKeys)
  <2> DEFINE syms == {Orders[i].sym : i \in DOMAIN Orders}
  <2>1. /\ DOMAIN Orders \in SUBSET DOMAIN log /\ IsFiniteSet(DOMAIN Orders)
        /\ \A i \in DOMAIN Orders : Orders[i] = log[i] /\ Orders[i].t \in Nat
    <3>1. DOMAIN Orders \in SUBSET DOMAIN log /\ \A i \in DOMAIN Orders : Orders[i] = log[i]
      BY DEF Orders, Restrict
    <3> QED BY <3>1, LogTyped, FS_Subset
  <2>2. IsFiniteSet(syms)
    <3> DEFINE f == [i \in DOMAIN Orders |-> Orders[i].sym]
    <3>1. IsFiniteSet({f[i] : i \in DOMAIN Orders})
      <4> HIDE DEF f
      <4> QED BY <2>1, FiniteImage
    <3>2. {f[i] : i \in DOMAIN Orders} = syms
      OBVIOUS
    <3> QED BY <3>1, <3>2
  <2>3. /\ DOMAIN OrderCounts = syms /\ OrderSeries.symbols \in SUBSET syms
        /\ OrderSeries.hasOther = (Cardinality(syms) > Cardinality(OrderSeries.symbols))
    BY DEF OrderSeries, TopSymbols, OrderCounts
  <2>4. OrderSeries.symbols # syms => OrderSeries.hasOther
    <3>1. /\ Cardinality(OrderSeries.symbols) <= Cardinality(syms)
          /\ Cardinality(syms) = Cardinality(OrderSeries.symbols) => syms = OrderSeries.symbols
      <4> HIDE DEF syms
      <4> QED BY <2>2, <2>3, FS_Subset
    <3>2. Cardinality(syms) \in Nat /\ Cardinality(OrderSeries.symbols) \in Nat
      <4> HIDE DEF syms
      <4>1. IsFiniteSet(OrderSeries.symbols)
        BY <2>2, <2>3, FS_Subset
      <4> QED BY <2>2, <4>1, FS_CardinalityType
    <3>3. OrderSeries.symbols # syms => Cardinality(syms) > Cardinality(OrderSeries.symbols)
      <4> HIDE DEF syms
      <4> QED BY <3>1, <3>2
    <3> QED BY <2>3, <3>3
  <2>5. IsFiniteSet(SeriesKeys)
    <3> DEFINE f == [y \in OrderSeries.symbols |-> <<y>>]
    <3>1. IsFiniteSet(OrderSeries.symbols)
      <4> HIDE DEF syms
      <4> QED BY <2>2, <2>3, FS_Subset
    <3>2. IsFiniteSet({f[y] : y \in OrderSeries.symbols})
      <4> HIDE DEF f
      <4> QED BY <3>1, FiniteImage
    <3>3. {f[y] : y \in OrderSeries.symbols} = {<<y>> : y \in OrderSeries.symbols}
      OBVIOUS
    <3>4. IsFiniteSet({<<y>> : y \in OrderSeries.symbols})
      BY <3>2, <3>3
    <3>5. IsFiniteSet({<<y>> : y \in OrderSeries.symbols} \cup {Other})
      BY <3>4, FS_AddElement
    <3>6. IsFiniteSet({<<y>> : y \in OrderSeries.symbols} \cup {})
      <4>1. {<<y>> : y \in OrderSeries.symbols} \cup {} = {<<y>> : y \in OrderSeries.symbols}
        OBVIOUS
      <4> QED BY <3>4, <4>1
    <3> QED BY <3>5, <3>6 DEF SeriesKeys
  <2>6. Null \notin SeriesKeys
    BY DEF SeriesKeys, Null, Other
  <2>7. \A i \in DOMAIN Orders : OrderKey(Orders[i].sym) \in SeriesKeys
    BY <2>4 DEF OrderKey, SeriesKeys
  <2>8. Charts(Orders, [i \in DOMAIN Orders |-> OrderKey(Orders[i].sym)], SeriesKeys)
    BY <2>1, <2>5, <2>6, <2>7 DEF Charts
  <2> QED BY <2>8, ChartCounts
<1> QED BY <1>1, <1>2 DEF FlowComplete

-----------------------------------------------------------------------------
(* The performance chart.                                                  *)

\* What is rounded down to a multiple, and that it grows with what is rounded.
LEMMA DivIs ==
  ASSUME NEW a \in Nat, NEW d \in Nat \ {0}, NEW q \in Nat, d * q <= a, a < d * q + d
  PROVE  a \div d = q
<1> DEFINE r == a \div d
<1>1. r \in Nat /\ d * r <= a /\ a < d * r + d
  OBVIOUS
<1> HIDE DEF r
<1>2. \A x, y \in Nat : x < y => d * x + d <= d * y
  <2>1. ASSUME NEW x \in Nat, NEW y \in Nat, x < y PROVE d * x + d <= d * y
    <3>1. y - x - 1 \in Nat /\ d * (y - x - 1) \in Nat
      BY <2>1
    <3>2. d * (y - x - 1) = d * y - d * x - d
      OBVIOUS
    <3> QED BY <3>1, <3>2
  <2> QED BY <2>1
<1>3. d * r \in Nat /\ d * q \in Nat
  BY <1>1
<1>4. ~(r < q) /\ ~(q < r)
  BY <1>1, <1>2, <1>3
<1> QED BY <1>1, <1>4 DEF r

LEMMA DivGrows ==
  ASSUME NEW a \in Nat, NEW b \in Nat, a <= b, NEW d \in Nat \ {0}
  PROVE  a \div d \in Nat /\ b \div d \in Nat /\ a \div d <= b \div d
<1> DEFINE r == a \div d
           s == b \div d
<1>1. r \in Nat /\ s \in Nat /\ d * r <= a /\ b < d * s + d
  OBVIOUS
<1> HIDE DEF r, s
<1>2. ASSUME s < r PROVE d * s + d <= d * r
  <2>1. r - s - 1 \in Nat /\ d * (r - s - 1) \in Nat
    BY <1>1, <1>2
  <2>2. d * (r - s - 1) = d * r - d * s - d
    BY <1>1
  <2>3. d * r \in Nat /\ d * s \in Nat
    BY <1>1
  <2> QED BY <2>1, <2>2, <2>3
<1>3. d * r \in Nat /\ d * s \in Nat
  BY <1>1
<1>4. ~(s < r)
  BY <1>1, <1>2, <1>3
<1> QED BY <1>1, <1>4 DEF r, s

\* A set of times with an upper bound has a greatest one.
LEMMA BoundedMax ==
  ASSUME NEW T, T \subseteq Nat, T # {}, NEW n \in Nat, \A x \in T : x <= n
  PROVE  Max(T) \in T /\ \A x \in T : x <= Max(T)
<1> DEFINE Bounds == {u \in Nat : \A x \in T : x <= u}
<1>1. PICK u \in Bounds : \A v \in Bounds : u <= v
  <2>1. Bounds \subseteq Nat /\ Bounds # {}
    OBVIOUS
  <2> HIDE DEF Bounds
  <2> QED BY <2>1, LeastNumber
<1>2. u \in T
  <2> SUFFICES ASSUME u \notin T PROVE FALSE
    OBVIOUS
  <2>1. \A x \in T : x \in Nat /\ x <= u - 1
    BY <1>1
  <2>2. u - 1 \in Nat
    <3>1. PICK x \in T : TRUE
      OBVIOUS
    <3>2. x \in Nat /\ u \in Nat /\ x <= u - 1
      BY <2>1, <3>1
    <3> QED BY <3>2
  <2>3. u - 1 \in Bounds
    BY <2>1, <2>2
  <2> QED BY <1>1, <2>2, <2>3
<1>3. \A x \in T : u >= x
  BY <1>1
<1>4. Max(T) \in T /\ \A x \in T : Max(T) >= x
  BY <1>2, <1>3 DEF Max
<1> QED BY <1>4

LEMMA LeastMin ==
  ASSUME NEW T, T \subseteq Nat, T # {}
  PROVE  Min(T) \in T /\ \A x \in T : Min(T) <= x
<1>1. \E m \in T : \A x \in T : m <= x
  BY LeastNumber
<1> QED BY <1>1 DEF Min

\* The rows' times grow, and the last is the newest of all.
LEMMA RowTimes ==
  ASSUME PriceInv, Charted # {}
  PROVE  /\ \A i \in 0..Buckets : RowTime(i) \in Nat
         /\ \A i \in 1..Buckets : RowTime(i - 1) <= RowTime(i)
         /\ \A y \in Charted : \A c \in DOMAIN samples[y] : samples[y][c].t <= RowTime(Buckets)
<1>0. Charted \subseteq Symbols
  BY DEF Charted, PriceInv
<1>1. /\ AllTimes \subseteq Nat /\ AllTimes # {}
      /\ \A y \in Charted : \A c \in DOMAIN samples[y] : samples[y][c].t \in AllTimes
  <2>1. PICK y \in Charted : TRUE
    OBVIOUS
  <2>2. 1 \in DOMAIN samples[y]
    BY <1>0, <2>1, SampleTyped DEF Charted
  <2>3. \A z \in Charted : \A c \in DOMAIN samples[z] : samples[z][c].t \in Nat /\ samples[z][c].t \in AllTimes
    BY <1>0, SampleTyped DEF AllTimes, Times
  <2>4. AllTimes \subseteq Nat
    BY <2>3 DEF AllTimes, Times
  <2> QED BY <2>1, <2>2, <2>3, <2>4
<1>2. PICK n \in Nat : \A x \in AllTimes : x <= n
  <2>1. PICK n \in Nat : \A y \in Symbols : \A i \in DOMAIN samples[y] : samples[y][i].t <= n
    BY DEF PriceInv
  <2>2. \A x \in AllTimes : x <= n
    BY <1>0, <2>1 DEF AllTimes, Times
  <2> QED BY <2>2
<1>3. Max(AllTimes) \in AllTimes /\ \A x \in AllTimes : x <= Max(AllTimes)
  BY <1>1, <1>2, BoundedMax
<1>4. First \in AllTimes /\ First <= Max(AllTimes)
  BY <1>1, <1>3, LeastMin DEF First
<1>5. First \in Nat /\ Span \in Nat /\ First + Span = Max(AllTimes)
  <2>1. Max(AllTimes) \in Nat /\ First \in Nat /\ Span = Max(AllTimes) - First
    BY <1>1, <1>3, <1>4 DEF Span
  <2> QED BY <1>4, <2>1
<1>6. Buckets \in Nat \ {0} /\ 2 * Buckets \in Nat \ {0}
  BY OverviewAssumption
<1> DEFINE Top(i) == 2 * i * Span + Buckets
<1>7. \A i \in 0..Buckets : Top(i) \in Nat
  BY <1>5, <1>6
<1>8. ASSUME NEW i \in 1..Buckets PROVE Top(i - 1) <= Top(i) /\ i - 1 \in 0..Buckets /\ i \in 0..Buckets
  <2>1. i \in Nat /\ i - 1 \in Nat /\ i - 1 \in 0..Buckets /\ i \in 0..Buckets
    BY <1>6
  <2>2. 2 * i * Span = 2 * (i - 1) * Span + 2 * Span
    BY <1>5, <2>1
  <2>3. 2 * i * Span \in Nat /\ 2 * (i - 1) * Span \in Nat /\ 2 * Span \in Nat
    BY <1>5, <2>1
  <2> QED BY <1>6, <2>1, <2>2, <2>3
<1>9. ASSUME NEW i \in 0..Buckets PROVE RowTime(i) \in Nat
  <2>1. Top(i) \div (2 * Buckets) \in Nat
    <3> HIDE DEF Top
    <3> QED BY <1>6, <1>7, DivGrows
  <2> QED BY <1>5, <2>1 DEF RowTime
<1>10. ASSUME NEW i \in 1..Buckets PROVE RowTime(i - 1) <= RowTime(i)
  <2>1. Top(i - 1) \in Nat /\ Top(i) \in Nat /\ Top(i - 1) <= Top(i)
    BY <1>7, <1>8
  <2>2. /\ Top(i - 1) \div (2 * Buckets) \in Nat /\ Top(i) \div (2 * Buckets) \in Nat
        /\ Top(i - 1) \div (2 * Buckets) <= Top(i) \div (2 * Buckets)
    <3> HIDE DEF Top
    <3> QED BY <1>6, <2>1, DivGrows
  <2> QED BY <1>5, <2>2 DEF RowTime
<1>11. RowTime(Buckets) = Max(AllTimes)
  <2>1. Top(Buckets) = (2 * Buckets) * Span + Buckets
    BY <1>5, <1>6
  <2>2. (2 * Buckets) * Span \in Nat
    BY <1>5, <1>6
  <2>3. Top(Buckets) \in Nat /\ (2 * Buckets) * Span <= Top(Buckets)
        /\ Top(Buckets) < (2 * Buckets) * Span + 2 * Buckets
    <3> HIDE DEF Top
    <3> QED BY <1>6, <2>1, <2>2
  <2>4. Top(Buckets) \div (2 * Buckets) = Span
    <3> HIDE DEF Top
    <3> QED BY <1>5, <1>6, <2>3, DivIs
  <2> QED BY <1>5, <2>4 DEF RowTime
<1> QED BY <1>1, <1>3, <1>9, <1>10, <1>11

\* One row of the pass, from what the row before it left.
Row(h, i, before) ==
  LET from  == IF i = 0 THEN 1 ELSE before.cursor
      ahead == {c \in from..Len(h) : h[c].t > RowTime(i)}
      next  == IF ahead = {} THEN Len(h) + 1 ELSE Min(ahead)
  IN  [cursor |-> next,
       last   |-> IF next > from THEN <<h[next - 1].price>>
                  ELSE IF i = 0 THEN Null ELSE before.last]

\* There is such a pass: its first row alone, and then row by row.
LEMMA WalkIs ==
  ASSUME NEW h
  PROVE  Walk(h) = [i \in 0..Buckets |-> Row(h, i, Walk(h)[i - 1])]
<1> DEFINE WalksTo(n) == \E w : w = [i \in 0..n |-> Row(h, i, w[i - 1])]
<1>1. WalksTo(0)
  <2> DEFINE w == [i \in 0..0 |-> Row(h, i, Null)]
  <2>1. \A i \in 0..0 : i = 0 /\ Row(h, i, Null) = Row(h, i, w[i - 1])
    BY DEF Row
  <2>2. w = [i \in 0..0 |-> Row(h, i, w[i - 1])]
    <3> HIDE DEF w
    <3>1. [i \in 0..0 |-> Row(h, i, Null)] = [i \in 0..0 |-> Row(h, i, w[i - 1])]
      BY <2>1
    <3> QED BY <3>1 DEF w
  <2> QED BY <2>2
<1>2. ASSUME NEW n \in Nat, WalksTo(n) PROVE WalksTo(n + 1)
  <2>1. PICK g : g = [i \in 0..n |-> Row(h, i, g[i - 1])]
    BY <1>2
  <2> DEFINE w == [i \in 0..(n + 1) |-> Row(h, i, g[i - 1])]
  <2>2. \A i \in 0..n : w[i] = g[i]
    BY <2>1
  <2>3. ASSUME NEW i \in 0..(n + 1) PROVE Row(h, i, g[i - 1]) = Row(h, i, w[i - 1])
    <3>1. CASE i = 0
      <4> HIDE DEF w
      <4> QED BY <3>1 DEF Row
    <3>2. CASE i # 0
      <4>1. i - 1 \in 0..n
        BY <3>2
      <4>2. w[i - 1] = g[i - 1]
        BY <2>2, <4>1
      <4> QED BY <4>2
    <3> QED BY <3>1, <3>2
  <2>4. w = [i \in 0..(n + 1) |-> Row(h, i, w[i - 1])]
    <3>1. [i \in 0..(n + 1) |-> Row(h, i, g[i - 1])] = [i \in 0..(n + 1) |-> Row(h, i, w[i - 1])]
      <4> HIDE DEF w
      <4> QED BY <2>3
    <3> HIDE DEF w
    <3> QED BY <3>1 DEF w
  <2> QED BY <2>4
<1>3. \A n \in Nat : WalksTo(n)
  <2> SUFFICES ASSUME NEW k \in Nat, ~WalksTo(k) PROVE FALSE
    OBVIOUS
  <2> HIDE DEF WalksTo
  <2>1. PICK m \in {n \in Nat : ~WalksTo(n)} : \A n \in {l \in Nat : ~WalksTo(l)} : m <= n
    BY LeastNumber
  <2>2. CASE m = 0
    BY <1>1, <2>1, <2>2
  <2>3. CASE m # 0
    <3>1. m - 1 \in Nat /\ WalksTo(m - 1) /\ m = (m - 1) + 1
      BY <2>1, <2>3
    <3> QED BY <1>2, <2>1, <3>1
  <2> QED BY <2>2, <2>3
<1>4. \E w : w = [i \in 0..Buckets |-> Row(h, i, w[i - 1])]
  <2>1. WalksTo(Buckets)
    <3> HIDE DEF WalksTo
    <3> QED BY <1>3, OverviewAssumption
  <2> QED BY <2>1
<1>5. Walk(h) = CHOOSE w : w = [i \in 0..Buckets |-> Row(h, i, w[i - 1])]
  BY DEF Walk, Row
<1> QED BY <1>4, <1>5

\* After a row the cursor stands behind the prices known at its time, and its
\* value is the last of them.
Passed(h, i) ==
  LET w == Walk(h)
  IN  /\ w[i].cursor \in 1..(Len(h) + 1)
      /\ \A c \in 1..Len(h) : c < w[i].cursor <=> h[c].t <= RowTime(i)
      /\ w[i].last = IF w[i].cursor = 1 THEN Null ELSE <<h[w[i].cursor - 1].price>>

LEMMA RowPasses ==
  ASSUME PriceInv, Charted # {}, NEW y \in Charted, NEW i \in 0..Buckets,
         i > 0 => Passed(samples[y], i - 1)
  PROVE  Passed(samples[y], i)
<1> DEFINE h == samples[y]
           w == Walk(h)
           from  == IF i = 0 THEN 1 ELSE w[i - 1].cursor
           ahead == {c \in from..Len(h) : h[c].t > RowTime(i)}
           next  == IF ahead = {} THEN Len(h) + 1 ELSE Min(ahead)
<1>1. /\ w[i].cursor = next
      /\ w[i].last = IF next > from THEN <<h[next - 1].price>>
                     ELSE IF i = 0 THEN Null ELSE w[i - 1].last
  <2>1. w[i] = Row(h, i, w[i - 1])
    <3> HIDE DEF h
    <3> QED BY WalkIs
  <2> QED BY <2>1 DEF Row
<1>2. /\ Len(h) \in Nat /\ \A c \in 1..Len(h) : c \in Nat /\ h[c].t \in Nat
      /\ \A c, d \in 1..Len(h) : c < d => h[c].t <= h[d].t
  <2>1. y \in Symbols
    BY DEF Charted, PriceInv
  <2> QED BY <2>1, SampleTyped DEF PriceInv
<1>3. /\ RowTime(i) \in Nat
      /\ i > 0 => RowTime(i - 1) \in Nat /\ RowTime(i - 1) <= RowTime(i)
  <2>1. i > 0 => i \in 1..Buckets /\ i - 1 \in 0..Buckets
    BY OverviewAssumption
  <2> QED BY <2>1, RowTimes
<1> HIDE DEF h
<1>4. from \in 1..(Len(h) + 1) /\ \A c \in 1..Len(h) : c < from => h[c].t <= RowTime(i)
  <2>1. CASE i = 0
    <3>1. from = 1
      BY <2>1
    <3> HIDE DEF from
    <3> QED BY <1>2, <3>1
  <2>2. CASE i > 0
    <3>1. from = w[i - 1].cursor
      BY <2>2
    <3>2. Passed(h, i - 1)
      BY <2>2 DEF h
    <3> HIDE DEF from
    <3>3. from \in 1..(Len(h) + 1) /\ \A c \in 1..Len(h) : c < from <=> h[c].t <= RowTime(i - 1)
      BY <3>1, <3>2 DEF Passed
    <3> QED BY <1>2, <1>3, <2>2, <3>3
  <2> QED BY <2>1, <2>2, OverviewAssumption
<1>5. i > 0 => w[i - 1].last = IF from = 1 THEN Null ELSE <<h[from - 1].price>>
  <2> SUFFICES ASSUME i > 0 PROVE w[i - 1].last = IF from = 1 THEN Null ELSE <<h[from - 1].price>>
    OBVIOUS
  <2>1. Passed(h, i - 1)
    BY DEF h
  <2> QED BY <2>1 DEF Passed
<1>6. i = 0 => from = 1
  OBVIOUS
<1> HIDE DEF from
<1>7. /\ next \in 1..(Len(h) + 1) /\ from <= next
      /\ \A c \in 1..Len(h) : c < next <=> h[c].t <= RowTime(i)
  <2>1. CASE ahead = {}
    <3>1. next = Len(h) + 1
      BY <2>1
    <3>2. \A c \in 1..Len(h) : h[c].t <= RowTime(i)
      BY <1>2, <1>3, <1>4, <2>1
    <3> HIDE DEF next, ahead
    <3> QED BY <1>2, <1>4, <3>1, <3>2
  <2>2. CASE ahead # {}
    <3>1. ahead \subseteq Nat /\ next = Min(ahead)
      BY <1>2, <1>4, <2>2
    <3>2. next \in ahead /\ \A c \in ahead : next <= c
      <4> HIDE DEF ahead, next
      <4> QED BY <2>2, <3>1, LeastMin
    <3> HIDE DEF next
    <3>3. next \in from..Len(h) /\ h[next].t > RowTime(i) /\ next \in 1..Len(h)
      BY <1>2, <1>4, <3>2
    <3>4. ASSUME NEW c \in 1..Len(h) PROVE c < next <=> h[c].t <= RowTime(i)
      <4>1. CASE c < next
        <5>1. c \in ahead => FALSE
          <6> HIDE DEF ahead
          <6> QED BY <1>2, <3>2, <3>3, <4>1
        <5> QED BY <1>2, <1>3, <1>4, <4>1, <5>1
      <4>2. CASE next < c \/ next = c
        <5>1. h[next].t <= h[c].t
          BY <1>2, <3>3, <4>2
        <5> QED BY <1>2, <1>3, <3>3, <4>2, <5>1
      <4> QED BY <3>3, <4>1, <4>2
    <3> QED BY <1>2, <3>3, <3>4
  <2> QED BY <2>1, <2>2
<1> HIDE DEF next
<1>8. w[i].last = IF next = 1 THEN Null ELSE <<h[next - 1].price>>
  <2>1. CASE next > from
    <3>1. next # 1
      BY <1>2, <1>4, <1>7, <2>1
    <3> QED BY <1>1, <2>1, <3>1
  <2>2. CASE next = from /\ i = 0
    BY <1>1, <1>4, <1>6, <2>2
  <2>3. CASE next = from /\ i > 0
    BY <1>1, <1>4, <1>5, <2>3
  <2>4. next > from \/ next = from
    BY <1>2, <1>4, <1>7
  <2>5. i = 0 \/ i > 0
    BY OverviewAssumption
  <2> QED BY <2>1, <2>2, <2>3, <2>4, <2>5
<1> QED BY <1>1, <1>7, <1>8 DEF Passed, h

LEMMA PricesKept == ASSUME PriceInv, Charted # {} PROVE PriceCarried
<1>1. ASSUME NEW y \in Charted, NEW i \in 0..Buckets PROVE Passed(samples[y], i)
  <2> SUFFICES ASSUME ~Passed(samples[y], i) PROVE FALSE
    OBVIOUS
  <2> DEFINE Bad == {k \in 0..Buckets : ~Passed(samples[y], k)}
  <2>1. PICK m \in Bad : \A k \in Bad : m <= k
    <3>1. Bad \subseteq Nat /\ Bad # {}
      BY OverviewAssumption
    <3> HIDE DEF Bad
    <3> QED BY <3>1, LeastNumber
  <2>2. m > 0 => Passed(samples[y], m - 1)
    <3>1. m > 0 => m - 1 \in 0..Buckets /\ ~(m <= m - 1)
      BY OverviewAssumption
    <3> QED BY <2>1, <3>1
  <2> QED BY <2>1, <2>2, RowPasses
<1>2. ASSUME NEW y \in Charted
      PROVE  /\ \A i \in DOMAIN BuildPerformanceSeries(y) :
                  LET known == {c \in DOMAIN samples[y] : samples[y][c].t <= RowTime(i)}
                  IN  BuildPerformanceSeries(y)[i]
                        = IF known = {} THEN Null ELSE <<samples[y][Max(known)].price>>
             /\ BuildPerformanceSeries(y)[Buckets] = <<samples[y][Len(samples[y])].price>>
  <2> DEFINE h == samples[y]
             w == Walk(h)
             series == BuildPerformanceSeries(y)
  <2>1. Len(h) \in Nat /\ DOMAIN h = 1..Len(h) /\ Len(h) > 1
    <3>1. y \in Symbols /\ Len(samples[y]) > 1
      BY DEF Charted, PriceInv
    <3> QED BY <3>1, SampleTyped
  <2>2. DOMAIN series = 0..Buckets /\ \A i \in 0..Buckets : series[i] = w[i].last
    BY DEF BuildPerformanceSeries
  <2>3. \A i \in 0..Buckets :
          /\ w[i].cursor \in 1..(Len(h) + 1)
          /\ \A c \in 1..Len(h) : c < w[i].cursor <=> h[c].t <= RowTime(i)
          /\ w[i].last = IF w[i].cursor = 1 THEN Null ELSE <<h[w[i].cursor - 1].price>>
    BY <1>1 DEF Passed
  <2>4. \A c \in DOMAIN h : h[c].t <= RowTime(Buckets)
    BY RowTimes
  <2> HIDE DEF h, w, series
  <2>5. ASSUME NEW i \in 0..Buckets, NEW known, known = {c \in DOMAIN h : h[c].t <= RowTime(i)}
        PROVE  series[i] = IF known = {} THEN Null ELSE <<h[Max(known)].price>>
    <3> DEFINE k == w[i].cursor
    <3>1. k \in 1..(Len(h) + 1) /\ series[i] = IF k = 1 THEN Null ELSE <<h[k - 1].price>>
      BY <2>2, <2>3
    <3>2. known = 1..(k - 1)
      <4>1. \A c \in 1..Len(h) : c < k <=> c \in known
        BY <2>1, <2>3, <2>5
      <4>2. \A c \in known : c \in 1..Len(h)
        BY <2>1, <2>5
      <4> HIDE DEF k
      <4>3. ASSUME NEW c \in known PROVE c \in 1..(k - 1)
        BY <2>1, <3>1, <4>1, <4>2
      <4>4. ASSUME NEW c \in 1..(k - 1) PROVE c \in known
        <5>1. c \in 1..Len(h) /\ c < k
          BY <2>1, <3>1
        <5> QED BY <4>1, <5>1
      <4> QED BY <4>3, <4>4
    <3> HIDE DEF k
    <3>3. CASE k = 1
      <4>1. known = {}
        BY <3>2, <3>3
      <4> QED BY <3>1, <3>3, <4>1
    <3>4. CASE k # 1
      <4>1. k - 1 \in known /\ known \subseteq Nat /\ \A c \in known : k - 1 >= c
        BY <2>1, <3>1, <3>2, <3>4
      <4>2. Max(known) \in known /\ \A c \in known : Max(known) >= c
        BY <4>1 DEF Max
      <4>3. Max(known) = k - 1
        <5>1. Max(known) \in Nat /\ k - 1 \in Nat /\ Max(known) >= k - 1 /\ k - 1 >= Max(known)
          BY <4>1, <4>2
        <5> QED BY <5>1
      <4> QED BY <3>1, <3>4, <4>1, <4>3
    <3> QED BY <3>3, <3>4
  <2>6. series[Buckets] = <<h[Len(h)].price>>
    <3>1. Buckets \in 0..Buckets
      BY OverviewAssumption
    <3> DEFINE k == w[Buckets].cursor
    <3>2. /\ k \in 1..(Len(h) + 1) /\ series[Buckets] = IF k = 1 THEN Null ELSE <<h[k - 1].price>>
          /\ \A c \in 1..Len(h) : c < k
      BY <2>1, <2>2, <2>3, <2>4, <3>1
    <3> HIDE DEF k
    <3>3. k = Len(h) + 1
      BY <2>1, <3>2
    <3> QED BY <2>1, <3>2, <3>3
  <2>7. \A i \in DOMAIN series :
          LET known == {c \in DOMAIN h : h[c].t <= RowTime(i)}
          IN  series[i] = IF known = {} THEN Null ELSE <<h[Max(known)].price>>
    BY <2>2, <2>5
  <2> QED BY <2>6, <2>7 DEF h, series
<1> QED BY <1>2 DEF PriceCarried

-----------------------------------------------------------------------------
(* The activity feed.                                                      *)

\* Events are told apart by their places.
LEMMA EventsTyped ==
  ASSUME FlowInv
  PROVE  /\ IsFiniteSet(Events)
         /\ \A e \in Events : e.t \in Nat /\ e.place \in Nat
         /\ \A d, e \in Events : d.place = e.place => d = e
<1> DEFINE decision == [i \in DOMAIN log |-> [kind |-> "decision", place |-> i, t |-> log[i].t]]
           funding  == [i \in DOMAIN paid |-> [kind |-> "funding", place |-> Len(log) + i, t |-> paid[i]]]
<1>1. /\ DOMAIN paid = 1..Len(paid) /\ Len(paid) \in Nat /\ IsFiniteSet(DOMAIN paid)
      /\ \A i \in DOMAIN paid : i \in Nat /\ paid[i] \in Nat
  <2>1. DOMAIN paid = 1..Len(paid) /\ Len(paid) \in Nat /\ \A i \in 1..Len(paid) : paid[i] \in Moment
    BY DEF FlowInv
  <2>2. IsFiniteSet(1..Len(paid))
    BY <2>1, FS_Interval
  <2>3. Moment \subseteq Nat
    BY OverviewAssumption
  <2> HIDE DEF decision, funding
  <2>4. ASSUME NEW i \in 1..Len(paid) PROVE i \in Nat /\ paid[i] \in Nat
    <3>1. paid[i] \in Moment
      BY <2>1
    <3>2. paid[i] \in Nat
      BY <2>3, <3>1, Zenon
    <3> QED BY <2>1, <3>2
  <2> QED BY <2>1, <2>2, <2>4
<1>2. Events = {decision[i] : i \in DOMAIN log} \cup {funding[i] : i \in DOMAIN paid}
  BY DEF Events
<1>3. IsFiniteSet(Events)
  <2>1. IsFiniteSet({decision[i] : i \in DOMAIN log})
    <3> HIDE DEF decision
    <3> QED BY LogTyped, FiniteImage
  <2>2. IsFiniteSet({funding[i] : i \in DOMAIN paid})
    <3> HIDE DEF funding
    <3> QED BY <1>1, FiniteImage
  <2> HIDE DEF decision, funding
  <2> QED BY <1>2, <2>1, <2>2, FS_Union
<1>4. ASSUME NEW i \in DOMAIN log
      PROVE  /\ decision[i].t \in Nat /\ decision[i].place = i
             /\ i \in Nat /\ i <= Len(log)
  BY LogTyped
<1>5. ASSUME NEW i \in DOMAIN paid
      PROVE  /\ funding[i].t \in Nat /\ funding[i].place = Len(log) + i
             /\ i \in Nat /\ 0 < i
  BY <1>1
<1>6. Len(log) \in Nat
  BY LogTyped
<1> HIDE DEF decision, funding
<1>7. \A e \in Events : e.t \in Nat /\ e.place \in Nat
  BY <1>2, <1>4, <1>5, <1>6
<1>8. \A d, e \in Events : d.place = e.place => d = e
  <2>1. ASSUME NEW i \in DOMAIN log, NEW j \in DOMAIN paid PROVE decision[i].place # funding[j].place
    BY <1>4, <1>5, <1>6
  <2>2. \A i, j \in DOMAIN log : decision[i].place = decision[j].place => i = j
    BY <1>4
  <2>3. \A i, j \in DOMAIN paid : funding[i].place = funding[j].place => i = j
    BY <1>5, <1>6
  <2> QED BY <1>2, <2>1, <2>2, <2>3
<1> QED BY <1>3, <1>7, <1>8

\* Of two events one is above the other, and has fewer above it.
Rank(e) == Cardinality(Above(e))

LEMMA RankOrders ==
  ASSUME FlowInv
  PROVE  /\ \A e \in Events : /\ Above(e) \in SUBSET Events /\ IsFiniteSet(Above(e))
                              /\ Rank(e) \in Nat
         /\ \A d, e \in Events : d \in Above(e) => d.t >= e.t /\ Rank(d) < Rank(e)
         /\ \A d, e \in Events : d = e \/ d \in Above(e) \/ e \in Above(d)
<1>1. \A e \in Events : Above(e) \in SUBSET Events /\ IsFiniteSet(Above(e)) /\ Rank(e) \in Nat
  <2>1. ASSUME NEW e \in Events PROVE Above(e) \in SUBSET Events
    BY DEF Above
  <2>2. ASSUME NEW e \in Events PROVE IsFiniteSet(Above(e)) /\ Rank(e) \in Nat
    BY <2>1, EventsTyped, FS_Subset, FS_CardinalityType DEF Rank
  <2> QED BY <2>1, <2>2
<1>2. ASSUME NEW d \in Events, NEW e \in Events, d \in Above(e) PROVE d.t >= e.t /\ Rank(d) < Rank(e)
  <2>1. d.t \in Nat /\ e.t \in Nat /\ d.place \in Nat /\ e.place \in Nat
    BY EventsTyped
  <2>2. d.t > e.t \/ (d.t = e.t /\ d.place < e.place)
    BY <1>2 DEF Above
  <2>3. ASSUME NEW x \in Above(d) PROVE x \in Above(e)
    <3>1. x \in Events /\ (x.t > d.t \/ (x.t = d.t /\ x.place < d.place))
      BY <2>3 DEF Above
    <3>2. x.t \in Nat /\ x.place \in Nat
      BY <3>1, EventsTyped
    <3>3. x.t > e.t \/ (x.t = e.t /\ x.place < e.place)
      BY <2>1, <2>2, <3>1, <3>2
    <3> QED BY <3>1, <3>3 DEF Above
  <2>4. d \notin Above(d)
    BY <2>1 DEF Above
  <2>5. Above(d) \in SUBSET Above(e) /\ Above(d) # Above(e)
    BY <1>2, <2>3, <2>4
  <2>6. Rank(d) < Rank(e)
    <3>1. IsFiniteSet(Above(e)) /\ Rank(d) \in Nat /\ Rank(e) \in Nat
      BY <1>1
    <3>2. Cardinality(Above(d)) <= Cardinality(Above(e))
          /\ (Cardinality(Above(e)) = Cardinality(Above(d)) => Above(e) = Above(d))
      BY <2>5, <3>1, FS_Subset
    <3> QED BY <2>5, <3>1, <3>2 DEF Rank
  <2> QED BY <2>1, <2>2, <2>6
<1>3. ASSUME NEW d \in Events, NEW e \in Events, d # e PROVE d \in Above(e) \/ e \in Above(d)
  <2>1. d.t \in Nat /\ e.t \in Nat /\ d.place \in Nat /\ e.place \in Nat /\ d.place # e.place
    BY <1>3, EventsTyped
  <2>2. \/ d.t > e.t \/ (d.t = e.t /\ d.place < e.place)
        \/ e.t > d.t \/ (e.t = d.t /\ e.place < d.place)
    BY <2>1
  <2> QED BY <2>2 DEF Above
<1> QED BY <1>1, <1>2, <1>3

LEMMA FeedKept == ASSUME FlowInv PROVE FeedNewest
<1> DEFINE feed == BuildActivityFeed
<1>1. /\ feed \in SUBSET Events /\ IsFiniteSet(feed) /\ FeedLimit \in Nat
      /\ Cardinality(feed) \in Nat
      /\ \A e \in Events : e \in feed <=> Rank(e) < FeedLimit
  <2>1. feed \in SUBSET Events /\ \A e \in Events : e \in feed <=> Rank(e) < FeedLimit
    BY DEF BuildActivityFeed, Rank
  <2>2. IsFiniteSet(feed)
    BY <2>1, EventsTyped, FS_Subset
  <2> QED BY <2>1, <2>2, FS_CardinalityType, OverviewAssumption
<1> HIDE DEF feed
<1>2. Cardinality(feed) <= FeedLimit
  <2>1. CASE feed = {}
    <3>1. Cardinality(feed) = 0
      BY <2>1, FS_EmptySet
    <3> QED BY <1>1, <3>1
  <2>2. CASE feed # {}
    <3> DEFINE T == {Rank(e) : e \in feed}
    <3>1. T \subseteq Nat /\ T # {} /\ \A n \in T : n <= FeedLimit
      BY <1>1, <2>2, RankOrders
    <3>2. Max(T) \in T /\ \A n \in T : n <= Max(T)
      <4> HIDE DEF T
      <4> QED BY <1>1, <3>1, BoundedMax
    <3>3. PICK e \in feed : \A d \in feed : Rank(d) <= Rank(e)
      BY <3>2
    <3>4. e \in Events /\ IsFiniteSet(Above(e)) /\ Rank(e) \in Nat /\ Rank(e) < FeedLimit
      BY <1>1, RankOrders
    <3>5. ASSUME NEW d \in feed, d # e PROVE d \in Above(e)
      <4>1. d \in Events /\ Rank(d) \in Nat /\ Rank(d) <= Rank(e)
        BY <1>1, <3>3, RankOrders
      <4>2. e \in Above(d) => Rank(e) < Rank(d)
        BY <3>4, <4>1, RankOrders
      <4> QED BY <3>4, <3>5, <4>1, <4>2, RankOrders
    <3>6. feed \in SUBSET (Above(e) \cup {e})
      BY <3>5
    <3>7. IsFiniteSet(Above(e) \cup {e}) /\ Cardinality(Above(e) \cup {e}) <= Rank(e) + 1
      <4> DEFINE A == Above(e)
      <4>1. IsFiniteSet(A) /\ Cardinality(A) = Rank(e) /\ Rank(e) \in Nat
        BY <3>4 DEF Rank
      <4> HIDE DEF A
      <4>2. /\ IsFiniteSet(A \cup {e})
            /\ Cardinality(A \cup {e}) = IF e \in A THEN Cardinality(A) ELSE Cardinality(A) + 1
        BY <4>1, FS_AddElement
      <4> QED BY <4>1, <4>2 DEF A
    <3>8. Cardinality(feed) <= Cardinality(Above(e) \cup {e})
      BY <3>6, <3>7, FS_Subset
    <3>9. Cardinality(Above(e) \cup {e}) \in Nat
      BY <3>7, FS_CardinalityType
    <3> QED BY <1>1, <3>4, <3>7, <3>8, <3>9
  <2> QED BY <2>1, <2>2
<1>3. ASSUME NEW e \in Events \ feed PROVE Cardinality(feed) >= FeedLimit
  <2> DEFINE T == {Rank(d) : d \in Events \ feed}
  <2>1. PICK n \in T : \A k \in T : n <= k
    <3>1. T \subseteq Nat /\ T # {}
      BY <1>3, RankOrders
    <3> HIDE DEF T
    <3> QED BY <3>1, LeastNumber
  <2>2. PICK m \in Events \ feed : \A d \in Events \ feed : Rank(m) <= Rank(d)
    BY <2>1
  <2>3. Above(m) \in SUBSET feed
    <3>1. ASSUME NEW d \in Above(m) PROVE d \in feed
      <4>1. d \in Events /\ Rank(d) \in Nat /\ Rank(m) \in Nat /\ Rank(d) < Rank(m)
        BY RankOrders
      <4> QED BY <2>2, <4>1
    <3> QED BY <3>1
  <2>4. Rank(m) <= Cardinality(feed)
    BY <1>1, <2>3, FS_Subset DEF Rank
  <2>5. Rank(m) \in Nat /\ ~(Rank(m) < FeedLimit)
    BY <1>1, RankOrders
  <2> QED BY <1>1, <2>4, <2>5
<1>4. ASSUME NEW e \in Events \ feed, NEW d \in feed PROVE d.t >= e.t
  <2>1. d \in Events /\ Rank(d) \in Nat /\ Rank(e) \in Nat /\ Rank(d) < FeedLimit /\ ~(Rank(e) < FeedLimit)
    BY <1>1, RankOrders
  <2>2. ~(e \in Above(d))
    <3>1. e \in Above(d) => Rank(e) < Rank(d)
      BY <2>1, RankOrders
    <3> QED BY <1>1, <2>1, <3>1
  <2>3. d \in Above(e)
    BY <2>1, <2>2, RankOrders
  <2> QED BY <2>1, <2>3, RankOrders
<1>5. \A e \in Events \ feed : Cardinality(feed) = FeedLimit /\ \A d \in feed : d.t >= e.t
  BY <1>1, <1>2, <1>3, <1>4
<1> QED BY <1>2, <1>5 DEF FeedNewest, feed

\* The overview is of one book: its tiles and tables agree, its charts count
\* everything once, its prices are the last ones known, and its feed has the
\* newest events.
THEOREM OverviewIsOneBook == OverviewSpec => []OverviewAgrees
<1>1. OverviewInv => OverviewAgrees
  BY TilesKept, FlowKept, FeedKept, PricesKept DEF OverviewInv, OverviewAgrees
<1> QED BY <1>1, OverviewInvHolds, PTL
=============================================================================
