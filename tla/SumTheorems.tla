----------------------------- MODULE SumTheorems -----------------------------
(***************************************************************************)
(* Facts about SumOver.  The fold behind it picks the elements of the set  *)
(* in an order of its own: SumRemove shows that the order does not matter, *)
(* and everything else follows from SumEmpty and SumRemove.  Induction is  *)
(* by NatSetInduction and SubsetInduction, which are about a set of        *)
(* numbers or of subsets, not about a predicate.                           *)
(***************************************************************************)
EXTENDS Sums, FiniteSetTheorems, WellFoundedInduction, TLAPS

-----------------------------------------------------------------------------
(* Induction.                                                              *)

\* The element the fold takes next.
Pick(s) == CHOOSE x \in s : TRUE

\* g is the function by which the fold is defined.
IsSum(g, f, S) ==
  g = [s \in SUBSET S |-> IF s = {} THEN 0 ELSE f[Pick(s)] + g[s \ {Pick(s)}]]

\* SumOver is the value at S of the function its fold defines.
LEMMA SumDef ==
  ASSUME NEW f, NEW S
  PROVE SumOver(f, S) = (CHOOSE g : IsSum(g, f, S))[S]
BY DEF SumOver, MapThenSumSet, MapThenFoldSet, IsSum, Pick

\* A set of naturals that holds 0 and is closed under successor is Nat: a smallest
\* number outside it would follow one inside.
LEMMA NatSetInduction ==
  ASSUME NEW T, T \subseteq Nat, 0 \in T, \A n \in T : n+1 \in T
  PROVE  T = Nat
<1>1. SUFFICES ASSUME Nat \ T # {} PROVE FALSE
  OBVIOUS
<1> DEFINE R == OpToRel(<, Nat)
<1>2. IsWellFoundedOn(R, Nat)
  BY NatLessThanWellFounded
<1>3. \A m \in Nat : <<m, m + 1>> \in R
  BY DEF OpToRel
<1> HIDE DEF R
<1>4. PICK n \in Nat \ T : \A m \in Nat \ T : ~(<<m, n>> \in R)
  BY <1>1, <1>2, WFMin, Zenon
<1>5. n # 0 /\ n - 1 \in Nat /\ (n - 1) + 1 = n
  OBVIOUS
<1>6. n - 1 \notin T
  BY <1>5
<1> QED BY <1>3, <1>4, <1>5, <1>6

\* g satisfies the recursion on the subsets of at most n elements.
Approx(g, f, S, n) ==
  \A s \in SUBSET S : Cardinality(s) <= n =>
     g[s] = IF s = {} THEN 0 ELSE f[Pick(s)] + g[s \ {Pick(s)}]

\* Pick chooses a member.
LEMMA PickIn == ASSUME NEW s, s # {} PROVE Pick(s) \in s
BY DEF Pick

\* Cardinalities of a subset and of what is left without one element.
LEMMA SubsetFacts ==
  ASSUME NEW S, IsFiniteSet(S), NEW s \in SUBSET S
  PROVE  /\ IsFiniteSet(s) /\ Cardinality(s) \in Nat
         /\ Cardinality(s) <= Cardinality(S)
         /\ \A x \in s : Cardinality(s \ {x}) = Cardinality(s) - 1
         /\ Cardinality(s) = 0 => s = {}
<1>1. IsFiniteSet(s) /\ Cardinality(s) <= Cardinality(S)
  BY FS_Subset
<1>2. Cardinality(s) \in Nat
  BY <1>1, FS_CardinalityType
<1>3. \A x \in s : Cardinality(s \ {x}) = Cardinality(s) - 1
  BY <1>1, FS_RemoveElement
<1>4. ASSUME NEW x \in s PROVE Cardinality(s) # 0
  <2>1. IsFiniteSet(s \ {x})
    BY <1>1, FS_RemoveElement
  <2>2. Cardinality(s \ {x}) \in Nat
    BY <2>1, FS_CardinalityType
  <2> QED BY <2>2, <1>3, <1>2
<1> QED BY <1>1, <1>2, <1>3, <1>4

\* A family of sets that holds a subset of S whenever it holds all that lack one of its
\* elements holds every subset of S.
LEMMA SubsetInduction ==
  ASSUME NEW S, IsFiniteSet(S), NEW P,
         \A T \in SUBSET S : (\A x \in T : T \ {x} \in P) => T \in P
  PROVE  SUBSET S \subseteq P
<1> DEFINE N == {n \in Nat : \A T \in SUBSET S : Cardinality(T) = n => T \in P}
<1>1. 0 \in N
  BY SubsetFacts
<1>2. ASSUME NEW n \in N PROVE n + 1 \in N
  <2>1. SUFFICES ASSUME NEW T \in SUBSET S, Cardinality(T) = n + 1 PROVE T \in P
    OBVIOUS
  <2>2. ASSUME NEW x \in T PROVE T \ {x} \in P
    <3>1. Cardinality(T \ {x}) = n /\ T \ {x} \in SUBSET S
      <4>1. Cardinality(T \ {x}) = (n + 1) - 1
        BY <2>1, SubsetFacts
      <4> QED BY <4>1
    <3> QED BY <3>1
  <2> QED BY <2>2
<1>3. N = Nat
  <2> HIDE DEF N
  <2>1. N \subseteq Nat BY DEF N
  <2> QED BY <1>1, <1>2, <2>1, NatSetInduction
<1> QED BY <1>3, SubsetFacts

\* The recursion of the fold has a solution on the sets of at most n elements.
LEMMA ApproxExists ==
  ASSUME NEW f, NEW S, IsFiniteSet(S)
  PROVE  \A n \in Nat : \E g : Approx(g, f, S, n)
<1> DEFINE T == {n \in Nat : \E g : Approx(g, f, S, n)}
<1>1. 0 \in T
  <2>1. ASSUME NEW s \in SUBSET S, Cardinality(s) <= 0 PROVE s = {}
    BY <2>1, SubsetFacts
  <2>2. Approx([s \in SUBSET S |-> 0], f, S, 0)
    BY <2>1 DEF Approx
  <2> QED BY <2>2
<1>2. ASSUME NEW n \in T PROVE n + 1 \in T
  <2>1. PICK g : Approx(g, f, S, n)
    OBVIOUS
  <2> DEFINE h == [s \in SUBSET S |-> IF s = {} THEN 0 ELSE f[Pick(s)] + g[s \ {Pick(s)}]]
  <2>2. ASSUME NEW s \in SUBSET S, Cardinality(s) <= n + 1
        PROVE  h[s] = IF s = {} THEN 0 ELSE f[Pick(s)] + h[s \ {Pick(s)}]
    <3>1. CASE s = {}
      BY <3>1
    <3>2. CASE s # {}
      <4> DEFINE t == s \ {Pick(s)}
      <4>1. t \in SUBSET S
        OBVIOUS
      <4>2. Cardinality(t) <= n
        <5>1. Cardinality(t) = Cardinality(s) - 1 /\ Cardinality(s) \in Nat
          BY <3>2, SubsetFacts, PickIn
        <5> QED BY <5>1, <2>2
      <4>3. g[t] = IF t = {} THEN 0 ELSE f[Pick(t)] + g[t \ {Pick(t)}]
        BY <2>1, <4>1, <4>2 DEF Approx
      <4>4. h[t] = g[t]
        BY <4>1, <4>3
      <4> QED BY <4>4, <3>2
    <3> QED BY <3>1, <3>2
  <2>3. Approx(h, f, S, n + 1)
    BY <2>2 DEF Approx
  <2> QED BY <2>3
<1>3. T = Nat
  <2> HIDE DEF T
  <2>1. T \subseteq Nat BY DEF T
  <2> QED BY <1>1, <1>2, <2>1, NatSetInduction
<1> QED BY <1>3

\* The recursion of the fold has a solution.
LEMMA SumExists ==
  ASSUME NEW f, NEW S, IsFiniteSet(S)
  PROVE  \E g : IsSum(g, f, S)
<1>1. Cardinality(S) \in Nat
  BY FS_CardinalityType
<1>2. PICK g : Approx(g, f, S, Cardinality(S))
  BY <1>1, ApproxExists
<1> DEFINE h == [s \in SUBSET S |-> g[s]]
<1>3. ASSUME NEW s \in SUBSET S
      PROVE  h[s] = IF s = {} THEN 0 ELSE f[Pick(s)] + h[s \ {Pick(s)}]
  <2>1. Cardinality(s) <= Cardinality(S)
    BY SubsetFacts
  <2> QED BY <2>1, <1>2 DEF Approx
<1>4. IsSum(h, f, S)
  BY <1>3 DEF IsSum
<1> QED BY <1>4

\* SumOver is the value of such a solution.
LEMMA SumIs ==
  ASSUME NEW f, NEW S, IsFiniteSet(S)
  PROVE  \E g : IsSum(g, f, S) /\ SumOver(f, S) = g[S]
<1>1. IsSum(CHOOSE g : IsSum(g, f, S), f, S)
  BY SumExists, Zenon
<1> QED BY <1>1, SumDef, Zenon

\* Solutions for a set and for a superset of it agree.
LEMMA SumUnique ==
  ASSUME NEW f, NEW S, NEW T, NEW g, NEW h, IsFiniteSet(S), T \subseteq S,
         IsSum(g, f, S), IsSum(h, f, T)
  PROVE  g[T] = h[T]
<1>0. IsFiniteSet(T)
  BY FS_Subset
<1> DEFINE P == {s \in SUBSET T : g[s] = h[s]}
<1>1. \A s \in SUBSET T : g[s] = IF s = {} THEN 0 ELSE f[Pick(s)] + g[s \ {Pick(s)}]
  BY DEF IsSum
<1>2. \A s \in SUBSET T : h[s] = IF s = {} THEN 0 ELSE f[Pick(s)] + h[s \ {Pick(s)}]
  BY DEF IsSum
<1>3. ASSUME NEW s \in SUBSET T, \A x \in s : s \ {x} \in P PROVE s \in P
  <2>1. CASE s = {}
    BY <2>1, <1>1, <1>2
  <2>2. CASE s # {}
    <3>1. s \ {Pick(s)} \in P
      BY <2>2, <1>3, PickIn
    <3> QED BY <3>1, <1>1, <1>2
  <2> QED BY <2>1, <2>2
<1>4. SUBSET T \subseteq P
  <2> HIDE DEF P
  <2> QED BY <1>0, <1>3, SubsetInduction
<1> QED BY <1>4

\* The sum over no element is 0.
LEMMA SumEmpty == \A f : SumOver(f, {}) = 0
<1> TAKE f
<1>1. PICK g : IsSum(g, f, {}) /\ SumOver(f, {}) = g[{}]
  BY SumIs, FS_EmptySet
<1> QED BY <1>1 DEF IsSum

\* One step of the fold.
LEMMA SumUnfold ==
  ASSUME NEW f, NEW S, IsFiniteSet(S), S # {}
  PROVE  SumOver(f, S) = f[Pick(S)] + SumOver(f, S \ {Pick(S)})
<1>1. PICK g : IsSum(g, f, S) /\ SumOver(f, S) = g[S]
  BY SumIs
<1> DEFINE T == S \ {Pick(S)}
<1>2. IsFiniteSet(T)
  BY FS_RemoveElement
<1>3. PICK h : IsSum(h, f, T) /\ SumOver(f, T) = h[T]
  BY <1>2, SumIs
<1>4. g[T] = h[T]
  BY <1>1, <1>3, SumUnique
<1>5. g[S] = f[Pick(S)] + g[T]
  BY <1>1 DEF IsSum
<1> QED BY <1>1, <1>3, <1>4, <1>5

\* A sum of integers is an integer.
LEMMA SumType ==
  ASSUME NEW S, IsFiniteSet(S), NEW f, \A x \in S : f[x] \in Int
  PROVE  SumOver(f, S) \in Int
<1> DEFINE P == {s \in SUBSET S : SumOver(f, s) \in Int}
<1>1. ASSUME NEW s \in SUBSET S, \A x \in s : s \ {x} \in P PROVE s \in P
  <2>1. CASE s = {}
    BY <2>1, SumEmpty
  <2>2. CASE s # {}
    <3>1. s \ {Pick(s)} \in P /\ f[Pick(s)] \in Int
      BY <2>2, <1>1, PickIn
    <3>2. IsFiniteSet(s)
      BY FS_Subset
    <3> QED BY <3>1, <3>2, <2>2, SumUnfold
  <2> QED BY <2>1, <2>2
<1>2. SUBSET S \subseteq P
  <2> HIDE DEF P
  <2> QED BY <1>1, SubsetInduction
<1> QED BY <1>2

\* Any element may be taken out of a sum first.
LEMMA SumRemove ==
  ASSUME NEW S, IsFiniteSet(S), NEW f, \A x \in S : f[x] \in Int, NEW y \in S
  PROVE  SumOver(f, S) = f[y] + SumOver(f, S \ {y})
<1> DEFINE P == {s \in SUBSET S : \A x \in s : SumOver(f, s) = f[x] + SumOver(f, s \ {x})}
<1>1. ASSUME NEW s \in SUBSET S, \A x \in s : s \ {x} \in P PROVE s \in P
  <2>1. SUFFICES ASSUME NEW x \in s PROVE SumOver(f, s) = f[x] + SumOver(f, s \ {x})
    OBVIOUS
  <2> DEFINE p == Pick(s)
  <2>2. IsFiniteSet(s) /\ p \in s
    BY FS_Subset, PickIn
  <2>3. SumOver(f, s) = f[p] + SumOver(f, s \ {p})
    BY <2>2, SumUnfold
  <2>4. CASE x = p
    BY <2>3, <2>4
  <2>5. CASE x # p
    <3> HIDE DEF p
    <3> DEFINE r == (s \ {p}) \ {x}
    <3>1. SumOver(f, s \ {p}) = f[x] + SumOver(f, r)
      BY <1>1, <2>5, <2>2
    <3>2. SumOver(f, s \ {x}) = f[p] + SumOver(f, r)
      <4>1. r = (s \ {x}) \ {p}
        OBVIOUS
      <4> QED BY <1>1, <2>5, <2>2, <4>1
    <3>3. SumOver(f, r) \in Int
      <4>1. IsFiniteSet(r)
        BY <2>2, FS_Subset
      <4> QED BY <4>1, SumType
    <3>4. f[p] \in Int /\ f[x] \in Int
      BY <2>2
    <3> HIDE DEF r
    <3> QED BY <2>3, <3>1, <3>2, <3>3, <3>4
  <2> QED BY <2>4, <2>5
<1>2. SUBSET S \subseteq P
  <2> HIDE DEF P
  <2> QED BY <1>1, SubsetInduction
<1> QED BY <1>2

-----------------------------------------------------------------------------
(* Consequences.                                                           *)

\* An element that is not yet in the set adds its value.
LEMMA SumAdd ==
  ASSUME NEW S, IsFiniteSet(S), NEW f, NEW y, y \notin S,
         \A x \in S \cup {y} : f[x] \in Int
  PROVE  SumOver(f, S \cup {y}) = f[y] + SumOver(f, S)
<1>1. IsFiniteSet(S \cup {y})
  BY FS_AddElement
<1>2. (S \cup {y}) \ {y} = S
  OBVIOUS
<1>3. SumOver(f, S \cup {y}) = f[y] + SumOver(f, (S \cup {y}) \ {y})
  BY <1>1, SumRemove
<1> QED BY <1>2, <1>3

\* Only the values on the set count.
LEMMA SumAgree ==
  ASSUME NEW S, IsFiniteSet(S), NEW f, NEW g,
         \A x \in S : f[x] \in Int /\ f[x] = g[x]
  PROVE  SumOver(f, S) = SumOver(g, S)
<1> DEFINE P == {s \in SUBSET S : SumOver(f, s) = SumOver(g, s)}
<1>1. ASSUME NEW s \in SUBSET S, \A x \in s : s \ {x} \in P PROVE s \in P
  <2>1. CASE s = {}
    BY <2>1, SumEmpty
  <2>2. CASE s # {}
    <3>1. PICK x \in s : TRUE
      BY <2>2
    <3>2. IsFiniteSet(s)
      BY FS_Subset
    <3>3. SumOver(f, s \ {x}) = SumOver(g, s \ {x})
      BY <1>1, <3>1
    <3>4. SumOver(f, s) = f[x] + SumOver(f, s \ {x})
      BY <3>1, <3>2, SumRemove
    <3>5. SumOver(g, s) = g[x] + SumOver(g, s \ {x})
      BY <3>1, <3>2, SumRemove
    <3> QED BY <3>1, <3>3, <3>4, <3>5
  <2> QED BY <2>1, <2>2
<1>2. SUBSET S \subseteq P
  <2> HIDE DEF P
  <2> QED BY <1>1, SubsetInduction
<1> QED BY <1>2

\* Two functions that differ in one element: their sums differ by as much.
LEMMA SumChange ==
  ASSUME NEW S, IsFiniteSet(S), NEW f, NEW g, NEW y \in S,
         \A x \in S : f[x] \in Int /\ g[x] \in Int,
         \A x \in S \ {y} : f[x] = g[x]
  PROVE  SumOver(g, S) = SumOver(f, S) - f[y] + g[y]
<1>1. IsFiniteSet(S \ {y})
  BY FS_RemoveElement
<1>2. SumOver(f, S \ {y}) = SumOver(g, S \ {y})
  BY <1>1, SumAgree
<1>3. SumOver(f, S \ {y}) \in Int
  BY <1>1, SumType
<1>4. SumOver(f, S) = f[y] + SumOver(f, S \ {y})
  BY SumRemove
<1>5. SumOver(g, S) = g[y] + SumOver(g, S \ {y})
  BY SumRemove
<1> QED BY <1>2, <1>3, <1>4, <1>5

\* A smaller function has a smaller sum.
LEMMA SumMonotone ==
  ASSUME NEW S, IsFiniteSet(S), NEW f, NEW g,
         \A x \in S : f[x] \in Int /\ g[x] \in Int /\ f[x] <= g[x]
  PROVE  SumOver(f, S) <= SumOver(g, S)
<1> DEFINE P == {s \in SUBSET S : SumOver(f, s) <= SumOver(g, s)}
<1>1. ASSUME NEW s \in SUBSET S, \A x \in s : s \ {x} \in P PROVE s \in P
  <2>1. CASE s = {}
    BY <2>1, SumEmpty
  <2>2. CASE s # {}
    <3>1. PICK x \in s : TRUE
      BY <2>2
    <3>2. IsFiniteSet(s) /\ IsFiniteSet(s \ {x})
      BY FS_Subset
    <3>3. SumOver(f, s \ {x}) <= SumOver(g, s \ {x})
      BY <1>1, <3>1
    <3>4. SumOver(f, s) = f[x] + SumOver(f, s \ {x})
      BY <3>1, <3>2, SumRemove
    <3>5. SumOver(g, s) = g[x] + SumOver(g, s \ {x})
      BY <3>1, <3>2, SumRemove
    <3>6. SumOver(f, s \ {x}) \in Int /\ SumOver(g, s \ {x}) \in Int
      BY <3>2, SumType
    <3>7. f[x] \in Int /\ g[x] \in Int /\ f[x] <= g[x]
      BY <3>1
    <3> QED BY <3>3, <3>4, <3>5, <3>6, <3>7
  <2> QED BY <2>1, <2>2
<1>2. SUBSET S \subseteq P
  <2> HIDE DEF P
  <2> QED BY <1>1, SubsetInduction
<1> QED BY <1>2

\* The sum over two sets without a common element.
LEMMA SumUnion ==
  ASSUME NEW S, IsFiniteSet(S), NEW T, IsFiniteSet(T), S \cap T = {}, NEW f,
         \A x \in S \cup T : f[x] \in Int
  PROVE  SumOver(f, S \cup T) = SumOver(f, S) + SumOver(f, T)
<1> DEFINE P == {s \in SUBSET S : SumOver(f, s \cup T) = SumOver(f, s) + SumOver(f, T)}
<1>0. SumOver(f, T) \in Int
  BY SumType
<1>1. ASSUME NEW s \in SUBSET S, \A x \in s : s \ {x} \in P PROVE s \in P
  <2>1. CASE s = {}
    <3>1. s \cup T = T
      BY <2>1
    <3>2. SumOver(f, s) = 0
      BY <2>1, SumEmpty
    <3>3. SumOver(f, s \cup T) = SumOver(f, s) + SumOver(f, T)
      <4>1. SumOver(f, s \cup T) = SumOver(f, T)
        BY <3>1
      <4> QED BY <4>1, <3>2, <1>0
    <3> QED BY <3>3
  <2>2. CASE s # {}
    <3>1. PICK x \in s : TRUE
      BY <2>2
    <3>2. IsFiniteSet(s) /\ IsFiniteSet(s \ {x})
      BY FS_Subset
    <3>3. IsFiniteSet(s \cup T)
      BY <3>2, FS_Union
    <3>4. SumOver(f, s) = f[x] + SumOver(f, s \ {x})
      BY <3>1, <3>2, SumRemove
    <3>5. SumOver(f, s \cup T) = f[x] + SumOver(f, (s \cup T) \ {x})
      BY <3>1, <3>3, SumRemove
    <3>6. SumOver(f, (s \cup T) \ {x}) = SumOver(f, (s \ {x}) \cup T)
      <4>1. (s \cup T) \ {x} = (s \ {x}) \cup T
        BY <3>1
      <4> QED BY <4>1
    <3>7. SumOver(f, (s \ {x}) \cup T) = SumOver(f, s \ {x}) + SumOver(f, T)
      BY <1>1, <3>1
    <3>8. SumOver(f, s \ {x}) \in Int /\ f[x] \in Int
      BY <3>1, <3>2, SumType
    <3>9. SumOver(f, s \cup T) = SumOver(f, s) + SumOver(f, T)
      BY <1>0, <3>4, <3>5, <3>6, <3>7, <3>8
    <3> QED BY <3>9
  <2> QED BY <2>1, <2>2
<1>2. SUBSET S \subseteq P
  <2> HIDE DEF P
  <2> QED BY <1>1, SubsetInduction
<1> QED BY <1>2

\* A sum of zeros.
LEMMA SumZero ==
  ASSUME NEW S, IsFiniteSet(S), NEW f, \A x \in S : f[x] = 0
  PROVE  SumOver(f, S) = 0
<1> DEFINE P == {s \in SUBSET S : SumOver(f, s) = 0}
<1>1. ASSUME NEW s \in SUBSET S, \A x \in s : s \ {x} \in P PROVE s \in P
  <2>1. CASE s = {}
    BY <2>1, SumEmpty
  <2>2. CASE s # {}
    <3>1. PICK x \in s : TRUE
      BY <2>2
    <3>2. IsFiniteSet(s)
      BY FS_Subset
    <3>3. SumOver(f, s) = f[x] + SumOver(f, s \ {x})
      BY <3>1, <3>2, SumRemove
    <3> QED BY <1>1, <3>1, <3>3
  <2> QED BY <2>1, <2>2
<1>2. SUBSET S \subseteq P
  <2> HIDE DEF P
  <2> QED BY <1>1, SubsetInduction
<1> QED BY <1>2

\* A sum of naturals is a natural, and no smaller than the sum over a part of the set.
LEMMA SumNat ==
  ASSUME NEW S, IsFiniteSet(S), NEW f, \A x \in S : f[x] \in Nat
  PROVE  SumOver(f, S) \in Nat
<1> DEFINE z == [x \in S |-> 0]
<1>1. SumOver(z, S) = 0
  BY SumZero
<1>2. SumOver(z, S) <= SumOver(f, S)
  BY SumMonotone
<1>3. SumOver(f, S) \in Int
  BY SumType
<1> QED BY <1>1, <1>2, <1>3

\* A sum is that over a part of the set and that over the rest.
LEMMA SumSplit ==
  ASSUME NEW S, IsFiniteSet(S), NEW T \in SUBSET S, NEW f, \A x \in S : f[x] \in Int
  PROVE  SumOver(f, S) = SumOver(f, T) + SumOver(f, S \ T)
<1>1. IsFiniteSet(T) /\ IsFiniteSet(S \ T)
  BY FS_Subset
<1>2. T \cup (S \ T) = S /\ T \cap (S \ T) = {}
  OBVIOUS
<1> HIDE <1>2
<1>3. SumOver(f, T \cup (S \ T)) = SumOver(f, T) + SumOver(f, S \ T)
  BY <1>1, <1>2, SumUnion
<1> QED BY <1>2, <1>3

\* The sum of a sum of two functions.
LEMMA SumPlus ==
  ASSUME NEW S, IsFiniteSet(S), NEW f, NEW g, NEW h,
         \A x \in S : f[x] \in Int /\ g[x] \in Int /\ h[x] = f[x] + g[x]
  PROVE  SumOver(h, S) = SumOver(f, S) + SumOver(g, S)
<1> DEFINE P == {s \in SUBSET S : SumOver(h, s) = SumOver(f, s) + SumOver(g, s)}
<1>1. ASSUME NEW s \in SUBSET S, \A x \in s : s \ {x} \in P PROVE s \in P
  <2>1. CASE s = {}
    <3>1. SumOver(h, s) = 0 /\ SumOver(f, s) = 0 /\ SumOver(g, s) = 0
      BY <2>1, SumEmpty
    <3> QED BY <3>1
  <2>2. CASE s # {}
    <3>1. PICK x \in s : TRUE
      BY <2>2
    <3>2. IsFiniteSet(s) /\ IsFiniteSet(s \ {x})
      BY FS_Subset
    <3>3. /\ SumOver(f, s) = f[x] + SumOver(f, s \ {x})
          /\ SumOver(f, s \ {x}) \in Int
      BY <3>1, <3>2, SumRemove, SumType
    <3>4. /\ SumOver(g, s) = g[x] + SumOver(g, s \ {x})
          /\ SumOver(g, s \ {x}) \in Int
      BY <3>1, <3>2, SumRemove, SumType
    <3>5. SumOver(h, s) = h[x] + SumOver(h, s \ {x})
      BY <3>1, <3>2, SumRemove
    <3>6. SumOver(h, s \ {x}) = SumOver(f, s \ {x}) + SumOver(g, s \ {x})
      BY <1>1, <3>1
    <3>7. f[x] \in Int /\ g[x] \in Int /\ h[x] = f[x] + g[x]
      BY <3>1
    <3>9. SumOver(h, s) = SumOver(f, s) + SumOver(g, s)
      BY <3>3, <3>4, <3>5, <3>6, <3>7
    <3> QED BY <3>9
  <2> QED BY <2>1, <2>2
<1>2. SUBSET S \subseteq P
  <2> HIDE DEF P
  <2> QED BY <1>1, SubsetInduction
<1> QED BY <1>2

\* The sum of the multiples of a function.
LEMMA SumScale ==
  ASSUME NEW S, IsFiniteSet(S), NEW c \in Int, NEW f, NEW h,
         \A x \in S : f[x] \in Int /\ h[x] = c * f[x]
  PROVE  SumOver(h, S) = c * SumOver(f, S)
<1> DEFINE P == {s \in SUBSET S : SumOver(h, s) = c * SumOver(f, s)}
<1>1. ASSUME NEW s \in SUBSET S, \A x \in s : s \ {x} \in P PROVE s \in P
  <2>1. CASE s = {}
    <3>1. SumOver(h, s) = 0 /\ SumOver(f, s) = 0
      BY <2>1, SumEmpty
    <3> QED BY <3>1
  <2>2. CASE s # {}
    <3>1. PICK x \in s : TRUE
      BY <2>2
    <3>2. IsFiniteSet(s) /\ IsFiniteSet(s \ {x})
      BY FS_Subset
    <3>3. /\ SumOver(f, s) = f[x] + SumOver(f, s \ {x})
          /\ SumOver(f, s \ {x}) \in Int
      BY <3>1, <3>2, SumRemove, SumType
    <3>4. \A a, b \in Int : c * (a + b) = c * a + c * b
      OBVIOUS
    <3>5. SumOver(h, s) = h[x] + SumOver(h, s \ {x})
      BY <3>1, <3>2, SumRemove
    <3>6. SumOver(h, s \ {x}) = c * SumOver(f, s \ {x})
      BY <1>1, <3>1
    <3>7. f[x] \in Int /\ h[x] = c * f[x]
      BY <3>1
    <3>9. SumOver(h, s) = c * SumOver(f, s)
      BY <3>3, <3>4, <3>5, <3>6, <3>7
    <3> QED BY <3>9
  <2> QED BY <2>1, <2>2
<1>2. SUBSET S \subseteq P
  <2> HIDE DEF P
  <2> QED BY <1>1, SubsetInduction
<1> QED BY <1>2

\* The elements of K fall into the groups G[m], m \in S: k[x] is the group of x.
Grouped(K, S, k, G) ==
  /\ \A x \in K : k[x] \in S
  /\ \A m \in S : G[m] \subseteq K /\ \A x \in K : x \in G[m] <=> k[x] = m

\* Adding up by groups: g has the sum of each.
LEMMA SumByGroup ==
  ASSUME NEW S, NEW K, IsFiniteSet(S), IsFiniteSet(K), NEW k, NEW G, Grouped(K, S, k, G),
         NEW f, \A x \in K : f[x] \in Int,
         NEW g, \A m \in S : g[m] = SumOver(f, G[m])
  PROVE  SumOver(g, S) = SumOver(f, K)
<1> USE DEF Grouped
<1> DEFINE In(s) == {x \in K : k[x] \in s}
<1>0. \A m \in S : g[m] \in Int
  <2>1. TAKE m \in S
  <2>2. IsFiniteSet(G[m])
    BY FS_Subset
  <2> QED BY <2>2, SumType
<1> DEFINE P == {s \in SUBSET S : SumOver(g, s) = SumOver(f, In(s))}
<1>1. ASSUME NEW s \in SUBSET S, \A x \in s : s \ {x} \in P PROVE s \in P
  <2>1. CASE s = {}
    <3>1. In(s) = {} /\ SumOver(g, s) = 0 /\ SumOver(f, {}) = 0
      BY <2>1, SumEmpty
    <3> QED BY <3>1
  <2>2. CASE s # {}
    <3>1. PICK x \in s : TRUE
      BY <2>2
    <3>2. IsFiniteSet(s) /\ IsFiniteSet(s \ {x})
      BY FS_Subset
    <3> DEFINE own == G[x]
               rest == In(s \ {x})
    <3>3. IsFiniteSet(own) /\ IsFiniteSet(rest)
      BY <3>1, FS_Subset
    <3>4. In(s) = own \cup rest /\ own \cap rest = {}
      BY <3>1
    <3>5. SumOver(f, own \cup rest) = SumOver(f, own) + SumOver(f, rest)
      BY <3>3, <3>4, SumUnion
    <3>6. SumOver(g, s) = g[x] + SumOver(g, s \ {x})
      BY <1>0, <3>1, <3>2, SumRemove
    <3>7. SumOver(g, s \ {x}) = SumOver(f, rest)
      BY <1>1, <3>1
    <3>8. g[x] = SumOver(f, own)
      BY <3>1
    <3> HIDE DEF own, rest
    <3>9. SumOver(g, s) = SumOver(f, In(s))
      <4> HIDE DEF In
      <4> QED BY <3>4, <3>5, <3>6, <3>7, <3>8
    <3> QED BY <3>9
  <2> QED BY <2>1, <2>2
<1>2. SUBSET S \subseteq P
  <2> HIDE DEF P
  <2> QED BY <1>1, SubsetInduction
<1>3. In(S) = K
  OBVIOUS
<1> QED BY <1>2, <1>3

\* A sum of ones counts the set.
LEMMA SumOnes ==
  ASSUME NEW S, IsFiniteSet(S), NEW f, \A x \in S : f[x] = 1
  PROVE  SumOver(f, S) = Cardinality(S)
<1> DEFINE P == {s \in SUBSET S : SumOver(f, s) = Cardinality(s)}
<1>1. ASSUME NEW s \in SUBSET S, \A x \in s : s \ {x} \in P PROVE s \in P
  <2>1. CASE s = {}
    <3>1. SumOver(f, s) = 0 /\ Cardinality(s) = 0
      BY <2>1, SumEmpty, FS_EmptySet
    <3> QED BY <3>1
  <2>2. CASE s # {}
    <3>1. PICK x \in s : TRUE
      BY <2>2
    <3>2. IsFiniteSet(s) /\ Cardinality(s) \in Nat /\ Cardinality(s \ {x}) = Cardinality(s) - 1
      BY <3>1, SubsetFacts
    <3>3. SumOver(f, s) = f[x] + SumOver(f, s \ {x})
      BY <3>1, <3>2, SumRemove
    <3>4. SumOver(f, s \ {x}) = Cardinality(s \ {x}) /\ f[x] = 1
      BY <1>1, <3>1
    <3>5. SumOver(f, s) = Cardinality(s)
      BY <3>2, <3>3, <3>4
    <3> QED BY <3>5
  <2> QED BY <2>1, <2>2
<1>2. SUBSET S \subseteq P
  <2> HIDE DEF P
  <2> QED BY <1>1, SubsetInduction
<1> QED BY <1>2

\* A sum of naturals over a part of a set is at most that over the set.
LEMMA SumPart ==
  ASSUME NEW S, IsFiniteSet(S), NEW T \in SUBSET S, NEW f, \A x \in S : f[x] \in Nat,
         NEW g, \A x \in T : g[x] = f[x]
  PROVE  SumOver(g, T) <= SumOver(f, S) /\ SumOver(g, T) \in Nat /\ SumOver(f, S) \in Nat
<1>1. IsFiniteSet(T) /\ IsFiniteSet(S \ T)
  BY FS_Subset
<1>2. /\ \A x \in S : f[x] \in Int
      /\ \A x \in T : f[x] \in Nat
      /\ \A x \in T : g[x] \in Int /\ g[x] = f[x]
      /\ \A x \in S \ T : f[x] \in Nat
  OBVIOUS
<1>3. SumOver(f, S) = SumOver(f, T) + SumOver(f, S \ T)
  BY <1>2, SumSplit
<1>4. SumOver(g, T) = SumOver(f, T)
  BY <1>1, <1>2, SumAgree
<1>5. SumOver(f, T) \in Nat
  BY <1>1, <1>2, SumNat
<1>6. SumOver(f, S \ T) \in Nat
  BY <1>1, <1>2, SumNat
<1> QED BY <1>3, <1>4, <1>5, <1>6
=============================================================================
