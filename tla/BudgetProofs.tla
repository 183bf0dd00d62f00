------------------------------ MODULE BudgetProofs ---------------------------
(***************************************************************************)
(* What the budget guard of a run is good for.  It covers what the job     *)
(* document reports as paid, on a job that is resumed as well; and with    *)
(* one job that is neither stopped nor killed nor loses a reply it covers  *)
(* what the platform charges, which then exceeds the budget by one step at *)
(* most.                                                                   *)
(***************************************************************************)
EXTENDS LeaseProofs, LedgerProofs

-----------------------------------------------------------------------------
(* Sums.  SumOver is a fold: it takes an element, adds what is left, and   *)
(* so on.  What it computes is proved by looking at a smallest set for     *)
(* which it would be wrong.                                                *)

\* A set of subsets of a finite set has a smallest element.
LEMMA SmallestSubset ==
  ASSUME NEW S, IsFiniteSet(S), NEW B \in SUBSET SUBSET S, B # {}
  PROVE  \E T \in B : \A U \in B : U \subseteq T => U = T
<1>1. FiniteSubsetsOf(S) = SUBSET S
  BY FS_FiniteSubsetsOfFinite
<1>2. IsWellFoundedOn(StrictSubsetOrdering(S), SUBSET S)
  BY <1>1, FS_StrictSubsetOrderingWellFounded
<1>3. PICK T \in B : \A U \in B : ~(<<U, T>> \in StrictSubsetOrdering(S))
  BY <1>2, WFMin
<1>4. ASSUME NEW U \in B, U \subseteq T PROVE U = T
  BY <1>3, <1>4 DEF StrictSubsetOrdering
<1> QED
  BY <1>4

\* So a collection that holds the empty set, and every set all of whose sets of one
\* element less it holds, holds them all.
LEMMA SubsetInduction ==
  ASSUME NEW S, IsFiniteSet(S), NEW Good \in SUBSET SUBSET S, {} \in Good,
         \A s \in SUBSET S : s # {} /\ (\A a \in s : s \ {a} \in Good) => s \in Good
  PROVE  Good = SUBSET S
<1> DEFINE B == (SUBSET S) \ Good
<1> SUFFICES ASSUME B # {} PROVE FALSE
  OBVIOUS
<1>1. B \in SUBSET SUBSET S
  OBVIOUS
<1> HIDE DEF B
<1>2. PICK s \in B : \A u \in B : u \subseteq s => u = s
  BY <1>1, SmallestSubset
<1>3. s \in SUBSET S /\ s # {} /\ s \notin Good
  BY DEF B
<1>4. ASSUME NEW a \in s PROVE s \ {a} \in Good
  <2>1. s \ {a} \subseteq s /\ s \ {a} # s /\ s \ {a} \in SUBSET S
    BY <1>3
  <2> QED
    BY <1>2, <2>1 DEF B
<1> QED
  BY <1>3, <1>4

\* A set of numbers has a smallest element.
LEMMA SmallestNumber ==
  ASSUME NEW B \in SUBSET Nat, B # {}
  PROVE  \E n \in B : \A m \in B : n <= m
<1> DEFINE Less == {p \in Nat \X Nat : p[1] < p[2]}
<1>1. OpToRel(<, Nat) = Less
  BY Zenon DEF OpToRel
<1>2. IsWellFoundedOn(Less, Nat)
  BY <1>1, NatLessThanWellFounded, Zenon
<1>3. PICK n \in B : \A m \in B : ~(<<m, n>> \in Less)
  BY <1>2, WFMin
<1>4. ASSUME NEW m \in B PROVE n <= m
  <2>1. m \in Nat /\ n \in Nat
    OBVIOUS
  <2>2. <<m, n>> \in Less <=> m < n
    BY <2>1
  <2> QED
    BY <1>3, <2>1, <2>2
<1> QED
  BY <1>4

\* The fold, as a function of the sets it has still to add up.
Pick(s) == CHOOSE x \in s : TRUE
Unfolded(f, S, g) ==
  g = [s \in SUBSET S |-> IF s = {} THEN 0 ELSE f[Pick(s)] + g[s \ {Pick(s)}]]
Partial(f, S) == CHOOSE g : Unfolded(f, S, g)

LEMMA SumIsPartial ==
  ASSUME NEW S, NEW f, DOMAIN f = S
  PROVE  SumOver(f) = Partial(f, S)[S]
<1>1. SumOver(f) = SumFunctionOnSet(f, S)
  BY DEF SumOver, SumFunction
<1>2. SumFunctionOnSet(f, S) = Partial(f, S)[S]
  BY Zenon DEF SumFunctionOnSet, FoldFunctionOnSet, MapThenFoldSet, Partial, Unfolded, Pick
<1> QED
  BY <1>1, <1>2

LEMMA Picked == \A s : s # {} => Pick(s) \in s
BY DEF Pick

\* It is a function indeed: it can be computed for sets of one more element at a time.
LEMMA PartialExists ==
  ASSUME NEW S, IsFiniteSet(S), NEW f \in [S -> Int]
  PROVE  Unfolded(f, S, Partial(f, S))
<1> DEFINE Sound(g, n) == \A s \in SUBSET S : Cardinality(s) <= n =>
             g[s] = IF s = {} THEN 0 ELSE f[Pick(s)] + g[s \ {Pick(s)}]
           Upto(n) == \E g \in [SUBSET S -> Int] : Sound(g, n)
           Bad == {n \in Nat : ~Upto(n)}
<1>1. \A s \in SUBSET S : Cardinality(s) \in Nat /\ (Cardinality(s) = 0 <=> s = {})
  BY FS_Subset, FS_CardinalityType, FS_EmptySet
<1>2. \A s \in SUBSET S : s # {} =>
        Pick(s) \in s /\ Cardinality(s \ {Pick(s)}) = Cardinality(s) - 1
  BY FS_Subset, FS_RemoveElement, Picked
<1>3. Upto(0)
  <2>1. [s \in SUBSET S |-> 0] \in [SUBSET S -> Int]
    OBVIOUS
  <2>2. Sound([s \in SUBSET S |-> 0], 0)
    BY <1>1
  <2> QED
    BY <2>1, <2>2
<1>4. ASSUME NEW n \in Nat, Upto(n) PROVE Upto(n + 1)
  <2>1. PICK g \in [SUBSET S -> Int] : Sound(g, n)
    BY <1>4
  <2> DEFINE h == [s \in SUBSET S |-> IF s = {} THEN 0 ELSE f[Pick(s)] + g[s \ {Pick(s)}]]
  <2>2. h \in [SUBSET S -> Int]
    <3>1. ASSUME NEW s \in SUBSET S, s # {} PROVE f[Pick(s)] + g[s \ {Pick(s)}] \in Int
      <4>1. Pick(s) \in S
        BY <1>2, <3>1
      <4>2. s \ {Pick(s)} \in SUBSET S
        OBVIOUS
      <4>3. f[Pick(s)] \in Int /\ g[s \ {Pick(s)}] \in Int
        BY <4>1, <4>2
      <4> QED
        BY <4>3
    <3> QED
      BY <3>1
  <2>3. \A s \in SUBSET S : Cardinality(s) <= n => h[s] = g[s]
    BY <2>1
  <2>4. ASSUME NEW s \in SUBSET S, Cardinality(s) <= n + 1
        PROVE  h[s] = IF s = {} THEN 0 ELSE f[Pick(s)] + h[s \ {Pick(s)}]
    <3>1. CASE s = {}
      BY <3>1
    <3>2. CASE s # {}
      <4> DEFINE t == s \ {Pick(s)}
      <4>1. t \in SUBSET S /\ Cardinality(t) <= n
        BY <1>1, <1>2, <2>4, <3>2
      <4>2. h[t] = g[t]
        BY <2>3, <4>1
      <4> QED
        BY <3>2, <4>2
    <3> QED
      BY <3>1, <3>2
  <2> QED
    BY <2>2, <2>4
<1>5. Bad = {}
  <2> SUFFICES ASSUME Bad # {} PROVE FALSE
    OBVIOUS
  <2> HIDE DEF Upto
  <2>1. PICK n \in Bad : \A m \in Bad : n <= m
    BY SmallestNumber
  <2>2. n \in Nat /\ n # 0 /\ ~Upto(n)
    BY <1>3
  <2>3. n - 1 \in Nat /\ n - 1 \notin Bad
    BY <2>1, <2>2
  <2>4. Upto(n - 1)
    BY <2>3
  <2>5. Upto((n - 1) + 1)
    BY <1>4, <2>3, <2>4
  <2> QED
    BY <2>2, <2>5
<1>6. Upto(Cardinality(S))
  <2>1. Cardinality(S) \in Nat
    BY FS_CardinalityType
  <2> HIDE DEF Upto
  <2> QED
    BY <1>5, <2>1
<1>7. PICK g \in [SUBSET S -> Int] : Sound(g, Cardinality(S))
  BY <1>6
<1>8. \A s \in SUBSET S : Cardinality(s) <= Cardinality(S)
  BY FS_Subset
<1>9. Unfolded(f, S, g)
  BY <1>7, <1>8 DEF Unfolded
<1> QED
  BY <1>9 DEF Partial

\* What it has added up for a set is a number, the same one whatever larger set it
\* is on its way to.
LEMMA PartialIsInteger ==
  ASSUME NEW S, IsFiniteSet(S), NEW f \in [S -> Int], NEW g, Unfolded(f, S, g)
  PROVE  g \in [SUBSET S -> Int]
<1> DEFINE Good == {s \in SUBSET S : g[s] \in Int}
<1>1. /\ g = [s \in SUBSET S |-> g[s]]
      /\ \A s \in SUBSET S : g[s] = IF s = {} THEN 0 ELSE f[Pick(s)] + g[s \ {Pick(s)}]
  BY DEF Unfolded
<1>2. Good \in SUBSET SUBSET S /\ {} \in Good
  <2>1. {} \in SUBSET S /\ g[{}] = 0
    BY <1>1
  <2> QED
    BY <2>1
<1>3. ASSUME NEW s \in SUBSET S, s # {}, \A a \in s : s \ {a} \in Good PROVE s \in Good
  <2>1. Pick(s) \in s /\ Pick(s) \in S
    BY <1>3, Picked
  <2>2. g[s \ {Pick(s)}] \in Int /\ f[Pick(s)] \in Int
    BY <1>3, <2>1
  <2>3. g[s] = f[Pick(s)] + g[s \ {Pick(s)}]
    BY <1>1, <1>3
  <2>4. g[s] \in Int
    BY <2>2, <2>3
  <2> QED
    BY <2>4
<1> HIDE DEF Good
<1>4. Good = SUBSET S
  BY <1>2, <1>3, SubsetInduction
<1> QED
  BY <1>1, <1>4 DEF Good

LEMMA PartialIsSum ==
  ASSUME NEW S, IsFiniteSet(S), NEW f \in [S -> Int], NEW T \in SUBSET S
  PROVE  SumOver([x \in T |-> f[x]]) = Partial(f, S)[T]
<1> DEFINE h == [x \in T |-> f[x]]
           F == Partial(f, S)
           H == Partial(h, T)
           Good == {s \in SUBSET T : F[s] = H[s]}
<1>1. h \in [T -> Int] /\ DOMAIN h = T /\ IsFiniteSet(T)
  BY FS_Subset
<1>2. Unfolded(f, S, F) /\ Unfolded(h, T, H)
  BY <1>1, PartialExists
<1>3. SumOver(h) = H[T]
  BY <1>1, SumIsPartial
<1> HIDE DEF F, H, h
<1>4. \A s \in SUBSET S : F[s] = IF s = {} THEN 0 ELSE f[Pick(s)] + F[s \ {Pick(s)}]
  BY <1>2 DEF Unfolded
<1>5. \A s \in SUBSET T : H[s] = IF s = {} THEN 0 ELSE h[Pick(s)] + H[s \ {Pick(s)}]
  BY <1>2 DEF Unfolded
<1>6. Good \in SUBSET SUBSET T /\ {} \in Good
  BY <1>4, <1>5
<1>7. ASSUME NEW s \in SUBSET T, s # {}, \A a \in s : s \ {a} \in Good PROVE s \in Good
  <2>1. Pick(s) \in s /\ Pick(s) \in T
    BY <1>7, Picked
  <2>2. F[s \ {Pick(s)}] = H[s \ {Pick(s)}] /\ f[Pick(s)] = h[Pick(s)]
    BY <1>7, <2>1 DEF h
  <2>3. F[s] = H[s]
    BY <1>4, <1>5, <1>7, <2>2
  <2> QED
    BY <2>3
<1> HIDE DEF Good
<1>8. Good = SUBSET T
  <2>1. IsFiniteSet(T)
    BY <1>1
  <2> QED
    BY <2>1, <1>6, <1>7, SubsetInduction
<1>9. F[T] = H[T]
  BY <1>8 DEF Good
<1> QED
  BY <1>3, <1>9 DEF F, h

\* Whichever element is taken out first.
LEMMA PartialRemoves ==
  ASSUME NEW S, IsFiniteSet(S), NEW f \in [S -> Int]
  PROVE  \A s \in SUBSET S : \A x \in s :
           Partial(f, S)[s] = f[x] + Partial(f, S)[s \ {x}]
<1> DEFINE F == Partial(f, S)
           Good == {s \in SUBSET S : \A x \in s : F[s] = f[x] + F[s \ {x}]}
<1>1. Unfolded(f, S, F)
  BY PartialExists
<1>2. F \in [SUBSET S -> Int]
  BY <1>1, PartialIsInteger
<1> HIDE DEF F
<1>3. \A s \in SUBSET S : s # {} => F[s] = f[Pick(s)] + F[s \ {Pick(s)}]
  BY <1>1 DEF Unfolded
<1>4. Good \in SUBSET SUBSET S /\ {} \in Good
  OBVIOUS
<1>5. ASSUME NEW s \in SUBSET S, s # {}, \A a \in s : s \ {a} \in Good,
             NEW x \in s, x # Pick(s)
      PROVE  F[s] = f[x] + F[s \ {x}]
  <2> DEFINE y == Pick(s)
             t == (s \ {x}) \ {y}
  <2>1. y \in s /\ y \in S /\ x \in S /\ x # y
    BY <1>5, Picked
  <2>2. F[s] = f[y] + F[s \ {y}]
    BY <1>3, <1>5
  <2> HIDE DEF y
  <2>3. F[s \ {x}] = f[y] + F[t]
    BY <1>5, <2>1
  <2>4. (s \ {y}) \ {x} = t
    OBVIOUS
  <2>5. F[s \ {y}] = f[x] + F[t]
    BY <1>5, <2>1, <2>4
  <2>6. F[t] \in Int /\ f[x] \in Int /\ f[y] \in Int
    BY <1>2, <2>1
  <2> HIDE DEF t
  <2> QED
    BY <2>2, <2>3, <2>5, <2>6
<1>6. ASSUME NEW s \in SUBSET S, s # {}, \A a \in s : s \ {a} \in Good PROVE s \in Good
  BY <1>3, <1>5, <1>6
<1> HIDE DEF Good
<1>7. Good = SUBSET S
  BY <1>4, <1>6, SubsetInduction
<1> QED
  BY <1>7 DEF F, Good

LEMMA PartialOfNone ==
  ASSUME NEW S, IsFiniteSet(S), NEW f \in [S -> Int]
  PROVE  Partial(f, S)[{}] = 0
BY PartialExists DEF Unfolded

-----------------------------------------------------------------------------
(* What the proofs below use of sums.                                      *)

\* Adding up in any order: one summand may be taken out first.
LEMMA SumWithout ==
  ASSUME NEW S, IsFiniteSet(S), NEW f \in [S -> Int], NEW a \in S
  PROVE  /\ SumOver(f) \in Int
         /\ SumOver([x \in S \ {a} |-> f[x]]) \in Int
         /\ SumOver(f) = f[a] + SumOver([x \in S \ {a} |-> f[x]])
<1> DEFINE F == Partial(f, S)
<1>1. F \in [SUBSET S -> Int]
  BY PartialExists, PartialIsInteger
<1>2. F[S] = f[a] + F[S \ {a}]
  BY PartialRemoves
<1>3. SumOver(f) = F[S]
  BY SumIsPartial
<1>4. SumOver([x \in S \ {a} |-> f[x]]) = F[S \ {a}]
  BY PartialIsSum
<1> QED
  BY <1>1, <1>2, <1>3, <1>4

\* Of two sums over the same set, the one with the larger summands is larger.
LEMMA SumIsMonotone ==
  ASSUME NEW S, IsFiniteSet(S), NEW f \in [S -> Int], NEW g \in [S -> Int],
         \A x \in S : f[x] <= g[x]
  PROVE  /\ SumOver(f) \in Int /\ SumOver(g) \in Int
         /\ SumOver(f) <= SumOver(g)
<1> DEFINE F == Partial(f, S)
           G == Partial(g, S)
           Good == {s \in SUBSET S : F[s] <= G[s]}
<1>1. F \in [SUBSET S -> Int] /\ G \in [SUBSET S -> Int]
  BY PartialExists, PartialIsInteger
<1>2. /\ \A s \in SUBSET S : \A a \in s : F[s] = f[a] + F[s \ {a}]
      /\ \A s \in SUBSET S : \A a \in s : G[s] = g[a] + G[s \ {a}]
  BY PartialRemoves
<1>3. F[{}] = 0 /\ G[{}] = 0
  BY PartialOfNone
<1>4. SumOver(f) = F[S] /\ SumOver(g) = G[S]
  BY SumIsPartial
<1> HIDE DEF F, G
<1>5. Good \in SUBSET SUBSET S /\ {} \in Good
  BY <1>3
<1>6. ASSUME NEW s \in SUBSET S, s # {}, \A a \in s : s \ {a} \in Good PROVE s \in Good
  <2>1. PICK a \in s : a \in S
    BY <1>6
  <2>2. F[s \ {a}] <= G[s \ {a}] /\ s \ {a} \in SUBSET S
    BY <1>6, <2>1
  <2>3. /\ F[s] = f[a] + F[s \ {a}] /\ G[s] = g[a] + G[s \ {a}]
        /\ f[a] \in Int /\ g[a] \in Int /\ f[a] <= g[a]
        /\ F[s \ {a}] \in Int /\ G[s \ {a}] \in Int
    BY <1>1, <1>2, <2>1, <2>2
  <2>4. F[s] <= G[s]
    BY <2>2, <2>3
  <2> QED
    BY <2>4
<1> HIDE DEF Good
<1>7. Good = SUBSET S
  BY <1>5, <1>6, SubsetInduction
<1> QED
  BY <1>1, <1>4, <1>7 DEF Good

\* Nothing added up is nothing.
LEMMA SumOfZeros ==
  ASSUME NEW S, IsFiniteSet(S), NEW f \in [S -> Int], \A x \in S : f[x] = 0
  PROVE  SumOver(f) = 0
<1> DEFINE F == Partial(f, S)
           Good == {s \in SUBSET S : F[s] = 0}
<1>1. \A s \in SUBSET S : \A a \in s : F[s] = f[a] + F[s \ {a}]
  BY PartialRemoves
<1>2. F[{}] = 0
  BY PartialOfNone
<1>3. SumOver(f) = F[S]
  BY SumIsPartial
<1> HIDE DEF F
<1>4. Good \in SUBSET SUBSET S /\ {} \in Good
  BY <1>2
<1>5. ASSUME NEW s \in SUBSET S, s # {}, \A a \in s : s \ {a} \in Good PROVE s \in Good
  <2>1. PICK a \in s : a \in S
    BY <1>5
  <2>2. F[s \ {a}] = 0 /\ F[s] = f[a] + F[s \ {a}] /\ f[a] = 0
    BY <1>1, <1>5, <2>1
  <2> QED
    BY <2>2
<1> HIDE DEF Good
<1>6. Good = SUBSET S
  BY <1>4, <1>5, SubsetInduction
<1> QED
  BY <1>3, <1>6 DEF Good

\* Changing one summand changes the sum by as much.
LEMMA SumChanges ==
  ASSUME NEW S, IsFiniteSet(S), NEW f \in [S -> Int], NEW g \in [S -> Int],
         NEW a \in S, \A x \in S \ {a} : g[x] = f[x]
  PROVE  /\ SumOver(f) \in Int /\ SumOver(g) \in Int
         /\ SumOver(g) = SumOver(f) + g[a] - f[a]
<1> DEFINE rest == SumOver([x \in S \ {a} |-> f[x]])
<1>1. [x \in S \ {a} |-> f[x]] = [x \in S \ {a} |-> g[x]]
  OBVIOUS
<1>2. rest \in Int /\ SumOver(f) = f[a] + rest
  BY SumWithout
<1>3. SumOver(g) = g[a] + rest
  <2>1. SumOver(g) = g[a] + SumOver([x \in S \ {a} |-> g[x]])
    BY SumWithout, ZenonT(40)
  <2> QED
    BY <1>1, <2>1
<1>4. f[a] \in Int /\ g[a] \in Int
  OBVIOUS
<1> HIDE DEF rest
<1> QED
  BY <1>2, <1>3, <1>4

\* A sum of natural numbers is one, and no summand is larger.
LEMMA SumOfNaturals ==
  ASSUME NEW S, IsFiniteSet(S), NEW f \in [S -> Nat]
  PROVE  SumOver(f) \in Nat /\ \A a \in S : f[a] <= SumOver(f)
<1> DEFINE Zero(T) == [x \in T |-> 0]
<1>1. ASSUME NEW T, IsFiniteSet(T), NEW g \in [T -> Nat] PROVE SumOver(g) \in Nat
  <2>1. Zero(T) \in [T -> Int] /\ g \in [T -> Int] /\ \A x \in T : Zero(T)[x] <= g[x]
    OBVIOUS
  <2>2. SumOver(Zero(T)) = 0
    BY <1>1, <2>1, SumOfZeros
  <2>3. SumOver(g) \in Int /\ SumOver(Zero(T)) <= SumOver(g)
    BY <1>1, <2>1, SumIsMonotone
  <2> QED
    BY <2>2, <2>3
<1>2. ASSUME NEW a \in S PROVE f[a] <= SumOver(f)
  <2>1. IsFiniteSet(S \ {a}) /\ [x \in S \ {a} |-> f[x]] \in [S \ {a} -> Nat]
    BY FS_RemoveElement
  <2>2. SumOver([x \in S \ {a} |-> f[x]]) \in Nat
    BY <1>1, <2>1
  <2>3. f \in [S -> Int] /\ f[a] \in Nat
    OBVIOUS
  <2>4. SumOver(f) = f[a] + SumOver([x \in S \ {a} |-> f[x]])
    BY <2>3, SumWithout
  <2> QED
    BY <2>2, <2>3, <2>4
<1> QED
  BY <1>1, <1>2

\* A part of a sum of natural numbers is not larger.
LEMMA SumOfPart ==
  ASSUME NEW S, IsFiniteSet(S), NEW f \in [S -> Nat], NEW T \in SUBSET S
  PROVE  SumOver([x \in T |-> f[x]]) <= SumOver(f)
<1> DEFINE F == Partial(f, S)
           Good == {u \in SUBSET (S \ T) : F[T] <= F[T \cup u]}
<1>0. f \in [S -> Int]
  OBVIOUS
<1>1. /\ F \in [SUBSET S -> Int]
      /\ \A s \in SUBSET S : \A a \in s : F[s] = f[a] + F[s \ {a}]
  BY <1>0, PartialExists, PartialIsInteger, PartialRemoves
<1>2. SumOver(f) = F[S] /\ SumOver([x \in T |-> f[x]]) = F[T]
  BY <1>0, SumIsPartial, PartialIsSum
<1>3. IsFiniteSet(S \ T)
  BY FS_Subset
<1> HIDE DEF F
<1>4. Good \in SUBSET SUBSET (S \ T) /\ {} \in Good
  <2>1. T \cup {} = T /\ F[T] \in Int
    BY <1>1
  <2> QED
    BY <2>1
<1>5. ASSUME NEW u \in SUBSET (S \ T), u # {}, \A a \in u : u \ {a} \in Good PROVE u \in Good
  <2>1. PICK a \in u : a \in S /\ a \notin T
    BY <1>5
  <2>2. (T \cup u) \ {a} = T \cup (u \ {a}) /\ T \cup u \in SUBSET S
        /\ T \cup (u \ {a}) \in SUBSET S
    BY <2>1
  <2>3. F[T \cup u] = f[a] + F[T \cup (u \ {a})] /\ f[a] \in Nat
    BY <1>1, <2>1, <2>2
  <2>4. F[T] <= F[T \cup (u \ {a})]
    BY <1>5, <2>1
  <2>5. F[T \cup (u \ {a})] \in Int /\ F[T] \in Int
    BY <1>1, <2>2
  <2>6. F[T] <= F[T \cup u]
    BY <2>3, <2>4, <2>5
  <2> QED
    BY <2>6
<1> HIDE DEF Good
<1>6. Good = SUBSET (S \ T)
  BY <1>3, <1>4, <1>5, SubsetInduction
<1>7. T \cup (S \ T) = S
  OBVIOUS
<1>8. S \ T \in Good
  BY <1>6
<1>9. F[T] <= F[S]
  BY <1>7, <1>8 DEF Good
<1> QED
  BY <1>2, <1>9

-----------------------------------------------------------------------------
(* What a document reports.                                                *)

\* What the steps of S have cost, as the document has it.
Worth(doc, S) == SumOver([s \in S |-> doc.step[s].cost])

LEMMA StepsFinite == IsFiniteSet(Steps) /\ \A S \in SUBSET Steps : IsFiniteSet(S)
<1>1. IsFiniteSet(Steps)
  BY PlanType, FS_Interval DEF Steps
<1> QED
  BY <1>1, FS_Subset

LEMMA WorthIsNatural ==
  ASSUME NEW doc \in JobDoc, NEW S \in SUBSET Steps
  PROVE  Worth(doc, S) \in Nat
<1>1. [s \in S |-> doc.step[s].cost] \in [S -> Nat]
  BY DEF JobDoc, StepDoc
<1> QED
  BY <1>1, StepsFinite, SumOfNaturals DEF Worth

\* Documents with the same costs report the same.
LEMMA WorthStays ==
  ASSUME NEW doc, NEW new, NEW S \in SUBSET Steps,
         \A s \in S : new.step[s].cost = doc.step[s].cost
  PROVE  Worth(new, S) = Worth(doc, S)
<1>1. [s \in S |-> new.step[s].cost] = [s \in S |-> doc.step[s].cost]
  OBVIOUS
<1> QED
  BY <1>1 DEF Worth

\* The cost of one step is rewritten.
LEMMA WorthChanges ==
  ASSUME NEW doc \in JobDoc, NEW new \in JobDoc, NEW S \in SUBSET Steps, NEW s \in S,
         \A t \in Steps \ {s} : new.step[t].cost = doc.step[t].cost
  PROVE  /\ Worth(new, S) = Worth(doc, S) + new.step[s].cost - doc.step[s].cost
         /\ doc.step[s].cost <= Worth(doc, S)
<1> DEFINE f == [t \in S |-> doc.step[t].cost]
           g == [t \in S |-> new.step[t].cost]
<1>1. f \in [S -> Nat] /\ g \in [S -> Nat]
  BY DEF JobDoc, StepDoc
<1>2. f \in [S -> Int] /\ g \in [S -> Int] /\ (\A t \in S \ {s} : g[t] = f[t])
  BY <1>1
<1>3. IsFiniteSet(S)
  BY StepsFinite
<1> HIDE DEF f, g
<1>4. SumOver(g) = SumOver(f) + g[s] - f[s]
  BY <1>2, <1>3, SumChanges
<1>5. f[s] <= SumOver(f)
  BY <1>1, <1>3, SumOfNaturals
<1>6. f[s] = doc.step[s].cost /\ g[s] = new.step[s].cost
  BY DEF f, g
<1>7. Worth(doc, S) = SumOver(f) /\ Worth(new, S) = SumOver(g)
  BY DEF Worth, f, g
<1> QED
  BY <1>4, <1>5, <1>6, <1>7

-----------------------------------------------------------------------------
(* Before anything was run.  Until the process goes down for the first     *)
(* time, a queued job was never run: its document has paid nothing, and so *)
(* has the one of the run that loads it and checks its prices.             *)

FreshDoc(doc) == \A s \in Steps : doc.step[s].cost = 0 /\ ~doc.step[s].gen

Unstarted ==
  halts = 0 =>
    /\ up # "down" /\ recovering = {}
    /\ \A j \in Jobs : Status(j) \in {"absent", "queued"} => FreshDoc(jobs[j])
    /\ \A p \in Procs :
         /\ run[p].pc = "load" => FreshDoc(jobs[run[p].job])
         /\ run[p].pc \in LaunchPoints \ {"load"} => FreshDoc(run[p].doc)

LEMMA UnstartedInit == Init => Unstarted
<1> SUFFICES ASSUME Init PROVE Unstarted
  OBVIOUS
<1>1. FreshDoc(NoDoc)
  BY DEF FreshDoc, NoDoc, FreshStep
<1>2. up = "up" /\ recovering = {} /\ (\A j \in Jobs : jobs[j] = NoDoc)
      /\ (\A p \in Procs : run[p].pc = "idle")
  BY DEF Init, IdleRun
<1> QED
  BY <1>1, <1>2 DEF Unstarted, LaunchPoints

\* A run that checks prices works on the document it loaded.
LEMMA LaunchKeepsDoc ==
  ASSUME TypeInv, NEW p \in Procs, Launch(p) \/ Walk(p), run'[p].pc \in LaunchPoints \ {"load"}
  PROVE  \/ run[p].pc = "load" /\ run'[p].doc = jobs[run[p].job]
         \/ run[p].pc \in LaunchPoints \ {"load"} /\ run'[p].doc = run[p].doc
<1>1. run \in [Procs -> Run] /\ run[p] \in Run
  BY DEF TypeInv, TypeOK, ProcessOK
<1> USE DEF LaunchPoints
<1>2. CASE Claim(p)
  BY <1>1, <1>2, LeftIsIdle DEF Claim, Goto, Leave, Run
<1>3. CASE Load(p)
  BY <1>1, <1>3 DEF Load, Snapshots, At
<1>4. CASE Recheck(p)
  BY <1>1, <1>4 DEF Recheck, At, Run
<1>5. CASE Rechecked(p) \/ SavePlan(p)
  BY <1>1, <1>5 DEF Rechecked, SavePlan, SavePlanDoc, Goto, At, Run
<1>6. CASE Abort(p) \/ FinishRun(p) \/ BreakRun(p)
  BY <1>1, <1>6, LeftIsIdle DEF Abort, FinishRun, BreakRun, Leave
<1>7. CASE StartRun(p)
  BY <1>1, <1>7 DEF StartRun
<1>8. CASE PassStep(p) \/ BeginStep(p) \/ SaveStep(p)
  BY <1>1, <1>8 DEF PassStep, BeginStep, SaveStep, Leaving, At, Run
<1>9. CASE ReadClaim(p) \/ InsertClaim(p)
  BY <1>1, <1>9 DEF ReadClaim, InsertClaim, Goto, SkipStep, Leaving, Run
<1>10. CASE SendGenerate(p) \/ ReceiveReply(p)
  <2>1. CASE SendGenerate(p)
    BY <1>1, <2>1 DEF SendGenerate, Goto, FailStep, Leaving, Run
  <2>2. CASE ReceiveReply(p)
    BY <1>1, <2>2 DEF ReceiveReply, FailStep, Leaving, Run
  <2> QED
    BY <1>10, <2>1, <2>2
<1>11. CASE RecordCharge(p)
  BY <1>1, <1>11 DEF RecordCharge, Goto, SkipStep, Leaving, Run
<1>12. CASE Poll(p)
  BY <1>1, <1>12 DEF Poll, FailStep, Leaving, Run
<1>13. CASE Settle(p) \/ RecordFailure(p)
  BY <1>1, <1>13 DEF Settle, RecordFailure, Goto, Run
<1> QED
  BY <1>2, <1>3, <1>4, <1>5, <1>6, <1>7, <1>8, <1>9, <1>10, <1>11, <1>12, <1>13 DEF Launch, Walk

\* A step of one process that has no job in hand before or after.
LEMMA BystandingKeepsUnstarted ==
  ASSUME TypeInv, LeaseInv, Unstarted, NEW p \in Procs, ~Owns(p),
         run'[p].pc \notin LaunchPoints,
         \A q \in Procs \ {p} : run'[q] = run[q],
         UNCHANGED <<up, recovering, halts>>,
         jobs' = jobs \/ (run[p].pc = "save_job" /\ SaveJobDoc(run[p].job, NewDoc))
  PROVE  Unstarted'
<1>1. FreshDoc(NewDoc)
  BY DEF FreshDoc, NewDoc, NoDoc, FreshStep
<1>2. jobs \in [Jobs -> JobDoc] /\ \A j \in Jobs : jobs'[j] = jobs[j] \/ jobs'[j] = NewDoc
  BY DEF SaveJobDoc, TypeInv, TypeOK, StoreOK
<1>3. \A q \in Procs : run'[q].pc \in LaunchPoints =>
        /\ run'[q] = run[q]
        /\ jobs'[run[q].job] = jobs[run[q].job]
  <2> SUFFICES ASSUME NEW q \in Procs \ {p}, run[q].pc \in LaunchPoints
               PROVE  jobs'[run[q].job] = jobs[run[q].job]
    OBVIOUS
  <2>1. Status(run[q].job) = "running" /\ run[q].job \in Jobs
    BY DEF LeaseInv, HeldIsRunning, Owns, OwningPoints, LaunchPoints, TypeInv, Positioned
  <2>2. run[p].pc = "save_job" => Status(run[p].job) = "absent"
    BY DEF LeaseInv, DrawnIsFresh
  <2> QED
    BY <1>2, <2>1, <2>2 DEF SaveJobDoc, Status
<1> QED
  BY <1>1, <1>2, <1>3 DEF Unstarted, Status, LaunchPoints

LEMMA RunnerKeepsUnstarted ==
  ASSUME TypeInv, LeaseInv, Unstarted, NEW p \in Procs, Holding(p) \/ Quitting(p),
         halts' = halts,
         run'[p].pc \in LaunchPoints \ {"load"} =>
           \/ run[p].pc = "load" /\ run'[p].doc = jobs[run[p].job]
           \/ run[p].pc \in LaunchPoints \ {"load"} /\ run'[p].doc = run[p].doc
  PROVE  Unstarted'
<1>1. /\ run[p].job \in Jobs /\ Owns(p) /\ Status(run[p].job) = "running"
      /\ UNCHANGED <<up, recovering>>
      /\ \A q \in Procs \ {p} : run'[q] = run[q]
      /\ \A j \in Jobs \ {run[p].job} : jobs'[j] = jobs[j]
  BY OwnerIsBusy DEF Holding, Quitting, Alone, processVars, LeaseInv, HeldIsRunning,
    TypeInv, Positioned
<1>2. jobs'[run[p].job].status \notin {"absent", "queued"} /\ run'[p].pc # "load"
  BY <1>1, LeftIsIdle DEF Holding, Quitting, TerminalJob
<1>3. \A q \in Procs \ {p} : run[q].pc = "load" => run[q].job \in Jobs \ {run[p].job}
  BY <1>1 DEF TypeInv, Positioned, LeaseInv, OneRunnerPerJob, Owns, OwningPoints, LaunchPoints
<1> QED
  BY <1>1, <1>2, <1>3 DEF Unstarted, Status

LEMMA UnstartedNext == TypeInv /\ LeaseInv /\ Unstarted /\ [Next]_vars => Unstarted'
<1> SUFFICES ASSUME TypeInv, LeaseInv, Unstarted, [Next]_vars PROVE Unstarted'
  OBVIOUS
<1>0. run \in [Procs -> Run] /\ jobs \in [Jobs -> JobDoc] /\ halts \in Nat
  BY DEF TypeInv, TypeOK, ProcessOK, StoreOK
<1>1. ASSUME NEW c \in Callers, Execute(c) PROVE Unstarted'
  <2>1. /\ c \in Procs /\ run[c].pc = "idle" /\ UNCHANGED <<up, recovering, halts, jobs>>
        /\ \A q \in Procs \ {c} : run'[q] = run[q]
    BY <1>0, <1>1 DEF Execute, At, Procs, storeVars, processVars, boundVars
  <2>2. ASSUME NEW j \in Saved, run' = [run EXCEPT ![c] = DoneRun(j)]
        PROVE  run'[c].pc = "done"
    BY <1>0, <2>1, <2>2, IdleType DEF Saved
  <2>3. ASSUME NEW j \in UnusedJobs,
               run' = [run EXCEPT ![c].pc = "save_job", ![c].job = j, ![c].est = plan.est]
        PROVE  run'[c].pc = "save_job"
    BY <1>0, <2>1, <2>3 DEF Run
  <2>4. run'[c].pc \notin LaunchPoints /\ ~Owns(c)
    BY <1>1, <2>1, <2>2, <2>3 DEF Execute, LaunchPoints, Owns, OwningPoints, StepPoints
  <2> QED
    BY <1>0, <2>1, <2>4, BystandingKeepsUnstarted
<1>2. ASSUME NEW c \in Callers, Enter(c) PROVE Unstarted'
  <2>1. /\ c \in Procs /\ run[c].pc \in AdmissionPoints /\ UNCHANGED <<up, recovering, halts>>
        /\ \A q \in Procs \ {c} : run'[q] = run[q]
    BY <1>0, <1>2 DEF Enter, SaveNewJob, SaveNewPlan, SavePlanDoc, Accept, Goto, Leave, At,
      AdmissionPoints, Procs, processVars, boundVars
  <2>2. run'[c].pc \in {"save_plan", "accept", "claim", "idle", "done"}
    BY <1>0, <1>2, <2>1, LeftIsIdle DEF Enter, SaveNewJob, SaveNewPlan, SavePlanDoc, Accept, Goto,
      Leave, Run
  <2>3. run'[c].pc \notin LaunchPoints /\ ~Owns(c)
    BY <2>1, <2>2 DEF LaunchPoints, Owns, OwningPoints, StepPoints, AdmissionPoints
  <2>4. jobs' = jobs \/ (run[c].pc = "save_job" /\ SaveJobDoc(run[c].job, NewDoc))
    BY <1>2 DEF Enter, SaveNewJob, SaveNewPlan, SavePlanDoc, Accept, At, storeVars
  <2> QED
    BY <1>0, <2>1, <2>3, <2>4, BystandingKeepsUnstarted
<1>3. ASSUME NEW w \in Workers, Take(w) PROVE Unstarted'
  <2>1. /\ w \in Procs /\ run[w].pc = "idle" /\ UNCHANGED <<up, recovering, halts, jobs>>
        /\ \A q \in Procs \ {w} : run'[q] = run[q]
        /\ run'[w].pc = "claim"
    BY <1>0, <1>3 DEF Take, At, Procs, Run, storeVars
  <2>2. run'[w].pc \notin LaunchPoints /\ ~Owns(w)
    BY <2>1 DEF LaunchPoints, Owns, OwningPoints, StepPoints
  <2> QED
    BY <1>0, <2>1, <2>2, BystandingKeepsUnstarted
<1>4. ASSUME NEW p \in Procs, Claim(p) PROVE Unstarted'
  <2> DEFINE j == run[p].job
  <2>1. /\ run[p].pc = "claim" /\ j \in Jobs /\ ~Owns(p) /\ UNCHANGED <<up, recovering, halts>>
    BY <1>4 DEF Claim, At, TypeInv, Positioned, Owns, OwningPoints, LaunchPoints, StepPoints,
      processVars, boundVars
  <2>2. CASE Claimable(j)
    <3>1. /\ jobs'[j] = [jobs[j] EXCEPT !.status = "running"] /\ Status(j) = "queued"
          /\ \A i \in Jobs \ {j} : jobs'[i] = jobs[i]
          /\ run'[p].pc = "load" /\ run'[p].job = j
          /\ \A q \in Procs \ {p} : run'[q] = run[q]
      BY <1>0, <1>4, <2>1, <2>2 DEF Claim, Claimable, Goto, Run, JobDoc
    <3>2. \A q \in Procs : run[q].pc = "load" => run[q].job \in Jobs \ {j}
      BY <3>1 DEF LeaseInv, HeldIsRunning, TypeInv, Positioned, Owns, OwningPoints, LaunchPoints
    <3>3. jobs'[j].status = "running" /\ jobs'[j].step = jobs[j].step
      BY <1>0, <2>1, <3>1 DEF JobDoc
    <3>4. FreshDoc(jobs'[j]) <=> FreshDoc(jobs[j])
      BY <3>3 DEF FreshDoc
    <3>5. \A q \in Procs \ {p} : run'[q].pc = "load" => jobs'[run'[q].job] = jobs[run[q].job]
      BY <3>1, <3>2
    <3> QED
      BY <2>1, <3>1, <3>3, <3>4, <3>5 DEF Unstarted, Status
  <2>3. CASE ~Claimable(j)
    <3>1. jobs' = jobs /\ run'[p] = Left(p) /\ \A q \in Procs \ {p} : run'[q] = run[q]
      BY <1>0, <1>4, <2>3 DEF Claim, Leave
    <3>2. run'[p].pc \notin LaunchPoints
      BY <3>1, LeftIsIdle DEF LaunchPoints
    <3> QED
      BY <1>0, <2>1, <3>1, <3>2, BystandingKeepsUnstarted
  <2> QED
    BY <2>2, <2>3
<1>5. ASSUME NEW p \in Procs, Launch(p) \/ Walk(p), ~Claim(p) PROVE Unstarted'
  <2>1. halts' = halts
    BY <1>5 DEF Launch, Load, Recheck, Rechecked, Abort, SavePlan, SavePlanDoc, StartRun, Walk,
      PassStep, BeginStep, SaveStep, FinishRun, ReadClaim, InsertClaim, BreakRun, SendGenerate,
      ReceiveReply, RecordCharge, Poll, Settle, RecordFailure, boundVars
  <2>2. Holding(p) \/ Quitting(p)
    BY <1>5, LaunchKinds, WalkKinds
  <2> QED
    BY <1>5, <2>1, <2>2, LaunchKeepsDoc, RunnerKeepsUnstarted
<1>6. ASSUME NEW w \in Workers, Cancel(w) PROVE Unstarted'
  <2>1. /\ w \in Procs /\ run'[w] = Left(w) /\ UNCHANGED <<up, recovering, halts>>
        /\ \A q \in Procs \ {w} : run'[q] = run[q]
    BY <1>0, <1>6 DEF Cancel, Leave, Procs, processVars, boundVars
  <2>2. run'[w].pc \notin LaunchPoints
    BY <2>1, LeftIsIdle DEF LaunchPoints
  <2> QED
    BY <1>0, <1>6, <2>1, <2>2, CancelKinds, BystandingKeepsUnstarted, RunnerKeepsUnstarted
<1>7. CASE Stop \/ PlatformStep \/ UNCHANGED vars
  BY <1>7 DEF Stop, PlatformStep, vars, storeVars, processVars, boundVars, Unstarted, Status
<1>8. CASE Stopped \/ Kill
  BY <1>0, <1>8 DEF Stopped, Kill, GoDown, Unstarted
<1>9. CASE Restart \/ \E j \in Jobs : Recover(j)
  BY <1>0, <1>9 DEF Restart, Recover, RequeueJob, Unstarted, boundVars
<1> QED
  BY <1>1, <1>2, <1>3, <1>4, <1>5, <1>6, <1>7, <1>8, <1>9 DEF Next, Lifecycle

-----------------------------------------------------------------------------
(* What a step of a walking run does to the money: to the cost its step    *)
(* reports, to whether the step names a generation, and to what its guard  *)
(* has committed.  Everything else about the step is left out, so that the *)
(* invariants below need not look into the actions again.                  *)

After(p) == run'[p].doc.step[run[p].cur]
Committed(p) == guard[p].committed

\* The step reports what it did before.
SameMoney(p) ==
  /\ After(p).cost = Step(p).cost /\ After(p).gen = Step(p).gen
  /\ guard' = guard

Stays(p) == run'[p].cur = run[p].cur
Steadies(p) == run'[p].stopped = run[p].stopped

\* On to the next step; or into it, up to the launch.
Passes(p) ==
  /\ run[p].pc \in {"next", "save"} /\ run'[p].pc = "next"
  /\ run'[p].cur = run[p].cur + 1 /\ Steadies(p)
  /\ SameMoney(p) /\ UNCHANGED <<gens, ledger>>

Enters(p) ==
  /\ \/ run[p].pc = "next" /\ run'[p].pc = "claim_step" /\ ~run[p].stopped /\ ledger' = ledger
     \/ run[p].pc = "claim_step" /\ run'[p].pc = "insert" /\ ledger' = ledger
     \/ run[p].pc = "insert" /\ run'[p].pc = "claim_step" /\ ~ledger'[run[p].cur].gen
     \/ run[p].pc = "insert" /\ run'[p].pc = "broken" /\ ledger' = ledger
     \/ run[p].pc = "claim_step" /\ run'[p].pc = "send" /\ ledger' = ledger
  /\ Stays(p) /\ Steadies(p) /\ SameMoney(p) /\ gens' = gens

\* A local step is free.
Produces(p) ==
  /\ run[p].pc = "next" /\ run'[p].pc = "save" /\ ~Billable(run[p].cur)
  /\ Stays(p) /\ Steadies(p) /\ UNCHANGED <<gens, ledger>> /\ guard' = guard
  /\ After(p).cost = 0 /\ After(p).gen = Step(p).gen

\* A launched step is awaited.
Resumes(p) ==
  /\ run[p].pc = "claim_step" /\ run'[p].pc = "poll" /\ ledger[run[p].cur].gen
  /\ Stays(p) /\ Steadies(p) /\ UNCHANGED <<gens, ledger>> /\ guard' = guard
  /\ After(p).cost = Step(p).cost /\ After(p).gen

\* The step ends without a verdict: skipped with the plan, failed, or written off.
Quits(p) ==
  /\ \/ run[p].pc = "claim_step" /\ run'[p].pc = "save" /\ run'[p].stopped
     \/ run[p].pc \in {"send", "sent", "poll"} /\ run'[p].pc = "fail"
     \/ run[p].pc \in {"poll", "settle", "fail"} /\ run'[p].pc = "save" /\ Steadies(p)
  /\ run[p].pc = "sent" => "reply" \in Faults
  /\ Stays(p) /\ SameMoney(p) /\ gens' = gens

Sends(p) ==
  /\ run[p].pc = "send" /\ run'[p].pc = "sent" /\ Generate(run[p].cur)
  /\ Stays(p) /\ Steadies(p) /\ SameMoney(p) /\ ledger' = ledger

Receives(p) ==
  /\ run[p].pc = "sent" /\ run'[p].pc = "record"
  /\ Stays(p) /\ Steadies(p) /\ UNCHANGED <<gens, ledger>> /\ guard' = guard
  /\ After(p).gen = (Kind[run[p].cur] # "text")
  /\ After(p).cost = gens[run[p].cur].bill

\* The charge is committed; a text is settled at once.
Commits(p) ==
  /\ run[p].pc = "record" /\ run'[p].pc \in {"save", "poll", "settle"}
  /\ guard' = [guard EXCEPT ![p].committed = Committed(p) + Step(p).cost]
  /\ Stays(p) /\ gens' = gens /\ After(p).gen = Step(p).gen
  /\ \/ /\ run'[p].pc # "settle" /\ After(p).cost = Step(p).cost
        /\ run'[p].pc = "poll" => Step(p).gen
     \/ /\ run'[p].pc = "settle" /\ Decided(run[p].cur)
        /\ After(p).cost = NetCost(run[p].cur)
  /\ \/ run'[p].stopped /\ run'[p].pc = "save"
     \/ /\ run'[p].stopped = run[p].stopped
        /\ Committed(p) + Step(p).cost <= Spendable

Recounts(p) ==
  /\ run[p].pc = "poll" /\ run'[p].pc = "settle" /\ Decided(run[p].cur)
  /\ Stays(p) /\ Steadies(p) /\ UNCHANGED <<gens, ledger>>
  /\ After(p).gen = Step(p).gen /\ After(p).cost = NetCost(run[p].cur)
  /\ guard' = [guard EXCEPT ![p].committed =
                 Recount(Committed(p), Step(p).cost, NetCost(run[p].cur))]

Moves(p) ==
  \/ Passes(p) \/ Enters(p) \/ Produces(p) \/ Resumes(p) \/ Quits(p)
  \/ Sends(p) \/ Receives(p) \/ Commits(p) \/ Recounts(p)

\* Only p moves, in the step it stands at, and no other row is written.
OneMoves(p) ==
  /\ run[p].cur \in Steps /\ halts' = halts
  /\ \A q \in Procs \ {p} : run'[q] = run[q]
  /\ \A t \in Steps \ {run[p].cur} :
       run'[p].doc.step[t] = run[p].doc.step[t] /\ ledger'[t] = ledger[t]

LEMMA OutcomeCost ==
  ASSUME TypeInv, NEW p \in Procs, run[p].pc \in StepPoints, Decided(run[p].cur)
  PROVE  LET final == ApplyOutcome(Step(p), Verdict(run[p].cur)) IN
         /\ final.cost = NetCost(run[p].cur) /\ final.gen = Step(p).gen
<1>1. run[p].cur \in Steps /\ Step(p) \in StepDoc
  BY StepPoint
<1>2. gens[run[p].cur].refunded \in BOOLEAN /\ gens[run[p].cur].bill \in Nat
  BY <1>1 DEF TypeInv, TypeOK, PlatformTypeOK, Generation
<1> QED
  BY <1>1, <1>2 DEF ApplyOutcome, Verdict, NetCost, StepDoc

\* The shape of a rewritten step.
LEMMA LeavingRewrites ==
  ASSUME TypeInv, NEW p \in Procs, run[p].cur \in Steps, NEW step, NEW point,
         Leaving(p, step, point)
  PROVE  /\ \A q \in Procs \ {p} : run'[q] = run[q]
         /\ run'[p].pc = point /\ Stays(p) /\ Steadies(p) /\ After(p) = step
         /\ \A t \in Steps \ {run[p].cur} : run'[p].doc.step[t] = run[p].doc.step[t]
<1>1. run \in [Procs -> Run] /\ run[p] \in Run /\ run[p].doc \in JobDoc
  BY DEF TypeInv, TypeOK, ProcessOK, Run
<1> QED
  BY <1>1 DEF Leaving, Run, JobDoc, After, Stays, Steadies

LEMMA SkipRewrites ==
  ASSUME TypeInv, NEW p \in Procs, run[p].pc \in StepPoints, SkipStep(p, Step(p))
  PROVE  /\ \A q \in Procs \ {p} : run'[q] = run[q]
         /\ run'[p].pc = "save" /\ Stays(p) /\ run'[p].stopped
         /\ After(p).cost = Step(p).cost /\ After(p).gen = Step(p).gen
         /\ \A t \in Steps \ {run[p].cur} : run'[p].doc.step[t] = run[p].doc.step[t]
<1>1. /\ run \in [Procs -> Run] /\ run[p] \in Run /\ run[p].doc \in JobDoc
      /\ run[p].cur \in Steps /\ Step(p) \in StepDoc
  BY StepPoint DEF TypeInv, TypeOK, ProcessOK, Run
<1> DEFINE step == [Step(p) EXCEPT !.status = "skipped"]
<1>2. step.cost = Step(p).cost /\ step.gen = Step(p).gen
  BY <1>1 DEF StepDoc
<1>3. run' = [run EXCEPT ![p].doc.step[run[p].cur] = step, ![p].stopped = TRUE, ![p].pc = "save"]
  BY DEF SkipStep
<1> HIDE DEF step
<1> QED
  BY <1>1, <1>2, <1>3 DEF Run, JobDoc, After, Stays

LEMMA FailRewrites ==
  ASSUME TypeInv, NEW p \in Procs, run[p].pc \in StepPoints, NEW stop, FailStep(p, stop)
  PROVE  /\ \A q \in Procs \ {p} : run'[q] = run[q]
         /\ run'[p].pc = "fail" /\ Stays(p) /\ run'[p].stopped = stop
         /\ After(p).cost = Step(p).cost /\ After(p).gen = Step(p).gen
         /\ \A t \in Steps \ {run[p].cur} : run'[p].doc.step[t] = run[p].doc.step[t]
<1>1. /\ run \in [Procs -> Run] /\ run[p] \in Run /\ run[p].doc \in JobDoc
      /\ run[p].cur \in Steps /\ Step(p) \in StepDoc
  BY StepPoint DEF TypeInv, TypeOK, ProcessOK, Run
<1>2. run' = [run EXCEPT ![p].doc.step[run[p].cur].status = "failed",
                         ![p].stopped = stop, ![p].pc = "fail"]
  BY DEF FailStep
<1> QED
  BY <1>1, <1>2 DEF Run, JobDoc, StepDoc, After, Step, Stays

LEMMA GotoMoves ==
  ASSUME TypeInv, NEW p \in Procs, NEW point, Goto(p, point)
  PROVE  /\ \A q \in Procs \ {p} : run'[q] = run[q]
         /\ run'[p].pc = point /\ Stays(p) /\ Steadies(p)
         /\ run'[p].doc = run[p].doc /\ After(p) = Step(p)
<1>1. run \in [Procs -> Run] /\ run[p] \in Run
  BY DEF TypeInv, TypeOK, ProcessOK
<1> QED
  BY <1>1 DEF Goto, Run, After, Step, Stays, Steadies

LEMMA RowsKept ==
  ASSUME TypeInv, NEW s \in Steps, NEW status, NEW gen, NEW cost,
         UpdateStep(s, status, gen, cost)
  PROVE  \A t \in Steps \ {s} : ledger'[t] = ledger[t]
BY DEF UpdateStep, TypeInv, TypeOK, StoreOK

LEMMA WalkMoves ==
  ASSUME TypeInv, GuardOK, NEW p \in Procs, Walk(p), ~FinishRun(p), ~BreakRun(p)
  PROVE  OneMoves(p) /\ Moves(p)
<1>1. /\ run \in [Procs -> Run] /\ run[p] \in Run /\ run[p].doc \in JobDoc
      /\ ledger \in [Steps -> LedgerRow]
  BY DEF TypeInv, TypeOK, ProcessOK, StoreOK, Run
<1>2. run[p].cur <= NSteps => run[p].cur \in Steps /\ Step(p) \in StepDoc
  BY <1>1, PlanType, StandingStep DEF Run, Steps
<1>3. run[p].pc \in StepPoints => run[p].cur \in Steps /\ Step(p) \in StepDoc
  BY StepPoint
<1> DEFINE s == run[p].cur
<1>4. CASE PassStep(p)
  <2>1. s \in Steps /\ Step(p) \in StepDoc
    BY <1>2, <1>4 DEF PassStep
  <2> DEFINE status == IF run[p].stopped THEN "skipped" ELSE Step(p).status
             step == [Step(p) EXCEPT !.status = status]
  <2>2. run' = [run EXCEPT ![p].cur = @ + 1, ![p].doc.step[s] = step]
    BY <1>1, <1>4, <2>1 DEF PassStep, Step, Run, JobDoc, StepDoc
  <2>3. step.cost = Step(p).cost /\ step.gen = Step(p).gen
    BY <2>1 DEF StepDoc
  <2> HIDE DEF step
  <2>4. /\ run'[p].cur = run[p].cur + 1 /\ run'[p].pc = run[p].pc
        /\ run'[p].stopped = run[p].stopped
        /\ run'[p].doc.step = [run[p].doc.step EXCEPT ![s] = step]
        /\ \A q \in Procs \ {p} : run'[q] = run[q]
    BY <1>1, <2>2 DEF Run, JobDoc
  <2>5. After(p) = step /\ \A t \in Steps \ {s} : run'[p].doc.step[t] = run[p].doc.step[t]
    BY <1>1, <2>1, <2>4 DEF After, JobDoc
  <2>6. Passes(p) /\ OneMoves(p)
    BY <1>4, <2>1, <2>3, <2>4, <2>5 DEF PassStep, At, Passes, SameMoney, Steadies, OneMoves,
      platformVars, storeVars, boundVars
  <2> QED
    BY <2>6 DEF Moves
<1>5. CASE BeginStep(p)
  <2>1. s \in Steps /\ Step(p) \in StepDoc
    BY <1>2, <1>5 DEF BeginStep
  <2>2. CASE Billable(s)
    <3>1. PICK step : step = [Step(p) EXCEPT !.status = "running"]
      OBVIOUS
    <3>2. Leaving(p, step, "claim_step")
      BY <1>5, <2>2, <3>1 DEF BeginStep
    <3>3. step.cost = Step(p).cost /\ step.gen = Step(p).gen
      BY <2>1, <3>1 DEF StepDoc
    <3>4. Enters(p) /\ OneMoves(p)
      BY <1>5, <2>1, <3>2, <3>3, LeavingRewrites DEF BeginStep, At, Enters, SameMoney, OneMoves,
        platformVars, storeVars, boundVars
    <3> QED
      BY <3>4 DEF Moves
  <2>3. CASE ~Billable(s)
    <3>1. PICK step : step = [Step(p) EXCEPT !.status = "succeeded", !.cost = 0]
      OBVIOUS
    <3>2. Leaving(p, step, "save")
      BY <1>5, <2>3, <3>1 DEF BeginStep
    <3>3. step.cost = 0 /\ step.gen = Step(p).gen
      BY <2>1, <3>1 DEF StepDoc
    <3>4. Produces(p) /\ OneMoves(p)
      BY <1>5, <2>1, <2>3, <3>2, <3>3, LeavingRewrites DEF BeginStep, At, Produces, OneMoves,
        platformVars, storeVars, boundVars
    <3> QED
      BY <3>4 DEF Moves
  <2> QED
    BY <2>2, <2>3
<1>6. CASE SaveStep(p)
  <2>1. s \in Steps /\ run[p].pc = "save"
    BY <1>6 DEF SaveStep, At, TypeInv, Positioned
  <2>2. /\ run'[p].cur = run[p].cur + 1 /\ run'[p].pc = "next"
        /\ run'[p].stopped = run[p].stopped /\ run'[p].doc = run[p].doc
        /\ \A q \in Procs \ {p} : run'[q] = run[q]
    BY <1>1, <1>6 DEF SaveStep, Run
  <2>3. Passes(p) /\ OneMoves(p)
    BY <1>6, <2>1, <2>2 DEF SaveStep, Passes, SameMoney, Steadies, After, Step, OneMoves,
      platformVars, boundVars
  <2> QED
    BY <2>3 DEF Moves
<1>7. CASE ReadClaim(p)
  <2>1. run[p].pc = "claim_step" /\ run[p].pc \in StepPoints /\ s \in Steps /\ Step(p) \in StepDoc
    BY <1>3, <1>7 DEF ReadClaim, At, StepPoints
  <2>2. UNCHANGED <<gens, ledger, guard, halts>>
    BY <1>7 DEF ReadClaim, platformVars, storeVars, boundVars
  <2>3. ASSUME NEW point \in {"insert", "send"}, Goto(p, point) PROVE Enters(p) /\ OneMoves(p)
    BY <2>1, <2>2, <2>3, GotoMoves DEF Enters, SameMoney, OneMoves
  <2>4. ASSUME AlreadyLaunched(ledger[s]), Leaving(p, [Step(p) EXCEPT !.gen = TRUE], "poll")
        PROVE  Resumes(p) /\ OneMoves(p)
    <3>1. PICK step : step = [Step(p) EXCEPT !.gen = TRUE]
      OBVIOUS
    <3>2. step.cost = Step(p).cost /\ step.gen
      BY <2>1, <3>1 DEF StepDoc
    <3>3. Leaving(p, step, "poll")
      BY <2>4, <3>1
    <3> QED
      BY <2>1, <2>2, <2>4, <3>2, <3>3, LeavingRewrites DEF Resumes, OneMoves, AlreadyLaunched
  <2>5. ASSUME SkipStep(p, Step(p)) PROVE Quits(p) /\ OneMoves(p)
    BY <2>1, <2>2, <2>5, SkipRewrites DEF Quits, SameMoney, OneMoves
  <2> QED
    BY <1>7, <2>3, <2>4, <2>5 DEF ReadClaim, Moves
<1>8. CASE InsertClaim(p)
  <2>1. run[p].pc = "insert" /\ s \in Steps /\ Step(p) \in StepDoc
    BY <1>3, <1>8 DEF InsertClaim, At, StepPoints
  <2>2. UNCHANGED <<gens, guard, halts>>
    BY <1>8 DEF InsertClaim, platformVars, boundVars
  <2>3. CASE ledger[s].status = "absent"
    <3>1. /\ Goto(p, "claim_step") /\ ~ledger'[s].gen
          /\ \A t \in Steps \ {s} : ledger'[t] = ledger[t]
      BY <1>1, <1>8, <2>1, <2>3 DEF InsertClaim
    <3>2. Enters(p) /\ OneMoves(p)
      BY <2>1, <2>2, <3>1, GotoMoves DEF Enters, SameMoney, OneMoves
    <3> QED
      BY <3>2 DEF Moves
  <2>4. CASE ledger[s].status # "absent"
    <3>1. Goto(p, "broken") /\ ledger' = ledger
      BY <1>8, <2>4 DEF InsertClaim
    <3>2. Enters(p) /\ OneMoves(p)
      BY <2>1, <2>2, <3>1, GotoMoves DEF Enters, SameMoney, OneMoves
    <3> QED
      BY <3>2 DEF Moves
  <2> QED
    BY <2>3, <2>4
<1>9. CASE SendGenerate(p)
  <2>1. run[p].pc = "send" /\ run[p].pc \in StepPoints /\ s \in Steps /\ Step(p) \in StepDoc
    BY <1>3, <1>9 DEF SendGenerate, At, StepPoints
  <2>2. UNCHANGED <<ledger, guard, halts>>
    BY <1>9 DEF SendGenerate, storeVars, boundVars
  <2>3. ASSUME Generate(s), Goto(p, "sent") PROVE Sends(p) /\ OneMoves(p)
    BY <2>1, <2>2, <2>3, GotoMoves DEF Sends, SameMoney, OneMoves
  <2>4. ASSUME NEW stop \in BOOLEAN, FailStep(p, stop), gens' = gens
        PROVE  Quits(p) /\ OneMoves(p)
    BY <2>1, <2>2, <2>4, FailRewrites DEF Quits, SameMoney, OneMoves
  <2> QED
    BY <1>9, <2>3, <2>4 DEF SendGenerate, Moves, platformVars
<1>10. CASE ReceiveReply(p)
  <2>1. run[p].pc = "sent" /\ run[p].pc \in StepPoints /\ s \in Steps /\ Step(p) \in StepDoc
    BY <1>3, <1>10 DEF ReceiveReply, At, StepPoints
  <2>2. UNCHANGED <<gens, ledger, guard, halts>>
    BY <1>10 DEF ReceiveReply, platformVars, storeVars, boundVars
  <2>3. PICK step : step = [Step(p) EXCEPT !.gen = Kind[s] # "text", !.cost = Charged(p),
                                           !.long = Kind[s] = "voiceover"]
    OBVIOUS
  <2>4. step.gen = (Kind[s] # "text") /\ step.cost = gens[s].bill
    BY <2>1, <2>3 DEF StepDoc, Charged
  <2>5. ASSUME Leaving(p, step, "record") PROVE Receives(p) /\ OneMoves(p)
    BY <2>1, <2>2, <2>4, <2>5, LeavingRewrites DEF Receives, OneMoves
  <2>6. ASSUME "reply" \in Faults, FailStep(p, FALSE) PROVE Quits(p) /\ OneMoves(p)
    BY <2>1, <2>2, <2>6, FailRewrites DEF Quits, SameMoney, OneMoves
  <2> QED
    BY <1>10, <2>3, <2>5, <2>6 DEF ReceiveReply, Moves
<1>11. CASE RecordCharge(p)
  <2>1. run[p].pc = "record" /\ run[p].pc \in StepPoints /\ s \in Steps /\ Step(p) \in StepDoc
    BY <1>3, <1>11 DEF RecordCharge, At, StepPoints
  <2>2. /\ UNCHANGED <<gens, halts>>
        /\ guard' = [guard EXCEPT ![p].committed = Committed(p) + Step(p).cost]
    BY <1>11 DEF RecordCharge, platformVars, boundVars, Committed
  <2>3. \A t \in Steps \ {s} : ledger'[t] = ledger[t]
    BY <1>11, <2>1, RowsKept DEF RecordCharge
  <2> DEFINE fits == Check(Step(p).cost, guard[p].committed)
  <2>4. fits => Committed(p) + Step(p).cost <= Spendable
    <3>1. Spendable \in Int /\ Committed(p) \in Nat /\ Step(p).cost \in Nat
      BY <2>1, BudgetAssumption DEF Spendable, Committed, GuardOK, StepDoc
    <3>2. fits => Step(p).cost <= Spendable - Committed(p)
      BY DEF Check, Remaining, Committed
    <3> QED
      BY <3>1, <3>2
  <2>5. ASSUME SkipStep(p, Step(p)) PROVE Commits(p) /\ OneMoves(p)
    BY <2>1, <2>2, <2>3, <2>5, SkipRewrites DEF Commits, OneMoves
  <2>6. ASSUME fits, Step(p).gen, Goto(p, "poll") PROVE Commits(p) /\ OneMoves(p)
    <3>1. /\ \A q \in Procs \ {p} : run'[q] = run[q]
          /\ run'[p].pc = "poll" /\ Stays(p) /\ Steadies(p)
          /\ run'[p].doc = run[p].doc /\ After(p) = Step(p)
      BY <2>6, GotoMoves
    <3>2. OneMoves(p)
      BY <2>1, <2>2, <2>3, <3>1 DEF OneMoves
    <3>3. Commits(p)
      BY <2>1, <2>2, <2>4, <2>6, <3>1 DEF Commits, Steadies
    <3> QED
      BY <3>2, <3>3
  <2>7. ASSUME fits, Decided(s), Leaving(p, ApplyOutcome(Step(p), Verdict(s)), "settle")
        PROVE  Commits(p) /\ OneMoves(p)
    <3>1. PICK final : final = ApplyOutcome(Step(p), Verdict(s))
      OBVIOUS
    <3>2. Leaving(p, final, "settle")
      BY <2>7, <3>1
    <3>3. final.cost = NetCost(s) /\ final.gen = Step(p).gen
      BY <2>1, <2>7, <3>1, OutcomeCost
    <3> QED
      BY <2>1, <2>2, <2>3, <2>4, <2>7, <3>2, <3>3, LeavingRewrites DEF Commits, OneMoves, Steadies
  <2>8. ASSUME fits, Leaving(p, [Step(p) EXCEPT !.status = "failed"], "save")
        PROVE  Commits(p) /\ OneMoves(p)
    <3>1. PICK step : step = [Step(p) EXCEPT !.status = "failed"]
      OBVIOUS
    <3>2. Leaving(p, step, "save")
      BY <2>8, <3>1
    <3>3. step.cost = Step(p).cost /\ step.gen = Step(p).gen
      BY <2>1, <3>1 DEF StepDoc
    <3> QED
      BY <2>1, <2>2, <2>3, <2>4, <2>8, <3>2, <3>3, LeavingRewrites DEF Commits, OneMoves, Steadies
  <2> QED
    BY <1>11, <2>5, <2>6, <2>7, <2>8 DEF RecordCharge, Moves
<1>12. CASE Poll(p)
  <2>1. run[p].pc = "poll" /\ run[p].pc \in StepPoints /\ s \in Steps /\ Step(p) \in StepDoc
    BY <1>3, <1>12 DEF Poll, At, StepPoints
  <2>2. UNCHANGED <<gens, ledger, halts>>
    BY <1>12 DEF Poll, platformVars, storeVars, boundVars
  <2>3. PICK final : final = ApplyOutcome(Step(p), Verdict(s))
    OBVIOUS
  <2>4. ASSUME Decided(s), Leaving(p, final, "settle"),
               guard' = [guard EXCEPT ![p].committed = Recount(@, Step(p).cost, final.cost)]
        PROVE  Recounts(p) /\ OneMoves(p)
    <3>1. final.cost = NetCost(s) /\ final.gen = Step(p).gen
      BY <2>1, <2>3, <2>4, OutcomeCost
    <3> QED
      BY <2>1, <2>2, <2>4, <3>1, LeavingRewrites DEF Recounts, OneMoves, Committed
  <2>5. ASSUME Leaving(p, [Step(p) EXCEPT !.status = "failed"], "save"), guard' = guard
        PROVE  Quits(p) /\ OneMoves(p)
    <3>1. PICK step : step = [Step(p) EXCEPT !.status = "failed"]
      OBVIOUS
    <3>2. Leaving(p, step, "save")
      BY <2>5, <3>1
    <3>3. step.cost = Step(p).cost /\ step.gen = Step(p).gen
      BY <2>1, <3>1 DEF StepDoc
    <3> QED
      BY <2>1, <2>2, <2>5, <3>2, <3>3, LeavingRewrites DEF Quits, SameMoney, OneMoves
  <2>6. ASSUME FailStep(p, FALSE), guard' = guard PROVE Quits(p) /\ OneMoves(p)
    BY <2>1, <2>2, <2>6, FailRewrites DEF Quits, SameMoney, OneMoves
  <2> QED
    BY <1>12, <2>3, <2>4, <2>5, <2>6 DEF Poll, Moves
<1>13. CASE Settle(p) \/ RecordFailure(p)
  <2>1. run[p].pc \in {"settle", "fail"} /\ s \in Steps
    BY <1>3, <1>13 DEF Settle, RecordFailure, At, StepPoints
  <2>2. Goto(p, "save") /\ UNCHANGED <<gens, guard, halts>>
    BY <1>13 DEF Settle, RecordFailure, platformVars, boundVars
  <2>3. \A t \in Steps \ {s} : ledger'[t] = ledger[t]
    BY <1>13, <2>1, RowsKept DEF Settle, RecordFailure
  <2>4. Quits(p) /\ OneMoves(p)
    BY <2>1, <2>2, <2>3, GotoMoves DEF Quits, SameMoney, OneMoves
  <2> QED
    BY <2>4 DEF Moves
<1> QED
  BY <1>4, <1>5, <1>6, <1>7, <1>8, <1>9, <1>10, <1>11, <1>12, <1>13 DEF Walk

-----------------------------------------------------------------------------
(* What the other steps do to the money: nothing, but for Load.            *)

\* Two documents report the same costs and name the same generations.
Same(d, e) == \A s \in Steps : d.step[s].cost = e.step[s].cost /\ d.step[s].gen = e.step[s].gen

\* Points at which a run has a document and a guard.
BookedPoints == OwningPoints \ {"load"}

Prepares(q) ==
  /\ run[q].pc \in LaunchPoints \ {"load"}
  /\ run'[q].pc \in (LaunchPoints \ {"load"}) \cup {"next"}
  /\ Steadies(q) /\ Same(run'[q].doc, run[q].doc) /\ Committed(q)' = Committed(q)

Rests(q) ==
  /\ run'[q].pc \notin BookedPoints
  /\ run'[q].stopped => run[q].stopped /\ run[q].pc \notin BookedPoints

\* A process has nothing in hand afterwards, or has not moved, or gets ready.
Calm(q) ==
  /\ run'[q].doc = NoDoc \/ Same(run'[q].doc, run[q].doc)
  /\ \/ Rests(q)
     \/ run'[q] = run[q] /\ Committed(q)' = Committed(q)
     \/ Prepares(q)

\* The process goes down, or it does not.
HaltsOr ==
  \/ halts' = halts
  \/ halts' = halts + 1 /\ \A q \in Procs : run'[q].pc \notin BookedPoints

CalmStep ==
  /\ \A q \in Procs : Calm(q)
  /\ ledger' = ledger /\ HaltsOr
  /\ gens' = gens \/ PlatformStep

LEMMA SameIsSame == \A d : Same(d, d)
BY DEF Same

\* One process makes a calm step that does not reach the platform.
LEMMA OneCalm ==
  ASSUME NEW p \in Procs, UNCHANGED <<gens, ledger, halts>>,
         \A q \in Procs \ {p} : run'[q] = run[q] /\ Committed(q)' = Committed(q),
         Calm(p)
  PROVE  CalmStep
BY SameIsSame DEF CalmStep, Calm, HaltsOr

LEMMA LeavingIsCalm ==
  ASSUME NEW p \in Procs, run'[p] = Left(p)
  PROVE  Calm(p)
<1>1. ~Left(p).stopped
  BY DEF Left, DoneRun, IdleRun
<1> QED
  BY <1>1, LeftHasNoDoc DEF Calm, Rests, BookedPoints, OwningPoints, LaunchPoints, StepPoints

\* Points at which a process has nothing in hand.
LEMMA BarePoints ==
  {"idle", "done", "claim", "load"} \cup AdmissionPoints \subseteq Points \ BookedPoints
BY DEF BookedPoints, OwningPoints, LaunchPoints, StepPoints, AdmissionPoints, Points

LEMMA CalmOrMoney ==
  ASSUME TypeInv, GuardOK, [Next]_vars
  PROVE  \/ CalmStep
         \/ \E p \in Procs : Load(p)
         \/ \E p \in Procs : Walk(p) /\ OneMoves(p) /\ Moves(p)
<1>0. run \in [Procs -> Run] /\ jobs \in [Jobs -> JobDoc]
  BY DEF TypeInv, TypeOK, ProcessOK, StoreOK
<1>1. ASSUME NEW c \in Callers, Execute(c) PROVE CalmStep
  <2>1. /\ c \in Procs /\ UNCHANGED <<gens, ledger, halts, guard>>
        /\ \A q \in Procs \ {c} : run'[q] = run[q]
    BY <1>0, <1>1 DEF Execute, Procs, platformVars, storeVars, boundVars
  <2>2. ASSUME NEW j \in Saved, run' = [run EXCEPT ![c] = DoneRun(j)]
        PROVE  run'[c].doc = NoDoc /\ run'[c].pc = "done" /\ ~run'[c].stopped
    BY <1>0, <2>1, <2>2 DEF DoneRun, IdleRun
  <2>3. ASSUME NEW j \in UnusedJobs,
               run' = [run EXCEPT ![c].pc = "save_job", ![c].job = j, ![c].est = plan.est]
        PROVE  run'[c].doc = run[c].doc /\ run'[c].pc = "save_job" /\ Steadies(c)
    BY <1>0, <2>1, <2>3 DEF Run, Steadies
  <2>4. run[c].pc \notin BookedPoints
    BY <1>1, BarePoints DEF Execute, At
  <2>5. Calm(c)
    BY <1>1, <2>2, <2>3, <2>4, BarePoints, SameIsSame
      DEF Execute, Calm, Rests, AdmissionPoints, Steadies
  <2> QED
    BY <2>1, <2>5, OneCalm DEF Committed
<1>2. ASSUME NEW c \in Callers, Enter(c) PROVE CalmStep
  <2>1. /\ c \in Procs /\ UNCHANGED <<gens, ledger, halts, guard>>
        /\ \A q \in Procs \ {c} : run'[q] = run[q]
    BY <1>0, <1>2 DEF Enter, SaveNewJob, SaveNewPlan, SavePlanDoc, Accept, Goto, Leave, Procs,
      platformVars, storeVars, boundVars
  <2>2. ASSUME NEW point, Goto(c, point)
        PROVE  run'[c].pc = point /\ run'[c].doc = run[c].doc /\ Steadies(c)
    BY <2>1, <2>2, GotoMoves
  <2>3. ASSUME Leave(c) PROVE Calm(c)
    BY <1>0, <2>1, <2>3, LeavingIsCalm DEF Leave
  <2>4. ASSUME Goto(c, "save_plan") \/ Goto(c, "accept") \/ Goto(c, "claim") PROVE Calm(c)
    <3>1. run[c].pc \notin BookedPoints
      BY <1>2, BarePoints DEF Enter, SaveNewJob, SaveNewPlan, Accept, At, AdmissionPoints
    <3> QED
      BY <2>2, <2>4, <3>1, BarePoints, SameIsSame DEF Calm, Rests, AdmissionPoints, Steadies
  <2>5. Calm(c)
    BY <1>2, <2>3, <2>4 DEF Enter, SaveNewJob, SaveNewPlan, Accept
  <2> QED
    BY <2>1, <2>5, OneCalm DEF Committed
<1>3. ASSUME NEW w \in Workers, Take(w) PROVE CalmStep
  <2>1. /\ w \in Procs /\ UNCHANGED <<gens, ledger, halts, guard>>
        /\ \A q \in Procs \ {w} : run'[q] = run[q]
        /\ run'[w].pc = "claim" /\ run'[w].doc = run[w].doc /\ Steadies(w)
        /\ run[w].pc = "idle"
    BY <1>0, <1>3 DEF Take, At, Procs, Run, Steadies, platformVars, storeVars
  <2>2. Calm(w)
    BY <2>1, BarePoints, SameIsSame DEF Calm, Rests, Steadies
  <2> QED
    BY <2>1, <2>2, OneCalm DEF Committed
<1>4. ASSUME NEW p \in Procs, Launch(p), ~Load(p) PROVE CalmStep
  <2>0. run[p] \in Run /\ run[p].doc \in JobDoc /\ guard[p] = guard[p]
    BY <1>0 DEF Run
  <2>1. CASE Claim(p)
    <3>1. /\ UNCHANGED <<gens, ledger, halts, guard>>
          /\ \A q \in Procs \ {p} : run'[q] = run[q]
      BY <1>0, <2>1 DEF Claim, Goto, Leave, platformVars, boundVars
    <3>2. ASSUME Goto(p, "load") PROVE Calm(p)
      <4>1. run[p].pc \notin BookedPoints
        BY <2>1, BarePoints DEF Claim, At
      <4> QED
        BY <3>2, <4>1, GotoMoves, BarePoints, SameIsSame DEF Calm, Rests, Steadies
    <3>3. ASSUME Leave(p) PROVE Calm(p)
      BY <1>0, <3>3, LeavingIsCalm DEF Leave
    <3> QED
      BY <2>1, <3>1, <3>2, <3>3, OneCalm DEF Claim, Committed
  <2>2. CASE Recheck(p)
    <3>1. /\ run[p].pc = "recheck" /\ run'[p].pc = "recheck" /\ Steadies(p)
          /\ run'[p].doc = run[p].doc
          /\ UNCHANGED <<gens, ledger, halts>>
          /\ \A q \in Procs \ {p} : run'[q] = run[q]
      BY <1>0, <2>0, <2>2 DEF Recheck, At, Run, Steadies, platformVars, storeVars, boundVars
    <3>2. \A q \in Procs : Committed(q)' = Committed(q)
      BY <2>2 DEF Recheck, GuardOK, Committed
    <3>3. Calm(p)
      BY <3>1, <3>2, SameIsSame DEF Calm, Prepares, LaunchPoints
    <3> QED
      BY <3>1, <3>2, <3>3, OneCalm
  <2>3. CASE Rechecked(p) \/ SavePlan(p)
    <3>1. /\ run[p].pc \in LaunchPoints \ {"load"} /\ run'[p].pc \in LaunchPoints \ {"load"}
          /\ run'[p].doc = run[p].doc /\ Steadies(p)
          /\ UNCHANGED <<gens, ledger, halts, guard>>
          /\ \A q \in Procs \ {p} : run'[q] = run[q]
      BY <1>0, <2>0, <2>3 DEF Rechecked, SavePlan, SavePlanDoc, Goto, At, Run, Steadies,
        LaunchPoints, platformVars, storeVars, boundVars
    <3>2. Calm(p)
      BY <3>1, SameIsSame DEF Calm, Prepares, Committed
    <3> QED
      BY <3>1, <3>2, OneCalm DEF Committed
  <2>4. CASE Abort(p)
    <3>1. /\ run'[p] = Left(p) /\ UNCHANGED <<gens, ledger, halts, guard>>
          /\ \A q \in Procs \ {p} : run'[q] = run[q]
      BY <1>0, <2>4 DEF Abort, Leave, platformVars, boundVars
    <3> QED
      BY <3>1, LeavingIsCalm, OneCalm DEF Committed
  <2>5. CASE StartRun(p)
    <3> DEFINE doc == [run[p].doc EXCEPT !.status = "running"]
    <3>1. /\ run[p].pc = "start" /\ run'[p].pc = "next" /\ Steadies(p)
          /\ run'[p].doc.step = run[p].doc.step
          /\ UNCHANGED <<gens, ledger, halts, guard>>
          /\ \A q \in Procs \ {p} : run'[q] = run[q]
      BY <1>0, <2>0, <2>5 DEF StartRun, At, Run, JobDoc, Steadies, platformVars, boundVars
    <3>2. Same(run'[p].doc, run[p].doc)
      BY <3>1 DEF Same
    <3>3. Calm(p)
      BY <3>1, <3>2 DEF Calm, Prepares, LaunchPoints, Committed
    <3> QED
      BY <3>1, <3>3, OneCalm DEF Committed
  <2> QED
    BY <1>4, <2>1, <2>2, <2>3, <2>4, <2>5 DEF Launch
<1>5. ASSUME NEW p \in Procs, Walk(p) PROVE CalmStep \/ (OneMoves(p) /\ Moves(p))
  <2>1. CASE FinishRun(p) \/ BreakRun(p)
    <3>1. /\ run'[p] = Left(p) /\ UNCHANGED <<gens, ledger, halts, guard>>
          /\ \A q \in Procs \ {p} : run'[q] = run[q]
      BY <1>0, <2>1 DEF FinishRun, BreakRun, Leave, platformVars, boundVars
    <3> QED
      BY <3>1, LeavingIsCalm, OneCalm DEF Committed
  <2> QED
    BY <1>5, <2>1, WalkMoves
<1>6. ASSUME NEW w \in Workers, Cancel(w) PROVE CalmStep
  <2>1. /\ w \in Procs /\ run'[w] = Left(w) /\ UNCHANGED <<gens, ledger, halts, guard>>
        /\ \A q \in Procs \ {w} : run'[q] = run[q]
    BY <1>0, <1>6 DEF Cancel, Leave, Procs, platformVars, boundVars
  <2> QED
    BY <2>1, LeavingIsCalm, OneCalm DEF Committed
<1>7. ASSUME \/ Stop \/ Restart \/ PlatformStep \/ UNCHANGED vars
             \/ \E j \in Jobs : Recover(j)
      PROVE  CalmStep
  <2>1. UNCHANGED <<ledger, run, guard, halts>> /\ (gens' = gens \/ PlatformStep)
    BY <1>7 DEF Stop, Restart, PlatformStep, Recover, vars, platformVars, storeVars,
      processVars, boundVars
  <2> QED
    BY <2>1, SameIsSame DEF CalmStep, Calm, HaltsOr, Committed
<1>8. ASSUME Stopped \/ Kill PROVE CalmStep
  <2>1. UNCHANGED <<gens, ledger>> /\ run' = Lost /\ halts' = halts + 1
    BY <1>8 DEF Stopped, Kill, GoDown, platformVars, storeVars
  <2>2. IdleRun.doc = NoDoc /\ IdleRun.pc = "idle" /\ ~IdleRun.stopped
    BY DEF IdleRun
  <2>3. \A q \in Procs : (run'[q] = run[q] /\ run[q].pc = "done") \/ run'[q] = IdleRun
    BY <2>1 DEF Lost
  <2>4. \A q \in Procs : run'[q].pc \notin BookedPoints /\ Calm(q)
    BY <2>2, <2>3, BarePoints, SameIsSame DEF Calm, Rests
  <2> QED
    BY <2>1, <2>4 DEF CalmStep, HaltsOr
<1> QED
  BY <1>1, <1>2, <1>3, <1>4, <1>5, <1>6, <1>7, <1>8 DEF Next, Lifecycle

\* A row gets a generation from the document of the run that writes it.
LEMMA RowsNamed ==
  ASSUME TypeInv, NEW p \in Procs, Walk(p)
  PROVE  \A s \in Steps : ledger'[s].gen => ledger[s].gen \/ (s = run[p].cur /\ Step(p).gen)
<1>1. ledger \in [Steps -> LedgerRow]
  BY DEF TypeInv, TypeOK, StoreOK
<1>2. ASSUME NEW status, NEW gen, NEW cost, UpdateStep(run[p].cur, status, gen, cost)
      PROVE  \A s \in Steps : ledger'[s].gen => ledger[s].gen \/ (s = run[p].cur /\ gen)
  BY <1>1, <1>2 DEF UpdateStep, LedgerRow
<1>3. CASE RecordCharge(p) \/ Settle(p) \/ RecordFailure(p)
  <2>1. \E status, gen, cost :
          /\ UpdateStep(run[p].cur, status, gen, cost)
          /\ gen => Step(p).gen
    <3>1. CASE RecordCharge(p)
      BY <3>1 DEF RecordCharge
    <3>2. CASE Settle(p)
      BY <3>2 DEF Settle
    <3>3. CASE RecordFailure(p)
      BY <3>3 DEF RecordFailure
    <3> QED
      BY <1>3, <3>1, <3>2, <3>3
  <2> QED
    BY <1>2, <2>1
<1>4. CASE InsertClaim(p)
  BY <1>1, <1>4 DEF InsertClaim
<1> QED
  BY <1>3, <1>4 DEF Walk, PassStep, BeginStep, SaveStep, FinishRun, ReadClaim, BreakRun,
    SendGenerate, ReceiveReply, Poll, storeVars

\* A job is written from the document of a run, from nothing, or not at all.
Wrote(j) ==
  \/ Same(jobs'[j], jobs[j]) \/ Same(jobs'[j], NoDoc)
  \/ \E p \in Procs : Same(jobs'[j], run[p].doc)

LEMMA JobsWritten ==
  ASSUME TypeInv, [Next]_vars
  PROVE  \A j \in Jobs : Wrote(j)
<1>1. /\ jobs \in [Jobs -> JobDoc]
      /\ \A p \in Procs : run[p].doc \in JobDoc
  BY DEF TypeInv, TypeOK, ProcessOK, StoreOK, Run
<1>2. ASSUME jobs' = jobs PROVE \A j \in Jobs : Wrote(j)
  BY <1>2, SameIsSame DEF Wrote
<1>3. ASSUME NEW i, NEW doc, SaveJobDoc(i, doc), NEW p \in Procs,
             Same(doc, NoDoc) \/ Same(doc, run[p].doc)
      PROVE  \A j \in Jobs : Wrote(j)
  BY <1>1, <1>3, SameIsSame DEF SaveJobDoc, Wrote
<1>4. ASSUME NEW i, NEW status, jobs' = [jobs EXCEPT ![i].status = status]
      PROVE  \A j \in Jobs : Wrote(j)
  <2>1. \A j \in Jobs : jobs'[j].step = jobs[j].step
    BY <1>1, <1>4 DEF JobDoc
  <2> QED
    BY <2>1 DEF Wrote, Same
<1>5. ASSUME NEW c \in Callers, Execute(c) \/ Enter(c) PROVE \A j \in Jobs : Wrote(j)
  <2>1. Same(NewDoc, NoDoc) /\ c \in Procs
    BY DEF Same, NewDoc, NoDoc, Procs
  <2>2. CASE SaveNewJob(c)
    BY <1>3, <2>1, <2>2 DEF SaveNewJob
  <2> QED
    BY <1>2, <1>5, <2>2 DEF Execute, Enter, SaveNewPlan, SavePlanDoc, Accept, storeVars
<1>6. ASSUME NEW p \in Procs, Launch(p) PROVE \A j \in Jobs : Wrote(j)
  <2>1. CASE Claim(p)
    BY <1>2, <1>4, <2>1 DEF Claim
  <2>2. CASE Abort(p)
    <3>1. Same(AbortedDoc(run[p].doc), run[p].doc)
      BY <1>1 DEF Same, AbortedDoc, JobDoc, StepDoc
    <3> QED
      BY <1>3, <2>2, <3>1 DEF Abort
  <2>3. CASE StartRun(p)
    <3>1. PICK doc : doc = [run[p].doc EXCEPT !.status = "running"]
      OBVIOUS
    <3>2. Same(doc, run[p].doc)
      BY <1>1, <3>1 DEF Same, JobDoc
    <3> QED
      BY <1>3, <2>3, <3>1, <3>2 DEF StartRun
  <2> QED
    BY <1>2, <1>6, <2>1, <2>2, <2>3 DEF Launch, Load, Recheck, Rechecked, SavePlan, SavePlanDoc,
      storeVars
<1>7. ASSUME NEW p \in Procs, Walk(p) PROVE \A j \in Jobs : Wrote(j)
  <2>1. CASE FinishRun(p)
    <3>1. PICK doc : doc = [run[p].doc EXCEPT
                              !.status = AggregateStatus(run[p].doc, run[p].stopped)]
      OBVIOUS
    <3>2. Same(doc, run[p].doc)
      BY <1>1, <3>1 DEF Same, JobDoc
    <3>3. SaveJobDoc(run[p].job, doc)
      BY <2>1, <3>1 DEF FinishRun
    <3> QED
      BY <1>3, <3>2, <3>3
  <2>2. CASE SaveStep(p) \/ BreakRun(p)
    BY <1>3, <2>2, SameIsSame DEF SaveStep, BreakRun
  <2> QED
    BY <1>2, <1>7, <2>1, <2>2 DEF Walk, PassStep, BeginStep, ReadClaim, InsertClaim, SendGenerate,
      ReceiveReply, RecordCharge, Poll, Settle, RecordFailure, storeVars
<1>8. ASSUME NEW w \in Workers, Cancel(w) PROVE \A j \in Jobs : Wrote(j)
  BY <1>2, <1>3, <1>8, SameIsSame DEF Cancel, Procs
<1>9. ASSUME \/ (\E w \in Workers : Take(w)) \/ Stop \/ Stopped \/ Kill \/ Restart
             \/ PlatformStep \/ UNCHANGED vars
      PROVE  jobs' = jobs
  BY <1>9 DEF Take, Stop, Stopped, Kill, GoDown, Restart, PlatformStep, vars, storeVars
<1>10. ASSUME NEW i \in Jobs, Recover(i) PROVE \A j \in Jobs : Wrote(j)
  BY <1>4, <1>10 DEF Recover, RequeueJob
<1> QED
  BY <1>2, <1>5, <1>6, <1>7, <1>8, <1>9, <1>10 DEF Next, Lifecycle

-----------------------------------------------------------------------------
(* The guards are budget guards.                                           *)

LEMMA GuardInit == Init => GuardOK
BY DEF Init, GuardOK, NewGuard, Unknown

LEMMA GuardNext == TypeInv /\ GuardOK /\ [Next]_vars => GuardOK'
<1> SUFFICES ASSUME TypeInv, GuardOK, [Next]_vars PROVE GuardOK'
  OBVIOUS
<1> DEFINE G == [committed: Nat, total: Nat, account: Int, blocked: BOOLEAN]
<1>0. guard \in [Procs -> G] /\ NewGuard \in G
  BY DEF GuardOK, NewGuard, Unknown
<1>1. funds \in Int /\ price \in [Steps -> Nat]
  BY PlatformAssumption DEF TypeInv, TypeOK, PlatformTypeOK
<1>2. ASSUME NEW p \in Procs, Load(p) PROVE GuardOK'
  <2>1. jobs[run[p].job] \in JobDoc
    BY <1>2 DEF Load, At, TypeInv, Positioned, TypeOK, StoreOK
  <2>2. CommittedBy(jobs[run[p].job]) \in Nat
    BY <2>1, WorthIsNatural DEF CommittedBy, JobCost, Worth
  <2>3. PICK account \in Snapshots : guard' = [guard EXCEPT ![p] = [NewGuard EXCEPT
          !.account = account, !.committed = CommittedBy(jobs[run[p].job])]]
    BY <1>2 DEF Load
  <2>4. account \in Int
    BY <1>1, <2>3 DEF Snapshots, Unknown
  <2> QED
    BY <1>0, <2>2, <2>3, <2>4 DEF GuardOK, NewGuard
<1>3. ASSUME NEW p \in Procs, Recheck(p) PROVE GuardOK'
  <2>1. run[p].cur \in Steps
    BY <1>3, PlanType DEF Recheck, TypeInv, TypeOK, ProcessOK, Run, Steps
  <2>2. \/ guard' = guard
        \/ guard' = [guard EXCEPT ![p].blocked = TRUE]
        \/ guard' = [guard EXCEPT ![p].total = guard[p].total + price[run[p].cur],
                                  ![p].account = funds]
    BY <1>3 DEF Recheck
  <2>3. guard[p].total + price[run[p].cur] \in Nat
    BY <1>0, <1>1, <2>1
  <2>4. ASSUME NEW n \in Nat, NEW account \in Int,
               guard' = [guard EXCEPT ![p].total = n, ![p].account = account]
        PROVE  GuardOK'
    BY <1>0, <2>4 DEF GuardOK
  <2>5. ASSUME guard' = [guard EXCEPT ![p].blocked = TRUE] PROVE GuardOK'
    BY <1>0, <2>5 DEF GuardOK
  <2> QED
    BY <1>0, <1>1, <2>2, <2>3, <2>4, <2>5 DEF GuardOK
<1>4. ASSUME NEW p \in Procs, Walk(p), ~FinishRun(p), ~BreakRun(p) PROVE GuardOK'
  <2>1. OneMoves(p) /\ Moves(p)
    BY <1>4, WalkMoves
  <2>2. Step(p).cost \in Nat /\ NetCost(run[p].cur) \in Nat /\ Committed(p) \in Nat
    BY <1>0, <2>1 DEF OneMoves, TypeInv, TypeOK, ProcessOK, Run, JobDoc, StepDoc, Step, NetCost,
      PlatformTypeOK, Generation, Committed
  <2>3. Recount(Committed(p), Step(p).cost, NetCost(run[p].cur)) \in Nat
    BY <2>2 DEF Recount, Release
  <2>4. guard' = guard \/ \E n \in Nat : guard' = [guard EXCEPT ![p].committed = n]
    <3>1. CASE Commits(p)
      <4>1. Committed(p) + Step(p).cost \in Nat
        BY <2>2
      <4> QED
        BY <3>1, <4>1 DEF Commits
    <3>2. CASE Recounts(p)
      BY <2>3, <3>2 DEF Recounts
    <3> QED
      BY <2>1, <3>1, <3>2 DEF Moves, Passes, Enters, Produces, Resumes, Quits, Sends, Receives,
        SameMoney
  <2> QED
    BY <1>0, <2>4 DEF GuardOK
<1>5. ASSUME Stopped \/ Kill PROVE GuardOK'
  BY <1>0, <1>5 DEF Stopped, Kill, GoDown, GuardOK
<1>6. ASSUME guard' = guard PROVE GuardOK'
  BY <1>6 DEF GuardOK
<1>7. ASSUME NEW p \in Procs, Launch(p), ~Load(p), ~Recheck(p) PROVE guard' = guard
  BY <1>7 DEF Launch, Claim, Rechecked, Abort, SavePlan, StartRun
<1>8. ASSUME NEW p \in Procs, FinishRun(p) \/ BreakRun(p) PROVE guard' = guard
  BY <1>8 DEF FinishRun, BreakRun
<1>9. ASSUME \/ \E c \in Callers : Execute(c) \/ Enter(c)
             \/ \E w \in Workers : Take(w) \/ Cancel(w)
             \/ \E j \in Jobs : Recover(j)
             \/ Stop \/ Restart \/ PlatformStep \/ UNCHANGED vars
      PROVE  guard' = guard
  BY <1>9 DEF Execute, Enter, SaveNewJob, SaveNewPlan, Accept, Take, Cancel, Recover, Stop,
    Restart, PlatformStep, vars
<1> QED
  BY <1>2, <1>3, <1>4, <1>5, <1>6, <1>7, <1>8, <1>9 DEF Next, Lifecycle

-----------------------------------------------------------------------------
(* The guard covers the document.  A charge on its way is in the document  *)
(* one step before it is in the guard.                                     *)

\* A cost is that of a generation, or of a text, which has none.
PaidStep(step, s) ==
  /\ step.gen => Kind[s] # "text"
  /\ step.cost # 0 => step.gen \/ Kind[s] = "text"
PaidDoc(doc) == \A s \in Steps : PaidStep(doc.step[s], s)

Due(r) == IF r.pc = "record" THEN r.doc.step[r.cur].cost ELSE 0

CoveredRun(S, r, g) ==
  /\ r.pc \in BookedPoints => Worth(r.doc, S) <= g.committed + Due(r)
  /\ r.pc = "record" => r.doc.step[r.cur].gen \/ Kind[r.cur] = "text"
  /\ r.pc = "poll" => r.doc.step[r.cur].gen

CoverInv ==
  /\ \A s \in Steps : ledger[s].gen => Kind[s] # "text"
  /\ \A j \in Jobs : PaidDoc(jobs[j])
  /\ \A p \in Procs : PaidDoc(run[p].doc) /\ CoveredRun(Counted, run[p], guard[p])

LEMMA SameIsPaid ==
  ASSUME NEW d, NEW e, Same(d, e), PaidDoc(e)
  PROVE  PaidDoc(d)
BY DEF Same, PaidDoc, PaidStep

LEMMA NothingIsPaid == PaidDoc(NoDoc)
BY DEF PaidDoc, PaidStep, NoDoc, FreshStep

LEMMA UnbookedIsCovered ==
  ASSUME NEW S, NEW r, NEW g, r.pc \notin BookedPoints
  PROVE  CoveredRun(S, r, g)
BY DEF CoveredRun, BookedPoints, OwningPoints, StepPoints, LaunchPoints

LEMMA SameWorth ==
  ASSUME NEW d, NEW e, Same(d, e), NEW S \in SUBSET Steps
  PROVE  Worth(d, S) = Worth(e, S)
BY WorthStays DEF Same

LEMMA JobsArePaid ==
  ASSUME TypeInv, CoverInv, [Next]_vars
  PROVE  \A j \in Jobs : PaidDoc(jobs'[j])
BY JobsWritten, SameIsPaid, NothingIsPaid DEF Wrote, CoverInv

LEMMA CoverInit == Init => CoverInv
<1> SUFFICES ASSUME Init PROVE CoverInv
  OBVIOUS
<1>1. \A s \in Steps : ~ledger[s].gen
  BY DEF Init, NoRow
<1>2. \A p \in Procs : run[p].doc = NoDoc /\ run[p].pc = "idle"
  BY DEF Init, IdleRun
<1>3. \A p \in Procs : run[p].pc \notin BookedPoints
  BY <1>2, BarePoints
<1> QED
  BY <1>1, <1>2, <1>3, NothingIsPaid, UnbookedIsCovered DEF CoverInv, Init

\* The three kinds of steps.
LEMMA CalmKeepsCover ==
  ASSUME TypeInv, GuardOK, CoverInv, CalmStep, \A j \in Jobs : PaidDoc(jobs'[j])
  PROVE  CoverInv'
<1>1. \A q \in Procs : PaidDoc(run'[q].doc)
  BY SameIsPaid, NothingIsPaid DEF CalmStep, Calm, CoverInv
<1>2. ASSUME NEW q \in Procs, run'[q].pc \in BookedPoints
      PROVE  CoveredRun(Counted', run'[q], guard'[q])
  <2>1. halts' = halts
    BY <1>2 DEF CalmStep, HaltsOr
  <2>2. Counted' = Counted /\ Counted \in SUBSET Steps
    BY <2>1 DEF Counted
  <2>3. CASE run'[q] = run[q] /\ Committed(q)' = Committed(q)
    BY <1>2, <2>2, <2>3 DEF CoverInv, CoveredRun, Committed
  <2>4. CASE Prepares(q)
    <3>1. /\ run[q].pc \in BookedPoints /\ run[q].pc \notin {"record", "poll"}
          /\ run'[q].pc \notin {"record", "poll"}
      BY <2>4 DEF Prepares, BookedPoints, OwningPoints, LaunchPoints
    <3>2. Worth(run'[q].doc, Counted) = Worth(run[q].doc, Counted)
      BY <2>2, <2>4, SameWorth DEF Prepares
    <3> QED
      BY <2>2, <2>4, <3>1, <3>2 DEF Prepares, CoverInv, CoveredRun, Committed, Due
  <2> QED
    BY <1>2, <2>3, <2>4 DEF CalmStep, Calm, Rests
<1>3. \A q \in Procs : CoveredRun(Counted', run'[q], guard'[q])
  BY <1>2, UnbookedIsCovered
<1> QED
  BY <1>1, <1>3 DEF CoverInv, CalmStep

LEMMA LoadKeepsCover ==
  ASSUME TypeInv, GuardOK, Unstarted, CoverInv, NEW p \in Procs, Load(p),
         \A j \in Jobs : PaidDoc(jobs'[j])
  PROVE  CoverInv'
<1> DEFINE doc == jobs[run[p].job]
<1>1. doc \in JobDoc /\ PaidDoc(doc)
  BY DEF Load, At, TypeInv, Positioned, TypeOK, StoreOK, CoverInv
<1>2. /\ run'[p].doc = doc /\ run'[p].pc \in {"plan", "recheck"}
      /\ Committed(p)' = CommittedBy(doc)
      /\ \A q \in Procs \ {p} : run'[q] = run[q] /\ guard'[q] = guard[q]
      /\ UNCHANGED <<ledger, halts>>
  BY DEF Load, TypeInv, TypeOK, ProcessOK, Run, GuardOK, NewGuard, Committed, storeVars, boundVars
<1>3. Counted' = Counted /\ Counted \in SUBSET Steps
  BY <1>2 DEF Counted
<1>4. Worth(doc, Counted) <= CommittedBy(doc)
  <2>1. CASE Resumed(doc)
    <3> DEFINE f == [s \in Steps |-> doc.step[s].cost]
    <3>1. f \in [Steps -> Nat] /\ IsFiniteSet(Steps)
      BY <1>1, StepsFinite DEF JobDoc, StepDoc
    <3>2. [s \in Counted |-> f[s]] = [s \in Counted |-> doc.step[s].cost]
      BY <1>3
    <3> HIDE DEF f
    <3>3. SumOver([s \in Counted |-> f[s]]) <= SumOver(f)
      BY <1>3, <3>1, SumOfPart
    <3> QED
      BY <2>1, <3>2, <3>3 DEF Worth, CommittedBy, JobCost, f
  <2>2. CASE ~Resumed(doc)
    <3> DEFINE f == [s \in Counted |-> doc.step[s].cost]
    <3>1. f \in [Counted -> Int] /\ IsFiniteSet(Counted)
      BY <1>1, <1>3, StepsFinite DEF JobDoc, StepDoc
    <3>2. ASSUME NEW s \in Counted PROVE doc.step[s].cost = 0
      <4>1. CASE Kind[s] # "text"
        BY <1>1, <1>3, <2>2, <4>1 DEF Resumed, PaidDoc, PaidStep
      <4>2. CASE halts = 0
        BY <1>3, <4>2 DEF Unstarted, FreshDoc, Load, At
      <4> QED
        BY <4>1, <4>2 DEF Counted
    <3>3. \A s \in Counted : f[s] = 0
      BY <3>2
    <3> HIDE DEF f
    <3>4. SumOver(f) = 0
      BY <3>1, <3>3, SumOfZeros
    <3> QED
      BY <2>2, <3>4 DEF Worth, CommittedBy, f
  <2> QED
    BY <2>1, <2>2
<1>5. CoveredRun(Counted', run'[p], guard'[p])
  <2>1. CommittedBy(doc) + 0 = CommittedBy(doc)
    BY <1>1, WorthIsNatural DEF CommittedBy, JobCost, Worth
  <2> QED
    BY <1>2, <1>3, <1>4, <2>1 DEF CoveredRun, Due, Committed
<1>6. \A q \in Procs : CoveredRun(Counted', run'[q], guard'[q]) /\ PaidDoc(run'[q].doc)
  BY <1>1, <1>2, <1>3, <1>5 DEF CoverInv
<1> QED
  BY <1>2, <1>6 DEF CoverInv

\* What a move makes of the worth of the document.
LEMMA MovedWorth ==
  ASSUME TypeInv, TypeInv', NEW p \in Procs, OneMoves(p), NEW S \in SUBSET Steps
  PROVE  /\ Worth(run[p].doc, S) \in Nat /\ Worth(run'[p].doc, S) \in Nat
         /\ Step(p).cost \in Nat /\ After(p).cost \in Nat
         /\ run[p].cur \in S =>
              /\ Worth(run'[p].doc, S) = Worth(run[p].doc, S) + After(p).cost - Step(p).cost
              /\ Step(p).cost <= Worth(run[p].doc, S)
         /\ run[p].cur \notin S => Worth(run'[p].doc, S) = Worth(run[p].doc, S)
<1>1. run[p].doc \in JobDoc /\ run'[p].doc \in JobDoc /\ run[p].cur \in Steps
  BY DEF TypeInv, TypeOK, ProcessOK, Run, OneMoves
<1>2. \A t \in Steps \ {run[p].cur} : run'[p].doc.step[t].cost = run[p].doc.step[t].cost
  BY DEF OneMoves
<1>3. Worth(run[p].doc, S) \in Nat /\ Worth(run'[p].doc, S) \in Nat
  BY <1>1, WorthIsNatural
<1>4. run[p].doc.step[run[p].cur].cost \in Nat /\ run'[p].doc.step[run[p].cur].cost \in Nat
  BY <1>1 DEF JobDoc, StepDoc
<1>5. CASE run[p].cur \in S
  BY <1>1, <1>2, <1>3, <1>4, <1>5, WorthChanges DEF Step, After
<1>6. CASE run[p].cur \notin S
  BY <1>2, <1>3, <1>4, <1>6, WorthStays DEF Step, After
<1> QED
  BY <1>5, <1>6

\* A move that does not touch the guard and does not raise the cost.
LEMMA CheaperIsCovered ==
  ASSUME TypeInv, TypeInv', GuardOK, CoverInv, NEW p \in Procs, OneMoves(p),
         run[p].pc \in BookedPoints \ {"record"}, run'[p].pc # "record",
         Committed(p)' = Committed(p), After(p).cost <= Step(p).cost,
         run'[p].pc = "poll" => After(p).gen /\ Stays(p)
  PROVE  CoveredRun(Counted, run'[p], guard'[p])
<1>1. Worth(run[p].doc, Counted) <= Committed(p) + 0
  BY DEF CoverInv, CoveredRun, Due, Committed
<1>2. Worth(run'[p].doc, Counted) <= Worth(run[p].doc, Counted)
  BY MovedWorth DEF Counted
<1>3. Committed(p) \in Nat /\ Worth(run'[p].doc, Counted) \in Nat /\ Worth(run[p].doc, Counted) \in Nat
  BY MovedWorth DEF GuardOK, Committed, Counted
<1>4. Worth(run'[p].doc, Counted) <= Committed(p)' + 0
  BY <1>1, <1>2, <1>3
<1> QED
  BY <1>4 DEF CoveredRun, Due, Committed, After, Stays

LEMMA MovesKeepCover ==
  ASSUME TypeInv, TypeInv', GuardOK, LedgerInv, CoverInv, NEW p \in Procs,
         OneMoves(p), Moves(p)
  PROVE  CoveredRun(Counted, run'[p], guard'[p]) /\ PaidStep(After(p), run[p].cur)
<1> DEFINE s == run[p].cur
           before == Worth(run[p].doc, Counted)
           after == Worth(run'[p].doc, Counted)
<1>1. /\ before \in Nat /\ after \in Nat /\ Step(p).cost \in Nat /\ After(p).cost \in Nat
      /\ s \in Counted => after = before + After(p).cost - Step(p).cost /\ Step(p).cost <= before
      /\ s \notin Counted => after = before
  BY MovedWorth DEF Counted
<1>2. s \in Steps /\ PaidStep(Step(p), s) /\ CoveredRun(Counted, run[p], guard[p])
  BY DEF OneMoves, CoverInv, PaidDoc, Step
<1>3. Committed(p) \in Nat /\ gens[s].bill \in Nat /\ gens[s].refunded \in BOOLEAN
  BY <1>2 DEF GuardOK, Committed, TypeInv, TypeOK, PlatformTypeOK, Generation
<1>4. NetCost(s) \in Nat /\ NetCost(s) <= gens[s].bill
  BY <1>3 DEF NetCost
<1> USE DEF BookedPoints, OwningPoints, StepPoints
<1> HIDE DEF before, after
<1>5. CASE Passes(p) \/ Enters(p) \/ Quits(p) \/ Sends(p)
  <2>1. SameMoney(p) /\ run[p].pc \in BookedPoints \ {"record"} /\ run'[p].pc \notin {"record", "poll"}
    BY <1>5 DEF Passes, Enters, Quits, Sends
  <2>2. Committed(p)' = Committed(p) /\ After(p).cost <= Step(p).cost
    BY <1>1, <2>1 DEF SameMoney, Committed
  <2>3. PaidStep(After(p), s)
    BY <1>2, <2>1 DEF SameMoney, PaidStep
  <2> QED
    BY <2>1, <2>2, <2>3, CheaperIsCovered
<1>6. CASE Produces(p)
  <2>1. Committed(p)' = Committed(p) /\ After(p).cost <= Step(p).cost
    BY <1>1, <1>6 DEF Produces, Committed
  <2>2. PaidStep(After(p), s)
    BY <1>2, <1>6 DEF Produces, PaidStep
  <2> QED
    BY <1>6, <2>1, <2>2, CheaperIsCovered DEF Produces
<1>7. CASE Resumes(p)
  <2>1. Committed(p)' = Committed(p) /\ After(p).cost <= Step(p).cost
    BY <1>1, <1>7 DEF Resumes, Committed
  <2>2. PaidStep(After(p), s)
    BY <1>2, <1>7 DEF Resumes, PaidStep, CoverInv
  <2> QED
    BY <1>7, <2>1, <2>2, CheaperIsCovered DEF Resumes
<1>8. CASE Receives(p)
  <2>1. before <= Committed(p) + 0
    BY <1>2, <1>8 DEF Receives, CoveredRun, Due, Committed, before
  <2>2. Committed(p)' = Committed(p) /\ Due(run'[p]) = After(p).cost
    BY <1>8 DEF Receives, Committed, Due, After, Stays
  <2>3. after <= Committed(p)' + Due(run'[p])
    BY <1>1, <1>3, <2>1, <2>2
  <2>4. PaidStep(After(p), s)
    BY <1>8 DEF Receives, PaidStep
  <2>5. /\ run'[p].doc.step[run'[p].cur].gen \/ Kind[run'[p].cur] = "text"
        /\ run'[p].pc = "record"
    BY <1>8 DEF Receives, After, Stays
  <2> QED
    BY <2>3, <2>4, <2>5 DEF CoveredRun, Committed, after
<1>9. CASE Commits(p)
  <2>1. before <= Committed(p) + Step(p).cost
    BY <1>2, <1>9 DEF Commits, CoveredRun, Due, Committed, before, Step
  <2>2. Committed(p)' = Committed(p) + Step(p).cost
    BY <1>9 DEF Commits, Committed, GuardOK
  <2>3. After(p).cost <= Step(p).cost
    <3>1. CASE run'[p].pc = "settle"
      <4>1. Step(p).cost = gens[s].bill
        BY <1>9 DEF Commits, LedgerInv, TrueRun, Step
      <4> QED
        BY <1>4, <1>9, <3>1, <4>1 DEF Commits
    <3>2. CASE run'[p].pc # "settle"
      BY <1>1, <1>9, <3>2 DEF Commits
    <3> QED
      BY <3>1, <3>2
  <2>4. after <= Committed(p)' + 0
    BY <1>1, <1>3, <2>1, <2>2, <2>3
  <2>5. PaidStep(After(p), s)
    BY <1>2, <1>9 DEF Commits, PaidStep, CoveredRun, Step
  <2>6. run'[p].pc \in {"save", "poll", "settle"} /\ (run'[p].pc = "poll" => After(p).gen /\ Stays(p))
    BY <1>9 DEF Commits
  <2> QED
    BY <2>4, <2>5, <2>6 DEF CoveredRun, Due, Committed, after, After, Stays
<1>10. CASE Recounts(p)
  <2>1. before <= Committed(p) + 0
    BY <1>2, <1>10 DEF Recounts, CoveredRun, Due, Committed, before
  <2>2. Step(p).gen
    BY <1>2, <1>10 DEF Recounts, CoveredRun, Step
  <2>3. s \in Counted
    BY <1>2, <2>2 DEF Counted, PaidStep
  <2>4. Committed(p)' = Recount(Committed(p), Step(p).cost, NetCost(s))
    BY <1>10 DEF Recounts, Committed, GuardOK
  <2>5. after = before + NetCost(s) - Step(p).cost /\ Step(p).cost <= Committed(p)
    BY <1>1, <1>3, <1>10, <2>1, <2>3 DEF Recounts
  <2>6. Committed(p)' = Committed(p) - Step(p).cost + NetCost(s)
    BY <1>1, <1>3, <1>4, <2>4, <2>5 DEF Recount, Release
  <2>7. after <= Committed(p)' + 0
    BY <1>1, <1>3, <1>4, <2>1, <2>5, <2>6
  <2>8. PaidStep(After(p), s)
    BY <1>2, <1>10, <2>2 DEF Recounts, PaidStep
  <2> QED
    BY <1>10, <2>7, <2>8 DEF Recounts, CoveredRun, Due, Committed, after
<1> QED
  BY <1>5, <1>6, <1>7, <1>8, <1>9, <1>10 DEF Moves

LEMMA CoverNext ==
  TypeInv /\ GuardOK /\ LedgerInv /\ Unstarted /\ CoverInv /\ [Next]_vars => CoverInv'
<1> SUFFICES ASSUME TypeInv, GuardOK, LedgerInv, Unstarted, CoverInv, [Next]_vars
             PROVE  CoverInv'
  OBVIOUS
<1>1. \A j \in Jobs : PaidDoc(jobs'[j])
  BY JobsArePaid
<1>2. CASE CalmStep
  BY <1>1, <1>2, CalmKeepsCover
<1>3. CASE \E p \in Procs : Load(p)
  BY <1>1, <1>3, LoadKeepsCover
<1>4. ASSUME NEW p \in Procs, Walk(p), OneMoves(p), Moves(p) PROVE CoverInv'
  <2>1. TypeInv'
    BY NextType
  <2>2. CoveredRun(Counted, run'[p], guard'[p]) /\ PaidStep(After(p), run[p].cur)
    BY <1>4, <2>1, MovesKeepCover
  <2>3. PaidDoc(run'[p].doc)
    BY <1>4, <2>2 DEF OneMoves, After, PaidDoc, CoverInv
  <2>4. Counted' = Counted
    BY <1>4 DEF OneMoves, Counted
  <2>5. \A q \in Procs \ {p} : run'[q] = run[q] /\ guard'[q] = guard[q]
    BY <1>4 DEF GuardOK, OneMoves, Moves, Passes, Enters, Produces, Resumes, Quits, Sends,
      Receives, Commits, Recounts, SameMoney
  <2>6. \A q \in Procs : PaidDoc(run'[q].doc) /\ CoveredRun(Counted', run'[q], guard'[q])
    BY <2>2, <2>3, <2>4, <2>5 DEF CoverInv
  <2>7. \A s \in Steps : ledger'[s].gen => Kind[s] # "text"
    <3>1. PaidDoc(run[p].doc)
      BY DEF CoverInv
    <3> QED
      BY <1>4, <3>1, RowsNamed DEF CoverInv, PaidDoc, PaidStep, Step
  <2> QED
    BY <1>1, <2>6, <2>7 DEF CoverInv
<1> QED
  BY <1>2, <1>3, <1>4, CalmOrMoney

BudgetInv == GuardOK /\ Unstarted /\ CoverInv

LEMMA BudgetInvariance == Spec => [](TypeInv /\ LeaseInv /\ LedgerInv /\ BudgetInv)
<1>1. Init => BudgetInv
  BY GuardInit, UnstartedInit, CoverInit DEF BudgetInv
<1>2. TypeInv /\ LeaseInv /\ LedgerInv /\ BudgetInv /\ [Next]_vars => BudgetInv'
  BY GuardNext, UnstartedNext, CoverNext DEF BudgetInv
<1> QED
  BY <1>1, <1>2, Invariance, LedgerInvariance, PTL DEF Spec

\* Whatever was stopped, killed and resumed, and whatever other jobs do, between two
\* steps the guard of a run has committed what its document reports as paid, texts
\* paid before the process went down excepted (plan_service.py:519-526).
THEOREM GuardCovers == Spec => []GuardCoversReport
<1>1. BudgetInv => GuardCoversReport
  <2> SUFFICES ASSUME BudgetInv, NEW p \in Procs, run[p].pc = "next"
               PROVE  Worth(run[p].doc, Counted) <= guard[p].committed
    BY DEF GuardCoversReport, Worth
  <2>1. Worth(run[p].doc, Counted) <= guard[p].committed + 0
    BY DEF BudgetInv, CoverInv, CoveredRun, Due, BookedPoints, OwningPoints
  <2> QED
    BY <2>1 DEF BudgetInv, GuardOK
<1> QED
  BY <1>1, BudgetInvariance, PTL

-----------------------------------------------------------------------------
(* One job, and no stop or kill so far.  Then what a run has launched it   *)
(* knows, and what it has not reached nobody has launched.                 *)

OneJob == \A i, j \in Saved : i = j
Quiet == OneJob /\ halts = 0

Untouched(s) == ~Launched(s) /\ ~ledger[s].gen
Pristine == \A s \in Steps : Untouched(s)

\* The steps the run has yet to launch, if it launches them at all.
Ahead(p, s) ==
  \/ s > run[p].cur
  \/ s = run[p].cur /\ run[p].pc \in {"next", "claim_step", "insert", "send"}

\* The steps whose cost is in the document, if replies are not lost.
Knows(p, s) ==
  /\ run[p].doc.step[s].gen \/ (Launched(s) /\ "reply" \notin Faults)
  /\ ~(run[p].pc = "sent" /\ s = run[p].cur)

WalkPoints == StepPoints \cup {"next", "save"}

QuietLaunch(p) ==
  run[p].pc \in LaunchPoints => Pristine /\ (run[p].pc # "load" => Committed(p) = 0)

QuietWalk(p) ==
  run[p].pc \in WalkPoints =>
    /\ \A s \in Steps : Ahead(p, s) => Untouched(s) /\ ~run[p].doc.step[s].gen
    /\ run[p].pc = "sent" => ~Step(p).gen
    /\ \A s \in Steps : Knows(p, s) => NetCost(s) <= run[p].doc.step[s].cost
    /\ ~run[p].stopped => Committed(p) <= Spendable

StopsAtEnd(p) == run[p].stopped => run[p].pc \in {"next", "save", "fail"}

QuietInv ==
  /\ \A s \in Steps : ~Launched(s) => NetCost(s) = 0
  /\ (\A j \in Saved : Status(j) = "queued") => Pristine
  /\ \A p \in Procs : QuietLaunch(p) /\ QuietWalk(p) /\ StopsAtEnd(p)

LEMMA QuietInit == Init => QuietInv
<1> SUFFICES ASSUME Init PROVE QuietInv
  OBVIOUS
<1>1. \A s \in Steps : gens[s] = NoGeneration /\ ledger[s] = NoRow
  BY DEF Init, PlatformInit
<1>2. \A p \in Procs : run[p].pc = "idle" /\ ~run[p].stopped
  BY DEF Init, IdleRun
<1>3. Pristine /\ \A s \in Steps : NetCost(s) = 0
  BY <1>1 DEF Pristine, Untouched, Launched, NoGeneration, NoRow, NetCost
<1> QED
  BY <1>2, <1>3 DEF QuietInv, QuietLaunch, QuietWalk, StopsAtEnd, LaunchPoints, WalkPoints,
    StepPoints

\* With one job, one process runs it.
LEMMA SoleOwner ==
  ASSUME TypeInv, LeaseInv, OneJob, NEW p \in Procs, NEW q \in Procs, Owns(p), Owns(q)
  PROVE  p = q
<1>1. run[p].job \in Saved /\ run[q].job \in Saved
  BY OwnerIsBusy DEF TypeInv, Positioned, LeaseInv, HeldIsRunning, Saved
<1> QED
  BY <1>1 DEF OneJob, LeaseInv, OneRunnerPerJob

\* Jobs are queued once, and keep their row.
LEMMA QueuedOnce ==
  ASSUME TypeInv, LeaseInv, Unstarted, halts = 0, [Next]_vars
  PROVE  \A j \in Jobs :
           /\ jobs'[j].status = "queued" => Status(j) \in {"absent", "queued"}
           /\ Status(j) # "absent" => jobs'[j].status # "absent"
<1> DEFINE Good == \A j \in Jobs :
           /\ jobs'[j].status = "queued" => Status(j) \in {"absent", "queued"}
           /\ Status(j) # "absent" => jobs'[j].status # "absent"
<1>0. jobs \in [Jobs -> JobDoc]
  BY DEF TypeInv, TypeOK, StoreOK
<1>1. ASSUME jobs' = jobs PROVE Good
  BY <1>1 DEF Status
<1>2. ASSUME NEW p \in Procs, Holding(p) \/ Quitting(p) PROVE Good
  BY <1>2 DEF Holding, Quitting, Alone, Status, TerminalJob
<1>3. ASSUME NEW c \in Callers, Execute(c) \/ Enter(c) PROVE Good
  <2>1. CASE SaveNewJob(c)
    <3>1. Status(run[c].job) = "absent"
      BY <2>1 DEF SaveNewJob, At, LeaseInv, DrawnIsFresh, Procs
    <3>2. \A j \in Jobs \ {run[c].job} : jobs'[j] = jobs[j]
      BY <1>0, <2>1 DEF SaveNewJob, SaveJobDoc
    <3>3. jobs'[run[c].job].status # "absent"
      BY <1>0, <2>1 DEF SaveNewJob, SaveJobDoc, At, NewDoc, NoDoc, TypeInv, Positioned, Procs
    <3> QED
      BY <3>1, <3>2, <3>3 DEF Status
  <2> QED
    BY <1>1, <1>3, <2>1 DEF Execute, Enter, SaveNewPlan, SavePlanDoc, Accept, storeVars
<1>4. ASSUME NEW p \in Procs, Claim(p) PROVE Good
  <2>1. CASE Claimable(run[p].job)
    <3>1. jobs' = [jobs EXCEPT ![run[p].job].status = "running"]
      BY <1>4, <2>1 DEF Claim
    <3> QED
      BY <1>0, <3>1 DEF JobDoc, Status
  <2> QED
    BY <1>1, <1>4, <2>1 DEF Claim
<1>5. ASSUME NEW p \in Procs, Launch(p) \/ Walk(p), ~Claim(p) PROVE Good
  BY <1>2, <1>5, LaunchKinds, WalkKinds
<1>6. ASSUME NEW w \in Workers, Cancel(w) PROVE Good
  BY <1>1, <1>2, <1>6, CancelKinds DEF Procs
<1>7. ASSUME NEW j \in Jobs, Recover(j) PROVE Good
  BY <1>7 DEF Recover, Unstarted
<1>8. ASSUME \/ (\E w \in Workers : Take(w)) \/ Stop \/ Stopped \/ Kill \/ Restart
             \/ PlatformStep \/ UNCHANGED vars
      PROVE  Good
  BY <1>1, <1>8 DEF Take, Stop, Stopped, Kill, GoDown, Restart, PlatformStep, vars, storeVars
<1> HIDE DEF Good
<1>9. Good
  BY <1>3, <1>4, <1>5, <1>6, <1>7, <1>8 DEF Next, Lifecycle
<1> QED
  BY <1>9 DEF Good

\* A process that is to load a job was so before, or claims a queued one.
LEMMA LoadsClaimed ==
  ASSUME TypeInv, LeaseInv, [Next]_vars, NEW p \in Procs, run'[p].pc = "load"
  PROVE  run[p].pc = "load" \/ (run[p].job \in Saved /\ Status(run[p].job) = "queued")
<1>0. run \in [Procs -> Run]
  BY DEF TypeInv, TypeOK, ProcessOK
<1>1. CASE run'[p] = run[p]
  BY <1>1
<1>2. ASSUME NEW c \in Callers, Execute(c) \/ Enter(c) PROVE run'[p] = run[p]
  <2>1. /\ c \in Procs /\ \A q \in Procs \ {c} : run'[q] = run[q]
    BY <1>0, <1>2 DEF Execute, Enter, SaveNewJob, SaveNewPlan, Accept, Goto, Leave, Procs
  <2>2. ASSUME Execute(c) PROVE run'[c].pc # "load"
    <3>1. ASSUME NEW j \in Saved, run' = [run EXCEPT ![c] = DoneRun(j)]
          PROVE  run'[c].pc = "done"
      BY <1>0, <2>1, <3>1, IdleType DEF Saved
    <3>2. ASSUME NEW j \in UnusedJobs,
                 run' = [run EXCEPT ![c].pc = "save_job", ![c].job = j, ![c].est = plan.est]
          PROVE  run'[c].pc = "save_job"
      BY <1>0, <2>1, <3>2 DEF Run
    <3> QED
      BY <2>2, <3>1, <3>2 DEF Execute
  <2>3. ASSUME Enter(c) PROVE run'[c].pc # "load"
    BY <1>0, <2>1, <2>3, LeftIsIdle DEF Enter, SaveNewJob, SaveNewPlan, Accept, Goto, Leave, Run
  <2> QED
    BY <1>2, <2>1, <2>2, <2>3
<1>3. ASSUME NEW w \in Workers, Take(w) PROVE run'[p] = run[p]
  BY <1>0, <1>3 DEF Take, Run, Procs
<1>4. ASSUME NEW q \in Procs, Claim(q)
      PROVE  run'[p] = run[p] \/ (run[p].job \in Saved /\ Status(run[p].job) = "queued")
  <2>1. \A o \in Procs \ {q} : run'[o] = run[o]
    BY <1>0, <1>4 DEF Claim, Goto, Leave
  <2>2. CASE Claimable(run[q].job)
    BY <1>4, <2>1, <2>2 DEF Claim, Claimable, At, Saved, TypeInv, Positioned
  <2>3. CASE ~Claimable(run[q].job)
    BY <1>0, <1>4, <2>1, <2>3, LeftIsIdle DEF Claim, Leave
  <2> QED
    BY <2>2, <2>3
<1>5. ASSUME NEW q \in Procs, Holding(q) \/ Quitting(q) PROVE run'[p] = run[p]
  BY <1>5, LeftIsIdle DEF Holding, Quitting, Alone
<1>6. ASSUME NEW q \in Procs, Launch(q) \/ Walk(q), ~Claim(q) PROVE run'[p] = run[p]
  BY <1>5, <1>6, LaunchKinds, WalkKinds
<1>7. ASSUME NEW w \in Workers, Cancel(w) PROVE run'[p] = run[p]
  <2>1. run'[w] = Left(w) /\ w \in Procs /\ \A q \in Procs \ {w} : run'[q] = run[q]
    BY <1>0, <1>7 DEF Cancel, Leave, Procs
  <2> QED
    BY <2>1, LeftIsIdle
<1>8. ASSUME Stopped \/ Kill PROVE run'[p] = run[p]
  BY <1>8 DEF Stopped, Kill, GoDown, Lost, IdleRun
<1>9. ASSUME \/ Stop \/ Restart \/ PlatformStep \/ UNCHANGED vars
             \/ \E j \in Jobs : Recover(j)
      PROVE  run'[p] = run[p]
  BY <1>9 DEF Stop, Restart, PlatformStep, Recover, vars
<1> QED
  BY <1>1, <1>2, <1>3, <1>4, <1>6, <1>7, <1>8, <1>9 DEF Next, Lifecycle

LEMMA NetCostType == TypeInv => \A s \in Steps : NetCost(s) \in Nat /\ NetCost(s) <= gens[s].bill
BY DEF TypeInv, TypeOK, PlatformTypeOK, Generation, NetCost

\* What the platform does by itself launches nothing and costs nothing.
LEMMA PlatformIsCheap ==
  ASSUME TypeInv, gens' = gens \/ PlatformStep, NEW s \in Steps
  PROVE  /\ Launched(s)' <=> Launched(s)
         /\ NetCost(s)' <= NetCost(s)
<1>0. gens \in [Steps -> Generation] /\ NetCost(s) \in Nat
  BY NetCostType DEF TypeInv, TypeOK, PlatformTypeOK
<1>1. CASE gens' = gens
  BY <1>0, <1>1 DEF Launched, NetCost
<1>2. ASSUME NEW t \in Steps, Conclude(t)
      PROVE  (Launched(s)' <=> Launched(s)) /\ NetCost(s)' <= NetCost(s)
  <2>1. CASE s = t
    BY <1>0, <1>2, <2>1 DEF Conclude, Launched, NetCost, Generation
  <2>2. CASE s # t
    <3>1. gens'[s] = gens[s]
      BY <1>0, <1>2, <2>2 DEF Conclude
    <3> QED
      BY <1>0, <3>1 DEF Launched, NetCost
  <2> QED
    BY <2>1, <2>2
<1>3. ASSUME NEW t \in Steps, MovePrice(t) PROVE gens' = gens
  BY <1>3 DEF MovePrice
<1> QED
  BY <1>1, <1>2, <1>3 DEF PlatformStep, PlatformNext

LEMMA CalmKeepsQuiet ==
  ASSUME TypeInv, LeaseInv, GuardOK, Unstarted, QuietInv, Quiet, Quiet', [Next]_vars, CalmStep
  PROVE  QuietInv'
<1> USE DEF QuietInv
<1>1. /\ \A s \in Steps : (Launched(s)' <=> Launched(s)) /\ NetCost(s)' <= NetCost(s)
      /\ ledger' = ledger
  BY PlatformIsCheap DEF CalmStep
<1>2. \A s \in Steps : NetCost(s) \in Nat /\ NetCost(s)' \in Nat
  <2>1. TypeInv'
    BY NextType
  <2>2. \A s \in Steps : NetCost(s)' \in Nat
    BY <2>1 DEF TypeInv, TypeOK, PlatformTypeOK, Generation, NetCost
  <2> QED
    BY <2>2, NetCostType
<1>3. /\ \A s \in Steps : Untouched(s)' <=> Untouched(s)
      /\ Pristine' <=> Pristine
  BY <1>1 DEF Untouched, Pristine
<1>4. \A s \in Steps : ~Launched(s)' => NetCost(s)' = 0
  BY <1>1, <1>2
<1>5. ASSUME \A j \in Saved' : Status(j)' = "queued" PROVE Pristine
  <2>1. \A j \in Saved : Status(j) = "queued"
    BY <1>5, QueuedOnce DEF Saved, Status, Quiet
  <2> QED
    BY <2>1
<1>6. ASSUME NEW p \in Procs PROVE QuietLaunch(p)' /\ QuietWalk(p)' /\ StopsAtEnd(p)'
  <2>1. CASE Rests(p)
    <3>1. ~run'[p].stopped
      BY <2>1 DEF Rests, StopsAtEnd, BookedPoints, OwningPoints, StepPoints
    <3>2. run'[p].pc = "load" => Pristine
      <4>1. run[p].pc = "load" => Pristine
        BY DEF QuietLaunch, LaunchPoints
      <4>2. run[p].job \in Saved /\ Status(run[p].job) = "queued" => Pristine
        BY DEF Quiet, OneJob
      <4> QED
        BY <4>1, <4>2, LoadsClaimed
    <3> QED
      BY <1>3, <2>1, <3>1, <3>2 DEF Rests, QuietLaunch, QuietWalk, StopsAtEnd, BookedPoints,
        OwningPoints, WalkPoints, StepPoints
  <2>2. CASE run'[p] = run[p] /\ Committed(p)' = Committed(p)
    <3>1. QuietLaunch(p)' /\ StopsAtEnd(p)'
      BY <1>3, <2>2 DEF QuietLaunch, StopsAtEnd
    <3>2. ASSUME run'[p].pc \in WalkPoints PROVE QuietWalk(p)'
      <4>1. \A s \in Steps : Ahead(p, s)' => Ahead(p, s)
        BY <2>2 DEF Ahead
      <4>2. \A s \in Steps : Knows(p, s)' => Knows(p, s)
        BY <1>1, <2>2 DEF Knows
      <4>3. run[p].pc \in WalkPoints /\ run[p].doc \in JobDoc
        BY <2>2, <3>2 DEF TypeInv, TypeOK, ProcessOK, Run
      <4>4. \A s \in Steps : Knows(p, s)' => NetCost(s)' <= run'[p].doc.step[s].cost
        <5> SUFFICES ASSUME NEW s \in Steps, Knows(p, s)
                     PROVE  NetCost(s)' <= run[p].doc.step[s].cost
          BY <2>2, <4>2
        <5>1. NetCost(s) <= run[p].doc.step[s].cost /\ run[p].doc.step[s].cost \in Nat
          BY <4>3 DEF QuietWalk, JobDoc, StepDoc
        <5> QED
          BY <1>1, <1>2, <5>1
      <4>5. \A s \in Steps : Ahead(p, s)' => Untouched(s)' /\ ~run'[p].doc.step[s].gen
        BY <1>3, <2>2, <4>1, <4>3 DEF QuietWalk
      <4>6. /\ run'[p].pc = "sent" => ~Step(p)'.gen
            /\ ~run'[p].stopped => Committed(p)' <= Spendable
        BY <2>2, <4>3 DEF QuietWalk, Step
      <4> QED
        BY <4>4, <4>5, <4>6 DEF QuietWalk
    <3> QED
      BY <3>1, <3>2 DEF QuietWalk
  <2>3. CASE Prepares(p)
    <3>1. /\ Pristine /\ FreshDoc(run[p].doc) /\ Committed(p)' = 0 /\ ~run'[p].stopped
      BY <2>3 DEF Prepares, QuietLaunch, StopsAtEnd, Steadies, LaunchPoints, Unstarted, Quiet
    <3>2. FreshDoc(run'[p].doc) /\ Pristine'
      BY <1>3, <2>3, <3>1 DEF Prepares, Same, FreshDoc
    <3>3. run'[p].pc \in LaunchPoints \cup {"next"}
      BY <2>3 DEF Prepares
    <3>4. \A s \in Steps : ~Knows(p, s)'
      BY <3>2 DEF Knows, FreshDoc, Pristine, Untouched
    <3>5. 0 <= Spendable
      BY BudgetAssumption DEF Spendable
    <3>6. QuietWalk(p)'
      BY <3>1, <3>2, <3>3, <3>4, <3>5 DEF QuietWalk, FreshDoc, Pristine, LaunchPoints, WalkPoints,
        StepPoints
    <3> QED
      BY <3>1, <3>2, <3>6 DEF QuietLaunch, StopsAtEnd
  <2> QED
    BY <2>1, <2>2, <2>3 DEF CalmStep, Calm
<1> QED
  BY <1>3, <1>4, <1>5, <1>6

\* A step of the only owner leaves the others without a job in hand.
LEMMA OthersAreQuiet ==
  ASSUME TypeInv, LeaseInv, OneJob, QuietInv, NEW p \in Procs, Owns(p),
         \A q \in Procs \ {p} : run'[q] = run[q]
  PROVE  \A q \in Procs \ {p} : QuietLaunch(q)' /\ QuietWalk(q)' /\ StopsAtEnd(q)'
<1>1. \A q \in Procs \ {p} : run'[q].pc \notin OwningPoints
  BY SoleOwner DEF Owns
<1>2. \A q \in Procs \ {p} : StopsAtEnd(q)'
  BY DEF QuietInv, StopsAtEnd
<1> QED
  BY <1>1, <1>2 DEF QuietLaunch, QuietWalk, OwningPoints, WalkPoints

LEMMA LoadKeepsQuiet ==
  ASSUME TypeInv, LeaseInv, GuardOK, Unstarted, QuietInv, Quiet, NEW p \in Procs, Load(p)
  PROVE  QuietInv'
<1>1. /\ run[p].pc = "load" /\ run'[p].pc \in {"plan", "recheck"} /\ Steadies(p)
      /\ Committed(p)' = CommittedBy(jobs[run[p].job])
      /\ \A q \in Procs \ {p} : run'[q] = run[q]
      /\ UNCHANGED <<gens, ledger, jobs>>
  BY DEF Load, At, TypeInv, TypeOK, ProcessOK, Run, GuardOK, NewGuard, Committed, Steadies,
    platformVars, storeVars
<1>2. FreshDoc(jobs[run[p].job]) /\ Pristine /\ ~run[p].stopped
  BY <1>1 DEF Unstarted, Quiet, QuietInv, QuietLaunch, StopsAtEnd, LaunchPoints
<1>3. Committed(p)' = 0
  BY <1>1, <1>2 DEF CommittedBy, Resumed, FreshDoc
<1>4. Pristine' /\ \A s \in Steps : ~Launched(s)' => NetCost(s)' = 0
  BY <1>1, <1>2 DEF Pristine, Untouched, Launched, NetCost, QuietInv
<1>5. QuietLaunch(p)' /\ QuietWalk(p)' /\ StopsAtEnd(p)'
  BY <1>1, <1>2, <1>3, <1>4 DEF QuietLaunch, QuietWalk, StopsAtEnd, Steadies, WalkPoints, StepPoints
<1>6. Owns(p)
  BY <1>1 DEF Owns, OwningPoints, LaunchPoints
<1> QED
  BY <1>1, <1>4, <1>5, <1>6, OthersAreQuiet DEF Quiet, QuietInv

\* What a move has to show: how far the run is, what it has paid for the step it
\* stands at, and what it has left of the budget.
Reaches(p, cur) ==
  /\ \A s \in Steps : Ahead(p, s)' => Ahead(p, s)
  /\ Ahead(p, cur)' => ~ledger'[cur].gen /\ ~After(p).gen /\ gens' = gens
  /\ \A s \in Steps \ {cur} : gens'[s] = gens[s]

Settles(p, cur) == Knows(p, cur)' => NetCost(cur)' <= After(p).cost

Affords(p) ==
  /\ run'[p].pc \in WalkPoints /\ StopsAtEnd(p)'
  /\ run'[p].pc = "sent" => ~Step(p)'.gen
  /\ ~run'[p].stopped => Committed(p)' <= Spendable

LEMMA MoveIsQuiet ==
  ASSUME TypeInv, NEW p \in Procs, NEW cur \in Steps, cur = run[p].cur,
         OneMoves(p), run[p].pc \in WalkPoints, QuietWalk(p),
         Reaches(p, cur), Settles(p, cur), Affords(p)
  PROVE  QuietLaunch(p)' /\ QuietWalk(p)' /\ StopsAtEnd(p)'
<1>1. ASSUME NEW s \in Steps, Ahead(p, s)'
      PROVE  Untouched(s)' /\ ~run'[p].doc.step[s].gen
  <2>1. Untouched(s) /\ ~run[p].doc.step[s].gen
    BY <1>1 DEF Reaches, QuietWalk
  <2>2. CASE s = cur
    BY <1>1, <2>1, <2>2 DEF Reaches, After, Untouched, Launched
  <2>3. CASE s # cur
    BY <2>1, <2>3 DEF Reaches, OneMoves, Untouched, Launched
  <2> QED
    BY <2>2, <2>3
<1>2. ASSUME NEW s \in Steps, Knows(p, s)'
      PROVE  NetCost(s)' <= run'[p].doc.step[s].cost
  <2>1. CASE s = cur
    BY <1>2, <2>1 DEF Settles, After
  <2>2. CASE s # cur
    <3>1. run'[p].doc.step[s] = run[p].doc.step[s] /\ gens'[s] = gens[s]
      BY <2>2 DEF OneMoves, Reaches
    <3>2. Knows(p, s)
      BY <1>2, <2>2, <3>1 DEF Knows, Launched
    <3> QED
      BY <3>1, <3>2 DEF QuietWalk, NetCost
  <2> QED
    BY <2>1, <2>2
<1>3. run'[p].pc \notin LaunchPoints
  BY DEF Affords, WalkPoints, StepPoints, LaunchPoints
<1> QED
  BY <1>1, <1>2, <1>3 DEF QuietLaunch, QuietWalk, Affords

LEMMA MovesKeepQuiet ==
  ASSUME TypeInv, TypeInv', GuardOK, GuardOK', CoverInv, LedgerInv, QuietInv, Quiet,
         NEW p \in Procs, NEW cur \in Steps, cur = run[p].cur, OneMoves(p), Moves(p)
  PROVE  /\ run[p].pc \in WalkPoints
         /\ Reaches(p, cur) /\ Settles(p, cur) /\ Affords(p)
         /\ ~Launched(cur)' => NetCost(cur)' = 0
<1>1. run[p].pc \in WalkPoints
  BY DEF Moves, Passes, Enters, Produces, Resumes, Quits, Sends, Receives, Commits, Recounts,
    WalkPoints, StepPoints
<1>2. QuietWalk(p) /\ StopsAtEnd(p) /\ run[p].cur = cur /\ cur \in Int
  BY PlanType DEF QuietInv, OneMoves, Steps
<1>3. /\ Ahead(p, cur) => ~Launched(cur) /\ ~ledger[cur].gen /\ ~Step(p).gen
      /\ run[p].pc = "sent" => ~Step(p).gen
      /\ Knows(p, cur) => NetCost(cur) <= Step(p).cost
      /\ ~run[p].stopped => Committed(p) <= Spendable
      /\ ~Launched(cur) => NetCost(cur) = 0
  BY <1>1, <1>2 DEF QuietWalk, Untouched, Step, QuietInv
<1>4. \A t \in Steps : t \in Int
  BY PlanType DEF Steps
<1>5. /\ Committed(p) \in Nat
      /\ Step(p).cost \in Nat /\ NetCost(cur) \in Nat /\ NetCost(cur) <= gens[cur].bill
  BY <1>2, MovedWorth, NetCostType DEF GuardOK, Committed
<1> USE DEF WalkPoints, StepPoints
<1>6. ASSUME gens' = gens
      PROVE  /\ Launched(cur)' <=> Launched(cur)
             /\ NetCost(cur)' = NetCost(cur)
             /\ ~Launched(cur)' => NetCost(cur)' = 0
  BY <1>3, <1>6 DEF Launched, NetCost
<1>7. CASE Passes(p)
  <2>1. \A t \in Steps : Ahead(p, t)' => t # cur /\ Ahead(p, t)
    <3>1. run'[p].cur = cur + 1
      BY <1>2, <1>7 DEF Passes
    <3> SUFFICES ASSUME NEW t \in Steps, Ahead(p, t)' PROVE t > cur
      BY <1>2, <1>4 DEF Ahead
    <3>2. t > cur + 1 \/ t = cur + 1
      BY <3>1 DEF Ahead
    <3>3. t \in Int /\ cur \in Int
      BY <1>2, PlanType DEF Steps
    <3> QED
      BY <3>2, <3>3
  <2>2. Reaches(p, cur)
    BY <1>2, <1>7, <2>1 DEF Passes, Reaches
  <2>3. Settles(p, cur)
    BY <1>3, <1>6, <1>7 DEF Passes, SameMoney, Settles, Knows, After, Step
  <2>4. Affords(p)
    BY <1>2, <1>3, <1>7 DEF Passes, SameMoney, Steadies, Affords, StopsAtEnd, Committed
  <2> QED
    BY <1>1, <1>6, <1>7, <2>2, <2>3, <2>4 DEF Passes
<1>8. CASE Enters(p)
  <2>1. Ahead(p, cur) /\ \A t \in Steps : Ahead(p, t)' => Ahead(p, t)
    BY <1>8 DEF Enters, Stays, Ahead
  <2>2. Reaches(p, cur)
    BY <1>3, <1>8, <2>1 DEF Enters, SameMoney, Reaches
  <2>3. Settles(p, cur)
    BY <1>3, <1>6, <1>8, <2>1 DEF Enters, SameMoney, Settles, Knows, After
  <2>4. Affords(p)
    BY <1>2, <1>3, <1>8 DEF Enters, SameMoney, Steadies, Affords, StopsAtEnd, Committed
  <2> QED
    BY <1>1, <1>6, <1>8, <2>2, <2>3, <2>4 DEF Enters
<1>9. CASE Produces(p)
  <2>1. Ahead(p, cur) /\ \A t \in Steps : Ahead(p, t)' => Ahead(p, t) /\ t # cur
    BY <1>2, <1>4, <1>9 DEF Produces, Stays, Ahead
  <2>2. Reaches(p, cur)
    BY <1>2, <1>9, <2>1 DEF Produces, Reaches
  <2>3. Settles(p, cur)
    BY <1>3, <1>6, <1>9, <2>1 DEF Produces, Settles, Knows, After
  <2>4. Affords(p)
    BY <1>2, <1>3, <1>9 DEF Produces, Steadies, Affords, StopsAtEnd, Committed
  <2> QED
    BY <1>1, <1>6, <1>9, <2>2, <2>3, <2>4 DEF Produces
<1>10. CASE Resumes(p)
  <2>1. Ahead(p, cur) /\ ledger[cur].gen
    BY <1>10 DEF Resumes, Ahead
  <2> QED
    BY <1>3, <2>1
<1>11. CASE Quits(p)
  <2>1. \A t \in Steps : Ahead(p, t)' => Ahead(p, t) /\ t # cur
    BY <1>2, <1>4, <1>11 DEF Quits, Stays, Ahead
  <2>2. Reaches(p, cur)
    BY <1>2, <1>11, <2>1 DEF Quits, Reaches
  <2>3. Settles(p, cur)
    BY <1>3, <1>6, <1>11 DEF Quits, SameMoney, Settles, Knows, Ahead, After, Step
  <2>4. Affords(p)
    BY <1>2, <1>3, <1>11 DEF Quits, SameMoney, Steadies, Affords, StopsAtEnd, Committed
  <2> QED
    BY <1>1, <1>6, <1>11, <2>2, <2>3, <2>4 DEF Quits
<1>12. CASE Sends(p)
  <2>1. Ahead(p, cur) /\ \A t \in Steps : Ahead(p, t)' => Ahead(p, t) /\ t # cur
    BY <1>2, <1>4, <1>12 DEF Sends, Stays, Ahead
  <2>2. /\ gens'[cur].state # "none"
        /\ \A t \in Steps \ {cur} : gens'[t] = gens[t]
    BY <1>2, <1>12, GenerateGrows DEF Sends, TypeInv, TypeOK
  <2>3. Reaches(p, cur)
    BY <1>2, <2>1, <2>2 DEF Reaches
  <2>4. Settles(p, cur)
    BY <1>12 DEF Sends, Settles, Knows, Stays
  <2>5. Affords(p)
    BY <1>2, <1>3, <1>12, <2>1 DEF Sends, SameMoney, Steadies, Affords, StopsAtEnd, Committed,
      After, Step, Stays
  <2> QED
    BY <1>1, <2>2, <2>3, <2>4, <2>5 DEF Launched
<1>13. CASE Receives(p)
  <2>1. \A t \in Steps : Ahead(p, t)' => Ahead(p, t) /\ t # cur
    BY <1>2, <1>4, <1>13 DEF Receives, Stays, Ahead
  <2>2. Reaches(p, cur)
    BY <1>2, <1>13, <2>1 DEF Receives, Reaches
  <2>3. Settles(p, cur)
    BY <1>5, <1>6, <1>13 DEF Receives, Settles
  <2>4. Affords(p)
    BY <1>2, <1>3, <1>13 DEF Receives, Steadies, Affords, StopsAtEnd, Committed
  <2> QED
    BY <1>1, <1>6, <1>13, <2>2, <2>3, <2>4 DEF Receives
<1>14. CASE Commits(p)
  <2>1. \A t \in Steps : Ahead(p, t)' => Ahead(p, t) /\ t # cur
    BY <1>2, <1>4, <1>14 DEF Commits, Stays, Ahead
  <2>2. Reaches(p, cur)
    BY <1>2, <1>14, <2>1 DEF Commits, Reaches
  <2>3. Settles(p, cur)
    <3>1. NetCost(cur) <= After(p).cost
      <4>1. Step(p).cost = gens[cur].bill
        BY <1>14 DEF Commits, LedgerInv, TrueRun, Step
      <4> QED
        BY <1>5, <1>14, <4>1 DEF Commits
    <3> QED
      BY <1>6, <1>14, <3>1 DEF Commits, Settles
  <2>4. Affords(p)
    <3>1. Committed(p)' = Committed(p) + Step(p).cost
      BY <1>14 DEF Commits, Committed, GuardOK
    <3> QED
      BY <1>2, <1>14, <3>1 DEF Commits, Affords, StopsAtEnd
  <2> QED
    BY <1>1, <1>6, <1>14, <2>2, <2>3, <2>4 DEF Commits
<1>15. CASE Recounts(p)
  <2>1. \A t \in Steps : Ahead(p, t)' => Ahead(p, t) /\ t # cur
    BY <1>2, <1>4, <1>15 DEF Recounts, Stays, Ahead
  <2>2. Reaches(p, cur)
    BY <1>2, <1>15, <2>1 DEF Recounts, Reaches
  <2>3. Settles(p, cur)
    BY <1>5, <1>6, <1>15 DEF Recounts, Settles
  <2>4. Committed(p)' <= Committed(p)
    <3>1. Committed(p)' = Recount(Committed(p), Step(p).cost, NetCost(cur))
      BY <1>15 DEF Recounts, Committed, GuardOK
    <3>2. Step(p).gen
      BY <1>15 DEF Recounts, CoverInv, CoveredRun, Step
    <3>3. NetCost(cur) <= Step(p).cost
      BY <1>3, <1>15, <3>2 DEF Recounts, Knows, Step
    <3>4. Counted = Steps
      BY DEF Quiet, Counted
    <3>5. Step(p).cost <= Worth(run[p].doc, Counted) /\ Worth(run[p].doc, Counted) \in Nat
      BY <1>2, <3>4, MovedWorth
    <3>6. Worth(run[p].doc, Counted) <= Committed(p) + 0
      BY <1>15 DEF Recounts, CoverInv, CoveredRun, Due, Committed, BookedPoints, OwningPoints
    <3> QED
      BY <1>5, <3>1, <3>3, <3>5, <3>6 DEF Recount, Release
  <2>5. Spendable \in Int /\ Committed(p) \in Nat /\ Committed(p)' \in Int
    BY BudgetAssumption DEF Spendable, GuardOK, Committed
  <2>6. Affords(p)
    BY <1>2, <1>3, <1>15, <2>4, <2>5 DEF Recounts, Steadies, Affords, StopsAtEnd
  <2> QED
    BY <1>1, <1>6, <1>15, <2>2, <2>3, <2>6 DEF Recounts
<1> QED
  BY <1>7, <1>8, <1>9, <1>10, <1>11, <1>12, <1>13, <1>14, <1>15 DEF Moves

LEMMA QuietNext ==
  /\ TypeInv /\ LeaseInv /\ LedgerInv /\ BudgetInv /\ QuietInv /\ Quiet /\ [Next]_vars /\ Quiet'
  => QuietInv'
<1> SUFFICES ASSUME TypeInv, LeaseInv, LedgerInv, BudgetInv, QuietInv, Quiet, [Next]_vars, Quiet'
             PROVE  QuietInv'
  OBVIOUS
<1> USE DEF BudgetInv
<1>1. CASE CalmStep
  BY <1>1, CalmKeepsQuiet
<1>2. CASE \E p \in Procs : Load(p)
  BY <1>2, LoadKeepsQuiet
<1>3. ASSUME NEW p \in Procs, Walk(p), OneMoves(p), Moves(p) PROVE QuietInv'
  <2>1. TypeInv' /\ GuardOK'
    BY NextType, GuardNext
  <2>2. PICK cur \in Steps : cur = run[p].cur
    BY <1>3 DEF OneMoves
  <2>3. /\ run[p].pc \in WalkPoints
        /\ Reaches(p, cur) /\ Settles(p, cur) /\ Affords(p)
        /\ ~Launched(cur)' => NetCost(cur)' = 0
    BY <1>3, <2>1, <2>2, MovesKeepQuiet
  <2>4. QuietLaunch(p)' /\ QuietWalk(p)' /\ StopsAtEnd(p)'
    BY <1>3, <2>2, <2>3, MoveIsQuiet DEF QuietInv
  <2>5. Owns(p) /\ \A q \in Procs \ {p} : run'[q] = run[q]
    BY <1>3, <2>3 DEF Owns, OwningPoints, WalkPoints, OneMoves
  <2>6. \A q \in Procs : QuietLaunch(q)' /\ QuietWalk(q)' /\ StopsAtEnd(q)'
    BY <2>4, <2>5, OthersAreQuiet DEF Quiet
  <2>7. \A s \in Steps : ~Launched(s)' => NetCost(s)' = 0
    <3> SUFFICES ASSUME NEW s \in Steps, s # cur, ~Launched(s)' PROVE NetCost(s)' = 0
      BY <2>3
    <3>1. gens'[s] = gens[s]
      BY <2>3 DEF Reaches
    <3> QED
      BY <3>1 DEF QuietInv, Launched, NetCost
  <2>8. \E j \in Saved' : Status(j)' # "queued"
    <3>1. run[p].job \in Jobs
      BY <2>5, OwnerIsBusy DEF TypeInv, Positioned
    <3>2. jobs'[run[p].job].status \in TerminalJob \cup {"running"}
      BY <1>3, <2>5, WalkKinds DEF Holding, Quitting, LeaseInv, HeldIsRunning
    <3> QED
      BY <3>1, <3>2 DEF Saved, Status, TerminalJob
  <2> QED
    BY <2>6, <2>7, <2>8 DEF QuietInv
<1> QED
  BY <1>1, <1>2, <1>3, CalmOrMoney

LEMMA QuietInvariance ==
  Spec /\ []Quiet => [](TypeInv /\ LeaseInv /\ LedgerInv /\ BudgetInv /\ QuietInv)
<1>1. Init => QuietInv
  BY QuietInit
<1> QED
  BY <1>1, QuietNext, BudgetInvariance, PTL DEF Spec

\* The money the platform has of a set of steps is at most what the document says.
LEMMA SpentIsKnown ==
  ASSUME TypeInv, NEW doc \in JobDoc, NEW S \in SUBSET Steps,
         \A s \in S : NetCost(s) <= doc.step[s].cost
  PROVE  NetSpent(S) <= Worth(doc, Steps)
<1> DEFINE f == [s \in S |-> NetCost(s)]
           g == [s \in S |-> doc.step[s].cost]
           h == [s \in Steps |-> doc.step[s].cost]
<1>1. f \in [S -> Int] /\ g \in [S -> Int] /\ (\A s \in S : f[s] <= g[s])
  BY NetCostType DEF JobDoc, StepDoc
<1>2. h \in [Steps -> Nat] /\ IsFiniteSet(S) /\ IsFiniteSet(Steps)
  BY StepsFinite DEF JobDoc, StepDoc
<1>3. g = [s \in S |-> h[s]]
  OBVIOUS
<1>4. NetSpent(S) = SumOver(f) /\ Worth(doc, Steps) = SumOver(h)
  BY DEF NetSpent, Worth
<1> HIDE DEF f, g, h
<1>5. SumOver(f) \in Int /\ SumOver(g) \in Int /\ SumOver(f) <= SumOver(g)
  BY <1>1, <1>2, SumIsMonotone
<1>6. SumOver([s \in S |-> h[s]]) <= SumOver(h)
  BY <1>2, SumOfPart
<1>7. SumOver(h) \in Nat
  BY <1>2, SumOfNaturals
<1> QED
  BY <1>3, <1>4, <1>5, <1>6, <1>7

LEMMA KnownIsCovered ==
  ASSUME TypeInv, BudgetInv, Quiet, NEW p \in Procs, run[p].pc \in {"next", "send"},
         NEW S \in SUBSET Steps, \A s \in S : NetCost(s) <= run[p].doc.step[s].cost
  PROVE  NetSpent(S) <= Committed(p)
<1>1. run[p].doc \in JobDoc /\ Committed(p) \in Nat
  BY DEF TypeInv, TypeOK, ProcessOK, Run, BudgetInv, GuardOK, Committed
<1>2. Counted = Steps
  BY DEF Quiet, Counted
<1>3. Worth(run[p].doc, Steps) <= Committed(p) + 0
  BY <1>2 DEF BudgetInv, CoverInv, CoveredRun, Due, Committed, BookedPoints, OwningPoints, StepPoints
<1>4. NetSpent(S) <= Worth(run[p].doc, Steps)
  BY <1>1, SpentIsKnown
<1>5. Worth(run[p].doc, Steps) \in Nat /\ NetSpent(S) \in Int
  <2> DEFINE f == [s \in S |-> NetCost(s)]
  <2>1. f \in [S -> Nat] /\ IsFiniteSet(S)
    BY NetCostType, StepsFinite
  <2> HIDE DEF f
  <2>2. SumOver(f) \in Nat
    BY <2>1, SumOfNaturals
  <2> QED
    BY <1>1, <2>2, WorthIsNatural DEF NetSpent, f
<1> QED
  BY <1>1, <1>3, <1>4, <1>5

\* As long as there is one job that is neither stopped nor killed, the guard has
\* committed what the platform charges for the generations the document knows of:
\* prices rise between the quote and the charge, but not after it (executor.py).
THEOREM GuardCoversGenerations == Spec /\ []Quiet => []GuardCoversKnown
<1>1. TypeInv /\ BudgetInv /\ QuietInv /\ Quiet => GuardCoversKnown
  <2> SUFFICES ASSUME TypeInv, BudgetInv, QuietInv, Quiet, NEW p \in Procs, run[p].pc = "next"
               PROVE  NetSpent({s \in Steps : run[p].doc.step[s].gen}) <= guard[p].committed
    BY DEF GuardCoversKnown
  <2> DEFINE S == {s \in Steps : run[p].doc.step[s].gen}
  <2>1. QuietWalk(p) /\ run[p].pc \in WalkPoints
    BY DEF QuietInv, WalkPoints
  <2>2. \A s \in S : NetCost(s) <= run[p].doc.step[s].cost
    BY <2>1 DEF QuietWalk, Knows
  <2>3. S \in SUBSET Steps
    OBVIOUS
  <2> HIDE DEF S
  <2>4. NetSpent(S) <= Committed(p)
    BY <2>2, <2>3, KnownIsCovered
  <2> QED
    BY <2>4 DEF S, Committed
<1> QED
  BY <1>1, QuietInvariance, PTL

\* The platform makes no set of steps dearer.
LEMMA SpentShrinks ==
  ASSUME TypeInv, TypeInv', NEW S \in SUBSET Steps, \A s \in S : NetCost(s)' <= NetCost(s)
  PROVE  NetSpent(S)' <= NetSpent(S) /\ NetSpent(S)' \in Int /\ NetSpent(S) \in Int
<1> DEFINE f == [s \in S |-> NetCost(s)]
           g == [s \in S |-> NetCost(s)']
<1>1. \A s \in S : NetCost(s)' \in Int
  BY DEF TypeInv, TypeOK, PlatformTypeOK, Generation, NetCost
<1>2. f \in [S -> Int] /\ g \in [S -> Int] /\ (\A s \in S : g[s] <= f[s]) /\ IsFiniteSet(S)
  BY <1>1, NetCostType, StepsFinite
<1>3. NetSpent(S) = SumOver(f) /\ NetSpent(S)' = SumOver(g)
  BY DEF NetSpent
<1> HIDE DEF f, g
<1> QED
  BY <1>2, <1>3, SumIsMonotone

LEMMA OverspendNext ==
  ASSUME "reply" \notin Faults, TypeInv, LeaseInv, LedgerInv, BudgetInv, QuietInv, Quiet,
         OverspendIsOneStep, [Next]_vars
  PROVE  OverspendIsOneStep'
<1>0. TypeInv' /\ Spendable \in Int
  BY NextType, BudgetAssumption DEF Spendable
<1>1. ASSUME \A s \in Steps : NetCost(s)' <= NetCost(s) PROVE OverspendIsOneStep'
  <2>1. PICK s \in Steps : NetSpent(Steps \ {s}) <= Spendable
    BY DEF OverspendIsOneStep
  <2>2. /\ NetSpent(Steps \ {s})' <= NetSpent(Steps \ {s})
        /\ NetSpent(Steps \ {s})' \in Int /\ NetSpent(Steps \ {s}) \in Int
    BY <1>0, <1>1, SpentShrinks
  <2>3. NetSpent(Steps \ {s})' <= Spendable
    BY <1>0, <2>1, <2>2
  <2> QED
    BY <2>3 DEF OverspendIsOneStep
<1>2. ASSUME gens' = gens \/ PlatformStep PROVE OverspendIsOneStep'
  BY <1>1, <1>2, PlatformIsCheap
<1>3. ASSUME NEW p \in Procs, Sends(p) PROVE OverspendIsOneStep'
  <2>1. PICK cur \in Steps : cur = run[p].cur
    BY <1>3, StepPoint DEF Sends, StepPoints
  <2>2. \A t \in Steps \ {cur} : gens'[t] = gens[t]
    BY <1>3, <2>1, GenerateGrows DEF Sends, TypeInv, TypeOK
  <2> DEFINE S == Steps \ {cur}
  <2>3. QuietWalk(p) /\ run[p].pc = "send" /\ run[p].pc \in WalkPoints /\ ~run[p].stopped
    BY <1>3 DEF QuietInv, Sends, StopsAtEnd, WalkPoints, StepPoints
  <2>4. run[p].doc \in JobDoc
    BY DEF TypeInv, TypeOK, ProcessOK, Run
  <2>5. ASSUME NEW s \in S PROVE NetCost(s) <= run[p].doc.step[s].cost
    <3>1. CASE Launched(s)
      BY <2>3, <3>1 DEF QuietWalk, Knows
    <3>2. CASE ~Launched(s)
      BY <2>4, <3>2 DEF QuietInv, JobDoc, StepDoc
    <3> QED
      BY <3>1, <3>2
  <2>6. \A s \in S : NetCost(s)' <= NetCost(s)
    BY <2>2, NetCostType DEF NetCost
  <2>7. S \in SUBSET Steps
    OBVIOUS
  <2> HIDE DEF S
  <2>8. NetSpent(S) <= Committed(p)
    BY <2>3, <2>5, <2>7, KnownIsCovered
  <2>9. Committed(p) <= Spendable /\ Committed(p) \in Int
    BY <2>3 DEF QuietWalk, BudgetInv, GuardOK, Committed
  <2>10. NetSpent(S)' <= NetSpent(S) /\ NetSpent(S)' \in Int /\ NetSpent(S) \in Int
    BY <1>0, <2>6, <2>7, SpentShrinks
  <2>11. NetSpent(S)' <= Spendable
    BY <1>0, <2>8, <2>9, <2>10
  <2> QED
    BY <2>11 DEF S, OverspendIsOneStep
<1>4. ASSUME NEW p \in Procs, Moves(p), ~Sends(p) PROVE gens' = gens
  BY <1>4 DEF Moves, Passes, Enters, Produces, Resumes, Quits, Receives, Commits, Recounts
<1>5. ASSUME NEW p \in Procs, Load(p) PROVE gens' = gens
  BY <1>5 DEF Load, platformVars
<1>6. GuardOK
  BY DEF BudgetInv
<1> QED
  BY <1>2, <1>3, <1>4, <1>5, <1>6, CalmOrMoney DEF CalmStep

\* If moreover no reply to a launch is lost, what the platform charges leaves the
\* envelope by one step at most: the charge that leaves it stops the plan
\* (budget.py, executor.py).
THEOREM OverspendBounded ==
  ASSUME "reply" \notin Faults
  PROVE  Spec /\ []Quiet => []OverspendIsOneStep
<1>1. Init => OverspendIsOneStep
  <2> SUFFICES ASSUME Init PROVE OverspendIsOneStep
    OBVIOUS
  <2>1. 1 \in Steps /\ 0 <= Spendable
    BY StepsAssumption, BudgetAssumption DEF Steps, Spendable
  <2> DEFINE S == Steps \ {1}
             f == [s \in S |-> NetCost(s)]
  <2>2. \A s \in Steps : NetCost(s) = 0
    BY DEF Init, PlatformInit, NoGeneration, NetCost
  <2>3. f \in [S -> Int] /\ (\A s \in S : f[s] = 0) /\ IsFiniteSet(S)
    BY <2>2, StepsFinite
  <2> HIDE DEF f
  <2>4. SumOver(f) = 0
    BY <2>3, SumOfZeros
  <2> QED
    BY <2>1, <2>4 DEF OverspendIsOneStep, NetSpent, f
<1>2. TypeInv /\ LeaseInv /\ LedgerInv /\ BudgetInv /\ QuietInv /\ Quiet /\ OverspendIsOneStep
      /\ [Next]_vars => OverspendIsOneStep'
  BY OverspendNext
<1> QED
  BY <1>1, <1>2, QuietInvariance, PTL DEF Spec

=============================================================================
