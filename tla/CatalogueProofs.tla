-------------------------- MODULE CatalogueProofs --------------------------
(***************************************************************************)
(* Facts about what the planner computes from the catalogue: its prices    *)
(* are amounts, and its upper bounds are not below what the platform asks. *)
(***************************************************************************)
EXTENDS Catalogue, WellFoundedInduction, TLAPS

-----------------------------------------------------------------------------
(* Smallest and largest elements.                                          *)

\* The order of the natural numbers, as a relation.
Less == {p \in Nat \X Nat : p[1] < p[2]}

LEMMA LessIsWellFounded == IsWellFoundedOn(Less, Nat)
<1>1. OpToRel(<, Nat) = Less
  BY Zenon DEF OpToRel, Less
<1> QED
  BY <1>1, NatLessThanWellFounded, Zenon

\* A set of natural numbers has a smallest element.
LEMMA LeastOf ==
  ASSUME NEW S \in SUBSET Nat, S # {}
  PROVE  Least(S) \in S /\ \A m \in S : Least(S) <= m
<1>1. PICK x \in S : \A y \in S : ~(<<y, x>> \in Less)
  BY LessIsWellFounded, WFMin
<1>2. ASSUME NEW y \in S PROVE x <= y
  <2>1. x \in Nat /\ y \in Nat
    OBVIOUS
  <2>2. <<y, x>> \in Less <=> y < x
    BY <2>1, Zenon DEF Less
  <2> QED
    BY <1>1, <2>1, <2>2
<1> QED
  BY <1>2 DEF Least

\* A bounded one has a largest.
LEMMA GreatestOf ==
  ASSUME NEW n \in Nat, NEW S \in SUBSET (0..n), S # {}
  PROVE  Greatest(S) \in S /\ \A m \in S : Greatest(S) >= m
<1> DEFINE T == {n - m : m \in S}
<1>1. T \in SUBSET Nat
  OBVIOUS
<1>2. T # {}
  OBVIOUS
<1>3. PICK m \in S : Least(T) = n - m
  BY <1>1, <1>2, LeastOf
<1>4. ASSUME NEW k \in S PROVE m >= k
  <2>1. n - k \in T
    OBVIOUS
  <2>2. Least(T) <= n - k
    BY <1>1, <1>2, <2>1, LeastOf
  <2> QED
    BY <1>3, <2>2
<1> QED
  BY <1>4 DEF Greatest
-----------------------------------------------------------------------------
(* Prices.                                                                 *)

LEMMA Product == \A m, n \in Nat : m * n \in Nat
OBVIOUS

LEMMA LargerProduct == \A l, m, n \in Nat : l <= m => l * n <= m * n
OBVIOUS

\* What is sent is not more seconds than the bounds of the model allow to bill.
LEMMA SentIsBounded ==
  ASSUME NEW spec \in ModelSpec, NEW f \in Formats, NEW urls, NEW brief \in BriefOf(urls)
  PROVE  /\ SentSeconds(spec, f, brief) \in Nat
         /\ DurationBounds(spec).lo \in Nat /\ DurationBounds(spec).hi \in Nat
         /\ IF DurationBounds(spec).hi # 0
            THEN (spec.hi # 0 => spec.lo <= spec.hi)
                   => /\ DurationBounds(spec).lo <= DurationBounds(spec).hi
                      /\ SentSeconds(spec, f, brief) <= DurationBounds(spec).hi
            ELSE SentSeconds(spec, f, brief) <= 30
<1>1. /\ spec.durations \in SUBSET (0..MaxSeconds) /\ spec.durations \in SUBSET Nat
      /\ spec.lo \in 0..MaxSeconds /\ spec.hi \in 0..MaxSeconds /\ MaxSeconds \in Nat
      /\ brief.seconds \in 1..30 /\ 0 \notin spec.durations
  BY CatalogueAssumption DEF ModelSpec, BriefOf
<1> DEFINE fitting == {d \in spec.durations : d <= brief.seconds}
<1>2. CASE spec.durations # {}
  <2>1. /\ Least(spec.durations) \in spec.durations
        /\ \A d \in spec.durations : Least(spec.durations) <= d
    BY <1>1, <1>2, LeastOf
  <2>2. /\ Greatest(spec.durations) \in spec.durations
        /\ \A d \in spec.durations : Greatest(spec.durations) >= d
    BY <1>1, <1>2, GreatestOf
  <2>3. fitting # {} => Greatest(fitting) \in spec.durations
    BY <1>1, GreatestOf
  <2>4. SentSeconds(spec, f, brief) \in spec.durations \cup {0}
    BY <1>2, <2>1, <2>3 DEF SentSeconds, Nearest
  <2>5. /\ DurationBounds(spec).lo = Least(spec.durations)
        /\ DurationBounds(spec).hi = Greatest(spec.durations)
    BY <1>2 DEF DurationBounds
  <2> QED
    BY <1>1, <2>1, <2>2, <2>4, <2>5
<1>3. CASE spec.durations = {}
  <2>1. DurationBounds(spec).lo = spec.lo /\ DurationBounds(spec).hi = spec.hi
    BY <1>3 DEF DurationBounds
  <2>2. \/ SentSeconds(spec, f, brief) = 0
        \/ spec.hi # 0 /\ SentSeconds(spec, f, brief) = Clamp(brief.seconds, spec.lo, spec.hi)
        \/ spec.hi = 0 /\ SentSeconds(spec, f, brief) = brief.seconds
    BY <1>3 DEF SentSeconds
  <2> QED
    BY <1>1, <2>1, <2>2 DEF Clamp, Larger
<1> QED
  BY <1>2, <1>3

\* What a request is billed for: seconds or chunks.
Bounds(spec) ==
  IF DurationBounds(spec).hi # 0 THEN DurationBounds(spec) ELSE [lo |-> 3, hi |-> 30]

Billed(spec, f, brief) ==
  IF SentSeconds(spec, f, brief) = 0 THEN Bounds(spec).hi
  ELSE Clamp(SentSeconds(spec, f, brief), Bounds(spec).lo, Bounds(spec).hi)

LEMMA UpperInBounds ==
  ASSUME NEW spec, NEW f, NEW brief
  PROVE  Upper(spec, f, brief) =
           IF spec.perSecond # 0 THEN Billed(spec, f, brief) * spec.perSecond
           ELSE IF spec.worst # 0 THEN Larger(spec.price, spec.worst)
           ELSE IF spec.price = NoPrice THEN NoPrice
           ELSE IF f = Voice THEN spec.price * Chunks(SentPrompt(spec, f, brief))
           ELSE spec.price
BY DEF Upper, Billed, Bounds

LEMMA ChunksType ==
  ASSUME NEW spec \in ModelSpec, NEW f \in Formats, NEW urls, NEW brief \in BriefOf(urls)
  PROVE  Chunks(SentPrompt(spec, f, brief)) \in Nat
<1>1. brief.prompt[f] \in Nat /\ spec.promptMax \in Nat /\ spec.longMax \in Nat
  BY DEF BriefOf, ModelSpec
<1>2. SentPrompt(spec, f, brief) \in Nat
  BY <1>1 DEF SentPrompt, EffectivePromptMax, Larger
<1> HIDE DEF SentPrompt
<1> QED
  BY <1>2, CatalogueAssumption DEF Chunks, Larger

LEMMA BilledType ==
  ASSUME NEW spec \in ModelSpec, NEW f \in Formats, NEW urls, NEW brief \in BriefOf(urls)
  PROVE  /\ Billed(spec, f, brief) \in Nat
         /\ Bounds(spec).lo \in Nat /\ Bounds(spec).hi \in Nat
BY SentIsBounded DEF Billed, Bounds, Clamp, Larger

\* An upper bound is an amount, or there is none.
LEMMA UpperType ==
  ASSUME NEW spec \in ModelSpec, NEW f \in Formats, NEW urls, NEW brief \in BriefOf(urls)
  PROVE  Upper(spec, f, brief) \in Nat \cup {NoPrice}
<1>1. /\ spec.price \in Nat \cup {NoPrice} /\ spec.perSecond \in Nat /\ spec.worst \in Nat
  BY DEF ModelSpec
<1>2. Billed(spec, f, brief) * spec.perSecond \in Nat
  BY <1>1, BilledType, Product
<1>3. spec.price # NoPrice => spec.price * Chunks(SentPrompt(spec, f, brief)) \in Nat
  BY <1>1, ChunksType, Product
<1> QED
  BY <1>1, <1>2, <1>3, UpperInBounds DEF Larger, NoPrice

\* So is whatever the platform asks.
LEMMA BillsType ==
  ASSUME NEW spec \in ModelSpec, NEW f \in Formats, NEW urls, NEW brief \in BriefOf(urls)
  PROVE  Bills(spec, f, brief) \subseteq Nat
<1>1. /\ spec.price \in Nat \cup {NoPrice} /\ spec.perSecond \in Nat /\ spec.worst \in Nat
      /\ spec.reserves \subseteq Nat
  BY DEF ModelSpec
<1>2. /\ SentSeconds(spec, f, brief) * spec.perSecond \in Nat
      /\ Bounds(spec).lo * spec.perSecond \in Nat /\ Bounds(spec).hi * spec.perSecond \in Nat
  BY <1>1, SentIsBounded, BilledType, Product
<1>3. spec.price # NoPrice => spec.price * Chunks(SentPrompt(spec, f, brief)) \in Nat
  BY <1>1, ChunksType, Product
<1> QED
  BY <1>1, <1>2, <1>3 DEF Bills, Bounds

\* Pre-flight planning can only over-estimate (capabilities.py:199-202): where the
\* catalogue has a price at all, its upper bound is not below what the platform asks for
\* the request as it is sent, with its clamped seconds, its variant or its chunks.
THEOREM UpperIsEnough ==
  ASSUME NEW spec \in ModelSpec, spec.hi # 0 => spec.lo <= spec.hi,
         NEW f \in Formats, NEW urls, NEW brief \in BriefOf(urls),
         Upper(spec, f, brief) # NoPrice, NEW cost \in Bills(spec, f, brief)
  PROVE  cost <= Upper(spec, f, brief)
<1>1. /\ spec.price \in Nat \cup {NoPrice} /\ spec.perSecond \in Nat /\ spec.worst \in Nat
  BY DEF ModelSpec
<1>2. CASE spec.perSecond # 0
  <2>1. /\ Bounds(spec).lo <= Bounds(spec).hi
        /\ SentSeconds(spec, f, brief) <= Bounds(spec).hi
    BY SentIsBounded DEF Bounds
  <2>2. PICK seconds \in Nat :
          /\ cost = seconds * spec.perSecond
          /\ seconds <= Billed(spec, f, brief)
    BY <1>1, <1>2, <2>1, SentIsBounded, BilledType DEF Bills, Bounds, Billed, Clamp, Larger
  <2> QED
    BY <1>1, <1>2, <2>2, BilledType, LargerProduct, UpperInBounds
<1>3. CASE spec.perSecond = 0 /\ spec.worst # 0
  BY <1>1, <1>3 DEF Bills, Upper, Larger, NoPrice
<1>4. CASE spec.perSecond = 0 /\ spec.worst = 0
  <2>1. spec.price # NoPrice
    BY <1>4, UpperInBounds
  <2>2. cost = Upper(spec, f, brief)
    BY <1>4, <2>1, UpperInBounds DEF Bills
  <2> QED
    BY <2>2, UpperType DEF NoPrice
<1> QED
  BY <1>2, <1>3, <1>4
=============================================================================
