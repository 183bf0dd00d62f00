--------------------------- MODULE PlanningProofs ---------------------------
(***************************************************************************)
(* What a saved plan keeps to, proved for every catalogue, brief, budget,  *)
(* number of models, price moves and refusals, and for every life of the   *)
(* links it names.                                                         *)
(***************************************************************************)
EXTENDS Planning, CatalogueProofs, FiniteSetTheorems

USE DEF Formats, Text

-----------------------------------------------------------------------------
(* Candidates.                                                             *)

LEMMA EnvelopeIsAmount == Spendable \in Nat
BY BudgetAssumption DEF Spendable

LEMMA RequestType ==
  ASSUME request \in Requests
  PROVE  /\ request.brief \in BriefOf(Urls)
         /\ request.brief.formats \subseteq Formats
         /\ \A f \in Formats :
              /\ Len(request.catalogue[f]) \in 0..MaxModels
              /\ \A k \in 1..Len(request.catalogue[f]) :
                   /\ k \in 1..MaxModels
                   /\ request.catalogue[f][k] \in ModelSpec
<1>1. request.brief \in BriefOf(Urls)
  BY PlanningAssumption
<1>2. request.brief.formats \subseteq Formats
  BY <1>1 DEF BriefOf
<1>3. ASSUME NEW f \in Formats
      PROVE  /\ Len(request.catalogue[f]) \in 0..MaxModels
             /\ \A k \in 1..Len(request.catalogue[f]) :
                  k \in 1..MaxModels /\ request.catalogue[f][k] \in ModelSpec
  <2>1. request.catalogue[f] \in Seq(ModelSpec) /\ Len(request.catalogue[f]) <= MaxModels
    BY PlannerAssumption
  <2>2. MaxModels \in Nat
    BY PlannerAssumption
  <2> QED
    BY <2>1, <2>2
<1> QED
  BY <1>1, <1>2, <1>3

\* What a build is told of confirmed prices.
ExactPrices == [Formats -> [key: 0..MaxModels, cost: Nat]]

LEMMA CandidatesType ==
  ASSUME request \in Requests, NEW f \in Formats, NEW exact \in ExactPrices
  PROVE  /\ Candidates(f, exact) \subseteq Candidate
         /\ \A c \in Candidates(f, exact) : c.key \in Usable(f)
         /\ Candidates(f, exact) = {} <=> Usable(f) = {}
         /\ \A c, d \in Candidates(f, exact) : c.key = d.key => c = d
<1> DEFINE models == request.catalogue[f]
<1>1. \A k \in Usable(f) : k \in 1..Len(models) /\ k \in 1..MaxModels /\ models[k] \in ModelSpec
  BY RequestType DEF Usable
<1>2. \A k \in Usable(f) : models[k].tier \in Nat
  BY <1>1 DEF ModelSpec
<1>3. \A k \in Usable(f) : PriceOf(f, k, exact) \in Nat \cup {NoPrice}
  <2>1. ASSUME NEW k \in Usable(f)
        PROVE  Upper(models[k], f, request.brief) \in Nat \cup {NoPrice}
    BY <1>1, RequestType, UpperType
  <2> QED
    BY <2>1 DEF PriceOf, ExactPrices
<1> DEFINE priced == {k \in Usable(f) : PriceOf(f, k, exact) # NoPrice}
           Known(k) == [key |-> k, tier |-> models[k].tier, cost |-> PriceOf(f, k, exact),
                          known |-> TRUE]
           Guessed(k) == [key |-> k, tier |-> models[k].tier, cost |-> 0, known |-> FALSE]
<1>4. CASE priced # {}
  <2>1. Candidates(f, exact) = {Known(k) : k \in priced}
    BY <1>4 DEF Candidates
  <2>2. \A k \in priced : Known(k) \in Candidate /\ Known(k).key = k
    BY <1>1, <1>2, <1>3 DEF Candidate
  <2> HIDE DEF Known, priced
  <2>3. \A c \in Candidates(f, exact) : \E k \in priced : c = Known(k)
    BY <2>1
  <2>4. priced \subseteq Usable(f)
    BY DEF priced
  <2>5. Candidates(f, exact) # {}
    BY <1>4, <2>1
  <2> QED
    BY <1>4, <2>2, <2>3, <2>4, <2>5
<1>5. CASE priced = {}
  <2>1. Candidates(f, exact) = {Guessed(k) : k \in Usable(f)}
    BY <1>5 DEF Candidates
  <2>2. \A k \in Usable(f) : Guessed(k) \in Candidate /\ Guessed(k).key = k
    BY <1>1, <1>2 DEF Candidate
  <2> HIDE DEF Guessed
  <2> QED
    BY <2>1, <2>2
<1> QED
  BY <1>4, <1>5

\* A set of candidates has a cheapest one.
LEMMA CheapestType ==
  ASSUME NEW S \in SUBSET Candidate, S # {}, \A c, d \in S : c.key = d.key => c = d
  PROVE  Cheapest(S) \in S /\ \A d \in S \ {Cheapest(S)} : Cheaper(Cheapest(S), d)
<1> DEFINE costs == {c.cost : c \in S}
           cheap == {c \in S : c.cost = Least(costs)}
           tiers == {c.tier : c \in cheap}
           best == {c \in cheap : c.tier = Least(tiers)}
           keys == {c.key : c \in best}
<1>1. \A c \in S : c.cost \in Nat /\ c.tier \in Nat /\ c.key \in Nat
  BY DEF Candidate
<1>2. costs \subseteq Nat /\ costs # {}
  BY <1>1
<1>3. Least(costs) \in costs /\ \A n \in costs : Least(costs) <= n
  BY <1>2, LeastOf
<1>4. cheap # {} /\ \A c \in S : Least(costs) <= c.cost
  BY <1>3
<1>5. tiers \subseteq Nat /\ tiers # {}
  BY <1>1, <1>4
<1>6. Least(tiers) \in tiers /\ \A n \in tiers : Least(tiers) <= n
  BY <1>5, LeastOf
<1>7. best # {} /\ \A c \in cheap : Least(tiers) <= c.tier
  BY <1>6
<1>8. best \subseteq S /\ cheap \subseteq S
  OBVIOUS
<1> HIDE DEF costs, cheap, tiers, best
<1>9. keys \subseteq Nat /\ keys # {}
  BY <1>1, <1>7, <1>8
<1>10. Least(keys) \in keys /\ \A n \in keys : Least(keys) <= n
  BY <1>9, LeastOf
<1>11. PICK c \in best : c.key = Least(keys)
  BY <1>10, Zenon
<1>12. \A d \in best : c.key <= d.key
  BY <1>10, <1>11, ZenonT(30)
<1> HIDE DEF keys
<1>13. c \in S /\ c.cost = Least(costs) /\ c.tier = Least(tiers)
  BY <1>11, Zenon DEF best, cheap
<1>14. ASSUME NEW d \in S \ {c} PROVE Cheaper(c, d)
  <2>1. c.cost <= d.cost
    BY <1>4, <1>13
  <2>2. d.cost = c.cost => d \in cheap
    BY <1>13 DEF cheap
  <2>3. d.cost = c.cost => c.tier <= d.tier
    BY <1>7, <1>13, <2>2, Zenon
  <2>4. d.cost = c.cost /\ d.tier = c.tier => d \in best
    BY <1>13, <2>2, Zenon DEF best
  <2>5. c.key # d.key
    BY <1>13
  <2> QED
    BY <1>1, <1>12, <1>13, <2>1, <2>3, <2>4, <2>5 DEF Cheaper
<1> QED
  BY <1>13, <1>14 DEF Cheapest

LEMMA BuildFacts ==
  ASSUME request \in Requests, NEW exact \in ExactPrices, StartBuild(exact)
  PROVE  /\ request' = request
         /\ offer' \in [Formats -> SUBSET Candidate]
         /\ choice' \in [Formats -> Candidate \cup {NoChoice}]
         /\ fit' = [stage |-> "drop", at |-> 1, changed |-> FALSE, round |-> 1]
         /\ \A f \in Formats :
              /\ offer'[f] = IF f \in request.brief.formats THEN Candidates(f, exact) ELSE {}
              /\ IF offer'[f] = {} THEN choice'[f] = NoChoice ELSE choice'[f] \in offer'[f]
<1>1. \A f \in Formats :
        /\ offer'[f] = IF f \in request.brief.formats THEN Candidates(f, exact) ELSE {}
        /\ choice'[f] = IF offer'[f] = {} THEN NoChoice ELSE Cheapest(offer'[f])
  BY DEF StartBuild
<1>2. ASSUME NEW f \in Formats
      PROVE  /\ offer'[f] \subseteq Candidate
             /\ IF offer'[f] = {} THEN choice'[f] = NoChoice ELSE choice'[f] \in offer'[f]
  <2>1. /\ offer'[f] \subseteq Candidate
        /\ \A c, d \in offer'[f] : c.key = d.key => c = d
    BY <1>1, CandidatesType
  <2>2. offer'[f] # {} => Cheapest(offer'[f]) \in offer'[f]
    BY <2>1, CheapestType
  <2> QED
    BY <1>1, <2>1, <2>2
<1>3. offer' \in [Formats -> SUBSET Candidate]
  BY <1>2 DEF StartBuild
<1>4. \A f \in Formats : choice'[f] \in Candidate \cup {NoChoice}
  BY <1>2
<1>5. choice' \in [Formats -> Candidate \cup {NoChoice}]
  BY <1>4 DEF StartBuild
<1> QED
  BY <1>1, <1>2, <1>3, <1>5 DEF StartBuild

-----------------------------------------------------------------------------
(* Types, and what the steps of a draft stand for.                         *)

OfferOK ==
  \A f \in Formats : \A c \in offer[f] :
    f \in request.brief.formats /\ c.key \in 1..Len(request.catalogue[f])

ChoiceOK == \A f \in Formats : choice[f] # NoChoice => choice[f] \in offer[f]

\* Steps are of formats of the brief and of models of the catalogue; only they cost.
StepsOK(x) ==
  \A f \in Formats :
    /\ x[f].kind = "generation" =>
         f \in request.brief.formats /\ x[f].key \in 1..Len(request.catalogue[f])
    /\ x[f].kind = "local" => f = Text /\ f \in request.brief.formats
    /\ x[f].kind # "generation" => x[f].cost = 0

\* Steps wait for a quote only while they are priced.
TodoOK == todo \subseteq Billable(steps) /\ (pc \notin {"links", "price"} => todo = {})

TypeInv ==
  /\ PlanningTypeOK
  /\ OfferOK /\ ChoiceOK
  /\ StepsOK(steps) /\ StepsOK(kept)
  /\ TodoOK

LEMMA NoCandidate == NoChoice \notin Candidate
BY DEF NoChoice, Candidate

LEMMA LeastFormat ==
  ASSUME NEW S \in SUBSET Formats, S # {}
  PROVE  Least(S) \in S
BY LeastOf

LEMMA GreatestFormat ==
  ASSUME NEW S \in SUBSET Formats, S # {}
  PROVE  Greatest(S) \in S /\ \A f \in S : Greatest(S) >= f
<1>1. S \in SUBSET (0..5) /\ 5 \in Nat
  OBVIOUS
<1> QED
  BY <1>1, GreatestOf

LEMMA TypeInit == PlanningInit => TypeInv
<1> SUFFICES ASSUME PlanningInit PROVE TypeInv
  OBVIOUS
<1>1. PlannerTypeOK
  BY PlannerAssumption DEF PlanningInit, PlannerInit, PlannerTypeOK, FitStages
<1>2. MediaTypeOK
  BY MediaAssumption DEF PlanningInit, MediaInit, MediaTypeOK, UploadPoints
<1>3. NoStep \in PlanStep
  BY PlannerAssumption DEF NoStep, PlanStep
<1>4. price \in [Formats -> [1..MaxModels -> Nat \cup {NoPrice}]]
  BY DEF PlanningInit
<1>5. /\ steps \in [Formats -> PlanStep] /\ kept \in [Formats -> PlanStep]
      /\ note \in [Urls -> Notes]
  BY <1>3 DEF PlanningInit, Notes
<1>6. /\ pc \in Points /\ todo \subseteq Formats /\ refused \subseteq Formats
      /\ cut \in BOOLEAN /\ overrun \in BOOLEAN /\ status \in PlanStatus
  BY Zenon DEF PlanningInit, Points, PlanStatus
<1>8. /\ pass \in 1..2 /\ moves \in 0..MaxPriceMoves /\ checked \in 0..MaxClock
  BY PlanningAssumption, MediaAssumption DEF PlanningInit
<1>7. OfferOK /\ ChoiceOK /\ StepsOK(steps) /\ StepsOK(kept) /\ TodoOK
  BY DEF PlanningInit, PlannerInit, OfferOK, ChoiceOK, StepsOK, TodoOK, Billable, NoStep
<1> QED
  BY <1>1, <1>2, <1>4, <1>5, <1>6, <1>7, <1>8 DEF TypeInv, PlanningTypeOK

\* A build starts from models of the catalogue.
LEMMA TypeBuild ==
  ASSUME TypeInv, NEW exact \in ExactPrices, StartBuild(exact)
  PROVE  PlannerTypeOK' /\ OfferOK' /\ ChoiceOK'
<1>1. request \in Requests
  BY DEF TypeInv, PlanningTypeOK, PlannerTypeOK
<1> DEFINE built ==
      /\ request' = request
      /\ offer' \in [Formats -> SUBSET Candidate]
      /\ choice' \in [Formats -> Candidate \cup {NoChoice}]
      /\ fit' = [stage |-> "drop", at |-> 1, changed |-> FALSE, round |-> 1]
      /\ \A f \in Formats :
           /\ offer'[f] = IF f \in request.brief.formats THEN Candidates(f, exact) ELSE {}
           /\ IF offer'[f] = {} THEN choice'[f] = NoChoice ELSE choice'[f] \in offer'[f]
<1>2. built
  BY <1>1, BuildFacts
<1>3. PlannerTypeOK'
  BY <1>1, <1>2, PlannerAssumption DEF PlannerTypeOK, FitStages
<1>4. \A f \in Formats : \A c \in Candidates(f, exact) : c.key \in Usable(f)
  BY <1>1, CandidatesType
<1>5. OfferOK'
  BY <1>2, <1>4 DEF OfferOK, Usable
<1>6. ChoiceOK'
  BY <1>2 DEF ChoiceOK
<1> QED
  BY <1>3, <1>5, <1>6

FitRecord == [stage: FitStages, at: 1..6, changed: BOOLEAN, round: 1..MaxUpgradeRounds]

LEMMA FitUpdates ==
  ASSUME NEW g \in FitRecord
  PROVE  /\ \A s \in FitStages : [g EXCEPT !.stage = s] \in FitRecord
         /\ \A n \in 1..6 : [g EXCEPT !.at = n] \in FitRecord
         /\ \A n \in 1..6 : [g EXCEPT !.at = n, !.changed = TRUE] \in FitRecord
         /\ \A n \in 1..6, b \in BOOLEAN, r \in 1..MaxUpgradeRounds :
              [g EXCEPT !.at = n, !.changed = b, !.round = r] \in FitRecord
<1>1. ASSUME NEW s \in FitStages PROVE [g EXCEPT !.stage = s] \in FitRecord
  BY DEF FitRecord
<1>2. ASSUME NEW n \in 1..6 PROVE [g EXCEPT !.at = n] \in FitRecord
  BY DEF FitRecord
<1>3. ASSUME NEW n \in 1..6 PROVE [g EXCEPT !.at = n, !.changed = TRUE] \in FitRecord
  BY DEF FitRecord
<1>4. ASSUME NEW n \in 1..6, NEW b \in BOOLEAN, NEW r \in 1..MaxUpgradeRounds
      PROVE  [g EXCEPT !.at = n, !.changed = b, !.round = r] \in FitRecord
  BY DEF FitRecord
<1> QED
  BY <1>1, <1>2, <1>3, <1>4, Zenon

LEMMA TypeFit ==
  ASSUME TypeInv, FitStep
  PROVE  /\ PlannerTypeOK' /\ ChoiceOK'
         /\ UNCHANGED <<request, offer>>
<1>1. /\ request \in Requests /\ offer \in [Formats -> SUBSET Candidate]
      /\ choice \in [Formats -> Candidate \cup {NoChoice}] /\ fit \in FitRecord
      /\ \A f \in Formats : choice[f] # NoChoice => choice[f] \in offer[f]
  BY DEF TypeInv, PlanningTypeOK, PlannerTypeOK, ChoiceOK, FitRecord
<1>2. UNCHANGED <<request, offer>>
  BY DEF FitStep, DropFormat, BaselineFits, UpgradeFormat, PassFormat, EndRound
<1>3. fit' \in FitRecord
  <2>1. CASE DropFormat
    BY <1>1, <2>1 DEF DropFormat
  <2>2. CASE BaselineFits
    BY <1>1, <2>2, FitUpdates, Zenon DEF BaselineFits, FitStages
  <2>3. CASE UpgradeFormat \/ PassFormat
    <3>1. fit.at + 1 \in 1..6
      BY <2>3 DEF UpgradeFormat, PassFormat, Selected
    <3>2. \/ fit' = [fit EXCEPT !.at = @ + 1, !.changed = TRUE]
          \/ fit' = [fit EXCEPT !.at = @ + 1]
      BY <2>3, Zenon DEF UpgradeFormat, PassFormat
    <3> QED
      BY <1>1, <3>1, <3>2, FitUpdates, Zenon
  <2>4. CASE EndRound
    <3>1. fit.round < MaxUpgradeRounds => fit.round + 1 \in 1..MaxUpgradeRounds
      BY <1>1, PlannerAssumption DEF FitRecord
    <3>2. 1 \in 1..6 /\ FALSE \in BOOLEAN
      OBVIOUS
    <3> QED
      BY <1>1, <2>4, <3>1, <3>2, FitUpdates, Zenon DEF EndRound, FitStages
  <2> QED
    BY <2>1, <2>2, <2>3, <2>4 DEF FitStep
<1>4. /\ choice' \in [Formats -> Candidate \cup {NoChoice}]
      /\ \A f \in Formats : choice'[f] # NoChoice => choice'[f] \in offer[f]
  <2>1. CASE DropFormat
    BY <1>1, <2>1 DEF DropFormat
  <2>2. CASE UNCHANGED choice
    BY <1>1, <2>2
  <2>3. CASE \E c \in Better(fit.at) : choice' = [choice EXCEPT ![fit.at] = c]
    BY <1>1, <2>3 DEF Better
  <2>4. \/ DropFormat \/ UNCHANGED choice
        \/ \E c \in Better(fit.at) : choice' = [choice EXCEPT ![fit.at] = c]
    BY DEF FitStep, BaselineFits, UpgradeFormat, PassFormat, EndRound
  <2> QED
    BY <2>1, <2>2, <2>3, <2>4
<1> QED
  BY <1>1, <1>2, <1>3, <1>4 DEF PlannerTypeOK, ChoiceOK, FitRecord

LEMMA TypeMedia ==
  ASSUME MediaTypeOK, MediaNext
  PROVE  MediaTypeOK'
<1> USE MediaAssumption DEF MediaTypeOK, UploadPoints
<1>1. CASE Purge
  BY <1>1 DEF Purge
<1>2. CASE Tick
  BY <1>2 DEF Tick
<1>3. ASSUME NEW u \in Urls, UploadStep(u) PROVE MediaTypeOK'
  <2>1. clock + Ttl \in 0..(MaxClock + Ttl)
    OBVIOUS
  <2> QED
    BY <1>3, <2>1 DEF UploadStep, BeginUpload, SendFile, RecordUpload, AbandonUpload, Expiry
<1> QED
  BY <1>1, <1>2, <1>3 DEF MediaNext

-----------------------------------------------------------------------------
(* What is done to the steps of a draft.                                   *)

LEMMA StepTypes == NoStep \in PlanStep /\ LocalText \in PlanStep
BY PlannerAssumption DEF NoStep, LocalText, PlanStep

\* A step is left out.
LEMMA LeftOut ==
  ASSUME NEW x \in [Formats -> PlanStep], StepsOK(x), NEW f \in Formats,
         NEW y, y = [x EXCEPT ![f] = NoStep]
  PROVE  /\ y \in [Formats -> PlanStep] /\ StepsOK(y)
         /\ \A g \in Formats : y[g] = IF g = f THEN NoStep ELSE x[g]
         /\ Billable(y) = Billable(x) \ {f}
         /\ Total(y) = Total(x) - x[f].cost
<1>1. \A g \in Formats : y[g] = IF g = f THEN NoStep ELSE x[g]
  OBVIOUS
<1>2. y \in [Formats -> PlanStep]
  BY StepTypes
<1>3. NoStep.kind = "none" /\ NoStep.cost = 0
  BY DEF NoStep
<1>4. StepsOK(y)
  BY <1>1, <1>3 DEF StepsOK
<1>5. Billable(y) = Billable(x) \ {f}
  BY <1>1, <1>3 DEF Billable
<1>6. \A g \in Formats : x[g].cost \in Nat
  BY DEF PlanStep
<1>7. Total(y) = Total(x) - x[f].cost
  BY <1>1, <1>3, <1>6 DEF Total
<1> QED
  BY <1>1, <1>2, <1>4, <1>5, <1>7

\* A text is put in.
LEMMA PutIn ==
  ASSUME NEW x \in [Formats -> PlanStep], StepsOK(x), NEW y, y = WithText(x)
  PROVE  /\ y \in [Formats -> PlanStep] /\ StepsOK(y)
         /\ \A g \in Formats :
              y[g] = x[g] \/ (g = Text /\ x[g].kind = "none" /\ y[g].kind = "local")
         /\ Text \in request.brief.formats => y[Text].kind # "none"
         /\ Billable(y) = Billable(x)
         /\ Total(y) = Total(x)
<1>1. CASE ~(Text \in request.brief.formats /\ x[Text].kind = "none")
  <2>1. y = x
    BY <1>1, Zenon DEF WithText
  <2>2. Text \in request.brief.formats => y[Text].kind # "none"
    BY <1>1, <2>1
  <2> QED
    BY <2>1, <2>2, Zenon
<1>2. CASE Text \in request.brief.formats /\ x[Text].kind = "none"
  <2>1. y = [x EXCEPT ![Text] = LocalText]
    BY <1>2 DEF WithText
  <2>2. \A g \in Formats : y[g] = IF g = Text THEN LocalText ELSE x[g]
    BY <2>1
  <2>3. y \in [Formats -> PlanStep]
    BY <2>1, StepTypes
  <2>4. LocalText.kind = "local" /\ LocalText.cost = 0
    BY DEF LocalText
  <2>5. StepsOK(y)
    BY <1>2, <2>2, <2>4 DEF StepsOK
  <2>6. Billable(y) = Billable(x)
    BY <1>2, <2>2, <2>4 DEF Billable
  <2>7. x[Text].cost = 0
    BY <1>2 DEF StepsOK
  <2>8. Total(y) = Total(x)
    BY <2>2, <2>4, <2>7 DEF Total
  <2>9. /\ y[Text].kind = "local" /\ x[Text].kind = "none"
        /\ \A g \in Formats : g # Text => y[g] = x[g]
    BY <1>2, <2>2, <2>4
  <2>10. \A g \in Formats :
           y[g] = x[g] \/ (g = Text /\ x[g].kind = "none" /\ y[g].kind = "local")
    BY <2>9, Zenon
  <2>11. y[Text].kind # "none"
    BY <2>9
  <2> QED
    BY <2>3, <2>5, <2>6, <2>8, <2>10, <2>11, Zenon
<1> QED
  BY <1>1, <1>2

\* A step gets the price that was asked for it.
LEMMA Repaid ==
  ASSUME TypeInv, NEW f \in Billable(steps), NEW cost \in Nat,
         steps' = [steps EXCEPT ![f] = Quoted(f, cost)]
  PROVE  /\ steps' \in [Formats -> PlanStep] /\ StepsOK(steps')
         /\ \A g \in Formats : g # f => steps'[g] = steps[g]
         /\ steps'[f].kind = "generation" /\ steps'[f].key = steps[f].key
         /\ steps'[f].cost = cost /\ steps'[f].quoted
         /\ Billable(steps') = Billable(steps)
         /\ Total(steps') = Total(steps) - steps[f].cost + cost
<1>1. steps \in [Formats -> PlanStep] /\ StepsOK(steps)
  BY DEF TypeInv, PlanningTypeOK
<1>2. f \in Formats /\ steps[f].kind = "generation" /\ steps[f] \in PlanStep
  BY <1>1 DEF Billable
<1> DEFINE q == Quoted(f, cost)
<1>3. /\ q \in PlanStep /\ q.kind = "generation" /\ q.key = steps[f].key
      /\ q.cost = cost /\ q.quoted
  BY <1>2 DEF Quoted, PlanStep
<1> HIDE DEF q
<1>4. /\ steps' \in [Formats -> PlanStep]
      /\ \A g \in Formats : steps'[g] = IF g = f THEN q ELSE steps[g]
  BY <1>1, <1>2, <1>3 DEF q
<1>5. StepsOK(steps')
  BY <1>1, <1>2, <1>3, <1>4 DEF StepsOK
<1>6. Billable(steps') = Billable(steps)
  BY <1>2, <1>3, <1>4 DEF Billable
<1>7. \A g \in Formats : steps[g].cost \in Nat
  BY <1>1 DEF PlanStep
<1>8. Total(steps') = Total(steps) - steps[f].cost + cost
  BY <1>2, <1>3, <1>4, <1>7 DEF Total
<1> QED
  BY <1>2, <1>3, <1>4, <1>5, <1>6, <1>8

\* What is asked for a step of a draft is an amount.
LEMMA AskedType ==
  ASSUME TypeInv, NEW f \in Billable(steps)
  PROVE  /\ steps[f].key \in 1..MaxModels
         /\ steps[f].key \in 1..Len(request.catalogue[f])
         /\ request.catalogue[f][steps[f].key] \in ModelSpec
         /\ Asked(f, steps[f].key) \subseteq Nat
<1>1. f \in Formats /\ steps[f].key \in 1..Len(request.catalogue[f]) /\ request \in Requests
  BY DEF TypeInv, StepsOK, Billable, PlanningTypeOK, PlannerTypeOK
<1>2. /\ steps[f].key \in 1..MaxModels /\ request.catalogue[f][steps[f].key] \in ModelSpec
      /\ request.brief \in BriefOf(Urls)
  BY <1>1, RequestType
<1>3. Bills(request.catalogue[f][steps[f].key], f, request.brief) \subseteq Nat
  BY <1>1, <1>2, BillsType
<1>4. price[f][steps[f].key] \in Nat \cup {NoPrice}
  BY <1>1, <1>2 DEF TypeInv, PlanningTypeOK
<1> QED
  BY <1>1, <1>2, <1>3, <1>4 DEF Asked

LEMMA ExactType ==
  ASSUME TypeInv PROVE NothingExact \in ExactPrices /\ Exact(steps) \in ExactPrices
<1>1. NothingExact \in ExactPrices
  BY PlannerAssumption DEF NothingExact, ExactPrices
<1>2. \A f \in Formats : steps[f].key \in 0..MaxModels /\ steps[f].cost \in Nat
  BY DEF TypeInv, PlanningTypeOK, PlanStep
<1>3. Exact(steps) \in ExactPrices
  BY <1>2 DEF Exact, ExactPrices
<1> QED
  BY <1>1, <1>3

-----------------------------------------------------------------------------
(* Each action keeps the types.                                            *)

\* What a step of the planner leaves alone.
LEMMA TypeStepBuild ==
  ASSUME TypeInv, Begin \/ Fit \/ (Priced /\ pass' = 2)
  PROVE  TypeInv'
<1>1. CASE Begin
  <2>1. PlannerTypeOK' /\ OfferOK' /\ ChoiceOK'
    BY <1>1, TypeBuild, ExactType DEF Begin
  <2>2. request' = request
    BY <1>1 DEF Begin, StartBuild
  <2> QED
    BY <1>1, <2>1, <2>2
    DEF Begin, TypeInv, PlanningTypeOK, MediaTypeOK, mediaVars, StepsOK, TodoOK, Billable,
        Points
<1>2. CASE Fit
  <2>1. PlannerTypeOK' /\ ChoiceOK' /\ UNCHANGED <<request, offer>>
    BY <1>2, TypeFit DEF Fit
  <2>2. UNCHANGED <<mediaVars, planVars>>
    BY <1>2 DEF Fit
  <2>3. OfferOK' /\ StepsOK(steps)' /\ StepsOK(kept)' /\ TodoOK'
    BY <2>1, <2>2 DEF TypeInv, OfferOK, StepsOK, TodoOK, Billable, planVars
  <2>4. MediaTypeOK'
    BY <2>2 DEF TypeInv, PlanningTypeOK, MediaTypeOK, mediaVars
  <2>5. UNCHANGED <<pc, pass, steps, kept, todo, cut, overrun, price, moves, refused, note,
                    checked, status>>
    BY <2>2 DEF planVars
  <2> QED
    BY <2>1, <2>3, <2>4, <2>5 DEF TypeInv, PlanningTypeOK
<1>3. CASE Priced /\ pass' = 2
  <2>1. StartBuild(Exact(steps)) /\ kept' = steps /\ pc' = "plan" /\ todo = {}
        /\ UNCHANGED <<mediaVars, steps, todo, cut, overrun, price, moves, refused, note,
                       checked, status>>
    BY <1>3 DEF Priced
  <2>2. PlannerTypeOK' /\ OfferOK' /\ ChoiceOK'
    BY <2>1, TypeBuild, ExactType
  <2>3. request' = request
    BY <2>1 DEF StartBuild
  <2>4. StepsOK(steps)' /\ StepsOK(kept)' /\ TodoOK'
    BY <2>1, <2>3 DEF TypeInv, StepsOK, TodoOK, Billable
  <2>5. MediaTypeOK'
    BY <2>1 DEF TypeInv, PlanningTypeOK, MediaTypeOK, mediaVars
  <2>6. /\ pc' \in Points /\ pass' \in 1..2 /\ kept' \in [Formats -> PlanStep]
        /\ UNCHANGED <<steps, todo, cut, overrun, price, moves, refused, note, checked, status>>
    BY <1>3, <2>1 DEF TypeInv, PlanningTypeOK, Points
  <2> QED
    BY <2>2, <2>4, <2>5, <2>6 DEF TypeInv, PlanningTypeOK
<1> QED
  BY <1>1, <1>2, <1>3

LEMMA DraftFacts ==
  ASSUME TypeInv, Draft
  PROVE  /\ steps' \in [Formats -> PlanStep] /\ StepsOK(steps')
         /\ \A f \in Formats :
              IF choice[f] = NoChoice THEN steps'[f].kind # "generation"
              ELSE /\ steps'[f].kind = "generation" /\ steps'[f].key = choice[f].key
                   /\ steps'[f].cost = choice[f].cost
         /\ Total(steps') = Total(choice)
         /\ todo' = Billable(steps')
<1> DEFINE x == [f \in Formats |-> DraftStep(f)]
<1>1. /\ choice \in [Formats -> Candidate \cup {NoChoice}]
      /\ \A f \in Formats : choice[f] # NoChoice =>
           /\ f \in request.brief.formats
           /\ choice[f].key \in 1..Len(request.catalogue[f])
           /\ choice[f] \in Candidate
  BY DEF TypeInv, PlanningTypeOK, PlannerTypeOK, ChoiceOK, OfferOK
<1>0. x = [f \in Formats |-> DraftStep(f)] /\ \A f \in Formats : x[f] = DraftStep(f)
  OBVIOUS
<1> HIDE DEF x
<1>2. ASSUME NEW f \in Formats
      PROVE  /\ x[f] \in PlanStep
             /\ x[f].cost = choice[f].cost
             /\ IF choice[f] = NoChoice THEN x[f] = NoStep
                ELSE x[f].kind = "generation" /\ x[f].key = choice[f].key
  <2>1. CASE choice[f] = NoChoice
    BY <1>0, <2>1, StepTypes DEF DraftStep, NoStep, NoChoice
  <2>2. CASE choice[f] # NoChoice
    <3>1. x[f] = [kind |-> "generation", key |-> choice[f].key, cost |-> choice[f].cost,
                  quoted |-> FALSE]
      BY <1>0, <2>2 DEF DraftStep
    <3>2. choice[f] \in Candidate
      BY <1>1, <2>2
    <3>3. choice[f].key \in 0..MaxModels /\ choice[f].cost \in Nat
      BY <3>2, PlannerAssumption DEF Candidate
    <3>4. x[f] \in PlanStep
      BY <3>1, <3>3 DEF PlanStep
    <3>5. /\ x[f].kind = "generation" /\ x[f].key = choice[f].key
          /\ x[f].cost = choice[f].cost
      BY <3>1
    <3> QED
      BY <2>2, <3>4, <3>5
  <2> QED
    BY <2>1, <2>2
<1>3. x \in [Formats -> PlanStep]
  BY <1>0, <1>2
<1>4. StepsOK(x)
  BY <1>1, <1>2 DEF StepsOK, NoStep
<1>5. steps' = WithText(x) /\ todo' = Billable(steps')
  BY DEF Draft, x
<1>6. Total(x) = Total(choice)
  BY <1>2 DEF Total
<1>7. /\ steps' \in [Formats -> PlanStep] /\ StepsOK(steps')
      /\ \A g \in Formats :
           \/ steps'[g] = x[g]
           \/ (g = Text /\ x[g].kind = "none" /\ steps'[g].kind = "local")
      /\ Total(steps') = Total(x)
  BY <1>3, <1>4, <1>5, PutIn
<1>8. NoStep.kind = "none"
  BY DEF NoStep
<1> QED
  BY <1>2, <1>5, <1>6, <1>7, <1>8

LEMMA TypeStepDraft ==
  ASSUME TypeInv, Draft
  PROVE  TypeInv'
<1>1. /\ steps' \in [Formats -> PlanStep] /\ StepsOK(steps')
      /\ todo' = Billable(steps')
  BY DraftFacts
<1>2. /\ UNCHANGED <<plannerVars, mediaVars, pass, kept, overrun, price, moves, refused, note,
                     checked, status>>
      /\ pc' \in Points /\ cut' \in BOOLEAN
  BY DEF Draft, Points, TypeInv, PlanningTypeOK
<1>3. UNCHANGED <<request, offer, choice, fit>>
  BY <1>2 DEF plannerVars
<1>4. PlannerTypeOK' /\ OfferOK' /\ ChoiceOK'
  BY <1>3 DEF TypeInv, PlanningTypeOK, PlannerTypeOK, OfferOK, ChoiceOK
<1>5. MediaTypeOK'
  BY <1>2 DEF TypeInv, PlanningTypeOK, MediaTypeOK, mediaVars
<1>6. StepsOK(steps)' /\ StepsOK(kept)'
  BY <1>1, <1>2, <1>3 DEF TypeInv, StepsOK
<1>8. TodoOK'
  BY <1>1 DEF Draft, TodoOK
<1>7. todo' \subseteq Formats
  BY <1>1 DEF Billable
<1> QED
  BY <1>1, <1>2, <1>4, <1>5, <1>6, <1>7, <1>8 DEF TypeInv, PlanningTypeOK

\* The rest of create_plan leaves the planner and the uploads alone.
LEMMA TypeRest ==
  ASSUME TypeInv, UNCHANGED <<plannerVars, mediaVars>>
  PROVE  PlannerTypeOK' /\ OfferOK' /\ ChoiceOK' /\ MediaTypeOK' /\ request' = request
<1>1. UNCHANGED <<request, offer, choice, fit>> /\ UNCHANGED <<clock, link, record, upload>>
  BY DEF plannerVars, mediaVars
<1>2. PlannerTypeOK' /\ OfferOK' /\ ChoiceOK'
  BY <1>1 DEF TypeInv, PlanningTypeOK, PlannerTypeOK, OfferOK, ChoiceOK
<1>3. MediaTypeOK'
  BY <1>1 DEF TypeInv, PlanningTypeOK, MediaTypeOK
<1> QED
  BY <1>1, <1>2, <1>3

LEMMA TypeStepLinks ==
  ASSUME TypeInv, CheckLinks
  PROVE  TypeInv'
<1>1. PlannerTypeOK' /\ OfferOK' /\ ChoiceOK' /\ MediaTypeOK' /\ request' = request
  BY TypeRest DEF CheckLinks
<1>2. note' \in [Urls -> Notes]
  BY DEF CheckLinks, NoteOn, Notes
<1>3. checked' \in 0..MaxClock /\ pc' \in Points
  BY DEF CheckLinks, TypeInv, PlanningTypeOK, MediaTypeOK, Points
<1>4. StepsOK(steps)' /\ StepsOK(kept)' /\ TodoOK'
  BY <1>1 DEF CheckLinks, TypeInv, StepsOK, TodoOK, Billable
<1> QED
  BY <1>1, <1>2, <1>3, <1>4 DEF CheckLinks, TypeInv, PlanningTypeOK

\* The platform asks cost for the step of f: its last price, or a price that moved.
Answered(f, cost) ==
  /\ price' = [price EXCEPT ![f][steps[f].key] = cost]
  /\ steps' = [steps EXCEPT ![f] = Quoted(f, cost)]
  /\ \/ cost \in Asked(f, steps[f].key) /\ moves' = moves
     \/ moves' = moves + 1 /\ moves' \in 1..MaxPriceMoves

\* The two outcomes of a quote.
Outcome(f) ==
  /\ todo' = todo \ {f} /\ f \in Billable(steps) /\ f \in Formats
  /\ \/ Refuse(f)
     \/ refused' = refused /\ \E cost \in Nat : Answered(f, cost)

LEMMA PriceFacts ==
  ASSUME TypeInv, PriceStep
  PROVE  \E f \in todo : Outcome(f)
<1> USE DEF Outcome, Answered
<1> DEFINE f == Least(todo)
<1>1. todo \subseteq Billable(steps) /\ todo \subseteq Formats /\ todo # {}
  BY DEF TypeInv, PlanningTypeOK, TodoOK, PriceStep
<1>2. f \in todo
  BY <1>1, LeastFormat
<1>3. (Quote(f) \/ Refuse(f)) /\ todo' = todo \ {f}
  BY DEF PriceStep
<1> HIDE DEF f
<1>4. ASSUME Quote(f)
      PROVE  /\ refused' = refused
             /\ \E cost \in Nat : Answered(f, cost)
  <2>1. PICK cost \in Asked(f, steps[f].key) \cup Prices :
          /\ IF cost \in Asked(f, steps[f].key) THEN moves' = moves
             ELSE moves < MaxPriceMoves /\ moves' = moves + 1
          /\ price' = [price EXCEPT ![f][steps[f].key] = cost]
          /\ steps' = [steps EXCEPT ![f] = Quoted(f, cost)]
    BY <1>4 DEF Quote
  <2>2. cost \in Nat
    BY <1>1, <1>2, <2>1, AskedType, PlanningAssumption
  <2>3. moves < MaxPriceMoves => moves + 1 \in 1..MaxPriceMoves
    BY PlanningAssumption DEF TypeInv, PlanningTypeOK
  <2>4. refused' = refused
    BY <1>4 DEF Quote
  <2>5. \/ cost \in Asked(f, steps[f].key) /\ moves' = moves
        \/ moves' = moves + 1 /\ moves' \in 1..MaxPriceMoves
    BY <2>1, <2>3, Zenon
  <2> QED
    BY <2>1, <2>2, <2>4, <2>5, Zenon
<1> QED
  BY <1>1, <1>2, <1>3, <1>4, Zenon

LEMMA TypeStepPrice ==
  ASSUME TypeInv, PriceStep
  PROVE  TypeInv'
<1>1. PlannerTypeOK' /\ OfferOK' /\ ChoiceOK' /\ MediaTypeOK' /\ request' = request
  BY TypeRest DEF PriceStep
<1> USE DEF Outcome, Answered
<1>2. PICK f \in todo : Outcome(f)
  BY PriceFacts
<1>3. /\ steps \in [Formats -> PlanStep] /\ StepsOK(steps) /\ refused \subseteq Formats
      /\ price \in [Formats -> [1..MaxModels -> Nat \cup {NoPrice}]]
      /\ moves \in 0..MaxPriceMoves /\ todo \subseteq Billable(steps)
  BY DEF TypeInv, PlanningTypeOK, TodoOK
<1> DEFINE Typed ==
      /\ steps' \in [Formats -> PlanStep] /\ StepsOK(steps')
      /\ todo' \subseteq Billable(steps') /\ refused' \subseteq Formats
      /\ price' \in [Formats -> [1..MaxModels -> Nat \cup {NoPrice}]]
      /\ moves' \in 0..MaxPriceMoves
<1>4. Typed
  <2>1. CASE Refuse(f)
    <3>1. /\ steps' = [steps EXCEPT ![f] = NoStep] /\ refused' = refused \cup {f}
          /\ UNCHANGED <<price, moves>>
      BY <2>1 DEF Refuse
    <3>2. /\ steps' \in [Formats -> PlanStep] /\ StepsOK(steps')
          /\ Billable(steps') = Billable(steps) \ {f}
      BY <1>2, <1>3, <3>1, LeftOut
    <3> QED
      BY <1>2, <1>3, <3>1, <3>2
  <2>2. ASSUME NEW cost \in Nat, refused' = refused, Answered(f, cost)
        PROVE  Typed
    <3>1. /\ steps' \in [Formats -> PlanStep] /\ StepsOK(steps')
          /\ Billable(steps') = Billable(steps)
      BY <1>2, <2>2, Repaid
    <3>2. steps[f].key \in 1..MaxModels
      BY <1>2, AskedType
    <3>3. price' \in [Formats -> [1..MaxModels -> Nat \cup {NoPrice}]]
      BY <1>2, <1>3, <2>2, <3>2
    <3>4. moves' \in 0..MaxPriceMoves
      BY <1>3, <2>2, PlanningAssumption
    <3> QED
      BY <1>2, <1>3, <2>2, <3>1, <3>3, <3>4
  <2> QED
    BY <1>2, <2>1, <2>2
<1>5. StepsOK(steps)' /\ StepsOK(kept)'
  BY <1>1, <1>4 DEF PriceStep, TypeInv, StepsOK
<1>6. todo' \subseteq Formats
  BY <1>2 DEF TypeInv, PlanningTypeOK
<1>7. UNCHANGED <<pc, pass, kept, cut, overrun, note, checked, status>> /\ pc = "price"
  BY DEF PriceStep
<1>8. TodoOK'
  BY <1>4, <1>7 DEF TodoOK
<1> QED
  BY <1>1, <1>4, <1>5, <1>6, <1>7, <1>8 DEF TypeInv, PlanningTypeOK

LEMMA TypeStepPriced ==
  ASSUME TypeInv, Priced \/ Repriced
  PROVE  TypeInv'
<1>1. CASE Priced /\ pass' = 2
  BY <1>1, TypeStepBuild
<1>2. CASE Priced /\ pass' # 2
  <2>1. /\ pc' = "fit" /\ todo = {}
        /\ UNCHANGED <<plannerVars, mediaVars, pass, kept, steps, todo, cut, overrun, price,
                       moves, refused, note, checked, status>>
    BY <1>2 DEF Priced
  <2>2. PlannerTypeOK' /\ OfferOK' /\ ChoiceOK' /\ MediaTypeOK' /\ request' = request
    BY <2>1, TypeRest
  <2>3. StepsOK(steps)' /\ StepsOK(kept)' /\ TodoOK'
    BY <2>1, <2>2 DEF TypeInv, StepsOK, TodoOK, Billable
  <2> QED
    BY <2>1, <2>2, <2>3 DEF TypeInv, PlanningTypeOK, Points
<1>3. CASE Repriced
  <2>1. PlannerTypeOK' /\ OfferOK' /\ ChoiceOK' /\ MediaTypeOK' /\ request' = request
    BY <1>3, TypeRest DEF Repriced
  <2>2. steps' \in {steps, kept} /\ todo = {} /\ todo' = todo
    BY <1>3 DEF Repriced
  <2>3. /\ UNCHANGED <<pass, kept, cut, overrun, price, moves, refused, note, checked, status>>
        /\ pc' = "fit"
    BY <1>3 DEF Repriced
  <2>4. /\ StepsOK(steps)' /\ StepsOK(kept)' /\ TodoOK'
        /\ steps' \in [Formats -> PlanStep]
    BY <2>1, <2>2, <2>3 DEF TypeInv, PlanningTypeOK, StepsOK, TodoOK
  <2> QED
    BY <2>1, <2>2, <2>3, <2>4 DEF TypeInv, PlanningTypeOK, Points
<1> QED
  BY <1>1, <1>2, <1>3

LEMMA DropFacts ==
  ASSUME TypeInv, DropStep
  PROVE  /\ Dropped \in Billable(steps) /\ \A f \in Billable(steps) : f <= Dropped
         /\ steps' = [steps EXCEPT ![Dropped] = NoStep]
         /\ steps' \in [Formats -> PlanStep] /\ StepsOK(steps')
         /\ \A g \in Formats : steps'[g] = IF g = Dropped THEN NoStep ELSE steps[g]
         /\ Billable(steps') = Billable(steps) \ {Dropped}
<1>1. Billable(steps) \subseteq Formats /\ Billable(steps) # {}
  BY DEF Billable, DropStep, TooDear
<1>2. Dropped \in Billable(steps) /\ \A f \in Billable(steps) : f <= Dropped
  BY <1>1, GreatestFormat DEF Dropped
<1>3. steps' = [steps EXCEPT ![Dropped] = NoStep]
  BY DEF DropStep, Without
<1>4. steps \in [Formats -> PlanStep] /\ StepsOK(steps) /\ Dropped \in Formats
  BY <1>1, <1>2 DEF TypeInv, PlanningTypeOK
<1> QED
  BY <1>2, <1>3, <1>4, LeftOut

LEMMA TypeStepFit ==
  ASSUME TypeInv, DropStep \/ Conclude
  PROVE  TypeInv'
<1>1. PlannerTypeOK' /\ OfferOK' /\ ChoiceOK' /\ MediaTypeOK' /\ request' = request
  BY TypeRest DEF DropStep, Conclude
<1>2. steps \in [Formats -> PlanStep] /\ StepsOK(steps)
  BY DEF TypeInv, PlanningTypeOK
<1>3. steps' \in [Formats -> PlanStep] /\ StepsOK(steps')
  <2>1. CASE DropStep
    BY <2>1, DropFacts
  <2>2. CASE Conclude
    BY <1>2, <2>2, PutIn DEF Conclude, Final
  <2> QED
    BY <2>1, <2>2
<1>4. StepsOK(steps)' /\ StepsOK(kept)'
  BY <1>1, <1>3 DEF DropStep, Conclude, TypeInv, StepsOK
<1>5. TodoOK' /\ pc' \in Points
  BY DEF DropStep, Conclude, TypeInv, TodoOK, Points
<1>6. overrun' \in BOOLEAN /\ status' \in PlanStatus
  BY DEF DropStep, Conclude, TypeInv, PlanningTypeOK, PlanStatus, StatusOf
<1>7. UNCHANGED <<pass, kept, todo, cut, price, moves, refused, note, checked>>
  BY DEF DropStep, Conclude
<1> QED
  BY <1>1, <1>3, <1>4, <1>5, <1>6, <1>7 DEF TypeInv, PlanningTypeOK

LEMMA TypeStepMedia ==
  ASSUME TypeInv, MediaStep \/ UNCHANGED vars
  PROVE  TypeInv'
<1>1. UNCHANGED <<plannerVars, planVars>>
  BY DEF MediaStep, vars
<1>2. UNCHANGED <<pc, pass, steps, kept, todo, cut, overrun, price, moves, refused, note,
                  checked, status>>
  BY <1>1 DEF planVars
<1>3. UNCHANGED <<request, offer, choice, fit>>
  BY <1>1 DEF plannerVars
<1>4. PlannerTypeOK' /\ OfferOK' /\ ChoiceOK'
  BY <1>3 DEF TypeInv, PlanningTypeOK, PlannerTypeOK, OfferOK, ChoiceOK
<1>5. MediaTypeOK'
  <2>1. CASE MediaStep
    BY <2>1, TypeMedia DEF MediaStep, TypeInv, PlanningTypeOK
  <2>2. CASE UNCHANGED vars
    BY <2>2, TypeRest DEF vars
  <2> QED
    BY <2>1, <2>2
<1>6. StepsOK(steps)' /\ StepsOK(kept)' /\ TodoOK'
  BY <1>2, <1>3 DEF TypeInv, StepsOK, TodoOK, Billable
<1> QED
  BY <1>2, <1>4, <1>5, <1>6 DEF TypeInv, PlanningTypeOK

LEMMA TypeStep == TypeInv /\ [PlanningNext]_vars => TypeInv'
BY TypeStepBuild, TypeStepDraft, TypeStepLinks, TypeStepPrice, TypeStepPriced, TypeStepFit,
   TypeStepMedia
DEF PlanningNext, CreatePlan

\* What the plan, the planner and the uploads are made of.
THEOREM PlanningTypeCorrect == PlanningSpec => []PlanningTypeOK
<1>1. PlanningInit => TypeInv
  BY TypeInit
<1>2. TypeInv /\ [PlanningNext]_vars => TypeInv'
  BY TypeStep
<1>3. TypeInv => PlanningTypeOK
  BY DEF TypeInv
<1> QED
  BY <1>1, <1>2, <1>3, PTL DEF PlanningSpec

-----------------------------------------------------------------------------
(* Links.                                                                  *)

\* A link outlives what is remembered of it, and what was said of it.
LinkInv ==
  \A u \in Urls :
    /\ record[u] <= link[u] /\ link[u] <= clock + Ttl
    /\ upload[u] = "record" => link[u] = clock + Ttl
    /\ note[u] = "good" => checked + Threshold < link[u]

LEMMA LinkInit == PlanningInit => LinkInv
BY MediaAssumption DEF PlanningInit, MediaInit, LinkInv

LEMMA LinkStep == TypeInv /\ LinkInv /\ [PlanningNext]_vars => LinkInv'
<1> SUFFICES ASSUME TypeInv, LinkInv, [PlanningNext]_vars PROVE LinkInv'
  OBVIOUS
<1> USE PlanningAssumption, MediaAssumption
<1>1. /\ clock \in Nat /\ checked \in Nat
      /\ link \in [Urls -> Nat] /\ record \in [Urls -> Nat] /\ upload \in [Urls -> UploadPoints]
  BY DEF TypeInv, PlanningTypeOK, MediaTypeOK
<1>2. CASE UNCHANGED <<mediaVars, note, checked>>
  BY <1>2 DEF LinkInv, mediaVars
<1>3. CASE CheckLinks
  <2>1. UNCHANGED <<clock, link, record, upload>>
    BY <1>3 DEF CheckLinks, mediaVars
  <2>2. ASSUME NEW u \in Urls, note'[u] = "good" PROVE checked' + Threshold < link'[u]
    <3>1. NoteOn(u) = "good" /\ checked' = clock
      BY <1>3, <2>2 DEF CheckLinks
    <3>2. ~(record[u] <= clock + Threshold)
      BY <3>1 DEF NoteOn, Dying
    <3> QED
      BY <1>1, <2>1, <3>1, <3>2 DEF LinkInv
  <2> QED
    BY <2>1, <2>2 DEF LinkInv
<1>4. CASE MediaStep
  <2>1. note' = note /\ checked' = checked
    BY <1>4 DEF MediaStep, planVars
  <2>2. CASE Purge
    BY <1>1, <2>1, <2>2 DEF Purge, LinkInv
  <2>3. CASE Tick
    BY <1>1, <2>1, <2>3 DEF Tick, LinkInv
  <2>4. ASSUME NEW u \in Urls, UploadStep(u) PROVE LinkInv'
    <3>1. CASE SendFile(u)
      <4>1. CASE UNCHANGED link
        BY <1>1, <2>1, <3>1, <4>1 DEF SendFile, LinkInv, UploadPoints
      <4>2. CASE link' = [link EXCEPT ![u] = clock + Ttl]
        BY <1>1, <2>1, <3>1, <4>2 DEF SendFile, LinkInv, UploadPoints
      <4> QED
        BY <3>1, <4>1, <4>2 DEF SendFile
    <3>2. CASE BeginUpload(u) \/ AbandonUpload(u)
      BY <1>1, <2>1, <3>2 DEF BeginUpload, AbandonUpload, LinkInv
    <3>3. CASE RecordUpload(u)
      BY <1>1, <2>1, <3>3 DEF RecordUpload, Expiry, LinkInv
    <3> QED
      BY <2>4, <3>1, <3>2, <3>3 DEF UploadStep
  <2> QED
    BY <1>4, <2>2, <2>3, <2>4 DEF MediaStep, MediaNext
<1> QED
  BY <1>2, <1>3, <1>4
  DEF PlanningNext, CreatePlan, Begin, Fit, Draft, PriceStep, Priced, Repriced, DropStep,
      Conclude, planVars, vars

\* The service never expects a link to live longer than it does (media.py:34-71).
THEOREM NoOverclaimHolds == PlanningSpec => []NoOverclaim
<1>1. LinkInv => NoOverclaim
  BY DEF LinkInv, NoOverclaim
<1> QED
  BY <1>1, TypeInit, TypeStep, LinkInit, LinkStep, PTL DEF PlanningSpec

\* A link the plan was told nothing bad about lives through the days of the warning
\* (_media_warnings, plan_service.py:235-266).
THEOREM QuietLinksOutliveHolds == PlanningSpec => []QuietLinksOutlive
<1>1. TypeInv /\ LinkInv => QuietLinksOutlive
  BY PlanningAssumption, MediaAssumption
  DEF TypeInv, PlanningTypeOK, MediaTypeOK, LinkInv, QuietLinksOutlive
<1> QED
  BY <1>1, TypeInit, TypeStep, LinkInit, LinkStep, PTL DEF PlanningSpec

-----------------------------------------------------------------------------
(* The envelope of the draft.                                              *)

LEMMA FitInit == PlanningInit => UpgradesFit
BY EnvelopeIsAmount DEF PlanningInit, PlannerInit, UpgradesFit, Total, NoChoice

LEMMA FitStepFits ==
  ASSUME TypeInv, UpgradesFit, FitStep
  PROVE  UpgradesFit'
<1>0. /\ choice \in [Formats -> Candidate \cup {NoChoice}]
      /\ offer \in [Formats -> SUBSET Candidate]
  BY DEF TypeInv, PlanningTypeOK, PlannerTypeOK
<1>1. /\ \A f \in Formats : choice[f].cost \in Nat
      /\ \A f \in Formats : \A c \in offer[f] : c.cost \in Nat
  BY <1>0 DEF Candidate, NoChoice
<1>2. Spendable \in Nat
  BY EnvelopeIsAmount
<1>3. CASE DropFormat
  BY <1>3 DEF DropFormat, UpgradesFit
<1>4. CASE BaselineFits
  <2>1. choice' = choice
    BY <1>4 DEF BaselineFits
  <2>2. Total(choice) <= Spendable
    <3>1. CASE Selected = {}
      <4>1. \A f \in Formats : choice[f].cost = 0
        BY <3>1 DEF Selected, NoChoice
      <4> QED
        BY <1>2, <4>1 DEF Total
    <3> QED
      BY <1>4, <3>1 DEF BaselineFits
  <2> QED
    BY <2>1, <2>2 DEF UpgradesFit
<1>5. CASE UpgradeFormat
  <2>1. Total(choice) <= Spendable /\ fit.at \in Formats
    BY <1>5 DEF UpgradeFormat, UpgradesFit, Selected
  <2>2. CASE UNCHANGED choice
    BY <2>1, <2>2 DEF UpgradesFit
  <2>3. CASE \E c \in Better(fit.at) : choice' = [choice EXCEPT ![fit.at] = c]
    <3>1. PICK c \in Better(fit.at) : choice' = [choice EXCEPT ![fit.at] = c]
      BY <2>3
    <3>2. c \in offer[fit.at] /\ c.cost <= Spendable - (Total(choice) - choice[fit.at].cost)
      BY <3>1 DEF Better, Room
    <3>3. c.cost \in Nat
      BY <1>1, <2>1, <3>2
    <3>4. \A f \in Formats : choice'[f] = IF f = fit.at THEN c ELSE choice[f]
      BY <1>0, <2>1, <3>1
    <3>5. Total(choice') = Total(choice) - choice[fit.at].cost + c.cost
      BY <1>1, <2>1, <3>3, <3>4 DEF Total
    <3>6. Total(choice) \in Int /\ choice[fit.at].cost \in Int
      BY <1>1, <2>1 DEF Total
    <3>7. Total(choice') <= Spendable
      BY <1>2, <3>2, <3>3, <3>5, <3>6
    <3> QED
      BY <3>7 DEF UpgradesFit
  <2> QED
    BY <1>5, <2>2, <2>3 DEF UpgradeFormat
<1>6. CASE PassFormat
  BY <1>6 DEF PassFormat, UpgradesFit
<1>7. CASE EndRound
  <2>1. Total(choice) <= Spendable /\ choice' = choice
    BY <1>7 DEF EndRound, UpgradesFit
  <2> QED
    BY <2>1 DEF UpgradesFit
<1> QED
  BY <1>3, <1>4, <1>5, <1>6, <1>7 DEF FitStep

LEMMA FitKept == TypeInv /\ UpgradesFit /\ [PlanningNext]_vars => UpgradesFit'
<1> SUFFICES ASSUME TypeInv, UpgradesFit, [PlanningNext]_vars PROVE UpgradesFit'
  OBVIOUS
<1>1. CASE UNCHANGED <<choice, fit>>
  BY <1>1 DEF UpgradesFit
<1>2. CASE Fit
  BY <1>2, FitStepFits DEF Fit
<1>3. ASSUME NEW exact, StartBuild(exact) PROVE UpgradesFit'
  BY <1>3 DEF StartBuild, UpgradesFit
<1> QED
  BY <1>1, <1>2, <1>3
  DEF PlanningNext, CreatePlan, Begin, Draft, CheckLinks, PriceStep, Priced, Repriced,
      DropStep, Conclude, MediaStep, plannerVars, vars

\* No upgrade takes the draft out of the envelope (planner.py:435-454).
THEOREM UpgradesFitHolds == PlanningSpec => []UpgradesFit
BY TypeInit, TypeStep, FitInit, FitKept, PTL DEF PlanningSpec

-----------------------------------------------------------------------------
(* Quotes.                                                                 *)

IsQuoted(x, f) == x[f].quoted /\ (moves = 0 => x[f].cost = price[f][x[f].key])

\* A step is quoted or waits for it; the first draft is kept with its quotes.
QuoteInv ==
  /\ \A f \in Billable(steps) \ todo : IsQuoted(steps, f)
  /\ \A f \in Billable(kept) : IsQuoted(kept, f)

LEMMA QuoteInit == PlanningInit => QuoteInv
BY DEF PlanningInit, QuoteInv, Billable, NoStep

LEMMA QuotePrice ==
  ASSUME TypeInv, QuoteInv, PriceStep
  PROVE  QuoteInv'
<1> USE DEF Outcome, Answered
<1>1. PICK f \in todo : Outcome(f)
  BY PriceFacts
<1>2. kept' = kept
  BY DEF PriceStep
<1>3. /\ steps \in [Formats -> PlanStep] /\ StepsOK(steps) /\ kept \in [Formats -> PlanStep]
      /\ price \in [Formats -> [1..MaxModels -> Nat \cup {NoPrice}]]
      /\ moves \in Nat
  BY PlanningAssumption DEF TypeInv, PlanningTypeOK
<1>4. CASE Refuse(f)
  <2>1. /\ steps' = [steps EXCEPT ![f] = NoStep] /\ price' = price /\ moves' = moves
    BY <1>4 DEF Refuse
  <2>2. /\ \A g \in Formats : steps'[g] = IF g = f THEN NoStep ELSE steps[g]
        /\ Billable(steps') = Billable(steps) \ {f}
    BY <1>1, <1>3, <2>1, LeftOut
  <2>3. ASSUME NEW g \in Billable(steps') \ todo' PROVE IsQuoted(steps, g)'
    <3>1. g \in Formats /\ g # f /\ g \in Billable(steps) \ todo
      BY <1>1, <2>2 DEF Billable
    <3>2. IsQuoted(steps, g) /\ steps'[g] = steps[g]
      BY <2>2, <3>1 DEF QuoteInv
    <3> QED
      BY <2>1, <3>2 DEF IsQuoted
  <2>4. \A g \in Billable(kept) : IsQuoted(kept, g)'
    BY <1>2, <2>1 DEF QuoteInv, IsQuoted
  <2> QED
    BY <1>2, <2>3, <2>4 DEF QuoteInv
<1>5. ASSUME NEW cost \in Nat, Answered(f, cost)
      PROVE  QuoteInv'
  <2>1. /\ \A g \in Formats : g # f => steps'[g] = steps[g]
        /\ steps'[f].key = steps[f].key /\ steps'[f].cost = cost /\ steps'[f].quoted
        /\ Billable(steps') = Billable(steps)
    BY <1>1, <1>5, Repaid
  <2>2. steps[f].key \in 1..MaxModels
    BY <1>1, AskedType
  <2>3. /\ price'[f][steps[f].key] = cost
        /\ \A g \in Formats : g # f => price'[g] = price[g]
        /\ \A k \in 1..MaxModels : k # steps[f].key => price'[f][k] = price[f][k]
    BY <1>1, <1>3, <1>5, <2>2
  <2>4. moves' = 0 => moves = 0 /\ cost \in Asked(f, steps[f].key)
    BY <1>3, <1>5, PlanningAssumption
  <2>5. IsQuoted(steps, f)'
    BY <2>1, <2>3 DEF IsQuoted
  <2>6. ASSUME NEW g \in Billable(steps') \ todo' PROVE IsQuoted(steps, g)'
    <3>1. CASE g = f
      BY <2>5, <3>1
    <3>2. CASE g # f
      <4>1. g \in Billable(steps) \ todo /\ g \in Formats
        BY <1>1, <2>1, <3>2 DEF Billable
      <4>2. IsQuoted(steps, g)
        BY <4>1 DEF QuoteInv
      <4> QED
        BY <2>1, <2>3, <2>4, <3>2, <4>1, <4>2 DEF IsQuoted
    <3> QED
      BY <3>1, <3>2
  <2>7. ASSUME NEW g \in Billable(kept) PROVE IsQuoted(kept, g)'
    <3>1. IsQuoted(kept, g) /\ g \in Formats
      BY DEF QuoteInv, Billable
    <3>2. ASSUME moves' = 0 PROVE kept[g].cost = price'[g][kept[g].key]
      <4>1. moves = 0 /\ cost \in Asked(f, steps[f].key)
        BY <2>4, <3>2
      <4>2. kept[g].cost = price[g][kept[g].key]
        BY <3>1, <4>1 DEF IsQuoted
      <4>3. kept[g].cost \in Nat /\ kept[g].key \in 0..MaxModels
        BY <1>3, <3>1 DEF PlanStep
      <4>4. CASE g = f /\ kept[g].key = steps[f].key
        <5>1. price[f][steps[f].key] # NoPrice
          BY <4>2, <4>3, <4>4 DEF NoPrice
        <5>2. cost = price[f][steps[f].key]
          BY <4>1, <5>1 DEF Asked
        <5> QED
          BY <2>3, <4>2, <4>4, <5>2
      <4>5. CASE ~(g = f /\ kept[g].key = steps[f].key)
        BY <1>1, <1>3, <1>5, <2>2, <3>1, <4>2, <4>5
      <4> QED
        BY <4>4, <4>5
    <3> QED
      BY <1>2, <3>1, <3>2 DEF IsQuoted
  <2> QED
    BY <1>2, <2>6, <2>7 DEF QuoteInv
<1> QED
  BY <1>1, <1>4, <1>5

LEMMA QuoteStep == TypeInv /\ QuoteInv /\ [PlanningNext]_vars => QuoteInv'
<1> SUFFICES ASSUME TypeInv, QuoteInv, [PlanningNext]_vars PROVE QuoteInv'
  OBVIOUS
<1>1. CASE UNCHANGED <<steps, kept, todo, price, moves>>
  BY <1>1 DEF QuoteInv, IsQuoted, Billable
<1>2. CASE Draft
  <2>1. todo' = Billable(steps') /\ UNCHANGED <<kept, price, moves>>
    BY <1>2 DEF Draft
  <2> QED
    BY <2>1 DEF QuoteInv, IsQuoted, Billable
<1>3. CASE PriceStep
  BY <1>3, QuotePrice
<1>4. CASE Priced \/ Repriced
  <2>1. todo = {} /\ UNCHANGED <<todo, price, moves>>
    BY <1>4 DEF Priced, Repriced
  <2>2. steps' \in {steps, kept} /\ kept' \in {steps, kept}
    BY <1>4 DEF Priced, Repriced
  <2>3. \A x \in {steps, kept} : \A f \in Billable(x) : IsQuoted(x, f)
    BY <2>1 DEF QuoteInv
  <2>4. \A x \in {steps, kept} : \A f \in Billable(x) :
          x[f].quoted /\ (moves' = 0 => x[f].cost = price'[f][x[f].key])
    BY <2>1, <2>3 DEF IsQuoted
  <2> QED
    BY <2>2, <2>4 DEF QuoteInv, IsQuoted, Billable
<1>5. CASE DropStep
  <2>1. /\ \A g \in Formats : steps'[g] = IF g = Dropped THEN NoStep ELSE steps[g]
        /\ Billable(steps') = Billable(steps) \ {Dropped}
    BY <1>5, DropFacts
  <2>2. UNCHANGED <<kept, todo, price, moves>>
    BY <1>5 DEF DropStep
  <2>3. ASSUME NEW f \in Billable(steps') \ todo' PROVE IsQuoted(steps, f)'
    <3>1. f \in Billable(steps) \ todo /\ steps'[f] = steps[f]
      BY <2>1, <2>2 DEF Billable
    <3> QED
      BY <2>2, <3>1 DEF QuoteInv, IsQuoted
  <2> QED
    BY <2>2, <2>3 DEF QuoteInv, IsQuoted
<1>6. CASE Conclude
  <2>1. /\ steps \in [Formats -> PlanStep] /\ StepsOK(steps) /\ steps' = WithText(steps)
        /\ UNCHANGED <<kept, todo, price, moves>>
    BY <1>6 DEF TypeInv, PlanningTypeOK, Conclude, Final
  <2>2. /\ \A g \in Formats :
             \/ steps'[g] = steps[g]
             \/ (g = Text /\ steps[g].kind = "none" /\ steps'[g].kind = "local")
        /\ Billable(steps') = Billable(steps)
    BY <2>1, PutIn
  <2>3. ASSUME NEW f \in Billable(steps') \ todo' PROVE IsQuoted(steps, f)'
    <3>1. f \in Billable(steps) \ todo /\ steps'[f] = steps[f]
      BY <2>1, <2>2 DEF Billable
    <3> QED
      BY <2>1, <3>1 DEF QuoteInv, IsQuoted
  <2> QED
    BY <2>1, <2>3 DEF QuoteInv, IsQuoted
<1> QED
  BY <1>1, <1>2, <1>3, <1>4, <1>5, <1>6
  DEF PlanningNext, CreatePlan, Begin, Fit, CheckLinks, MediaStep, planVars, vars

\* Every step of a saved plan that will be billed was quoted, at what the platform last
\* asked for that very model (_price_steps, plan_service.py:268-327, and the first draft
\* _replan_with_exact_prices returns).
THEOREM PlanIsQuotedHolds == PlanningSpec => []PlanIsQuoted
<1>1. TypeInv /\ QuoteInv => PlanIsQuoted
  BY DEF TypeInv, TodoOK, QuoteInv, IsQuoted, PlanIsQuoted
<1> QED
  BY <1>1, TypeInit, TypeStep, QuoteInit, QuoteStep, PTL DEF PlanningSpec

-----------------------------------------------------------------------------
(* Priorities.                                                             *)

\* The formats that have a candidate at all, whatever the prices.
Offered == {f \in Formats : f \in request.brief.formats /\ Usable(f) # {}}

\* Nothing before a format of S is missing from it.
FromTheTop(S) == \A f \in S, g \in Offered : g < f => g \in S

PriorityInv ==
  /\ pc # "idle" => \A f \in Formats : offer[f] # {} => f \in Offered
  /\ FromTheTop(Selected)
  /\ refused = {} => FromTheTop(Billable(steps)) /\ FromTheTop(Billable(kept))

LEMMA PriorityInit == PlanningInit => PriorityInv
BY DEF PlanningInit, PlannerInit, PriorityInv, FromTheTop, Selected, Billable, NoStep

\* A build offers and selects all that is offered.
LEMMA PriorityBuild ==
  ASSUME TypeInv, NEW exact \in ExactPrices, StartBuild(exact)
  PROVE  /\ request' = request
         /\ \A f \in Formats : offer'[f] # {} => f \in Offered
         /\ FromTheTop(Selected)'
<1>1. request \in Requests
  BY DEF TypeInv, PlanningTypeOK, PlannerTypeOK
<1>2. /\ request' = request
      /\ offer' \in [Formats -> SUBSET Candidate]
      /\ \A f \in Formats :
           /\ offer'[f] = IF f \in request.brief.formats THEN Candidates(f, exact) ELSE {}
           /\ IF offer'[f] = {} THEN choice'[f] = NoChoice ELSE choice'[f] \in offer'[f]
  BY <1>1, BuildFacts
<1>3. \A f \in Formats : Candidates(f, exact) = {} <=> Usable(f) = {}
  BY <1>1, CandidatesType
<1>4. \A f \in Formats : offer'[f] # {} <=> f \in Offered
  BY <1>2, <1>3 DEF Offered
<1>5. \A f \in Formats : choice'[f] # NoChoice <=> f \in Offered
  BY <1>2, <1>4, NoCandidate
<1>6. Selected' = Offered /\ Offered' = Offered
  BY <1>2, <1>5 DEF Selected, Offered, Usable
<1> QED
  BY <1>2, <1>4, <1>6 DEF FromTheTop

LEMMA PriorityStep == TypeInv /\ PriorityInv /\ [PlanningNext]_vars => PriorityInv'
<1> SUFFICES ASSUME TypeInv, PriorityInv, [PlanningNext]_vars PROVE PriorityInv'
  OBVIOUS
<1>0. request' = request
  BY DEF PlanningNext, CreatePlan, Begin, Fit, Draft, CheckLinks, PriceStep, Priced, Repriced,
         DropStep, Conclude, MediaStep, vars, plannerVars, StartBuild, FitStep, DropFormat,
         BaselineFits, UpgradeFormat, PassFormat, EndRound
<1>1. Offered' = Offered
  BY <1>0 DEF Offered, Usable
<1>2. CASE UNCHANGED <<pc, offer, choice, steps, kept, refused>>
  BY <1>1, <1>2 DEF PriorityInv, FromTheTop, Selected, Billable
<1>3. CASE Begin
  <2>1. StartBuild(NothingExact) /\ UNCHANGED <<steps, kept, refused>>
    BY <1>3 DEF Begin
  <2>2. /\ \A f \in Formats : offer'[f] # {} => f \in Offered
        /\ FromTheTop(Selected)'
    BY <2>1, PriorityBuild, ExactType
  <2> QED
    BY <1>1, <2>1, <2>2 DEF PriorityInv, FromTheTop, Billable
<1>4. CASE Fit
  <2>1. /\ UNCHANGED <<pc, offer, steps, kept, refused>> /\ pc = "plan" /\ FitStep
    BY <1>4, TypeFit DEF Fit, planVars
  <2>2. FromTheTop(Selected)'
    <3>1. CASE DropFormat
      <4>1. Selected \subseteq Formats /\ Selected # {}
        BY <3>1 DEF DropFormat, Selected
      <4>2. Victim(Selected) \in Selected /\ \A f \in Selected : f <= Victim(Selected)
        BY <4>1, GreatestFormat DEF Victim
      <4>3. Selected' = Selected \ {Victim(Selected)}
        BY <3>1, <4>1, <4>2 DEF DropFormat, Selected, TypeInv, PlanningTypeOK, PlannerTypeOK
      <4> QED
        BY <1>1, <4>1, <4>2, <4>3 DEF PriorityInv, FromTheTop, Offered
    <3>2. CASE UpgradeFormat
      <4>1. /\ choice \in [Formats -> Candidate \cup {NoChoice}]
            /\ offer \in [Formats -> SUBSET Candidate]
        BY DEF TypeInv, PlanningTypeOK, PlannerTypeOK
      <4>2. fit.at \in Formats /\ choice[fit.at] # NoChoice
        BY <3>2 DEF UpgradeFormat, Selected
      <4>3. \/ choice' = choice
            \/ \E c \in offer[fit.at] : choice' = [choice EXCEPT ![fit.at] = c]
        BY <3>2 DEF UpgradeFormat, Better
      <4>4. Selected' = Selected
        BY <4>1, <4>2, <4>3, NoCandidate DEF Selected
      <4> QED
        BY <1>1, <4>4 DEF PriorityInv, FromTheTop
    <3>3. CASE BaselineFits \/ PassFormat \/ EndRound
      BY <1>1, <3>3 DEF BaselineFits, PassFormat, EndRound, PriorityInv, FromTheTop, Selected
    <3> QED
      BY <2>1, <3>1, <3>2, <3>3 DEF FitStep
  <2> QED
    BY <1>1, <2>1, <2>2 DEF PriorityInv, FromTheTop, Billable
<1>5. CASE Draft
  <2>1. UNCHANGED <<offer, choice, kept, refused>> /\ pc = "plan"
    BY <1>5 DEF Draft, plannerVars
  <2>2. Billable(steps') = Selected
    BY <1>5, DraftFacts DEF Billable, Selected
  <2> QED
    BY <1>1, <2>1, <2>2 DEF PriorityInv, FromTheTop, Selected, Billable
<1>6. CASE CheckLinks
  BY <1>1, <1>6 DEF CheckLinks, plannerVars, PriorityInv, FromTheTop, Selected, Billable
<1>7. CASE PriceStep
  <2>1. UNCHANGED <<pc, offer, choice, kept>> /\ pc = "price"
    BY <1>7 DEF PriceStep, plannerVars
  <2> USE DEF Outcome, Answered
  <2>2. PICK f \in todo : Outcome(f)
    BY <1>7, PriceFacts
  <2>3. refused' = {} => refused = {} /\ Billable(steps') = Billable(steps)
    <3>1. CASE Refuse(f)
      BY <3>1 DEF Refuse
    <3>2. ASSUME refused' = refused, NEW cost \in Nat,
                 steps' = [steps EXCEPT ![f] = Quoted(f, cost)]
          PROVE  refused' = {} => refused = {} /\ Billable(steps') = Billable(steps)
      BY <2>2, <3>2, Repaid
    <3> QED
      BY <2>2, <3>1, <3>2
  <2> QED
    BY <1>1, <2>1, <2>3 DEF PriorityInv, FromTheTop, Selected, Billable
<1>8. CASE Priced \/ Repriced
  <2>1. /\ pc = "price" /\ refused' = refused
        /\ steps' \in {steps, kept} /\ kept' \in {steps, kept}
    BY <1>8 DEF Priced, Repriced
  <2>2. /\ \A f \in Formats : offer'[f] # {} => f \in Offered
        /\ FromTheTop(Selected)'
    <3>1. CASE UNCHANGED plannerVars
      BY <1>1, <2>1, <3>1 DEF plannerVars, PriorityInv, FromTheTop, Selected
    <3>2. CASE StartBuild(Exact(steps))
      BY <3>2, PriorityBuild, ExactType
    <3> QED
      BY <1>8, <3>1, <3>2 DEF Priced, Repriced
  <2>3. refused = {} => \A x \in {steps, kept} : FromTheTop(Billable(x))
    BY DEF PriorityInv
  <2>4. refused' = {} => FromTheTop(Billable(steps')) /\ FromTheTop(Billable(kept'))
    BY <2>1, <2>3
  <2> QED
    BY <1>1, <2>2, <2>4 DEF PriorityInv, FromTheTop, Billable
<1>9. CASE DropStep \/ Conclude
  <2>1. UNCHANGED <<offer, choice, kept, refused>> /\ pc = "fit"
    BY <1>9 DEF DropStep, Conclude, plannerVars
  <2>2. refused = {} => FromTheTop(Billable(steps'))
    <3>1. CASE DropStep
      <4>1. /\ Dropped \in Billable(steps) /\ \A f \in Billable(steps) : f <= Dropped
            /\ Billable(steps') = Billable(steps) \ {Dropped}
        BY <3>1, DropFacts
      <4>2. Billable(steps) \subseteq Formats
        BY DEF Billable
      <4> QED
        BY <4>1, <4>2 DEF PriorityInv, FromTheTop, Offered
    <3>2. CASE Conclude
      <4>1. /\ steps \in [Formats -> PlanStep] /\ StepsOK(steps) /\ steps' = WithText(steps)
        BY <3>2 DEF TypeInv, PlanningTypeOK, Conclude, Final
      <4>2. Billable(steps') = Billable(steps)
        BY <4>1, PutIn
      <4> QED
        BY <4>2 DEF PriorityInv
    <3> QED
      BY <1>9, <3>1, <3>2
  <2> QED
    BY <1>1, <2>1, <2>2 DEF PriorityInv, FromTheTop, Selected, Billable
<1> QED
  BY <1>2, <1>3, <1>4, <1>5, <1>6, <1>7, <1>8, <1>9
  DEF PlanningNext, CreatePlan, MediaStep, plannerVars, planVars, vars

\* Where no quote was refused, no format is paid for while one before it that had a
\* candidate is not (plan_service.py:329-396).
THEOREM PriorityIsKeptHolds == PlanningSpec => []PriorityIsKept
<1>1. PriorityInv => PriorityIsKept
  BY DEF PriorityInv, PriorityIsKept, FromTheTop
<1> QED
  BY <1>1, TypeInit, TypeStep, PriorityInit, PriorityStep, PTL DEF PlanningSpec

-----------------------------------------------------------------------------
(* The saved plan.                                                         *)

LEMMA SameSize ==
  ASSUME NEW S \in SUBSET Formats, NEW T \in SUBSET S, ~(Cardinality(T) < Cardinality(S))
  PROVE  T = S
<1>1. IsFiniteSet(Formats)
  <2>1. 1 \in Int /\ 5 \in Int
    OBVIOUS
  <2> QED
    BY <2>1, FS_Interval, Zenon
<1>2. IsFiniteSet(S)
  BY <1>1, FS_Subset
<1>3. /\ Cardinality(T) <= Cardinality(S)
      /\ Cardinality(S) = Cardinality(T) => S = T
  BY <1>2, FS_Subset
<1>4. Cardinality(S) \in Nat /\ Cardinality(T) \in Nat
  BY <1>2, FS_Subset, FS_CardinalityType
<1> QED
  BY <1>3, <1>4

DoneInv ==
  /\ pc = "done" => /\ Total(steps) <= Spendable
                    /\ Text \in request.brief.formats => steps[Text].kind # "none"
  /\ status # "none" => pc = "done"
  /\ status = "ready" => ~cut /\ ~overrun /\ Present(steps) = request.brief.formats

LEMMA DoneInit == PlanningInit => DoneInv
BY DEF PlanningInit, DoneInv

LEMMA Concluded ==
  ASSUME TypeInv, Conclude
  PROVE  /\ Total(steps') <= Spendable
         /\ Text \in request.brief.formats => steps'[Text].kind # "none"
         /\ status' = "ready" => ~cut /\ ~overrun /\ Present(steps') = request.brief.formats
<1>1. /\ steps \in [Formats -> PlanStep] /\ StepsOK(steps) /\ steps' = WithText(steps)
      /\ request.brief.formats \subseteq Formats
  BY RequestType DEF TypeInv, PlanningTypeOK, PlannerTypeOK, Conclude, Final
<1>2. /\ StepsOK(steps') /\ Total(steps') = Total(steps)
      /\ Text \in request.brief.formats => steps'[Text].kind # "none"
      /\ steps' \in [Formats -> PlanStep]
  BY <1>1, PutIn
<1>3. Total(steps) <= Spendable
  <2>1. CASE Billable(steps) = {}
    <3>1. \A f \in Formats : steps[f].cost = 0
      BY <1>1, <2>1 DEF Billable, StepsOK
    <3> QED
      BY <3>1, EnvelopeIsAmount DEF Total
  <2>2. \A f \in Formats : steps[f].cost \in Nat
    BY <1>1 DEF PlanStep
  <2>3. Total(steps) \in Int /\ Spendable \in Int
    BY <2>2, EnvelopeIsAmount DEF Total
  <2> QED
    BY <2>1, <2>3 DEF Conclude, TooDear
<1>4. ASSUME status' = "ready"
      PROVE  ~cut /\ ~overrun /\ Present(steps') = request.brief.formats
  <2>1. /\ ~cut /\ ~overrun
        /\ ~(Cardinality(Present(steps')) < Cardinality(request.brief.formats))
    BY <1>4 DEF Conclude, StatusOf
  <2>2. Present(steps') \subseteq request.brief.formats
    <3>1. ASSUME NEW f \in Present(steps') PROVE f \in request.brief.formats
      <4>1. f \in Formats /\ steps'[f].kind \in {"generation", "local"}
        BY <1>2 DEF Present, PlanStep
      <4> QED
        BY <1>2, <4>1 DEF StepsOK
    <3> QED
      BY <3>1
  <2>3. Present(steps') = request.brief.formats
    BY <1>1, <2>1, <2>2, SameSize
  <2> QED
    BY <2>1, <2>3
<1> QED
  BY <1>2, <1>3, <1>4

LEMMA DoneStep == TypeInv /\ DoneInv /\ [PlanningNext]_vars => DoneInv'
<1> SUFFICES ASSUME TypeInv, DoneInv, [PlanningNext]_vars PROVE DoneInv'
  OBVIOUS
<1>1. CASE Conclude
  <2>1. pc' = "done" /\ UNCHANGED <<request, cut, overrun>>
    BY <1>1 DEF Conclude, plannerVars
  <2> QED
    BY <1>1, <2>1, Concluded DEF DoneInv, Present
<1>2. CASE MediaStep \/ UNCHANGED vars
  <2>1. UNCHANGED <<request, pc, steps, status, cut, overrun>>
    BY <1>2 DEF MediaStep, plannerVars, planVars, vars
  <2> QED
    BY <2>1 DEF DoneInv, Present
<1>3. CASE Begin \/ Fit \/ Draft \/ CheckLinks \/ PriceStep \/ Priced \/ Repriced \/ DropStep
  <2>1. pc # "done" /\ pc' # "done" /\ status' = status
    BY <1>3
    DEF Begin, Fit, Draft, CheckLinks, PriceStep, Priced, Repriced, DropStep, planVars
  <2> QED
    BY <2>1 DEF DoneInv
<1> QED
  BY <1>1, <1>2, <1>3 DEF PlanningNext, CreatePlan

\* A saved plan fits the envelope at the prices the platform confirmed
\* (_drop_until_affordable, plan_service.py:376-396).
THEOREM PlanFitsHolds == PlanningSpec => []PlanFits
<1>1. DoneInv => PlanFits
  BY DEF DoneInv, PlanFits
<1> QED
  BY <1>1, TypeInit, TypeStep, DoneInit, DoneStep, PTL DEF PlanningSpec

\* A text that was asked for is in the saved plan (plan_service.py:177-186).
THEOREM TextIsDeliveredHolds == PlanningSpec => []TextIsDelivered
<1>1. DoneInv => TextIsDelivered
  BY DEF DoneInv, TextIsDelivered
<1> QED
  BY <1>1, TypeInit, TypeStep, DoneInit, DoneStep, PTL DEF PlanningSpec

\* A plan that calls itself READY has every format of the brief and lost nothing on the
\* way (plan_service.py:188-195).
THEOREM ReadyIsCompleteHolds == PlanningSpec => []ReadyIsComplete
<1>1. DoneInv => ReadyIsComplete
  BY DEF DoneInv, ReadyIsComplete
<1> QED
  BY <1>1, TypeInit, TypeStep, DoneInit, DoneStep, PTL DEF PlanningSpec

-----------------------------------------------------------------------------
(* The catalogue is enough.                                                *)

\* The catalogue prices the whole brief, and the platform keeps to one price.
AllPriced ==
  moves = 0 /\ \A f \in request.brief.formats : \A c \in Candidates(f, NothingExact) : c.known

LEMMA CandidatesStay ==
  ASSUME request' = request
  PROVE  /\ \A f \in Formats : Candidates(f, NothingExact)' = Candidates(f, NothingExact)
         /\ moves' = moves => AllPriced' = AllPriced
         /\ AllPriced' /\ moves = 0 => AllPriced
<1>1. \A f \in Formats : Candidates(f, NothingExact)' = Candidates(f, NothingExact)
  BY SMTT(30) DEF Candidates, Usable, PriceOf, NothingExact
<1>2. \A f \in request.brief.formats :
        Candidates(f, NothingExact)' = Candidates(f, NothingExact)
  BY SMTT(30) DEF Candidates, Usable, PriceOf, NothingExact
<1> QED
  BY <1>1, <1>2 DEF AllPriced

\* What the planner took a step at.
Bound(f) == Upper(request.catalogue[f][steps[f].key], f, request.brief)

EnoughInv ==
  AllPriced =>
    /\ pass = 1 /\ ~overrun
    /\ pc = "plan" => \A f \in Formats : offer[f] \subseteq Candidates(f, NothingExact)
    /\ \A f \in Formats : \A k \in 1..Len(request.catalogue[f]) :
         price[f][k] # NoPrice =>
           price[f][k] \in Bills(request.catalogue[f][k], f, request.brief)
    /\ pc \notin {"idle", "plan"} => Total(steps) <= Spendable
    /\ \A f \in todo : Bound(f) # NoPrice /\ steps[f].cost = Bound(f)

LEMMA EnoughInit == PlanningInit => EnoughInv
<1> SUFFICES ASSUME PlanningInit PROVE EnoughInv
  OBVIOUS
<1>1. pass = 1 /\ overrun = FALSE /\ pc = "idle" /\ todo = {}
  BY DEF PlanningInit
<1>2. \A f \in Formats : \A k \in 1..MaxModels : price[f][k] = NoPrice
  BY DEF PlanningInit
<1>3. request \in Requests
  BY DEF PlanningInit, PlannerInit
<1>4. \A f \in Formats : \A k \in 1..Len(request.catalogue[f]) : k \in 1..MaxModels
  BY <1>3, RequestType
<1> QED
  BY <1>1, <1>2, <1>4 DEF EnoughInv

\* What a draft asks for is priced, and billed at most at that.
LEMMA BillFits ==
  ASSUME TypeInv, EnoughInv, AllPriced, NEW f \in todo, NEW cost \in Asked(f, steps[f].key)
  PROVE  cost <= steps[f].cost
<1>1. f \in Billable(steps) /\ f \in Formats
  BY DEF TypeInv, PlanningTypeOK, TodoOK
<1> DEFINE k == steps[f].key
           spec == request.catalogue[f][k]
<1>2. k \in 1..Len(request.catalogue[f]) /\ spec \in ModelSpec
  BY <1>1, AskedType
<1>3. request \in Requests /\ request.brief \in BriefOf(Urls)
  BY RequestType DEF TypeInv, PlanningTypeOK, PlannerTypeOK
<1>4. spec.hi # 0 => spec.lo <= spec.hi
  BY <1>1, <1>2, <1>3, PlannerAssumption
<1>5. cost \in Bills(spec, f, request.brief)
  BY <1>1, <1>2 DEF Asked, EnoughInv
<1>6. Upper(spec, f, request.brief) # NoPrice /\ steps[f].cost = Upper(spec, f, request.brief)
  BY DEF EnoughInv, Bound
<1> HIDE DEF spec
<1> QED
  BY <1>1, <1>2, <1>3, <1>4, <1>5, <1>6, UpperIsEnough

LEMMA EnoughPrice ==
  ASSUME TypeInv, EnoughInv, PriceStep
  PROVE  EnoughInv'
<1>1. /\ UNCHANGED <<request, pass, overrun, pc>> /\ pc = "price"
      /\ request \in Requests
  BY DEF PriceStep, plannerVars, TypeInv, PlanningTypeOK, PlannerTypeOK
<1> USE DEF Outcome, Answered
<1>2. PICK f \in todo : Outcome(f)
  BY PriceFacts
<1>0. /\ steps \in [Formats -> PlanStep] /\ StepsOK(steps) /\ moves \in Nat
      /\ price \in [Formats -> [1..MaxModels -> Nat \cup {NoPrice}]]
      /\ todo \subseteq Formats
  BY PlanningAssumption DEF TypeInv, PlanningTypeOK
<1>7. \A g \in Formats : steps[g].cost \in Nat
  BY <1>0 DEF PlanStep
<1>4. Total(steps) \in Int /\ Spendable \in Int /\ steps[f].cost \in Nat
  <2>1. Total(steps) \in Int
    BY <1>7 DEF Total
  <2> QED
    BY <1>2, <1>7, <2>1, EnvelopeIsAmount
<1>3. /\ todo \subseteq Formats /\ moves \in Nat
      /\ price \in [Formats -> [1..MaxModels -> Nat \cup {NoPrice}]]
  BY <1>0
<1>5. CASE Refuse(f)
  <2>1. /\ steps' = [steps EXCEPT ![f] = NoStep] /\ UNCHANGED <<price, moves>>
    BY <1>5 DEF Refuse
  <2>2. /\ \A g \in Formats : steps'[g] = IF g = f THEN NoStep ELSE steps[g]
        /\ Total(steps') = Total(steps) - steps[f].cost
    <3>1. f \in Formats /\ steps \in [Formats -> PlanStep] /\ StepsOK(steps)
      BY <1>0, <1>2
    <3> QED
      BY <2>1, <3>1, LeftOut
  <2>3. AllPriced' = AllPriced
    BY <1>1, <2>1, CandidatesStay
  <2>4. ASSUME AllPriced PROVE Total(steps') <= Spendable
    <3>1. Total(steps) <= Spendable
      BY <1>1, <2>4 DEF EnoughInv
    <3> QED
      BY <1>4, <2>2, <3>1
  <2>5. \A g \in todo' : steps'[g] = steps[g] /\ Bound(g)' = Bound(g)
    BY <1>1, <1>2, <1>3, <2>2 DEF Bound
  <2> QED
    BY <1>1, <1>2, <2>1, <2>3, <2>4, <2>5 DEF EnoughInv
<1>6. ASSUME NEW cost \in Nat, Answered(f, cost)
      PROVE  EnoughInv'
  <2>1. /\ \A g \in Formats : g # f => steps'[g] = steps[g]
        /\ Total(steps') = Total(steps) - steps[f].cost + cost
    BY <1>2, <1>6, Repaid
  <2>2. steps[f].key \in 1..MaxModels
    BY <1>2, AskedType
  <2>3. /\ price'[f][steps[f].key] = cost
        /\ \A g \in Formats : g # f => price'[g] = price[g]
        /\ \A k \in 1..MaxModels : k # steps[f].key => price'[f][k] = price[f][k]
    BY <1>2, <1>3, <1>6, <2>2
  <2>4. ASSUME AllPriced'
        PROVE  AllPriced /\ cost \in Asked(f, steps[f].key)
    <3>1. moves' = 0
      BY <2>4 DEF AllPriced
    <3>2. moves = 0 /\ cost \in Asked(f, steps[f].key)
      BY <1>3, <1>6, <3>1, PlanningAssumption
    <3> QED
      BY <1>1, <2>4, <3>2, CandidatesStay
  <2>5. ASSUME AllPriced' PROVE Total(steps') <= Spendable
    <3>1. cost <= steps[f].cost
      BY <2>4, <2>5, BillFits
    <3>2. Total(steps) <= Spendable
      BY <1>1, <2>4, <2>5 DEF EnoughInv
    <3> QED
      BY <1>4, <2>1, <3>1, <3>2
  <2>6. \A g \in todo' : steps'[g] = steps[g] /\ Bound(g)' = Bound(g)
    BY <1>1, <1>2, <1>3, <2>1 DEF Bound
  <2>7. ASSUME AllPriced', NEW g \in Formats, NEW k \in 1..Len(request.catalogue[g]),
               price'[g][k] # NoPrice
        PROVE  price'[g][k] \in Bills(request.catalogue[g][k], g, request.brief)
    <3>1. k \in 1..MaxModels
      BY <1>1, RequestType
    <3>2. CASE g = f /\ k = steps[f].key
      <4>1. cost \in Asked(f, steps[f].key)
        BY <2>4, <2>7
      <4>2. cost \in Bills(request.catalogue[f][k], f, request.brief)
        BY <2>4, <2>7, <3>2, <4>1 DEF Asked, EnoughInv
      <4> QED
        BY <2>3, <3>2, <4>2
    <3>3. CASE ~(g = f /\ k = steps[f].key)
      <4>1. price'[g][k] = price[g][k]
        BY <2>3, <3>1, <3>3
      <4> QED
        BY <2>4, <2>7, <4>1 DEF EnoughInv
    <3> QED
      BY <3>2, <3>3
  <2> QED
    BY <1>1, <1>2, <2>4, <2>5, <2>6, <2>7 DEF EnoughInv
<1> QED
  BY <1>2, <1>5, <1>6

LEMMA EnoughDraft ==
  ASSUME TypeInv, UpgradesFit, EnoughInv, Draft
  PROVE  EnoughInv'
<1>1. /\ UNCHANGED <<request, offer, choice, pass, overrun, price, moves>>
      /\ pc = "plan" /\ fit.stage = "ready" /\ pc' # "plan" /\ todo' = Billable(steps')
      /\ request \in Requests
  BY DEF Draft, plannerVars, TypeInv, PlanningTypeOK, PlannerTypeOK
<1>2. /\ \A f \in Formats :
           IF choice[f] = NoChoice THEN steps'[f].kind # "generation"
           ELSE /\ steps'[f].kind = "generation" /\ steps'[f].key = choice[f].key
                /\ steps'[f].cost = choice[f].cost
      /\ Total(steps') = Total(choice)
  BY DraftFacts
<1>3. AllPriced' = AllPriced
  BY <1>1, CandidatesStay
<1>4. Total(steps') <= Spendable
  BY <1>1, <1>2 DEF UpgradesFit
<1>5. ASSUME AllPriced, NEW f \in todo'
      PROVE  Bound(f)' # NoPrice /\ steps'[f].cost = Bound(f)'
  <2>1. /\ f \in Formats /\ choice[f] # NoChoice
        /\ steps'[f].key = choice[f].key /\ steps'[f].cost = choice[f].cost
    BY <1>1, <1>2 DEF Billable
  <2>2. choice[f] \in Candidates(f, NothingExact) /\ f \in request.brief.formats
    BY <1>1, <1>5, <2>1 DEF EnoughInv, TypeInv, ChoiceOK, OfferOK
  <2>3. choice[f].known /\ choice[f].key # 0
    BY <1>5, <2>1, <2>2 DEF AllPriced, TypeInv, ChoiceOK, OfferOK
  <2>4. \E k \in Usable(f) :
          /\ PriceOf(f, k, NothingExact) # NoPrice
          /\ choice[f].key = k /\ choice[f].cost = PriceOf(f, k, NothingExact)
    BY <2>2, <2>3 DEF Candidates
  <2>5. PriceOf(f, choice[f].key, NothingExact)
          = Upper(request.catalogue[f][choice[f].key], f, request.brief)
    BY <2>1, <2>3 DEF PriceOf, NothingExact
  <2> QED
    BY <1>1, <2>1, <2>4, <2>5 DEF Bound
<1> QED
  BY <1>1, <1>3, <1>4, <1>5 DEF EnoughInv

LEMMA EnoughRest ==
  ASSUME TypeInv, EnoughInv, CheckLinks \/ Priced \/ Repriced \/ DropStep \/ Conclude
  PROVE  EnoughInv'
<1>1. /\ request' = request /\ UNCHANGED <<price, moves>>
      /\ steps \in [Formats -> PlanStep] /\ StepsOK(steps)
  BY DEF CheckLinks, Priced, Repriced, DropStep, Conclude, plannerVars, StartBuild, TypeInv,
         PlanningTypeOK
<1>2. AllPriced' = AllPriced
  BY <1>1, CandidatesStay
<1>3. Total(steps) \in Int /\ Spendable \in Int
  <2>1. \A f \in Formats : steps[f].cost \in Int
    BY <1>1 DEF PlanStep
  <2> QED
    BY <2>1, EnvelopeIsAmount DEF Total
<1>4. ASSUME AllPriced
      PROVE  /\ pass' = 1 /\ overrun' = overrun /\ ~overrun
             /\ pc' \notin {"idle", "plan"} /\ Total(steps') <= Spendable
             /\ steps' = steps \/ todo = {}
             /\ todo' = todo
  <2>1. pass = 1 /\ ~overrun /\ (pc \notin {"idle", "plan"} => Total(steps) <= Spendable)
    BY <1>4 DEF EnoughInv
  <2>2. CASE CheckLinks
    BY <2>1, <2>2 DEF CheckLinks
  <2>3. CASE Priced
    BY <1>3, <2>1, <2>3 DEF Priced
  <2>4. CASE Repriced
    BY <2>1, <2>4 DEF Repriced
  <2>5. CASE DropStep
    BY <1>3, <2>1, <2>5 DEF DropStep, TooDear
  <2>6. CASE Conclude
    <3>1. /\ pc = "fit" /\ pc' = "done" /\ steps' = WithText(steps)
          /\ UNCHANGED <<pass, overrun, todo>>
      BY <2>6 DEF Conclude, Final
    <3>2. Total(steps') = Total(steps)
      BY <1>1, <3>1, PutIn
    <3>3. todo = {}
      BY <3>1 DEF TypeInv, TodoOK
    <3> QED
      BY <2>1, <3>1, <3>2, <3>3
  <2> QED
    BY <2>2, <2>3, <2>4, <2>5, <2>6
<1>5. ASSUME AllPriced, NEW f \in todo' PROVE Bound(f)' # NoPrice /\ steps'[f].cost = Bound(f)'
  <2>1. f \in todo /\ steps' = steps
    BY <1>4, <1>5
  <2> QED
    BY <1>1, <1>5, <2>1 DEF EnoughInv, Bound
<1> QED
  BY <1>1, <1>2, <1>4, <1>5 DEF EnoughInv

LEMMA EnoughStep == TypeInv /\ UpgradesFit /\ EnoughInv /\ [PlanningNext]_vars => EnoughInv'
<1> SUFFICES ASSUME TypeInv, UpgradesFit, EnoughInv, [PlanningNext]_vars PROVE EnoughInv'
  OBVIOUS
<1>1. CASE Begin
  <2>1. /\ UNCHANGED <<pass, overrun, price, moves, todo, steps>> /\ pc = "idle" /\ pc' = "plan"
        /\ StartBuild(NothingExact)
    BY <1>1 DEF Begin
  <2>2. /\ request' = request
        /\ \A f \in Formats :
             offer'[f] = IF f \in request.brief.formats THEN Candidates(f, NothingExact) ELSE {}
    BY <2>1, BuildFacts, ExactType DEF TypeInv, PlanningTypeOK, PlannerTypeOK
  <2>3. /\ AllPriced' = AllPriced
        /\ \A f \in Formats : Candidates(f, NothingExact)' = Candidates(f, NothingExact)
    BY <2>1, <2>2, CandidatesStay
  <2>4. todo = {}
    BY <2>1 DEF TypeInv, TodoOK
  <2> QED
    BY <2>1, <2>2, <2>3, <2>4 DEF EnoughInv
<1>2. CASE Fit \/ MediaStep \/ UNCHANGED vars
  <2>1. UNCHANGED <<request, offer, pc, pass, overrun, price, moves, todo, steps>>
    BY <1>2, TypeFit DEF Fit, MediaStep, plannerVars, planVars, vars
  <2>2. /\ AllPriced' = AllPriced
        /\ \A f \in Formats : Candidates(f, NothingExact)' = Candidates(f, NothingExact)
    BY <2>1, CandidatesStay
  <2> QED
    BY <2>1, <2>2 DEF EnoughInv, Bound
<1>3. CASE Draft
  BY <1>3, EnoughDraft
<1>4. CASE PriceStep
  BY <1>4, EnoughPrice
<1>5. CASE CheckLinks \/ Priced \/ Repriced \/ DropStep \/ Conclude
  BY <1>5, EnoughRest
<1> QED
  BY <1>1, <1>2, <1>3, <1>4, <1>5 DEF PlanningNext, CreatePlan

\* The catalogue is rounded up far enough: when it prices the whole brief and no price
\* moves, the first draft fits as it is (capabilities.py:198-274).
THEOREM CatalogueIsEnoughHolds == PlanningSpec => []CatalogueIsEnough
<1>1. EnoughInv => CatalogueIsEnough
  BY DEF EnoughInv, AllPriced, CatalogueIsEnough
<1> QED
  BY <1>1, TypeInit, TypeStep, FitInit, FitKept, EnoughInit, EnoughStep, PTL
  DEF PlanningSpec
-----------------------------------------------------------------------------
(* The draft is the best.  A build goes from the cheapest of every format  *)
(* to the result in three stages, and at each the invariant says what is   *)
(* settled: no format dropped could have stayed; no format passed in the   *)
(* first round could have a model it prefers, if those after it took their *)
(* cheapest - and what they take later leaves it less.                     *)

\* The order of preference and the cheapest refer to the keys of the catalogue.
KeysDiffer == \A f \in Formats : \A c, d \in offer[f] : c.key = d.key => c = d

Offering == {f \in Formats : offer[f] # {}}
Base == [f \in Formats |-> IF f \in Offering THEN Cheapest(offer[f]) ELSE NoChoice]
BaseUpTo(n) == Total([f \in Formats |-> IF f <= n THEN Base[f] ELSE NoChoice])

Dropping ==
  /\ fit.at = 1 /\ fit.round = 1 /\ ~fit.changed
  /\ \A f \in Selected : choice[f] = Base[f]
  /\ \A f \in Selected, g \in Offering : g < f => g \in Selected
  /\ \A f \in Offering \ Selected : BaseUpTo(f) > Spendable

Settled(f) == \A c \in offer[f] : Prefers(c, choice[f]) => WithLeast(f, c) > Spendable

Upgrading ==
  /\ fit.round \in 1..2 /\ request.brief.strategy # "cheapest"
  /\ fit.round = 1 =>
       \A f \in Selected : IF f < fit.at THEN Settled(f) ELSE choice[f] = Base[f]
  /\ fit.round = 2 => ~fit.changed /\ \A f \in Selected : Settled(f)

Chosen ==
  /\ fit.round = 2 => ~fit.changed
  /\ \A f \in Selected :
       IF request.brief.strategy = "cheapest" THEN choice[f] = Base[f] ELSE Settled(f)

\* No format was dropped that could have stayed beside those before it.
DroppedInVain == Selected = {f \in Offering : BaseUpTo(f) <= Spendable}

BestInv ==
  /\ KeysDiffer
  /\ fit.stage = "drop" => Dropping
  /\ fit.stage = "upgrade" => Upgrading
  /\ fit.stage = "ready" => Chosen
  /\ fit.stage # "drop" => DroppedInVain

\* Sums over the formats.
LEMMA TotalGrows ==
  ASSUME NEW x, NEW y, \A f \in Formats : x[f].cost \in Nat /\ y[f].cost \in Nat,
         \A f \in Formats : x[f].cost <= y[f].cost
  PROVE  Total(x) \in Nat /\ Total(y) \in Nat /\ Total(x) <= Total(y)
<1>1. /\ x[1].cost \in Nat /\ y[1].cost \in Nat /\ x[1].cost <= y[1].cost
      /\ x[2].cost \in Nat /\ y[2].cost \in Nat /\ x[2].cost <= y[2].cost
      /\ x[3].cost \in Nat /\ y[3].cost \in Nat /\ x[3].cost <= y[3].cost
      /\ x[4].cost \in Nat /\ y[4].cost \in Nat /\ x[4].cost <= y[4].cost
      /\ x[5].cost \in Nat /\ y[5].cost \in Nat /\ x[5].cost <= y[5].cost
  OBVIOUS
<1> QED
  BY <1>1 DEF Total

LEMMA TotalChanges ==
  ASSUME NEW x, NEW y, \A f \in Formats : x[f].cost \in Nat /\ y[f].cost \in Nat,
         NEW f \in Formats, \A g \in Formats : g # f => x[g].cost = y[g].cost
  PROVE  /\ Total(x) \in Nat /\ Total(y) \in Nat
         /\ Total(y) = Total(x) - x[f].cost + y[f].cost
<1>1. /\ x[1].cost \in Nat /\ y[1].cost \in Nat /\ (1 # f => x[1].cost = y[1].cost)
      /\ x[2].cost \in Nat /\ y[2].cost \in Nat /\ (2 # f => x[2].cost = y[2].cost)
      /\ x[3].cost \in Nat /\ y[3].cost \in Nat /\ (3 # f => x[3].cost = y[3].cost)
      /\ x[4].cost \in Nat /\ y[4].cost \in Nat /\ (4 # f => x[4].cost = y[4].cost)
      /\ x[5].cost \in Nat /\ y[5].cost \in Nat /\ (5 # f => x[5].cost = y[5].cost)
  OBVIOUS
<1>2. f = 1 \/ f = 2 \/ f = 3 \/ f = 4 \/ f = 5
  OBVIOUS
<1>3. CASE f = 1
  BY <1>1, <1>3 DEF Total
<1>4. CASE f = 2
  BY <1>1, <1>4 DEF Total
<1>5. CASE f = 3
  BY <1>1, <1>5 DEF Total
<1>6. CASE f = 4
  BY <1>1, <1>6 DEF Total
<1>7. CASE f = 5
  BY <1>1, <1>7 DEF Total
<1> QED
  BY <1>2, <1>3, <1>4, <1>5, <1>6, <1>7

LEMMA NothingCosts == NoChoice.cost = 0
BY DEF NoChoice

\* What is known of offer and choice.
LEMMA OfferFacts ==
  ASSUME TypeInv
  PROVE  /\ choice \in [Formats -> Candidate \cup {NoChoice}]
         /\ \A f \in Formats : offer[f] \subseteq Candidate
         /\ \A f \in Formats : choice[f].cost \in Nat
         /\ \A f \in Formats : \A c \in offer[f] : c.cost \in Nat /\ c # NoChoice
         /\ \A f \in Selected : f \in Offering /\ choice[f] \in offer[f]
         /\ \A f \in Formats \ Selected : choice[f] = NoChoice
         /\ Selected \subseteq Formats /\ Offering \subseteq Formats
<1>1. /\ choice \in [Formats -> Candidate \cup {NoChoice}]
      /\ \A f \in Formats : offer[f] \subseteq Candidate
      /\ \A f \in Formats : choice[f] # NoChoice => choice[f] \in offer[f]
  BY DEF TypeInv, PlanningTypeOK, PlannerTypeOK, ChoiceOK
<1>2. \A c \in Candidate \cup {NoChoice} : c.cost \in Nat
  BY NothingCosts DEF Candidate
<1> QED
  BY <1>1, <1>2, NoCandidate DEF Selected, Offering

LEMMA CheapestCost ==
  ASSUME NEW S \in SUBSET Candidate, S # {}, \A c, d \in S : c.key = d.key => c = d
  PROVE  Cheapest(S) \in S /\ \A d \in S : Cheapest(S).cost <= d.cost
<1>1. Cheapest(S) \in S /\ \A d \in S \ {Cheapest(S)} : Cheaper(Cheapest(S), d)
  BY CheapestType
<1>2. \A c \in S : c.cost \in Nat
  BY DEF Candidate
<1> HIDE DEF Cheapest
<1> QED
  BY <1>1, <1>2 DEF Cheaper

\* The cheapest of a format is a candidate of it, and no candidate costs less.
LEMMA BaseFacts ==
  ASSUME TypeInv, KeysDiffer
  PROVE  /\ \A f \in Formats : Base[f].cost \in Nat
         /\ \A f \in Offering : Base[f] = Cheapest(offer[f]) /\ Base[f] \in offer[f]
         /\ \A f \in Offering : \A c \in offer[f] : Base[f].cost <= c.cost
         /\ \A f \in Formats \ Offering : Base[f] = NoChoice
<1>1. ASSUME NEW f \in Offering
      PROVE  /\ Base[f] = Cheapest(offer[f]) /\ Base[f] \in offer[f]
             /\ \A c \in offer[f] : Base[f].cost <= c.cost
  <2>1. Base[f] = Cheapest(offer[f])
    BY <1>1 DEF Base, Offering
  <2>2. offer[f] # {} /\ offer[f] \in SUBSET Candidate
    BY <1>1, OfferFacts DEF Offering
  <2>3. \A c, d \in offer[f] : c.key = d.key => c = d
    BY <1>1 DEF KeysDiffer, Offering
  <2>4. /\ Cheapest(offer[f]) \in offer[f]
        /\ \A c \in offer[f] : Cheapest(offer[f]).cost <= c.cost
    BY <2>2, <2>3, CheapestCost
  <2> QED
    BY <2>1, <2>4
<1>2. \A f \in Formats \ Offering : Base[f] = NoChoice
  BY DEF Base
<1>3. \A f \in Formats : Base[f].cost \in Nat
  <2> HIDE DEF Base
  <2> QED
    BY <1>1, <1>2, OfferFacts, NothingCosts
<1> QED
  BY <1>1, <1>2, <1>3

\* Preference is an order.
LEMMA PreferenceIsOrder ==
  ASSUME NEW c \in Candidate, NEW d \in Candidate, NEW e \in Candidate
  PROVE  /\ Prefers(c, d) /\ Prefers(d, e) => Prefers(c, e)
         /\ ~(Prefers(c, d) /\ Prefers(d, c))
<1>1. /\ c.tier \in Nat /\ c.cost \in Nat /\ c.key \in Nat
      /\ d.tier \in Nat /\ d.cost \in Nat /\ d.key \in Nat
      /\ e.tier \in Nat /\ e.cost \in Nat /\ e.key \in Nat
  BY DEF Candidate
<1>2. CASE request.brief.strategy = "quality"
  BY <1>1, <1>2 DEF Prefers
<1>3. CASE request.brief.strategy # "quality"
  BY <1>1, <1>3 DEF Prefers
<1> QED
  BY <1>2, <1>3

\* What a draft would cost with c for f and the cheapest after it.  In the first round
\* that is what it does cost with c for f; later it costs no less.
LEMMA LeastFacts ==
  ASSUME TypeInv, KeysDiffer, NEW f \in Selected, NEW c \in offer[f]
  PROVE  /\ WithLeast(f, c) \in Nat /\ Total([choice EXCEPT ![f] = c]) \in Nat
         /\ c.cost <= Room(f) <=> Total([choice EXCEPT ![f] = c]) <= Spendable
         /\ WithLeast(f, c) <= Total([choice EXCEPT ![f] = c])
         /\ (\A g \in Selected : g > f => choice[g] = Base[g]) =>
              WithLeast(f, c) = Total([choice EXCEPT ![f] = c])
<1> DEFINE now == [choice EXCEPT ![f] = c]
           least == [g \in Formats |-> IF g = f THEN c
                           ELSE IF g > f /\ g \in Selected THEN Cheapest(offer[g])
                           ELSE choice[g]]
<1>1. WithLeast(f, c) = Total(least)
  BY DEF WithLeast
<1>2. f \in Formats /\ c.cost \in Nat /\ \A g \in Formats : choice[g].cost \in Nat
  BY OfferFacts
<1>3. now[f] = c /\ \A g \in Formats \ {f} : now[g] = choice[g]
  BY <1>2, OfferFacts
<1>4. least[f] = c /\ \A g \in Formats \ {f} :
        least[g] = IF g > f /\ g \in Selected THEN Base[g] ELSE choice[g]
  <2>1. \A g \in Selected : Base[g] = Cheapest(offer[g])
    BY OfferFacts, BaseFacts
  <2> QED
    BY <1>2, <2>1
<1> HIDE DEF now, least
<1>5. \A g \in Formats : now[g].cost \in Nat /\ least[g].cost \in Nat
  BY <1>2, <1>3, <1>4, BaseFacts
<1>6. Total(now) = Total(choice) - choice[f].cost + c.cost /\ Total(choice) \in Nat
  BY <1>2, <1>3, <1>5, TotalChanges
<1>7. c.cost <= Room(f) <=> Total(now) <= Spendable
  BY <1>2, <1>6, EnvelopeIsAmount DEF Room
<1>8. \A g \in Formats : least[g].cost <= now[g].cost
  <2>1. \A g \in Selected : Base[g].cost <= choice[g].cost
    BY OfferFacts, BaseFacts
  <2> QED
    BY <1>3, <1>4, <1>5, <2>1
<1>9. Total(least) <= Total(now) /\ Total(least) \in Nat /\ Total(now) \in Nat
  BY <1>5, <1>8, TotalGrows
<1>10. ASSUME \A g \in Selected : g > f => choice[g] = Base[g]
       PROVE  Total(least) = Total(now)
  <2>1. \A g \in Formats : now[g].cost <= least[g].cost
    BY <1>3, <1>4, <1>5, <1>10
  <2>2. Total(now) <= Total(least)
    BY <1>5, <2>1, TotalGrows
  <2> QED
    BY <1>9, <2>2
<1> QED
  BY <1>1, <1>7, <1>9, <1>10 DEF now

\* What is settled for a format stays so while later formats change their models.
LEMMA SettledStays ==
  ASSUME NEW f \in Formats, Settled(f), Selected' = Selected,
         UNCHANGED <<request, offer>>, \A g \in Formats : g <= f => choice'[g] = choice[g]
  PROVE  Settled(f)'
<1>1. \A g \in Formats \ Selected : choice'[g] = choice[g]
  BY DEF Selected
<1>2. \A c : WithLeast(f, c)' = WithLeast(f, c)
  BY <1>1 DEF WithLeast
<1> QED
  BY <1>2 DEF Settled, Prefers

LEMMA BestInit == PlanningInit => BestInv
BY DEF PlanningInit, PlannerInit, BestInv, KeysDiffer, Chosen, DroppedInVain, Selected, Offering

LEMMA BestBuild ==
  ASSUME TypeInv, NEW exact \in ExactPrices, StartBuild(exact)
  PROVE  BestInv'
<1>1. request \in Requests
  BY DEF TypeInv, PlanningTypeOK, PlannerTypeOK
<1>2. /\ fit' = [stage |-> "drop", at |-> 1, changed |-> FALSE, round |-> 1]
      /\ \A f \in Formats :
           /\ offer'[f] = IF f \in request.brief.formats THEN Candidates(f, exact) ELSE {}
           /\ offer'[f] \subseteq Candidate
           /\ IF offer'[f] = {} THEN choice'[f] = NoChoice ELSE choice'[f] \in offer'[f]
  BY <1>1, BuildFacts
<1>3. KeysDiffer'
  BY <1>1, <1>2, CandidatesType DEF KeysDiffer
<1>4. Selected' = Offering'
  BY <1>2, NoCandidate DEF Selected, Offering
<1>5. \A f \in Formats : choice'[f] = IF offer'[f] = {} THEN NoChoice ELSE Cheapest(offer'[f])
  BY DEF StartBuild
<1>6. \A f \in Offering' : choice'[f] = Base'[f]
  BY <1>5 DEF Offering, Base
<1>7. Dropping'
  BY <1>2, <1>4, <1>6 DEF Dropping, Selected, Offering
<1> QED
  BY <1>2, <1>3, <1>7 DEF BestInv

\* What the selection costs while formats are dropped.
LEMMA DroppingCost ==
  ASSUME TypeInv, KeysDiffer, Dropping, NEW v \in Selected, \A f \in Selected : f <= v
  PROVE  BaseUpTo(v) = Total(choice)
<1> DEFINE upTo == [f \in Formats |-> IF f <= v THEN Base[f] ELSE NoChoice]
<1>1. \A f \in Offering : f <= v => f \in Selected
  BY OfferFacts DEF Dropping
<1>2. \A f \in Formats : upTo[f] = choice[f]
  <2>1. ASSUME NEW f \in Selected PROVE upTo[f] = choice[f]
    BY <2>1, OfferFacts DEF Dropping
  <2>2. ASSUME NEW f \in Formats \ Selected PROVE upTo[f] = choice[f]
    BY <1>1, <2>2, OfferFacts, BaseFacts
  <2> QED
    BY <2>1, <2>2
<1> HIDE DEF upTo
<1>3. Total(upTo) = Total(choice)
  BY <1>2 DEF Total
<1> QED
  BY <1>3 DEF BaseUpTo, upTo

\* A lower format's bound is no higher.
LEMMA BaseGrows ==
  ASSUME TypeInv, KeysDiffer, NEW f \in Formats, NEW g \in Formats, f <= g
  PROVE  BaseUpTo(f) \in Nat /\ BaseUpTo(g) \in Nat /\ BaseUpTo(f) <= BaseUpTo(g)
<1> DEFINE x == [h \in Formats |-> IF h <= f THEN Base[h] ELSE NoChoice]
           y == [h \in Formats |-> IF h <= g THEN Base[h] ELSE NoChoice]
<1>1. \A h \in Formats : x[h].cost \in Nat /\ y[h].cost \in Nat /\ x[h].cost <= y[h].cost
  <2>1. \A h \in Formats : Base[h].cost \in Nat
    BY BaseFacts
  <2> QED
    BY <2>1, NothingCosts
<1> HIDE DEF x, y
<1>2. Total(x) \in Nat /\ Total(y) \in Nat /\ Total(x) <= Total(y)
  BY <1>1, TotalGrows
<1> QED
  BY <1>2 DEF BaseUpTo, x, y

LEMMA BestDrop ==
  ASSUME TypeInv, BestInv, DropFormat
  PROVE  BestInv'
<1> DEFINE v == Victim(Selected)
<1>1. /\ Dropping /\ KeysDiffer /\ fit.stage = "drop" /\ Selected # {}
      /\ Total(choice) > Spendable
      /\ choice' = [choice EXCEPT ![v] = NoChoice] /\ UNCHANGED <<request, offer, fit>>
  BY DEF BestInv, DropFormat
<1>2. v \in Selected /\ \A f \in Selected : f <= v
  BY <1>1, OfferFacts, GreatestFormat DEF Victim
<1> HIDE DEF v
<1>3. v \in Formats /\ \A f \in Formats : choice'[f] = IF f = v THEN NoChoice ELSE choice[f]
  BY <1>1, <1>2, OfferFacts
<1>4. Selected' = Selected \ {v}
  BY <1>3 DEF Selected
<1>5. BaseUpTo(v) > Spendable
  BY <1>1, <1>2, DroppingCost
<1>6. /\ Offering' = Offering /\ Base' = Base
      /\ \A f \in Formats : BaseUpTo(f)' = BaseUpTo(f)
  BY <1>1 DEF Offering, Base, BaseUpTo
<1>7. \A f \in Selected', g \in Offering' : g < f => g \in Selected'
  BY <1>1, <1>2, <1>3, <1>4, <1>6, OfferFacts DEF Dropping
<1>8. \A f \in Selected' : choice'[f] = Base'[f]
  BY <1>1, <1>3, <1>4, <1>6, OfferFacts DEF Dropping
<1>9. \A f \in Offering' \ Selected' : BaseUpTo(f)' > Spendable
  BY <1>1, <1>4, <1>5, <1>6, OfferFacts DEF Dropping
<1>10. Dropping'
  BY <1>1, <1>7, <1>8, <1>9 DEF Dropping
<1> QED
  BY <1>1, <1>10 DEF BestInv, KeysDiffer

LEMMA BestBaseline ==
  ASSUME TypeInv, BestInv, BaselineFits
  PROVE  BestInv'
<1>1. /\ Dropping /\ KeysDiffer
      /\ Selected = {} \/ Total(choice) <= Spendable
      /\ UNCHANGED <<request, offer, choice>>
  BY DEF BestInv, BaselineFits
<1>2. DroppedInVain
  <2>1. \A f \in Selected : BaseUpTo(f) <= Spendable
    <3>1. CASE Selected = {}
      BY <3>1
    <3>2. CASE Selected # {}
      <4>1. PICK v \in Selected : \A f \in Selected : f <= v
        BY <3>2, OfferFacts, GreatestFormat
      <4>2. BaseUpTo(v) = Total(choice) /\ Total(choice) <= Spendable
        BY <1>1, <3>2, <4>1, DroppingCost
      <4>3. \A f \in Selected : BaseUpTo(f) <= BaseUpTo(v)
        BY <1>1, <4>1, OfferFacts, BaseGrows
      <4> QED
        BY <1>1, <4>2, <4>3, OfferFacts, BaseGrows, EnvelopeIsAmount
    <3> QED
      BY <3>1, <3>2
  <2>2. \A f \in Offering \ Selected : ~(BaseUpTo(f) <= Spendable)
    <3>1. \A f \in Offering \ Selected : BaseUpTo(f) > Spendable
      BY <1>1 DEF Dropping
    <3> QED
      BY <1>1, <3>1, OfferFacts, BaseGrows, EnvelopeIsAmount
  <2> QED
    BY <2>1, <2>2, OfferFacts DEF DroppedInVain
<1>3. UNCHANGED <<request, offer, choice>> /\ DroppedInVain'
  BY <1>1, <1>2 DEF DroppedInVain, Selected, Offering, BaseUpTo, Base
<1>4. /\ fit'.at = 1 /\ fit'.round = 1 /\ ~fit'.changed
      /\ fit'.stage = IF request.brief.strategy = "cheapest" THEN "ready" ELSE "upgrade"
  BY <1>1 DEF BaselineFits, Dropping, TypeInv, PlanningTypeOK, PlannerTypeOK
<1>5. \A f \in Selected' : f \in Formats /\ choice'[f] = Base'[f]
  BY <1>1 DEF Dropping, Selected, Base, Offering
<1>6. fit'.stage = "upgrade" => Upgrading'
  BY <1>1, <1>4, <1>5 DEF Upgrading
<1>7. fit'.stage = "ready" => Chosen'
  BY <1>1, <1>4, <1>5 DEF Chosen
<1> QED
  BY <1>1, <1>3, <1>4, <1>6, <1>7 DEF BestInv, KeysDiffer

\* What an upgrade is taken from: in the first round, what would still fit beside the
\* cheapest after it; in the second, nothing.
LEMMA BetterFacts ==
  ASSUME TypeInv, BestInv, fit.stage = "upgrade", NEW f \in Selected, f = fit.at
  PROVE  /\ fit.round = 1 =>
              Better(f) = {c \in offer[f] : Prefers(c, choice[f]) /\ WithLeast(f, c) <= Spendable}
         /\ fit.round = 2 => Better(f) = {}
<1>1. Upgrading /\ KeysDiffer
  BY DEF BestInv
<1>2. \A c \in offer[f] : WithLeast(f, c) \in Nat /\ Total([choice EXCEPT ![f] = c]) \in Nat
  BY <1>1, LeastFacts
<1>3. CASE fit.round = 1
  <2>1. \A g \in Selected : g > f => choice[g] = Base[g]
    BY <1>1, <1>3, OfferFacts DEF Upgrading
  <2>2. \A c \in offer[f] : c.cost <= Room(f) <=> WithLeast(f, c) <= Spendable
    BY <1>1, <2>1, LeastFacts
  <2> QED
    BY <1>3, <2>2 DEF Better
<1>4. CASE fit.round = 2
  <2>1. \A c \in offer[f] : Prefers(c, choice[f]) => WithLeast(f, c) > Spendable
    BY <1>1, <1>4 DEF Upgrading, Settled
  <2>2. \A c \in offer[f] : Prefers(c, choice[f]) => ~(c.cost <= Room(f))
    <3>1. ASSUME NEW c \in offer[f], Prefers(c, choice[f]), c.cost <= Room(f) PROVE FALSE
      <4>1. WithLeast(f, c) <= Total([choice EXCEPT ![f] = c])
            /\ Total([choice EXCEPT ![f] = c]) <= Spendable
        BY <1>1, <3>1, LeastFacts
      <4>2. WithLeast(f, c) > Spendable
        BY <2>1, <3>1
      <4> QED
        BY <1>2, <4>1, <4>2, EnvelopeIsAmount
    <3> QED
      BY <3>1
  <2> QED
    BY <1>4, <2>2 DEF Better
<1> QED
  BY <1>3, <1>4

\* A format is settled once it has been passed.
LEMMA TakenSettles ==
  ASSUME TypeInv, BestInv, fit.stage = "upgrade", fit.round = 1,
         NEW f \in Selected, f = fit.at, NEW c \in Better(f), Taken(c, Better(f)),
         choice' = [choice EXCEPT ![f] = c], UNCHANGED <<request, offer>>
  PROVE  Settled(f)' /\ Selected' = Selected
<1>1. Better(f) = {d \in offer[f] : Prefers(d, choice[f]) /\ WithLeast(f, d) <= Spendable}
  BY BetterFacts
<1>2. /\ c \in offer[f] /\ c \in Candidate /\ choice[f] \in Candidate /\ f \in Formats
      /\ offer[f] \subseteq Candidate
  BY <1>1, OfferFacts
<1>3. \A g \in Formats : choice'[g] = IF g = f THEN c ELSE choice[g]
  BY <1>2, OfferFacts
<1>4. Selected' = Selected
  BY <1>2, <1>3, NoCandidate DEF Selected
<1>5. \A d : WithLeast(f, d)' = WithLeast(f, d)
  BY <1>3, <1>4, OfferFacts DEF WithLeast
<1>6. ASSUME NEW d \in offer[f], Prefers(d, c) PROVE ~(WithLeast(f, d) <= Spendable)
  <2>1. Prefers(d, choice[f]) /\ ~Prefers(c, d) /\ d # c
    BY <1>1, <1>2, <1>6, PreferenceIsOrder
  <2> QED
    BY <1>1, <1>6, <2>1 DEF Taken
<1>7. \A d \in offer[f] : WithLeast(f, d) \in Nat
  BY LeastFacts DEF BestInv
<1>8. \A d \in offer[f] : Prefers(d, c) => WithLeast(f, d) > Spendable
  BY <1>6, <1>7, EnvelopeIsAmount
<1>9. \A d, e : Prefers(d, e)' <=> Prefers(d, e)
  BY DEF Prefers
<1>10. Settled(f)'
  BY <1>2, <1>3, <1>5, <1>8, <1>9 DEF Settled
<1> QED
  BY <1>4, <1>10

LEMMA BestUpgrade ==
  ASSUME TypeInv, BestInv, UpgradeFormat
  PROVE  BestInv'
<1>0. PICK f : f = fit.at
  OBVIOUS
<1>1. /\ Upgrading /\ KeysDiffer /\ DroppedInVain /\ fit.stage = "upgrade"
      /\ f \in Selected /\ f \in Formats /\ UNCHANGED <<request, offer>>
  BY <1>0, OfferFacts DEF BestInv, UpgradeFormat
<1>2. fit \in FitRecord
  BY DEF TypeInv, PlanningTypeOK, PlannerTypeOK, FitRecord
<1>3. Base' = Base /\ Offering' = Offering /\ \A n \in Formats : BaseUpTo(n)' = BaseUpTo(n)
  BY <1>1 DEF Base, Offering, BaseUpTo
<1>4. ASSUME NEW c \in Better(f), Taken(c, Better(f)), choice' = [choice EXCEPT ![f] = c],
             fit' = [fit EXCEPT !.at = @ + 1, !.changed = TRUE]
      PROVE  BestInv'
  <2>1. fit.round = 1
    BY <1>0, <1>1, <1>4, BetterFacts DEF Upgrading
  <2>2. Settled(f)' /\ Selected' = Selected
    BY <1>0, <1>1, <1>4, <2>1, TakenSettles
  <2>3. \A g \in Formats : g # f => choice'[g] = choice[g]
    BY <1>1, <1>4, OfferFacts
  <2>4. fit'.at = f + 1 /\ fit'.round = 1 /\ fit'.stage = "upgrade"
    BY <1>0, <1>1, <1>2, <1>4, <2>1 DEF FitRecord
  <2>5. \A g \in Selected : g < f => Settled(g)'
    <3>1. ASSUME NEW g \in Selected, g < f PROVE Settled(g)'
      <4>1. Settled(g) /\ g \in Formats
        BY <1>0, <1>1, <2>1, <3>1, OfferFacts DEF Upgrading
      <4>2. \A h \in Formats : h <= g => choice'[h] = choice[h]
        BY <1>1, <2>3, <3>1, <4>1
      <4> QED
        BY <1>1, <2>2, <4>1, <4>2, SettledStays
    <3> QED
      BY <3>1
  <2>6. \A g \in Selected : g > f => choice'[g] = Base[g]
    BY <1>0, <1>1, <2>1, <2>3, OfferFacts DEF Upgrading
  <2>7. \A g \in Selected' : IF g < fit'.at THEN Settled(g)' ELSE choice'[g] = Base'[g]
    BY <1>1, <1>3, <2>2, <2>4, <2>5, <2>6, OfferFacts
  <2>8. Upgrading'
    BY <1>1, <2>4, <2>7 DEF Upgrading
  <2>9. DroppedInVain'
    BY <1>1, <1>3, <2>2 DEF DroppedInVain, Offering
  <2> QED
    BY <1>1, <2>4, <2>8, <2>9 DEF BestInv, KeysDiffer
<1>5. ASSUME Better(f) = {}, fit' = [fit EXCEPT !.at = @ + 1], choice' = choice
      PROVE  BestInv'
  <2>1. /\ fit'.at = f + 1 /\ fit'.round = fit.round /\ fit'.changed = fit.changed
        /\ fit'.stage = "upgrade"
    BY <1>0, <1>1, <1>2, <1>5 DEF FitRecord
  <2>2. Selected' = Selected /\ \A g \in Formats : Settled(g) => Settled(g)'
    <3>1. Selected' = Selected
      BY <1>5 DEF Selected
    <3> QED
      BY <1>1, <1>5, <3>1, SettledStays
  <2>3. fit.round = 1 => Settled(f)
    <3>1. SUFFICES ASSUME fit.round = 1, NEW c \in offer[f], Prefers(c, choice[f])
                   PROVE  WithLeast(f, c) > Spendable
      BY DEF Settled
    <3>2. ~(WithLeast(f, c) <= Spendable)
      BY <1>0, <1>1, <1>5, <3>1, BetterFacts
    <3>3. WithLeast(f, c) \in Nat
      BY <1>1, LeastFacts
    <3> QED
      BY <3>2, <3>3, EnvelopeIsAmount
  <2>4. fit.round = 1 =>
          \A g \in Selected' : IF g < fit'.at THEN Settled(g)' ELSE choice'[g] = Base'[g]
    BY <1>0, <1>1, <1>3, <1>5, <2>1, <2>2, <2>3, OfferFacts DEF Upgrading
  <2>5. Upgrading'
    BY <1>1, <2>1, <2>2, <2>4, OfferFacts DEF Upgrading
  <2>6. DroppedInVain'
    BY <1>1, <1>3, <2>2 DEF DroppedInVain, Offering
  <2> QED
    BY <1>1, <2>1, <2>5, <2>6 DEF BestInv, KeysDiffer
<1> QED
  BY <1>0, <1>4, <1>5 DEF UpgradeFormat

LEMMA BestPass ==
  ASSUME TypeInv, BestInv, PassFormat \/ EndRound
  PROVE  BestInv'
<1>1. /\ Upgrading /\ KeysDiffer /\ DroppedInVain /\ fit.stage = "upgrade"
      /\ UNCHANGED <<request, offer, choice>>
  BY DEF BestInv, PassFormat, EndRound
<1>2. fit \in FitRecord
  BY DEF TypeInv, PlanningTypeOK, PlannerTypeOK, FitRecord
<1>3. /\ Selected' = Selected /\ Base' = Base /\ DroppedInVain' /\ KeysDiffer'
      /\ \A g \in Formats : Settled(g) => Settled(g)'
  <2>1. Selected' = Selected /\ Base' = Base /\ Offering' = Offering
    BY <1>1 DEF Selected, Base, Offering
  <2>2. DroppedInVain' /\ KeysDiffer'
    BY <1>1, <2>1 DEF DroppedInVain, KeysDiffer, BaseUpTo
  <2> QED
    BY <1>1, <2>1, <2>2, SettledStays
<1>4. CASE PassFormat
  <2>1. /\ fit'.at = fit.at + 1 /\ fit'.round = fit.round /\ fit'.changed = fit.changed
        /\ fit'.stage = "upgrade" /\ fit.at \in Formats \ Selected
    BY <1>1, <1>2, <1>4 DEF PassFormat, FitRecord
  <2>2. fit.round = 1 =>
          \A g \in Selected' : IF g < fit'.at THEN Settled(g)' ELSE choice'[g] = Base'[g]
    BY <1>1, <1>3, <2>1, OfferFacts DEF Upgrading
  <2>3. Upgrading'
    BY <1>1, <1>3, <2>1, <2>2, OfferFacts DEF Upgrading
  <2> QED
    BY <1>3, <2>1, <2>3 DEF BestInv
<1>5. CASE EndRound
  <2>1. \A g \in Selected' : Settled(g)'
    BY <1>1, <1>3, <1>5, OfferFacts DEF EndRound, Upgrading
  <2>2. ASSUME fit.changed, fit' = [fit EXCEPT !.at = 1, !.changed = FALSE, !.round = @ + 1]
        PROVE  BestInv'
    <3>1. fit.round = 1
      BY <1>1, <2>2 DEF Upgrading
    <3>2. fit'.round = 2 /\ ~fit'.changed /\ fit'.stage = "upgrade"
      BY <1>1, <1>2, <2>2, <3>1 DEF FitRecord
    <3>3. Upgrading'
      BY <1>1, <2>1, <3>2 DEF Upgrading
    <3> QED
      BY <1>3, <3>2, <3>3 DEF BestInv
  <2>3. ASSUME fit' = [fit EXCEPT !.stage = "ready"] PROVE BestInv'
    <3>1. fit'.stage = "ready" /\ fit'.round = fit.round /\ fit'.changed = fit.changed
      BY <1>2, <2>3 DEF FitRecord
    <3>2. Chosen'
      BY <1>1, <2>1, <3>1 DEF Upgrading, Chosen
    <3> QED
      BY <1>3, <3>1, <3>2 DEF BestInv
  <2> QED
    BY <1>5, <2>2, <2>3 DEF EndRound
<1> QED
  BY <1>4, <1>5

LEMMA BestStep == TypeInv /\ BestInv /\ [PlanningNext]_vars => BestInv'
<1> SUFFICES ASSUME TypeInv, BestInv, [PlanningNext]_vars PROVE BestInv'
  OBVIOUS
<1>1. CASE UNCHANGED <<request, offer, choice, fit>>
  <2>1. Selected' = Selected /\ Offering' = Offering /\ Base' = Base
    BY <1>1 DEF Selected, Offering, Base
  <2>2. \A f : BaseUpTo(f)' = BaseUpTo(f)
    BY <1>1, <2>1 DEF BaseUpTo
  <2>3. \A f, c : WithLeast(f, c)' = WithLeast(f, c)
    BY <1>1, <2>1 DEF WithLeast
  <2>4. \A f : Settled(f)' <=> Settled(f)
    BY <1>1, <2>3 DEF Settled, Prefers
  <2>5. (Dropping' <=> Dropping) /\ (Upgrading' <=> Upgrading)
    BY <1>1, <2>1, <2>2, <2>4 DEF Dropping, Upgrading
  <2>6. (Chosen' <=> Chosen) /\ (DroppedInVain' <=> DroppedInVain) /\ (KeysDiffer' <=> KeysDiffer)
    BY <1>1, <2>1, <2>2, <2>4 DEF Chosen, DroppedInVain, KeysDiffer
  <2> QED
    BY <1>1, <2>5, <2>6 DEF BestInv
<1>2. CASE Fit
  BY <1>2, BestDrop, BestBaseline, BestUpgrade, BestPass DEF Fit, FitStep
<1>3. CASE Begin
  BY <1>3, ExactType, BestBuild DEF Begin
<1>4. CASE Priced
  BY <1>1, <1>4, ExactType, BestBuild DEF Priced, plannerVars
<1> QED
  BY <1>1, <1>2, <1>3, <1>4
  DEF PlanningNext, CreatePlan, Draft, CheckLinks, PriceStep, Repriced, DropStep, Conclude,
      MediaStep, plannerVars, vars

LEMMA BestInvariance == PlanningSpec => [](TypeInv /\ BestInv)
BY TypeInit, TypeStep, BestInit, BestStep, PTL DEF PlanningSpec

\* Dropping and upgrading give up no format and no model that the envelope had room
\* for beside those of higher priority, although the greedy loops never reconsider
\* (planner.py:403-456).
THEOREM DraftIsBestHolds == PlanningSpec => []DraftIsBest
<1>1. TypeInv /\ BestInv => DraftIsBest
  <2> SUFFICES ASSUME TypeInv, BestInv, fit.stage = "ready" PROVE DraftIsBest
    BY DEF DraftIsBest
  <2>1. DroppedInVain /\ Chosen
    BY DEF BestInv
  <2> QED
    BY <2>1, OfferFacts DEF DraftIsBest, DroppedInVain, Chosen, Settled, Offering, Base, BaseUpTo
<1> QED
  BY <1>1, BestInvariance, PTL

\* A second round of upgrades changes nothing: what the first has settled later upgrades
\* leave less room for, so that MAX_UPGRADE_ROUNDS never cuts one off
\* (planner.py:438-454).
THEOREM UpgradeSettlesHolds == PlanningSpec => []UpgradeSettles
<1>1. TypeInv /\ BestInv => UpgradeSettles
  BY DEF BestInv, Dropping, Upgrading, Chosen, UpgradeSettles, TypeInv, PlanningTypeOK,
    PlannerTypeOK, FitStages
<1> QED
  BY <1>1, BestInvariance, PTL
=============================================================================
