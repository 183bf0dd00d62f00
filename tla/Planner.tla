------------------------------ MODULE Planner ------------------------------
(***************************************************************************)
(* app/services/planner.py: Planner.build picks at most one model for each *)
(* format of a brief, so that all of them together fit the envelope: first *)
(* the cheapest of every format, then formats are dropped from the lowest  *)
(* priority up, then the rest is upgraded while it fits.  One pass of a    *)
(* loop is one action; the loops run without an await.                     *)
(***************************************************************************)
EXTENDS Catalogue, BudgetGuard

CONSTANTS Requests,           \* what may be asked for: [catalogue, brief]
          MaxUpgradeRounds,   \* MAX_UPGRADE_ROUNDS
          MaxModels           \* bound: entries of the catalogue per format

ASSUME PlannerAssumption ==
  /\ MaxUpgradeRounds \in Nat \ {0} /\ MaxModels \in Nat
  /\ \A r \in Requests :
       /\ r.catalogue \in [Formats -> Seq(ModelSpec)]
       /\ \A f \in Formats :
            /\ Len(r.catalogue[f]) <= MaxModels
            /\ \A k \in 1..Len(r.catalogue[f]) :
                 r.catalogue[f][k].hi # 0 => r.catalogue[f][k].lo <= r.catalogue[f][k].hi

VARIABLES request,   \* the brief and the catalogue as they were fetched
          offer,     \* for each format the candidates _analyse found
          choice,    \* selection: the candidate each format has, or NoChoice
          fit        \* how far _fit_to_budget is

plannerVars == <<request, offer, choice, fit>>

\* key: the place in the key-sorted catalogue.  known = FALSE: price_unknown.
Candidate == [key: 1..MaxModels, tier: Nat, cost: Nat, known: BOOLEAN]
NoChoice == [key |-> 0, tier |-> 0, cost |-> 0, known |-> TRUE]

FitStages == {"drop", "upgrade", "ready"}

PlannerTypeOK ==
  /\ request \in Requests
  /\ offer \in [Formats -> SUBSET Candidate]
  /\ choice \in [Formats -> Candidate \cup {NoChoice}]
  /\ fit \in [stage: FitStages, at: 1..6, changed: BOOLEAN, round: 1..MaxUpgradeRounds]

PlannerInit ==
  /\ request \in Requests
  /\ offer = [f \in Formats |-> {}]
  /\ choice = [f \in Formats |-> NoChoice]
  /\ fit = [stage |-> "ready", at |-> 1, changed |-> FALSE, round |-> 1]

\* What the formats cost together, for anything with a cost.
Total(x) == x[1].cost + x[2].cost + x[3].cost + x[4].cost + x[5].cost

-----------------------------------------------------------------------------
(* _analyse.                                                               *)

\* A price the platform has confirmed goes before the catalogue's.  exact[f] is the
\* model of format f that has one; its key is 0 when none has.
PriceOf(f, k, exact) ==
  IF exact[f].key = k THEN exact[f].cost
  ELSE Upper(request.catalogue[f][k], f, request.brief)

\* The models that can serve the brief, by their keys.
Usable(f) ==
  {k \in 1..Len(request.catalogue[f]) :
     Compatible(request.catalogue[f][k], f, request.brief)}

\* Mutant of Candidates: a model without a price is taken at what stands in its place.
CandidatesUnpriced(f, exact) ==
  {[key |-> k, tier |-> request.catalogue[f][k].tier, cost |-> PriceOf(f, k, exact),
    known |-> TRUE] : k \in Usable(f)}

\* The compatible models with a price; when there is none, those without, at 0: only
\* the platform's estimate can tell.
Candidates(f, exact) ==
  LET models == request.catalogue[f]
      priced == {k \in Usable(f) : PriceOf(f, k, exact) # NoPrice} IN
  IF priced # {}
  THEN {[key |-> k, tier |-> models[k].tier, cost |-> PriceOf(f, k, exact), known |-> TRUE] :
          k \in priced}
  ELSE {[key |-> k, tier |-> models[k].tier, cost |-> 0, known |-> FALSE] : k \in Usable(f)}

\* The order (cost, tier, key) of the baseline.
Cheaper(c, d) ==
  \/ c.cost < d.cost
  \/ c.cost = d.cost /\ c.tier < d.tier
  \/ c.cost = d.cost /\ c.tier = d.tier /\ c.key < d.key

Cheapest(S) == CHOOSE c \in S : \A d \in S \ {c} : Cheaper(c, d)

\* _preference_key: by tier; within a tier quality prefers the dearer one.
Prefers(c, d) ==
  \/ c.tier < d.tier
  \/ /\ c.tier = d.tier
     /\ \/ request.brief.strategy = "quality" /\ c.cost > d.cost
        \/ request.brief.strategy # "quality" /\ c.cost < d.cost
        \/ c.cost = d.cost /\ c.key < d.key

-----------------------------------------------------------------------------
(* build and _fit_to_budget.                                               *)

\* The formats of the brief are analysed and each gets its cheapest candidate.
StartBuild(exact) ==
  /\ offer' = [f \in Formats |->
                 IF f \in request.brief.formats THEN Candidates(f, exact) ELSE {}]
  /\ choice' = [f \in Formats |-> IF offer'[f] = {} THEN NoChoice ELSE Cheapest(offer'[f])]
  /\ fit' = [stage |-> "drop", at |-> 1, changed |-> FALSE, round |-> 1]
  /\ UNCHANGED request

Selected == {f \in Formats : choice[f] # NoChoice}

\* Mutant of Victim: the dearest goes.
VictimDearest(S) == CHOOSE f \in S : \A g \in S : choice[f].cost >= choice[g].cost
Victim(S) == Greatest(S)

DropFormat ==
  /\ fit.stage = "drop"
  /\ Selected # {} /\ Total(choice) > Spendable
  /\ choice' = [choice EXCEPT ![Victim(Selected)] = NoChoice]
  /\ UNCHANGED <<request, offer, fit>>

BaselineFits ==
  /\ fit.stage = "drop"
  /\ Selected = {} \/ Total(choice) <= Spendable
  /\ fit' = [fit EXCEPT !.stage =
               IF request.brief.strategy = "cheapest" THEN "ready" ELSE "upgrade"]
  /\ UNCHANGED <<request, offer, choice>>

\* Mutant of Room: a candidate is held against the envelope on its own.
RoomAlone(f) == Spendable

\* What the envelope leaves to the format when the others keep their models.
Room(f) == Spendable - (Total(choice) - choice[f].cost)

\* The candidates before the current one that fit; the first of them is taken.
Better(f) == {c \in offer[f] : Prefers(c, choice[f]) /\ c.cost <= Room(f)}

\* Mutant of Taken: the search does not stop at the first that fits.
TakenLast(c, S) == \A d \in S \ {c} : Prefers(d, c)
Taken(c, S) == \A d \in S \ {c} : Prefers(c, d)

UpgradeFormat ==
  /\ fit.stage = "upgrade" /\ fit.at \in Selected
  /\ \/ \E c \in Better(fit.at) :
          /\ Taken(c, Better(fit.at))
          /\ choice' = [choice EXCEPT ![fit.at] = c]
          /\ fit' = [fit EXCEPT !.at = @ + 1, !.changed = TRUE]
     \/ Better(fit.at) = {} /\ fit' = [fit EXCEPT !.at = @ + 1] /\ UNCHANGED choice
  /\ UNCHANGED <<request, offer>>

PassFormat ==
  /\ fit.stage = "upgrade" /\ fit.at \in Formats \ Selected
  /\ fit' = [fit EXCEPT !.at = @ + 1]
  /\ UNCHANGED <<request, offer, choice>>

EndRound ==
  /\ fit.stage = "upgrade" /\ fit.at = 6
  /\ fit' = IF fit.changed /\ fit.round < MaxUpgradeRounds
            THEN [fit EXCEPT !.at = 1, !.changed = FALSE, !.round = @ + 1]
            ELSE [fit EXCEPT !.stage = "ready"]
  /\ UNCHANGED <<request, offer, choice>>

FitStep == DropFormat \/ BaselineFits \/ UpgradeFormat \/ PassFormat \/ EndRound

-----------------------------------------------------------------------------
(* Properties.                                                             *)

\* No upgrade takes the selection out of the envelope, whatever the order of the
\* formats and the candidates (planner.py:435-454).
UpgradesFit == fit.stage \in {"upgrade", "ready"} => Total(choice) <= Spendable

\* What the formats before f have, c for f, and the least that those after it need.
WithLeast(f, c) ==
  Total([g \in Formats |-> IF g = f THEN c
                           ELSE IF g > f /\ g \in Selected THEN Cheapest(offer[g])
                           ELSE choice[g]])

\* The result is the best there is: formats go by priority only, and none goes that
\* could have stayed beside those before it; then no format could have a model it
\* prefers if those after it took their cheapest.  For "cheapest" every format has its
\* cheapest.  The greedy loop never reconsiders (planner.py:403-456).
DraftIsBest ==
  LET offered == {f \in Formats : offer[f] # {}}
      least == [f \in Formats |-> IF f \in offered THEN Cheapest(offer[f]) ELSE NoChoice]
      upTo(n) == Total([f \in Formats |-> IF f <= n THEN least[f] ELSE NoChoice]) IN
  fit.stage = "ready" =>
    /\ Selected = {f \in offered : upTo(f) <= Spendable}
    /\ \A f \in Selected :
         IF request.brief.strategy = "cheapest" THEN choice[f] = least[f]
         ELSE \A c \in offer[f] : Prefers(c, choice[f]) => WithLeast(f, c) > Spendable

\* The first round settles everything: a second one changes nothing, so that the cap of
\* twenty rounds never cuts an upgrade off (planner.py:438-454).
UpgradeSettles == fit.round = 2 => ~fit.changed
=============================================================================
