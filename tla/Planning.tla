------------------------------ MODULE Planning ------------------------------
(***************************************************************************)
(* app/services/plan_service.py, create_plan: the planner's draft is held  *)
(* against what the platform asks now (POST /generate/estimate), planned   *)
(* once more with the confirmed prices when it does not fit, and cut until *)
(* it does.  One action per await; uploads (Media) live and die beside it. *)
(* The account snapshot only adds warnings to a plan and is left out;      *)
(* Execution reads the account again.                                      *)
(***************************************************************************)
EXTENDS Planner, Media, FiniteSets

CONSTANTS Prices,          \* what a price of the platform may move to
          Threshold,       \* upload_expiry_warning_days
          MaxPriceMoves,   \* bound: quotes that differ from the one before
          MaxRefusals      \* bound: formats whose quote is refused

ASSUME PlanningAssumption ==
  /\ Prices \subseteq Nat /\ Threshold \in Nat
  /\ MaxPriceMoves \in Nat /\ MaxRefusals \in Nat
  /\ \A r \in Requests : r.brief \in BriefOf(Urls)

VARIABLES pc,        \* the await create_plan stands at
          pass,      \* 1: the first draft, 2: the one with exact prices
          steps,     \* the steps of the draft at hand, by format
          kept,      \* the steps of the first draft, while there is a second
          todo,      \* formats whose step is still to be priced
          cut,       \* draft.dropped_formats of the first draft is not empty
          overrun,   \* _drop_until_affordable has dropped a step
          price,     \* what the platform last asked for a model, or NoPrice
          moves,     \* quotes that moved
          refused,   \* formats that were refused a quote
          note,      \* what the plan was told of each link
          checked,   \* the day it was
          status     \* status of the saved plan

planVars == <<pc, pass, steps, kept, todo, cut, overrun, price, moves, refused, note,
              checked, status>>
vars == <<plannerVars, mediaVars, planVars>>

Points == {"idle", "plan", "links", "price", "fit", "done"}
PlanStatus == {"none", "ready", "degraded", "infeasible"}
Notes == {"none", "good", "dying", "dead", "unknown"}

\* A step of a plan; quoted: cost_source is "estimate".
PlanStep == [kind: {"none", "generation", "local"}, key: 0..MaxModels, cost: Nat,
             quoted: BOOLEAN]
NoStep == [kind |-> "none", key |-> 0, cost |-> 0, quoted |-> FALSE]
LocalText == [kind |-> "local", key |-> 0, cost |-> 0, quoted |-> FALSE]

PlanningTypeOK ==
  /\ PlannerTypeOK /\ MediaTypeOK
  /\ pc \in Points /\ pass \in 1..2
  /\ steps \in [Formats -> PlanStep] /\ kept \in [Formats -> PlanStep]
  /\ todo \subseteq Formats /\ refused \subseteq Formats
  /\ cut \in BOOLEAN /\ overrun \in BOOLEAN
  /\ price \in [Formats -> [1..MaxModels -> Nat \cup {NoPrice}]]
  /\ moves \in 0..MaxPriceMoves
  /\ note \in [Urls -> Notes] /\ checked \in 0..MaxClock
  /\ status \in PlanStatus

PlanningInit ==
  /\ PlannerInit /\ MediaInit
  /\ pc = "idle" /\ pass = 1
  /\ steps = [f \in Formats |-> NoStep] /\ kept = steps
  /\ todo = {} /\ refused = {} /\ cut = FALSE /\ overrun = FALSE
  /\ price = [f \in Formats |-> [k \in 1..MaxModels |-> NoPrice]] /\ moves = 0
  /\ note = [u \in Urls |-> "none"] /\ checked = 0
  /\ status = "none"

Billable(x) == {f \in Formats : x[f].kind = "generation"}
Present(x) == {f \in Formats : x[f].kind # "none"}

\* A brief that asks for a text gets one: composed locally when no paid step is left.
WithText(x) ==
  IF Text \in request.brief.formats /\ x[Text].kind = "none"
  THEN [x EXCEPT ![Text] = LocalText] ELSE x

-----------------------------------------------------------------------------
(* The draft.                                                              *)

\* The overrides of the second pass: the steps that have a price.
NothingExact == [f \in Formats |-> [key |-> 0, cost |-> 0]]
Exact(x) == [f \in Formats |-> [key |-> x[f].key, cost |-> x[f].cost]]

\* The catalogue has been read.  A request over MAX_BUDGET_RUB, or without a
\* catalogue, is refused and changes nothing.
Begin ==
  /\ pc = "idle"
  /\ StartBuild(NothingExact)
  /\ pc' = "plan"
  /\ UNCHANGED <<mediaVars, pass, steps, kept, todo, cut, overrun, price, moves, refused,
                 note, checked, status>>

Fit ==
  /\ pc = "plan" /\ FitStep
  /\ UNCHANGED <<mediaVars, planVars>>

\* _to_step
DraftStep(f) ==
  IF choice[f] = NoChoice THEN NoStep
  ELSE [kind |-> "generation", key |-> choice[f].key, cost |-> choice[f].cost,
        quoted |-> FALSE]

\* The end of build.
Draft ==
  /\ pc = "plan" /\ fit.stage = "ready"
  /\ steps' = WithText([f \in Formats |-> DraftStep(f)])
  /\ todo' = Billable(steps')
  /\ cut' = IF pass = 1 THEN \E f \in Formats : offer[f] # {} /\ choice[f] = NoChoice
            ELSE cut
  /\ pc' = IF pass = 1 THEN "links" ELSE "price"
  /\ UNCHANGED <<plannerVars, mediaVars, pass, kept, overrun, price, moves, refused, note,
                 checked, status>>

-----------------------------------------------------------------------------
(* _media_warnings.                                                        *)

\* Mutant of Dying: warned of only when less than the threshold is left.
DyingSoon(u) == record[u] < clock + Threshold
Dying(u) == record[u] <= clock + Threshold

\* What is said of a link of the brief: nothing of strangers when all are.
NoteOn(u) ==
  LET known == {v \in request.brief.refs : record[v] # 0} IN
  IF u \in known
  THEN IF record[u] <= clock THEN "dead" ELSE IF Dying(u) THEN "dying" ELSE "good"
  ELSE IF u \in request.brief.refs /\ known # {} THEN "unknown" ELSE "none"

CheckLinks ==
  /\ pc = "links"
  /\ note' = [u \in Urls |-> NoteOn(u)]
  /\ checked' = clock
  /\ pc' = "price"
  /\ UNCHANGED <<plannerVars, mediaVars, pass, steps, kept, todo, cut, overrun, price,
                 moves, refused, status>>

-----------------------------------------------------------------------------
(* _price_steps.                                                           *)

\* What the platform asks when no price moves.
Asked(f, k) ==
  IF price[f][k] # NoPrice THEN {price[f][k]}
  ELSE Bills(request.catalogue[f][k], f, request.brief)

\* Mutant of Quoted: a step keeps the price of the catalogue.
QuotedAsPlanned(f, cost) == [steps[f] EXCEPT !.quoted = TRUE]
Quoted(f, cost) == [steps[f] EXCEPT !.cost = cost, !.quoted = TRUE]

\* estimated_cost_of: a fixed price, or the reserve that is held.
Quote(f) ==
  /\ \E cost \in Asked(f, steps[f].key) \cup Prices :
       /\ IF cost \in Asked(f, steps[f].key) THEN moves' = moves
          ELSE moves < MaxPriceMoves /\ moves' = moves + 1
       /\ price' = [price EXCEPT ![f][steps[f].key] = cost]
       /\ steps' = [steps EXCEPT ![f] = Quoted(f, cost)]
  /\ UNCHANGED refused

\* An error, a request the platform calls invalid, or no cost in the answer: the step
\* is left out.
Refuse(f) ==
  /\ \/ Bills(request.catalogue[f][steps[f].key], f, request.brief) = {}
     \/ Cardinality(refused \cup {f}) <= MaxRefusals
  /\ refused' = refused \cup {f}
  /\ steps' = [steps EXCEPT ![f] = NoStep]
  /\ UNCHANGED <<price, moves>>

PriceStep ==
  /\ pc = "price" /\ todo # {}
  /\ LET f == Least(todo) IN
       /\ Quote(f) \/ Refuse(f)
       /\ todo' = todo \ {f}
  /\ UNCHANGED <<plannerVars, mediaVars, pc, pass, kept, cut, overrun, note, checked, status>>

-----------------------------------------------------------------------------
(* _replan_with_exact_prices and _drop_until_affordable.                   *)

\* The first draft fits at its confirmed prices; or it is planned once more with them.
Priced ==
  /\ pc = "price" /\ todo = {} /\ pass = 1
  /\ \/ /\ Total(steps) <= Spendable
        /\ pc' = "fit"
        /\ UNCHANGED <<plannerVars, pass, kept>>
     \/ /\ Total(steps) > Spendable
        /\ StartBuild(Exact(steps))
        /\ kept' = steps /\ pass' = 2 /\ pc' = "plan"
  /\ UNCHANGED <<mediaVars, steps, todo, cut, overrun, price, moves, refused, note,
                 checked, status>>

\* The second draft is kept only if it fits and has no fewer billable steps.
IsBetter ==
  Total(steps) <= Spendable /\ Cardinality(Billable(steps)) >= Cardinality(Billable(kept))

Repriced ==
  /\ pc = "price" /\ todo = {} /\ pass = 2
  /\ steps' = IF IsBetter THEN steps ELSE kept
  /\ pc' = "fit"
  /\ UNCHANGED <<plannerVars, mediaVars, pass, kept, todo, cut, overrun, price, moves,
                 refused, note, checked, status>>

\* Mutant of Dropped: the dearest step goes first, then the priority.
DroppedDearest ==
  CHOOSE f \in Billable(steps) : \A g \in Billable(steps) : steps[f].cost >= steps[g].cost
Dropped == Greatest(Billable(steps))

\* Mutant of TooDear: the ceiling is asked, not the envelope.
TooDearForBudget == Total(steps) > Budget /\ Billable(steps) # {}
TooDear == Total(steps) > Spendable /\ Billable(steps) # {}

\* Mutant of Without: the step stays.
WithoutNothing(f) == steps
Without(f) == [steps EXCEPT ![f] = NoStep]

DropStep ==
  /\ pc = "fit" /\ TooDear
  /\ steps' = Without(Dropped)
  /\ overrun' = TRUE
  /\ UNCHANGED <<plannerVars, mediaVars, pc, pass, kept, todo, cut, price, moves, refused,
                 note, checked, status>>

-----------------------------------------------------------------------------
(* The end of _create_plan.                                                *)

\* Mutant of StatusOf: steps that were refused a quote are not missed.
StatusOfDropped(x) ==
  IF Present(x) = {} THEN "infeasible" ELSE IF cut \/ overrun THEN "degraded" ELSE "ready"

StatusOf(x) ==
  IF Present(x) = {} THEN "infeasible"
  ELSE IF cut \/ overrun \/ Cardinality(Present(x)) < Cardinality(request.brief.formats)
       THEN "degraded" ELSE "ready"

\* Mutant of Final: the copy is not looked after a second time.
FinalAsDropped == steps
Final == WithText(steps)

Conclude ==
  /\ pc = "fit" /\ ~TooDear
  /\ steps' = Final
  /\ status' = StatusOf(steps')
  /\ pc' = "done"
  /\ UNCHANGED <<plannerVars, mediaVars, pass, kept, todo, cut, overrun, price, moves,
                 refused, note, checked>>

\* create_plan, from its first await to the saved plan.
CreatePlan ==
  \/ Fit \/ Draft \/ CheckLinks \/ PriceStep \/ Priced \/ Repriced \/ DropStep \/ Conclude

\* Nothing else runs while the plan is computed; links no brief names do not matter.
MediaStep ==
  /\ pc \notin {"plan", "fit"} /\ request.brief.refs # {}
  /\ MediaNext
  /\ UNCHANGED <<plannerVars, planVars>>

PlanningNext == Begin \/ CreatePlan \/ MediaStep

PlanningSpec == PlanningInit /\ [][PlanningNext]_vars

\* create_plan awaits nothing but answers, which come or fail.
PlanningFairSpec == PlanningSpec /\ WF_vars(CreatePlan)

-----------------------------------------------------------------------------
(* Properties.                                                             *)

\* A saved plan fits the envelope at the prices the platform confirmed, whatever moved
\* between the two passes of quotes (_drop_until_affordable, 376-396).
PlanFits == pc = "done" => Total(steps) <= Spendable

\* Every step of a saved plan that will be billed was quoted, at what the platform last
\* asked for that very model; prices that move may leave a first draft behind
\* (_price_steps, 268-327, and the draft _replan_with_exact_prices returns).
PlanIsQuoted ==
  pc = "done" =>
    \A f \in Billable(steps) :
      /\ steps[f].quoted
      /\ moves = 0 => steps[f].cost = price[f][steps[f].key]

\* A text that was asked for is in the saved plan, whatever was refused, dropped or
\* planned again (177-186).
TextIsDelivered ==
  pc = "done" /\ Text \in request.brief.formats => steps[Text].kind # "none"

\* A plan that calls itself READY has everything the brief asked for, and lost nothing
\* on the way to it (188-195).
ReadyIsComplete ==
  status = "ready" =>
    ~cut /\ ~overrun /\ Present(steps) = request.brief.formats

\* Priorities hold to the end: where no quote was refused, no format is paid for while
\* one before it, that had a candidate, is not (376-396 after 329-374).
PriorityIsKept ==
  pc = "done" /\ refused = {} =>
    \A f \in Billable(steps), g \in Formats :
      g < f /\ offer[g] # {} => g \in Billable(steps)

\* The catalogue is rounded up far enough: when it prices every format of the brief and
\* no price moves, the first draft fits as it is (price_bounds,
\* capabilities.py:198-274).
CatalogueIsEnough ==
  moves = 0 /\ (\A f \in request.brief.formats :
                 \A c \in Candidates(f, NothingExact) : c.known) =>
    pass = 1 /\ ~overrun

\* A link the plan was told nothing bad about still works when the days of the warning
\* have passed, whatever happens to it in the meantime (_media_warnings, 235-266).
QuietLinksOutlive ==
  \A u \in Urls : note[u] = "good" /\ clock <= checked + Threshold => clock < link[u]

\* A brief that is being planned becomes a plan: dropping, upgrading and re-planning end.
PlanningEnds == pc = "plan" ~> pc = "done"
=============================================================================
