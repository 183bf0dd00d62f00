------------------------------- MODULE Domain -------------------------------
(***************************************************************************)
(* The vocabulary of app/domain/plan.py: job and step statuses, the job    *)
(* document, and the pure functions of app/services/executor.py that       *)
(* conclude a step or a job.  One plan is modelled; its steps are          *)
(* 1..NSteps, in the order the executor walks them.                        *)
(***************************************************************************)
EXTENDS Integers, FiniteSets, Functions

CONSTANTS NSteps,   \* number of steps of the plan
          Kind      \* kind of each step, see StepKinds

\* "local": produced by the service itself, free.  "media": /generate answers
\* with a generation_id to poll.  "voiceover": a long voiceover, polled on an
\* endpoint of its own.  "text": answered synchronously, without an id.
StepKinds == {"local", "media", "voiceover", "text"}

Steps == 1..NSteps

ASSUME StepsAssumption == NSteps \in Nat \ {0} /\ Kind \in [Steps -> StepKinds]

Billable(s) == Kind[s] # "local"

-----------------------------------------------------------------------------
(* Statuses.  "absent" stands for a row that is not in its table.          *)

StepStatus == {"pending", "running", "succeeded", "failed", "skipped"}

TerminalJob == {"succeeded", "partial", "failed", "aborted"}
ActiveJob == {"queued", "running"}
JobStatus == {"pending"} \cup ActiveJob \cup TerminalJob

\* JobStep: status, whether generation_id is set (the id itself names the step:
\* the platform issues one per idempotency key, the key is the step's),
\* actual_cost_rub and is_long_voiceover.
StepDoc == [status: StepStatus, gen: BOOLEAN, cost: Nat, long: BOOLEAN]
FreshStep == [status |-> "pending", gen |-> FALSE, cost |-> 0, long |-> FALSE]

\* The job document.  Job.actual_cost_rub is always recomputed from the steps
\* before a save, so it is JobCost(doc) and not a field.
JobDoc == [status: JobStatus \cup {"absent"}, step: [Steps -> StepDoc]]
NoDoc == [status |-> "absent", step |-> [s \in Steps |-> FreshStep]]
NewDoc == [NoDoc EXCEPT !.status = "queued"]

\* sum(s.actual_cost_rub for s in job.steps)
SumOver(f) == SumFunction(f)
JobCost(doc) == SumOver([s \in Steps |-> doc.step[s].cost])

-----------------------------------------------------------------------------
(* Concluding a job.                                                       *)

Having(doc, status) == {s \in Steps : doc.step[s].status = status}

\* _aggregate_status
AggregateStatus(doc, aborted) ==
  LET succeeded == Having(doc, "succeeded") # {}
      clean == Having(doc, "failed") \cup Having(doc, "skipped") = {}
  IN  CASE aborted -> IF succeeded THEN "partial" ELSE "aborted"
        [] ~aborted /\ clean -> "succeeded"
        [] OTHER -> IF succeeded THEN "partial" ELSE "failed"

\* terminal_status_of: the status of a job none of whose steps is outstanding.
Outstanding(doc) == Having(doc, "pending") \cup Having(doc, "running") # {}
TerminalStatusOf(doc) == AggregateStatus(doc, FALSE)

-----------------------------------------------------------------------------
(* Concluding a step.  A verdict is the terminal status payload of the     *)
(* platform: whether it succeeded and what it finally cost.                *)

Verdicts == [ok: BOOLEAN, refunded: BOOLEAN, cost: Nat]

\* Mutants of ApplyOutcome: any terminal payload is a success; the refund of a
\* failed generation is missed; a step that failed once stays failed.
ApplyOutcomeIgnoringVerdict(step, verdict) ==
  [step EXCEPT !.status = "succeeded", !.cost = verdict.cost]
ApplyOutcomeKeepingCost(step, verdict) ==
  [step EXCEPT !.status = IF verdict.ok THEN "succeeded" ELSE "failed"]
ApplyOutcomeKeepingFailure(step, verdict) ==
  [step EXCEPT !.status = IF verdict.ok /\ @ # "failed" THEN "succeeded" ELSE "failed",
               !.cost = verdict.cost]

\* apply_outcome, shared by the executor and the reconciler.
ApplyOutcome(step, verdict) ==
  [step EXCEPT !.status = IF verdict.ok THEN "succeeded" ELSE "failed",
               !.cost = IF ~verdict.ok /\ verdict.refunded THEN 0
                        ELSE verdict.cost]
=============================================================================
