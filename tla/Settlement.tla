----------------------------- MODULE Settlement -----------------------------
(***************************************************************************)
(* Who else settles a step.  Beside the run that launched it, the webhook  *)
(* of the platform (app/api/routers/webhooks.py) and the reconciler        *)
(* (app/services/reconciler.py) write verdicts into the same job documents *)
(* and ledger rows: each reads a document, changes it and writes it back   *)
(* whole, with awaits in between.                                          *)
(***************************************************************************)
EXTENDS Execution

CONSTANTS Hooks,           \* webhook requests served at the same time
          MaxDeliveries,   \* bound: webhooks the platform sends for a step
          Reconciles       \* whether the reconciler runs

ASSUME SettlementAssumption == MaxDeliveries \in Nat /\ Reconciles \in BOOLEAN

VARIABLES hook,        \* what each webhook request is doing
          sent,        \* webhooks sent for each step
          reconciler   \* what the sweep is doing

settlementVars == <<hook, sent, reconciler>>
allVars == <<vars, settlementVars>>

\* A request holds the job document it read and the step it is about.
HookRun == [pc: {"idle", "save", "ledger"}, step: Steps, job: Jobs \cup {NoJob},
            doc: JobDoc]
IdleHook == [pc |-> "idle", step |-> 1, job |-> NoJob, doc |-> NoDoc]

\* The sweep holds the stale steps it has still to ask about, and the document
\* it read for the current one.
Sweep == [pc: {"idle", "read", "ask", "save", "ledger"}, todo: SUBSET Steps,
          step: Steps, job: Jobs \cup {NoJob}, doc: JobDoc]
IdleSweep == [pc |-> "idle", todo |-> {}, step |-> 1, job |-> NoJob, doc |-> NoDoc]

SettlementTypeOK ==
  /\ TypeOK
  /\ hook \in [Hooks -> HookRun]
  /\ sent \in [Steps -> 0..MaxDeliveries]
  /\ reconciler \in Sweep

SettlementInit ==
  /\ Init
  /\ hook = [h \in Hooks |-> IdleHook]
  /\ sent = [s \in Steps |-> 0]
  /\ reconciler = IdleSweep

-----------------------------------------------------------------------------
(* The webhook (vibe_webhook, _apply).  Its signature has been verified.   *)

\* Mutants of HookStatus: the word of the payload is kept; any callback is a success.
HookStatusVerbatim(verdict) == IF verdict.ok THEN "complete" ELSE "error"
HookStatusSuccess(verdict) == "succeeded"

\* _step_status and _cost read the payload by rules of their own.
HookStatus(verdict) == IF verdict.ok THEN "succeeded" ELSE "failed"
HookCost(verdict) == IF verdict.refunded THEN 0 ELSE verdict.cost

\* A step that succeeded is left alone; the job is concluded when nothing is
\* outstanding and it has not ended.
HookDoc(doc, s, verdict) ==
  LET applied == [doc EXCEPT !.step[s] = [@ EXCEPT
                    !.status = HookStatus(verdict), !.cost = HookCost(verdict)]] IN
  IF doc.step[s].status = "succeeded" THEN doc
  ELSE IF Outstanding(applied) \/ doc.status \in TerminalJob THEN applied
  ELSE [applied EXCEPT !.status = TerminalStatusOf(applied)]

\* find_by_generation: the ledger row with that generation names the job.
Found(s) == ledger[s].gen

\* The platform calls back once it has decided, again when it repeats itself.
ReceiveHook(h, s) ==
  /\ up = "up" /\ recovering = {} /\ hook[h].pc = "idle"
  /\ Decided(s) /\ Kind[s] # "text" /\ sent[s] < MaxDeliveries
  /\ sent' = [sent EXCEPT ![s] = @ + 1]
  /\ \/ /\ Found(s)
        /\ hook' = [hook EXCEPT ![h] =
             [pc |-> "save", step |-> s, job |-> ledger[s].job,
              doc |-> HookDoc(jobs[ledger[s].job], s, Verdict(s))]]
     \/ ~Found(s) /\ UNCHANGED hook
  /\ UNCHANGED <<vars, reconciler>>

SaveHook(h) ==
  /\ hook[h].pc = "save"
  /\ SaveJobDoc(hook[h].job, hook[h].doc)
  /\ hook' = [hook EXCEPT ![h].pc = "ledger"]
  /\ UNCHANGED <<platformVars, plan, ledger, processVars, run, guard, boundVars,
                 sent, reconciler>>

\* The row takes the payload even when the document was left alone.
SettleHook(h) ==
  LET s == hook[h].step IN
  /\ hook[h].pc = "ledger"
  /\ UpdateStep(s, HookStatus(Verdict(s)), TRUE, HookCost(Verdict(s)))
  /\ hook' = [hook EXCEPT ![h] = IdleHook]
  /\ UNCHANGED <<platformVars, jobs, plan, processVars, run, guard, boundVars,
                 sent, reconciler>>

-----------------------------------------------------------------------------
(* The reconciler (sweep, _reconcile).                                     *)

\* stale_steps: launched, without a verdict, in a job that has ended.  Their
\* minimum age is a delay and leaves no trace.
Stale(s) ==
  /\ ledger[s].status = "running" /\ ledger[s].gen
  /\ Status(ledger[s].job) \in TerminalJob

Sweeping(point) == up = "up" /\ reconciler.pc = point
NextStale == [IdleSweep EXCEPT !.todo = reconciler.todo,
                !.pc = IF reconciler.todo = {} THEN "idle" ELSE "read"]

BeginSweep ==
  LET stale == {s \in Steps : Stale(s)} IN
  /\ Sweeping("idle") /\ Reconciles /\ recovering = {} /\ stale # {}
  /\ reconciler' = [IdleSweep EXCEPT !.pc = "read", !.todo = stale]
  /\ UNCHANGED <<vars, hook, sent>>

\* The document is read for one of the rows; a step the document knows no
\* generation of is passed over.
ReadStale(s) ==
  LET job == ledger[s].job
      rest == reconciler.todo \ {s} IN
  /\ Sweeping("read") /\ s \in reconciler.todo
  /\ \/ /\ jobs[job].step[s].gen
        /\ reconciler' = [pc |-> "ask", todo |-> rest, step |-> s, job |-> job,
                          doc |-> jobs[job]]
     \/ /\ ~jobs[job].step[s].gen
        /\ reconciler' = [IdleSweep EXCEPT !.todo = rest,
                            !.pc = IF rest = {} THEN "idle" ELSE "read"]
  /\ UNCHANGED <<vars, hook, sent>>

\* _final_status: the platform's verdict, or an error made up for a generation
\* the endpoint does not know (404).
Unfound(s) == Kind[s] = "voiceover" /\ ~reconciler.doc.step[s].long
FinalVerdict(s) ==
  IF Unfound(s)
  THEN [ok |-> FALSE, refunded |-> FALSE, cost |-> reconciler.doc.step[s].cost]
  ELSE Verdict(s)

\* _rewrite_job
RewrittenDoc(doc, s, verdict) ==
  LET applied == [doc EXCEPT !.step[s] = ApplyOutcome(@, verdict)] IN
  IF Outstanding(applied) THEN applied
  ELSE [applied EXCEPT !.status = TerminalStatusOf(applied)]

AskPlatform ==
  LET s == reconciler.step IN
  /\ Sweeping("ask")
  /\ \/ /\ Unfound(s) \/ Decided(s)
        /\ reconciler' = [reconciler EXCEPT !.pc = "save",
             !.doc = RewrittenDoc(@, s, FinalVerdict(s))]
     \/ /\ ~Unfound(s)
        /\ ~Decided(s) \/ "poll" \in Faults
        /\ reconciler' = NextStale
  /\ UNCHANGED <<vars, hook, sent>>

SaveReconciled ==
  /\ Sweeping("save")
  /\ SaveJobDoc(reconciler.job, reconciler.doc)
  /\ reconciler' = [reconciler EXCEPT !.pc = "ledger"]
  /\ UNCHANGED <<platformVars, plan, ledger, processVars, run, guard, boundVars,
                 hook, sent>>

\* Mutant of SettleReconciled: the job is rewritten and its ledger row is not.
SettleNothing ==
  /\ Sweeping("ledger")
  /\ reconciler' = NextStale
  /\ UNCHANGED <<vars, hook, sent>>

SettleReconciled ==
  LET s == reconciler.step
      step == reconciler.doc.step[s] IN
  /\ Sweeping("ledger")
  /\ UpdateStep(s, step.status, step.gen, step.cost)
  /\ reconciler' = NextStale
  /\ UNCHANGED <<platformVars, jobs, plan, processVars, run, guard, boundVars,
                 hook, sent>>

-----------------------------------------------------------------------------
(* The specification.                                                      *)

HookStep(h) == up # "down" /\ (SaveHook(h) \/ SettleHook(h))
ReconcilerStep ==
  \/ BeginSweep \/ AskPlatform \/ SaveReconciled \/ SettleReconciled
  \/ \E s \in Steps : ReadStale(s)

\* What Execution does.  The reconciler is cancelled before the workers are,
\* an orderly stop waits for requests, a kill takes them along.
ExecutionStep ==
  /\ Next
  /\ up' # up /\ up' = "stopping" => \A h \in Hooks : hook[h].pc = "idle"
  /\ hook' = IF up' = "down" THEN [h \in Hooks |-> IdleHook] ELSE hook
  /\ reconciler' = IF up' = "up" THEN reconciler ELSE IdleSweep
  /\ UNCHANGED sent

SettlementNext ==
  \/ ExecutionStep
  \/ \E h \in Hooks, s \in Steps : ReceiveHook(h, s)
  \/ \E h \in Hooks : HookStep(h)
  \/ ReconcilerStep

SettlementSpec == SettlementInit /\ [][SettlementNext]_allVars

\* The sweep runs periodically, requests in flight are served; the platform
\* finishes what it started, but need not call back.
SettlementFairness ==
  /\ \A p \in Procs : WF_allVars(Advance(p) /\ ExecutionStep)
  /\ \A c \in Callers : WF_allVars(Enter(c) /\ ExecutionStep)
  /\ \A w \in Workers : WF_allVars((Take(w) \/ Cancel(w)) /\ ExecutionStep)
  /\ \A j \in Jobs : WF_allVars(Recover(j) /\ ExecutionStep)
  /\ WF_allVars((Stopped \/ Restart) /\ ExecutionStep)
  /\ \A s \in Steps : WF_allVars(Conclude(s) /\ ExecutionStep)
  /\ \A h \in Hooks : WF_allVars(HookStep(h))
  /\ WF_allVars(ReconcilerStep)

SettlementFairSpec == SettlementSpec /\ SettlementFairness

-----------------------------------------------------------------------------
(* Properties.                                                             *)

\* A verdict of success in the ledger is not lost again, whoever wrote it and
\* whoever writes next - run, webhook, repeated webhook or reconciler - but for a
\* run whose own call to the platform failed after the callback had come.
LedgerKeepsSuccess ==
  [][\A s \in Steps : ledger[s].status = "succeeded" =>
       \/ ledger'[s].status = "succeeded"
       \/ \E p \in Procs : run[p].pc = "fail" /\ run[p].cur = s]_allVars

\* The job document tells what became of a generation and what it cost.
Reported(j, s) ==
  /\ Decided(s)
  /\ jobs[j].step[s].status = HookStatus(Verdict(s))
  /\ jobs[j].step[s].cost = NetCost(s)

Ended(j) == Status(j) \in TerminalJob

\* A job that ended with a generation it knows of ends up reporting the verdict
\* and the final cost of that generation: the reconciler closes the gap a poll
\* timeout or a budget stop leaves (reconciler.py:3-12).
KnownGenerationsAreReported ==
  \A j \in Jobs, s \in Steps :
    Ended(j) /\ jobs[j].step[s].gen ~> Ended(j) /\ Reported(j, s)

\* While prices stay where they are, a launched step without a verdict does not
\* stay that way in a job that ended, whatever was killed between its launch and
\* the save of its job.
StaleIsSettled == \A s \in Steps : Stale(s) ~> ~Stale(s)

-----------------------------------------------------------------------------
(* What the documentation says and the code does not do.                   *)

\* "In every one of those cases" - timeout, lost webhook, process killed mid-wait
\* - "this sweeper closes that gap" (reconciler.py:3-12): what the ledger knows to
\* be launched is reported in the end.
LaunchedGenerationsAreReported ==
  \A j \in Jobs, s \in Steps :
    Ended(j) /\ ledger[s].gen ~> Ended(j) /\ Reported(j, s)
=============================================================================
