----------------------------- MODULE Execution -----------------------------
(***************************************************************************)
(* The path of the money: a confirmed plan is admitted as a job, a worker  *)
(* claims the job, re-checks the prices and runs the steps one by one,     *)
(* each against the step ledger and the platform; the process may be       *)
(* stopped or killed at any await and recovers at the next start.          *)
(*                                                                         *)
(* The service is one asyncio process over one SQLite connection whose     *)
(* statements run one at a time, each committed, so control only changes   *)
(* hands at an await: an action is what runs between two awaits that touch *)
(* the database or the platform.                                           *)
(***************************************************************************)
EXTENDS Platform, BudgetGuard, Sequences

CONSTANTS Jobs,        \* job ids that execute_plan may draw
          NoJob,       \* no job
          Workers,     \* worker tasks of the JobQueue
          Callers,     \* concurrent calls of POST /plans/{id}/execute
          Inline,      \* the callers that pass wait=True
          Tolerance,   \* PRICE_TOLERANCE_RUB
          Faults,      \* what may go wrong, see FaultKinds
          MaxHalts,    \* bound: stops and kills of the process
          MaxRedeliveries   \* bound: ids the queue delivers again

\* "kill": the process dies at any await.  "stop": it is stopped in order.
\* "estimate", "account": /estimate or /me and /balance fail.  "request": a
\* /generate is refused or never arrives.  "reply": it is billed and its answer
\* lost.  "poll": a status call fails for good.
FaultKinds == {"kill", "stop", "estimate", "account", "request", "reply", "poll"}

Procs == Workers \cup Callers

ASSUME ExecutionAssumption ==
  /\ NoJob \notin Jobs
  /\ Inline \subseteq Callers
  /\ Tolerance \in Nat
  /\ Faults \subseteq FaultKinds
  /\ MaxHalts \in Nat /\ MaxRedeliveries \in Nat

VARIABLES
  \* the database
  jobs,        \* table jobs: the document of each job
  plan,        \* the plan document: status, job_id, estimate of each step
  ledger,      \* table step_executions: one row per step of the plan
  \* the process
  up,          \* "up", "stopping" or "down"
  recovering,  \* unfinished jobs startup recovery has not re-queued yet
  queue,       \* JobQueue._queue
  run,         \* what each worker or caller is doing
  guard,       \* its BudgetGuard
  \* bounds
  halts, redeliveries

storeVars == <<jobs, plan, ledger>>
processVars == <<up, recovering, queue>>
boundVars == <<halts, redeliveries>>
vars == <<platformVars, storeVars, processVars, run, guard, boundVars>>

-----------------------------------------------------------------------------
(* State.                                                                  *)

Estimates == [Steps -> Nat]
PlanDoc == [status: {"ready", "executed"}, job: Jobs \cup {NoJob}, est: Estimates]

LedgerRow == [status: StepStatus \cup {"absent"}, gen: BOOLEAN, cost: Nat,
              job: Jobs \cup {NoJob}]
NoRow == [status |-> "absent", gen |-> FALSE, cost |-> 0, job |-> NoJob]

\* Where a call of execute_plan, of _run_job or of Executor.run is suspended.
AdmissionPoints == {"save_job", "save_plan", "accept"}
LaunchPoints == {"load", "recheck", "abort", "plan", "start"}
StepPoints == {"claim_step", "insert", "send", "sent", "record", "poll",
               "settle", "fail", "broken"}
OwningPoints == LaunchPoints \cup StepPoints \cup {"next", "save"}
Points == AdmissionPoints \cup OwningPoints \cup {"idle", "claim", "done"}

Run == [pc: Points, job: Jobs \cup {NoJob}, doc: JobDoc, est: Estimates,
        cur: 1..(NSteps + 1), stopped: BOOLEAN]
IdleRun == [pc |-> "idle", job |-> NoJob, doc |-> NoDoc, est |-> InitialPrice,
            cur |-> 1, stopped |-> FALSE]
DoneRun(j) == [IdleRun EXCEPT !.pc = "done", !.job = j]

\* committed_rub, the total of the price re-check, the balance it knows, and
\* whether the re-check met a blocker.
NewGuard == [committed |-> 0, total |-> 0, account |-> Unknown, blocked |-> FALSE]
GuardOK == guard \in [Procs -> [committed: Nat, total: Nat, account: Int,
                                blocked: BOOLEAN]]

StoreOK ==
  /\ jobs \in [Jobs -> JobDoc]
  /\ plan \in PlanDoc
  /\ ledger \in [Steps -> LedgerRow]

ProcessOK ==
  /\ up \in {"up", "stopping", "down"}
  /\ recovering \subseteq Jobs
  /\ queue \in Seq(Jobs)
  /\ run \in [Procs -> Run]
  /\ halts \in Nat /\ redeliveries \in Nat

TypeOK == PlatformTypeOK /\ StoreOK /\ ProcessOK

Init ==
  /\ PlatformInit
  /\ jobs = [j \in Jobs |-> NoDoc]
  /\ plan = [status |-> "ready", job |-> NoJob, est |-> InitialPrice]
  /\ ledger = [s \in Steps |-> NoRow]
  /\ up = "up" /\ recovering = {} /\ queue = << >>
  /\ run = [p \in Procs |-> IdleRun]
  /\ guard = [p \in Procs |-> NewGuard]
  /\ halts = 0 /\ redeliveries = 0

Owns(p) == run[p].pc \in OwningPoints
Status(j) == jobs[j].status
Saved == {j \in Jobs : Status(j) # "absent"}

\* A process only moves while the service is up.
At(p, point) == up = "up" /\ run[p].pc = point
Goto(p, point) == run' = [run EXCEPT ![p].pc = point]

\* A worker returns to the queue, a caller answers its request.
Left(p) == IF p \in Workers THEN IdleRun ELSE DoneRun(run[p].job)
Leave(p) == run' = [run EXCEPT ![p] = Left(p)]

-----------------------------------------------------------------------------
(* Repository statements (app/repositories/jobs.py).                       *)

SaveJobDoc(j, doc) == jobs' = [jobs EXCEPT ![j] = doc]
SavePlanDoc(status, j, est) == plan' = [status |-> status, job |-> j, est |-> est]

\* requeue: an unconditional UPDATE.
RequeueJob(j) == jobs' = [jobs EXCEPT ![j].status = "queued"]

\* Mutant of Claimable: the UPDATE does not ask whether the job is taken.
ClaimableActive(j) == Status(j) \in ActiveJob

\* claim_for_execution: a conditional UPDATE, queued to running.
Claimable(j) == Status(j) = "queued"

\* update_step touches an existing row only; generation_id and actual_cost_rub
\* are kept when the statement passes none (COALESCE).
NoCost == -1

\* Mutant of UpdateStep: no COALESCE around the cost.
UpdateStepOverwriting(s, status, gen, cost) ==
  ledger' = IF ledger[s].status = "absent" THEN ledger
            ELSE [ledger EXCEPT ![s].status = status, ![s].gen = @ \/ gen,
                                ![s].cost = cost]

UpdateStep(s, status, gen, cost) ==
  ledger' = IF ledger[s].status = "absent" THEN ledger
            ELSE [ledger EXCEPT ![s].status = status,
                                ![s].gen = @ \/ gen,
                                ![s].cost = IF cost = NoCost THEN @ ELSE cost]

-----------------------------------------------------------------------------
(* Admission (PlanService.execute_plan).                                   *)

\* A job that a second call is answered with.
Replayed(j) == Status(j) \in TerminalJob \cup ActiveJob

\* uuid4: an id nobody has drawn.
UnusedJobs == {j \in Jobs \ Saved : \A c \in Callers : run[c].job # j}

Execute(c) ==
  /\ At(c, "idle") /\ recovering = {}
  /\ \/ \E j \in Saved :
          Replayed(j) /\ run' = [run EXCEPT ![c] = DoneRun(j)]
     \/ /\ \A j \in Saved : ~Replayed(j)
        /\ \E j \in UnusedJobs :
             run' = [run EXCEPT ![c].pc = "save_job", ![c].job = j,
                                ![c].est = plan.est]
  /\ UNCHANGED <<platformVars, storeVars, processVars, guard, boundVars>>

SaveNewJob(c) ==
  /\ At(c, "save_job")
  /\ SaveJobDoc(run[c].job, NewDoc)
  /\ Goto(c, "save_plan")
  /\ UNCHANGED <<platformVars, plan, ledger, processVars, guard, boundVars>>

\* plans.save writes back the whole document the call read, status included.
SaveNewPlan(c) ==
  /\ At(c, "save_plan")
  /\ SavePlanDoc("ready", run[c].job, run[c].est)
  /\ Goto(c, "accept")
  /\ UNCHANGED <<platformVars, jobs, ledger, processVars, guard, boundVars>>

\* wait=True runs the job in the call, otherwise its id goes to the queue.
Accept(c) ==
  /\ At(c, "accept")
  /\ \/ /\ c \in Inline
        /\ Goto(c, "claim")
        /\ UNCHANGED queue
     \/ /\ c \notin Inline
        /\ queue' = Append(queue, run[c].job)
        /\ Leave(c)
  /\ UNCHANGED <<platformVars, storeVars, up, recovering, guard, boundVars>>

-----------------------------------------------------------------------------
(* Taking a job (JobQueue._worker, PlanService._run_job).                  *)

\* The queue may be swapped for one that delivers an id at least once.
Take(w) ==
  /\ At(w, "idle") /\ queue # << >>
  /\ run' = [run EXCEPT ![w].pc = "claim", ![w].job = Head(queue)]
  /\ \/ queue' = Tail(queue) /\ UNCHANGED redeliveries
     \/ /\ redeliveries < MaxRedeliveries
        /\ redeliveries' = redeliveries + 1
        /\ UNCHANGED queue
  /\ UNCHANGED <<platformVars, storeVars, up, recovering, guard, halts>>

Claim(p) ==
  /\ At(p, "claim")
  /\ \/ /\ Claimable(run[p].job)
        /\ jobs' = [jobs EXCEPT ![run[p].job].status = "running"]
        /\ Goto(p, "load")
     \/ /\ ~Claimable(run[p].job)
        /\ Leave(p)
        /\ UNCHANGED jobs
  /\ UNCHANGED <<platformVars, plan, ledger, processVars, guard, boundVars>>

\* Steps the document knows to be launched: the job is resumed and its prices
\* are not checked again.
Resumed(doc) == \E s \in Steps : doc.step[s].gen

\* Mutant of CommittedBy: a resumed job starts with an empty guard.
CommittedByNothing(doc) == 0

\* What a resumed job has committed already.
CommittedBy(doc) == IF Resumed(doc) THEN JobCost(doc) ELSE 0

\* What /me and /balance tell about the account.
Snapshots == {funds} \cup (IF "account" \in Faults THEN {Unknown} ELSE {})

Load(p) ==
  /\ At(p, "load")
  /\ LET doc == jobs[run[p].job] IN
     /\ run' = [run EXCEPT ![p].doc = doc, ![p].est = plan.est,
                           ![p].pc = IF Resumed(doc) THEN "plan" ELSE "recheck"]
     /\ \E account \in Snapshots :
          guard' = [guard EXCEPT ![p] = [NewGuard EXCEPT
                      !.account = account, !.committed = CommittedBy(doc)]]
  /\ UNCHANGED <<platformVars, storeVars, processVars, boundVars>>

-----------------------------------------------------------------------------
(* Re-checking prices (_recheck_prices, _abort_job).                       *)

Dearer(p, s) == price[s] - run[p].est[s] > Tolerance
Cheaper(p, s) == price[s] - run[p].est[s] < -Tolerance

\* One step is priced again: it blocks the job, or it counts, at the lower price
\* when that fell.  The answer also refreshes the account.
Recheck(p) ==
  LET s == run[p].cur IN
  /\ At(p, "recheck") /\ s <= NSteps
  /\ \/ /\ ~Billable(s)
        /\ run' = [run EXCEPT ![p].cur = @ + 1]
        /\ UNCHANGED guard
     \/ /\ Billable(s)
        /\ Dearer(p, s) \/ "estimate" \in Faults
        /\ run' = [run EXCEPT ![p].cur = @ + 1]
        /\ guard' = [guard EXCEPT ![p].blocked = TRUE]
     \/ /\ Billable(s) /\ ~Dearer(p, s)
        /\ run' = [run EXCEPT ![p].cur = @ + 1,
                              ![p].est[s] = IF Cheaper(p, s) THEN price[s] ELSE @]
        /\ guard' = [guard EXCEPT ![p].total = @ + price[s], ![p].account = funds]
  /\ UNCHANGED <<platformVars, storeVars, processVars, boundVars>>

Blocked(p) ==
  \/ guard[p].blocked
  \/ guard[p].total > Spendable
  \/ guard[p].account = Unknown
  \/ guard[p].total > guard[p].account

Rechecked(p) ==
  /\ At(p, "recheck") /\ run[p].cur > NSteps
  /\ run' = [run EXCEPT ![p].cur = 1,
                        ![p].pc = IF Blocked(p) THEN "abort" ELSE "plan"]
  /\ UNCHANGED <<platformVars, storeVars, processVars, guard, boundVars>>

\* The document of a job stopped before it runs.
AbortedDoc(doc) ==
  [status |-> "aborted",
   step |-> [s \in Steps |->
     IF doc.step[s].status = "pending"
     THEN [doc.step[s] EXCEPT !.status = "skipped"] ELSE doc.step[s]]]

Abort(p) ==
  /\ At(p, "abort")
  /\ SaveJobDoc(run[p].job, AbortedDoc(run[p].doc))
  /\ Leave(p)
  /\ UNCHANGED <<platformVars, plan, ledger, processVars, guard, boundVars>>

SavePlan(p) ==
  /\ At(p, "plan")
  /\ SavePlanDoc("executed", run[p].job, run[p].est)
  /\ Goto(p, "start")
  /\ UNCHANGED <<platformVars, jobs, ledger, processVars, guard, boundVars>>

-----------------------------------------------------------------------------
(* Walking the steps (Executor.run).                                       *)

StartRun(p) ==
  /\ At(p, "start")
  /\ LET doc == [run[p].doc EXCEPT !.status = "running"] IN
     /\ SaveJobDoc(run[p].job, doc)
     /\ run' = [run EXCEPT ![p].doc = doc, ![p].pc = "next"]
  /\ UNCHANGED <<platformVars, plan, ledger, processVars, guard, boundVars>>

\* The step of the document the run stands at, and what becomes of it.
Step(p) == run[p].doc.step[run[p].cur]
Leaving(p, step, point) ==
  run' = [run EXCEPT ![p].doc.step[run[p].cur] = step, ![p].pc = point]

\* Nothing to do for a step after a budget stop, or done in an earlier run.
PassStep(p) ==
  /\ At(p, "next") /\ run[p].cur <= NSteps
  /\ run[p].stopped \/ Step(p).status = "succeeded"
  /\ run' = [run EXCEPT ![p].cur = @ + 1, ![p].doc.step[run[p].cur].status =
                          IF run[p].stopped THEN "skipped" ELSE @]
  /\ UNCHANGED <<platformVars, storeVars, processVars, guard, boundVars>>

\* A local step succeeds at once; its update_step finds no ledger row.
BeginStep(p) ==
  /\ At(p, "next") /\ run[p].cur <= NSteps
  /\ ~run[p].stopped /\ Step(p).status # "succeeded"
  /\ \/ /\ Billable(run[p].cur)
        /\ Leaving(p, [Step(p) EXCEPT !.status = "running"], "claim_step")
     \/ /\ ~Billable(run[p].cur)
        /\ Leaving(p, [Step(p) EXCEPT !.status = "succeeded", !.cost = 0], "save")
  /\ UNCHANGED <<platformVars, storeVars, processVars, guard, boundVars>>

\* The finally clause after every step.
SaveStep(p) ==
  /\ At(p, "save")
  /\ SaveJobDoc(run[p].job, run[p].doc)
  /\ run' = [run EXCEPT ![p].cur = @ + 1, ![p].pc = "next"]
  /\ UNCHANGED <<platformVars, plan, ledger, processVars, guard, boundVars>>

FinishRun(p) ==
  /\ At(p, "next") /\ run[p].cur > NSteps
  /\ SaveJobDoc(run[p].job, [run[p].doc EXCEPT
                 !.status = AggregateStatus(run[p].doc, run[p].stopped)])
  /\ Leave(p)
  /\ UNCHANGED <<platformVars, plan, ledger, processVars, guard, boundVars>>

-----------------------------------------------------------------------------
(* One step (Executor._run_step).                                          *)

\* BudgetExceededError: the step is skipped and the plan stops.  VibeError: the
\* step fails, and the plan stops when the platform says there is no money.
SkipStep(p, step) ==
  run' = [run EXCEPT ![p].doc.step[run[p].cur] = [step EXCEPT !.status = "skipped"],
                     ![p].stopped = TRUE, ![p].pc = "save"]
FailStep(p, stop) ==
  run' = [run EXCEPT ![p].doc.step[run[p].cur].status = "failed",
                     ![p].stopped = stop, ![p].pc = "fail"]

\* guard.check_all on the price the plan now has for the step.
MayLaunch(p) ==
  CheckAll(run[p].est[run[p].cur], guard[p].committed, guard[p].account)

\* Mutant of AlreadyLaunched: a launched step that failed is launched again.
AlreadyRunning(row) == row.gen /\ row.status = "running"

\* A row that names a generation has been paid for.
AlreadyLaunched(row) == row.gen

\* claim_step reads the row.  A launched step is only awaited; a claimed one is
\* launched if the budget allows it; no row yet, and it is inserted.
ReadClaim(p) ==
  /\ At(p, "claim_step")
  /\ LET row == ledger[run[p].cur] IN
     \/ row.status = "absent" /\ Goto(p, "insert")
     \/ /\ row.status # "absent" /\ AlreadyLaunched(row)
        /\ Leaving(p, [Step(p) EXCEPT !.gen = TRUE], "poll")
     \/ /\ row.status # "absent" /\ ~AlreadyLaunched(row)
        /\ \/ MayLaunch(p) /\ Goto(p, "send")
           \/ ~MayLaunch(p) /\ SkipStep(p, Step(p))
  /\ UNCHANGED <<platformVars, storeVars, processVars, guard, boundVars>>

\* Mutant of InsertClaim: the launch does not wait for the row.
InsertNothing(p) ==
  /\ At(p, "insert") /\ Goto(p, "send")
  /\ UNCHANGED <<platformVars, storeVars, processVars, guard, boundVars>>

\* The row is inserted and read back; a rival's row violates the primary key.
InsertClaim(p) ==
  LET s == run[p].cur IN
  /\ At(p, "insert")
  /\ \/ /\ ledger[s].status = "absent"
        /\ ledger' = [ledger EXCEPT ![s] = [status |-> "pending", gen |-> FALSE,
                                            cost |-> 0, job |-> run[p].job]]
        /\ Goto(p, "claim_step")
     \/ /\ ledger[s].status # "absent"
        /\ Goto(p, "broken")
        /\ UNCHANGED ledger
  /\ UNCHANGED <<platformVars, jobs, plan, processVars, guard, boundVars>>

\* An error that is no VibeError leaves the run: the step is saved on the way
\* out, the worker logs it and takes the next job.
BreakRun(p) ==
  /\ At(p, "broken")
  /\ SaveJobDoc(run[p].job, run[p].doc)
  /\ Leave(p)
  /\ UNCHANGED <<platformVars, plan, ledger, processVars, guard, boundVars>>

\* POST /generate, its retries under the same key included.
SendGenerate(p) ==
  /\ At(p, "send")
  /\ \/ Generate(run[p].cur) /\ Goto(p, "sent")
     \/ Refuses(run[p].cur) /\ FailStep(p, TRUE) /\ UNCHANGED platformVars
     \/ "request" \in Faults /\ FailStep(p, FALSE) /\ UNCHANGED platformVars
  /\ UNCHANGED <<storeVars, processVars, guard, boundVars>>

\* Mutant of Charged: the estimate is recorded, not the charge.
ChargedAsPlanned(p) == run[p].est[run[p].cur]

\* The cost /generate answers with.
Charged(p) == gens[run[p].cur].bill

ReceiveReply(p) ==
  LET s == run[p].cur IN
  /\ At(p, "sent")
  /\ \/ Leaving(p, [Step(p) EXCEPT !.gen = Kind[s] # "text", !.cost = Charged(p),
                                   !.long = Kind[s] = "voiceover"], "record")
     \/ "reply" \in Faults /\ FailStep(p, FALSE)
  /\ UNCHANGED <<platformVars, storeVars, processVars, guard, boundVars>>

\* The charge is written to the ledger and then committed to the guard, which
\* counts it even when it does not fit any more.
RecordCharge(p) ==
  LET s == run[p].cur
      fits == Check(Step(p).cost, guard[p].committed) IN
  /\ At(p, "record")
  /\ UpdateStep(s, "running", Step(p).gen, Step(p).cost)
  /\ guard' = [guard EXCEPT ![p].committed = @ + Step(p).cost]
  /\ \/ ~fits /\ SkipStep(p, Step(p))
     \/ fits /\ Step(p).gen /\ Goto(p, "poll")
     \/ /\ fits /\ ~Step(p).gen /\ Decided(s)
        /\ Leaving(p, ApplyOutcome(Step(p), Verdict(s)), "settle")
     \/ /\ fits /\ ~Step(p).gen /\ ~Decided(s)
        /\ Leaving(p, [Step(p) EXCEPT !.status = "failed"], "save")
  /\ UNCHANGED <<platformVars, jobs, plan, processVars, boundVars>>

\* A voiceover polled on the endpoint of generations is not found there.
Misdirected(p) == Kind[run[p].cur] = "voiceover" /\ ~Step(p).long

\* Mutant of Recount: the final cost is not committed again.
ReleasedOnly(committed, before, final) == Release(committed, before)

\* guard.release of what was committed, then the final cost.
Recount(committed, before, final) ==
  IF final = before THEN committed ELSE Release(committed, before) + final

\* Waiting for the verdict: it comes, the wait times out on a platform still
\* working, or a status call fails for good.
Poll(p) ==
  LET s == run[p].cur
      final == ApplyOutcome(Step(p), Verdict(s)) IN
  /\ At(p, "poll")
  /\ \/ /\ ~Misdirected(p) /\ Decided(s)
        /\ Leaving(p, final, "settle")
        /\ guard' = [guard EXCEPT ![p].committed =
                       Recount(@, Step(p).cost, final.cost)]
     \/ /\ ~Misdirected(p) /\ ~Decided(s)
        /\ Leaving(p, [Step(p) EXCEPT !.status = "failed"], "save")
        /\ UNCHANGED guard
     \/ /\ Misdirected(p) \/ "poll" \in Faults
        /\ FailStep(p, FALSE)
        /\ UNCHANGED guard
  /\ UNCHANGED <<platformVars, storeVars, processVars, boundVars>>

Settle(p) ==
  /\ At(p, "settle")
  /\ UpdateStep(run[p].cur, Step(p).status, Step(p).gen, Step(p).cost)
  /\ Goto(p, "save")
  /\ UNCHANGED <<platformVars, jobs, plan, processVars, guard, boundVars>>

RecordFailure(p) ==
  /\ At(p, "fail")
  /\ UpdateStep(run[p].cur, "failed", FALSE, NoCost)
  /\ Goto(p, "save")
  /\ UNCHANGED <<platformVars, jobs, plan, processVars, guard, boundVars>>

-----------------------------------------------------------------------------
(* Stopping, dying and starting (JobQueue.stop, main.lifespan).            *)

Idle(p) == run[p].pc \in {"idle", "done"}

\* The server waits for requests in flight before it cancels the workers.
Stop ==
  /\ up = "up" /\ recovering = {}
  /\ "stop" \in Faults /\ halts < MaxHalts
  /\ \A c \in Callers : Idle(c)
  /\ up' = "stopping"
  /\ UNCHANGED <<platformVars, storeVars, recovering, queue, run, guard, boundVars>>

\* A cancelled worker still runs the finally clause of its step; cancelled in
\* that clause, it may or may not have saved.
Cancel(w) ==
  /\ up = "stopping" /\ ~Idle(w)
  /\ \/ /\ run[w].pc \in StepPoints \cup {"save"}
        /\ SaveJobDoc(run[w].job, run[w].doc)
     \/ run[w].pc \notin StepPoints /\ UNCHANGED jobs
  /\ Leave(w)
  /\ UNCHANGED <<platformVars, plan, ledger, processVars, guard, boundVars>>

\* Everything in memory is lost; a caller whose request died may call again.
Lost == [p \in Procs |-> IF run[p].pc = "done" THEN run[p] ELSE IdleRun]
GoDown ==
  /\ up' = "down" /\ recovering' = {} /\ queue' = << >>
  /\ run' = Lost /\ guard' = [p \in Procs |-> NewGuard]
  /\ halts' = halts + 1
  /\ UNCHANGED <<platformVars, storeVars, redeliveries>>

Stopped == up = "stopping" /\ (\A w \in Workers : Idle(w)) /\ GoDown
Kill == up # "down" /\ "kill" \in Faults /\ halts < MaxHalts /\ GoDown

\* Mutants of Unfinished: startup recovery misses the running or the queued jobs,
\* or takes the ended ones as well.
UnfinishedQueued == {j \in Jobs : Status(j) = "queued"}
UnfinishedRunning == {j \in Jobs : Status(j) = "running"}
UnfinishedSaved == Saved

\* unfinished_job_ids
Unfinished == {j \in Jobs : Status(j) \in ActiveJob}

\* The workers start before startup recovery, requests come after it.
Restart ==
  /\ up = "down"
  /\ up' = "up" /\ recovering' = Unfinished
  /\ UNCHANGED <<platformVars, storeVars, queue, run, guard, boundVars>>

Recover(j) ==
  /\ up = "up" /\ j \in recovering
  /\ RequeueJob(j)
  /\ recovering' = recovering \ {j}
  /\ queue' = Append(queue, j)
  /\ UNCHANGED <<platformVars, plan, ledger, up, run, guard, boundVars>>

-----------------------------------------------------------------------------
(* The specification.                                                      *)

Enter(c) == SaveNewJob(c) \/ SaveNewPlan(c) \/ Accept(c)

Launch(p) ==
  \/ Claim(p) \/ Load(p) \/ Recheck(p) \/ Rechecked(p) \/ Abort(p)
  \/ SavePlan(p) \/ StartRun(p)

Walk(p) ==
  \/ PassStep(p) \/ BeginStep(p) \/ SaveStep(p) \/ FinishRun(p)
  \/ ReadClaim(p) \/ InsertClaim(p) \/ BreakRun(p)
  \/ SendGenerate(p) \/ ReceiveReply(p) \/ RecordCharge(p)
  \/ Poll(p) \/ Settle(p) \/ RecordFailure(p)

Lifecycle ==
  \/ Stop \/ Stopped \/ Kill \/ Restart
  \/ \E w \in Workers : Cancel(w)
  \/ \E j \in Jobs : Recover(j)

PlatformStep ==
  PlatformNext /\ UNCHANGED <<storeVars, processVars, run, guard, boundVars>>

Next ==
  \/ \E c \in Callers : Execute(c) \/ Enter(c)
  \/ \E w \in Workers : Take(w)
  \/ \E p \in Procs : Launch(p) \/ Walk(p)
  \/ Lifecycle
  \/ PlatformStep

Spec == Init /\ [][Next]_vars

\* The event loop resumes every task that can go on, a poll ends at the latest by
\* its timeout, and a process that went down is started again.  Nobody has to
\* call /execute, and the platform need not finish anything.
Advance(p) == (Launch(p) \/ Walk(p))
Fairness ==
  /\ \A p \in Procs : WF_vars(Advance(p))
  /\ \A c \in Callers : WF_vars(Enter(c))
  /\ \A w \in Workers : WF_vars(Take(w)) /\ WF_vars(Cancel(w))
  /\ \A j \in Jobs : WF_vars(Recover(j))
  /\ WF_vars(Stopped) /\ WF_vars(Restart)

FairSpec == Spec /\ Fairness

-----------------------------------------------------------------------------
(* Safety.                                                                 *)

\* Nothing is ever billed for a step whose ledger row is not there yet: the row
\* is claimed before the launch (repositories/jobs.py:3-6), whatever is killed,
\* lost or delivered twice.
LaunchedIsClaimed ==
  \A s \in Steps : Launched(s) => ledger[s].status # "absent"

\* A billable step is reported as succeeded, in a job or in the ledger, only if
\* the platform finished it successfully: no timeout, lost reply, resumption or
\* budget stop makes a success.
SucceededIsComplete ==
  \A s \in Steps : Billable(s) =>
    /\ ledger[s].status = "succeeded" => gens[s].state = "complete"
    /\ \A j \in Jobs : jobs[j].step[s].status = "succeeded" =>
                       gens[s].state = "complete"

\* No two workers or callers run the same job, even when the queue delivers an
\* id twice or recovery re-queues behind it (job_queue.py:6-9).
OneRunnerPerJob ==
  \A p, q \in Procs :
    Owns(p) /\ Owns(q) /\ run[p].job = run[q].job => p = q

\* A generation id in the ledger is a generation that was launched, and the cost
\* beside it is what the platform billed or what it settled at.
LedgerCostIsBilled ==
  \A s \in Steps :
    /\ ledger[s].gen => Launched(s)
    /\ ledger[s].cost # 0 => ledger[s].cost \in {gens[s].bill, NetCost(s)}

\* Money spent by the steps in S, as the platform has it.
NetSpent(S) == SumOver([s \in S |-> NetCost(s)])

\* Without halts, rival jobs and lost replies, the envelope can be left by at most one
\* step: the others together fit, because the step that leaves it stops the plan.
OverspendIsOneStep ==
  \E s \in Steps : NetSpent(Steps \ {s}) <= Spendable

\* Between two steps the guard of a run has committed at least what the
\* generations its document knows of have cost.
GuardCoversKnown ==
  \A p \in Procs : run[p].pc = "next" =>
    NetSpent({s \in Steps : run[p].doc.step[s].gen}) <= guard[p].committed

\* Once the process went down, a job knows by its generations that it had paid
\* (plan_service.py:521); a text has none.
Counted == {s \in Steps : Kind[s] # "text" \/ halts = 0}

\* The same guard covers what the document of the run reports, on a job resumed
\* after any stop or kill as well: what was paid before is committed first.
GuardCoversReport ==
  \A p \in Procs : run[p].pc = "next" =>
    SumOver([s \in Counted |-> run[p].doc.step[s].cost]) <= guard[p].committed

\* While the process is up a running job has somebody running it, or startup
\* recovery is about to queue it again (repositories/jobs.py:198-200).
RunningIsWatched ==
  up = "up" =>
    \A j \in Jobs : Status(j) = "running" =>
      j \in recovering \/ \E p \in Procs : Owns(p) /\ run[p].job = j

\* A job that ended stays as it ended: no redelivery, recovery or straggling
\* save reopens or rewrites it.
TerminalIsFinal ==
  [][\A j \in Jobs : Status(j) \in TerminalJob => jobs'[j] = jobs[j]]_vars

\* Without rival jobs, a run never sends /generate for a step whose ledger row
\* names a generation, however often it was killed and resumed (jobs.py:141-150).
LaunchedIsNotResent ==
  [][\A p \in Procs : run[p].pc = "send" /\ run'[p].pc = "sent" =>
       ~ledger[run[p].cur].gen]_vars

-----------------------------------------------------------------------------
(* Liveness, under FairSpec.                                               *)

\* An accepted job ends, through any number of stops and kills.
JobsConclude ==
  \A j \in Jobs : Status(j) \in ActiveJob ~> Status(j) \in TerminalJob

-----------------------------------------------------------------------------
(* What the documentation says and the code does not do; each is refuted   *)
(* by a run of its own.                                                    *)

\* "Terminal state for a job stopped before the first ruble."
\* (plan_service.py:553), on a job resumed after a kill as well.
AbortedBeforeCharge ==
  \A p \in Procs : run[p].pc = "abort" => \A s \in Steps : ~Launched(s)

\* "a second execute must not create a rival job" (domain/plan.py:58).
NoRivalJobs == Cardinality({j \in Jobs : Status(j) \in ActiveJob}) <= 1

\* Of a job that a budget stop ends, the "remaining steps are skipped"
\* (executor.py:9), not the ones "already done in an earlier run of this job"
\* (executor.py:73): a job goes on reporting a step that succeeded.
DoneStepsAreKept ==
  [][\A j \in Jobs, s \in Steps : jobs[j].step[s].status = "succeeded" =>
                                  jobs'[j].step[s].status = "succeeded"]_vars
=============================================================================
