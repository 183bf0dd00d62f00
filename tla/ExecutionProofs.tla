--------------------------- MODULE ExecutionProofs ---------------------------
(***************************************************************************)
(* Execution is type-correct for every plan, price list, number of jobs,   *)
(* workers and callers, and every set of faults.  One lemma per action;    *)
(* the lemmas at the start carry the actions that move one run only.       *)
(***************************************************************************)
EXTENDS Execution, TLAPS

-----------------------------------------------------------------------------
(* The inductive invariant.  TypeOK alone is not inductive: cur may be     *)
(* NSteps + 1 and job may be NoJob, yet a step is read from the document   *)
(* at cur and a document is saved under job.                               *)

\* Every run that has left "idle" names a job, and one inside a step stands at a
\* step of the plan.
Positioned ==
  \A p \in Procs :
    /\ run[p].pc # "idle" => run[p].job \in Jobs
    /\ run[p].pc \in StepPoints \cup {"save"} => run[p].cur \in Steps

TypeInv == TypeOK /\ Positioned

LEMMA PlanType ==
  /\ NSteps \in Nat \ {0} /\ Steps \subseteq Nat
  /\ InitialPrice \in Estimates /\ NoDoc \in JobDoc
<1>1. NSteps \in Nat \ {0} /\ Steps \subseteq Nat
  BY StepsAssumption DEF Steps
<1>2. InitialPrice \in Estimates
  BY PlatformAssumption DEF Estimates
<1>3. NoDoc \in JobDoc
  BY DEF NoDoc, JobDoc, FreshStep, StepDoc, StepStatus
<1> QED
  BY <1>1, <1>2, <1>3

LEMMA IdleType ==
  /\ IdleRun \in Run
  /\ \A j \in Jobs : DoneRun(j) \in Run
  /\ \A j \in Jobs : DoneRun(j).pc = "done" /\ DoneRun(j).job = j
<1>1. IdleRun \in Run
  BY PlanType DEF IdleRun, Run, Points
<1>2. \A j \in Jobs : DoneRun(j) \in Run
  BY <1>1 DEF DoneRun, Run, Points
<1>3. \A j \in Jobs : DoneRun(j).pc = "done" /\ DoneRun(j).job = j
  BY DEF DoneRun, IdleRun
<1> QED
  BY <1>1, <1>2, <1>3

\* A step of one run: it is enough to look at its new state.
LEMMA OneRun ==
  ASSUME run \in [Procs -> Run], Positioned,
         NEW p \in Procs, NEW r \in Run, run' = [run EXCEPT ![p] = r],
         r.pc # "idle" => r.job \in Jobs,
         r.pc \in StepPoints \cup {"save"} => r.cur \in Steps
  PROVE  run' \in [Procs -> Run] /\ Positioned'
BY DEF Positioned

\* So is leaving a job.
LEMMA LeaveStep ==
  ASSUME run \in [Procs -> Run], Positioned,
         NEW p \in Procs, run[p].pc # "idle", Leave(p)
  PROVE  run' \in [Procs -> Run] /\ Positioned'
<1>1. Left(p) \in Run /\ (Left(p).pc # "idle" => Left(p).job \in Jobs)
      /\ Left(p).pc \notin StepPoints \cup {"save"}
  BY IdleType DEF Left, Positioned, IdleRun, StepPoints
<1> QED
  BY <1>1, OneRun DEF Leave

\* And moving to another point of the same step.
LEMMA GotoStep ==
  ASSUME run \in [Procs -> Run], Positioned,
         NEW p \in Procs, NEW point \in Points, Goto(p, point),
         run[p].pc # "idle", point # "idle",
         point \in StepPoints \cup {"save"} => run[p].cur \in Steps
  PROVE  run' \in [Procs -> Run] /\ Positioned'
<1> DEFINE r == [run[p] EXCEPT !.pc = point]
<1>1. run' = [run EXCEPT ![p] = r]
  BY DEF Goto
<1>2. r \in Run /\ r.pc = point /\ r.job = run[p].job /\ r.cur = run[p].cur
  BY DEF Run
<1> HIDE DEF r
<1> QED
  BY <1>1, <1>2, OneRun DEF Positioned

\* And rewriting the step of the document it stands at on the way.
LEMMA LeavingStep ==
  ASSUME run \in [Procs -> Run], Positioned, NEW p \in Procs,
         NEW point \in Points, NEW step \in StepDoc,
         Leaving(p, step, point), run[p].pc # "idle", point # "idle",
         run[p].cur \in Steps
  PROVE  run' \in [Procs -> Run] /\ Positioned'
<1> DEFINE doc == [run[p].doc EXCEPT !.step[run[p].cur] = step]
           r == [run[p] EXCEPT !.doc = doc, !.pc = point]
<1>1. run' = [run EXCEPT ![p] = r]
  BY DEF Leaving, Run, JobDoc
<1>2. doc \in JobDoc
  BY DEF Run, JobDoc
<1>3. r \in Run /\ r.pc = point /\ r.job = run[p].job /\ r.cur = run[p].cur
  BY <1>2 DEF Run
<1> HIDE DEF r
<1> QED
  BY <1>1, <1>3, OneRun DEF Positioned

-----------------------------------------------------------------------------
(* Admission and taking.                                                   *)

LEMMA ExecuteType ==
  ASSUME TypeInv, NEW c \in Callers, Execute(c)
  PROVE  TypeInv'
<1> USE DEF TypeInv, TypeOK
<1> c \in Procs
  BY DEF Procs
<1>1. PlatformTypeOK' /\ StoreOK'
  BY DEF Execute, platformVars, storeVars, PlatformTypeOK, StoreOK
<1>2. ASSUME \E j \in Saved : run' = [run EXCEPT ![c] = DoneRun(j)]
      PROVE  run' \in [Procs -> Run] /\ Positioned'
  <2>1. PICK j \in Jobs : run' = [run EXCEPT ![c] = DoneRun(j)]
    BY <1>2 DEF Saved
  <2> QED
    BY <2>1, IdleType, OneRun DEF ProcessOK, StepPoints
<1>3. ASSUME \E j \in UnusedJobs :
               run' = [run EXCEPT ![c].pc = "save_job", ![c].job = j,
                                  ![c].est = plan.est]
      PROVE  run' \in [Procs -> Run] /\ Positioned'
  <2>1. PICK j \in Jobs :
               run' = [run EXCEPT ![c].pc = "save_job", ![c].job = j,
                                  ![c].est = plan.est]
    BY <1>3 DEF UnusedJobs
  <2> DEFINE r == [run[c] EXCEPT !.pc = "save_job", !.job = j, !.est = plan.est]
  <2>2. run' = [run EXCEPT ![c] = r]
    BY <2>1
  <2>3. r \in Run /\ r.job = j /\ r.pc = "save_job"
    BY DEF ProcessOK, StoreOK, PlanDoc, Run, Points, AdmissionPoints
  <2> HIDE DEF r
  <2> QED
    BY <2>2, <2>3, OneRun DEF ProcessOK, StepPoints
<1>4. run' \in [Procs -> Run] /\ Positioned'
  BY <1>2, <1>3 DEF Execute
<1> QED
  BY <1>1, <1>4 DEF Execute, ProcessOK, processVars, boundVars

LEMMA EnterType ==
  ASSUME TypeInv, NEW c \in Callers, Enter(c)
  PROVE  TypeInv'
<1> USE DEF TypeInv, TypeOK
<1> c \in Procs
  BY DEF Procs
<1>1. CASE SaveNewJob(c)
  <2>1. NewDoc \in JobDoc
    BY PlanType DEF NewDoc, JobDoc, JobStatus, ActiveJob
  <2>2. run' \in [Procs -> Run] /\ Positioned'
    BY <1>1, GotoStep DEF SaveNewJob, At, ProcessOK, Points, AdmissionPoints, StepPoints
  <2> QED
    BY <1>1, <2>1, <2>2 DEF SaveNewJob, SaveJobDoc, StoreOK, ProcessOK, PlatformTypeOK,
      platformVars, processVars, boundVars
<1>2. CASE SaveNewPlan(c)
  <2>1. run' \in [Procs -> Run] /\ Positioned'
    BY <1>2, GotoStep DEF SaveNewPlan, SavePlanDoc, At, ProcessOK, Points, AdmissionPoints, StepPoints
  <2>2. plan' \in PlanDoc
    BY <1>2 DEF SaveNewPlan, SavePlanDoc, PlanDoc, ProcessOK, Run
  <2> QED
    BY <1>2, <2>1, <2>2 DEF SaveNewPlan, SavePlanDoc, StoreOK, ProcessOK, PlatformTypeOK,
      platformVars, processVars, boundVars
<1>3. CASE Accept(c)
  <2>1. run[c].job \in Jobs
    BY <1>3 DEF Accept, At, Positioned
  <2>2. run' \in [Procs -> Run] /\ Positioned'
    BY <1>3, GotoStep, LeaveStep DEF Accept, At, ProcessOK, Points, StepPoints
  <2>3. queue' \in Seq(Jobs)
    BY <1>3, <2>1 DEF Accept, ProcessOK
  <2> QED
    BY <1>3, <2>2, <2>3 DEF Accept, StoreOK, ProcessOK, PlatformTypeOK,
      platformVars, storeVars, boundVars
<1> QED
  BY <1>1, <1>2, <1>3 DEF Enter

LEMMA TakeType ==
  ASSUME TypeInv, NEW w \in Workers, Take(w)
  PROVE  TypeInv'
<1> USE DEF TypeInv, TypeOK
<1> w \in Procs
  BY DEF Procs
<1>1. queue # << >> /\ queue \in Seq(Jobs)
  BY DEF Take, ProcessOK
<1>2. Head(queue) \in Jobs /\ Tail(queue) \in Seq(Jobs)
  BY <1>1
<1> DEFINE r == [run[w] EXCEPT !.pc = "claim", !.job = Head(queue)]
<1>3. run' = [run EXCEPT ![w] = r]
  BY DEF Take
<1>4. r \in Run /\ r.job = Head(queue) /\ r.pc = "claim"
  BY <1>2 DEF ProcessOK, Run, Points
<1> HIDE DEF r
<1>5. run' \in [Procs -> Run] /\ Positioned'
  BY <1>2, <1>3, <1>4, OneRun DEF ProcessOK, StepPoints
<1>6. queue' \in Seq(Jobs)
  BY <1>1, <1>2 DEF Take
<1>7. redeliveries' \in Nat /\ halts' \in Nat
  BY DEF Take, ProcessOK
<1>8. PlatformTypeOK' /\ StoreOK'
  BY DEF Take, platformVars, storeVars, PlatformTypeOK, StoreOK
<1> QED
  BY <1>5, <1>6, <1>7, <1>8 DEF Take, ProcessOK

-----------------------------------------------------------------------------
(* Launching.                                                              *)

LEMMA ClaimType ==
  ASSUME TypeInv, NEW p \in Procs, Claim(p)
  PROVE  TypeInv'
<1> USE DEF TypeInv, TypeOK
<1>1. run[p].pc = "claim" /\ run[p].job \in Jobs
  BY DEF Claim, At, Positioned
<1>2. run' \in [Procs -> Run] /\ Positioned'
  BY <1>1, GotoStep, LeaveStep
    DEF Claim, ProcessOK, Points, OwningPoints, LaunchPoints, StepPoints
<1>3. jobs' \in [Jobs -> JobDoc]
  BY <1>1 DEF Claim, StoreOK, JobDoc, JobStatus, ActiveJob
<1> QED
  BY <1>2, <1>3 DEF Claim, StoreOK, ProcessOK, PlatformTypeOK, platformVars,
    processVars, boundVars

LEMMA LoadType ==
  ASSUME TypeInv, NEW p \in Procs, Load(p)
  PROVE  TypeInv'
<1> USE DEF TypeInv, TypeOK
<1> DEFINE doc == jobs[run[p].job]
           r == [run[p] EXCEPT !.doc = doc, !.est = plan.est,
                               !.pc = IF Resumed(doc) THEN "plan" ELSE "recheck"]
<1>1. run[p].pc = "load" /\ run[p].job \in Jobs /\ doc \in JobDoc
  BY DEF Load, Snapshots, At, Positioned, StoreOK
<1>2. run' = [run EXCEPT ![p] = r]
  BY DEF Load, Snapshots
<1>3. r \in Run /\ r.pc \in {"plan", "recheck"} /\ r.job = run[p].job
  BY <1>1 DEF ProcessOK, StoreOK, PlanDoc, Run, Points, OwningPoints, LaunchPoints
<1> HIDE DEF r
<1>4. run' \in [Procs -> Run] /\ Positioned'
  BY <1>1, <1>2, <1>3, OneRun DEF ProcessOK, StepPoints
<1> QED
  BY <1>4 DEF Load, Snapshots, StoreOK, ProcessOK, PlatformTypeOK, platformVars,
    storeVars, processVars, boundVars

LEMMA RecheckType ==
  ASSUME TypeInv, NEW p \in Procs, Recheck(p)
  PROVE  TypeInv'
<1> USE DEF TypeInv, TypeOK
<1> DEFINE s == run[p].cur
           lower == IF Cheaper(p, s) THEN price[s] ELSE run[p].est[s]
           r == [run[p] EXCEPT !.cur = s + 1]
           q == [run[p] EXCEPT !.cur = s + 1, !.est[s] = lower]
<1>1. run[p] \in Run /\ run[p].pc = "recheck" /\ run[p].job \in Jobs /\ s \in Steps
  BY PlanType DEF Recheck, At, Positioned, ProcessOK, Run, Steps
<1>2. run' = [run EXCEPT ![p] = r] \/ run' = [run EXCEPT ![p] = q]
  BY <1>1 DEF Recheck, ProcessOK, Run, Estimates
<1>3. lower \in Nat
  BY <1>1, PlatformAssumption DEF PlatformTypeOK, Run, Estimates
<1>4. s + 1 \in 1..(NSteps + 1)
  BY <1>1, PlanType DEF Steps
<1>5. r \in Run /\ r.pc = "recheck" /\ r.job \in Jobs
  BY <1>1, <1>4 DEF Run
<1>6. q \in Run /\ q.pc = "recheck" /\ q.job \in Jobs
  BY <1>1, <1>3, <1>4 DEF Run, Estimates
<1> HIDE DEF r, q
<1>7. run' \in [Procs -> Run] /\ Positioned'
  BY <1>2, <1>5, <1>6, OneRun DEF ProcessOK, StepPoints
<1> QED
  BY <1>7 DEF Recheck, StoreOK, ProcessOK, PlatformTypeOK, platformVars,
    storeVars, processVars, boundVars

LEMMA RecheckedType ==
  ASSUME TypeInv, NEW p \in Procs, Rechecked(p)
  PROVE  TypeInv'
<1> USE DEF TypeInv, TypeOK
<1> DEFINE r == [run[p] EXCEPT !.cur = 1,
                               !.pc = IF Blocked(p) THEN "abort" ELSE "plan"]
<1>1. run[p] \in Run /\ run[p].pc = "recheck" /\ run[p].job \in Jobs
  BY DEF Rechecked, At, Positioned, ProcessOK
<1>2. run' = [run EXCEPT ![p] = r]
  BY DEF Rechecked
<1>3. r \in Run /\ r.pc \in {"abort", "plan"} /\ r.job \in Jobs
  <2>1. 1 \in 1..(NSteps + 1)
    BY PlanType
  <2>2. (IF Blocked(p) THEN "abort" ELSE "plan") \in {"abort", "plan"}
    OBVIOUS
  <2> QED
    BY <1>1, <2>1, <2>2 DEF Run, Points, OwningPoints, LaunchPoints
<1> HIDE DEF r
<1>4. run' \in [Procs -> Run] /\ Positioned'
  BY <1>2, <1>3, OneRun DEF ProcessOK, StepPoints
<1> QED
  BY <1>4 DEF Rechecked, StoreOK, ProcessOK, PlatformTypeOK, platformVars,
    storeVars, processVars, boundVars

LEMMA AbortType ==
  ASSUME TypeInv, NEW p \in Procs, Abort(p)
  PROVE  TypeInv'
<1> USE DEF TypeInv, TypeOK
<1>1. run[p] \in Run /\ run[p].pc = "abort" /\ run[p].job \in Jobs
  BY DEF Abort, At, Positioned, ProcessOK
<1>2. AbortedDoc(run[p].doc) \in JobDoc
  BY <1>1 DEF AbortedDoc, Run, JobDoc, JobStatus, TerminalJob, StepDoc, StepStatus
<1>3. run' \in [Procs -> Run] /\ Positioned'
  BY <1>1, LeaveStep DEF Abort, ProcessOK
<1> QED
  BY <1>1, <1>2, <1>3 DEF Abort, SaveJobDoc, StoreOK, ProcessOK, PlatformTypeOK,
    platformVars, processVars, boundVars

LEMMA SavePlanType ==
  ASSUME TypeInv, NEW p \in Procs, SavePlan(p)
  PROVE  TypeInv'
<1> USE DEF TypeInv, TypeOK
<1>1. run[p] \in Run /\ run[p].pc = "plan" /\ run[p].job \in Jobs
  BY DEF SavePlan, SavePlanDoc, At, Positioned, ProcessOK
<1>2. plan' \in PlanDoc
  BY <1>1 DEF SavePlan, SavePlanDoc, PlanDoc, Run
<1>3. run' \in [Procs -> Run] /\ Positioned'
  BY <1>1, GotoStep DEF SavePlan, SavePlanDoc, ProcessOK, Points, OwningPoints, LaunchPoints, StepPoints
<1> QED
  BY <1>2, <1>3 DEF SavePlan, SavePlanDoc, StoreOK, ProcessOK, PlatformTypeOK, platformVars,
    processVars, boundVars

LEMMA StartRunType ==
  ASSUME TypeInv, NEW p \in Procs, StartRun(p)
  PROVE  TypeInv'
<1> USE DEF TypeInv, TypeOK
<1> DEFINE doc == [run[p].doc EXCEPT !.status = "running"]
           r == [run[p] EXCEPT !.doc = doc, !.pc = "next"]
<1>1. run[p] \in Run /\ run[p].pc = "start" /\ run[p].job \in Jobs
  BY DEF StartRun, At, Positioned, ProcessOK
<1>2. doc \in JobDoc
  BY <1>1 DEF Run, JobDoc, JobStatus, ActiveJob
<1>3. run' = [run EXCEPT ![p] = r]
  BY DEF StartRun
<1>4. r \in Run /\ r.pc = "next" /\ r.job \in Jobs
  BY <1>1, <1>2 DEF Run, Points, OwningPoints
<1> HIDE DEF r
<1>5. run' \in [Procs -> Run] /\ Positioned'
  BY <1>3, <1>4, OneRun DEF ProcessOK, StepPoints
<1>6. jobs' \in [Jobs -> JobDoc]
  BY <1>1, <1>2 DEF StartRun, SaveJobDoc, StoreOK
<1> QED
  BY <1>5, <1>6 DEF StartRun, StoreOK, ProcessOK, PlatformTypeOK, platformVars,
    processVars, boundVars

-----------------------------------------------------------------------------
(* Walking the steps.                                                      *)

\* The step a run stands at.
LEMMA StandingStep ==
  ASSUME TypeInv, NEW p \in Procs, run[p].cur \in Steps
  PROVE  Step(p) \in StepDoc
BY DEF TypeInv, TypeOK, ProcessOK, Run, JobDoc, Step

LEMMA PassStepType ==
  ASSUME TypeInv, NEW p \in Procs, PassStep(p)
  PROVE  TypeInv'
<1> USE DEF TypeInv, TypeOK
<1> DEFINE s == run[p].cur
           status == IF run[p].stopped THEN "skipped" ELSE Step(p).status
           doc == [run[p].doc EXCEPT !.step[s].status = status]
           r == [run[p] EXCEPT !.cur = s + 1, !.doc = doc]
<1>1. run[p] \in Run /\ run[p].pc = "next" /\ run[p].job \in Jobs /\ s \in Steps
  BY PlanType DEF PassStep, At, Positioned, ProcessOK, Run, Steps
<1>2. run' = [run EXCEPT ![p] = r]
  BY <1>1 DEF PassStep, Step, ProcessOK, Run, JobDoc, StepDoc
<1>3. status \in StepStatus
  BY <1>1, StandingStep DEF StepDoc, StepStatus
<1>4. doc \in JobDoc
  BY <1>1, <1>3 DEF Run, JobDoc, StepDoc
<1>5. s + 1 \in 1..(NSteps + 1)
  BY <1>1, PlanType DEF Steps
<1>6. r \in Run /\ r.pc = "next" /\ r.job \in Jobs
  BY <1>1, <1>4, <1>5 DEF Run
<1> HIDE DEF r
<1>7. run' \in [Procs -> Run] /\ Positioned'
  BY <1>2, <1>6, OneRun DEF ProcessOK, StepPoints
<1> QED
  BY <1>7 DEF PassStep, StoreOK, ProcessOK, PlatformTypeOK, platformVars,
    storeVars, processVars, boundVars

LEMMA BeginStepType ==
  ASSUME TypeInv, NEW p \in Procs, BeginStep(p)
  PROVE  TypeInv'
<1> USE DEF TypeInv, TypeOK
<1>1. run[p].pc = "next" /\ run[p].cur \in Steps
  BY PlanType DEF BeginStep, At, ProcessOK, Run, Steps
<1>2. /\ [Step(p) EXCEPT !.status = "running"] \in StepDoc
      /\ [Step(p) EXCEPT !.status = "succeeded", !.cost = 0] \in StepDoc
  BY <1>1, StandingStep DEF StepDoc, StepStatus
<1>3. "claim_step" \in Points /\ "save" \in Points
  BY DEF Points, OwningPoints, StepPoints
<1>4. run' \in [Procs -> Run] /\ Positioned'
  BY <1>1, <1>2, <1>3, LeavingStep DEF BeginStep, ProcessOK
<1> QED
  BY <1>4 DEF BeginStep, StoreOK, ProcessOK, PlatformTypeOK, platformVars,
    storeVars, processVars, boundVars

LEMMA SaveStepType ==
  ASSUME TypeInv, NEW p \in Procs, SaveStep(p)
  PROVE  TypeInv'
<1> USE DEF TypeInv, TypeOK
<1> DEFINE r == [run[p] EXCEPT !.cur = run[p].cur + 1, !.pc = "next"]
<1>1. /\ run[p] \in Run /\ run[p].pc = "save"
      /\ run[p].job \in Jobs /\ run[p].cur \in Steps
  BY DEF SaveStep, At, Positioned, ProcessOK
<1>2. run' = [run EXCEPT ![p] = r]
  BY DEF SaveStep
<1>3. run[p].cur + 1 \in 1..(NSteps + 1)
  BY <1>1, PlanType DEF Steps
<1>4. r \in Run /\ r.pc = "next" /\ r.job \in Jobs
  BY <1>1, <1>3 DEF Run, Points, OwningPoints
<1> HIDE DEF r
<1>5. run' \in [Procs -> Run] /\ Positioned'
  BY <1>2, <1>4, OneRun DEF ProcessOK, StepPoints
<1>6. jobs' \in [Jobs -> JobDoc]
  BY <1>1 DEF SaveStep, SaveJobDoc, StoreOK, Run
<1> QED
  BY <1>5, <1>6 DEF SaveStep, StoreOK, ProcessOK, PlatformTypeOK, platformVars,
    processVars, boundVars

\* A job is concluded with a status that ends it.
LEMMA AggregateEnds ==
  ASSUME NEW doc, NEW aborted \in BOOLEAN
  PROVE  AggregateStatus(doc, aborted) \in TerminalJob
<1> DEFINE succeeded == Having(doc, "succeeded") # {}
           clean == Having(doc, "failed") \cup Having(doc, "skipped") = {}
<1>1. CASE aborted
  BY <1>1 DEF AggregateStatus, TerminalJob
<1>2. CASE ~aborted /\ clean
  BY <1>2 DEF AggregateStatus, TerminalJob
<1>3. CASE ~aborted /\ ~clean
  BY <1>3 DEF AggregateStatus, TerminalJob
<1> QED
  BY <1>1, <1>2, <1>3

LEMMA FinishRunType ==
  ASSUME TypeInv, NEW p \in Procs, FinishRun(p)
  PROVE  TypeInv'
<1> USE DEF TypeInv, TypeOK
<1> DEFINE status == AggregateStatus(run[p].doc, run[p].stopped)
<1>1. run[p] \in Run /\ run[p].pc = "next" /\ run[p].job \in Jobs
  BY DEF FinishRun, At, Positioned, ProcessOK
<1>2. status \in JobStatus
  BY <1>1, AggregateEnds DEF Run, JobStatus
<1> HIDE DEF status
<1>3. [run[p].doc EXCEPT !.status = status] \in JobDoc
  BY <1>1, <1>2 DEF Run, JobDoc
<1>4. jobs' \in [Jobs -> JobDoc]
  BY <1>1, <1>3 DEF FinishRun, SaveJobDoc, StoreOK, status
<1>5. run' \in [Procs -> Run] /\ Positioned'
  BY <1>1, LeaveStep DEF FinishRun, ProcessOK
<1> QED
  BY <1>4, <1>5 DEF FinishRun, StoreOK, ProcessOK, PlatformTypeOK, platformVars,
    processVars, boundVars

-----------------------------------------------------------------------------
(* One step.                                                               *)

\* Skipping a step over the budget, and failing one.
LEMMA SkipStepType ==
  ASSUME TypeInv, NEW p \in Procs, SkipStep(p, Step(p)),
         run[p].pc # "idle", run[p].cur \in Steps
  PROVE  run' \in [Procs -> Run] /\ Positioned'
<1> USE DEF TypeInv, TypeOK
<1> DEFINE step == [Step(p) EXCEPT !.status = "skipped"]
           doc == [run[p].doc EXCEPT !.step[run[p].cur] = step]
           r == [run[p] EXCEPT !.doc = doc, !.stopped = TRUE, !.pc = "save"]
<1>1. run[p] \in Run /\ run[p].job \in Jobs
  BY DEF Positioned, ProcessOK
<1>2. run' = [run EXCEPT ![p] = r]
  BY <1>1 DEF SkipStep, ProcessOK, Run, JobDoc
<1>3. step \in StepDoc
  BY StandingStep DEF StepDoc, StepStatus
<1>4. doc \in JobDoc
  BY <1>1, <1>3 DEF Run, JobDoc
<1>5. r \in Run /\ r.pc = "save" /\ r.job \in Jobs /\ r.cur \in Steps
  BY <1>1, <1>4 DEF Run, Points, OwningPoints
<1> HIDE DEF r
<1> QED
  BY <1>2, <1>5, OneRun DEF ProcessOK

LEMMA FailStepType ==
  ASSUME TypeInv, NEW p \in Procs, NEW stop \in BOOLEAN, FailStep(p, stop),
         run[p].pc # "idle", run[p].cur \in Steps
  PROVE  run' \in [Procs -> Run] /\ Positioned'
<1> USE DEF TypeInv, TypeOK
<1> DEFINE doc == [run[p].doc EXCEPT !.step[run[p].cur].status = "failed"]
           r == [run[p] EXCEPT !.doc = doc, !.stopped = stop, !.pc = "fail"]
<1>1. run[p] \in Run /\ run[p].job \in Jobs
  BY DEF Positioned, ProcessOK
<1>2. run' = [run EXCEPT ![p] = r]
  BY <1>1 DEF FailStep, ProcessOK, Run, JobDoc, StepDoc
<1>3. doc \in JobDoc
  BY <1>1 DEF Run, JobDoc, StepDoc, StepStatus
<1>4. r \in Run /\ r.pc = "fail" /\ r.job \in Jobs /\ r.cur \in Steps
  BY <1>1, <1>3 DEF Run, Points, OwningPoints, StepPoints
<1> HIDE DEF r
<1> QED
  BY <1>2, <1>4, OneRun DEF ProcessOK

\* update_step keeps the table well formed.
LEMMA UpdateStepType ==
  ASSUME ledger \in [Steps -> LedgerRow], NEW s \in Steps,
         NEW status \in StepStatus, NEW gen \in BOOLEAN,
         NEW cost \in Nat \cup {NoCost}, UpdateStep(s, status, gen, cost)
  PROVE  ledger' \in [Steps -> LedgerRow]
<1> DEFINE row == [ledger[s] EXCEPT !.status = status, !.gen = ledger[s].gen \/ gen,
                    !.cost = IF cost = NoCost THEN ledger[s].cost ELSE cost]
<1>1. row \in LedgerRow
  BY DEF LedgerRow
<1>2. CASE ledger[s].status = "absent"
  BY <1>2 DEF UpdateStep
<1>3. CASE ledger[s].status # "absent"
  <2>1. ledger' = [ledger EXCEPT ![s] = row]
    BY <1>3 DEF UpdateStep, LedgerRow
  <2> QED
    BY <1>1, <2>1
<1> QED
  BY <1>2, <1>3

\* What the platform says is well formed.
LEMMA VerdictType ==
  ASSUME PlatformTypeOK, NEW s \in Steps
  PROVE  Verdict(s) \in Verdicts
BY DEF PlatformTypeOK, Verdict, Verdicts, NetCost, Generation, GenStates

LEMMA ApplyOutcomeType ==
  ASSUME NEW step \in StepDoc, NEW verdict \in Verdicts
  PROVE  ApplyOutcome(step, verdict) \in StepDoc
BY DEF ApplyOutcome, StepDoc, StepStatus, Verdicts

LEMMA GenerateType ==
  ASSUME PlatformTypeOK, NEW s \in Steps, Generate(s)
  PROVE  PlatformTypeOK'
<1>1. CASE UNCHANGED platformVars
  BY <1>1 DEF PlatformTypeOK, platformVars
<1>2. CASE ~UNCHANGED platformVars
  <2>1. PICK bill \in Bills(s), state \in GenStates :
          /\ gens' = [gens EXCEPT ![s] = [state |-> state, bill |-> bill,
                                          refunded |-> FALSE]]
          /\ funds' = funds - bill
    BY <1>2 DEF Generate, GenStates
  <2>2. UNCHANGED <<price, moves>>
    BY <1>2 DEF Generate
  <2>3. price[s] \in Nat
    BY PlatformAssumption DEF PlatformTypeOK
  <2>4. bill \in Nat
    BY <2>3 DEF Bills
  <2>5. gens' \in [Steps -> Generation]
    BY <2>1, <2>4 DEF PlatformTypeOK, Generation
  <2>6. funds' \in Int
    BY <2>1, <2>4 DEF PlatformTypeOK
  <2> QED
    BY <2>2, <2>5, <2>6 DEF PlatformTypeOK
<1> QED
  BY <1>1, <1>2

LEMMA StepPoint ==
  ASSUME TypeInv, NEW p \in Procs, run[p].pc \in StepPoints
  PROVE  /\ run[p] \in Run /\ run[p].pc # "idle"
         /\ run[p].job \in Jobs /\ run[p].cur \in Steps /\ Step(p) \in StepDoc
BY StandingStep DEF TypeInv, TypeOK, ProcessOK, Positioned, StepPoints

LEMMA ReadClaimType ==
  ASSUME TypeInv, NEW p \in Procs, ReadClaim(p)
  PROVE  TypeInv'
<1> USE DEF TypeInv, TypeOK
<1>1. run[p].pc \in StepPoints
  BY DEF ReadClaim, At, StepPoints
<1>2. [Step(p) EXCEPT !.gen = TRUE] \in StepDoc
  BY <1>1, StepPoint DEF StepDoc
<1>3. "insert" \in Points /\ "poll" \in Points /\ "send" \in Points
  BY DEF Points, OwningPoints, StepPoints
<1>4. run' \in [Procs -> Run] /\ Positioned'
  BY <1>1, <1>2, <1>3, StepPoint, GotoStep, LeavingStep, SkipStepType
    DEF ReadClaim, ProcessOK
<1> QED
  BY <1>4 DEF ReadClaim, StoreOK, ProcessOK, PlatformTypeOK, platformVars,
    storeVars, processVars, boundVars

LEMMA InsertClaimType ==
  ASSUME TypeInv, NEW p \in Procs, InsertClaim(p)
  PROVE  TypeInv'
<1> USE DEF TypeInv, TypeOK
<1>1. run[p].pc \in StepPoints
  BY DEF InsertClaim, At, StepPoints
<1>2. "claim_step" \in Points /\ "broken" \in Points
  BY DEF Points, OwningPoints, StepPoints
<1>3. run' \in [Procs -> Run] /\ Positioned'
  BY <1>1, <1>2, StepPoint, GotoStep DEF InsertClaim, ProcessOK
<1>4. [status |-> "pending", gen |-> FALSE, cost |-> 0, job |-> run[p].job] \in LedgerRow
  BY <1>1, StepPoint DEF LedgerRow, StepStatus
<1>5. ledger' \in [Steps -> LedgerRow]
  BY <1>1, <1>4, StepPoint DEF InsertClaim, StoreOK
<1> QED
  BY <1>3, <1>5 DEF InsertClaim, StoreOK, ProcessOK, PlatformTypeOK, platformVars,
    processVars, boundVars

LEMMA BreakRunType ==
  ASSUME TypeInv, NEW p \in Procs, BreakRun(p)
  PROVE  TypeInv'
<1> USE DEF TypeInv, TypeOK
<1>1. run[p].pc \in StepPoints
  BY DEF BreakRun, At, StepPoints
<1>2. run' \in [Procs -> Run] /\ Positioned'
  BY <1>1, StepPoint, LeaveStep DEF BreakRun, ProcessOK
<1>3. jobs' \in [Jobs -> JobDoc]
  BY <1>1, StepPoint DEF BreakRun, SaveJobDoc, StoreOK, Run
<1> QED
  BY <1>2, <1>3 DEF BreakRun, StoreOK, ProcessOK, PlatformTypeOK, platformVars,
    processVars, boundVars

LEMMA SendGenerateType ==
  ASSUME TypeInv, NEW p \in Procs, SendGenerate(p)
  PROVE  TypeInv'
<1> USE DEF TypeInv, TypeOK
<1>1. run[p].pc \in StepPoints
  BY DEF SendGenerate, At, StepPoints
<1>2. "sent" \in Points /\ "sent" # "idle"
  BY DEF Points, OwningPoints, StepPoints
<1>3. run' \in [Procs -> Run] /\ Positioned'
  BY <1>1, <1>2, StepPoint, GotoStep, FailStepType DEF SendGenerate, ProcessOK
<1>4. PlatformTypeOK'
  BY <1>1, StepPoint, GenerateType DEF SendGenerate, PlatformTypeOK, platformVars
<1> QED
  BY <1>3, <1>4 DEF SendGenerate, StoreOK, ProcessOK, storeVars, processVars, boundVars

LEMMA ReceiveReplyType ==
  ASSUME TypeInv, NEW p \in Procs, ReceiveReply(p)
  PROVE  TypeInv'
<1> USE DEF TypeInv, TypeOK
<1> DEFINE s == run[p].cur
           step == [Step(p) EXCEPT !.gen = Kind[s] # "text", !.cost = Charged(p),
                                   !.long = Kind[s] = "voiceover"]
<1>1. run[p].pc \in StepPoints
  BY DEF ReceiveReply, At, StepPoints
<1>2. Charged(p) \in Nat
  BY <1>1, StepPoint DEF Charged, PlatformTypeOK, Generation
<1>3. step \in StepDoc
  BY <1>1, <1>2, StepPoint DEF StepDoc
<1>4. "record" \in Points
  BY DEF Points, OwningPoints, StepPoints
<1>5. Leaving(p, step, "record") \/ FailStep(p, FALSE)
  BY DEF ReceiveReply
<1> HIDE DEF step
<1>6. run' \in [Procs -> Run] /\ Positioned'
  BY <1>1, <1>3, <1>4, <1>5, StepPoint, LeavingStep, FailStepType DEF ProcessOK
<1> QED
  BY <1>6 DEF ReceiveReply, StoreOK, ProcessOK, PlatformTypeOK, platformVars,
    storeVars, processVars, boundVars

LEMMA RecordChargeType ==
  ASSUME TypeInv, NEW p \in Procs, RecordCharge(p)
  PROVE  TypeInv'
<1> USE DEF TypeInv, TypeOK
<1> DEFINE s == run[p].cur
           settled == ApplyOutcome(Step(p), Verdict(s))
           failed == [Step(p) EXCEPT !.status = "failed"]
<1>1. run[p].pc \in StepPoints
  BY DEF RecordCharge, At, StepPoints
<1>2. Verdict(s) \in Verdicts /\ settled \in StepDoc
  BY <1>1, StepPoint, VerdictType, ApplyOutcomeType
<1>3. failed \in StepDoc
  BY <1>1, StepPoint DEF StepDoc, StepStatus
<1>4. \/ SkipStep(p, Step(p)) \/ Goto(p, "poll")
      \/ Leaving(p, settled, "settle") \/ Leaving(p, failed, "save")
  BY DEF RecordCharge
<1>5. "poll" \in Points /\ "settle" \in Points /\ "save" \in Points
  BY DEF Points, OwningPoints, StepPoints
<1> HIDE DEF settled, failed
<1>6. run' \in [Procs -> Run] /\ Positioned'
  BY <1>1, <1>2, <1>3, <1>4, <1>5, StepPoint, GotoStep, LeavingStep, SkipStepType
    DEF ProcessOK
<1>7. /\ UpdateStep(s, "running", Step(p).gen, Step(p).cost) /\ "running" \in StepStatus
      /\ Step(p).gen \in BOOLEAN /\ Step(p).cost \in Nat \cup {NoCost}
  BY <1>1, StepPoint DEF RecordCharge, StepDoc, StepStatus
<1>8. ledger' \in [Steps -> LedgerRow]
  BY <1>1, <1>7, StepPoint, UpdateStepType DEF StoreOK
<1> QED
  BY <1>6, <1>8 DEF RecordCharge, StoreOK, ProcessOK, PlatformTypeOK, platformVars,
    processVars, boundVars

LEMMA PollType ==
  ASSUME TypeInv, NEW p \in Procs, Poll(p)
  PROVE  TypeInv'
<1> USE DEF TypeInv, TypeOK
<1> DEFINE s == run[p].cur
           final == ApplyOutcome(Step(p), Verdict(s))
           failed == [Step(p) EXCEPT !.status = "failed"]
<1>1. run[p].pc \in StepPoints
  BY DEF Poll, At, StepPoints
<1>2. final \in StepDoc
  BY <1>1, StepPoint, VerdictType, ApplyOutcomeType
<1>3. failed \in StepDoc
  BY <1>1, StepPoint DEF StepDoc, StepStatus
<1>4. Leaving(p, final, "settle") \/ Leaving(p, failed, "save") \/ FailStep(p, FALSE)
  BY DEF Poll
<1>5. "settle" \in Points /\ "save" \in Points
  BY DEF Points, OwningPoints, StepPoints
<1> HIDE DEF final, failed
<1>6. run' \in [Procs -> Run] /\ Positioned'
  BY <1>1, <1>2, <1>3, <1>4, <1>5, StepPoint, LeavingStep, FailStepType DEF ProcessOK
<1> QED
  BY <1>6 DEF Poll, StoreOK, ProcessOK, PlatformTypeOK, platformVars,
    storeVars, processVars, boundVars

LEMMA SettleType ==
  ASSUME TypeInv, NEW p \in Procs, Settle(p)
  PROVE  TypeInv'
<1> USE DEF TypeInv, TypeOK
<1>1. run[p].pc \in StepPoints
  BY DEF Settle, At, StepPoints
<1>2. run' \in [Procs -> Run] /\ Positioned'
  BY <1>1, StepPoint, GotoStep DEF Settle, ProcessOK, Points, OwningPoints
<1>3. /\ UpdateStep(run[p].cur, Step(p).status, Step(p).gen, Step(p).cost)
      /\ Step(p).status \in StepStatus /\ Step(p).gen \in BOOLEAN
      /\ Step(p).cost \in Nat \cup {NoCost}
  BY <1>1, StepPoint DEF Settle, StepDoc
<1>4. ledger' \in [Steps -> LedgerRow]
  BY <1>1, <1>3, StepPoint, UpdateStepType DEF StoreOK
<1> QED
  BY <1>2, <1>4 DEF Settle, StoreOK, ProcessOK, PlatformTypeOK, platformVars,
    processVars, boundVars

LEMMA RecordFailureType ==
  ASSUME TypeInv, NEW p \in Procs, RecordFailure(p)
  PROVE  TypeInv'
<1> USE DEF TypeInv, TypeOK
<1>1. run[p].pc \in StepPoints
  BY DEF RecordFailure, At, StepPoints
<1>2. run' \in [Procs -> Run] /\ Positioned'
  BY <1>1, StepPoint, GotoStep DEF RecordFailure, ProcessOK, Points, OwningPoints
<1>3. UpdateStep(run[p].cur, "failed", FALSE, NoCost) /\ "failed" \in StepStatus
  BY DEF RecordFailure, StepStatus
<1>4. ledger' \in [Steps -> LedgerRow]
  BY <1>1, <1>3, StepPoint, UpdateStepType DEF StoreOK
<1> QED
  BY <1>2, <1>4 DEF RecordFailure, StoreOK, ProcessOK, PlatformTypeOK, platformVars,
    processVars, boundVars

-----------------------------------------------------------------------------
(* Stopping, dying, starting, and the platform.                            *)

LEMMA CancelType ==
  ASSUME TypeInv, NEW w \in Workers, Cancel(w)
  PROVE  TypeInv'
<1> USE DEF TypeInv, TypeOK
<1> w \in Procs
  BY DEF Procs
<1>1. run[w].pc # "idle" /\ run[w] \in Run /\ run[w].job \in Jobs
  BY DEF Cancel, Idle, Positioned, ProcessOK
<1>2. run' \in [Procs -> Run] /\ Positioned'
  BY <1>1, LeaveStep DEF Cancel, ProcessOK
<1>3. jobs' \in [Jobs -> JobDoc]
  BY <1>1 DEF Cancel, SaveJobDoc, StoreOK, Run
<1> QED
  BY <1>2, <1>3 DEF Cancel, StoreOK, ProcessOK, PlatformTypeOK, platformVars,
    processVars, boundVars

LEMMA GoDownType ==
  ASSUME TypeInv, GoDown
  PROVE  TypeInv'
<1> USE DEF TypeInv, TypeOK
<1>1. run' \in [Procs -> Run]
  BY IdleType DEF GoDown, Lost, ProcessOK
<1>2. Positioned'
  BY <1>1 DEF GoDown, Lost, Positioned, IdleRun, StepPoints
<1> QED
  BY <1>1, <1>2 DEF GoDown, StoreOK, ProcessOK, PlatformTypeOK, platformVars, storeVars

LEMMA LifecycleType ==
  ASSUME TypeInv, Lifecycle
  PROVE  TypeInv'
<1>1. CASE Stop
  BY <1>1 DEF Stop, TypeInv, TypeOK, Positioned, StoreOK, ProcessOK, PlatformTypeOK, platformVars,
    storeVars, boundVars
<1>2. CASE Stopped \/ Kill
  BY <1>2, GoDownType DEF Stopped, Kill
<1>3. CASE Restart
  BY <1>3 DEF Restart, TypeInv, TypeOK, Unfinished, Positioned, StoreOK, ProcessOK, PlatformTypeOK,
    platformVars, storeVars, boundVars
<1>4. ASSUME NEW w \in Workers, Cancel(w) PROVE TypeInv'
  BY <1>4, CancelType
<1>5. ASSUME NEW j \in Jobs, Recover(j) PROVE TypeInv'
  <2>1. jobs' \in [Jobs -> JobDoc]
    BY <1>5 DEF Recover, RequeueJob, TypeInv, TypeOK, StoreOK, JobDoc, JobStatus, ActiveJob
  <2>2. queue' \in Seq(Jobs)
    BY <1>5 DEF Recover, RequeueJob, TypeInv, TypeOK, ProcessOK
  <2>3. StoreOK' /\ PlatformTypeOK'
    BY <1>5, <2>1 DEF Recover, RequeueJob, TypeInv, TypeOK, StoreOK, PlatformTypeOK, platformVars
  <2>4. ProcessOK' /\ Positioned'
    BY <1>5, <2>2 DEF Recover, RequeueJob, TypeInv, TypeOK, ProcessOK, Positioned, boundVars
  <2> QED
    BY <2>3, <2>4 DEF TypeInv, TypeOK
<1> QED
  BY <1>1, <1>2, <1>3, <1>4, <1>5 DEF Lifecycle

LEMMA PlatformType ==
  ASSUME TypeInv, PlatformStep
  PROVE  TypeInv'
<1> USE DEF TypeInv, TypeOK
<1>1. PICK s \in Steps : Conclude(s) \/ MovePrice(s)
  BY DEF PlatformStep, PlatformNext
<1>2. ASSUME Conclude(s) PROVE PlatformTypeOK'
  <2>1. gens[s].bill \in Nat
    BY DEF PlatformTypeOK, Generation
  <2>2. gens' \in [Steps -> Generation]
    BY <1>2 DEF Conclude, PlatformTypeOK, Generation, GenStates
  <2>3. funds' \in Int
    BY <1>2, <2>1 DEF Conclude, PlatformTypeOK
  <2> QED
    BY <1>2, <2>2, <2>3 DEF Conclude, PlatformTypeOK
<1>3. ASSUME MovePrice(s) PROVE PlatformTypeOK'
  BY <1>3 DEF MovePrice, PlatformTypeOK
<1>4. PlatformTypeOK'
  BY <1>1, <1>2, <1>3
<1> QED
  BY <1>4 DEF PlatformStep, Positioned, StoreOK, ProcessOK, storeVars, processVars,
    boundVars

-----------------------------------------------------------------------------
(* Type correctness.                                                       *)

LEMMA InitType == Init => TypeInv
<1> SUFFICES ASSUME Init PROVE TypeInv
  OBVIOUS
<1>1. PlatformTypeOK
  BY PlatformAssumption
    DEF Init, PlatformInit, PlatformTypeOK, NoGeneration, Generation, GenStates
<1>2. StoreOK
  BY PlanType DEF Init, StoreOK, PlanDoc, NoRow, LedgerRow
<1>3. ProcessOK
  BY IdleType DEF Init, ProcessOK
<1>4. Positioned
  BY DEF Init, Positioned, IdleRun, StepPoints
<1> QED
  BY <1>1, <1>2, <1>3, <1>4 DEF TypeInv, TypeOK

LEMMA NextType == TypeInv /\ [Next]_vars => TypeInv'
<1> SUFFICES ASSUME TypeInv, [Next]_vars PROVE TypeInv'
  OBVIOUS
<1>1. ASSUME NEW c \in Callers, Execute(c) \/ Enter(c) PROVE TypeInv'
  BY <1>1, ExecuteType, EnterType
<1>2. ASSUME NEW w \in Workers, Take(w) PROVE TypeInv'
  BY <1>2, TakeType
<1>3. ASSUME NEW p \in Procs, Launch(p) PROVE TypeInv'
  BY <1>3, ClaimType, LoadType, RecheckType, RecheckedType, AbortType, SavePlanType,
    StartRunType DEF Launch
<1>4. ASSUME NEW p \in Procs, Walk(p) PROVE TypeInv'
  BY <1>4, PassStepType, BeginStepType, SaveStepType, FinishRunType, ReadClaimType,
    InsertClaimType, BreakRunType, SendGenerateType, ReceiveReplyType,
    RecordChargeType, PollType, SettleType, RecordFailureType DEF Walk
<1>5. CASE UNCHANGED vars
  BY <1>5 DEF vars, TypeInv, TypeOK, PlatformTypeOK, StoreOK, ProcessOK, Positioned,
    platformVars, storeVars, processVars, boundVars
<1> QED
  BY <1>1, <1>2, <1>3, <1>4, <1>5, LifecycleType, PlatformType DEF Next

\* Every state of the execution path is well typed, whatever plan, prices, workers
\* and callers there are, and every run stands at a step of its plan.
THEOREM TypeCorrect == Spec => []TypeOK
<1>1. Spec => []TypeInv
  BY InitType, NextType, PTL DEF Spec
<1>2. TypeInv => TypeOK
  BY DEF TypeInv
<1> QED
  BY <1>1, <1>2, PTL

=============================================================================
