----------------------------- MODULE LeaseProofs -----------------------------
(***************************************************************************)
(* Execution keeps the lease: a job has one runner at a time, ends once,   *)
(* and every step is a step of JobLease, for any number of jobs, workers   *)
(* and callers, any faults and any redelivery.  And while no two jobs are  *)
(* active, the ledger knows what a run has launched, and nothing that was  *)
(* launched is sent again.                                                 *)
(***************************************************************************)
EXTENDS LeaseRefinement, ExecutionProofs, FiniteSetTheorems

-----------------------------------------------------------------------------
(* The inductive invariant.  OneRunnerPerJob alone is not inductive: what   *)
(* keeps a second runner away is that the row of a job that is being run   *)
(* says so, and what requeues a job unconditionally only meets jobs nobody *)
(* has or is about to have.                                                *)

\* The row of a held job is "running", and so is the document the runner will
\* write back over it.
HeldIsRunning ==
  \A p \in Procs : Owns(p) =>
    /\ Status(run[p].job) = "running"
    /\ run[p].pc # "load" => run[p].doc.status = "running"

\* A job id drawn by a call is nobody else's and has no row yet.
DrawnIsFresh ==
  \A c \in Procs : run[c].pc = "save_job" =>
    /\ c \in Callers /\ Status(run[c].job) = "absent"
    /\ \A d \in Procs : run[d].pc = "save_job" /\ run[d].job = run[c].job => d = c

\* Everybody else is about a job that has a row, and so is the queue.
KnownIsSaved ==
  /\ \A p \in Procs : run[p].pc \notin {"idle", "save_job"} =>
                      Status(run[p].job) # "absent"
  /\ \A i \in 1..Len(queue) : Status(queue[i]) # "absent"

\* What recovery has not re-queued yet is unfinished and in nobody's hands.
RecoveringIsFree ==
  \A j \in recovering :
    /\ Status(j) \in ActiveJob
    /\ \A p \in Procs : ~Idle(p) => run[p].job # j
    /\ \A i \in 1..Len(queue) : queue[i] # j

\* A service that is down does nothing and remembers nothing.
DownIsEmpty ==
  up = "down" => queue = << >> /\ \A p \in Procs : Idle(p)

LeaseInv ==
  /\ HeldIsRunning /\ OneRunnerPerJob /\ DrawnIsFresh
  /\ KnownIsSaved /\ RecoveringIsFree /\ DownIsEmpty

-----------------------------------------------------------------------------
(* The kinds of steps a runner makes.                                      *)

\* Only p moves, and of the jobs only its own is written.
Alone(p) ==
  /\ \A q \in Procs \ {p} : run'[q] = run[q]
  /\ \A j \in Jobs \ {run[p].job} : jobs'[j] = jobs[j]
  /\ UNCHANGED processVars

\* It goes on with the job it has.
Holding(p) ==
  /\ Owns(p) /\ Alone(p)
  /\ run'[p].pc \in OwningPoints \ {"load"}
  /\ run'[p].job = run[p].job
  /\ run'[p].doc.status = "running"
  /\ jobs'[run[p].job].status = Status(run[p].job)

\* It lets go of the job, ended or not.
Quitting(p) ==
  /\ Owns(p) /\ Alone(p)
  /\ run'[p] = Left(p)
  /\ jobs'[run[p].job].status \in TerminalJob \cup {"running"}

\* A runner that writes its job a last time and leaves is quitting.
LEMMA LastSave ==
  ASSUME run \in [Procs -> Run], jobs \in [Jobs -> JobDoc],
         NEW p \in Procs, NEW doc, Owns(p), run[p].job \in Jobs,
         Leave(p), SaveJobDoc(run[p].job, doc), UNCHANGED processVars,
         doc.status \in TerminalJob \cup {"running"}
  PROVE  Quitting(p)
<1>1. run'[p] = Left(p) /\ \A q \in Procs \ {p} : run'[q] = run[q]
  BY DEF Leave
<1>2. jobs'[run[p].job] = doc /\ \A j \in Jobs \ {run[p].job} : jobs'[j] = jobs[j]
  BY DEF SaveJobDoc
<1> QED
  BY <1>1, <1>2 DEF Quitting, Alone, Status

LEMMA LaunchKinds ==
  ASSUME TypeInv, LeaseInv, NEW p \in Procs, Launch(p), ~Claim(p)
  PROVE  Holding(p) \/ Quitting(p)
<1> USE DEF TypeInv, TypeOK, Owns, OwningPoints, LaunchPoints
<1>1. run[p] \in Run /\ run \in [Procs -> Run] /\ jobs \in [Jobs -> JobDoc]
  BY DEF ProcessOK, StoreOK
<1>2. run[p].pc # "idle" => run[p].job \in Jobs
  BY DEF Positioned
<1>3. Owns(p) => Status(run[p].job) = "running"
  BY DEF LeaseInv, HeldIsRunning
<1>4. Owns(p) /\ run[p].pc # "load" => run[p].doc.status = "running"
  BY DEF LeaseInv, HeldIsRunning
<1>5. CASE Load(p)
  <2>1. Owns(p) /\ run[p].job \in Jobs /\ jobs[run[p].job].status = "running"
    BY <1>2, <1>3, <1>5 DEF Load, Snapshots, At, Status
  <2>2. run'[p].pc \in {"plan", "recheck"} /\ run'[p].job = run[p].job
        /\ run'[p].doc = jobs[run[p].job]
    BY <1>1, <1>5 DEF Load, Snapshots
  <2>3. Alone(p) /\ jobs' = jobs
    BY <1>1, <1>5 DEF Load, Snapshots, Alone, storeVars, processVars
  <2> QED
    BY <2>1, <2>2, <2>3 DEF Holding, Status
<1>6. CASE Recheck(p)
  BY <1>1, <1>2, <1>4, <1>6 DEF Recheck, At, Holding, Alone, Status, Run, storeVars, processVars
<1>7. CASE Rechecked(p)
  BY <1>1, <1>2, <1>4, <1>7 DEF Rechecked, At, Holding, Alone, Status, Run, storeVars, processVars
<1>8. CASE Abort(p)
  BY <1>1, <1>2, <1>8, LastSave DEF Abort, At, AbortedDoc, TerminalJob
<1>9. CASE SavePlan(p)
  BY <1>1, <1>2, <1>4, <1>9 DEF SavePlan, SavePlanDoc, Goto, At, Holding, Alone, Status, Run, processVars
<1>10. CASE StartRun(p)
  BY <1>1, <1>2, <1>3, <1>10 DEF StartRun, At, Holding, Alone, Status, SaveJobDoc, Run, JobDoc,
    processVars
<1> QED
  BY <1>5, <1>6, <1>7, <1>8, <1>9, <1>10 DEF Launch

LEMMA WalkKinds ==
  ASSUME TypeInv, LeaseInv, NEW p \in Procs, Walk(p)
  PROVE  Holding(p) \/ Quitting(p)
<1> USE DEF Owns, OwningPoints, StepPoints
<1>1. run[p] \in Run /\ run \in [Procs -> Run] /\ jobs \in [Jobs -> JobDoc]
  BY DEF TypeInv, TypeOK, ProcessOK, StoreOK
<1>2. run[p].pc # "idle" => run[p].job \in Jobs
  BY DEF TypeInv, Positioned
<1>3. Owns(p) => Status(run[p].job) = "running"
  BY DEF LeaseInv, HeldIsRunning
<1>4. Owns(p) /\ run[p].pc # "load" => run[p].doc.status = "running"
  BY DEF LeaseInv, HeldIsRunning
<1>5. CASE PassStep(p)
  BY <1>1, <1>2, <1>4, <1>5 DEF PassStep, At, Holding, Alone, Status, Run, JobDoc,
    storeVars, processVars
<1>6. CASE BeginStep(p)
  BY <1>1, <1>2, <1>4, <1>6 DEF BeginStep, Leaving, At, Holding, Alone, Status, Run, JobDoc,
    storeVars, processVars
<1>7. CASE SaveStep(p)
  BY <1>1, <1>2, <1>3, <1>4, <1>7 DEF SaveStep, SaveJobDoc, At, Holding, Alone, Status, Run,
    JobDoc, processVars
<1>8. CASE FinishRun(p)
  <2> DEFINE status == AggregateStatus(run[p].doc, run[p].stopped)
  <2>1. status \in TerminalJob
    BY <1>1, AggregateEnds DEF Run
  <2>2. SaveJobDoc(run[p].job, [run[p].doc EXCEPT !.status = status])
    BY <1>8 DEF FinishRun
  <2>3. [run[p].doc EXCEPT !.status = status].status = status
    BY <1>1 DEF Run, JobDoc
  <2> HIDE DEF status
  <2> QED
    BY <1>1, <1>2, <1>8, <2>1, <2>2, <2>3, LastSave DEF FinishRun, At
<1>9. CASE ReadClaim(p)
  BY <1>1, <1>2, <1>4, <1>9 DEF ReadClaim, Goto, Leaving, SkipStep, At, Holding, Alone, Status,
    Run, JobDoc, storeVars, processVars
<1>10. CASE InsertClaim(p)
  BY <1>1, <1>2, <1>4, <1>10 DEF InsertClaim, Goto, At, Holding, Alone, Status, Run, processVars
<1>11. CASE BreakRun(p)
  BY <1>1, <1>2, <1>4, <1>11, LastSave DEF BreakRun, At
<1>12. CASE SendGenerate(p)
  BY <1>1, <1>2, <1>4, <1>12 DEF SendGenerate, Goto, FailStep, At, Holding, Alone, Status,
    Run, JobDoc, storeVars, processVars
<1>13. CASE ReceiveReply(p)
  BY <1>1, <1>2, <1>4, <1>13 DEF ReceiveReply, Leaving, FailStep, At, Holding, Alone, Status,
    Run, JobDoc, storeVars, processVars
<1>14. CASE RecordCharge(p)
  BY <1>1, <1>2, <1>4, <1>14, SMTT(30) DEF RecordCharge, Goto, Leaving, SkipStep, At, Holding, Alone,
    Status, Run, JobDoc, processVars
<1>15. CASE Poll(p)
  BY <1>1, <1>2, <1>4, <1>15 DEF Poll, Leaving, FailStep, At, Holding, Alone, Status,
    Run, JobDoc, storeVars, processVars
<1>16. CASE Settle(p)
  BY <1>1, <1>2, <1>4, <1>16 DEF Settle, Goto, At, Holding, Alone, Status, Run, processVars
<1>17. CASE RecordFailure(p)
  BY <1>1, <1>2, <1>4, <1>17 DEF RecordFailure, Goto, At, Holding, Alone, Status, Run, processVars
<1> QED
  BY <1>5, <1>6, <1>7, <1>8, <1>9, <1>10, <1>11, <1>12, <1>13, <1>14, <1>15, <1>16, <1>17
    DEF Walk

-----------------------------------------------------------------------------
(* Every step keeps the invariant.                                         *)

LEMMA LeaseInit == Init => LeaseInv
<1> SUFFICES ASSUME Init PROVE LeaseInv
  OBVIOUS
<1>1. \A p \in Procs : run[p].pc = "idle"
  BY DEF Init, IdleRun
<1>2. queue = << >> /\ recovering = {} /\ Len(queue) = 0
  BY DEF Init
<1> QED
  BY <1>1, <1>2 DEF LeaseInv, HeldIsRunning, OneRunnerPerJob, DrawnIsFresh, KnownIsSaved,
    RecoveringIsFree, DownIsEmpty, Owns, Idle, OwningPoints, LaunchPoints, StepPoints

\* What the points of a run exclude.
LEMMA OwnerIsBusy ==
  ASSUME NEW p \in Procs, Owns(p)
  PROVE  ~Idle(p) /\ run[p].pc \notin {"idle", "done", "claim", "save_job", "save_plan", "accept"}
BY DEF Owns, Idle, OwningPoints, LaunchPoints, StepPoints

LEMMA HoldingKeepsLease ==
  ASSUME TypeInv, LeaseInv, NEW p \in Procs, Holding(p)
  PROVE  LeaseInv'
<1> USE DEF LeaseInv
<1>1. run[p].job \in Jobs /\ ~Idle(p) /\ run[p].pc \notin {"idle", "done", "save_job"}
  BY OwnerIsBusy DEF Holding, TypeInv, Positioned, Idle
<1>2. Owns(p)' /\ ~Idle(p)' /\ run'[p].pc \notin {"idle", "save_job", "load"}
  BY DEF Holding, Owns, Idle, OwningPoints, LaunchPoints, StepPoints
<1>3. \A q \in Procs : run'[q].job = run[q].job /\ (Owns(q)' <=> Owns(q))
  BY <1>2 DEF Holding, Alone, Owns
<1>4. \A q \in Procs : Idle(q)' <=> Idle(q)
  BY <1>1, <1>2 DEF Holding, Alone, Idle
<1>5. \A j \in Jobs : jobs'[j].status = Status(j)
  BY DEF Holding, Alone, Status
<1>6. \A q \in Procs : run[q].pc # "idle" => run[q].job \in Jobs
  BY DEF TypeInv, Positioned
<1>7. UNCHANGED <<up, recovering, queue>>
  BY DEF Holding, Alone, processVars
<1>8. queue \in Seq(Jobs) /\ recovering \subseteq Jobs
  BY DEF TypeInv, TypeOK, ProcessOK
<1>9. HeldIsRunning'
  <2> SUFFICES ASSUME NEW q \in Procs, Owns(q)'
               PROVE  /\ jobs'[run'[q].job].status = "running"
                      /\ run'[q].pc # "load" => run'[q].doc.status = "running"
    BY DEF HeldIsRunning, Status
  <2>1. Owns(q) /\ run[q].job \in Jobs
    BY <1>3, <1>6, OwnerIsBusy
  <2>2. jobs'[run'[q].job].status = "running"
    BY <1>3, <1>5, <2>1 DEF HeldIsRunning
  <2>3. run'[q].pc # "load" => run'[q].doc.status = "running"
    BY <2>1 DEF HeldIsRunning, Holding, Alone
  <2> QED
    BY <2>2, <2>3
<1>10. OneRunnerPerJob'
  BY <1>3 DEF OneRunnerPerJob
<1>11. DrawnIsFresh'
  <2>1. \A q \in Procs : run'[q].pc = "save_job" => run[q].pc = "save_job"
    BY <1>2 DEF Holding, Alone
  <2> QED
    BY <1>3, <1>5, <1>6, <2>1 DEF DrawnIsFresh, Status
<1>12. KnownIsSaved'
  <2>1. \A q \in Procs : run'[q].pc \notin {"idle", "save_job"} =>
                         run[q].pc \notin {"idle", "save_job"}
    BY <1>1 DEF Holding, Alone
  <2> QED
    BY <1>3, <1>5, <1>6, <1>7, <1>8, <2>1 DEF KnownIsSaved, Status
<1>13. RecoveringIsFree'
  BY <1>3, <1>4, <1>5, <1>7, <1>8 DEF RecoveringIsFree, Status
<1>14. DownIsEmpty'
  BY <1>4, <1>7 DEF DownIsEmpty
<1> QED
  BY <1>9, <1>10, <1>11, <1>12, <1>13, <1>14

LEMMA LeftIsIdle ==
  ASSUME NEW p \in Procs
  PROVE  /\ Left(p).pc \in {"idle", "done"}
         /\ Left(p).pc = "done" => Left(p).job = run[p].job
BY DEF Left, IdleRun, DoneRun

LEMMA QuittingKeepsLease ==
  ASSUME TypeInv, LeaseInv, NEW p \in Procs, Quitting(p)
  PROVE  LeaseInv'
<1> USE DEF LeaseInv
<1>1. run[p].job \in Jobs /\ ~Idle(p) /\ run[p].pc \notin {"idle", "done", "save_job"}
  BY OwnerIsBusy DEF Quitting, TypeInv, Positioned, Idle
<1>2. /\ ~Owns(p)' /\ Idle(p)' /\ run'[p].pc \in {"idle", "done"}
      /\ run'[p].pc = "done" => run'[p].job = run[p].job
  BY LeftIsIdle DEF Quitting, Owns, Idle, OwningPoints, LaunchPoints, StepPoints
<1>3. \A q \in Procs \ {p} : run'[q] = run[q]
  BY DEF Quitting, Alone
<1>4. \A q \in Procs : Owns(q)' => Owns(q) /\ q # p /\ run'[q] = run[q]
  BY <1>2, <1>3 DEF Owns
<1>5. \A q \in Procs : ~Idle(q)' => ~Idle(q) /\ q # p /\ run'[q] = run[q]
  BY <1>2, <1>3 DEF Idle
<1>6. /\ \A j \in Jobs \ {run[p].job} : jobs'[j] = jobs[j]
      /\ jobs'[run[p].job].status # "absent"
  BY DEF Quitting, Alone, TerminalJob
<1>7. \A q \in Procs : run[q].pc # "idle" => run[q].job \in Jobs
  BY DEF TypeInv, Positioned
<1>8. UNCHANGED <<up, recovering, queue>>
  BY DEF Quitting, Alone, processVars
<1>9. queue \in Seq(Jobs) /\ recovering \subseteq Jobs
  BY DEF TypeInv, TypeOK, ProcessOK
<1>10. \A j \in Jobs : Status(j) # "absent" => jobs'[j].status # "absent"
  BY <1>6 DEF Status
<1>11. HeldIsRunning'
  <2> SUFFICES ASSUME NEW q \in Procs, Owns(q)'
               PROVE  /\ jobs'[run'[q].job].status = "running"
                      /\ run'[q].pc # "load" => run'[q].doc.status = "running"
    BY DEF HeldIsRunning, Status
  <2>1. Owns(q) /\ q # p /\ run'[q] = run[q] /\ run[q].job \in Jobs
    BY <1>4, <1>7, OwnerIsBusy
  <2>2. run[q].job # run[p].job
    BY <2>1 DEF OneRunnerPerJob, Quitting
  <2> QED
    BY <1>6, <2>1, <2>2 DEF HeldIsRunning, Status
<1>12. OneRunnerPerJob'
  BY <1>4 DEF OneRunnerPerJob
<1>13. DrawnIsFresh'
  <2>1. \A q \in Procs : run'[q].pc = "save_job" =>
          run[q].pc = "save_job" /\ run'[q] = run[q] /\ run[q].job # run[p].job
    BY <1>1, <1>2, <1>3 DEF DrawnIsFresh, KnownIsSaved
  <2> QED
    BY <1>6, <1>7, <2>1 DEF DrawnIsFresh, Status
<1>14. KnownIsSaved'
  <2>1. \A q \in Procs : run'[q].pc \notin {"idle", "save_job"} =>
          run[q].pc \notin {"idle", "save_job"} /\ run'[q].job = run[q].job
    BY <1>1, <1>2, <1>3
  <2> QED
    BY <1>7, <1>8, <1>9, <1>10, <2>1 DEF KnownIsSaved, Status
<1>15. RecoveringIsFree'
  <2>1. \A j \in recovering : j # run[p].job
    BY <1>1 DEF RecoveringIsFree
  <2> QED
    BY <1>5, <1>6, <1>8, <1>9, <2>1 DEF RecoveringIsFree, Status
<1>16. DownIsEmpty'
  BY <1>1, <1>8 DEF DownIsEmpty
<1> QED
  BY <1>11, <1>12, <1>13, <1>14, <1>15, <1>16

\* A step of one process that has no job in hand before or after, and writes none.
Bystanding(p) ==
  /\ ~Owns(p) /\ ~Owns(p)' /\ up # "down"
  /\ \A q \in Procs \ {p} : run'[q] = run[q]
  /\ UNCHANGED <<jobs, up, recovering>>

LEMMA BystandingKeepsLease ==
  ASSUME TypeInv, LeaseInv, NEW p \in Procs, Bystanding(p),
         queue' \in Seq(Jobs),
         run'[p].pc # "save_job",
         run'[p].pc # "idle" => Status(run'[p].job) # "absent",
         ~Idle(p)' => run'[p].job \notin recovering,
         \A i \in 1..Len(queue') : /\ Status(queue'[i]) # "absent"
                                   /\ queue'[i] \notin recovering
  PROVE  LeaseInv'
<1> USE DEF LeaseInv
<1>1. \A q \in Procs : Owns(q)' => Owns(q) /\ run'[q] = run[q]
  BY DEF Bystanding, Owns
<1>2. HeldIsRunning'
  BY <1>1 DEF HeldIsRunning, Bystanding, Status
<1>3. OneRunnerPerJob'
  BY <1>1 DEF OneRunnerPerJob
<1>4. DrawnIsFresh'
  BY DEF DrawnIsFresh, Bystanding, Status
<1>5. KnownIsSaved'
  BY DEF KnownIsSaved, Bystanding, Status
<1>6. RecoveringIsFree'
  BY DEF RecoveringIsFree, Bystanding, Status, Idle
<1>7. DownIsEmpty'
  BY DEF DownIsEmpty, Bystanding
<1> QED
  BY <1>2, <1>3, <1>4, <1>5, <1>6, <1>7

LEMMA ExecuteKeepsLease ==
  ASSUME TypeInv, LeaseInv, NEW c \in Callers, Execute(c)
  PROVE  LeaseInv'
<1> USE DEF LeaseInv
<1>1. c \in Procs /\ run[c].pc = "idle" /\ up = "up" /\ recovering = {}
      /\ run \in [Procs -> Run] /\ queue \in Seq(Jobs)
  BY DEF Execute, At, Procs, TypeInv, TypeOK, ProcessOK
<1>2. UNCHANGED <<jobs, up, recovering, queue>>
  BY DEF Execute, storeVars, processVars
<1>3. ASSUME NEW j \in Saved, run' = [run EXCEPT ![c] = DoneRun(j)]
      PROVE  LeaseInv'
  <2>1. run'[c] = DoneRun(j) /\ run'[c].pc = "done" /\ run'[c].job = j
    BY <1>1, <1>3, IdleType DEF Saved
  <2>2. Bystanding(c)
    BY <1>1, <1>2, <1>3, <2>1 DEF Bystanding, Owns, OwningPoints, LaunchPoints, StepPoints
  <2> QED
    BY <1>1, <1>2, <2>1, <2>2, BystandingKeepsLease DEF Saved, KnownIsSaved
<1>4. ASSUME NEW j \in UnusedJobs,
             run' = [run EXCEPT ![c].pc = "save_job", ![c].job = j, ![c].est = plan.est]
      PROVE  LeaseInv'
  <2>1. /\ run'[c].pc = "save_job" /\ run'[c].job = j
        /\ \A q \in Procs \ {c} : run'[q] = run[q]
    BY <1>1, <1>4 DEF Run
  <2>2. /\ Status(j) = "absent" /\ j \in Jobs
        /\ \A d \in Procs : run[d].pc = "save_job" => run[d].job # j
    BY DEF UnusedJobs, Saved, DrawnIsFresh
  <2>3. \A q \in Procs : Owns(q)' => Owns(q) /\ run'[q] = run[q]
    BY <2>1 DEF Owns, OwningPoints, LaunchPoints, StepPoints
  <2>4. HeldIsRunning'
    BY <1>2, <2>3 DEF HeldIsRunning, Status
  <2>5. OneRunnerPerJob'
    BY <2>3 DEF OneRunnerPerJob
  <2>6. DrawnIsFresh'
    BY <1>2, <2>1, <2>2 DEF DrawnIsFresh, Status
  <2>7. KnownIsSaved'
    BY <1>2, <2>1 DEF KnownIsSaved, Status
  <2>8. RecoveringIsFree' /\ DownIsEmpty'
    BY <1>1, <1>2 DEF RecoveringIsFree, DownIsEmpty
  <2> QED
    BY <2>4, <2>5, <2>6, <2>7, <2>8
<1> QED
  BY <1>3, <1>4 DEF Execute

LEMMA EnterKeepsLease ==
  ASSUME TypeInv, LeaseInv, NEW c \in Callers, Enter(c)
  PROVE  LeaseInv'
<1> USE DEF LeaseInv
<1> DEFINE j == run[c].job
<1>1. /\ c \in Procs /\ run[c].pc \in AdmissionPoints /\ j \in Jobs /\ up = "up"
      /\ run \in [Procs -> Run] /\ jobs \in [Jobs -> JobDoc]
      /\ queue \in Seq(Jobs) /\ recovering \subseteq Jobs
  BY DEF Enter, SaveNewJob, SaveNewPlan, SavePlanDoc, Accept, At, AdmissionPoints, Procs,
    TypeInv, TypeOK, StoreOK, ProcessOK, Positioned
<1>2. ~Owns(c) /\ ~Idle(c) /\ j \notin recovering
  BY <1>1 DEF RecoveringIsFree, Owns, Idle, AdmissionPoints, OwningPoints, LaunchPoints,
    StepPoints
<1>3. \A q \in Procs : run[q].pc # "idle" => run[q].job \in Jobs
  BY DEF TypeInv, Positioned
<1>4. \A i \in 1..Len(queue) : Status(queue[i]) # "absent" /\ queue[i] \notin recovering
  BY DEF KnownIsSaved, RecoveringIsFree
<1>5. CASE SaveNewJob(c)
  <2>1. /\ run[c].pc = "save_job" /\ run'[c].pc = "save_plan" /\ run'[c].job = j
        /\ \A q \in Procs \ {c} : run'[q] = run[q]
        /\ UNCHANGED <<up, recovering, queue>>
    BY <1>1, <1>5 DEF SaveNewJob, At, Goto, Run, processVars
  <2>2. /\ Status(j) = "absent" /\ jobs'[j].status = "queued"
        /\ \A i \in Jobs \ {j} : jobs'[i] = jobs[i]
    BY <1>1, <1>5, <2>1 DEF DrawnIsFresh, SaveNewJob, SaveJobDoc, NewDoc, NoDoc
  <2>3. \A q \in Procs : Owns(q)' => Owns(q) /\ run'[q] = run[q] /\ q # c
    BY <2>1 DEF Owns, OwningPoints, LaunchPoints, StepPoints
  <2>4. \A q \in Procs : Owns(q) => run[q].job \in Jobs \ {j}
    BY <1>3, <2>2, OwnerIsBusy DEF HeldIsRunning
  <2>5. HeldIsRunning'
    BY <2>2, <2>3, <2>4 DEF HeldIsRunning, Status
  <2>6. OneRunnerPerJob'
    BY <2>3 DEF OneRunnerPerJob
  <2>7. DrawnIsFresh'
    <3>1. \A q \in Procs : run'[q].pc = "save_job" =>
            run[q].pc = "save_job" /\ run'[q] = run[q] /\ run[q].job \in Jobs \ {j}
      BY <1>1, <1>3, <2>1 DEF DrawnIsFresh
    <3> QED
      BY <2>2, <3>1 DEF DrawnIsFresh, Status
  <2>8. KnownIsSaved'
    BY <1>1, <1>3, <2>1, <2>2 DEF KnownIsSaved, Status
  <2>9. RecoveringIsFree'
    BY <1>1, <1>2, <2>1, <2>2 DEF RecoveringIsFree, Status, Idle
  <2>10. DownIsEmpty'
    BY <1>1, <2>1 DEF DownIsEmpty
  <2> QED
    BY <2>5, <2>6, <2>7, <2>8, <2>9, <2>10
<1>6. CASE SaveNewPlan(c)
  <2>1. run[c].pc = "save_plan" /\ run'[c].pc = "accept" /\ run'[c].job = j
    BY <1>1, <1>6 DEF SaveNewPlan, SavePlanDoc, At, Goto, Run
  <2>2. Bystanding(c) /\ queue' = queue
    BY <1>1, <1>2, <1>6, <2>1 DEF SaveNewPlan, SavePlanDoc, Goto, Bystanding, Owns, processVars,
      OwningPoints, LaunchPoints, StepPoints
  <2>3. Status(j) # "absent"
    BY <1>1, <2>1 DEF KnownIsSaved
  <2> QED
    BY <1>1, <1>2, <1>4, <2>1, <2>2, <2>3, BystandingKeepsLease
<1>7. CASE Accept(c)
  <2>1. run[c].pc = "accept" /\ Status(j) # "absent"
    BY <1>1, <1>7 DEF Accept, At, KnownIsSaved
  <2>2. /\ run'[c].pc \in {"idle", "done", "claim"}
        /\ run'[c].pc # "idle" => run'[c].job = j
        /\ \A q \in Procs \ {c} : run'[q] = run[q]
    BY <1>1, <1>7, LeftIsIdle DEF Accept, Goto, Leave, Run
  <2>3. Bystanding(c)
    BY <1>1, <1>2, <1>7, <2>2 DEF Accept, Bystanding, Owns, storeVars,
      OwningPoints, LaunchPoints, StepPoints
  <2>4. queue' = queue \/ queue' = Append(queue, j)
    BY <1>7 DEF Accept
  <2>5. /\ queue' \in Seq(Jobs)
        /\ \A i \in 1..Len(queue') : Status(queue'[i]) # "absent" /\ queue'[i] \notin recovering
    <3>1. CASE queue' = queue
      BY <1>1, <1>4, <3>1
    <3>2. CASE queue' = Append(queue, j)
      BY <1>1, <1>2, <1>4, <2>1, <3>2
    <3> QED
      BY <2>4, <3>1, <3>2
  <2> QED
    BY <1>1, <1>2, <2>1, <2>2, <2>3, <2>5, BystandingKeepsLease DEF Idle
<1> QED
  BY <1>5, <1>6, <1>7 DEF Enter

LEMMA TakeKeepsLease ==
  ASSUME TypeInv, LeaseInv, NEW w \in Workers, Take(w)
  PROVE  LeaseInv'
<1> USE DEF LeaseInv
<1>1. /\ w \in Procs /\ run[w].pc = "idle" /\ up = "up" /\ run \in [Procs -> Run]
      /\ queue \in Seq(Jobs) /\ queue # << >>
  BY DEF Take, At, Procs, TypeInv, TypeOK, ProcessOK
<1>2. \A i \in 1..Len(queue) : Status(queue[i]) # "absent" /\ queue[i] \notin recovering
  BY DEF KnownIsSaved, RecoveringIsFree
<1>3. Head(queue) = queue[1] /\ 1 \in 1..Len(queue)
  BY <1>1
<1>4. run'[w].pc = "claim" /\ run'[w].job = Head(queue)
  BY <1>1 DEF Take, Run
<1>5. Bystanding(w)
  BY <1>1, <1>4 DEF Take, Bystanding, Owns, storeVars, OwningPoints, LaunchPoints, StepPoints
<1>6. queue' = queue \/ queue' = Tail(queue)
  BY DEF Take
<1>7. /\ queue' \in Seq(Jobs)
      /\ \A i \in 1..Len(queue') : Status(queue'[i]) # "absent" /\ queue'[i] \notin recovering
  <2>1. CASE queue' = queue
    BY <1>1, <1>2, <2>1
  <2>2. CASE queue' = Tail(queue)
    BY <1>1, <1>2, <2>2
  <2> QED
    BY <1>6, <2>1, <2>2
<1> QED
  BY <1>1, <1>2, <1>3, <1>4, <1>5, <1>7, BystandingKeepsLease

LEMMA ClaimKeepsLease ==
  ASSUME TypeInv, LeaseInv, NEW p \in Procs, Claim(p)
  PROVE  LeaseInv'
<1> USE DEF LeaseInv
<1> DEFINE j == run[p].job
<1>1. /\ run[p].pc = "claim" /\ up = "up" /\ j \in Jobs /\ run \in [Procs -> Run]
      /\ jobs \in [Jobs -> JobDoc] /\ queue \in Seq(Jobs) /\ recovering \subseteq Jobs
  BY DEF Claim, At, TypeInv, TypeOK, StoreOK, ProcessOK, Positioned
<1>2. ~Owns(p) /\ ~Idle(p) /\ j \notin recovering /\ Status(j) # "absent"
  BY <1>1 DEF RecoveringIsFree, KnownIsSaved, Owns, Idle, OwningPoints, LaunchPoints,
    StepPoints
<1>3. \A q \in Procs : run[q].pc # "idle" => run[q].job \in Jobs
  BY DEF TypeInv, Positioned
<1>4. UNCHANGED <<up, recovering, queue>>
  BY DEF Claim, processVars
<1>5. CASE Claimable(j)
  <2>1. /\ run'[p].pc = "load" /\ run'[p].job = j
        /\ \A q \in Procs \ {p} : run'[q] = run[q]
    BY <1>1, <1>5 DEF Claim, Goto, Run
  <2>2. /\ Status(j) = "queued" /\ jobs'[j].status = "running"
        /\ \A i \in Jobs \ {j} : jobs'[i] = jobs[i]
    BY <1>1, <1>5 DEF Claim, Claimable, JobDoc
  <2>3. \A q \in Procs : Owns(q) => q # p /\ run[q].job \in Jobs \ {j}
    BY <1>2, <1>3, <2>2, OwnerIsBusy DEF HeldIsRunning
  <2>4. \A q \in Procs \ {p} : Owns(q)' => Owns(q) /\ run'[q] = run[q]
    BY <2>1 DEF Owns
  <2>5. HeldIsRunning'
    <3> SUFFICES ASSUME NEW q \in Procs, Owns(q)'
                 PROVE  /\ jobs'[run'[q].job].status = "running"
                        /\ run'[q].pc # "load" => run'[q].doc.status = "running"
      BY DEF HeldIsRunning, Status
    <3>1. CASE q = p
      BY <2>1, <2>2, <3>1
    <3>2. CASE q # p
      BY <2>2, <2>3, <2>4, <3>2 DEF HeldIsRunning, Status
    <3> QED
      BY <3>1, <3>2
  <2>6. OneRunnerPerJob'
    BY <2>1, <2>3, <2>4 DEF OneRunnerPerJob
  <2>7. DrawnIsFresh'
    <3>1. \A q \in Procs : run'[q].pc = "save_job" =>
            run[q].pc = "save_job" /\ run'[q] = run[q] /\ run[q].job \in Jobs \ {j}
      BY <1>2, <1>3, <2>1 DEF DrawnIsFresh
    <3> QED
      BY <2>2, <3>1 DEF DrawnIsFresh, Status
  <2>8. KnownIsSaved'
    BY <1>1, <1>3, <1>4, <2>1, <2>2 DEF KnownIsSaved, Status
  <2>9. RecoveringIsFree'
    BY <1>1, <1>2, <1>4, <2>1, <2>2 DEF RecoveringIsFree, Status, Idle
  <2>10. DownIsEmpty'
    BY <1>1, <1>4 DEF DownIsEmpty
  <2> QED
    BY <2>5, <2>6, <2>7, <2>8, <2>9, <2>10
<1>6. CASE ~Claimable(j)
  <2>1. /\ run'[p] = Left(p) /\ jobs' = jobs
        /\ \A q \in Procs \ {p} : run'[q] = run[q]
    BY <1>1, <1>6 DEF Claim, Leave
  <2>2. Bystanding(p)
    BY <1>1, <1>2, <1>4, <2>1, LeftIsIdle DEF Bystanding, Owns, OwningPoints, LaunchPoints,
      StepPoints
  <2> QED
    BY <1>1, <1>2, <1>4, <2>1, <2>2, LeftIsIdle, BystandingKeepsLease
      DEF KnownIsSaved, RecoveringIsFree, Idle
<1> QED
  BY <1>5, <1>6

\* A cancelled worker quits, or never had the job.
LEMMA CancelKinds ==
  ASSUME TypeInv, LeaseInv, NEW w \in Workers, Cancel(w)
  PROVE  \/ Quitting(w)
         \/ ~Owns(w) /\ run'[w] = Left(w) /\ jobs' = jobs
<1>1. /\ w \in Procs /\ run[w] \in Run /\ run \in [Procs -> Run]
      /\ jobs \in [Jobs -> JobDoc] /\ run[w].job \in Jobs
  BY DEF Cancel, Idle, Procs, TypeInv, TypeOK, StoreOK, ProcessOK, Positioned
<1>2. Leave(w) /\ run'[w] = Left(w) /\ \A q \in Procs \ {w} : run'[q] = run[q]
  BY <1>1 DEF Cancel, Leave
<1>3. CASE jobs' = jobs /\ Owns(w)
  <2>1. Status(run[w].job) = "running"
    BY <1>1, <1>3 DEF LeaseInv, HeldIsRunning
  <2> QED
    BY <1>2, <1>3, <2>1 DEF Cancel, Quitting, Alone, Status
<1>4. CASE jobs' = jobs /\ ~Owns(w)
  BY <1>2, <1>4
<1>5. CASE run[w].pc \in StepPoints \cup {"save"} /\ SaveJobDoc(run[w].job, run[w].doc)
  <2>1. Owns(w) /\ run[w].doc.status = "running"
    BY <1>1, <1>5 DEF LeaseInv, HeldIsRunning, Owns, OwningPoints, StepPoints
  <2> QED
    BY <1>1, <1>2, <1>5, <2>1, LastSave DEF Cancel
<1> QED
  BY <1>3, <1>4, <1>5 DEF Cancel

LEMMA CancelKeepsLease ==
  ASSUME TypeInv, LeaseInv, NEW w \in Workers, Cancel(w)
  PROVE  LeaseInv'
<1>1. w \in Procs
  BY DEF Procs
<1>2. CASE Quitting(w)
  BY <1>1, <1>2, QuittingKeepsLease
<1>3. CASE ~Owns(w) /\ run'[w] = Left(w) /\ jobs' = jobs
  <2>1. /\ run[w].pc \notin {"idle", "done"} /\ up = "stopping" /\ queue' = queue
        /\ UNCHANGED <<up, recovering>>
        /\ \A q \in Procs \ {w} : run'[q] = run[q]
    BY <1>1 DEF Cancel, Idle, Leave, processVars, TypeInv, TypeOK, ProcessOK
  <2>2. Left(w).pc = "idle" /\ queue \in Seq(Jobs)
    BY DEF Left, IdleRun, TypeInv, TypeOK, ProcessOK
  <2>3. Bystanding(w)
    BY <1>3, <2>1, <2>2 DEF Bystanding, Owns, OwningPoints, LaunchPoints, StepPoints
  <2> QED
    BY <1>1, <1>3, <2>1, <2>2, <2>3, BystandingKeepsLease
      DEF LeaseInv, KnownIsSaved, RecoveringIsFree, Idle
<1> QED
  BY <1>2, <1>3, CancelKinds

LEMMA GoDownKeepsLease ==
  ASSUME TypeInv, LeaseInv, GoDown
  PROVE  LeaseInv'
<1> USE DEF LeaseInv
<1>1. \A p \in Procs : /\ run'[p].pc \in {"idle", "done"}
                       /\ run'[p].pc = "done" => run'[p] = run[p]
  BY DEF GoDown, Lost, IdleRun
<1>2. jobs' = jobs /\ queue' = << >> /\ recovering' = {}
  BY DEF GoDown, storeVars
<1>3. Len(queue') = 0
  BY <1>2
<1>4. \A p \in Procs : ~Owns(p)' /\ Idle(p)'
  BY <1>1 DEF Owns, Idle, OwningPoints, LaunchPoints, StepPoints
<1>5. HeldIsRunning' /\ OneRunnerPerJob'
  BY <1>4 DEF HeldIsRunning, OneRunnerPerJob
<1>6. DrawnIsFresh' /\ RecoveringIsFree' /\ DownIsEmpty'
  BY <1>1, <1>2, <1>4 DEF DrawnIsFresh, RecoveringIsFree, DownIsEmpty
<1>7. KnownIsSaved'
  BY <1>1, <1>2, <1>3 DEF KnownIsSaved, Status
<1> QED
  BY <1>5, <1>6, <1>7

LEMMA RestartKeepsLease ==
  ASSUME TypeInv, LeaseInv, Restart
  PROVE  LeaseInv'
<1> USE DEF LeaseInv
<1>1. /\ queue = << >> /\ \A p \in Procs : Idle(p)
  BY DEF DownIsEmpty, Restart
<1>2. /\ UNCHANGED <<jobs, queue, run>> /\ up' = "up"
      /\ recovering' \subseteq Jobs /\ \A j \in recovering' : Status(j) \in ActiveJob
  BY DEF Restart, storeVars, Unfinished
<1>3. RecoveringIsFree'
  BY <1>1, <1>2 DEF RecoveringIsFree, Status, Idle
<1> QED
  BY <1>2, <1>3 DEF HeldIsRunning, OneRunnerPerJob, DrawnIsFresh, KnownIsSaved,
    DownIsEmpty, Owns, Status

LEMMA RecoverKeepsLease ==
  ASSUME TypeInv, LeaseInv, NEW j \in Jobs, Recover(j)
  PROVE  LeaseInv'
<1> USE DEF LeaseInv
<1>1. /\ up = "up" /\ j \in recovering /\ recovering' = recovering \ {j}
      /\ queue' = Append(queue, j) /\ UNCHANGED <<up, run>>
      /\ queue \in Seq(Jobs) /\ recovering \subseteq Jobs
  BY DEF Recover, RequeueJob, TypeInv, TypeOK, ProcessOK
<1>2. /\ jobs'[j].status = "queued" /\ \A i \in Jobs \ {j} : jobs'[i] = jobs[i]
      /\ Status(j) \in ActiveJob
  BY <1>1 DEF Recover, RequeueJob, TypeInv, TypeOK, StoreOK, JobDoc, RecoveringIsFree
<1>3. \A q \in Procs : run[q].pc # "idle" => run[q].job \in Jobs
  BY DEF TypeInv, Positioned
<1>4. \A q \in Procs : ~Idle(q) => run[q].job \in Jobs \ {j}
  BY <1>1, <1>3 DEF RecoveringIsFree, Idle
<1>5. HeldIsRunning'
  BY <1>1, <1>2, <1>4, OwnerIsBusy DEF HeldIsRunning, Status, Owns
<1>6. OneRunnerPerJob'
  BY <1>1 DEF OneRunnerPerJob, Owns
<1>7. DrawnIsFresh'
  BY <1>1, <1>2, <1>4 DEF DrawnIsFresh, Status, Idle
<1>8. KnownIsSaved'
  <2>1. \A p \in Procs : run[p].pc \notin {"idle", "save_job"} =>
                         jobs'[run[p].job].status # "absent"
    BY <1>2, <1>3 DEF KnownIsSaved, Status
  <2>2. \A i \in 1..Len(queue') : jobs'[queue'[i]].status # "absent"
    BY <1>1, <1>2 DEF KnownIsSaved, Status
  <2> QED
    BY <1>1, <2>1, <2>2 DEF KnownIsSaved, Status
<1>9. RecoveringIsFree'
  <2> SUFFICES ASSUME NEW i \in recovering'
               PROVE  /\ jobs'[i].status \in ActiveJob
                      /\ \A p \in Procs : ~Idle(p) => run[p].job # i
                      /\ \A k \in 1..Len(queue') : queue'[k] # i
    BY <1>1 DEF RecoveringIsFree, Status, Idle
  <2>1. i \in recovering /\ i # j /\ i \in Jobs
    BY <1>1
  <2>2. \A k \in 1..Len(queue') : queue'[k] # i
    BY <1>1, <2>1 DEF RecoveringIsFree
  <2> QED
    BY <1>2, <2>1, <2>2 DEF RecoveringIsFree, Status
<1>10. DownIsEmpty'
  BY <1>1 DEF DownIsEmpty
<1> QED
  BY <1>5, <1>6, <1>7, <1>8, <1>9, <1>10

LEMMA StutterKeepsLease ==
  ASSUME LeaseInv, UNCHANGED <<jobs, recovering, queue, run>>, up' = up \/ up' = "stopping"
  PROVE  LeaseInv'
BY DEF LeaseInv, HeldIsRunning, OneRunnerPerJob, DrawnIsFresh, KnownIsSaved,
  RecoveringIsFree, DownIsEmpty, Owns, Idle, Status

LEMMA LeaseNext == TypeInv /\ LeaseInv /\ [Next]_vars => LeaseInv'
<1> SUFFICES ASSUME TypeInv, LeaseInv, [Next]_vars PROVE LeaseInv'
  OBVIOUS
<1>1. ASSUME NEW c \in Callers, Execute(c) \/ Enter(c) PROVE LeaseInv'
  BY <1>1, ExecuteKeepsLease, EnterKeepsLease
<1>2. ASSUME NEW w \in Workers, Take(w) PROVE LeaseInv'
  BY <1>2, TakeKeepsLease
<1>3. ASSUME NEW p \in Procs, Launch(p) \/ Walk(p) PROVE LeaseInv'
  BY <1>3, ClaimKeepsLease, LaunchKinds, WalkKinds, HoldingKeepsLease, QuittingKeepsLease
<1>4. CASE Lifecycle
  <2>1. CASE Stop
    BY <2>1, StutterKeepsLease DEF Stop, storeVars
  <2>2. CASE Stopped \/ Kill
    BY <2>2, GoDownKeepsLease DEF Stopped, Kill
  <2> QED
    BY <1>4, <2>1, <2>2, RestartKeepsLease, CancelKeepsLease, RecoverKeepsLease DEF Lifecycle
<1>5. CASE PlatformStep
  BY <1>5, StutterKeepsLease DEF PlatformStep, storeVars, processVars
<1>6. CASE UNCHANGED vars
  BY <1>6, StutterKeepsLease DEF vars, storeVars, processVars
<1> QED
  BY <1>1, <1>2, <1>3, <1>4, <1>5, <1>6 DEF Next

LEMMA Invariance == Spec => [](TypeInv /\ LeaseInv)
<1>1. Init => TypeInv /\ LeaseInv
  BY InitType, LeaseInit
<1>2. TypeInv /\ LeaseInv /\ [Next]_vars => (TypeInv /\ LeaseInv)'
  BY NextType, LeaseNext
<1> QED
  BY <1>1, <1>2, PTL DEF Spec

\* No two workers or callers ever run the same job, for any number of jobs and
\* processes: claim_for_execution is the only way to one, and what re-queues a job
\* unconditionally only meets jobs nobody runs.
THEOREM OneRunner == Spec => []OneRunnerPerJob
<1>1. TypeInv /\ LeaseInv => OneRunnerPerJob
  BY DEF LeaseInv
<1> QED
  BY <1>1, Invariance, PTL

-----------------------------------------------------------------------------
(* A job that ended stays as it ended.                                     *)

LEMMA TerminalStep ==
  ASSUME TypeInv, LeaseInv, [Next]_vars, NEW j \in Jobs, Status(j) \in TerminalJob
  PROVE  jobs'[j] = jobs[j]
<1>1. Status(j) \notin {"absent", "queued", "running"} /\ jobs \in [Jobs -> JobDoc]
  BY DEF TerminalJob, TypeInv, TypeOK, StoreOK
<1>2. ASSUME NEW p \in Procs, Holding(p) \/ Quitting(p) PROVE jobs'[j] = jobs[j]
  <2>1. Status(run[p].job) = "running"
    BY <1>2 DEF Holding, Quitting, LeaseInv, HeldIsRunning
  <2>2. j # run[p].job
    BY <1>1, <2>1
  <2> QED
    BY <1>2, <2>2 DEF Holding, Quitting, Alone
<1>3. ASSUME NEW c \in Callers, Execute(c) \/ Enter(c) PROVE jobs'[j] = jobs[j]
  <2>1. ASSUME SaveNewJob(c) PROVE jobs'[j] = jobs[j]
    <3>1. Status(run[c].job) = "absent"
      BY <2>1 DEF SaveNewJob, At, LeaseInv, DrawnIsFresh, Procs
    <3> QED
      BY <1>1, <2>1, <3>1 DEF SaveNewJob, SaveJobDoc
  <2> QED
    BY <1>3, <2>1 DEF Execute, Enter, SaveNewPlan, SavePlanDoc, Accept, storeVars
<1>4. ASSUME NEW w \in Workers, Take(w) PROVE jobs'[j] = jobs[j]
  BY <1>4 DEF Take, storeVars
<1>5. ASSUME NEW p \in Procs, Launch(p) \/ Walk(p) PROVE jobs'[j] = jobs[j]
  <2>1. CASE Claim(p)
    BY <1>1, <2>1 DEF Claim, Claimable, Status
  <2> QED
    BY <1>2, <1>5, <2>1, LaunchKinds, WalkKinds
<1>6. ASSUME NEW w \in Workers, Cancel(w) PROVE jobs'[j] = jobs[j]
  BY <1>2, <1>6, CancelKinds DEF Procs
<1>7. ASSUME NEW i \in Jobs, Recover(i) PROVE jobs'[j] = jobs[j]
  BY <1>1, <1>7 DEF Recover, RequeueJob, LeaseInv, RecoveringIsFree, ActiveJob
<1>8. CASE Stop \/ Stopped \/ Kill \/ Restart \/ PlatformStep \/ UNCHANGED vars
  BY <1>8 DEF Stop, Stopped, Kill, GoDown, Restart, PlatformStep, vars, storeVars
<1> QED
  BY <1>3, <1>4, <1>5, <1>6, <1>7, <1>8 DEF Next, Lifecycle

\* A job that ended is never written again: neither a redelivered id, nor startup
\* recovery, nor the save of a cancelled worker touches it.
THEOREM TerminalStays == Spec => TerminalIsFinal
<1>1. TypeInv /\ LeaseInv /\ [Next]_vars =>
        [\A j \in Jobs : Status(j) \in TerminalJob => jobs'[j] = jobs[j]]_vars
  BY TerminalStep
<1> QED
  BY <1>1, Invariance, PTL DEF Spec, TerminalIsFinal

-----------------------------------------------------------------------------
(* The execution path implements the lease.                                *)

StageMap == [j \in Jobs |-> Stage(j)]
HolderMap == [j \in Jobs |-> Holders(j)]

LEMMA SameStages ==
  ASSUME \A j \in Jobs : jobs'[j].status = jobs[j].status
  PROVE  StageMap' = StageMap
BY DEF StageMap, Stage, Status

LEMMA SameHolders ==
  ASSUME \A p \in Procs : /\ Owns(p)' <=> Owns(p)
                          /\ Owns(p) => run'[p].job = run[p].job
  PROVE  HolderMap' = HolderMap
BY DEF HolderMap, Holders

LEMMA StageOf ==
  ASSUME NEW j \in Jobs
  PROVE  /\ Status(j) \in {"queued", "running"} => Stage(j) = Status(j)
         /\ Status(j) = "absent" => Stage(j) = "absent"
         /\ Status(j) \in TerminalJob => Stage(j) = "ended"
BY DEF Stage, TerminalJob, ActiveJob

\* What a step does to one job only.
LEMMA OneStage ==
  ASSUME NEW j \in Jobs, NEW s, Stage(j)' = s,
         \A i \in Jobs \ {j} : jobs'[i] = jobs[i]
  PROVE  StageMap' = [StageMap EXCEPT ![j] = s]
<1>1. \A i \in Jobs \ {j} : Stage(i)' = Stage(i)
  BY DEF Stage, Status
<1> QED
  BY <1>1 DEF StageMap

LEMMA OneHolder ==
  ASSUME NEW j \in Jobs, NEW H, Holders(j)' = H,
         \A i \in Jobs \ {j} : Holders(i)' = Holders(i)
  PROVE  HolderMap' = [HolderMap EXCEPT ![j] = H]
BY DEF HolderMap

\* The refinement mapping seen from JobLease.
StepOfLease == Lease!LeaseNext \/ (StageMap' = StageMap /\ HolderMap' = HolderMap)

LEMMA QuittingIsLease ==
  ASSUME TypeInv, LeaseInv, NEW p \in Procs, Quitting(p)
  PROVE  StepOfLease
<1>0. PICK j \in Jobs : j = run[p].job
  BY OwnerIsBusy DEF Quitting, TypeInv, Positioned
<1>1. j = run[p].job /\ Owns(p) /\ Status(j) = "running"
  BY <1>0 DEF Quitting, LeaseInv, HeldIsRunning
<1>2. /\ \A q \in Procs : Owns(q)' <=> Owns(q) /\ q # p
      /\ \A q \in Procs \ {p} : run'[q] = run[q]
  BY LeftIsIdle DEF Quitting, Alone, Owns, OwningPoints, LaunchPoints, StepPoints
<1>3. p \in Holders(j) /\ Holders(j)' = {} /\ \A i \in Jobs \ {j} : Holders(i)' = Holders(i)
  BY <1>1, <1>2 DEF Holders, LeaseInv, OneRunnerPerJob
<1>4. HolderMap' = [HolderMap EXCEPT ![j] = {}]
  BY <1>1, <1>3, OneHolder
<1>5. HolderMap[j] # {} /\ StageMap[j] = "running"
  BY <1>1, <1>3, StageOf DEF HolderMap, StageMap
<1>6. CASE jobs'[j].status = "running"
  <2>1. \A i \in Jobs : jobs'[i].status = jobs[i].status
    BY <1>1, <1>6 DEF Quitting, Alone, Status
  <2>2. Lease!Abandon(j)
    BY <1>4, <1>5, <2>1, SameStages DEF Lease!Abandon, StageMap, HolderMap
  <2> QED
    BY <1>1, <2>2 DEF StepOfLease, Lease!LeaseNext
<1>7. CASE jobs'[j].status \in TerminalJob
  <2>1. Stage(j)' = "ended"
    BY <1>1, <1>7 DEF Stage, Status, TerminalJob, ActiveJob
  <2>2. StageMap' = [StageMap EXCEPT ![j] = "ended"]
    BY <1>1, <2>1, OneStage DEF Quitting, Alone
  <2>3. Lease!End(j)
    BY <1>4, <1>5, <2>2 DEF Lease!End, StageMap, HolderMap
  <2> QED
    BY <1>1, <2>3 DEF StepOfLease, Lease!LeaseNext
<1> QED
  BY <1>1, <1>6, <1>7 DEF Quitting

LEMMA HoldingIsLease ==
  ASSUME TypeInv, NEW p \in Procs, Holding(p)
  PROVE  StepOfLease
<1>1. \A q \in Procs : (Owns(q)' <=> Owns(q)) /\ run'[q].job = run[q].job
  BY DEF Holding, Alone, Owns
<1>2. \A j \in Jobs : jobs'[j].status = jobs[j].status
  BY DEF Holding, Alone, Status
<1> QED
  BY <1>1, <1>2, SameStages, SameHolders DEF StepOfLease

LEMMA BystandingIsLease ==
  ASSUME NEW p \in Procs, ~Owns(p), ~Owns(p)', jobs' = jobs,
         \A q \in Procs \ {p} : run'[q] = run[q]
  PROVE  StepOfLease
<1>1. \A q \in Procs : (Owns(q)' <=> Owns(q)) /\ (Owns(q) => run'[q].job = run[q].job)
  BY DEF Owns
<1> QED
  BY <1>1, SameStages, SameHolders DEF StepOfLease

LEMMA AdmissionIsLease ==
  ASSUME TypeInv, LeaseInv, NEW c \in Callers, Execute(c) \/ Enter(c)
  PROVE  StepOfLease
<1>1. c \in Procs /\ run \in [Procs -> Run] /\ jobs \in [Jobs -> JobDoc]
  BY DEF Procs, TypeInv, TypeOK, StoreOK, ProcessOK
<1>2. run[c].pc \in {"idle", "save_job", "save_plan", "accept"}
  BY DEF Execute, Enter, SaveNewJob, SaveNewPlan, SavePlanDoc, Accept, At
<1>3. run'[c].pc \in {"idle", "done", "claim", "save_job", "save_plan", "accept"}
  <2>1. CASE Execute(c)
    <3>1. ASSUME NEW j \in Saved, run' = [run EXCEPT ![c] = DoneRun(j)]
          PROVE  run'[c].pc = "done"
      BY <1>1, <3>1, IdleType DEF Saved
    <3>2. ASSUME NEW j \in UnusedJobs,
                 run' = [run EXCEPT ![c].pc = "save_job", ![c].job = j, ![c].est = plan.est]
          PROVE  run'[c].pc = "save_job"
      BY <1>1, <3>2 DEF Run
    <3> QED
      BY <2>1, <3>1, <3>2 DEF Execute
  <2>2. CASE Enter(c)
    BY <1>1, <2>2, LeftIsIdle DEF Enter, SaveNewJob, SaveNewPlan, SavePlanDoc, Accept, Goto, Leave, Run
  <2> QED
    BY <2>1, <2>2
<1>4. \A q \in Procs \ {c} : run'[q] = run[q]
  BY <1>1 DEF Execute, Enter, SaveNewJob, SaveNewPlan, SavePlanDoc, Accept, Goto, Leave
<1>5. ~Owns(c) /\ ~Owns(c)'
  BY <1>2, <1>3 DEF Owns, OwningPoints, LaunchPoints, StepPoints
<1>6. CASE SaveNewJob(c)
  <2>0. PICK j \in Jobs : j = run[c].job
    BY <1>1, <1>6 DEF SaveNewJob, At, TypeInv, Positioned
  <2>1. j = run[c].job /\ Status(j) = "absent"
    BY <1>1, <1>6, <2>0 DEF SaveNewJob, At, LeaseInv, DrawnIsFresh
  <2>2. jobs'[j].status = "queued" /\ \A i \in Jobs \ {j} : jobs'[i] = jobs[i]
    BY <1>1, <1>6, <2>1 DEF SaveNewJob, SaveJobDoc, NewDoc, NoDoc
  <2>3. Stage(j)' = "queued"
    BY <2>2 DEF Stage, Status, TerminalJob, ActiveJob
  <2>4. StageMap' = [StageMap EXCEPT ![j] = "queued"]
    BY <2>1, <2>2, <2>3, OneStage
  <2>5. HolderMap' = HolderMap
    BY <1>4, <1>5, SameHolders DEF Owns
  <2>6. StageMap[j] = "absent"
    BY <2>1, StageOf DEF StageMap
  <2>7. Lease!Submit(j)
    BY <2>4, <2>5, <2>6 DEF Lease!Submit, StageMap, HolderMap
  <2> QED
    BY <2>1, <2>7 DEF StepOfLease, Lease!LeaseNext
<1>7. CASE ~SaveNewJob(c)
  <2>1. jobs' = jobs
    BY <1>7 DEF Execute, Enter, SaveNewPlan, SavePlanDoc, Accept, storeVars
  <2> QED
    BY <1>1, <1>4, <1>5, <2>1, BystandingIsLease
<1> QED
  BY <1>6, <1>7

LEMMA ClaimIsLease ==
  ASSUME TypeInv, LeaseInv, NEW p \in Procs, Claim(p)
  PROVE  StepOfLease
<1>0. PICK j \in Jobs : j = run[p].job
  BY DEF Claim, At, TypeInv, Positioned
<1>1. /\ run[p].pc = "claim" /\ j = run[p].job /\ ~Owns(p)
      /\ run \in [Procs -> Run] /\ jobs \in [Jobs -> JobDoc]
  BY <1>0 DEF Claim, At, Owns, OwningPoints, LaunchPoints, StepPoints,
    TypeInv, TypeOK, StoreOK, ProcessOK, Positioned
<1>2. CASE Claimable(j)
  <2>1. /\ Owns(p)' /\ run'[p].job = j
        /\ \A q \in Procs \ {p} : run'[q] = run[q]
    BY <1>1, <1>2 DEF Claim, Goto, Run, Owns, OwningPoints, LaunchPoints
  <2>2. /\ Status(j) = "queued" /\ jobs'[j].status = "running"
        /\ \A i \in Jobs \ {j} : jobs'[i] = jobs[i]
    BY <1>1, <1>2 DEF Claim, Claimable, JobDoc
  <2>3. \A q \in Procs : Owns(q) => run[q].job # j
    BY <2>2 DEF LeaseInv, HeldIsRunning
  <2>4. \A q \in Procs : Owns(q)' <=> Owns(q) \/ q = p
    BY <2>1 DEF Owns
  <2>5. Holders(j) = {} /\ Holders(j)' = {p} /\ \A i \in Jobs \ {j} : Holders(i)' = Holders(i)
    BY <1>1, <2>1, <2>3, <2>4 DEF Holders
  <2>6. Stage(j)' = "running" /\ Stage(j) = "queued"
    BY <2>2 DEF Stage, Status, TerminalJob, ActiveJob
  <2>7. StageMap' = [StageMap EXCEPT ![j] = "running"]
    BY <1>1, <2>2, <2>6, OneStage
  <2>8. HolderMap' = [HolderMap EXCEPT ![j] = {p}]
    BY <1>1, <2>5, OneHolder
  <2>9. StageMap[j] = "queued" /\ HolderMap[j] = {}
    BY <1>1, <2>5, <2>6 DEF StageMap, HolderMap
  <2>10. Lease!Take(j, p)
    BY <2>7, <2>8, <2>9 DEF Lease!Take, StageMap, HolderMap
  <2> QED
    BY <1>1, <2>10 DEF StepOfLease, Lease!LeaseNext
<1>3. CASE ~Claimable(j)
  <2>1. ~Owns(p)' /\ jobs' = jobs /\ \A q \in Procs \ {p} : run'[q] = run[q]
    BY <1>1, <1>3, LeftIsIdle DEF Claim, Leave, Owns, OwningPoints, LaunchPoints, StepPoints
  <2> QED
    BY <1>1, <2>1, BystandingIsLease
<1> QED
  BY <1>2, <1>3

LEMMA LifecycleIsLease ==
  ASSUME TypeInv, LeaseInv, Lifecycle
  PROVE  StepOfLease
<1>1. CASE Stop \/ Restart
  BY <1>1, SameStages, SameHolders DEF Stop, Restart, StepOfLease, Owns, storeVars
<1>2. CASE Stopped \/ Kill
  <2>1. jobs' = jobs /\ \A p \in Procs : run'[p].pc \in {"idle", "done"}
    BY <1>2 DEF Stopped, Kill, GoDown, Lost, IdleRun, storeVars
  <2>2. \A j \in Jobs : Holders(j)' = {}
    BY <2>1 DEF Holders, Owns, OwningPoints, LaunchPoints, StepPoints
  <2>3. HolderMap' = [j \in Jobs |-> {}]
    BY <2>2 DEF HolderMap
  <2>4. Lease!LoseAll
    BY <2>1, <2>3, SameStages DEF Lease!LoseAll, StageMap, HolderMap
  <2> QED
    BY <2>4 DEF StepOfLease, Lease!LeaseNext
<1>3. ASSUME NEW w \in Workers, Cancel(w) PROVE StepOfLease
  <2>1. w \in Procs /\ \A q \in Procs \ {w} : run'[q] = run[q]
    BY <1>3 DEF Cancel, Leave, Procs, TypeInv, TypeOK, ProcessOK
  <2>2. CASE ~Owns(w) /\ run'[w] = Left(w) /\ jobs' = jobs
    <3>1. ~Owns(w)'
      BY <2>1, <2>2, LeftIsIdle DEF Owns, OwningPoints, LaunchPoints, StepPoints
    <3> QED
      BY <2>1, <2>2, <3>1, BystandingIsLease
  <2> QED
    BY <1>3, <2>1, <2>2, CancelKinds, QuittingIsLease
<1>4. ASSUME NEW j \in Jobs, Recover(j) PROVE StepOfLease
  <2>1. /\ run' = run /\ jobs'[j].status = "queued" /\ j \in recovering
        /\ \A i \in Jobs \ {j} : jobs'[i] = jobs[i]
    BY <1>4 DEF Recover, RequeueJob, TypeInv, TypeOK, StoreOK, JobDoc
  <2>2. Status(j) \in {"queued", "running"} /\ Holders(j) = {}
    BY <2>1, OwnerIsBusy DEF LeaseInv, RecoveringIsFree, ActiveJob, Holders
  <2>3. StageMap[j] \in {"queued", "running"} /\ HolderMap[j] = {}
    BY <2>2, StageOf DEF StageMap, HolderMap
  <2>4. Stage(j)' = "queued"
    BY <2>1 DEF Stage, Status, TerminalJob, ActiveJob
  <2>5. StageMap' = [StageMap EXCEPT ![j] = "queued"] /\ HolderMap' = HolderMap
    BY <2>1, <2>4, OneStage, SameHolders DEF Owns
  <2>6. Lease!Requeue(j)
    BY <2>3, <2>5 DEF Lease!Requeue, StageMap, HolderMap
  <2> QED
    BY <2>6 DEF StepOfLease, Lease!LeaseNext
<1> QED
  BY <1>1, <1>2, <1>3, <1>4 DEF Lifecycle

LEMMA NextIsLease ==
  ASSUME TypeInv, LeaseInv, [Next]_vars
  PROVE  StepOfLease
<1>1. ASSUME NEW w \in Workers, Take(w) PROVE StepOfLease
  <2>1. /\ w \in Procs /\ ~Owns(w) /\ ~Owns(w)' /\ jobs' = jobs
        /\ \A q \in Procs \ {w} : run'[q] = run[q]
    BY <1>1 DEF Take, At, Procs, TypeInv, TypeOK, ProcessOK, Run, Owns, OwningPoints,
      LaunchPoints, StepPoints, storeVars
  <2> QED
    BY <2>1, BystandingIsLease
<1>2. ASSUME NEW p \in Procs, Launch(p) \/ Walk(p) PROVE StepOfLease
  BY <1>2, ClaimIsLease, LaunchKinds, WalkKinds, HoldingIsLease, QuittingIsLease
<1>3. CASE PlatformStep \/ UNCHANGED vars
  BY <1>3, SameStages, SameHolders DEF PlatformStep, vars, StepOfLease, Owns, storeVars
<1> QED
  BY <1>1, <1>2, <1>3, AdmissionIsLease, LifecycleIsLease DEF Next

LEMMA InitIsLease == Init => Lease!LeaseInit
<1> SUFFICES ASSUME Init PROVE Lease!LeaseInit
  OBVIOUS
<1>1. \A j \in Jobs : Stage(j) = "absent" /\ Holders(j) = {}
  BY DEF Init, Stage, Status, NoDoc, TerminalJob, ActiveJob, Holders, Owns, IdleRun,
    OwningPoints, LaunchPoints, StepPoints
<1> QED
  BY <1>1 DEF Lease!LeaseInit

\* The execution path implements the promise of the queue: claiming, ending,
\* abandoning, losing and re-queueing a job happen only as JobLease allows, whatever
\* is redelivered, stopped or killed.
THEOREM LeaseImplemented == Spec => ImplementsLease
<1>1. TypeInv /\ LeaseInv /\ [Next]_vars => [Lease!LeaseNext]_(Lease!leaseVars)
  BY NextIsLease DEF StepOfLease, Lease!leaseVars, StageMap, HolderMap
<1> QED
  BY <1>1, Invariance, InitIsLease, PTL DEF Spec, ImplementsLease, Lease!LeaseSpec

-----------------------------------------------------------------------------
(* Without rival jobs.  What NoRivalJobs says is that of the jobs that have *)
(* a row at most one is active; then no two processes run a job at all, and *)
(* what a run has read of the ledger stays so until it uses it.            *)

\* Only finitely many jobs have been saved, however many ids there are.
FewJobs == IsFiniteSet(Saved)

\* A step writes at most one job.
LEMMA OneJobWritten ==
  ASSUME TypeInv, [Next]_vars
  PROVE  jobs' = jobs \/ \E i \in Jobs : \A j \in Jobs \ {i} : jobs'[j] = jobs[j]
<1> DEFINE Sole(i) == \A j \in Jobs \ {i} : jobs'[j] = jobs[j]
           Own(p) == jobs' = jobs \/ (run[p].pc # "idle" /\ Sole(run[p].job))
<1>1. \A p \in Procs : run[p].pc # "idle" => run[p].job \in Jobs
  BY DEF TypeInv, Positioned
<1>2. jobs \in [Jobs -> JobDoc]
  BY DEF TypeInv, TypeOK, StoreOK
<1>3. ASSUME NEW i, NEW doc, SaveJobDoc(i, doc) PROVE Sole(i)
  BY <1>2, <1>3 DEF SaveJobDoc
<1>4. ASSUME NEW c \in Callers, Execute(c) \/ Enter(c) PROVE Own(c)
  <2>1. CASE SaveNewJob(c)
    BY <1>3, <2>1 DEF SaveNewJob, At
  <2> QED
    BY <1>4, <2>1 DEF Execute, Enter, SaveNewPlan, SavePlanDoc, Accept, storeVars
<1>5. ASSUME NEW p \in Procs, Launch(p) PROVE Own(p)
  <2>1. CASE Claim(p)
    BY <1>2, <2>1 DEF Claim, At
  <2>2. CASE Abort(p) \/ StartRun(p)
    BY <1>3, <2>2 DEF Abort, StartRun, At
  <2> QED
    BY <1>5, <2>1, <2>2 DEF Launch, Load, Recheck, Rechecked, SavePlan, SavePlanDoc, storeVars
<1>6. ASSUME NEW p \in Procs, Walk(p) PROVE Own(p)
  <2>1. CASE SaveStep(p) \/ FinishRun(p) \/ BreakRun(p)
    BY <1>3, <2>1 DEF SaveStep, FinishRun, BreakRun, At
  <2> QED
    BY <1>6, <2>1 DEF Walk, PassStep, BeginStep, ReadClaim, InsertClaim, SendGenerate,
      ReceiveReply, RecordCharge, Poll, Settle, RecordFailure, storeVars
<1>7. ASSUME NEW w \in Workers, Cancel(w) PROVE Own(w)
  BY <1>3, <1>7 DEF Cancel, Idle
<1>8. ASSUME NEW i \in Jobs, Recover(i) PROVE Sole(i)
  BY <1>2, <1>8 DEF Recover, RequeueJob
<1>9. ASSUME \/ (\E w \in Workers : Take(w)) \/ Stop \/ Stopped \/ Kill \/ Restart
             \/ PlatformStep \/ UNCHANGED vars
      PROVE  jobs' = jobs
  BY <1>9 DEF Take, Stop, Stopped, Kill, GoDown, Restart, PlatformStep, vars, storeVars
<1> HIDE DEF Sole
<1>10. jobs' = jobs \/ \E i \in Jobs : Sole(i)
  <2>1. \A p \in Procs : Own(p) => jobs' = jobs \/ \E i \in Jobs : Sole(i)
    BY <1>1
  <2>2. ASSUME NEW p \in Procs, Own(p) PROVE jobs' = jobs \/ \E i \in Jobs : Sole(i)
    BY <2>1, <2>2
  <2> HIDE DEF Own
  <2>3. CASE \/ \E c \in Callers : Execute(c) \/ Enter(c)
             \/ \E p \in Procs : Launch(p) \/ Walk(p)
    BY <1>4, <1>5, <1>6, <2>2, <2>3 DEF Procs
  <2>4. CASE Lifecycle
    BY <1>7, <1>8, <1>9, <2>2, <2>4 DEF Lifecycle, Procs
  <2> QED
    BY <1>9, <2>3, <2>4 DEF Next
<1> QED
  BY <1>10 DEF Sole

LEMMA FewJobsNext == TypeInv /\ FewJobs /\ [Next]_vars => FewJobs'
<1> SUFFICES ASSUME TypeInv, FewJobs, [Next]_vars PROVE IsFiniteSet(Saved')
  BY DEF FewJobs
<1>1. CASE jobs' = jobs
  BY <1>1 DEF FewJobs, Saved, Status
<1>2. ASSUME NEW i \in Jobs, \A j \in Jobs \ {i} : jobs'[j] = jobs[j]
      PROVE  IsFiniteSet(Saved')
  <2>1. Saved' \in SUBSET (Saved \cup {i})
    BY <1>2 DEF Saved, Status
  <2>2. IsFiniteSet(Saved \cup {i})
    BY FS_AddElement DEF FewJobs
  <2> QED
    BY <2>1, <2>2, FS_Subset
<1> QED
  BY <1>1, <1>2, OneJobWritten

LEMMA FewJobsInvariance == Spec => [](TypeInv /\ LeaseInv /\ FewJobs)
<1>1. Init => FewJobs
  <2> SUFFICES ASSUME Init PROVE Saved = {}
    BY FS_EmptySet DEF FewJobs
  <2> QED
    BY DEF Init, Saved, Status, NoDoc
<1>2. TypeInv /\ FewJobs /\ [Next]_vars => FewJobs'
  BY FewJobsNext
<1> QED
  BY <1>1, <1>2, Invariance, PTL DEF Spec

\* Two processes that run a job run rival jobs.
LEMMA OneOwner ==
  ASSUME TypeInv, LeaseInv, FewJobs, NoRivalJobs,
         NEW p \in Procs, NEW q \in Procs, Owns(p), Owns(q)
  PROVE  p = q
<1> DEFINE Active == {j \in Jobs : Status(j) \in ActiveJob}
           Pair == {run[p].job, run[q].job}
<1>1. run[p].job \in Jobs /\ run[q].job \in Jobs
  BY OwnerIsBusy DEF TypeInv, Positioned
<1>2. Pair \in SUBSET Active
  BY <1>1 DEF LeaseInv, HeldIsRunning, ActiveJob
<1>3. IsFiniteSet(Active) /\ Cardinality(Active) <= 1
  <2>1. Active \in SUBSET Saved
    BY DEF Saved, ActiveJob
  <2> QED
    BY <2>1, FS_Subset DEF FewJobs, NoRivalJobs
<1>4. ASSUME run[p].job # run[q].job PROVE FALSE
  <2> DEFINE One == {run[p].job}
  <2>1. IsFiniteSet(One) /\ Cardinality(One) = 1
    BY FS_Singleton
  <2>2. Pair = One \cup {run[q].job} /\ run[q].job \notin One
    BY <1>4
  <2> HIDE DEF One, Pair
  <2>3. Cardinality(Pair) = 1 + 1
    BY <2>1, <2>2, FS_AddElement
  <2> USE DEF Pair
  <2>4. Cardinality(Pair) <= Cardinality(Active)
    BY <1>2, <1>3, FS_Subset
  <2>5. Cardinality(Active) \in Nat
    BY <1>3, FS_CardinalityType
  <2> QED
    BY <1>3, <2>3, <2>4, <2>5
<1> QED
  BY <1>4 DEF LeaseInv, OneRunnerPerJob

\* The row a run is about to insert is not there, so it never breaks on one, and the
\* row it was told to launch from names no generation.
RowIsAsRead(p) ==
  /\ run[p].pc = "insert" => ledger[run[p].cur].status = "absent"
  /\ run[p].pc = "send" => ~ledger[run[p].cur].gen
  /\ run[p].pc # "broken"

WatchInv == RunningIsWatched /\ \A p \in Procs : RowIsAsRead(p)

\* Steps that neither write the ledger nor send a run to one of these points.
LEMMA RowsStayRead ==
  ASSUME WatchInv, ledger' = ledger,
         \A p \in Procs : run'[p].pc \in {"insert", "send", "broken"} => run'[p] = run[p]
  PROVE  \A p \in Procs : RowIsAsRead(p)'
BY DEF WatchInv, RowIsAsRead

\* A step of the only process that runs a job.
LEMMA OthersStayRead ==
  ASSUME TypeInv, LeaseInv, FewJobs, NoRivalJobs, WatchInv,
         NEW p \in Procs, Owns(p), \A q \in Procs \ {p} : run'[q] = run[q]
  PROVE  \A q \in Procs \ {p} : RowIsAsRead(q)'
<1> SUFFICES ASSUME NEW q \in Procs \ {p}, run[q].pc \in {"insert", "send", "broken"}
             PROVE  FALSE
  BY DEF RowIsAsRead
<1>1. Owns(q)
  BY DEF Owns, OwningPoints, StepPoints
<1> QED
  BY <1>1, OneOwner

LEMMA WalkKeepsRows ==
  ASSUME TypeInv, LeaseInv, FewJobs, NoRivalJobs, WatchInv, NEW p \in Procs, Walk(p)
  PROVE  \A q \in Procs : RowIsAsRead(q)'
<1>1. Owns(p) /\ \A q \in Procs \ {p} : run'[q] = run[q]
  BY WalkKinds DEF Holding, Quitting, Alone
<1>2. \A q \in Procs \ {p} : RowIsAsRead(q)'
  BY <1>1, OthersStayRead
<1>3. /\ run \in [Procs -> Run] /\ run[p] \in Run /\ RowIsAsRead(p)
  BY DEF TypeInv, TypeOK, ProcessOK, WatchInv
<1>4. RowIsAsRead(p)'
  <2>1. CASE ReadClaim(p)
    BY <1>3, <2>1 DEF ReadClaim, AlreadyLaunched, Goto, Leaving, SkipStep, At, RowIsAsRead, Run,
      storeVars
  <2>2. CASE InsertClaim(p)
    BY <1>3, <2>2 DEF InsertClaim, Goto, At, RowIsAsRead, Run
  <2>3. CASE FinishRun(p) \/ BreakRun(p)
    BY <1>3, <2>3, LeftIsIdle DEF FinishRun, BreakRun, Leave, RowIsAsRead
  <2>4. CASE PassStep(p) \/ BeginStep(p) \/ SaveStep(p)
    BY <1>3, <2>4 DEF PassStep, BeginStep, SaveStep, Leaving, At, RowIsAsRead, Run
  <2>5. CASE SendGenerate(p) \/ ReceiveReply(p)
    <3>1. CASE SendGenerate(p)
      BY <1>3, <3>1 DEF SendGenerate, Goto, FailStep, Leaving, At, RowIsAsRead, Run
    <3>2. CASE ReceiveReply(p)
      BY <1>3, <3>2 DEF ReceiveReply, FailStep, Leaving, At, RowIsAsRead, Run
    <3> QED
      BY <2>5, <3>1, <3>2
  <2>6. CASE RecordCharge(p)
    BY <1>3, <2>6 DEF RecordCharge, Goto, SkipStep, Leaving, At, RowIsAsRead, Run
  <2>7. CASE Poll(p)
    BY <1>3, <2>7 DEF Poll, FailStep, Leaving, At, RowIsAsRead, Run
  <2>8. CASE Settle(p) \/ RecordFailure(p)
    BY <1>3, <2>8 DEF Settle, RecordFailure, Goto, At, RowIsAsRead, Run
  <2> QED
    BY <2>1, <2>2, <2>3, <2>4, <2>5, <2>6, <2>7, <2>8 DEF Walk
<1> QED
  BY <1>2, <1>4

LEMMA NextKeepsRows ==
  ASSUME TypeInv, LeaseInv, FewJobs, NoRivalJobs, WatchInv, [Next]_vars
  PROVE  \A q \in Procs : RowIsAsRead(q)'
<1>1. run \in [Procs -> Run]
  BY DEF TypeInv, TypeOK, ProcessOK
<1>2. ASSUME NEW c \in Callers, Execute(c) \/ Enter(c)
      PROVE  \A q \in Procs : RowIsAsRead(q)'
  <2>1. c \in Procs /\ ledger' = ledger /\ \A q \in Procs \ {c} : run'[q] = run[q]
    BY <1>1, <1>2 DEF Execute, Enter, SaveNewJob, SaveNewPlan, SavePlanDoc, Accept, Goto, Leave,
      Procs, storeVars
  <2>2. run'[c].pc \notin {"insert", "send", "broken"}
    <3>1. CASE Execute(c)
      <4>1. ASSUME NEW j \in Saved, run' = [run EXCEPT ![c] = DoneRun(j)]
            PROVE  run'[c].pc = "done"
        BY <1>1, <2>1, <4>1, IdleType DEF Saved
      <4>2. ASSUME NEW j \in UnusedJobs,
                   run' = [run EXCEPT ![c].pc = "save_job", ![c].job = j, ![c].est = plan.est]
            PROVE  run'[c].pc = "save_job"
        BY <1>1, <2>1, <4>2 DEF Run
      <4> QED
        BY <3>1, <4>1, <4>2 DEF Execute
    <3>2. CASE Enter(c)
      BY <1>1, <2>1, <3>2, LeftIsIdle DEF Enter, SaveNewJob, SaveNewPlan, SavePlanDoc, Accept,
        Goto, Leave, Run
    <3> QED
      BY <1>2, <3>1, <3>2
  <2> QED
    BY <2>1, <2>2, RowsStayRead
<1>3. ASSUME NEW w \in Workers, Take(w) PROVE \A q \in Procs : RowIsAsRead(q)'
  <2>1. w \in Procs /\ ledger' = ledger /\ run'[w].pc = "claim"
        /\ \A q \in Procs \ {w} : run'[q] = run[q]
    BY <1>1, <1>3 DEF Take, Procs, Run, storeVars
  <2> QED
    BY <2>1, RowsStayRead
<1>4. ASSUME NEW p \in Procs, Launch(p) PROVE \A q \in Procs : RowIsAsRead(q)'
  <2>1. ledger' = ledger /\ \A q \in Procs \ {p} : run'[q] = run[q]
    BY <1>1, <1>4 DEF Launch, Claim, Load, Snapshots, Recheck, Rechecked, Abort, SavePlan,
      SavePlanDoc, StartRun, Goto, Leave, storeVars
  <2>2. run'[p].pc \notin {"insert", "send", "broken"}
    <3>1. CASE Claim(p)
      BY <1>1, <3>1, LeftIsIdle DEF Claim, Goto, Leave, Run
    <3>2. CASE Load(p)
      BY <1>1, <3>2 DEF Load, Snapshots, Run
    <3>3. CASE Recheck(p)
      BY <1>1, <3>3 DEF Recheck, At, Run
    <3>4. CASE Rechecked(p) \/ SavePlan(p) \/ StartRun(p)
      BY <1>1, <3>4 DEF Rechecked, SavePlan, SavePlanDoc, StartRun, Goto, Run
    <3>5. CASE Abort(p)
      BY <1>1, <3>5, LeftIsIdle DEF Abort, Leave
    <3> QED
      BY <1>4, <3>1, <3>2, <3>3, <3>4, <3>5 DEF Launch
  <2> QED
    BY <2>1, <2>2, RowsStayRead
<1>5. CASE Lifecycle
  <2>1. ledger' = ledger
    BY <1>5 DEF Lifecycle, Stop, Stopped, Kill, GoDown, Restart, Cancel, Recover, storeVars
  <2>2. \A q \in Procs : run'[q] = run[q] \/ run'[q].pc \in {"idle", "done"}
    BY <1>1, <1>5, LeftIsIdle DEF Lifecycle, Stop, Stopped, Kill, GoDown, Lost, IdleRun, Restart,
      Cancel, Leave, Recover, Procs
  <2> QED
    BY <2>1, <2>2, RowsStayRead
<1>6. CASE PlatformStep \/ UNCHANGED vars
  BY <1>6, RowsStayRead DEF PlatformStep, vars, storeVars
<1> QED
  BY <1>2, <1>3, <1>4, <1>5, <1>6, WalkKeepsRows DEF Next

\* A run that lets go of its job has ended it.
LEMMA QuittingEnds ==
  ASSUME TypeInv, NEW p \in Procs, Launch(p) \/ Walk(p), ~BreakRun(p), Quitting(p)
  PROVE  jobs'[run[p].job].status \in TerminalJob
<1>1. /\ run \in [Procs -> Run] /\ run[p] \in Run /\ jobs \in [Jobs -> JobDoc]
      /\ run[p].job \in Jobs /\ Owns(p)
  BY OwnerIsBusy DEF TypeInv, TypeOK, ProcessOK, StoreOK, Positioned, Quitting
<1>2. run'[p].pc \in {"idle", "done"} /\ run[p].pc # "claim"
  BY <1>1, LeftIsIdle, OwnerIsBusy DEF Quitting
<1>3. CASE Abort(p)
  BY <1>1, <1>3 DEF Abort, AbortedDoc, SaveJobDoc, TerminalJob
<1>4. CASE FinishRun(p)
  <2> DEFINE status == AggregateStatus(run[p].doc, run[p].stopped)
  <2>1. status \in TerminalJob
    BY <1>1, AggregateEnds DEF Run
  <2>2. jobs'[run[p].job] = [run[p].doc EXCEPT !.status = status]
    BY <1>1, <1>4 DEF FinishRun, SaveJobDoc
  <2> HIDE DEF status
  <2> QED
    BY <1>1, <2>1, <2>2 DEF Run, JobDoc
<1>5. CASE Launch(p) /\ ~Abort(p)
  <2>1. CASE Claim(p) \/ Recheck(p)
    BY <1>1, <1>2, <2>1 DEF Claim, Recheck, At, Run
  <2>2. CASE Load(p)
    BY <1>1, <1>2, <2>2 DEF Load, Snapshots, Run
  <2>3. CASE Rechecked(p) \/ SavePlan(p) \/ StartRun(p)
    BY <1>1, <1>2, <2>3 DEF Rechecked, SavePlan, SavePlanDoc, StartRun, Goto, At, Run
  <2> QED
    BY <1>5, <2>1, <2>2, <2>3 DEF Launch
<1>6. CASE Walk(p) /\ ~FinishRun(p)
  <2>1. CASE PassStep(p) \/ BeginStep(p) \/ SaveStep(p)
    BY <1>1, <1>2, <2>1 DEF PassStep, BeginStep, SaveStep, Leaving, At, Run
  <2>2. CASE ReadClaim(p) \/ InsertClaim(p)
    BY <1>1, <1>2, <2>2 DEF ReadClaim, InsertClaim, Leaving, Goto, SkipStep, At, Run
  <2>3. CASE SendGenerate(p) \/ ReceiveReply(p)
    <3>1. CASE SendGenerate(p)
      BY <1>1, <1>2, <3>1 DEF SendGenerate, Leaving, Goto, FailStep, At, Run
    <3>2. CASE ReceiveReply(p)
      BY <1>1, <1>2, <3>2 DEF ReceiveReply, Leaving, FailStep, At, Run
    <3> QED
      BY <2>3, <3>1, <3>2
  <2>4. CASE RecordCharge(p)
    BY <1>1, <1>2, <2>4 DEF RecordCharge, Leaving, Goto, SkipStep, At, Run
  <2>5. CASE Poll(p)
    BY <1>1, <1>2, <2>5 DEF Poll, Leaving, FailStep, At, Run
  <2>6. CASE Settle(p) \/ RecordFailure(p)
    BY <1>1, <1>2, <2>6 DEF Settle, RecordFailure, Goto, At, Run
  <2> QED
    BY <1>6, <2>1, <2>2, <2>3, <2>4, <2>5, <2>6 DEF Walk
<1> QED
  BY <1>3, <1>4, <1>5, <1>6

LEMMA NextKeepsWatch ==
  ASSUME TypeInv, LeaseInv, WatchInv, [Next]_vars
  PROVE  RunningIsWatched'
<1> SUFFICES ASSUME up' = "up", NEW j \in Jobs, jobs'[j].status = "running"
             PROVE  j \in recovering' \/ \E p \in Procs : Owns(p)' /\ run'[p].job = j
  BY DEF RunningIsWatched, Status
<1> DEFINE Watched == up = "up" => j \in recovering \/ \E p \in Procs : Owns(p) /\ run[p].job = j
           Goal == j \in recovering' \/ \E p \in Procs : Owns(p)' /\ run'[p].job = j
<1>1. Status(j) = "running" => Watched
  BY DEF WatchInv, RunningIsWatched
<1>2. /\ run \in [Procs -> Run] /\ jobs \in [Jobs -> JobDoc] /\ recovering \subseteq Jobs
  BY DEF TypeInv, TypeOK, ProcessOK, StoreOK
<1>3. ASSUME NEW p \in Procs, ~Owns(p), \A q \in Procs \ {p} : run'[q] = run[q],
             UNCHANGED <<up, recovering>>, jobs'[j] = jobs[j]
      PROVE  Goal
  BY <1>1, <1>3 DEF Owns, Status
<1>4. ASSUME NEW c \in Callers, Execute(c) \/ Enter(c) PROVE Goal
  <2>1. /\ c \in Procs /\ run[c].pc \in AdmissionPoints \cup {"idle"}
        /\ \A q \in Procs \ {c} : run'[q] = run[q]
        /\ UNCHANGED <<up, recovering>>
    BY <1>2, <1>4 DEF Execute, Enter, SaveNewJob, SaveNewPlan, SavePlanDoc, Accept, Goto, Leave,
      At, AdmissionPoints, Procs, processVars
  <2>2. ~Owns(c)
    BY <2>1 DEF Owns, AdmissionPoints, OwningPoints, LaunchPoints, StepPoints
  <2>3. jobs'[j] = jobs[j]
    BY <1>2, <1>4 DEF Execute, Enter, SaveNewJob, SaveJobDoc, NewDoc, NoDoc, SaveNewPlan,
      SavePlanDoc, Accept, storeVars
  <2> QED
    BY <1>3, <2>1, <2>2, <2>3
<1>5. ASSUME NEW w \in Workers, Take(w) PROVE Goal
  <2>1. /\ w \in Procs /\ ~Owns(w) /\ jobs' = jobs
        /\ \A q \in Procs \ {w} : run'[q] = run[q]
        /\ UNCHANGED <<up, recovering>>
    BY <1>2, <1>5 DEF Take, At, Procs, Owns, OwningPoints, LaunchPoints, StepPoints, storeVars
  <2> QED
    BY <1>3, <2>1
<1>6. ASSUME NEW p \in Procs, Holding(p) PROVE Goal
  <2>1. \A q \in Procs : run'[q].job = run[q].job /\ (Owns(q) => Owns(q)')
    BY <1>6 DEF Holding, Alone, Owns
  <2>2. jobs'[j].status = Status(j) /\ UNCHANGED <<up, recovering>>
    BY <1>6 DEF Holding, Alone, Status, processVars
  <2> QED
    BY <1>1, <2>1, <2>2
<1>7. ASSUME NEW p \in Procs, Quitting(p), jobs'[run[p].job].status \in TerminalJob PROVE Goal
  <2>1. j # run[p].job
    BY <1>7 DEF TerminalJob
  <2>2. jobs'[j] = jobs[j] /\ UNCHANGED <<up, recovering>> /\ \A q \in Procs \ {p} : run'[q] = run[q]
    BY <1>7, <2>1 DEF Quitting, Alone, processVars
  <2> QED
    BY <1>1, <2>1, <2>2 DEF Owns, Status
<1>8. ASSUME NEW p \in Procs, Claim(p) PROVE Goal
  <2>1. /\ run[p].pc = "claim" /\ ~Owns(p) /\ UNCHANGED <<up, recovering>>
        /\ \A q \in Procs \ {p} : run'[q] = run[q]
    BY <1>2, <1>8 DEF Claim, At, Goto, Leave, Owns, OwningPoints, LaunchPoints, StepPoints,
      processVars
  <2>2. CASE jobs'[j] = jobs[j]
    BY <1>3, <2>1, <2>2
  <2>3. CASE jobs'[j] # jobs[j]
    <3>1. j = run[p].job /\ Claimable(run[p].job)
      BY <1>8, <1>2, <2>3 DEF Claim
    <3>2. run'[p].pc = "load" /\ run'[p].job = j
      BY <1>2, <1>8, <3>1 DEF Claim, Goto, Run
    <3> QED
      BY <3>2 DEF Owns, OwningPoints, LaunchPoints
  <2> QED
    BY <2>2, <2>3
<1>9. ASSUME NEW p \in Procs, Launch(p) \/ Walk(p) PROVE Goal
  <2>1. ~BreakRun(p)
    BY DEF WatchInv, RowIsAsRead, BreakRun, At
  <2> QED
    BY <1>6, <1>7, <1>8, <1>9, <2>1, LaunchKinds, WalkKinds, QuittingEnds
<1>10. CASE Lifecycle
  <2>1. CASE Stop \/ Stopped \/ Kill \/ \E w \in Workers : Cancel(w)
    BY <2>1 DEF Stop, Stopped, Kill, GoDown, Cancel, processVars
  <2>2. CASE Restart
    BY <2>2 DEF Restart, Unfinished, ActiveJob, Status, storeVars
  <2>3. ASSUME NEW i \in Jobs, Recover(i) PROVE Goal
    <3>1. /\ up = "up" /\ run' = run /\ recovering' = recovering \ {i}
          /\ jobs' = [jobs EXCEPT ![i].status = "queued"]
      BY <2>3 DEF Recover, RequeueJob
    <3>2. j # i /\ jobs'[j] = jobs[j]
      BY <1>2, <3>1 DEF JobDoc
    <3> QED
      BY <1>1, <3>1, <3>2 DEF Owns, Status
  <2> QED
    BY <1>10, <2>1, <2>2, <2>3 DEF Lifecycle
<1>11. CASE PlatformStep \/ UNCHANGED vars
  BY <1>1, <1>11 DEF PlatformStep, vars, storeVars, processVars, Owns, Status
<1> QED
  BY <1>4, <1>5, <1>9, <1>10, <1>11 DEF Next

LEMMA WatchInit == Init => WatchInv
BY DEF Init, WatchInv, RunningIsWatched, RowIsAsRead, Status, NoDoc, IdleRun

LEMMA WatchInvariance == Spec /\ []NoRivalJobs => [](TypeInv /\ LeaseInv /\ FewJobs /\ WatchInv)
<1>1. TypeInv /\ LeaseInv /\ FewJobs /\ NoRivalJobs /\ WatchInv /\ [Next]_vars => WatchInv'
  BY NextKeepsRows, NextKeepsWatch DEF WatchInv
<1> QED
  BY <1>1, WatchInit, FewJobsInvariance, PTL DEF Spec

\* As long as no plan gets a rival job, a running job is never forgotten while the
\* service is up: the only run that could drop its job without ending it, the one that
\* breaks on a row inserted behind its back (jobs.py:141-150), does not occur.
THEOREM RunningJobWatched == Spec /\ []NoRivalJobs => []RunningIsWatched
<1>1. WatchInv => RunningIsWatched
  BY DEF WatchInv
<1> QED
  BY <1>1, WatchInvariance, PTL

\* As long as no plan gets a rival job, no run sends /generate for a step whose row names
\* a generation: what claim_step read still holds when the request leaves, after any
\* number of kills, stops, resumptions and redeliveries.
THEOREM LaunchNotResent == Spec /\ []NoRivalJobs => LaunchedIsNotResent
<1>1. TypeInv /\ LeaseInv /\ FewJobs /\ WatchInv /\ [Next]_vars =>
        [\A p \in Procs : run[p].pc = "send" /\ run'[p].pc = "sent" =>
           ~ledger[run[p].cur].gen]_vars
  BY DEF WatchInv, RowIsAsRead
<1> QED
  BY <1>1, WatchInvariance, PTL DEF Spec, LaunchedIsNotResent

=============================================================================
