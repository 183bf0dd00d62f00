---------------------------- MODULE LedgerProofs ----------------------------
(***************************************************************************)
(* What the ledger and the job documents say about the platform is true:   *)
(* a step is claimed before it is launched, a success is a success, a cost *)
(* was billed.  Proved for any plan, prices, faults, stops and kills, and  *)
(* for any number of rival jobs.                                           *)
(***************************************************************************)
EXTENDS ExecutionProofs

-----------------------------------------------------------------------------
(* The inductive invariant.  The three properties speak of jobs and rows;  *)
(* what is on its way there is in the documents of the runs.  The state of *)
(* the platform is a parameter, g, so that a document can be compared with *)
(* the state before and after a step.                                      *)

\* A step, of a document or of the ledger, claims nothing that is not so.
TrueStep(g, step, s) ==
  /\ step.status = "succeeded" /\ Billable(s) => g[s].state = "complete"
  /\ step.gen => g[s].state # "none"

TrueDoc(g, doc) == \A s \in Steps : TrueStep(g, doc.step[s], s)

\* A cost is what was billed, or nothing.
TrueCost(g, cost, s) == cost = 0 \/ (g[s].state # "none" /\ cost = g[s].bill)

TrueRow(g, row, s) ==
  /\ TrueStep(g, row, s)
  /\ TrueCost(g, row.cost, s)
  /\ g[s].state # "none" => row.status # "absent"

\* A run knows a true document, has claimed the step it sends, and has launched the
\* one it records; what it is about to write as a cost was billed.
TrueRun(g, table, r) ==
  /\ TrueDoc(g, r.doc)
  /\ r.pc = "send" => table[r.cur].status # "absent"
  /\ r.pc \in {"sent", "record"} => g[r.cur].state # "none"
  /\ r.pc = "record" => r.doc.step[r.cur].cost = g[r.cur].bill
  /\ r.pc = "settle" => TrueCost(g, r.doc.step[r.cur].cost, r.cur)

LedgerInv ==
  /\ \A s \in Steps : TrueRow(gens, ledger[s], s)
  /\ \A j \in Jobs : TrueDoc(gens, jobs[j])
  /\ \A p \in Procs : TrueRun(gens, ledger, run[p])

-----------------------------------------------------------------------------
(* What the platform decides stays decided.                                *)

Grows(g, h) ==
  \A s \in Steps :
    /\ g[s].state # "none" => h[s].state # "none" /\ h[s].bill = g[s].bill
    /\ g[s].state = "complete" => h[s].state = "complete"

\* What the ledger holds it keeps.
Fills(table, next) ==
  \A s \in Steps : table[s].status # "absent" => next[s].status # "absent"

LEMMA TrueDocStays ==
  ASSUME NEW g, NEW h, Grows(g, h), NEW doc, TrueDoc(g, doc)
  PROVE  TrueDoc(h, doc)
BY DEF Grows, TrueDoc, TrueStep

LEMMA TrueRunStays ==
  ASSUME NEW g, NEW h, Grows(g, h), NEW table, NEW next, Fills(table, next),
         NEW r, r.pc \in StepPoints => r.cur \in Steps, TrueRun(g, table, r)
  PROVE  TrueRun(h, next, r)
<1>1. TrueDoc(h, r.doc)
  BY TrueDocStays DEF TrueRun
<1>2. r.pc \in {"send", "sent", "record", "settle"} => r.cur \in Steps
  BY DEF StepPoints
<1> QED
  BY <1>1, <1>2 DEF TrueRun, TrueCost, Grows, Fills

LEMMA TrueRowStays ==
  ASSUME NEW g, NEW h, Grows(g, h), NEW s \in Steps, NEW row, TrueRow(g, row, s),
         h[s].state # "none" => g[s].state # "none"
  PROVE  TrueRow(h, row, s)
BY DEF TrueRow, TrueStep, TrueCost, Grows

LEMMA GenerateGrows ==
  ASSUME PlatformTypeOK, NEW s \in Steps, Generate(s)
  PROVE  /\ Grows(gens, gens')
         /\ gens'[s].state # "none"
         /\ \A t \in Steps \ {s} : gens'[t] = gens[t]
<1>1. CASE Launched(s)
  BY <1>1 DEF Generate, Launched, Grows, platformVars
<1>2. CASE ~Launched(s)
  <2>1. PICK bill \in Bills(s), state \in GenStates \ {"none"} :
          gens' = [gens EXCEPT ![s] = [state |-> state, bill |-> bill, refunded |-> FALSE]]
    BY <1>2 DEF Generate, GenStates
  <2> QED
    BY <1>2, <2>1 DEF PlatformTypeOK, Launched, Grows
<1> QED
  BY <1>1, <1>2

LEMMA ConcludeGrows ==
  ASSUME PlatformTypeOK, PlatformNext
  PROVE  /\ Grows(gens, gens')
         /\ \A t \in Steps : gens'[t].state # "none" => gens[t].state # "none"
<1>1. PICK s \in Steps : Conclude(s) \/ MovePrice(s)
  BY DEF PlatformNext
<1>2. CASE Conclude(s)
  BY <1>2 DEF Conclude, PlatformTypeOK, Generation, Grows
<1>3. CASE MovePrice(s)
  BY <1>3 DEF MovePrice, Grows
<1> QED
  BY <1>1, <1>2, <1>3

-----------------------------------------------------------------------------
(* Runs.                                                                   *)

LEMMA IdleIsTrue ==
  ASSUME NEW g, NEW table, NEW p \in Procs
  PROVE  TrueDoc(g, NoDoc) /\ TrueRun(g, table, IdleRun) /\ TrueRun(g, table, Left(p))
<1>1. TrueDoc(g, NoDoc)
  BY DEF TrueDoc, TrueStep, NoDoc, FreshStep
<1>2. IdleRun.doc = NoDoc /\ IdleRun.pc = "idle"
  BY DEF IdleRun
<1>3. Left(p).doc = NoDoc /\ Left(p).pc \in {"idle", "done"}
  BY DEF Left, DoneRun, IdleRun
<1> QED
  BY <1>1, <1>2, <1>3 DEF TrueRun

\* A step of one run that leaves the platform and the ledger alone: its new state
\* and the documents it wrote have to be true.
LEMMA OneTrueRun ==
  ASSUME LedgerInv, NEW p \in Procs, UNCHANGED <<gens, ledger>>,
         \A q \in Procs \ {p} : run'[q] = run[q],
         TrueRun(gens, ledger, run'[p]),
         \A j \in Jobs : TrueDoc(gens, jobs'[j])
  PROVE  LedgerInv'
BY DEF LedgerInv

\* A document that is written back by a true run is a true document.
LEMMA SavedDocIsTrue ==
  ASSUME LedgerInv, jobs \in [Jobs -> JobDoc], NEW j \in Jobs, NEW doc,
         TrueDoc(gens, doc), SaveJobDoc(j, doc)
  PROVE  \A i \in Jobs : TrueDoc(gens, jobs'[i])
BY DEF LedgerInv, SaveJobDoc

\* The status of a document says nothing about the platform.
LEMMA StatusIsTrue ==
  ASSUME NEW g, NEW doc \in JobDoc, NEW status, TrueDoc(g, doc)
  PROVE  TrueDoc(g, [doc EXCEPT !.status = status])
BY DEF TrueDoc, TrueStep, JobDoc

\* A run that moves on without touching its document, to a point that promises
\* nothing.
LEMMA MovedRunIsTrue ==
  ASSUME NEW g, NEW table, NEW r, NEW q, TrueRun(g, table, r), q.doc = r.doc,
         q.pc \notin {"send", "sent", "record", "settle"}
  PROVE  TrueRun(g, table, q)
BY DEF TrueRun

\* And one whose document is still true.
LEMMA RewrittenRunIsTrue ==
  ASSUME NEW g, NEW table, NEW q, TrueDoc(g, q.doc),
         q.pc \notin {"send", "sent", "record", "settle"}
  PROVE  TrueRun(g, table, q)
BY DEF TrueRun

\* The document stays true when its step at s is replaced by a true one.
LEMMA RewrittenDocIsTrue ==
  ASSUME NEW g, NEW doc \in JobDoc, TrueDoc(g, doc),
         NEW s \in Steps, NEW step, TrueStep(g, step, s)
  PROVE  TrueDoc(g, [doc EXCEPT !.step[s] = step])
BY DEF TrueDoc, JobDoc

LEMMA RunFacts ==
  ASSUME TypeInv, LedgerInv, NEW p \in Procs
  PROVE  /\ run \in [Procs -> Run] /\ run[p] \in Run /\ run[p].doc \in JobDoc
         /\ jobs \in [Jobs -> JobDoc] /\ ledger \in [Steps -> LedgerRow]
         /\ TrueRun(gens, ledger, run[p]) /\ TrueDoc(gens, run[p].doc)
         /\ run[p].pc # "idle" => run[p].job \in Jobs
         /\ run[p].pc \in StepPoints \cup {"save"} =>
              run[p].cur \in Steps /\ TrueStep(gens, Step(p), run[p].cur)
BY DEF TypeInv, TypeOK, StoreOK, ProcessOK, Positioned, Run, LedgerInv, TrueRun, TrueDoc, Step

\* Steps that write no document and move one run to a point that promises nothing.
LEMMA QuietIsTrue ==
  ASSUME TypeInv, LedgerInv, NEW p \in Procs,
         UNCHANGED <<gens, ledger, jobs>>,
         \A q \in Procs \ {p} : run'[q] = run[q],
         run'[p].doc \in {run[p].doc, NoDoc},
         run'[p].pc \notin {"send", "sent", "record", "settle"}
  PROVE  LedgerInv'
<1>1. TrueDoc(gens, run'[p].doc)
  BY RunFacts, IdleIsTrue
<1>2. TrueRun(gens, ledger, run'[p])
  BY <1>1, RewrittenRunIsTrue
<1>3. \A j \in Jobs : TrueDoc(gens, jobs'[j])
  BY DEF LedgerInv
<1> QED
  BY <1>2, <1>3, OneTrueRun

LEMMA LeftHasNoDoc ==
  ASSUME NEW p \in Procs
  PROVE  Left(p).doc = NoDoc /\ Left(p).pc \in {"idle", "done"}
BY DEF Left, DoneRun, IdleRun

\* Steps that write a document and leave, or write it and move on.
LEMMA SavingIsTrue ==
  ASSUME TypeInv, LedgerInv, NEW p \in Procs, run[p].pc # "idle",
         NEW doc, TrueDoc(gens, doc), SaveJobDoc(run[p].job, doc),
         UNCHANGED <<gens, ledger>>,
         \A q \in Procs \ {p} : run'[q] = run[q],
         run'[p].doc \in {run[p].doc, doc, NoDoc},
         run'[p].pc \notin {"send", "sent", "record", "settle"}
  PROVE  LedgerInv'
<1>1. TrueDoc(gens, run'[p].doc)
  BY RunFacts, IdleIsTrue
<1>2. TrueRun(gens, ledger, run'[p])
  BY <1>1, RewrittenRunIsTrue
<1>3. \A j \in Jobs : TrueDoc(gens, jobs'[j])
  BY RunFacts, SavedDocIsTrue
<1> QED
  BY <1>2, <1>3, OneTrueRun

LEMMA AdmissionIsTrue ==
  ASSUME TypeInv, LedgerInv, NEW c \in Callers, Execute(c) \/ Enter(c)
  PROVE  LedgerInv'
<1> c \in Procs
  BY DEF Procs
<1>1. run \in [Procs -> Run] /\ run[c] \in Run
  BY RunFacts
<1>2. CASE Execute(c)
  <2>1. UNCHANGED <<gens, ledger, jobs>> /\ \A q \in Procs \ {c} : run'[q] = run[q]
    BY <1>1, <1>2 DEF Execute, platformVars, storeVars
  <2>2. ASSUME NEW j \in Saved, run' = [run EXCEPT ![c] = DoneRun(j)]
        PROVE  run'[c].doc = NoDoc /\ run'[c].pc = "done"
    BY <1>1, <2>2 DEF DoneRun, IdleRun
  <2>3. ASSUME NEW j \in UnusedJobs,
               run' = [run EXCEPT ![c].pc = "save_job", ![c].job = j, ![c].est = plan.est]
        PROVE  run'[c].doc = run[c].doc /\ run'[c].pc = "save_job"
    BY <1>1, <2>3 DEF Run
  <2>4. /\ run'[c].doc \in {run[c].doc, NoDoc}
        /\ run'[c].pc \notin {"send", "sent", "record", "settle"}
    BY <1>2, <2>2, <2>3 DEF Execute
  <2> QED
    BY <2>1, <2>4, QuietIsTrue
<1>3. CASE SaveNewJob(c)
  <2>1. TrueDoc(gens, NewDoc)
    BY IdleIsTrue, StatusIsTrue, PlanType DEF NewDoc
  <2>2. run'[c].doc = run[c].doc /\ run'[c].pc = "save_plan"
        /\ \A q \in Procs \ {c} : run'[q] = run[q]
    BY <1>1, <1>3 DEF SaveNewJob, Goto, Run
  <2> QED
    BY <1>3, <2>1, <2>2, SavingIsTrue DEF SaveNewJob, At, platformVars
<1>4. CASE SaveNewPlan(c)
  BY <1>1, <1>4, QuietIsTrue DEF SaveNewPlan, SavePlanDoc, Goto, Run, platformVars
<1>5. CASE Accept(c)
  <2>1. run'[c].doc \in {run[c].doc, NoDoc} /\ run'[c].pc \in {"claim", "idle", "done"}
        /\ \A q \in Procs \ {c} : run'[q] = run[q]
    BY <1>1, <1>5, LeftHasNoDoc DEF Accept, Goto, Leave, Run
  <2> QED
    BY <1>5, <2>1, QuietIsTrue DEF Accept, platformVars, storeVars
<1> QED
  BY <1>2, <1>3, <1>4, <1>5 DEF Enter

LEMMA TakeIsTrue ==
  ASSUME TypeInv, LedgerInv, NEW w \in Workers, Take(w)
  PROVE  LedgerInv'
<1>1. w \in Procs /\ run \in [Procs -> Run] /\ run[w] \in Run
  BY RunFacts DEF Procs
<1>2. run'[w].doc = run[w].doc /\ run'[w].pc = "claim"
      /\ \A q \in Procs \ {w} : run'[q] = run[q]
  BY <1>1 DEF Take, Run
<1> QED
  BY <1>1, <1>2, QuietIsTrue DEF Take, platformVars, storeVars

LEMMA LaunchIsTrue ==
  ASSUME TypeInv, LedgerInv, NEW p \in Procs, Launch(p)
  PROVE  LedgerInv'
<1>1. /\ run \in [Procs -> Run] /\ run[p] \in Run /\ run[p].doc \in JobDoc
      /\ jobs \in [Jobs -> JobDoc] /\ TrueDoc(gens, run[p].doc)
      /\ run[p].pc # "idle" => run[p].job \in Jobs
  BY RunFacts
<1>2. CASE Claim(p)
  <2>1. CASE Claimable(run[p].job)
    <3> DEFINE j == run[p].job
               doc == [jobs[j] EXCEPT !.status = "running"]
    <3>1. j \in Jobs /\ TrueDoc(gens, doc)
      BY <1>1, <1>2, StatusIsTrue DEF Claim, At, LedgerInv
    <3>2. SaveJobDoc(j, doc)
      BY <1>1, <1>2, <2>1, <3>1 DEF Claim, SaveJobDoc, JobDoc
    <3>3. run'[p].doc = run[p].doc /\ run'[p].pc = "load"
          /\ \A q \in Procs \ {p} : run'[q] = run[q]
      BY <1>1, <1>2, <2>1 DEF Claim, Goto, Run
    <3> HIDE DEF doc
    <3> QED
      BY <1>2, <3>1, <3>2, <3>3, SavingIsTrue DEF Claim, At, platformVars
  <2>2. CASE ~Claimable(run[p].job)
    <3>1. run'[p] = Left(p) /\ jobs' = jobs /\ \A q \in Procs \ {p} : run'[q] = run[q]
      BY <1>1, <1>2, <2>2 DEF Claim, Leave
    <3> QED
      BY <1>2, <3>1, LeftHasNoDoc, QuietIsTrue DEF Claim, platformVars
  <2> QED
    BY <2>1, <2>2
<1>3. CASE Load(p)
  <2>1. /\ run'[p].doc = jobs[run[p].job] /\ run'[p].pc \in {"plan", "recheck"}
        /\ \A q \in Procs \ {p} : run'[q] = run[q]
    BY <1>1, <1>3 DEF Load, Snapshots, Run
  <2>2. TrueDoc(gens, run'[p].doc)
    BY <1>1, <1>3, <2>1 DEF Load, Snapshots, At, LedgerInv
  <2> QED
    BY <1>3, <2>1, <2>2, RewrittenRunIsTrue, OneTrueRun
      DEF Load, Snapshots, LedgerInv, platformVars, storeVars
<1>4. CASE Recheck(p)
  BY <1>1, <1>4, QuietIsTrue DEF Recheck, At, Run, platformVars, storeVars
<1>5. CASE Rechecked(p)
  BY <1>1, <1>5, QuietIsTrue DEF Rechecked, At, Run, platformVars, storeVars
<1>6. CASE Abort(p)
  <2>1. TrueDoc(gens, AbortedDoc(run[p].doc))
    BY <1>1 DEF AbortedDoc, TrueDoc, TrueStep, JobDoc, StepDoc
  <2>2. run'[p] = Left(p) /\ \A q \in Procs \ {p} : run'[q] = run[q]
    BY <1>1, <1>6 DEF Abort, Leave
  <2> QED
    BY <1>6, <2>1, <2>2, LeftHasNoDoc, SavingIsTrue DEF Abort, At, platformVars
<1>7. CASE SavePlan(p)
  BY <1>1, <1>7, QuietIsTrue DEF SavePlan, SavePlanDoc, Goto, Run, platformVars
<1>8. CASE StartRun(p)
  <2> DEFINE doc == [run[p].doc EXCEPT !.status = "running"]
  <2>1. TrueDoc(gens, doc)
    BY <1>1, StatusIsTrue
  <2>2. run'[p].doc = doc /\ run'[p].pc = "next" /\ \A q \in Procs \ {p} : run'[q] = run[q]
    BY <1>1, <1>8 DEF StartRun, Run
  <2>3. SaveJobDoc(run[p].job, doc)
    BY <1>8 DEF StartRun
  <2> HIDE DEF doc
  <2> QED
    BY <1>8, <2>1, <2>2, <2>3, SavingIsTrue DEF StartRun, At, platformVars
<1> QED
  BY <1>2, <1>3, <1>4, <1>5, <1>6, <1>7, <1>8 DEF Launch

-----------------------------------------------------------------------------
(* Walking the steps.                                                      *)

\* A run that rewrites the step it stands at, truly, writes no job and no row.
LEMMA LeavingIsTrue ==
  ASSUME TypeInv, LedgerInv, NEW p \in Procs, run[p].cur \in Steps,
         NEW step, TrueStep(gens, step, run[p].cur), NEW point,
         Leaving(p, step, point)
  PROVE  /\ \A q \in Procs \ {p} : run'[q] = run[q]
         /\ run'[p].pc = point /\ run'[p].cur = run[p].cur
         /\ run'[p].doc = [run[p].doc EXCEPT !.step[run[p].cur] = step]
         /\ run'[p].doc.step[run[p].cur] = step
         /\ TrueDoc(gens, run'[p].doc)
<1>1. /\ run \in [Procs -> Run] /\ run[p] \in Run /\ run[p].doc \in JobDoc
      /\ TrueDoc(gens, run[p].doc)
  BY RunFacts
<1>2. run'[p].doc = [run[p].doc EXCEPT !.step[run[p].cur] = step]
  BY <1>1 DEF Leaving, Run, JobDoc
<1>3. TrueDoc(gens, run'[p].doc)
  BY <1>1, <1>2, RewrittenDocIsTrue
<1>4. /\ run'[p].pc = point /\ run'[p].cur = run[p].cur
      /\ \A q \in Procs \ {p} : run'[q] = run[q]
  BY <1>1 DEF Leaving, Run
<1>5. run'[p].doc.step[run[p].cur] = step
  BY <1>1, <1>2 DEF JobDoc
<1> QED
  BY <1>2, <1>3, <1>4, <1>5

\* Skipping and failing a step claim nothing.
LEMMA SkippingIsTrue ==
  ASSUME TypeInv, LedgerInv, NEW p \in Procs, run[p].pc \in StepPoints,
         SkipStep(p, Step(p)) \/ \E stop \in BOOLEAN : FailStep(p, stop)
  PROVE  /\ \A q \in Procs \ {p} : run'[q] = run[q]
         /\ run'[p].pc \in {"save", "fail"}
         /\ TrueDoc(gens, run'[p].doc)
<1>1. /\ run \in [Procs -> Run] /\ run[p] \in Run /\ run[p].doc \in JobDoc
      /\ TrueDoc(gens, run[p].doc)
      /\ run[p].cur \in Steps /\ TrueStep(gens, Step(p), run[p].cur) /\ Step(p) \in StepDoc
  BY RunFacts, StepPoint
<1>2. PICK status \in {"skipped", "failed"} :
        run'[p].doc = [run[p].doc EXCEPT !.step[run[p].cur] = [Step(p) EXCEPT !.status = status]]
  <2>1. CASE SkipStep(p, Step(p))
    <3>1. run'[p].doc = [run[p].doc EXCEPT !.step[run[p].cur] = [Step(p) EXCEPT !.status = "skipped"]]
      BY <1>1, <2>1 DEF SkipStep, Run, JobDoc
    <3> QED
      BY <3>1
  <2>2. CASE \E stop \in BOOLEAN : FailStep(p, stop)
    <3>1. run'[p].doc = [run[p].doc EXCEPT !.step[run[p].cur] = [Step(p) EXCEPT !.status = "failed"]]
      <4>1. PICK stop \in BOOLEAN : FailStep(p, stop)
        BY <2>2
      <4>2. run'[p].doc = [run[p].doc EXCEPT !.step[run[p].cur].status = "failed"]
        BY <1>1, <4>1 DEF FailStep, Run
      <4> QED
        BY <1>1, <4>2 DEF Step, JobDoc, StepDoc
    <3> QED
      BY <3>1
  <2> QED
    BY <2>1, <2>2
<1>3. TrueStep(gens, [Step(p) EXCEPT !.status = status], run[p].cur)
  BY <1>1, <1>2 DEF TrueStep, StepDoc
<1>4. TrueDoc(gens, run'[p].doc)
  BY <1>1, <1>2, <1>3, RewrittenDocIsTrue
<1>5. run'[p].pc \in {"save", "fail"} /\ \A q \in Procs \ {p} : run'[q] = run[q]
  BY <1>1 DEF SkipStep, FailStep, Run
<1> QED
  BY <1>4, <1>5

\* A step that ends well has been finished well.
LEMMA OutcomeIsTrue ==
  ASSUME TypeInv, LedgerInv, NEW p \in Procs, run[p].pc \in StepPoints, Decided(run[p].cur)
  PROVE  LET final == ApplyOutcome(Step(p), Verdict(run[p].cur)) IN
         TrueStep(gens, final, run[p].cur) /\ TrueCost(gens, final.cost, run[p].cur)
<1>1. run[p].cur \in Steps /\ TrueStep(gens, Step(p), run[p].cur) /\ Step(p) \in StepDoc
  BY RunFacts, StepPoint
<1> QED
  BY <1>1 DEF ApplyOutcome, Verdict, NetCost, Decided, TrueStep, TrueCost, StepDoc

\* A row that update_step writes.
LEMMA UpdatedRowIsTrue ==
  ASSUME TypeInv, LedgerInv, NEW s \in Steps, NEW status \in StepStatus,
         NEW gen \in BOOLEAN, NEW cost \in Nat \cup {NoCost},
         UpdateStep(s, status, gen, cost),
         status = "succeeded" /\ Billable(s) => gens[s].state = "complete",
         gen => gens[s].state # "none",
         cost # NoCost => TrueCost(gens, cost, s)
  PROVE  /\ \A t \in Steps : TrueRow(gens, ledger'[t], t)
         /\ Fills(ledger, ledger')
<1>1. ledger \in [Steps -> LedgerRow] /\ \A t \in Steps : TrueRow(gens, ledger[t], t)
  BY DEF TypeInv, TypeOK, StoreOK, LedgerInv
<1>2. CASE ledger[s].status = "absent"
  BY <1>1, <1>2 DEF UpdateStep, Fills
<1>3. CASE ledger[s].status # "absent"
  <2> DEFINE row == [ledger[s] EXCEPT !.status = status, !.gen = ledger[s].gen \/ gen,
                      !.cost = IF cost = NoCost THEN ledger[s].cost ELSE cost]
  <2>1. ledger' = [ledger EXCEPT ![s] = row]
    BY <1>1, <1>3 DEF UpdateStep, LedgerRow
  <2>2. row.status = status /\ row.gen = (ledger[s].gen \/ gen)
        /\ row.cost = (IF cost = NoCost THEN ledger[s].cost ELSE cost)
    BY <1>1 DEF LedgerRow
  <2>3. status # "absent"
    BY DEF StepStatus
  <2>4. TrueRow(gens, row, s)
    BY <1>1, <2>2, <2>3 DEF TrueRow, TrueStep
  <2> HIDE DEF row
  <2>5. \A t \in Steps : ledger'[t] = IF t = s THEN row ELSE ledger[t]
    BY <1>1, <2>1
  <2> QED
    BY <1>1, <2>2, <2>3, <2>4, <2>5 DEF Fills
<1> QED
  BY <1>2, <1>3

\* A step of one run that writes a true row, or launches a generation, but no job.
LEMMA TableIsTrue ==
  ASSUME TypeInv, LedgerInv, NEW p \in Procs, jobs' = jobs,
         Grows(gens, gens'), Fills(ledger, ledger'),
         \A t \in Steps : TrueRow(gens', ledger'[t], t),
         \A q \in Procs \ {p} : run'[q] = run[q],
         TrueRun(gens', ledger', run'[p])
  PROVE  LedgerInv'
<1>1. \A j \in Jobs : TrueDoc(gens', jobs'[j])
  BY TrueDocStays DEF LedgerInv
<1>2. \A q \in Procs \ {p} : run[q].pc \in StepPoints => run[q].cur \in Steps
  BY DEF TypeInv, Positioned
<1>3. \A q \in Procs \ {p} : TrueRun(gens', ledger', run'[q])
  BY <1>2, TrueRunStays DEF LedgerInv
<1> QED
  BY <1>1, <1>3 DEF LedgerInv

LEMMA GensGrow == Grows(gens, gens)
BY DEF Grows

LEMMA TableFills == Fills(ledger, ledger)
BY DEF Fills

LEMMA StepsAreTrue ==
  ASSUME TypeInv, LedgerInv, NEW p \in Procs,
         PassStep(p) \/ BeginStep(p) \/ SaveStep(p) \/ FinishRun(p) \/ BreakRun(p)
  PROVE  LedgerInv'
<1>1. /\ run \in [Procs -> Run] /\ run[p] \in Run /\ run[p].doc \in JobDoc
      /\ jobs \in [Jobs -> JobDoc] /\ TrueDoc(gens, run[p].doc)
      /\ run[p].pc # "idle" => run[p].job \in Jobs
      /\ run[p].cur \in Steps => Step(p) \in StepDoc /\ TrueStep(gens, Step(p), run[p].cur)
  BY RunFacts, StandingStep DEF TrueDoc, Step
<1>2. CASE PassStep(p)
  <2> DEFINE s == run[p].cur
             status == IF run[p].stopped THEN "skipped" ELSE Step(p).status
             step == [Step(p) EXCEPT !.status = status]
  <2>1. s \in Steps
    BY <1>1, <1>2, PlanType DEF PassStep, Run, Steps
  <2>2. TrueStep(gens, step, s)
    BY <1>1, <2>1 DEF TrueStep, StepDoc
  <2>3. /\ run'[p].doc = [run[p].doc EXCEPT !.step[s] = step] /\ run'[p].pc = "next"
        /\ \A q \in Procs \ {p} : run'[q] = run[q]
    BY <1>1, <1>2, <2>1 DEF PassStep, At, Step, Run, JobDoc, StepDoc
  <2> HIDE DEF step
  <2>4. TrueDoc(gens, run'[p].doc)
    BY <1>1, <2>1, <2>2, <2>3, RewrittenDocIsTrue
  <2> QED
    BY <1>2, <2>3, <2>4, RewrittenRunIsTrue, OneTrueRun
      DEF PassStep, LedgerInv, platformVars, storeVars
<1>3. CASE BeginStep(p)
  <2>1. run[p].cur \in Steps
    BY <1>1, <1>3, PlanType DEF BeginStep, Run, Steps
  <2>2. TrueStep(gens, [Step(p) EXCEPT !.status = "running"], run[p].cur)
    BY <1>1, <2>1 DEF TrueStep, StepDoc
  <2>3. ~Billable(run[p].cur) =>
          TrueStep(gens, [Step(p) EXCEPT !.status = "succeeded", !.cost = 0], run[p].cur)
    BY <1>1, <2>1 DEF TrueStep, StepDoc
  <2> DEFINE begun == /\ TrueDoc(gens, run'[p].doc)
                      /\ run'[p].pc \in {"claim_step", "save"}
                      /\ \A q \in Procs \ {p} : run'[q] = run[q]
  <2>4. ASSUME Billable(run[p].cur) PROVE begun
    <3> DEFINE step == [Step(p) EXCEPT !.status = "running"]
    <3>1. Leaving(p, step, "claim_step")
      BY <1>3, <2>4 DEF BeginStep
    <3>2. TrueStep(gens, step, run[p].cur)
      BY <2>2
    <3> HIDE DEF step
    <3>3. /\ TrueDoc(gens, run'[p].doc) /\ run'[p].pc = "claim_step"
          /\ \A q \in Procs \ {p} : run'[q] = run[q]
      BY <2>1, <3>1, <3>2, LeavingIsTrue, ZenonT(60)
    <3> QED
      BY <3>3
  <2>5. ASSUME ~Billable(run[p].cur) PROVE begun
    <3> DEFINE step == [Step(p) EXCEPT !.status = "succeeded", !.cost = 0]
    <3>1. Leaving(p, step, "save")
      BY <1>3, <2>5 DEF BeginStep
    <3>2. TrueStep(gens, step, run[p].cur)
      BY <2>3, <2>5
    <3> HIDE DEF step
    <3>3. /\ TrueDoc(gens, run'[p].doc) /\ run'[p].pc = "save"
          /\ \A q \in Procs \ {p} : run'[q] = run[q]
      BY <2>1, <3>1, <3>2, LeavingIsTrue, ZenonT(60)
    <3> QED
      BY <3>3
  <2>6. begun
    BY <2>4, <2>5
  <2> QED
    BY <1>3, <2>6, RewrittenRunIsTrue, OneTrueRun
      DEF BeginStep, LedgerInv, platformVars, storeVars
<1>4. CASE SaveStep(p)
  <2>1. run'[p].doc = run[p].doc /\ run'[p].pc = "next" /\ \A q \in Procs \ {p} : run'[q] = run[q]
    BY <1>1, <1>4 DEF SaveStep, Run
  <2> QED
    BY <1>1, <1>4, <2>1, SavingIsTrue DEF SaveStep, At, platformVars
<1>5. CASE FinishRun(p)
  <2> DEFINE status == AggregateStatus(run[p].doc, run[p].stopped)
             doc == [run[p].doc EXCEPT !.status = status]
  <2>1. TrueDoc(gens, doc)
    BY <1>1, StatusIsTrue
  <2>2. SaveJobDoc(run[p].job, doc)
    BY <1>5 DEF FinishRun
  <2>3. run'[p] = Left(p) /\ \A q \in Procs \ {p} : run'[q] = run[q]
    BY <1>1, <1>5 DEF FinishRun, Leave
  <2> HIDE DEF doc
  <2> QED
    BY <1>5, <2>1, <2>2, <2>3, LeftHasNoDoc, SavingIsTrue DEF FinishRun, At, platformVars
<1>6. CASE BreakRun(p)
  <2>1. run'[p] = Left(p) /\ \A q \in Procs \ {p} : run'[q] = run[q]
    BY <1>1, <1>6 DEF BreakRun, Leave
  <2> QED
    BY <1>1, <1>6, <2>1, LeftHasNoDoc, SavingIsTrue DEF BreakRun, At, platformVars
<1> QED
  BY <1>2, <1>3, <1>4, <1>5, <1>6

LEMMA ReadClaimIsTrue ==
  ASSUME TypeInv, LedgerInv, NEW p \in Procs, ReadClaim(p)
  PROVE  LedgerInv'
<1> DEFINE s == run[p].cur
           row == ledger[s]
<1>1. run[p].pc \in StepPoints
  BY DEF ReadClaim, At, StepPoints
<1>2. /\ run \in [Procs -> Run] /\ run[p] \in Run /\ s \in Steps /\ Step(p) \in StepDoc
      /\ TrueStep(gens, Step(p), s) /\ TrueRun(gens, ledger, run[p]) /\ TrueRow(gens, row, s)
  BY <1>1, RunFacts, StepPoint DEF LedgerInv
<1>3. UNCHANGED <<gens, ledger, jobs>>
  BY DEF ReadClaim, platformVars, storeVars
<1>4. ASSUME NEW point \in {"insert", "send"}, Goto(p, point), point = "send" => row.status # "absent"
      PROVE  TrueRun(gens, ledger, run'[p]) /\ \A q \in Procs \ {p} : run'[q] = run[q]
  <2>1. run'[p] = [run[p] EXCEPT !.pc = point] /\ \A q \in Procs \ {p} : run'[q] = run[q]
    BY <1>2, <1>4 DEF Goto
  <2>2. run'[p].doc = run[p].doc /\ run'[p].cur = s /\ run'[p].pc = point
    BY <1>2, <2>1 DEF Run
  <2> QED
    BY <1>2, <1>4, <2>1, <2>2 DEF TrueRun
<1>5. ASSUME AlreadyLaunched(row), Leaving(p, [Step(p) EXCEPT !.gen = TRUE], "poll")
      PROVE  TrueRun(gens, ledger, run'[p]) /\ \A q \in Procs \ {p} : run'[q] = run[q]
  <2>1. TrueStep(gens, [Step(p) EXCEPT !.gen = TRUE], s)
    BY <1>2, <1>5 DEF AlreadyLaunched, TrueRow, TrueStep, StepDoc
  <2>2. TrueDoc(gens, run'[p].doc) /\ run'[p].pc = "poll" /\ \A q \in Procs \ {p} : run'[q] = run[q]
    BY <1>2, <1>5, <2>1, LeavingIsTrue, ZenonT(60)
  <2> QED
    BY <2>2, RewrittenRunIsTrue
<1>6. ASSUME SkipStep(p, Step(p))
      PROVE  TrueRun(gens, ledger, run'[p]) /\ \A q \in Procs \ {p} : run'[q] = run[q]
  BY <1>1, <1>6, SkippingIsTrue, RewrittenRunIsTrue
<1>7. TrueRun(gens, ledger, run'[p]) /\ \A q \in Procs \ {p} : run'[q] = run[q]
  BY <1>4, <1>5, <1>6 DEF ReadClaim
<1> QED
  BY <1>3, <1>7, OneTrueRun DEF LedgerInv

LEMMA InsertClaimIsTrue ==
  ASSUME TypeInv, LedgerInv, NEW p \in Procs, InsertClaim(p)
  PROVE  LedgerInv'
<1> DEFINE s == run[p].cur
<1>1. run[p].pc \in StepPoints
  BY DEF InsertClaim, At, StepPoints
<1>2. /\ run \in [Procs -> Run] /\ run[p] \in Run /\ s \in Steps
      /\ ledger \in [Steps -> LedgerRow] /\ TrueDoc(gens, run[p].doc)
      /\ \A t \in Steps : TrueRow(gens, ledger[t], t)
  BY <1>1, RunFacts, StepPoint DEF LedgerInv
<1>3. jobs' = jobs /\ gens' = gens
  BY DEF InsertClaim, platformVars
<1>4. /\ run'[p].doc = run[p].doc /\ run'[p].pc \in {"claim_step", "broken"}
      /\ \A q \in Procs \ {p} : run'[q] = run[q]
  BY <1>2 DEF InsertClaim, Goto, Run
<1>5. CASE ledger[s].status # "absent"
  BY <1>3, <1>4, <1>5, QuietIsTrue DEF InsertClaim
<1>6. CASE ledger[s].status = "absent"
  <2> DEFINE row == [status |-> "pending", gen |-> FALSE, cost |-> 0, job |-> run[p].job]
  <2>1. ledger' = [ledger EXCEPT ![s] = row]
    BY <1>6 DEF InsertClaim
  <2>2. TrueRow(gens, row, s) /\ row.status # "absent"
    BY DEF TrueRow, TrueStep, TrueCost
  <2> HIDE DEF row
  <2>3. \A t \in Steps : TrueRow(gens', ledger'[t], t)
    BY <1>2, <1>3, <2>1, <2>2
  <2>4. Fills(ledger, ledger')
    BY <1>2, <2>1, <2>2 DEF Fills
  <2>5. TrueRun(gens', ledger', run'[p])
    BY <1>2, <1>3, <1>4, RewrittenRunIsTrue
  <2> QED
    BY <1>3, <1>4, <2>3, <2>4, <2>5, GensGrow, TableIsTrue
<1> QED
  BY <1>5, <1>6

LEMMA SendGenerateIsTrue ==
  ASSUME TypeInv, LedgerInv, NEW p \in Procs, SendGenerate(p)
  PROVE  LedgerInv'
<1> DEFINE s == run[p].cur
<1>1. run[p].pc \in StepPoints /\ run[p].pc = "send"
  BY DEF SendGenerate, At, StepPoints
<1>2. /\ run \in [Procs -> Run] /\ run[p] \in Run /\ s \in Steps
      /\ TrueRun(gens, ledger, run[p]) /\ TrueDoc(gens, run[p].doc)
      /\ \A t \in Steps : TrueRow(gens, ledger[t], t)
  BY <1>1, RunFacts, StepPoint DEF LedgerInv
<1>3. UNCHANGED <<ledger, jobs>>
  BY DEF SendGenerate, storeVars
<1>4. CASE Generate(s) /\ Goto(p, "sent")
  <2>1. /\ Grows(gens, gens') /\ gens'[s].state # "none"
        /\ \A t \in Steps \ {s} : gens'[t] = gens[t]
    BY <1>2, <1>4, GenerateGrows DEF TypeInv, TypeOK
  <2>2. ledger[s].status # "absent"
    BY <1>1, <1>2 DEF TrueRun
  <2>3. \A t \in Steps : TrueRow(gens', ledger'[t], t)
    <3>1. TrueRow(gens', ledger[s], s)
      BY <1>2, <2>1, <2>2 DEF TrueRow, TrueStep, TrueCost, Grows
    <3>2. \A t \in Steps \ {s} : TrueRow(gens', ledger[t], t)
      BY <1>2, <2>1 DEF TrueRow, TrueStep, TrueCost
    <3> QED
      BY <1>3, <3>1, <3>2
  <2>4. /\ run'[p].doc = run[p].doc /\ run'[p].pc = "sent" /\ run'[p].cur = s
        /\ \A q \in Procs \ {p} : run'[q] = run[q]
    BY <1>2, <1>4 DEF Goto, Run
  <2>5. TrueDoc(gens', run'[p].doc)
    BY <1>2, <2>1, <2>4, TrueDocStays
  <2>6. TrueRun(gens', ledger', run'[p])
    BY <2>1, <2>4, <2>5 DEF TrueRun
  <2> QED
    BY <1>3, <2>1, <2>3, <2>4, <2>6, TableFills, TableIsTrue
<1>5. CASE UNCHANGED platformVars /\ \E stop \in BOOLEAN : FailStep(p, stop)
  BY <1>1, <1>3, <1>5, SkippingIsTrue, RewrittenRunIsTrue, OneTrueRun
    DEF LedgerInv, platformVars
<1> QED
  BY <1>4, <1>5 DEF SendGenerate

LEMMA ReceiveReplyIsTrue ==
  ASSUME TypeInv, LedgerInv, NEW p \in Procs, ReceiveReply(p)
  PROVE  LedgerInv'
<1> DEFINE s == run[p].cur
           step == [Step(p) EXCEPT !.gen = Kind[s] # "text", !.cost = Charged(p),
                                   !.long = Kind[s] = "voiceover"]
<1>1. run[p].pc \in StepPoints /\ run[p].pc = "sent"
  BY DEF ReceiveReply, At, StepPoints
<1>2. /\ s \in Steps /\ Step(p) \in StepDoc /\ TrueStep(gens, Step(p), s)
      /\ gens[s].state # "none"
  BY <1>1, RunFacts, StepPoint DEF TrueRun
<1>3. s \in Steps
  BY <1>2
<1>4. UNCHANGED <<gens, ledger, jobs>> /\ \A j \in Jobs : TrueDoc(gens, jobs'[j])
  BY DEF ReceiveReply, platformVars, storeVars, LedgerInv
<1>5. PICK reply : reply = step
  OBVIOUS
<1>6. TrueStep(gens, reply, s)
  BY <1>2, <1>5 DEF TrueStep, StepDoc
<1>7. reply.cost = gens[s].bill
  BY <1>2, <1>5 DEF StepDoc, Charged
<1>8. Leaving(p, reply, "record") \/ FailStep(p, FALSE)
  BY <1>5 DEF ReceiveReply
<1>9. CASE Leaving(p, reply, "record")
  <2>1. /\ TrueDoc(gens, run'[p].doc) /\ run'[p].pc = "record" /\ run'[p].cur = s
        /\ run'[p].doc.step[s] = reply /\ \A q \in Procs \ {p} : run'[q] = run[q]
    BY <1>3, <1>6, <1>9, LeavingIsTrue, ZenonT(60)
  <2>2. TrueRun(gens, ledger, run'[p])
    BY <1>2, <1>7, <2>1 DEF TrueRun
  <2> QED
    BY <1>4, <2>1, <2>2, OneTrueRun
<1>10. CASE FailStep(p, FALSE)
  BY <1>1, <1>4, <1>10, SkippingIsTrue, RewrittenRunIsTrue, OneTrueRun
<1> QED
  BY <1>8, <1>9, <1>10

LEMMA RecordChargeIsTrue ==
  ASSUME TypeInv, LedgerInv, NEW p \in Procs, RecordCharge(p)
  PROVE  LedgerInv'
<1> DEFINE s == run[p].cur
           settled == ApplyOutcome(Step(p), Verdict(s))
           failed == [Step(p) EXCEPT !.status = "failed"]
<1>1. run[p].pc \in StepPoints /\ run[p].pc = "record"
  BY DEF RecordCharge, At, StepPoints
<1>2. /\ run \in [Procs -> Run] /\ run[p] \in Run /\ s \in Steps /\ Step(p) \in StepDoc
      /\ TrueStep(gens, Step(p), s) /\ TrueDoc(gens, run[p].doc)
      /\ gens[s].state # "none" /\ Step(p).cost = gens[s].bill
  BY <1>1, RunFacts, StepPoint DEF TrueRun, Step
<1>3. s \in Steps
  BY <1>2
<1>4. jobs' = jobs /\ gens' = gens
  BY DEF RecordCharge, platformVars
<1>5. /\ \A t \in Steps : TrueRow(gens, ledger'[t], t)
      /\ Fills(ledger, ledger')
  <2>1. /\ UpdateStep(s, "running", Step(p).gen, Step(p).cost) /\ "running" \in StepStatus
        /\ Step(p).gen \in BOOLEAN /\ Step(p).cost \in Nat \cup {NoCost}
        /\ TrueCost(gens, Step(p).cost, s)
    BY <1>2 DEF RecordCharge, StepDoc, StepStatus, TrueCost
  <2> QED
    BY <1>2, <2>1, UpdatedRowIsTrue
<1>6. ASSUME SkipStep(p, Step(p))
      PROVE  TrueRun(gens, ledger', run'[p]) /\ \A q \in Procs \ {p} : run'[q] = run[q]
  BY <1>1, <1>6, SkippingIsTrue, RewrittenRunIsTrue
<1>7. ASSUME Goto(p, "poll")
      PROVE  TrueRun(gens, ledger', run'[p]) /\ \A q \in Procs \ {p} : run'[q] = run[q]
  <2>1. run'[p].doc = run[p].doc /\ run'[p].pc = "poll" /\ \A q \in Procs \ {p} : run'[q] = run[q]
    BY <1>2, <1>7 DEF Goto, Run
  <2> QED
    BY <1>2, <2>1, RewrittenRunIsTrue
<1>8. ASSUME Decided(s), Leaving(p, settled, "settle")
      PROVE  TrueRun(gens, ledger', run'[p]) /\ \A q \in Procs \ {p} : run'[q] = run[q]
  <2>1. TrueStep(gens, settled, s) /\ TrueCost(gens, settled.cost, s)
    BY <1>1, <1>8, OutcomeIsTrue
  <2> HIDE DEF settled
  <2>2. /\ TrueDoc(gens, run'[p].doc) /\ run'[p].pc = "settle" /\ run'[p].cur = s
        /\ run'[p].doc.step[s] = settled /\ \A q \in Procs \ {p} : run'[q] = run[q]
    BY <1>3, <1>8, <2>1, LeavingIsTrue, ZenonT(60)
  <2> QED
    BY <2>1, <2>2 DEF TrueRun
<1>9. ASSUME Leaving(p, failed, "save")
      PROVE  TrueRun(gens, ledger', run'[p]) /\ \A q \in Procs \ {p} : run'[q] = run[q]
  <2>1. TrueStep(gens, failed, s)
    BY <1>2 DEF TrueStep, StepDoc
  <2> HIDE DEF failed
  <2>2. TrueDoc(gens, run'[p].doc) /\ run'[p].pc = "save" /\ \A q \in Procs \ {p} : run'[q] = run[q]
    BY <1>3, <1>9, <2>1, LeavingIsTrue, ZenonT(60)
  <2> QED
    BY <2>2, RewrittenRunIsTrue
<1>10. TrueRun(gens, ledger', run'[p]) /\ \A q \in Procs \ {p} : run'[q] = run[q]
  BY <1>6, <1>7, <1>8, <1>9 DEF RecordCharge
<1> QED
  BY <1>4, <1>5, <1>10, GensGrow, TableIsTrue

LEMMA PollIsTrue ==
  ASSUME TypeInv, LedgerInv, NEW p \in Procs, Poll(p)
  PROVE  LedgerInv'
<1> DEFINE s == run[p].cur
           final == ApplyOutcome(Step(p), Verdict(s))
           failed == [Step(p) EXCEPT !.status = "failed"]
<1>1. run[p].pc \in StepPoints
  BY DEF Poll, At, StepPoints
<1>2. s \in Steps /\ Step(p) \in StepDoc /\ TrueStep(gens, Step(p), s)
  BY <1>1, RunFacts, StepPoint
<1>3. s \in Steps
  BY <1>2
<1>4. UNCHANGED <<gens, ledger, jobs>> /\ \A j \in Jobs : TrueDoc(gens, jobs'[j])
  BY DEF Poll, platformVars, storeVars, LedgerInv
<1>5. ASSUME Decided(s), Leaving(p, final, "settle")
      PROVE  TrueRun(gens, ledger, run'[p]) /\ \A q \in Procs \ {p} : run'[q] = run[q]
  <2>1. TrueStep(gens, final, s) /\ TrueCost(gens, final.cost, s)
    BY <1>1, <1>5, OutcomeIsTrue
  <2> HIDE DEF final
  <2>2. /\ TrueDoc(gens, run'[p].doc) /\ run'[p].pc = "settle" /\ run'[p].cur = s
        /\ run'[p].doc.step[s] = final /\ \A q \in Procs \ {p} : run'[q] = run[q]
    BY <1>3, <1>5, <2>1, LeavingIsTrue, ZenonT(60)
  <2> QED
    BY <2>1, <2>2 DEF TrueRun
<1>6. ASSUME Leaving(p, failed, "save")
      PROVE  TrueRun(gens, ledger, run'[p]) /\ \A q \in Procs \ {p} : run'[q] = run[q]
  <2>1. TrueStep(gens, failed, s)
    BY <1>2 DEF TrueStep, StepDoc
  <2> HIDE DEF failed
  <2>2. TrueDoc(gens, run'[p].doc) /\ run'[p].pc = "save" /\ \A q \in Procs \ {p} : run'[q] = run[q]
    BY <1>3, <1>6, <2>1, LeavingIsTrue, ZenonT(60)
  <2> QED
    BY <2>2, RewrittenRunIsTrue
<1>7. ASSUME FailStep(p, FALSE)
      PROVE  TrueRun(gens, ledger, run'[p]) /\ \A q \in Procs \ {p} : run'[q] = run[q]
  BY <1>1, <1>7, SkippingIsTrue, RewrittenRunIsTrue
<1>8. TrueRun(gens, ledger, run'[p]) /\ \A q \in Procs \ {p} : run'[q] = run[q]
  BY <1>5, <1>6, <1>7 DEF Poll
<1> QED
  BY <1>4, <1>8, OneTrueRun

LEMMA SettleIsTrue ==
  ASSUME TypeInv, LedgerInv, NEW p \in Procs, Settle(p) \/ RecordFailure(p)
  PROVE  LedgerInv'
<1> DEFINE s == run[p].cur
<1>1. run[p].pc \in StepPoints
  BY DEF Settle, RecordFailure, At, StepPoints
<1>2. /\ run \in [Procs -> Run] /\ run[p] \in Run /\ s \in Steps /\ Step(p) \in StepDoc
      /\ TrueStep(gens, Step(p), s) /\ TrueDoc(gens, run[p].doc)
      /\ TrueRun(gens, ledger, run[p])
  BY <1>1, RunFacts, StepPoint
<1>3. jobs' = jobs /\ gens' = gens
  BY DEF Settle, RecordFailure, platformVars
<1>4. ASSUME Settle(p)
      PROVE  (\A t \in Steps : TrueRow(gens, ledger'[t], t)) /\ Fills(ledger, ledger')
  <2>1. /\ UpdateStep(s, Step(p).status, Step(p).gen, Step(p).cost)
        /\ Step(p).status \in StepStatus /\ Step(p).gen \in BOOLEAN
        /\ Step(p).cost \in Nat \cup {NoCost} /\ TrueCost(gens, Step(p).cost, s)
    BY <1>2, <1>4 DEF Settle, At, StepDoc, TrueRun, Step
  <2> QED
    BY <1>2, <2>1, UpdatedRowIsTrue DEF TrueStep
<1>5. ASSUME RecordFailure(p)
      PROVE  (\A t \in Steps : TrueRow(gens, ledger'[t], t)) /\ Fills(ledger, ledger')
  <2>1. UpdateStep(s, "failed", FALSE, NoCost) /\ "failed" \in StepStatus
    BY <1>5 DEF RecordFailure, StepStatus
  <2> QED
    BY <1>2, <2>1, UpdatedRowIsTrue
<1>6. /\ run'[p].doc = run[p].doc /\ run'[p].pc = "save"
      /\ \A q \in Procs \ {p} : run'[q] = run[q]
  BY <1>2 DEF Settle, RecordFailure, Goto, Run
<1>7. TrueRun(gens, ledger', run'[p])
  BY <1>2, <1>6, RewrittenRunIsTrue
<1> QED
  BY <1>3, <1>4, <1>5, <1>6, <1>7, GensGrow, TableIsTrue

-----------------------------------------------------------------------------
(* Everything else.                                                        *)

LEMMA LifecycleIsTrue ==
  ASSUME TypeInv, LedgerInv, Lifecycle
  PROVE  LedgerInv'
<1>1. CASE Stop \/ Restart
  BY <1>1 DEF Stop, Restart, LedgerInv, platformVars, storeVars
<1>2. CASE Stopped \/ Kill
  <2>1. UNCHANGED <<gens, ledger, jobs>> /\ run' = Lost
    BY <1>2 DEF Stopped, Kill, GoDown, platformVars, storeVars
  <2>2. \A p \in Procs : TrueRun(gens, ledger, run'[p])
    BY <2>1, IdleIsTrue DEF Lost, LedgerInv
  <2> QED
    BY <2>1, <2>2 DEF LedgerInv
<1>3. ASSUME NEW w \in Workers, Cancel(w) PROVE LedgerInv'
  <2>1. /\ w \in Procs /\ run \in [Procs -> Run] /\ TrueDoc(gens, run[w].doc)
        /\ run[w].pc # "idle"
    BY <1>3, RunFacts DEF Procs, Cancel, Idle
  <2>2. /\ run'[w] = Left(w) /\ \A q \in Procs \ {w} : run'[q] = run[q]
        /\ UNCHANGED <<gens, ledger>>
    BY <1>3, <2>1 DEF Cancel, Leave, platformVars
  <2>3. CASE SaveJobDoc(run[w].job, run[w].doc)
    BY <2>1, <2>2, <2>3, LeftHasNoDoc, SavingIsTrue
  <2>4. CASE jobs' = jobs
    BY <2>1, <2>2, <2>4, LeftHasNoDoc, QuietIsTrue
  <2> QED
    BY <1>3, <2>3, <2>4 DEF Cancel
<1>4. ASSUME NEW j \in Jobs, Recover(j) PROVE LedgerInv'
  <2>1. /\ UNCHANGED <<gens, ledger, run>>
        /\ jobs' = [jobs EXCEPT ![j] = [jobs[j] EXCEPT !.status = "queued"]]
    BY <1>4 DEF Recover, RequeueJob, platformVars, TypeInv, TypeOK, StoreOK, JobDoc
  <2>2. \A i \in Jobs : TrueDoc(gens, jobs'[i])
    BY <2>1, StatusIsTrue DEF LedgerInv, TypeInv, TypeOK, StoreOK
  <2> QED
    BY <2>1, <2>2 DEF LedgerInv
<1> QED
  BY <1>1, <1>2, <1>3, <1>4 DEF Lifecycle

LEMMA PlatformIsTrue ==
  ASSUME TypeInv, LedgerInv, PlatformStep
  PROVE  LedgerInv'
<1>1. /\ Grows(gens, gens')
      /\ \A t \in Steps : gens'[t].state # "none" => gens[t].state # "none"
  BY ConcludeGrows DEF PlatformStep, TypeInv, TypeOK
<1>2. UNCHANGED <<ledger, jobs, run>>
  BY DEF PlatformStep, storeVars
<1>3. \A s \in Steps : TrueRow(gens', ledger'[s], s)
  BY <1>1, <1>2, TrueRowStays DEF LedgerInv
<1>4. \A j \in Jobs : TrueDoc(gens', jobs'[j])
  BY <1>1, <1>2, TrueDocStays DEF LedgerInv
<1>5. \A p \in Procs : TrueRun(gens', ledger', run'[p])
  BY <1>1, <1>2, TableFills, TrueRunStays DEF LedgerInv, TypeInv, Positioned
<1> QED
  BY <1>3, <1>4, <1>5 DEF LedgerInv

LEMMA LedgerInit == Init => LedgerInv
<1> SUFFICES ASSUME Init PROVE LedgerInv
  OBVIOUS
<1>1. \A s \in Steps : TrueRow(gens, ledger[s], s)
  BY DEF Init, PlatformInit, NoGeneration, NoRow, TrueRow, TrueStep, TrueCost
<1>2. \A j \in Jobs : TrueDoc(gens, jobs[j])
  BY DEF Init, NoDoc, FreshStep, TrueDoc, TrueStep
<1>3. \A p \in Procs : TrueRun(gens, ledger, run[p])
  BY IdleIsTrue DEF Init
<1> QED
  BY <1>1, <1>2, <1>3 DEF LedgerInv

LEMMA LedgerNext == TypeInv /\ LedgerInv /\ [Next]_vars => LedgerInv'
<1> SUFFICES ASSUME TypeInv, LedgerInv, [Next]_vars PROVE LedgerInv'
  OBVIOUS
<1>1. ASSUME NEW p \in Procs, Walk(p) PROVE LedgerInv'
  BY <1>1, StepsAreTrue, ReadClaimIsTrue, InsertClaimIsTrue, SendGenerateIsTrue,
    ReceiveReplyIsTrue, RecordChargeIsTrue, PollIsTrue, SettleIsTrue DEF Walk
<1>2. CASE UNCHANGED vars
  BY <1>2 DEF vars, LedgerInv, platformVars, storeVars
<1> QED
  BY <1>1, <1>2, AdmissionIsTrue, TakeIsTrue, LaunchIsTrue, LifecycleIsTrue, PlatformIsTrue
    DEF Next

LEMMA LedgerInvariance == Spec => []LedgerInv
<1>1. Init => TypeInv /\ LedgerInv
  BY InitType, LedgerInit
<1>2. TypeInv /\ LedgerInv /\ [Next]_vars => (TypeInv /\ LedgerInv)'
  BY NextType, LedgerNext
<1> QED
  BY <1>1, <1>2, PTL DEF Spec

-----------------------------------------------------------------------------
(* The theorems.                                                           *)

\* Whatever is killed, stopped, lost or delivered twice, and however many jobs race
\* for the plan, nothing is billed before its ledger row is there: the row is what
\* keeps a retry from paying again.
THEOREM ClaimPrecedesLaunch == Spec => []LaunchedIsClaimed
<1>1. LedgerInv => LaunchedIsClaimed
  BY DEF LedgerInv, TrueRow, LaunchedIsClaimed, Launched
<1> QED
  BY <1>1, LedgerInvariance, PTL

\* No job and no ledger row reports a billable step as succeeded that the platform
\* has not finished successfully.
THEOREM SuccessIsReal == Spec => []SucceededIsComplete
<1>1. LedgerInv => SucceededIsComplete
  BY DEF LedgerInv, TrueRow, TrueDoc, TrueStep, SucceededIsComplete
<1> QED
  BY <1>1, LedgerInvariance, PTL

\* A generation the ledger names was launched, and a cost it holds was billed.
THEOREM CostsAreReal == Spec => []LedgerCostIsBilled
<1>1. LedgerInv => LedgerCostIsBilled
  BY DEF LedgerInv, TrueRow, TrueStep, TrueCost, LedgerCostIsBilled, Launched
<1> QED
  BY <1>1, LedgerInvariance, PTL

=============================================================================
