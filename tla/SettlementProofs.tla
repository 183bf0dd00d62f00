-------------------------- MODULE SettlementProofs --------------------------
(***************************************************************************)
(* Three writers of one verdict.  The run that launched a generation, the  *)
(* webhook and the reconciler write the same documents and rows, each from *)
(* a document it read before an await.  Proved here: the types, that a     *)
(* success in the ledger is a generation that completed, that a cost in it *)
(* was billed, and, for generations that can be found and one run at a     *)
(* time, that a success once written stays.                                *)
(***************************************************************************)
EXTENDS Settlement, BudgetProofs

-----------------------------------------------------------------------------
(* The inductive invariant.  What is written into a job or a row is on its *)
(* way there in the document of a run, a request or the sweep; each of     *)
(* them holds it across an await, while the others write.                  *)

\* Every cost in a document was billed.
Billed(g, doc) == \A s \in Steps : TrueCost(g, doc.step[s].cost, s)

\* A row in the ledger belongs to a job, and only a row names a generation.
RowStands(row) ==
  /\ row.status # "absent" => row.job \in Jobs
  /\ row.gen => row.status # "absent"

\* What holds of the execution path, whoever else writes.
Core ==
  /\ TypeInv /\ GuardOK /\ LedgerInv
  /\ \A s \in Steps : RowStands(ledger[s])
  /\ \A j \in Jobs : Billed(gens, jobs[j])
  /\ \A p \in Procs : Billed(gens, run[p].doc)

\* A request is about a generation the platform has decided and a row names.
HookGood(g, table, r) ==
  /\ r \in HookRun /\ TrueDoc(g, r.doc) /\ Billed(g, r.doc)
  /\ r.pc # "idle" =>
       /\ r.job \in Jobs /\ g[r.step].state \in {"complete", "error"}
       /\ table[r.step].gen

\* The sweep is about steps whose rows name a generation.
SweepGood(g, table, r) ==
  /\ r \in Sweep /\ TrueDoc(g, r.doc) /\ Billed(g, r.doc)
  /\ \A s \in r.todo : table[s].gen
  /\ r.pc \in {"ask", "save", "ledger"} =>
       r.job \in Jobs /\ table[r.step].gen /\ r.doc.step[r.step].gen

Settlers ==
  /\ hook \in [Hooks -> HookRun]
  /\ sent \in [Steps -> 0..MaxDeliveries]
  /\ \A h \in Hooks : HookGood(gens, ledger, hook[h])
  /\ SweepGood(gens, ledger, reconciler)

SettlementInv == Core /\ Settlers

-----------------------------------------------------------------------------
(* What stays as it is.                                                    *)

\* A generation that is decided is not decided again.
Decides(g, h) == \A s \in Steps : g[s].state \in {"complete", "error"} => h[s] = g[s]

\* A row that names a generation goes on naming it.
Names(table, next) == \A s \in Steps : table[s].gen => next[s].gen

\* A row that is there stays, with its job; a row that is new has one.
Rows ==
  \A s \in Steps :
    /\ ledger[s].status # "absent" =>
         ledger'[s].status # "absent" /\ ledger'[s].job = ledger[s].job
    /\ ledger'[s].status # "absent" => ledger[s].status # "absent" \/ ledger'[s].job \in Jobs
    /\ ledger'[s].gen => ledger[s].gen \/ ledger[s].status # "absent"

LEMMA BilledStays ==
  ASSUME NEW g, NEW h, Grows(g, h), NEW doc, Billed(g, doc)
  PROVE  Billed(h, doc)
BY DEF Grows, Billed, TrueCost

LEMMA SameIsBilled ==
  ASSUME NEW g, NEW d, NEW e, Same(d, e), Billed(g, e)
  PROVE  Billed(g, d)
BY DEF Same, Billed, TrueCost

LEMMA NothingIsBilled == \A g : Billed(g, NoDoc) /\ TrueDoc(g, NoDoc)
BY DEF Billed, TrueCost, TrueDoc, TrueStep, NoDoc, FreshStep

LEMMA HookStays ==
  ASSUME NEW g, NEW h, Grows(g, h), Decides(g, h), NEW table, NEW next, Names(table, next),
         NEW r, HookGood(g, table, r)
  PROVE  HookGood(h, next, r)
<1>1. TrueDoc(h, r.doc) /\ Billed(h, r.doc)
  BY TrueDocStays, BilledStays DEF HookGood
<1> QED
  BY <1>1 DEF HookGood, HookRun, Decides, Names

LEMMA SweepStays ==
  ASSUME NEW g, NEW h, Grows(g, h), NEW table, NEW next, Names(table, next),
         NEW r, SweepGood(g, table, r)
  PROVE  SweepGood(h, next, r)
<1>1. TrueDoc(h, r.doc) /\ Billed(h, r.doc)
  BY TrueDocStays, BilledStays DEF SweepGood
<1> QED
  BY <1>1 DEF SweepGood, Sweep, Names

LEMMA IdleIsGood ==
  ASSUME NEW g, NEW table
  PROVE  HookGood(g, table, IdleHook) /\ SweepGood(g, table, IdleSweep)
<1>1. 1 \in Steps
  BY PlanType DEF Steps
<1>2. IdleHook \in HookRun /\ IdleSweep \in Sweep
  BY <1>1, PlanType DEF IdleHook, IdleSweep, HookRun, Sweep
<1> QED
  BY <1>2, NothingIsBilled DEF HookGood, SweepGood, IdleHook, IdleSweep

LEMMA PlatformDecides ==
  ASSUME PlatformTypeOK, PlatformNext \/ \E s \in Steps : Generate(s)
  PROVE  Grows(gens, gens') /\ Decides(gens, gens')
<1>1. CASE PlatformNext
  <2>1. PICK s \in Steps : Conclude(s) \/ MovePrice(s)
    BY <1>1 DEF PlatformNext
  <2>2. Decides(gens, gens')
    BY <2>1 DEF Conclude, MovePrice, PlatformTypeOK, Decides
  <2> QED
    BY <1>1, <2>2, ConcludeGrows
<1>2. ASSUME NEW s \in Steps, Generate(s) PROVE Grows(gens, gens') /\ Decides(gens, gens')
  <2>1. Grows(gens, gens') /\ \A t \in Steps \ {s} : gens'[t] = gens[t]
    BY <1>2, GenerateGrows
  <2>2. Launched(s) => gens' = gens
    BY <1>2 DEF Generate, platformVars
  <2> QED
    BY <2>1, <2>2 DEF Decides, Launched
<1> QED
  BY <1>1, <1>2

\* update_step writes one row, and only if it is there.
LEMMA UpdateKeepsRows ==
  ASSUME TypeInv, NEW s, NEW status, status # "absent", NEW gen, NEW cost,
         UpdateStep(s, status, gen, cost)
  PROVE  /\ Names(ledger, ledger') /\ Rows
         /\ \A t \in Steps \ {s} : ledger'[t] = ledger[t]
BY DEF UpdateStep, Names, Rows, TypeInv, TypeOK, StoreOK, LedgerRow

LEMMA WalkNames ==
  ASSUME TypeInv, \A s \in Steps : RowStands(ledger[s]), NEW p \in Procs, Walk(p)
  PROVE  Names(ledger, ledger') /\ Rows
<1>1. CASE RecordCharge(p)
  BY <1>1, UpdateKeepsRows DEF RecordCharge
<1>2. CASE Settle(p)
  <2>1. Step(p).status \in StepStatus
    BY <1>2, StepPoint DEF Settle, At, StepPoints, StepDoc
  <2> QED
    BY <1>2, <2>1, UpdateKeepsRows DEF Settle, StepStatus
<1>3. CASE RecordFailure(p)
  BY <1>3, UpdateKeepsRows DEF RecordFailure
<1>4. CASE InsertClaim(p)
  <2>1. run[p].job \in Jobs /\ run[p].cur \in Steps /\ ledger \in [Steps -> LedgerRow]
    BY <1>4, StepPoint DEF InsertClaim, At, StepPoints, TypeInv, TypeOK, StoreOK
  <2>2. CASE ledger[run[p].cur].status # "absent"
    BY <1>4, <2>2 DEF InsertClaim, Names, Rows
  <2>3. CASE ledger[run[p].cur].status = "absent"
    <3>1. ledger' = [ledger EXCEPT ![run[p].cur] = [status |-> "pending", gen |-> FALSE,
                                                    cost |-> 0, job |-> run[p].job]]
      BY <1>4, <2>3 DEF InsertClaim
    <3> QED
      BY <2>1, <2>3, <3>1 DEF Names, Rows, RowStands
  <2> QED
    BY <2>2, <2>3
<1>5. CASE ledger' = ledger
  BY <1>5, UpdateKeepsRows DEF Names, Rows
<1>6. RecordCharge(p) \/ Settle(p) \/ RecordFailure(p) \/ InsertClaim(p) \/ ledger' = ledger
  BY DEF Walk, PassStep, BeginStep, SaveStep, FinishRun, ReadClaim, BreakRun, SendGenerate,
    ReceiveReply, Poll, storeVars
<1> QED
  BY <1>1, <1>2, <1>3, <1>4, <1>5, <1>6

LEMMA ExecutionStays ==
  ASSUME Core, [Next]_vars
  PROVE  Grows(gens, gens') /\ Decides(gens, gens') /\ Names(ledger, ledger') /\ Rows
<1> TypeInv /\ GuardOK /\ PlatformTypeOK /\ \A s \in Steps : RowStands(ledger[s])
  BY DEF Core, TypeInv, TypeOK
<1>1. gens' = gens => Grows(gens, gens') /\ Decides(gens, gens')
  BY DEF Grows, Decides
<1>2. ledger' = ledger => Names(ledger, ledger') /\ Rows
  BY DEF Names, Rows
<1>3. CASE CalmStep
  BY <1>1, <1>2, <1>3, PlatformDecides DEF CalmStep, PlatformStep
<1>4. ASSUME NEW p \in Procs, Load(p)
      PROVE  Grows(gens, gens') /\ Decides(gens, gens') /\ Names(ledger, ledger') /\ Rows
  BY <1>1, <1>2, <1>4 DEF Load, platformVars, storeVars
<1>5. ASSUME NEW p \in Procs, Walk(p), OneMoves(p), Moves(p)
      PROVE  Grows(gens, gens') /\ Decides(gens, gens') /\ Names(ledger, ledger') /\ Rows
  <2>1. gens' = gens \/ (run[p].cur \in Steps /\ Generate(run[p].cur))
    BY <1>5 DEF OneMoves, Moves, Passes, Enters, Produces, Resumes, Quits, Sends, Receives,
      Commits, Recounts
  <2>2. Grows(gens, gens') /\ Decides(gens, gens')
    BY <1>1, <2>1, PlatformDecides
  <2>3. Names(ledger, ledger') /\ Rows
    BY <1>5, WalkNames
  <2> QED
    BY <2>2, <2>3
<1> QED
  BY <1>3, <1>4, <1>5, CalmOrMoney

-----------------------------------------------------------------------------
(* The execution path, with somebody else writing as well.                 *)

\* What a run makes of the cost of the step it stands at.
LEMMA MoveIsBilled ==
  ASSUME TypeInv, LedgerInv, NEW p \in Procs, OneMoves(p), Moves(p),
         Grows(gens, gens'), Billed(gens, run[p].doc)
  PROVE  Billed(gens', run'[p].doc)
<1>1. Billed(gens', run[p].doc) /\ run[p].cur \in Steps
  BY BilledStays DEF OneMoves
<1>2. SUFFICES TrueCost(gens', After(p).cost, run[p].cur)
  BY <1>1 DEF OneMoves, Billed, After
<1>3. After(p).cost = Step(p).cost => TrueCost(gens', After(p).cost, run[p].cur)
  BY <1>1 DEF Billed, Step
<1>4. gens \in [Steps -> Generation]
  BY DEF TypeInv, TypeOK, PlatformTypeOK
<1>5. ASSUME gens' = gens, Decided(run[p].cur), After(p).cost = NetCost(run[p].cur)
      PROVE  TrueCost(gens', After(p).cost, run[p].cur)
  BY <1>5 DEF Decided, NetCost, TrueCost
<1>6. CASE Passes(p) \/ Enters(p) \/ Quits(p) \/ Sends(p)
  BY <1>3, <1>6 DEF Passes, Enters, Quits, Sends, SameMoney
<1>7. CASE Produces(p) \/ Resumes(p)
  BY <1>3, <1>7 DEF Produces, Resumes, TrueCost
<1>8. CASE Receives(p)
  BY <1>1, <1>8 DEF Receives, LedgerInv, TrueRun, TrueCost
<1>9. CASE Commits(p)
  BY <1>3, <1>5, <1>9 DEF Commits
<1>10. CASE Recounts(p)
  BY <1>5, <1>10 DEF Recounts
<1> QED
  BY <1>6, <1>7, <1>8, <1>9, <1>10 DEF Moves

LEMMA CoreNext == Core /\ [Next]_vars => Core'
<1> SUFFICES ASSUME Core, [Next]_vars PROVE Core'
  OBVIOUS
<1>1. TypeInv /\ GuardOK /\ LedgerInv
  BY DEF Core
<1>2. Grows(gens, gens') /\ Rows
  BY ExecutionStays
<1>3. TypeInv' /\ GuardOK' /\ LedgerInv'
  BY <1>1, NextType, GuardNext, LedgerNext
<1>4. \A s \in Steps : RowStands(ledger'[s])
  BY <1>2 DEF Core, Rows, RowStands
<1>5. \A j \in Jobs : Billed(gens', jobs'[j])
  <2>1. ASSUME NEW j \in Jobs PROVE Billed(gens, jobs'[j])
    BY <1>1, JobsWritten, SameIsBilled, NothingIsBilled DEF Wrote, Core
  <2> QED
    BY <1>2, <2>1, BilledStays
<1>6. ASSUME NEW p \in Procs PROVE Billed(gens', run'[p].doc)
  <2>1. CASE run'[p].doc = NoDoc \/ Same(run'[p].doc, run[p].doc)
    <3>1. Billed(gens, run'[p].doc)
      BY <2>1, SameIsBilled, NothingIsBilled DEF Core
    <3> QED
      BY <1>2, <3>1, BilledStays
  <2>2. ASSUME NEW q \in Procs, Load(q) PROVE Billed(gens', run'[p].doc)
    <3>1. /\ run'[q].doc = jobs[run[q].job] /\ run[q].job \in Jobs
          /\ \A r \in Procs \ {q} : run'[r] = run[r]
      BY <1>1, <2>2 DEF Load, At, TypeInv, TypeOK, ProcessOK, Positioned, Run
    <3> QED
      BY <1>2, <3>1, BilledStays DEF Core
  <2>3. ASSUME NEW q \in Procs, OneMoves(q), Moves(q) PROVE Billed(gens', run'[p].doc)
    <3>1. CASE p = q
      BY <1>1, <1>2, <2>3, <3>1, MoveIsBilled DEF Core
    <3>2. CASE p # q
      BY <1>2, <2>3, <3>2, BilledStays DEF OneMoves, Core
    <3> QED
      BY <3>1, <3>2
  <2> QED
    BY <1>1, <2>1, <2>2, <2>3, CalmOrMoney DEF CalmStep, Calm
<1> QED
  BY <1>3, <1>4, <1>5, <1>6 DEF Core

\* A request or the sweep writes back a job.
LEMMA SaveKeepsCore ==
  ASSUME Core, NEW j \in Jobs, NEW doc \in JobDoc, SaveJobDoc(j, doc),
         TrueDoc(gens, doc), Billed(gens, doc),
         UNCHANGED <<platformVars, plan, ledger, processVars, run, guard, boundVars>>
  PROVE  Core'
<1> USE DEF platformVars, processVars, boundVars
<1>1. jobs \in [Jobs -> JobDoc]
  BY DEF Core, TypeInv, TypeOK, StoreOK
<1>2. jobs' \in [Jobs -> JobDoc] /\ \A i \in Jobs : jobs'[i] \in {jobs[i], doc}
  BY <1>1 DEF SaveJobDoc
<1>3. TypeInv'
  BY <1>2 DEF Core, TypeInv, TypeOK, PlatformTypeOK, StoreOK, ProcessOK, Positioned
<1>4. GuardOK'
  BY DEF Core, GuardOK
<1>5. LedgerInv'
  BY <1>2 DEF Core, LedgerInv
<1>6. \A i \in Jobs : Billed(gens', jobs'[i])
  BY <1>2 DEF Core
<1> QED
  BY <1>3, <1>4, <1>5, <1>6 DEF Core

\* Or a row.
LEMMA SettleKeepsCore ==
  ASSUME Core, NEW s \in Steps, NEW status \in StepStatus, NEW gen \in BOOLEAN,
         NEW cost \in Nat, UpdateStep(s, status, gen, cost),
         status = "succeeded" /\ Billable(s) => gens[s].state = "complete",
         gen => gens[s].state # "none", TrueCost(gens, cost, s),
         UNCHANGED <<platformVars, jobs, plan, processVars, run, guard, boundVars>>
  PROVE  Core' /\ Names(ledger, ledger')
<1> USE DEF platformVars, processVars, boundVars
<1>1. ledger' \in [Steps -> LedgerRow]
  BY UpdateStepType DEF Core, TypeInv, TypeOK, StoreOK
<1>2. TypeInv'
  BY <1>1 DEF Core, TypeInv, TypeOK, PlatformTypeOK, StoreOK, ProcessOK, Positioned
<1>3. GuardOK'
  BY DEF Core, GuardOK
<1>4. (\A t \in Steps : TrueRow(gens, ledger'[t], t)) /\ Fills(ledger, ledger')
  BY UpdatedRowIsTrue DEF Core
<1>5. LedgerInv'
  <2>1. \A p \in Procs : run[p].pc \in StepPoints => run[p].cur \in Steps
    BY DEF Core, TypeInv, Positioned
  <2>2. \A p \in Procs : TrueRun(gens, ledger', run[p])
    BY <1>4, <2>1, GensGrow, TrueRunStays DEF Core, LedgerInv
  <2> QED
    BY <1>4, <2>2 DEF Core, LedgerInv
<1>6. Names(ledger, ledger') /\ Rows
  BY UpdateKeepsRows DEF Core, StepStatus
<1>7. \A t \in Steps : RowStands(ledger'[t])
  BY <1>6 DEF Core, Rows, RowStands
<1> QED
  BY <1>2, <1>3, <1>5, <1>6, <1>7 DEF Core

-----------------------------------------------------------------------------
(* Requests and the sweep.                                                 *)

LEMMA SettlersMove ==
  ASSUME Settlers, Grows(gens, gens'), Decides(gens, gens'), Names(ledger, ledger'),
         hook' \in [Hooks -> HookRun], sent' \in [Steps -> 0..MaxDeliveries],
         \A h \in Hooks : hook'[h] = hook[h] \/ HookGood(gens', ledger', hook'[h]),
         reconciler' = reconciler \/ SweepGood(gens', ledger', reconciler')
  PROVE  Settlers'
<1>1. \A h \in Hooks : HookGood(gens', ledger', hook'[h])
  BY HookStays DEF Settlers
<1>2. SweepGood(gens', ledger', reconciler')
  BY SweepStays DEF Settlers
<1> QED
  BY <1>1, <1>2 DEF Settlers

\* Nothing but a request or the sweep moves.
LEMMA StillCore ==
  ASSUME Core, UNCHANGED vars
  PROVE  Core' /\ Grows(gens, gens') /\ Decides(gens, gens') /\ Names(ledger, ledger')
BY CoreNext, ExecutionStays

LEMMA StillPlatform ==
  ASSUME UNCHANGED gens
  PROVE  Grows(gens, gens') /\ Decides(gens, gens')
BY DEF Grows, Decides

LEMMA StillRows ==
  ASSUME UNCHANGED ledger
  PROVE  Names(ledger, ledger')
BY DEF Names

LEMMA ExecutionKeepsSettlers ==
  ASSUME SettlementInv, ExecutionStep \/ UNCHANGED allVars
  PROVE  SettlementInv'
<1>1. Core /\ Settlers /\ [Next]_vars
  BY DEF SettlementInv, ExecutionStep, allVars
<1>2. IdleHook \in HookRun
  BY IdleIsGood DEF HookGood
<1>3. hook \in [Hooks -> HookRun] /\ sent' = sent
  BY DEF SettlementInv, Settlers, ExecutionStep, allVars, settlementVars
<1>4. /\ hook' \in [Hooks -> HookRun]
      /\ \A h \in Hooks : hook'[h] \in {hook[h], IdleHook}
      /\ reconciler' \in {reconciler, IdleSweep}
  BY <1>2, <1>3 DEF ExecutionStep, allVars, settlementVars
<1>5. Settlers'
  BY <1>1, <1>3, <1>4, IdleIsGood, ExecutionStays, SettlersMove DEF Settlers
<1> QED
  BY <1>1, <1>5, CoreNext DEF SettlementInv

\* What the platform decided may be written into a document.
LEMMA DecidedIsGood ==
  ASSUME PlatformTypeOK, NEW doc \in JobDoc, TrueDoc(gens, doc), Billed(gens, doc),
         NEW s \in Steps, NEW step \in StepDoc,
         step.status = "succeeded" => gens[s].state = "complete",
         step.gen => gens[s].state # "none", TrueCost(gens, step.cost, s)
  PROVE  LET applied == [doc EXCEPT !.step[s] = step] IN
         applied \in JobDoc /\ TrueDoc(gens, applied) /\ Billed(gens, applied)
<1> DEFINE applied == [doc EXCEPT !.step[s] = step]
<1>1. applied \in JobDoc
  BY DEF JobDoc
<1>2. TrueDoc(gens, applied)
  BY RewrittenDocIsTrue DEF TrueStep
<1>3. Billed(gens, applied)
  BY DEF Billed, JobDoc
<1> QED
  BY <1>1, <1>2, <1>3

\* Concluding the job adds nothing.
LEMMA ConcludedIsGood ==
  ASSUME NEW doc \in JobDoc, TrueDoc(gens, doc), Billed(gens, doc)
  PROVE  LET ended == [doc EXCEPT !.status = TerminalStatusOf(doc)] IN
         /\ ended \in JobDoc /\ TrueDoc(gens, ended) /\ Billed(gens, ended)
         /\ ended.step = doc.step
<1> DEFINE status == TerminalStatusOf(doc)
           ended == [doc EXCEPT !.status = status]
<1>1. status \in JobStatus
  BY AggregateEnds DEF TerminalStatusOf, JobStatus
<1> HIDE DEF status
<1>2. ended \in JobDoc /\ ended.step = doc.step
  BY <1>1 DEF JobDoc
<1>3. TrueDoc(gens, ended) /\ Billed(gens, ended)
  BY <1>2, StatusIsTrue DEF Billed
<1> QED
  BY <1>2, <1>3 DEF status

LEMMA HookDocIsGood ==
  ASSUME PlatformTypeOK, NEW doc \in JobDoc, TrueDoc(gens, doc), Billed(gens, doc),
         NEW s \in Steps, Decided(s)
  PROVE  LET d == HookDoc(doc, s, Verdict(s)) IN
         d \in JobDoc /\ TrueDoc(gens, d) /\ Billed(gens, d)
<1> DEFINE v == Verdict(s)
           step == [doc.step[s] EXCEPT !.status = HookStatus(v), !.cost = HookCost(v)]
           applied == [doc EXCEPT !.step[s] = step]
<1>1. doc.step[s] \in StepDoc /\ gens[s] \in Generation /\ v \in Verdicts
  BY VerdictType DEF JobDoc, PlatformTypeOK
<1>2. /\ step \in StepDoc
      /\ step.status = "succeeded" => gens[s].state = "complete"
      /\ step.gen => gens[s].state # "none"
      /\ TrueCost(gens, step.cost, s)
  <2>1. step.status = HookStatus(v) /\ step.cost = HookCost(v) /\ step.gen = doc.step[s].gen
    BY <1>1 DEF StepDoc
  <2>2. HookStatus(v) \in StepStatus /\ HookCost(v) \in Nat
    BY <1>1 DEF HookStatus, HookCost, Verdicts, StepStatus
  <2>3. step \in StepDoc
    BY <1>1, <2>2 DEF StepDoc
  <2>4. HookStatus(v) = "succeeded" => gens[s].state = "complete"
    BY DEF HookStatus, Verdict
  <2>5. gens[s].state # "none"
    BY DEF Decided
  <2>6. HookCost(v) = 0 \/ HookCost(v) = gens[s].bill
    BY DEF HookCost, Verdict, NetCost
  <2> HIDE DEF v, step
  <2> QED
    BY <2>1, <2>3, <2>4, <2>5, <2>6 DEF TrueCost
<1> HIDE DEF step
<1>3. applied \in JobDoc /\ TrueDoc(gens, applied) /\ Billed(gens, applied)
  BY <1>2, DecidedIsGood
<1> HIDE DEF applied
<1>4. HookDoc(doc, s, v) \in {doc, applied, [applied EXCEPT !.status = TerminalStatusOf(applied)]}
  BY DEF HookDoc, applied, step
<1> QED
  BY <1>3, <1>4, ConcludedIsGood

LEMMA HookFacts ==
  ASSUME SettlementInv, NEW h \in Hooks
  PROVE  /\ hook \in [Hooks -> HookRun] /\ hook[h] \in HookRun
         /\ HookGood(gens, ledger, hook[h])
         /\ PlatformTypeOK /\ jobs \in [Jobs -> JobDoc] /\ ledger \in [Steps -> LedgerRow]
BY DEF SettlementInv, Core, Settlers, TypeInv, TypeOK, StoreOK

LEMMA ReceiveHookKeeps ==
  ASSUME SettlementInv, NEW h \in Hooks, NEW s \in Steps, ReceiveHook(h, s)
  PROVE  SettlementInv'
<1>1. Core /\ Settlers
  BY DEF SettlementInv
<1>2. sent' \in [Steps -> 0..MaxDeliveries]
  BY <1>1, SettlementAssumption DEF Settlers, ReceiveHook
<1>3. /\ hook' \in [Hooks -> HookRun]
      /\ \A i \in Hooks : hook'[i] = hook[i] \/ HookGood(gens, ledger, hook'[i])
  <2>1. CASE hook' = hook
    BY <2>1, HookFacts
  <2>2. CASE hook' # hook
    <3> DEFINE j == ledger[s].job
               d == HookDoc(jobs[j], s, Verdict(s))
               r == [pc |-> "save", step |-> s, job |-> j, doc |-> d]
    <3>1. Found(s) /\ Decided(s) /\ hook' = [hook EXCEPT ![h] = r]
      BY <2>2 DEF ReceiveHook
    <3>2. j \in Jobs /\ jobs[j] \in JobDoc /\ TrueDoc(gens, jobs[j]) /\ Billed(gens, jobs[j])
      BY <1>1, <3>1, HookFacts DEF Core, RowStands, Found, LedgerInv
    <3>3. d \in JobDoc /\ TrueDoc(gens, d) /\ Billed(gens, d)
      BY <3>1, <3>2, HookFacts, HookDocIsGood
    <3> HIDE DEF d, j
    <3>4. r \in HookRun /\ HookGood(gens, ledger, r)
      BY <3>1, <3>2, <3>3 DEF HookRun, HookGood, Found, Decided
    <3> HIDE DEF r
    <3> QED
      BY <3>1, <3>4, HookFacts
  <2> QED
    BY <2>1, <2>2
<1>4. UNCHANGED vars /\ UNCHANGED <<gens, ledger, reconciler>>
  BY DEF ReceiveHook, vars, platformVars, storeVars
<1>5. Settlers'
  BY <1>1, <1>2, <1>3, <1>4, StillPlatform, StillRows, SettlersMove
<1> QED
  BY <1>1, <1>4, <1>5, StillCore DEF SettlementInv

LEMMA SaveHookKeeps ==
  ASSUME SettlementInv, NEW h \in Hooks, SaveHook(h)
  PROVE  SettlementInv'
<1> DEFINE r == [hook[h] EXCEPT !.pc = "ledger"]
<1>1. Core /\ Settlers /\ hook[h].pc # "idle"
  BY DEF SettlementInv, SaveHook
<1>2. Core'
  BY <1>1, HookFacts, SaveKeepsCore DEF SaveHook, HookGood, HookRun
<1>3. UNCHANGED <<gens, ledger, sent, reconciler>> /\ hook' = [hook EXCEPT ![h] = r]
  BY DEF SaveHook, platformVars
<1>4. r \in HookRun /\ HookGood(gens, ledger, r)
  BY <1>1, HookFacts DEF HookRun, HookGood
<1> HIDE DEF r
<1>5. /\ hook' \in [Hooks -> HookRun]
      /\ \A i \in Hooks : hook'[i] = hook[i] \/ HookGood(gens, ledger, hook'[i])
  BY <1>3, <1>4, HookFacts
<1>6. Settlers'
  BY <1>1, <1>3, <1>5, StillPlatform, StillRows, SettlersMove DEF Settlers
<1> QED
  BY <1>2, <1>6 DEF SettlementInv

LEMMA SettleHookKeeps ==
  ASSUME SettlementInv, NEW h \in Hooks, SettleHook(h)
  PROVE  SettlementInv'
<1> DEFINE s == hook[h].step
           status == HookStatus(Verdict(s))
           cost == HookCost(Verdict(s))
<1>1. Core /\ Settlers /\ s \in Steps /\ gens[s].state \in {"complete", "error"}
  BY HookFacts DEF SettlementInv, SettleHook, HookGood, HookRun
<1>2. /\ status \in StepStatus /\ cost \in Nat /\ TrueCost(gens, cost, s)
      /\ status = "succeeded" => gens[s].state = "complete"
  <2>1. Verdict(s) \in Verdicts
    BY <1>1, HookFacts, VerdictType
  <2>2. status \in StepStatus /\ cost \in Nat
    BY <2>1 DEF HookStatus, HookCost, Verdicts, StepStatus
  <2>3. status = "succeeded" => gens[s].state = "complete"
    BY DEF HookStatus, Verdict
  <2>4. cost = 0 \/ cost = gens[s].bill
    BY DEF HookCost, Verdict, NetCost
  <2> HIDE DEF status, cost
  <2> QED
    BY <1>1, <2>2, <2>3, <2>4 DEF TrueCost
<1>3. UpdateStep(s, status, TRUE, cost)
  BY DEF SettleHook
<1>4. /\ UNCHANGED <<platformVars, jobs, plan, processVars, run, guard, boundVars>>
      /\ UNCHANGED <<sent, reconciler>> /\ hook' = [hook EXCEPT ![h] = IdleHook]
  BY DEF SettleHook
<1> HIDE DEF status, cost, s
<1>5. Core' /\ Names(ledger, ledger')
  BY <1>1, <1>2, <1>3, <1>4, SettleKeepsCore
<1>6. gens' = gens
  BY <1>4 DEF platformVars
<1>7. /\ hook' \in [Hooks -> HookRun]
      /\ \A i \in Hooks : hook'[i] = hook[i] \/ HookGood(gens', ledger', hook'[i])
  BY <1>4, IdleIsGood, HookFacts DEF HookGood
<1>8. Settlers'
  BY <1>1, <1>4, <1>5, <1>6, <1>7, StillPlatform, SettlersMove DEF Settlers
<1> QED
  BY <1>5, <1>8 DEF SettlementInv

LEMMA SweepFacts ==
  ASSUME SettlementInv
  PROVE  /\ reconciler \in Sweep /\ SweepGood(gens, ledger, reconciler)
         /\ reconciler.step \in Steps /\ reconciler.doc \in JobDoc
         /\ reconciler.doc.step[reconciler.step] \in StepDoc
         /\ PlatformTypeOK /\ jobs \in [Jobs -> JobDoc] /\ ledger \in [Steps -> LedgerRow]
BY DEF SettlementInv, Core, Settlers, TypeInv, TypeOK, StoreOK, SweepGood, Sweep, JobDoc

\* Steps of the sweep that write nothing.
LEMMA SweepingKeeps ==
  ASSUME SettlementInv, UNCHANGED <<vars, hook, sent>>,
         SweepGood(gens, ledger, reconciler')
  PROVE  SettlementInv'
<1>1. Core /\ Settlers /\ UNCHANGED <<gens, ledger, hook, sent>>
  BY DEF SettlementInv, vars, platformVars, storeVars
<1>2. Settlers'
  BY <1>1, StillPlatform, StillRows, SettlersMove DEF Settlers
<1> QED
  BY <1>1, <1>2, StillCore DEF SettlementInv

\* The sweep that goes on with the rest of its rows.
LEMMA RestIsGood ==
  ASSUME NEW g, NEW table, NEW todo \in SUBSET Steps, \A s \in todo : table[s].gen,
         NEW point \in {"idle", "read"}
  PROVE  SweepGood(g, table, [IdleSweep EXCEPT !.todo = todo, !.pc = point])
<1>1. IdleSweep \in Sweep /\ IdleSweep.doc = NoDoc
  BY IdleIsGood DEF SweepGood, IdleSweep
<1> QED
  BY <1>1, NothingIsBilled DEF SweepGood, Sweep

LEMMA NextStaleIsGood ==
  ASSUME NEW g, NEW table, SweepGood(g, table, reconciler)
  PROVE  SweepGood(g, table, NextStale)
<1>1. reconciler.todo \in SUBSET Steps /\ \A s \in reconciler.todo : table[s].gen
  BY DEF SweepGood, Sweep
<1> QED
  BY <1>1, RestIsGood DEF NextStale

LEMMA BeginSweepKeeps ==
  ASSUME SettlementInv, BeginSweep
  PROVE  SettlementInv'
<1> DEFINE stale == {s \in Steps : Stale(s)}
<1>1. stale \in SUBSET Steps /\ \A s \in stale : ledger[s].gen
  BY DEF Stale
<1>2. reconciler' = [IdleSweep EXCEPT !.todo = stale, !.pc = "read"]
  BY DEF BeginSweep, IdleSweep
<1> HIDE DEF stale
<1>3. SweepGood(gens, ledger, reconciler')
  BY <1>1, <1>2, RestIsGood
<1> QED
  BY <1>3, SweepingKeeps DEF BeginSweep

LEMMA ReadStaleKeeps ==
  ASSUME SettlementInv, NEW s \in Steps, ReadStale(s)
  PROVE  SettlementInv'
<1> DEFINE j == ledger[s].job
           rest == reconciler.todo \ {s}
           r == [pc |-> "ask", todo |-> rest, step |-> s, job |-> j, doc |-> jobs[j]]
<1>1. rest \in SUBSET Steps /\ ledger[s].gen /\ \A t \in rest : ledger[t].gen
  BY SweepFacts DEF ReadStale, SweepGood, Sweep
<1>2. j \in Jobs /\ jobs[j] \in JobDoc /\ TrueDoc(gens, jobs[j]) /\ Billed(gens, jobs[j])
  BY <1>1, SweepFacts DEF SettlementInv, Core, RowStands, LedgerInv
<1>3. CASE jobs[j].step[s].gen
  <2>1. reconciler' = r
    BY <1>3 DEF ReadStale
  <2>2. r \in Sweep
    BY <1>1, <1>2 DEF Sweep
  <2>3. SweepGood(gens, ledger, r)
    BY <1>1, <1>2, <1>3, <2>2 DEF SweepGood
  <2> HIDE DEF r
  <2> QED
    BY <2>1, <2>3, SweepingKeeps DEF ReadStale
<1>4. CASE ~jobs[j].step[s].gen
  <2> DEFINE point == IF rest = {} THEN "idle" ELSE "read"
  <2>1. reconciler' = [IdleSweep EXCEPT !.todo = rest, !.pc = point]
    BY <1>4 DEF ReadStale
  <2>2. point \in {"idle", "read"}
    OBVIOUS
  <2> HIDE DEF rest, point
  <2>3. SweepGood(gens, ledger, reconciler')
    BY <1>1, <2>1, <2>2, RestIsGood
  <2> QED
    BY <2>3, SweepingKeeps DEF ReadStale
<1> QED
  BY <1>3, <1>4

\* The verdict of the sweep is the platform's, or a failure at the cost that is known.
LEMMA RewrittenIsGood ==
  ASSUME SettlementInv, Unfound(reconciler.step) \/ Decided(reconciler.step),
         reconciler.doc.step[reconciler.step].gen
  PROVE  LET s == reconciler.step
             d == RewrittenDoc(reconciler.doc, s, FinalVerdict(s)) IN
         /\ d \in JobDoc /\ TrueDoc(gens, d) /\ Billed(gens, d)
         /\ d.step[s] = ApplyOutcome(reconciler.doc.step[s], FinalVerdict(s))
         /\ d.step[s].gen
<1> DEFINE s == reconciler.step
           doc == reconciler.doc
           v == FinalVerdict(s)
           step == ApplyOutcome(doc.step[s], v)
           applied == [doc EXCEPT !.step[s] = step]
<1>1. /\ s \in Steps /\ doc \in JobDoc /\ doc.step[s] \in StepDoc /\ PlatformTypeOK
      /\ TrueDoc(gens, doc) /\ Billed(gens, doc) /\ doc.step[s].gen
  BY SweepFacts DEF SweepGood
<1>2. v \in Verdicts /\ (v.ok => gens[s].state = "complete")
  <2>1. Verdict(s) \in Verdicts /\ (Verdict(s).ok => gens[s].state = "complete")
    BY <1>1, VerdictType DEF Verdict
  <2>2. [ok |-> FALSE, refunded |-> FALSE, cost |-> doc.step[s].cost] \in Verdicts
    BY <1>1 DEF Verdicts, StepDoc
  <2> QED
    BY <2>1, <2>2 DEF FinalVerdict
<1>3. v.cost = doc.step[s].cost \/ v.cost = NetCost(s)
  BY DEF FinalVerdict, Verdict
<1>4. gens[s].state # "none" /\ TrueCost(gens, doc.step[s].cost, s)
  BY <1>1 DEF TrueDoc, TrueStep, Billed
<1>5. TrueCost(gens, v.cost, s)
  BY <1>3, <1>4 DEF NetCost, TrueCost
<1> HIDE DEF v
<1>6. step \in StepDoc
  BY <1>1, <1>2, ApplyOutcomeType
<1>7. /\ step.status = "succeeded" => gens[s].state = "complete"
      /\ step.gen /\ TrueCost(gens, step.cost, s)
  <2>1. /\ step.status = IF v.ok THEN "succeeded" ELSE "failed"
        /\ step.gen = doc.step[s].gen /\ step.cost \in {0, v.cost}
    BY <1>1 DEF ApplyOutcome, StepDoc
  <2> HIDE DEF step
  <2> QED
    BY <1>1, <1>2, <1>5, <2>1 DEF TrueCost
<1> HIDE DEF step
<1>8. applied \in JobDoc /\ TrueDoc(gens, applied) /\ Billed(gens, applied)
  BY <1>1, <1>4, <1>6, <1>7, DecidedIsGood
<1>9. applied.step[s] = step
  BY <1>1 DEF JobDoc
<1> HIDE DEF applied
<1>10. RewrittenDoc(doc, s, v) \in {applied, [applied EXCEPT !.status = TerminalStatusOf(applied)]}
  BY DEF RewrittenDoc, applied, step
<1>11. PICK d : d = RewrittenDoc(doc, s, v)
  OBVIOUS
<1>12. d \in JobDoc /\ TrueDoc(gens, d) /\ Billed(gens, d) /\ d.step[s] = step
  BY <1>8, <1>9, <1>10, <1>11, ConcludedIsGood
<1> QED
  BY <1>7, <1>11, <1>12 DEF step, v

LEMMA AskPlatformKeeps ==
  ASSUME SettlementInv, AskPlatform
  PROVE  SettlementInv'
<1> DEFINE s == reconciler.step
           d == RewrittenDoc(reconciler.doc, s, FinalVerdict(s))
<1>1. SweepGood(gens, ledger, reconciler) /\ reconciler.pc = "ask"
  BY SweepFacts DEF AskPlatform, Sweeping
<1>2. CASE reconciler' = [reconciler EXCEPT !.pc = "save", !.doc = d]
           /\ (Unfound(s) \/ Decided(s))
  <2>1. d \in JobDoc /\ TrueDoc(gens, d) /\ Billed(gens, d) /\ d.step[s].gen
    BY <1>1, <1>2, RewrittenIsGood DEF SweepGood
  <2> HIDE DEF d
  <2>2. reconciler' \in Sweep
    BY <1>1, <1>2, <2>1 DEF SweepGood, Sweep
  <2>3. SweepGood(gens, ledger, reconciler')
    BY <1>1, <1>2, <2>1, <2>2 DEF SweepGood, Sweep
  <2> QED
    BY <2>3, SweepingKeeps DEF AskPlatform
<1>3. CASE reconciler' = NextStale
  BY <1>1, <1>3, NextStaleIsGood, SweepingKeeps DEF AskPlatform
<1> QED
  BY <1>2, <1>3 DEF AskPlatform

LEMMA SaveReconciledKeeps ==
  ASSUME SettlementInv, SaveReconciled
  PROVE  SettlementInv'
<1>1. Core /\ Settlers /\ reconciler.pc = "save" /\ SweepGood(gens, ledger, reconciler)
  BY SweepFacts DEF SettlementInv, SaveReconciled, Sweeping
<1>2. Core'
  BY <1>1, SweepFacts, SaveKeepsCore DEF SaveReconciled, SweepGood
<1>3. UNCHANGED <<gens, ledger, hook, sent>> /\ reconciler' = [reconciler EXCEPT !.pc = "ledger"]
  BY DEF SaveReconciled, platformVars
<1>4. SweepGood(gens, ledger, reconciler')
  BY <1>1, <1>3 DEF SweepGood, Sweep
<1>5. Settlers'
  BY <1>1, <1>3, <1>4, StillPlatform, StillRows, SettlersMove DEF Settlers
<1> QED
  BY <1>2, <1>5 DEF SettlementInv

LEMMA SettleReconciledKeeps ==
  ASSUME SettlementInv, SettleReconciled
  PROVE  SettlementInv'
<1> DEFINE s == reconciler.step
           step == reconciler.doc.step[s]
<1>1. Core /\ Settlers /\ SweepGood(gens, ledger, reconciler)
  BY SweepFacts DEF SettlementInv
<1>2. /\ s \in Steps /\ step \in StepDoc /\ TrueCost(gens, step.cost, s)
      /\ step.status = "succeeded" /\ Billable(s) => gens[s].state = "complete"
      /\ step.gen => gens[s].state # "none"
  BY <1>1, SweepFacts DEF SweepGood, TrueDoc, TrueStep, Billed
<1>3. UpdateStep(s, step.status, step.gen, step.cost)
  BY DEF SettleReconciled
<1>4. /\ UNCHANGED <<platformVars, jobs, plan, processVars, run, guard, boundVars>>
      /\ UNCHANGED <<hook, sent>> /\ reconciler' = NextStale
  BY DEF SettleReconciled
<1> HIDE DEF step, s
<1>5. step.status \in StepStatus /\ step.gen \in BOOLEAN /\ step.cost \in Nat
  BY <1>2 DEF StepDoc
<1>6. Core' /\ Names(ledger, ledger')
  BY <1>1, <1>2, <1>3, <1>4, <1>5, SettleKeepsCore
<1>7. gens' = gens
  BY <1>4 DEF platformVars
<1>8. SweepGood(gens', ledger', reconciler')
  <2>1. SweepGood(gens', ledger', reconciler)
    BY <1>1, <1>6, <1>7, StillPlatform, SweepStays
  <2> QED
    BY <1>4, <2>1, NextStaleIsGood
<1>9. Settlers'
  BY <1>1, <1>4, <1>6, <1>7, <1>8, StillPlatform, SettlersMove DEF Settlers
<1> QED
  BY <1>6, <1>9 DEF SettlementInv

LEMMA SettlementNextKeeps == SettlementInv /\ [SettlementNext]_allVars => SettlementInv'
<1> SUFFICES ASSUME SettlementInv, [SettlementNext]_allVars PROVE SettlementInv'
  OBVIOUS
<1>1. ASSUME NEW h \in Hooks, HookStep(h) PROVE SettlementInv'
  BY <1>1, SaveHookKeeps, SettleHookKeeps DEF HookStep
<1>2. CASE ReconcilerStep
  BY <1>2, BeginSweepKeeps, ReadStaleKeeps, AskPlatformKeeps, SaveReconciledKeeps,
    SettleReconciledKeeps DEF ReconcilerStep
<1> QED
  BY <1>1, <1>2, ExecutionKeepsSettlers, ReceiveHookKeeps DEF SettlementNext

LEMMA SettlementInvariance == SettlementSpec => []SettlementInv
<1>1. SettlementInit => SettlementInv
  <2> SUFFICES ASSUME SettlementInit PROVE SettlementInv
    OBVIOUS
  <2>1. TypeInv /\ GuardOK /\ LedgerInv
    BY InitType, GuardInit, LedgerInit DEF SettlementInit
  <2>2. \A s \in Steps : RowStands(ledger[s])
    BY DEF SettlementInit, Init, NoRow, RowStands
  <2>3. /\ \A j \in Jobs : Billed(gens, jobs[j])
        /\ \A p \in Procs : Billed(gens, run[p].doc)
    BY NothingIsBilled DEF SettlementInit, Init, IdleRun
  <2>4. Settlers
    BY IdleIsGood, SettlementAssumption DEF SettlementInit, Settlers, HookGood
  <2> QED
    BY <2>1, <2>2, <2>3, <2>4 DEF SettlementInv, Core
<1> QED
  BY <1>1, SettlementNextKeeps, PTL DEF SettlementSpec

-----------------------------------------------------------------------------
(* The theorems.                                                           *)

\* Requests and the sweep hold documents and steps the code can hold, whatever is
\* decided, repeated or killed while they wait.
THEOREM SettlementTypeCorrect == SettlementSpec => []SettlementTypeOK
<1>1. SettlementInv => SettlementTypeOK
  BY DEF SettlementInv, Core, Settlers, SweepGood, TypeInv, SettlementTypeOK
<1> QED
  BY <1>1, SettlementInvariance, PTL

\* Three writers that overwrite each other's documents still report no success the
\* platform has not had (webhooks.py, reconciler.py, executor.py).
THEOREM SettledSuccessIsReal == SettlementSpec => []SucceededIsComplete
<1>1. SettlementInv => SucceededIsComplete
  BY DEF SettlementInv, Core, LedgerInv, TrueRow, TrueDoc, TrueStep, SucceededIsComplete
<1> QED
  BY <1>1, SettlementInvariance, PTL

\* Nor does any of them leave a cost in the ledger that was not billed.
THEOREM SettledCostsAreReal == SettlementSpec => []LedgerCostIsBilled
<1>1. SettlementInv => LedgerCostIsBilled
  BY DEF SettlementInv, Core, LedgerInv, TrueRow, TrueStep, TrueCost, LedgerCostIsBilled, Launched
<1> QED
  BY <1>1, SettlementInvariance, PTL

-----------------------------------------------------------------------------
(* A success in the ledger stays one.  A run writes over a row when it has *)
(* launched the step, and then the row had no generation yet; or when it   *)
(* has its verdict, which is the platform's; and so do the others.         *)

\* No two processes run jobs at the same time.
SoleRunner == \A p, q \in Procs : Owns(p) /\ Owns(q) => p = q

\* A text has no generation to be recognised by, and a voiceover may be looked for
\* where it is not found.
PlainKinds == \A s \in Steps : Kind[s] \in {"local", "media"}

RowsKeep ==
  \A s \in Steps :
    /\ ledger[s].status # "absent" => Billable(s)
    /\ ledger[s].status = "succeeded" => ledger[s].gen

\* The step of a run is launched only while its row names no generation, and ends
\* with the verdict.
RunKeeps(p) ==
  /\ run[p].pc \in StepPoints => Billable(run[p].cur)
  /\ run[p].pc \in {"send", "sent", "record"} => ~ledger[run[p].cur].gen
  /\ run[p].pc \in {"record", "poll", "settle"} => Step(p).gen
  /\ run[p].pc = "settle" => Decided(run[p].cur)
  /\ run[p].pc = "settle" /\ gens[run[p].cur].state = "complete" =>
       Step(p).status = "succeeded"

\* So does the step of the sweep.
SweepKeeps ==
  reconciler.pc \in {"save", "ledger"} =>
    /\ Decided(reconciler.step)
    /\ gens[reconciler.step].state = "complete" =>
         reconciler.doc.step[reconciler.step].status = "succeeded"

SuccessInv == RowsKeep /\ SweepKeeps /\ \A p \in Procs : RunKeeps(p)

\* What the property says of a step.
Keeps ==
  \A s \in Steps : ledger[s].status = "succeeded" =>
    \/ ledger'[s].status = "succeeded"
    \/ \E p \in Procs : run[p].pc = "fail" /\ run[p].cur = s

\* Whoever writes a verdict into a row keeps the success that is there.
LEMMA UpdateKeepsSuccess ==
  ASSUME Core, RowsKeep, NEW s \in Steps, NEW status \in StepStatus, NEW gen \in BOOLEAN,
         NEW cost, UpdateStep(s, status, gen, cost),
         status = "succeeded" => ledger[s].gen \/ gen
  PROVE  /\ RowsKeep'
         /\ \A t \in Steps \ {s} : ledger'[t] = ledger[t]
         /\ ledger'[s].status \in {ledger[s].status, status}
         /\ ledger'[s].gen => ledger[s].gen \/ gen
         /\ (gens[s].state = "complete" => status = "succeeded") => Keeps
<1>1. ledger \in [Steps -> LedgerRow]
  BY DEF Core, TypeInv, TypeOK, StoreOK
<1>2. CASE ledger[s].status = "absent"
  BY <1>2 DEF UpdateStep, RowsKeep, Keeps
<1>3. CASE ledger[s].status # "absent"
  <2>1. /\ \A t \in Steps \ {s} : ledger'[t] = ledger[t]
        /\ ledger'[s].status = status /\ ledger'[s].gen = (ledger[s].gen \/ gen)
    BY <1>1, <1>3 DEF UpdateStep, LedgerRow
  <2>2. RowsKeep'
    BY <1>3, <2>1 DEF RowsKeep
  <2>3. ledger[s].status = "succeeded" => gens[s].state = "complete"
    BY DEF Core, LedgerInv, TrueRow, TrueStep, RowsKeep
  <2>4. (gens[s].state = "complete" => status = "succeeded") => Keeps
    BY <2>1, <2>3 DEF Keeps
  <2> QED
    BY <2>1, <2>2, <2>4
<1> QED
  BY <1>2, <1>3

LEMMA SameRowsKeep ==
  ASSUME RowsKeep, ledger' = ledger
  PROVE  RowsKeep' /\ Keeps
BY DEF RowsKeep, Keeps

LEMMA WalkKeepsSuccess ==
  ASSUME Core, SuccessInv, NEW p \in Procs, Walk(p)
  PROVE  RowsKeep' /\ Keeps
<1>1. RowsKeep /\ RunKeeps(p) /\ TypeInv
  BY DEF SuccessInv, Core
<1>2. CASE RecordCharge(p)
  <2>1. run[p].pc = "record" /\ run[p].cur \in Steps /\ Step(p).gen \in BOOLEAN
    BY <1>1, <1>2, StepPoint DEF RecordCharge, At, StepPoints, StepDoc
  <2>2. UpdateStep(run[p].cur, "running", Step(p).gen, Step(p).cost)
    BY <1>2 DEF RecordCharge
  <2>3. RowsKeep' /\ \A t \in Steps \ {run[p].cur} : ledger'[t] = ledger[t]
    BY <1>1, <2>1, <2>2, UpdateKeepsSuccess DEF StepStatus
  <2>4. ledger[run[p].cur].status # "succeeded"
    BY <1>1, <2>1 DEF RunKeeps, RowsKeep
  <2> QED
    BY <2>3, <2>4 DEF Keeps
<1>3. CASE Settle(p)
  <2>1. run[p].pc = "settle" /\ run[p].cur \in Steps /\ Step(p) \in StepDoc
    BY <1>1, <1>3, StepPoint DEF Settle, At, StepPoints
  <2>2. Step(p).status \in StepStatus /\ Step(p).gen \in BOOLEAN
    BY <2>1 DEF StepDoc
  <2>3. UpdateStep(run[p].cur, Step(p).status, Step(p).gen, Step(p).cost)
    BY <1>3 DEF Settle
  <2> QED
    BY <1>1, <2>1, <2>2, <2>3, UpdateKeepsSuccess DEF RunKeeps
<1>4. CASE RecordFailure(p)
  <2>1. run[p].pc = "fail" /\ run[p].cur \in Steps
    BY <1>1, <1>4, StepPoint DEF RecordFailure, At, StepPoints
  <2>2. UpdateStep(run[p].cur, "failed", FALSE, NoCost)
    BY <1>4 DEF RecordFailure
  <2>3. RowsKeep' /\ \A t \in Steps \ {run[p].cur} : ledger'[t] = ledger[t]
    BY <1>1, <2>1, <2>2, UpdateKeepsSuccess DEF StepStatus
  <2> QED
    BY <2>1, <2>3 DEF Keeps
<1>5. CASE InsertClaim(p)
  <2>1. run[p].pc = "insert" /\ run[p].cur \in Steps /\ Billable(run[p].cur)
    BY <1>1, <1>5, StepPoint DEF InsertClaim, At, StepPoints, RunKeeps
  <2>2. ledger \in [Steps -> LedgerRow]
    BY <1>1 DEF TypeInv, TypeOK, StoreOK
  <2>3. CASE ledger[run[p].cur].status # "absent"
    BY <1>1, <1>5, <2>3, SameRowsKeep DEF InsertClaim
  <2>4. CASE ledger[run[p].cur].status = "absent"
    <3>1. ledger' = [ledger EXCEPT ![run[p].cur] = [status |-> "pending", gen |-> FALSE,
                                                    cost |-> 0, job |-> run[p].job]]
      BY <1>5, <2>4 DEF InsertClaim
    <3> QED
      BY <1>1, <2>1, <2>2, <2>4, <3>1 DEF RowsKeep, Keeps
  <2> QED
    BY <2>3, <2>4
<1>6. CASE ledger' = ledger
  BY <1>1, <1>6, SameRowsKeep
<1>7. RecordCharge(p) \/ Settle(p) \/ RecordFailure(p) \/ InsertClaim(p) \/ ledger' = ledger
  BY DEF Walk, PassStep, BeginStep, SaveStep, FinishRun, ReadClaim, BreakRun, SendGenerate,
    ReceiveReply, Poll, storeVars
<1> QED
  BY <1>2, <1>3, <1>4, <1>5, <1>6, <1>7

\* A step that is entered is billable, and one that is sent has a row without a
\* generation.
LEMMA EnteredIsBillable ==
  ASSUME TypeInv, NEW p \in Procs, Walk(p), run[p].pc = "next", run'[p].pc = "claim_step"
  PROVE  Billable(run[p].cur)
<1>1. run \in [Procs -> Run]
  BY DEF TypeInv, TypeOK, ProcessOK
<1>2. PassStep(p) \/ BeginStep(p) \/ FinishRun(p)
  BY DEF Walk, SaveStep, ReadClaim, InsertClaim, BreakRun, SendGenerate, ReceiveReply,
    RecordCharge, Poll, Settle, RecordFailure, At
<1>3. ~PassStep(p)
  BY <1>1 DEF PassStep, Run
<1>4. ~FinishRun(p)
  BY <1>1, LeftHasNoDoc DEF FinishRun, Leave
<1>5. CASE BeginStep(p)
  BY <1>1, <1>5 DEF BeginStep, Leaving, Run
<1> QED
  BY <1>2, <1>3, <1>4, <1>5

LEMMA SentIsUnnamed ==
  ASSUME TypeInv, NEW p \in Procs, Walk(p), run[p].pc = "claim_step", run'[p].pc = "send"
  PROVE  ~ledger[run[p].cur].gen
<1>1. run \in [Procs -> Run]
  BY DEF TypeInv, TypeOK, ProcessOK
<1>2. ReadClaim(p)
  BY DEF Walk, PassStep, BeginStep, SaveStep, FinishRun, InsertClaim, BreakRun, SendGenerate,
    ReceiveReply, RecordCharge, Poll, Settle, RecordFailure, At
<1>3. ~Goto(p, "insert")
  BY <1>1 DEF Goto, Run
<1>4. ~Leaving(p, [Step(p) EXCEPT !.gen = TRUE], "poll")
  BY <1>1 DEF Leaving, Run
<1> QED
  BY <1>2, <1>3, <1>4 DEF ReadClaim, AlreadyLaunched

\* A step is only settled with its verdict.
LEMMA PolledIsVerdict ==
  ASSUME TypeInv, NEW p \in Procs, Walk(p), run[p].pc = "poll", run'[p].pc = "settle"
  PROVE  gens[run[p].cur].state = "complete" => After(p).status = "succeeded"
<1> DEFINE final == ApplyOutcome(Step(p), Verdict(run[p].cur))
           lost == [Step(p) EXCEPT !.status = "failed"]
<1>1. /\ run \in [Procs -> Run] /\ run[p].doc \in JobDoc
      /\ run[p].cur \in Steps /\ Step(p) \in StepDoc
  BY StepPoint DEF TypeInv, TypeOK, ProcessOK, StepPoints, Run
<1>2. Poll(p)
  BY DEF Walk, PassStep, BeginStep, SaveStep, FinishRun, ReadClaim, InsertClaim, BreakRun,
    SendGenerate, ReceiveReply, RecordCharge, Settle, RecordFailure, At
<1>3. ~Leaving(p, lost, "save") /\ ~FailStep(p, FALSE)
  BY <1>1 DEF Leaving, FailStep, Run
<1>4. Leaving(p, final, "settle")
  BY <1>2, <1>3 DEF Poll
<1>5. final.status = IF gens[run[p].cur].state = "complete" THEN "succeeded" ELSE "failed"
  BY <1>1 DEF ApplyOutcome, Verdict, StepDoc
<1> HIDE DEF final, lost
<1>6. After(p) = final
  BY <1>1, <1>4 DEF Leaving, After, Run, JobDoc
<1> QED
  BY <1>5, <1>6

\* And a generation that was charged is waited for.
LEMMA ChargedIsPolled ==
  ASSUME TypeInv, NEW p \in Procs, Walk(p), run[p].pc = "record", Step(p).gen
  PROVE  run'[p].pc # "settle"
<1>1. run \in [Procs -> Run]
  BY DEF TypeInv, TypeOK, ProcessOK
<1>2. RecordCharge(p)
  BY DEF Walk, PassStep, BeginStep, SaveStep, FinishRun, ReadClaim, InsertClaim, BreakRun,
    SendGenerate, ReceiveReply, Poll, Settle, RecordFailure, At
<1>3. SkipStep(p, Step(p)) \/ Goto(p, "poll")
  BY <1>2 DEF RecordCharge
<1> QED
  BY <1>1, <1>3 DEF SkipStep, Goto, Run

\* What a move has to show for its run.
LEMMA MoveKeepsRun ==
  ASSUME PlainKinds, Core, SuccessInv, NEW p \in Procs, Walk(p), OneMoves(p), Moves(p)
  PROVE  RunKeeps(p)'
<1> DEFINE cur == run[p].cur
<1>1. RunKeeps(p) /\ TypeInv /\ cur \in Steps
  BY DEF SuccessInv, Core, OneMoves
<1>2. ASSUME run'[p].pc \notin StepPoints PROVE RunKeeps(p)'
  BY <1>2 DEF RunKeeps, StepPoints
<1>3. run[p].pc \in StepPoints => Billable(cur)
  BY <1>1 DEF RunKeeps
<1>4. ASSUME Stays(p), Billable(cur), run'[p].pc \in {"claim_step", "insert", "broken", "fail"}
      PROVE  RunKeeps(p)'
  BY <1>4 DEF Stays, RunKeeps, Billable
<1>5. CASE Passes(p) \/ Produces(p)
  BY <1>2, <1>5 DEF Passes, Produces, StepPoints
<1>6. CASE Enters(p)
  <2>1. CASE run'[p].pc # "send"
    <3>1. Billable(cur)
      BY <1>1, <1>3, <1>6, <2>1, EnteredIsBillable DEF Enters, StepPoints
    <3> QED
      BY <1>4, <1>6, <2>1, <3>1 DEF Enters
  <2>2. CASE run'[p].pc = "send"
    <3>1. run[p].pc = "claim_step" /\ ledger' = ledger /\ Stays(p)
      BY <1>6, <2>2 DEF Enters
    <3>2. ~ledger[cur].gen /\ Billable(cur)
      BY <1>1, <1>3, <2>2, <3>1, SentIsUnnamed DEF StepPoints
    <3> QED
      BY <2>2, <3>1, <3>2 DEF Stays, RunKeeps, Billable
  <2> QED
    BY <2>1, <2>2
<1>7. CASE Sends(p)
  BY <1>1, <1>3, <1>7 DEF Sends, Stays, RunKeeps, StepPoints, Billable
<1>8. CASE Receives(p)
  <2>1. Kind[cur] # "text"
    BY <1>1 DEF PlainKinds
  <2> QED
    BY <1>1, <1>3, <1>8, <2>1 DEF Receives, Stays, RunKeeps, StepPoints, Billable, After, Step
<1>9. CASE Resumes(p)
  BY <1>1, <1>3, <1>9 DEF Resumes, Stays, RunKeeps, StepPoints, Billable, After, Step
<1>10. CASE Quits(p)
  <2>1. run'[p].pc = "save" \/ (run'[p].pc = "fail" /\ run[p].pc \in StepPoints)
    BY <1>10 DEF Quits, StepPoints
  <2> QED
    BY <1>2, <1>3, <1>4, <1>10, <2>1 DEF Quits, StepPoints
<1>11. CASE Commits(p)
  <2>1. run[p].pc = "record" /\ Step(p).gen
    BY <1>1, <1>11 DEF Commits, RunKeeps
  <2>2. run'[p].pc \in {"save", "poll"}
    BY <1>1, <1>11, <2>1, ChargedIsPolled DEF Commits
  <2>3. CASE run'[p].pc = "save"
    BY <1>2, <2>3 DEF StepPoints
  <2>4. CASE run'[p].pc = "poll"
    BY <1>3, <1>11, <2>1, <2>4 DEF Commits, Stays, RunKeeps, StepPoints, Billable, After, Step
  <2> QED
    BY <2>2, <2>3, <2>4
<1>12. CASE Recounts(p)
  <2>1. /\ run[p].pc = "poll" /\ run'[p].pc = "settle" /\ Decided(cur) /\ Stays(p)
        /\ gens' = gens /\ After(p).gen = Step(p).gen
    BY <1>12 DEF Recounts
  <2>2. gens[cur].state = "complete" => After(p).status = "succeeded"
    BY <1>1, <2>1, PolledIsVerdict
  <2>3. Step(p).gen /\ Billable(cur)
    BY <1>1, <1>3, <2>1 DEF RunKeeps, StepPoints
  <2> QED
    BY <2>1, <2>2, <2>3 DEF Stays, RunKeeps, Billable, After, Step, Decided
<1> QED
  BY <1>5, <1>6, <1>7, <1>8, <1>9, <1>10, <1>11, <1>12 DEF Moves

\* What the sweep has found out stays so.
LEMMA SweepKept ==
  ASSUME SettlementInv, SweepKeeps, Decides(gens, gens'), reconciler' \in {reconciler, IdleSweep}
  PROVE  SweepKeeps'
<1>1. reconciler.step \in Steps
  BY SweepFacts
<1> QED
  BY <1>1 DEF SweepKeeps, Decides, Decided, IdleSweep

\* A run that has not moved, while the rows do not get generations.
LEMMA RunKept ==
  ASSUME TypeInv, NEW p \in Procs, RunKeeps(p), run'[p] = run[p], Decides(gens, gens'),
         \A s \in Steps : ledger'[s].gen => ledger[s].gen
  PROVE  RunKeeps(p)'
<1>1. run[p].pc \in StepPoints => run[p].cur \in Steps
  BY DEF TypeInv, Positioned
<1> QED
  BY <1>1 DEF RunKeeps, Decides, Decided, Step, Billable, StepPoints

LEMMA UnsteppedKeeps ==
  ASSUME NEW p \in Procs, run'[p].pc \notin StepPoints
  PROVE  RunKeeps(p)'
BY DEF RunKeeps, StepPoints

LEMMA ExecutionKeepsSuccess ==
  ASSUME PlainKinds, SettlementInv, SuccessInv, SoleRunner, [Next]_vars
  PROVE  RowsKeep' /\ Keeps /\ \A p \in Procs : RunKeeps(p)'
<1>1. /\ Core /\ TypeInv /\ GuardOK /\ RowsKeep /\ Decides(gens, gens')
      /\ \A p \in Procs : RunKeeps(p)
  BY ExecutionStays DEF SettlementInv, Core, SuccessInv
<1>2. CASE CalmStep
  <2>1. ledger' = ledger
    BY <1>2 DEF CalmStep
  <2>2. ASSUME NEW q \in Procs PROVE RunKeeps(q)'
    <3>1. CASE run'[q] = run[q]
      BY <1>1, <2>1, <3>1, RunKept
    <3>2. CASE Rests(q) \/ Prepares(q)
      BY <3>2, UnsteppedKeeps DEF Rests, Prepares, BookedPoints, OwningPoints, LaunchPoints,
        StepPoints
    <3> QED
      BY <1>2, <3>1, <3>2 DEF CalmStep, Calm
  <2> QED
    BY <1>1, <2>1, <2>2, SameRowsKeep
<1>3. ASSUME NEW p \in Procs, Load(p)
      PROVE  RowsKeep' /\ Keeps /\ \A q \in Procs : RunKeeps(q)'
  <2>1. /\ ledger' = ledger /\ run'[p].pc \in {"plan", "recheck"}
        /\ \A q \in Procs \ {p} : run'[q] = run[q]
    BY <1>1, <1>3 DEF Load, TypeInv, TypeOK, ProcessOK, Run, storeVars
  <2>2. ASSUME NEW q \in Procs PROVE RunKeeps(q)'
    BY <1>1, <2>1, RunKept, UnsteppedKeeps DEF StepPoints
  <2> QED
    BY <1>1, <2>1, <2>2, SameRowsKeep
<1>4. ASSUME NEW p \in Procs, Walk(p), OneMoves(p), Moves(p)
      PROVE  RowsKeep' /\ Keeps /\ \A q \in Procs : RunKeeps(q)'
  <2>1. Owns(p)
    BY <1>4 DEF Moves, Passes, Enters, Produces, Resumes, Quits, Sends, Receives, Commits,
      Recounts, Owns, OwningPoints, StepPoints
  <2>2. ASSUME NEW q \in Procs, q # p PROVE RunKeeps(q)'
    <3>1. run'[q] = run[q] /\ ~Owns(q)
      BY <1>4, <2>1, <2>2 DEF OneMoves, SoleRunner
    <3> QED
      BY <3>1, UnsteppedKeeps DEF Owns, OwningPoints
  <2> QED
    BY <1>1, <1>4, <2>2, MoveKeepsRun, WalkKeepsSuccess
<1> QED
  BY <1>1, <1>2, <1>3, <1>4, CalmOrMoney

\* Requests and the sweep name no generation the rows do not know.
LEMMA OutsideKeepsSuccess ==
  ASSUME SettlementInv, SuccessInv, UNCHANGED <<run, gens>>, SweepKeeps',
         \/ ledger' = ledger
         \/ \E s \in Steps, status \in StepStatus, gen \in BOOLEAN : \E cost :
              /\ UpdateStep(s, status, gen, cost) /\ ledger[s].gen
              /\ gens[s].state = "complete" => status = "succeeded"
  PROVE  SuccessInv' /\ Keeps
<1>1. Core /\ RowsKeep /\ TypeInv /\ Decides(gens, gens')
  BY StillPlatform DEF SettlementInv, SuccessInv, Core
<1>2. RowsKeep' /\ Keeps /\ \A s \in Steps : ledger'[s].gen => ledger[s].gen
  <2>1. CASE ledger' = ledger
    BY <1>1, <2>1, SameRowsKeep
  <2>2. ASSUME NEW s \in Steps, NEW status \in StepStatus, NEW gen \in BOOLEAN, NEW cost,
               UpdateStep(s, status, gen, cost), ledger[s].gen,
               gens[s].state = "complete" => status = "succeeded"
        PROVE  RowsKeep' /\ Keeps /\ \A t \in Steps : ledger'[t].gen => ledger[t].gen
    BY <1>1, <2>2, UpdateKeepsSuccess
  <2> QED
    BY <2>1, <2>2
<1>3. \A p \in Procs : RunKeeps(p)'
  BY <1>1, <1>2, RunKept DEF SuccessInv
<1> QED
  BY <1>2, <1>3 DEF SuccessInv

LEMMA HookKeepsSuccess ==
  ASSUME SettlementInv, SuccessInv, NEW h \in Hooks, HookStep(h)
  PROVE  SuccessInv' /\ Keeps
<1>1. UNCHANGED <<run, gens, reconciler>>
  BY DEF HookStep, SaveHook, SettleHook, platformVars
<1>2. SweepKeeps'
  BY <1>1, SweepKept, StillPlatform DEF SuccessInv
<1>3. CASE SaveHook(h)
  BY <1>1, <1>2, <1>3, OutsideKeepsSuccess DEF SaveHook
<1>4. CASE SettleHook(h)
  <2> DEFINE s == hook[h].step
             status == HookStatus(Verdict(s))
  <2>1. s \in Steps /\ ledger[s].gen
    BY <1>4, HookFacts DEF SettleHook, HookGood, HookRun
  <2>2. status \in StepStatus /\ (gens[s].state = "complete" => status = "succeeded")
    BY DEF HookStatus, Verdict, StepStatus
  <2>3. UpdateStep(s, status, TRUE, HookCost(Verdict(s)))
    BY <1>4 DEF SettleHook
  <2> HIDE DEF status, s
  <2> QED
    BY <1>1, <1>2, <2>1, <2>2, <2>3, OutsideKeepsSuccess
<1> QED
  BY <1>3, <1>4 DEF HookStep

LEMMA SweepKeepsSuccess ==
  ASSUME PlainKinds, SettlementInv, SuccessInv, ReconcilerStep
  PROVE  SuccessInv' /\ Keeps
<1>1. SweepGood(gens, ledger, reconciler) /\ reconciler.step \in Steps
  BY SweepFacts
<1>2. UNCHANGED <<run, gens>>
  BY DEF ReconcilerStep, BeginSweep, ReadStale, AskPlatform, SaveReconciled, SettleReconciled,
    vars, platformVars
<1>3. ASSUME reconciler'.pc \notin {"save", "ledger"} PROVE SweepKeeps'
  BY <1>3 DEF SweepKeeps
<1>4. NextStale.pc \in {"idle", "read"}
  BY DEF NextStale, IdleSweep
<1>5. CASE BeginSweep
  <2>1. reconciler'.pc = "read" /\ ledger' = ledger
    BY <1>5 DEF BeginSweep, IdleSweep, vars, storeVars
  <2> QED
    BY <1>2, <1>3, <2>1, OutsideKeepsSuccess
<1>6. ASSUME NEW s \in Steps, ReadStale(s) PROVE SuccessInv' /\ Keeps
  <2> DEFINE rest == reconciler.todo \ {s}
  <2>1. ledger' = ledger
    BY <1>6 DEF ReadStale, vars, storeVars
  <2>2. \/ reconciler' = [pc |-> "ask", todo |-> rest, step |-> s, job |-> ledger[s].job,
                          doc |-> jobs[ledger[s].job]]
        \/ reconciler' = [IdleSweep EXCEPT !.todo = rest,
                            !.pc = IF rest = {} THEN "idle" ELSE "read"]
    BY <1>6 DEF ReadStale
  <2> HIDE DEF rest
  <2>3. reconciler'.pc \in {"ask", "idle", "read"}
    <3> DEFINE last == IF rest = {} THEN "idle" ELSE "read"
               next == [IdleSweep EXCEPT !.todo = rest, !.pc = last]
    <3>1. last \in {"idle", "read"}
      OBVIOUS
    <3> HIDE DEF last
    <3>2. next.pc = last
      BY DEF IdleSweep
    <3>3. \/ reconciler' = [pc |-> "ask", todo |-> rest, step |-> s, job |-> ledger[s].job,
                            doc |-> jobs[ledger[s].job]]
          \/ reconciler' = next
      BY <2>2 DEF last
    <3> HIDE DEF next
    <3> QED
      BY <3>1, <3>2, <3>3
  <2> QED
    BY <1>2, <1>3, <2>1, <2>3, OutsideKeepsSuccess
<1>7. CASE AskPlatform
  <2> DEFINE s == reconciler.step
             d == RewrittenDoc(reconciler.doc, s, FinalVerdict(s))
  <2>1. ~Unfound(s)
    BY <1>1 DEF Unfound, PlainKinds
  <2>2. ledger' = ledger
    BY <1>7 DEF AskPlatform, vars, storeVars
  <2>3. CASE reconciler' = NextStale
    BY <1>2, <1>3, <1>4, <2>2, <2>3, OutsideKeepsSuccess
  <2>4. CASE Decided(s) /\ reconciler' = [reconciler EXCEPT !.pc = "save", !.doc = d]
    <3>1. d.step[s] = ApplyOutcome(reconciler.doc.step[s], Verdict(s))
      BY <1>1, <1>7, <2>1, <2>4, RewrittenIsGood
        DEF AskPlatform, Sweeping, SweepGood, FinalVerdict
    <3>2. gens[s].state = "complete" => d.step[s].status = "succeeded"
      BY <3>1, SweepFacts DEF ApplyOutcome, Verdict, StepDoc
    <3> HIDE DEF d
    <3>3. reconciler'.doc = d /\ reconciler'.step = s
      BY <1>1, <2>4 DEF SweepGood, Sweep
    <3>4. SweepKeeps'
      BY <1>2, <2>4, <3>2, <3>3 DEF SweepKeeps, Decided
    <3> QED
      BY <1>2, <2>2, <3>4, OutsideKeepsSuccess
  <2> QED
    BY <1>7, <2>1, <2>3, <2>4 DEF AskPlatform
<1>8. CASE SaveReconciled
  <2>1. reconciler' = [reconciler EXCEPT !.pc = "ledger"] /\ reconciler.pc = "save"
    BY <1>8 DEF SaveReconciled, Sweeping
  <2>2. reconciler'.doc = reconciler.doc /\ reconciler'.step = reconciler.step
    BY <1>1, <2>1 DEF SweepGood, Sweep
  <2>3. SweepKeeps'
    BY <1>2, <2>1, <2>2 DEF SuccessInv, SweepKeeps, Decided
  <2> QED
    BY <1>2, <1>8, <2>3, OutsideKeepsSuccess DEF SaveReconciled
<1>9. CASE SettleReconciled
  <2> DEFINE s == reconciler.step
             step == reconciler.doc.step[s]
  <2>1. /\ UpdateStep(s, step.status, step.gen, step.cost) /\ reconciler' = NextStale
        /\ reconciler.pc = "ledger"
    BY <1>9 DEF SettleReconciled, Sweeping
  <2>2. ledger[s].gen /\ step \in StepDoc
    BY <1>1, <2>1, SweepFacts DEF SweepGood
  <2>3. gens[s].state = "complete" => step.status = "succeeded"
    BY <2>1 DEF SuccessInv, SweepKeeps
  <2>4. SweepKeeps'
    BY <1>3, <1>4, <2>1
  <2>5. step.status \in StepStatus /\ step.gen \in BOOLEAN
    BY <2>2 DEF StepDoc
  <2> HIDE DEF step, s
  <2>6. s \in Steps
    BY <1>1 DEF s
  <2> QED
    BY <1>2, <2>1, <2>2, <2>3, <2>4, <2>5, <2>6, OutsideKeepsSuccess
<1> QED
  BY <1>5, <1>7, <1>8, <1>9, <1>6 DEF ReconcilerStep

LEMMA SuccessNext ==
  ASSUME PlainKinds
  PROVE  SettlementInv /\ SuccessInv /\ SoleRunner /\ [SettlementNext]_allVars
           => SuccessInv' /\ Keeps
<1> SUFFICES ASSUME SettlementInv, SuccessInv, SoleRunner, [SettlementNext]_allVars
             PROVE  SuccessInv' /\ Keeps
  OBVIOUS
<1>1. CASE ExecutionStep \/ UNCHANGED allVars
  <2>1. [Next]_vars /\ reconciler' \in {reconciler, IdleSweep}
    BY <1>1 DEF ExecutionStep, allVars, settlementVars
  <2>2. SweepKeeps'
    BY <2>1, ExecutionStays, SweepKept DEF SuccessInv, SettlementInv
  <2> QED
    BY <2>1, <2>2, ExecutionKeepsSuccess DEF SuccessInv
<1>2. ASSUME NEW h \in Hooks, NEW s \in Steps, ReceiveHook(h, s) PROVE SuccessInv' /\ Keeps
  <2>1. UNCHANGED <<run, gens, ledger, reconciler>>
    BY <1>2 DEF ReceiveHook, vars, platformVars, storeVars
  <2> QED
    BY <2>1, SweepKept, StillPlatform, OutsideKeepsSuccess DEF SuccessInv
<1> QED
  BY <1>1, <1>2, HookKeepsSuccess, SweepKeepsSuccess DEF SettlementNext

\* With generations that are found where they are looked for, and one run at a time,
\* a success in the ledger outlives repeated callbacks, the sweep, stops, kills and
\* resumed jobs (webhooks.py, reconciler.py, repositories/jobs.py update_step).
THEOREM SuccessIsKept ==
  ASSUME PlainKinds
  PROVE  SettlementSpec /\ []SoleRunner => LedgerKeepsSuccess
<1>1. SettlementInit => SuccessInv
  BY DEF SettlementInit, Init, NoRow, IdleRun, IdleSweep, SuccessInv, RowsKeep, SweepKeeps,
    RunKeeps, StepPoints
<1>2. SettlementInv /\ SuccessInv /\ SoleRunner /\ [SettlementNext]_allVars => SuccessInv' /\ Keeps
  BY SuccessNext
<1>3. Keeps <=>
        \A s \in Steps : ledger[s].status = "succeeded" =>
          \/ ledger'[s].status = "succeeded"
          \/ \E p \in Procs : run[p].pc = "fail" /\ run[p].cur = s
  BY DEF Keeps
<1> QED
  BY <1>1, <1>2, <1>3, SettlementInvariance, PTL DEF SettlementSpec, LedgerKeepsSuccess

=============================================================================
