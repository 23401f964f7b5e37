---------------------------- MODULE BackupProofs ----------------------------
(* Proofs about Backup, for any number of destinations, slots and tasks.   *)
EXTENDS Backup, FunctionTheorems, FiniteSetTheorems, TLAPS

Row == [state : {"none", "running", "retryable", "verified", "failed", "skipped"},
        attempt : 0 .. MaxAttempts, finished : Instants, verified : Optional(Artifact)]
Task == [pc : Stages, run : Optional(RunIds), attempt : 0 .. MaxAttempts,
         now : Instants, dest : Optional(Destinations),
         made : Optional(Artifact), todo : SUBSET Artifact]

Typed ==
    /\ clock \in Instants
    /\ configured \in Destinations
    /\ runs \in [RunIds -> Row]
    /\ tasks \in [Tasks -> Task]
    /\ pairs \subseteq Artifact

\* A row that was never attempted holds nothing at all.
Counted == \A r \in RunIds :
    /\ runs[r].attempt = 0 <=> runs[r].state = "none"
    /\ runs[r].state = "none" => runs[r] = NoRun

---------------------------------------------------------------------------
(* What a task knows at each stage: the run it was started with, the       *)
(* destination it works in, that the one suits the other once it promotes, *)
(* and the artifact it has made there.                                     *)

KnowsRun == \A t \in Tasks :
    tasks[t].pc \in {"claimed", "asked", "copying", "promoting", "promoted"}
        => /\ \E r \in RunIds : tasks[t].run = {r}
           /\ tasks[t].attempt > 0
KnowsDestination == \A t \in Tasks :
    tasks[t].pc \in {"copying", "promoting", "promoted", "verified", "retaining"}
        => \E d \in Destinations : tasks[t].dest = {d}
Suits == \A t \in Tasks :
    tasks[t].pc \in {"promoting", "promoted"}
        => \E d \in Destinations, r \in RunIds :
               /\ tasks[t].dest = {d} /\ tasks[t].run = {r}
               /\ r \in Destinations => r = d
HasMade == \A t \in Tasks :
    tasks[t].pc = "promoted"
        => \E a \in Artifact : /\ tasks[t].made = {a}
                               /\ tasks[t].dest = {a.dest} /\ tasks[t].run = {a.run}

TaskInv == KnowsRun /\ KnowsDestination /\ Suits /\ HasMade
BackupInv == Typed /\ Counted /\ TaskInv /\ SetupVerifiesDestination

LEMMA TypedIsTypeOK == Typed /\ Counted => BackupTypeOK
BY DEF Typed, Counted, BackupTypeOK, Row, Task

LEMMA RunChosen ==
  ASSUME NEW t, NEW r \in RunIds, tasks[t].run = {r} PROVE Run(t) = r
BY DEF Run

LEMMA DestChosen ==
  ASSUME NEW t, NEW d \in Destinations, tasks[t].dest = {d} PROVE Dest(t) = d
BY DEF Dest

LEMMA EmptyTask ==
  /\ Unborn \in Task /\ Ended \in Task
  /\ Ended.pc = "ended" /\ Unborn.pc = "unborn"
BY BackupAssumption DEF Unborn, Ended, Task, Stages, Optional, Instants, MaxAttempts

LEMMA InitInv == ASSUME Init PROVE BackupInv
<1>1. 0 \in Instants /\ NoRun \in Row
  BY BackupAssumption DEF Instants, NoRun, Row, Optional, MaxAttempts
<1>2. Typed
  BY <1>1, EmptyTask DEF Init, Typed
<1>3. Counted
  BY DEF Init, Counted, NoRun
<1>4. TaskInv
  BY EmptyTask DEF Init, TaskInv, KnowsRun, KnowsDestination, Suits, HasMade
<1>5. SetupVerifiesDestination
  BY DEF Init, SetupVerifiesDestination, RunIds, NoRun
<1> QED
  BY <1>2, <1>3, <1>4, <1>5 DEF BackupInv

\* One task takes a step: the others know what they knew.
LEMMA OneTask ==
  ASSUME TaskInv, Typed, NEW t \in Tasks, NEW task \in Task, Becomes(t, task),
         task.pc \in {"claimed", "asked", "copying", "promoting", "promoted"}
            => (\E r \in RunIds : task.run = {r}) /\ task.attempt > 0,
         task.pc \in {"copying", "promoting", "promoted", "verified", "retaining"}
            => \E d \in Destinations : task.dest = {d},
         task.pc \in {"promoting", "promoted"}
            => \E d \in Destinations, r \in RunIds :
                   task.dest = {d} /\ task.run = {r} /\ (r \in Destinations => r = d),
         task.pc = "promoted"
            => \E a \in Artifact : /\ task.made = {a} /\ task.dest = {a.dest}
                                   /\ task.run = {a.run}
  PROVE  TaskInv' /\ tasks' \in [Tasks -> Task]
<1>1. tasks' \in [Tasks -> Task] /\ tasks'[t] = task
  BY DEF Becomes, Typed
<1>2. \A u \in Tasks : u # t => tasks'[u] = tasks[u]
  BY DEF Becomes, Typed
<1>3. KnowsRun'
  BY <1>1, <1>2 DEF TaskInv, KnowsRun
<1>4. KnowsDestination'
  BY <1>1, <1>2 DEF TaskInv, KnowsDestination
<1>5. Suits'
  BY <1>1, <1>2 DEF TaskInv, Suits
<1>6. HasMade'
  BY <1>1, <1>2 DEF TaskInv, HasMade
<1> QED
  BY <1>1, <1>3, <1>4, <1>5, <1>6 DEF TaskInv

\* One run's row is written: the others are as they were.
LEMMA OneRun ==
  ASSUME Typed, Counted, SetupVerifiesDestination, NEW r \in RunIds, NEW row \in Row,
         runs' = [runs EXCEPT ![r] = row],
         row.attempt # 0, row.state # "none",
         r \in Destinations => \A a \in row.verified : a.dest = r
  PROVE  runs' \in [RunIds -> Row] /\ Counted' /\ SetupVerifiesDestination'
<1>1. runs' \in [RunIds -> Row] /\ runs'[r] = row
  BY DEF Typed
<1>2. \A q \in RunIds : q # r => runs'[q] = runs[q]
  BY DEF Typed
<1>3. Counted'
  BY <1>1, <1>2 DEF Counted
<1>4. SetupVerifiesDestination'
  BY <1>1, <1>2 DEF SetupVerifiesDestination, RunIds
<1> QED
  BY <1>1, <1>3, <1>4
---------------------------------------------------------------------------
(* The claims.                                                             *)

LEMMA RowFields ==
  ASSUME Typed, NEW r \in RunIds
  PROVE  /\ runs[r] \in Row /\ runs[r].attempt \in 0 .. MaxAttempts
         /\ runs[r].finished \in Instants /\ runs[r].verified \in Optional(Artifact)
         /\ runs[r].state \in {"none", "running", "retryable", "verified", "failed", "skipped"}
BY DEF Typed, Row

LEMMA TaskFields ==
  ASSUME Typed, NEW t \in Tasks
  PROVE  /\ tasks[t] \in Task /\ tasks[t].pc \in Stages /\ tasks[t].run \in Optional(RunIds)
         /\ tasks[t].attempt \in 0 .. MaxAttempts /\ tasks[t].now \in Instants
         /\ tasks[t].dest \in Optional(Destinations) /\ tasks[t].made \in Optional(Artifact)
         /\ tasks[t].todo \in SUBSET Artifact
BY DEF Typed, Task

LEMMA AttemptRow ==
  ASSUME Typed, NEW r \in RunIds, runs[r].attempt < MaxAttempts
  PROVE  /\ Attempt(r) \in Row /\ Attempt(r).state = "running"
         /\ Attempt(r).attempt = runs[r].attempt + 1
         /\ Attempt(r).verified = runs[r].verified
<1>1. /\ Attempt(r).state = "running" /\ Attempt(r).attempt = runs[r].attempt + 1
      /\ Attempt(r).finished = runs[r].finished /\ Attempt(r).verified = runs[r].verified
  BY RowFields DEF Attempt, Row
<1>2. runs[r].attempt + 1 \in 0 .. MaxAttempts
  BY RowFields DEF MaxAttempts
<1>3. Attempt(r) \in Row
  BY <1>1, <1>2, RowFields DEF Attempt, Row
<1> QED
  BY <1>1, <1>3

\* A row whose state alone changes, to another that was attempted.
LEMMA StateInv ==
  ASSUME Typed, Counted, SetupVerifiesDestination, NEW r \in RunIds, runs[r].state # "none",
         NEW state \in {"retryable", "failed", "skipped"},
         runs' = [runs EXCEPT ![r].state = state]
  PROVE  runs' \in [RunIds -> Row] /\ Counted' /\ SetupVerifiesDestination'
<1> DEFINE row == [runs[r] EXCEPT !.state = state]
<1>1. /\ row.state = state /\ row.attempt = runs[r].attempt
      /\ row.finished = runs[r].finished /\ row.verified = runs[r].verified
  BY RowFields DEF Row
<1>2. row \in Row
  BY <1>1, RowFields DEF Row
<1>3. row.attempt # 0 /\ row.state # "none"
  BY <1>1 DEF Counted
<1>4. r \in Destinations => \A a \in row.verified : a.dest = r
  BY <1>1 DEF SetupVerifiesDestination
<1>5. runs' = [runs EXCEPT ![r] = row]
  BY DEF Typed
<1> HIDE DEF row
<1> QED
  BY <1>2, <1>3, <1>4, <1>5, OneRun

LEMMA AttemptedInv ==
  ASSUME Typed, Counted, SetupVerifiesDestination, NEW r \in RunIds,
         runs[r].attempt < MaxAttempts, runs' = [runs EXCEPT ![r] = Attempt(r)]
  PROVE  runs' \in [RunIds -> Row] /\ Counted' /\ SetupVerifiesDestination'
<1>1. Attempt(r) \in Row /\ Attempt(r).attempt # 0 /\ Attempt(r).state # "none"
  BY AttemptRow, RowFields DEF MaxAttempts
<1>2. r \in Destinations => \A a \in Attempt(r).verified : a.dest = r
  BY AttemptRow DEF SetupVerifiesDestination
<1> QED
  BY <1>1, <1>2, OneRun

\* A failed attempt, and the recovery of one that failed or was lost.
LEMMA AfterFailureRow ==
  ASSUME Typed, Counted, NEW r \in RunIds, runs[r].state = "running"
  PROVE  /\ AfterFailure(r) \in Row /\ AfterFailure(r).attempt # 0
         /\ AfterFailure(r).state \in {"retryable", "failed"}
         /\ AfterFailure(r).verified = runs[r].verified
<1>1. runs[r].attempt \in 1 .. MaxAttempts
  BY RowFields DEF Counted, MaxAttempts
<1>2. CASE runs[r].attempt < MaxAttempts
  <2>1. /\ AfterFailure(r).state = "retryable" /\ AfterFailure(r).attempt = runs[r].attempt + 1
        /\ AfterFailure(r).finished = runs[r].finished
        /\ AfterFailure(r).verified = runs[r].verified
    BY <1>2, RowFields DEF AfterFailure, Row
  <2> DEFINE row == [runs[r] EXCEPT !.state = "retryable", !.attempt = @ + 1]
  <2>2. AfterFailure(r) = row
    BY <1>2 DEF AfterFailure
  <2>3. runs[r].attempt + 1 \in 0 .. MaxAttempts /\ runs[r].attempt + 1 # 0
    BY <1>1, <1>2 DEF MaxAttempts
  <2>4. row \in Row
    BY <2>3, RowFields DEF Row
  <2> HIDE DEF row
  <2> QED
    BY <2>1, <2>2, <2>3, <2>4
<1>3. CASE ~(runs[r].attempt < MaxAttempts)
  <2>1. /\ AfterFailure(r).state = "failed" /\ AfterFailure(r).attempt = runs[r].attempt
        /\ AfterFailure(r).finished = runs[r].finished
        /\ AfterFailure(r).verified = runs[r].verified
    BY <1>3, RowFields DEF AfterFailure, Row
  <2> QED
    BY <1>1, <1>3, <2>1, RowFields DEF AfterFailure, Row, MaxAttempts
<1> QED
  BY <1>2, <1>3

LEMMA AfterFailureInv ==
  ASSUME Typed, Counted, SetupVerifiesDestination, NEW r \in RunIds,
         runs[r].state = "running", runs' = [runs EXCEPT ![r] = AfterFailure(r)]
  PROVE  runs' \in [RunIds -> Row] /\ Counted' /\ SetupVerifiesDestination'
<1>1. r \in Destinations => \A a \in AfterFailure(r).verified : a.dest = r
  BY AfterFailureRow DEF SetupVerifiesDestination
<1>2. AfterFailure(r).state # "none"
  BY AfterFailureRow
<1> QED
  BY <1>1, <1>2, AfterFailureRow, OneRun

LEMMA RerunRow ==
  ASSUME Typed, Counted, NEW r \in RunIds, NEW t \in Tasks, Recover(t, r)
  PROVE  /\ Rerun(r) \in Row /\ Rerun(r).attempt \in 1 .. MaxAttempts
         /\ Rerun(r).state = "running" /\ Rerun(r).verified = runs[r].verified
<1>1. runs[r].attempt \in 1 .. MaxAttempts
  BY RowFields DEF Counted, MaxAttempts, Recover
<1>2. CASE runs[r].state = "retryable"
  <2>1. /\ Rerun(r).state = "running" /\ Rerun(r).attempt = runs[r].attempt
        /\ Rerun(r).finished = runs[r].finished /\ Rerun(r).verified = runs[r].verified
    BY <1>2, RowFields DEF Rerun, Row
  <2> QED
    BY <1>1, <1>2, <2>1, RowFields DEF Rerun, Row, MaxAttempts
<1>3. CASE runs[r].state # "retryable"
  BY <1>1, <1>3, AttemptRow DEF Rerun, Recover, MaxAttempts
<1> QED
  BY <1>2, <1>3

\* A task is started with a run and an attempt of it.
LEMMA StartedInv ==
  ASSUME TaskInv, Typed, NEW t \in Tasks, NEW r \in RunIds, NEW pc \in {"claimed", "asked"},
         NEW attempt \in 1 .. MaxAttempts, Starts(t, r, pc, attempt)
  PROVE  TaskInv' /\ tasks' \in [Tasks -> Task]
<1> DEFINE task == [Unborn EXCEPT !.pc = pc, !.run = {r}, !.attempt = attempt, !.now = clock]
<1>1. task.pc = pc /\ task.run = {r} /\ task.attempt = attempt
  BY DEF Unborn
<1>2. task \in Task
  <2>1. {r} \in Optional(RunIds) /\ {} \in Optional(Destinations) /\ {} \in Optional(Artifact)
    BY DEF Optional
  <2>2. pc \in Stages /\ attempt \in 0 .. MaxAttempts /\ clock \in Instants
    BY DEF Stages, Typed, MaxAttempts
  <2> QED
    BY <2>1, <2>2 DEF Unborn, Task
<1>3. Becomes(t, task)
  BY DEF Starts
<1> HIDE DEF task
<1> QED
  BY <1>1, <1>2, <1>3, OneTask DEF MaxAttempts

LEMMA ClaimSlotInv ==
  ASSUME BackupInv, NEW t \in Tasks, NEW s \in Slots, ClaimSlot(t, s) PROVE BackupInv'
<1>1. s \in RunIds /\ runs[s] = NoRun
  BY BackupAssumption DEF ClaimSlot, RunIds
<1>2. runs[s].attempt < MaxAttempts
  BY <1>1 DEF NoRun, MaxAttempts
<1>3. runs' \in [RunIds -> Row] /\ Counted' /\ SetupVerifiesDestination'
  BY <1>1, <1>2, AttemptedInv DEF ClaimSlot, BackupInv
<1>4. 1 \in 1 .. MaxAttempts
  BY DEF MaxAttempts
<1>5. TaskInv' /\ tasks' \in [Tasks -> Task]
  BY <1>1, <1>4, StartedInv DEF ClaimSlot, BackupInv
<1> QED
  BY <1>3, <1>5 DEF BackupInv, Typed, ClaimSlot

LEMMA RecoverInv ==
  ASSUME BackupInv, NEW t \in Tasks, NEW r \in RunIds, Recover(t, r) PROVE BackupInv'
<1>1. /\ Rerun(r) \in Row /\ Rerun(r).attempt \in 1 .. MaxAttempts
      /\ Rerun(r).state = "running" /\ Rerun(r).verified = runs[r].verified
  BY RerunRow DEF BackupInv
<1>2. r \in Destinations => \A a \in Rerun(r).verified : a.dest = r
  BY <1>1 DEF BackupInv, SetupVerifiesDestination
<1>3. Rerun(r).attempt # 0
  BY <1>1 DEF MaxAttempts
<1>4. runs' = [runs EXCEPT ![r] = Rerun(r)]
  BY DEF Recover
<1>5. runs' \in [RunIds -> Row] /\ Counted' /\ SetupVerifiesDestination'
  BY <1>1, <1>2, <1>3, <1>4, OneRun DEF BackupInv
<1>6. TaskInv' /\ tasks' \in [Tasks -> Task]
  BY <1>1, StartedInv DEF Recover, BackupInv
<1> QED
  BY <1>5, <1>6 DEF BackupInv, Typed, Recover

LEMMA GiveUpInv ==
  ASSUME BackupInv, NEW r \in RunIds, GiveUp(r) PROVE BackupInv'
<1>1. runs[r].state # "none"
  BY DEF GiveUp
<1>3. runs' \in [RunIds -> Row] /\ Counted' /\ SetupVerifiesDestination'
  BY <1>1, StateInv DEF GiveUp, BackupInv
<1>4. TaskInv'
  BY DEF GiveUp, BackupInv, TaskInv, KnowsRun, KnowsDestination, Suits, HasMade
<1> QED
  BY <1>3, <1>4 DEF BackupInv, Typed, GiveUp

LEMMA SaveInv ==
  ASSUME BackupInv, NEW d \in Destinations, SaveDestination(d) PROVE BackupInv'
<1>1. d \in RunIds /\ configured' \in Destinations /\ clock' \in Instants /\ pairs' \subseteq Artifact
  BY DEF SaveDestination, RunIds, BackupInv, Typed
<1>2. CASE UNCHANGED <<runs, tasks>>
  BY <1>1, <1>2
     DEF BackupInv, Typed, Counted, TaskInv, KnowsRun, KnowsDestination, Suits, HasMade,
         SetupVerifiesDestination
<1>3. ASSUME runs' = IF runs[d] = NoRun THEN [runs EXCEPT ![d] = Attempt(d)] ELSE runs,
             NEW t \in Tasks, Starts(t, d, "asked", runs'[d].attempt)
      PROVE  BackupInv'
  <2>1. /\ runs' \in [RunIds -> Row] /\ Counted' /\ SetupVerifiesDestination'
        /\ runs'[d].attempt \in 1 .. MaxAttempts
    <3>1. CASE runs[d] = NoRun
      <4>1. runs[d].attempt < MaxAttempts /\ runs' = [runs EXCEPT ![d] = Attempt(d)]
        BY <1>3, <3>1 DEF NoRun, MaxAttempts
      <4>2. runs' \in [RunIds -> Row] /\ Counted' /\ SetupVerifiesDestination'
        BY <1>1, <4>1, AttemptedInv DEF BackupInv
      <4>3. runs'[d].attempt = runs[d].attempt + 1
        BY <1>1, <4>1, AttemptRow DEF BackupInv, Typed
      <4> QED
        BY <1>1, <4>1, <4>2, <4>3, RowFields DEF BackupInv, MaxAttempts
    <3>2. CASE runs[d] # NoRun
      <4>1. runs' = runs /\ runs[d].attempt # 0
        BY <1>1, <1>3, <3>2 DEF BackupInv, Counted
      <4> QED
        BY <1>1, <4>1, RowFields
           DEF BackupInv, Typed, Counted, SetupVerifiesDestination, MaxAttempts
    <3> QED
      BY <3>1, <3>2
  <2>2. TaskInv' /\ tasks' \in [Tasks -> Task]
    BY <1>1, <1>3, <2>1, StartedInv DEF BackupInv
  <2> QED
    BY <1>1, <2>1, <2>2 DEF BackupInv, Typed
<1> QED
  BY <1>2, <1>3 DEF SaveDestination

---------------------------------------------------------------------------
(* The task's own steps.                                                   *)

\* A task that ends, whatever it did to its run before.
LEMMA EndsInv ==
  ASSUME BackupInv, NEW t \in Tasks, Becomes(t, Ended)
  PROVE  TaskInv' /\ tasks' \in [Tasks -> Task]
BY EmptyTask, OneTask DEF BackupInv

\* A task that goes on to another stage of the run it has.
LEMMA StageFields ==
  ASSUME Typed, NEW t \in Tasks, NEW pc \in Stages
  PROVE  /\ [tasks[t] EXCEPT !.pc = pc] \in Task
         /\ [tasks[t] EXCEPT !.pc = pc].pc = pc
         /\ [tasks[t] EXCEPT !.pc = pc].run = tasks[t].run
         /\ [tasks[t] EXCEPT !.pc = pc].attempt = tasks[t].attempt
         /\ [tasks[t] EXCEPT !.pc = pc].dest = tasks[t].dest
         /\ [tasks[t] EXCEPT !.pc = pc].made = tasks[t].made
BY TaskFields DEF Task

LEMMA LedgerSame ==
  ASSUME BackupInv, UNCHANGED ledgerVars
  PROVE  /\ configured' \in Destinations /\ runs' \in [RunIds -> Row]
         /\ Counted' /\ SetupVerifiesDestination'
BY DEF BackupInv, Typed, Counted, SetupVerifiesDestination, ledgerVars

LEMMA BeginInv ==
  ASSUME BackupInv, NEW t \in Tasks, Begin(t) PROVE BackupInv'
<1> DEFINE task == [tasks[t] EXCEPT !.pc = "copying", !.dest = {configured},
                       !.now = IF tasks[t].pc = "asked" THEN clock ELSE @]
<1>1. /\ task.pc = "copying" /\ task.dest = {configured} /\ task.run = tasks[t].run
      /\ task.attempt = tasks[t].attempt
  BY TaskFields DEF BackupInv, Task
<1>2. task \in Task
  <2>1. {configured} \in Optional(Destinations) /\ clock \in Instants /\ "copying" \in Stages
    BY DEF BackupInv, Typed, Optional, Stages
  <2> QED
    BY <2>1, TaskFields DEF BackupInv, Task
<1>3. (\E r \in RunIds : task.run = {r}) /\ task.attempt > 0
  BY <1>1 DEF Begin, BackupInv, TaskInv, KnowsRun
<1>4. Becomes(t, task) /\ configured \in Destinations
  BY DEF Begin, BackupInv, Typed
<1> HIDE DEF task
<1>5. TaskInv' /\ tasks' \in [Tasks -> Task]
  BY <1>1, <1>2, <1>3, <1>4, OneTask DEF BackupInv
<1> QED
  BY <1>5, LedgerSame DEF Begin, BackupInv, Typed

LEMMA SkipInv ==
  ASSUME BackupInv, NEW t \in Tasks, Skip(t) PROVE BackupInv'
<1>1. PICK r \in RunIds : tasks[t].run = {r} /\ Run(t) = r
  BY RunChosen DEF Skip, BackupInv, TaskInv, KnowsRun
<1>2. runs' \in [RunIds -> Row] /\ Counted' /\ SetupVerifiesDestination'
  <2>1. CASE Active(t)
    BY <1>1, <2>1, StateInv DEF Skip, Active, BackupInv
  <2>2. CASE ~Active(t)
    BY <2>2 DEF Skip, BackupInv, Typed, Counted, SetupVerifiesDestination
  <2> QED
    BY <2>1, <2>2
<1> QED
  BY <1>2, EndsInv DEF Skip, BackupInv, Typed

LEMMA FailInv ==
  ASSUME BackupInv, NEW t \in Tasks, Fail(t) PROVE BackupInv'
<1>1. PICK r \in RunIds : tasks[t].run = {r} /\ Run(t) = r
  BY RunChosen DEF Fail, BackupInv, TaskInv, KnowsRun
<1>2. runs' \in [RunIds -> Row] /\ Counted' /\ SetupVerifiesDestination'
  <2>1. CASE Active(t)
    BY <1>1, <2>1, AfterFailureInv DEF Fail, Active, BackupInv
  <2>2. CASE ~Active(t)
    BY <2>2 DEF Fail, BackupInv, Typed, Counted, SetupVerifiesDestination
  <2> QED
    BY <2>1, <2>2
<1> QED
  BY <1>2, EndsInv DEF Fail, BackupInv, Typed

LEMMA CheckClaimInv ==
  ASSUME BackupInv, NEW t \in Tasks, CheckClaim(t) PROVE BackupInv'
<1>1. PICK r \in RunIds : tasks[t].run = {r} /\ Run(t) = r
  BY RunChosen DEF CheckClaim, BackupInv, TaskInv, KnowsRun
<1>2. PICK d \in Destinations : tasks[t].dest = {d} /\ Dest(t) = d
  BY DestChosen DEF CheckClaim, BackupInv, TaskInv, KnowsDestination
<1>3. r \in Destinations => r = d
  BY <1>1, <1>2 DEF CheckClaim, DestinationMatches
<1>4. TaskInv' /\ tasks' \in [Tasks -> Task]
  <2>1. CASE Active(t)
    <3>1. Becomes(t, [tasks[t] EXCEPT !.pc = "promoting"])
      BY <2>1 DEF CheckClaim, Goes
    <3>2. tasks[t].attempt > 0 /\ "promoting" \in Stages
      BY DEF CheckClaim, BackupInv, TaskInv, KnowsRun, Stages
    <3> QED
      BY <1>1, <1>2, <1>3, <3>1, <3>2, StageFields, OneTask DEF BackupInv
  <2>2. CASE ~Active(t)
    BY <2>2, EndsInv DEF CheckClaim
  <2> QED
    BY <2>1, <2>2
<1> QED
  BY <1>4, LedgerSame DEF CheckClaim, BackupInv, Typed

LEMMA PromoteInv ==
  ASSUME BackupInv, NEW t \in Tasks, Promote(t) PROVE BackupInv'
<1>1. PICK d \in Destinations, r \in RunIds :
         tasks[t].dest = {d} /\ tasks[t].run = {r} /\ (r \in Destinations => r = d)
  BY DEF Promote, BackupInv, TaskInv, Suits
<1>2. Run(t) = r /\ Dest(t) = d
  BY <1>1, RunChosen, DestChosen
<1> DEFINE made == [name |-> t, dest |-> Dest(t), run |-> Run(t), created |-> tasks[t].now]
           task == [tasks[t] EXCEPT !.pc = "promoted", !.made = {made}]
<1>3. made \in Artifact /\ made.dest = d /\ made.run = r
  BY <1>2, TaskFields DEF Artifact, BackupInv
<1>4. pairs' = pairs \cup {made} /\ Becomes(t, task)
  BY DEF Promote
<1> HIDE DEF made
<1>5. /\ task.pc = "promoted" /\ task.made = {made} /\ task.run = {r} /\ task.dest = {d}
      /\ task.attempt = tasks[t].attempt
  BY <1>1, TaskFields DEF BackupInv, Task
<1>6. task \in Task
  <2>1. {made} \in Optional(Artifact) /\ "promoted" \in Stages
    BY <1>3 DEF Optional, Stages
  <2> QED
    BY <2>1, TaskFields DEF BackupInv, Task
<1>7. task.attempt > 0
  BY <1>5 DEF Promote, BackupInv, TaskInv, KnowsRun
<1> HIDE DEF task
<1>8. TaskInv' /\ tasks' \in [Tasks -> Task]
  BY <1>1, <1>3, <1>4, <1>5, <1>6, <1>7, OneTask DEF BackupInv
<1> QED
  BY <1>3, <1>4, <1>8, LedgerSame DEF Promote, BackupInv, Typed

LEMMA CompleteInv ==
  ASSUME BackupInv, NEW t \in Tasks, Complete(t) PROVE BackupInv'
<1>1. PICK a \in Artifact :
         tasks[t].made = {a} /\ tasks[t].dest = {a.dest} /\ tasks[t].run = {a.run}
  BY DEF Complete, BackupInv, TaskInv, HasMade
<1>2. a.run \in RunIds /\ a.dest \in Destinations
  BY DEF Artifact
<1>3. Run(t) = a.run
  BY <1>1, <1>2, RunChosen
<1>4. a.run \in Destinations => a.dest = a.run
  BY <1>1 DEF Complete, BackupInv, TaskInv, Suits
<1>5. CASE Active(t)
  <2> DEFINE r == a.run
             row == [runs[r] EXCEPT !.state = "verified", !.finished = tasks[t].now,
                                    !.verified = tasks[t].made]
             task == [Unborn EXCEPT !.pc = "verified", !.dest = tasks[t].dest]
  <2>1. runs' = [runs EXCEPT ![r] = row] /\ Becomes(t, task)
    BY <1>2, <1>3, <1>5 DEF Complete, BackupInv, Typed
  <2>2. /\ row.state = "verified" /\ row.attempt = runs[r].attempt
        /\ row.finished = tasks[t].now /\ row.verified = {a}
    BY <1>1, <1>2, RowFields DEF BackupInv, Row
  <2>3. row \in Row
    BY <1>2, <2>2, RowFields, TaskFields DEF BackupInv, Row
  <2>4. row.attempt # 0
    BY <1>2, <1>3, <1>5, <2>2 DEF Active, BackupInv, Counted
  <2>5. runs' \in [RunIds -> Row] /\ Counted' /\ SetupVerifiesDestination'
    <3> HIDE DEF row
    <3> QED
      BY <1>2, <1>4, <2>1, <2>2, <2>3, <2>4, OneRun DEF BackupInv
  <2>6. task.pc = "verified" /\ task.dest = {a.dest}
    BY <1>1 DEF Unborn
  <2>7. task \in Task
    BY EmptyTask, TaskFields DEF BackupInv, Unborn, Task, Stages
  <2>8. TaskInv' /\ tasks' \in [Tasks -> Task]
    <3> HIDE DEF task
    <3> QED
      BY <1>2, <2>1, <2>6, <2>7, OneTask DEF BackupInv
  <2> QED
    BY <2>5, <2>8 DEF Complete, BackupInv, Typed
<1>6. CASE ~Active(t)
  BY <1>6, EndsInv, LedgerSame DEF Complete, BackupInv, Typed, ledgerVars
<1> QED
  BY <1>5, <1>6

LEMMA ListOwnedInv ==
  ASSUME BackupInv, NEW t \in Tasks, ListOwned(t) PROVE BackupInv'
<1>1. PICK todo \in SUBSET Artifact :
         Becomes(t, [tasks[t] EXCEPT !.pc = "retaining", !.todo = todo])
  BY DEF ListOwned, Owned, BackupInv, Typed
<1> DEFINE task == [tasks[t] EXCEPT !.pc = "retaining", !.todo = todo]
<1>2. task \in Task /\ task.pc = "retaining" /\ task.dest = tasks[t].dest
  BY TaskFields DEF BackupInv, Task, Stages
<1>3. \E d \in Destinations : tasks[t].dest = {d}
  BY DEF ListOwned, BackupInv, TaskInv, KnowsDestination
<1>4. Becomes(t, task)
  BY <1>1
<1> HIDE DEF task
<1>5. TaskInv' /\ tasks' \in [Tasks -> Task]
  BY <1>2, <1>3, <1>4, OneTask DEF BackupInv
<1> QED
  BY <1>5, LedgerSame DEF ListOwned, BackupInv, Typed

LEMMA RemoveInv ==
  ASSUME BackupInv, NEW t \in Tasks, NEW a \in tasks[t].todo, Remove(t, a) PROVE BackupInv'
<1> DEFINE task == [tasks[t] EXCEPT !.todo = @ \ {a}]
<1>1. task.pc = "retaining" /\ task.dest = tasks[t].dest /\ task \in Task
  BY TaskFields DEF Remove, BackupInv, Task
<1>2. \E d \in Destinations : tasks[t].dest = {d}
  BY DEF Remove, BackupInv, TaskInv, KnowsDestination
<1>3. Becomes(t, task)
  BY DEF Remove
<1> HIDE DEF task
<1>4. TaskInv' /\ tasks' \in [Tasks -> Task]
  BY <1>1, <1>2, <1>3, OneTask DEF BackupInv
<1> QED
  BY <1>4, LedgerSame DEF Remove, BackupInv, Typed

LEMMA BackupStep == ASSUME BackupInv, [Next]_vars PROVE BackupInv'
<1>1. CASE UNCHANGED vars
  BY <1>1 DEF vars, ledgerVars, BackupInv, Typed, Counted, TaskInv, KnowsRun, KnowsDestination,
              Suits, HasMade, SetupVerifiesDestination
<1>2. ASSUME NEW t \in Tasks, Finish(t) \/ BreakOff(t) PROVE BackupInv'
  BY <1>2, EndsInv, LedgerSame DEF Finish, BreakOff, BackupInv, Typed
<1>3. CASE Advance
  <2>1. clock' \in Instants
    BY <1>3, BackupAssumption DEF Advance, Instants, BackupInv, Typed
  <2> QED
    BY <1>3, <2>1, LedgerSame
       DEF Advance, BackupInv, Typed, TaskInv, KnowsRun, KnowsDestination, Suits, HasMade
<1> QED
  BY <1>1, <1>2, <1>3, ClaimSlotInv, RecoverInv, GiveUpInv, SaveInv, BeginInv, SkipInv,
     CheckClaimInv, PromoteInv, CompleteInv, FailInv, ListOwnedInv, RemoveInv
     DEF Next, Claim, Execute, Retain

---------------------------------------------------------------------------
(* The theorems.                                                           *)

LEMMA BackupAlways == Spec => []BackupInv
  BY InitInv, BackupStep, PTL DEF Spec

\* The ledger, the tasks and the directories keep their types.
THEOREM BackupTypes == Spec => []BackupTypeOK
<1>1. BackupInv => BackupTypeOK
  BY TypedIsTypeOK DEF BackupInv
<1> QED
  BY <1>1, BackupAlways, PTL

\* ScheduledBackupTask: however often the operator changes the destination
\* while tasks run, a setup run verifies the one it was claimed for.
THEOREM SetupVerifies == Spec => []SetupVerifiesDestination
<1>1. BackupInv => SetupVerifiesDestination
  BY DEF BackupInv
<1> QED
  BY <1>1, BackupAlways, PTL

\* What no step does to a verified run, under the invariant.
LEMMA VerifiedStep ==
  ASSUME BackupInv, [Next]_vars, NEW q \in RunIds, runs[q].state = "verified"
  PROVE  runs'[q] = runs[q]
<1> USE DEF BackupInv, Typed
<1>1. CASE UNCHANGED vars
  BY <1>1 DEF vars, ledgerVars
<1>2. ASSUME NEW t \in Tasks, NEW s \in Slots, ClaimSlot(t, s) PROVE runs'[q] = runs[q]
  BY <1>2, BackupAssumption DEF ClaimSlot, NoRun
<1>3. ASSUME NEW t \in Tasks, NEW r \in RunIds, Recover(t, r) PROVE runs'[q] = runs[q]
  BY <1>3 DEF Recover
<1>4. ASSUME NEW r \in RunIds, GiveUp(r) PROVE runs'[q] = runs[q]
  BY <1>4 DEF GiveUp
<1>5. ASSUME NEW d \in Destinations, SaveDestination(d) PROVE runs'[q] = runs[q]
  BY <1>5 DEF SaveDestination, NoRun
<1>6. ASSUME NEW t \in Tasks, Skip(t) \/ Complete(t) \/ Fail(t) PROVE runs'[q] = runs[q]
  BY <1>6 DEF Skip, Complete, Fail, Active
<1>7. ASSUME NEW t \in Tasks, Begin(t) \/ CheckClaim(t) \/ Promote(t) \/ Retain(t)
      PROVE  runs'[q] = runs[q]
  BY <1>7 DEF Begin, CheckClaim, Promote, Retain, ListOwned, Remove, Finish, BreakOff, ledgerVars
<1>8. CASE Advance
  BY <1>8 DEF Advance, ledgerVars
<1> QED
  BY <1>1, <1>2, <1>3, <1>4, <1>5, <1>6, <1>7, <1>8 DEF Next, Claim, Execute

\* fail_attempt/5, skip_run/4, complete_run/4 and the claims leave a verified
\* run alone, whichever of them come late.
THEOREM VerifiedIsFinal == Spec => VerifiedStays
<1>1. BackupInv /\ [Next]_vars
        => [\A r \in RunIds : runs[r].state = "verified" => runs'[r] = runs[r]]_vars
  BY VerifiedStep
<1> QED
  BY <1>1, BackupAlways, PTL DEF Spec, VerifiedStays
---------------------------------------------------------------------------
(* Retention.  A pair that a task is about to remove is superseded: by a   *)
(* newer pair of its date, or by Window later dates.  Removing it takes    *)
(* nothing away from the others, since what superseded it stands in for    *)
(* it; so tasks may remove what they once listed, however old the list.    *)

Superseded(x) ==
    \/ \E b \in Owned(x.dest) : Date(b.created) = Date(x.created) /\ Newer(b, x)
    \/ ~InWindow(x, Owned(x.dest))

Kept(a) == a \in pairs \/ Superseded(a)

RetentionInv ==
    /\ \A r \in RunIds : \A a \in runs[r].verified : Kept(a)
    /\ \A t \in Tasks : \A a \in tasks[t].made : Kept(a)
    /\ \A t \in Tasks : \A x \in tasks[t].todo : Superseded(x)

LEMMA NewerOrders ==
  ASSUME NEW a \in Artifact, NEW b \in Artifact
  PROVE  /\ ~Newer(a, a)
         /\ Newer(a, b) => ~Newer(b, a)
         /\ \A c \in Artifact : Newer(c, b) /\ Newer(b, a) => Newer(c, a)
<1>1. Tasks \subseteq Int /\ Instants \subseteq Int
  BY BackupAssumption DEF Instants
<1>2. \A x \in Artifact : x.name \in Int /\ x.created \in Int
  BY <1>1 DEF Artifact
<1> QED
  BY <1>2 DEF Newer

LEMMA DateType == \A i \in Instants : Date(i) \in Int
BY BackupAssumption DEF Date, Instants

LEMMA LaterDatesFinite ==
  ASSUME NEW S \in SUBSET Artifact, NEW x
  PROVE  IsFiniteSet(LaterDates(x, S))
<1> DEFINE Dates == {Date(i) : i \in Instants}
           DateOf == [i \in Instants |-> Date(i)]
<1>1. IsFiniteSet(Instants)
  BY FS_Interval, BackupAssumption DEF Instants
<1>2. DateOf \in Surjection(Instants, Dates)
  BY DEF Surjection
<1>3. IsFiniteSet(Dates)
  BY <1>1, <1>2, FS_Surjection
<1>4. LaterDates(x, S) \subseteq Dates
  BY DEF LaterDates, Artifact
<1> QED
  BY <1>3, <1>4, FS_Subset

\* More later dates leave a pair as far out of the window.
LEMMA WindowPassed ==
  ASSUME NEW S \in SUBSET Artifact, NEW T \in SUBSET Artifact, NEW x, NEW y,
         LaterDates(x, S) \subseteq LaterDates(y, T), ~InWindow(x, S)
  PROVE  ~InWindow(y, T)
<1>1. IsFiniteSet(LaterDates(x, S)) /\ IsFiniteSet(LaterDates(y, T))
  BY LaterDatesFinite
<1>2. Cardinality(LaterDates(x, S)) <= Cardinality(LaterDates(y, T))
  BY <1>1, FS_Subset
<1>3. Cardinality(LaterDates(x, S)) \in Nat /\ Cardinality(LaterDates(y, T)) \in Nat
  BY <1>1, FS_CardinalityType
<1> QED
  BY <1>2, <1>3, BackupAssumption DEF InWindow

\* A new pair supersedes more than before.
LEMMA AddedKeeps ==
  ASSUME Typed, NEW made \in Artifact, pairs' = pairs \cup {made}, NEW x \in Artifact
  PROVE  /\ Superseded(x) => Superseded(x)'
         /\ Kept(x) => Kept(x)'
         /\ Kept(made)'
<1> DEFINE S == Owned(x.dest)
           T == Owned(x.dest)'
<1>1. S \in SUBSET Artifact /\ T \in SUBSET Artifact /\ S \subseteq T
  BY DEF Owned, Typed
<1>2. LaterDates(x, S) \subseteq LaterDates(x, T)
  BY <1>1 DEF LaterDates
<1>3. ~InWindow(x, S) => ~InWindow(x, T)
  BY <1>1, <1>2, WindowPassed
<1>4. Superseded(x) => Superseded(x)'
  BY <1>1, <1>3 DEF Superseded, InWindow, LaterDates, Newer, Date, Owned
<1> QED
  BY <1>4 DEF Kept

\* What superseded a removed pair stands in for it.
LEMMA RemovedKeeps ==
  ASSUME Typed, NEW x \in Artifact, Superseded(x), pairs' = pairs \ {x}, NEW y \in Artifact
  PROVE  /\ Superseded(y) => Superseded(y)'
         /\ Kept(y) => Kept(y)'
<1> DEFINE S == Owned(y.dest)
           T == S \ {x}
<1>1. S \in SUBSET Artifact /\ T \in SUBSET Artifact /\ Owned(y.dest)' = T
  BY DEF Owned, Typed
<1>2. Superseded(y)' <=> \/ \E b \in T : Date(b.created) = Date(y.created) /\ Newer(b, y)
                         \/ ~InWindow(y, T)
  BY <1>1 DEF Superseded, InWindow, LaterDates, Newer, Date
<1>3. CASE y.dest # x.dest
  <2>1. S = T
    BY <1>3 DEF Owned
  <2> QED
    BY <1>2, <1>3, <2>1 DEF Superseded, Kept
<1>4. CASE y.dest = x.dest
  \* The date of the removed pair is still there, or Window later ones are.
  <2>1. \/ \E b \in T : Date(b.created) = Date(x.created) /\ Newer(b, x)
        \/ ~InWindow(x, S)
    BY <1>1, <1>4, NewerOrders DEF Superseded
  <2>2. \/ \E b \in T : Date(b.created) = Date(x.created) /\ Newer(b, x)
        \/ \A z \in Artifact : Date(z.created) <= Date(x.created) => ~InWindow(z, T)
    <3>1. ASSUME ~InWindow(x, S), NEW z \in Artifact, Date(z.created) <= Date(x.created)
          PROVE  ~InWindow(z, T)
      <4>1. \A b \in S : Date(b.created) \in Int
        BY <1>1, DateType DEF Artifact
      <4>2. Date(x.created) \in Int /\ Date(z.created) \in Int
        BY DateType DEF Artifact
      <4>3. LaterDates(x, S) \subseteq LaterDates(z, T)
        BY <3>1, <4>1, <4>2 DEF LaterDates
      <4> QED
        BY <1>1, <3>1, <4>3, WindowPassed
    <3> QED
      BY <2>1, <3>1
  <2>3. Superseded(x)'
    <3>1. Superseded(x)' <=> \/ \E b \in T : Date(b.created) = Date(x.created) /\ Newer(b, x)
                             \/ ~InWindow(x, T)
      BY <1>1, <1>4 DEF Superseded, InWindow, LaterDates, Newer, Date
    <3>2. Date(x.created) <= Date(x.created)
      BY DateType DEF Artifact
    <3> QED
      BY <2>2, <3>1, <3>2
  <2>4. ASSUME Superseded(y) PROVE Superseded(y)'
    <3>1. CASE \E b \in S : Date(b.created) = Date(y.created) /\ Newer(b, y)
      <4>1. PICK b \in S : Date(b.created) = Date(y.created) /\ Newer(b, y)
        BY <3>1
      <4>2. CASE b # x
        BY <1>2, <4>1, <4>2
      <4>3. CASE b = x
        <5>1. CASE \E c \in T : Date(c.created) = Date(x.created) /\ Newer(c, x)
          BY <1>1, <1>2, <4>1, <4>3, <5>1, NewerOrders
        <5>2. CASE ~InWindow(y, T)
          BY <1>2, <5>2
        <5>3. Date(y.created) <= Date(x.created)
          BY <4>1, <4>3, DateType DEF Artifact
        <5> QED
          BY <2>2, <5>1, <5>2, <5>3
      <4> QED
        BY <4>2, <4>3
    <3>2. CASE ~InWindow(y, S)
      <4>1. CASE Date(y.created) <= Date(x.created)
                   /\ ~ \E c \in T : Date(c.created) = Date(x.created) /\ Newer(c, x)
        BY <1>2, <2>2, <4>1
      <4>2. CASE \E c \in T : Date(c.created) = Date(x.created) /\ Newer(c, x)
        <5>1. LaterDates(y, S) \subseteq LaterDates(y, T)
          BY <4>2 DEF LaterDates
        <5> QED
          BY <1>1, <1>2, <3>2, <5>1, WindowPassed
      <4>3. CASE ~(Date(y.created) <= Date(x.created))
        <5>1. Date(y.created) \in Int /\ Date(x.created) \in Int
          BY DateType DEF Artifact
        <5>2. LaterDates(y, S) \subseteq LaterDates(y, T)
          BY <4>3, <5>1 DEF LaterDates
        <5> QED
          BY <1>1, <1>2, <3>2, <5>2, WindowPassed
      <4> QED
        BY <4>1, <4>2, <4>3
    <3> QED
      BY <2>4, <3>1, <3>2 DEF Superseded
  <2> QED
    BY <2>3, <2>4 DEF Kept
<1> QED
  BY <1>3, <1>4

\* A step that leaves the pairs alone, and what is left to be removed and what runs and
\* tasks have made within what it was.
LEMMA PairsSame ==
  ASSUME RetentionInv, pairs' = pairs,
         \A r \in RunIds : \A a \in runs'[r].verified :
            \/ a \in runs[r].verified
            \/ \E t \in Tasks : a \in tasks[t].made,
         \A t \in Tasks : tasks'[t].made \subseteq tasks[t].made,
         \A t \in Tasks : \A x \in tasks'[t].todo : x \in tasks[t].todo \/ Superseded(x)
  PROVE  RetentionInv'
<1>1. \A x : (Superseded(x)' <=> Superseded(x)) /\ (Kept(x)' <=> Kept(x))
  BY DEF Superseded, Kept, Owned, InWindow, LaterDates, Date, Newer
<1> QED
  BY <1>1 DEF RetentionInv

\* What one task's step changes of the tasks.
LEMMA OneTaskWrites ==
  ASSUME Typed, NEW t \in Tasks, NEW task, Becomes(t, task)
  PROVE  tasks'[t] = task /\ \A u \in Tasks : u # t => tasks'[u] = tasks[u]
BY DEF Becomes, Typed

\* The artifacts that runs and tasks hold.
LEMMA HoldArtifacts ==
  ASSUME Typed
  PROVE  /\ \A r \in RunIds : \A a \in runs[r].verified : a \in Artifact
         /\ \A t \in Tasks : \A a \in tasks[t].made : a \in Artifact
         /\ \A t \in Tasks : \A a \in tasks[t].todo : a \in Artifact
<1>1. \A r \in RunIds : runs[r].verified \in Optional(Artifact)
  BY RowFields
<1>2. \A t \in Tasks : tasks[t].made \in Optional(Artifact) /\ tasks[t].todo \in SUBSET Artifact
  BY TaskFields
<1> QED
  BY <1>1, <1>2 DEF Optional

LEMMA StartedEmpty ==
  ASSUME Typed, NEW t \in Tasks, NEW r, NEW pc, NEW attempt, Starts(t, r, pc, attempt)
  PROVE  /\ tasks'[t].made = {} /\ tasks'[t].todo = {}
         /\ \A u \in Tasks : u # t => tasks'[u] = tasks[u]
<1> DEFINE task == [Unborn EXCEPT !.pc = pc, !.run = {r}, !.attempt = attempt, !.now = clock]
<1>1. task.made = {} /\ task.todo = {}
  BY DEF Unborn
<1>2. Becomes(t, task)
  BY DEF Starts
<1> HIDE DEF task
<1> QED
  BY <1>1, <1>2, OneTaskWrites

LEMMA ClaimRetains ==
  ASSUME BackupInv, RetentionInv, NEW t \in Tasks, Claim(t)
  PROVE  RetentionInv'
<1>0. /\ \A r \in RunIds : Attempt(r).verified = runs[r].verified
      /\ \A r \in RunIds : Rerun(r).verified = runs[r].verified
  BY RowFields DEF Attempt, Rerun, BackupInv, Row
<1> DEFINE Claims(r) ==
         /\ \E row : runs' = [runs EXCEPT ![r] = row] /\ row.verified = runs[r].verified
         /\ \E attempt : Starts(t, r, "claimed", attempt)
         /\ pairs' = pairs
<1>1. PICK r \in RunIds : Claims(r)
  <2>1. ASSUME NEW s \in Slots, ClaimSlot(t, s)
        PROVE  \E r \in RunIds : Claims(r)
    BY <1>0, <2>1 DEF ClaimSlot, RunIds
  <2>2. ASSUME NEW r \in RunIds, Recover(t, r)
        PROVE  \E q \in RunIds : Claims(q)
    BY <1>0, <2>2 DEF Recover
  <2> QED
    BY <2>1, <2>2 DEF Claim
<1>2. tasks'[t].made = {} /\ tasks'[t].todo = {} /\ \A u \in Tasks : u # t => tasks'[u] = tasks[u]
  BY <1>1, StartedEmpty DEF BackupInv
<1>4. \A q \in RunIds : runs'[q].verified = runs[q].verified
  BY <1>1 DEF BackupInv, Typed
<1> QED
  BY <1>1, <1>2, <1>4, PairsSame

LEMMA SaveRetains ==
  ASSUME BackupInv, RetentionInv, NEW d \in Destinations, SaveDestination(d)
  PROVE  RetentionInv'
<1>1. pairs' = pairs /\ d \in RunIds
  BY DEF SaveDestination, RunIds
<1>2. Attempt(d).verified = runs[d].verified
  BY <1>1, RowFields DEF Attempt, BackupInv, Row
<1>3. \A q \in RunIds : runs'[q].verified = runs[q].verified
  BY <1>1, <1>2 DEF SaveDestination, BackupInv, Typed
<1>4. CASE tasks' = tasks
  BY <1>1, <1>3, <1>4, PairsSame
<1>5. ASSUME NEW t \in Tasks, NEW attempt, Starts(t, d, "asked", attempt) PROVE RetentionInv'
  <2>1. tasks'[t].made = {} /\ tasks'[t].todo = {} /\ \A u \in Tasks : u # t => tasks'[u] = tasks[u]
    BY <1>5, StartedEmpty DEF BackupInv
  <2> QED
    BY <1>1, <1>3, <2>1, PairsSame
<1> QED
  BY <1>4, <1>5 DEF SaveDestination

\* The stages that neither promote nor complete, and the ends.
LEMMA StageRetains ==
  ASSUME BackupInv, RetentionInv, NEW t \in Tasks,
         Begin(t) \/ Skip(t) \/ CheckClaim(t) \/ Fail(t) \/ Finish(t) \/ BreakOff(t)
  PROVE  RetentionInv'
<1>1. pairs' = pairs
  BY DEF Begin, Skip, CheckClaim, Fail, Finish, BreakOff
<1>2. \A q \in RunIds : runs'[q].verified = runs[q].verified
  <2>1. CASE runs' = runs
    BY <2>1
  <2>2. ASSUME NEW row, runs' = [runs EXCEPT ![Run(t)] = row],
               Run(t) \in RunIds => row.verified = runs[Run(t)].verified
        PROVE  \A q \in RunIds : runs'[q].verified = runs[q].verified
    BY <2>2 DEF BackupInv, Typed
  <2>3. \/ runs' = runs
        \/ runs' = [runs EXCEPT ![Run(t)] = [runs[Run(t)] EXCEPT !.state = "skipped"]]
        \/ runs' = [runs EXCEPT ![Run(t)] = AfterFailure(Run(t))]
    BY DEF Begin, Skip, CheckClaim, Fail, Finish, BreakOff, ledgerVars
  <2>4. Run(t) \in RunIds =>
            /\ [runs[Run(t)] EXCEPT !.state = "skipped"].verified = runs[Run(t)].verified
            /\ AfterFailure(Run(t)).verified = runs[Run(t)].verified
    BY RowFields DEF BackupInv, Row, AfterFailure
  <2> QED
    BY <2>1, <2>2, <2>3, <2>4
<1>3. PICK task : Becomes(t, task) /\ task.made \subseteq tasks[t].made /\ task.todo \subseteq tasks[t].todo
  <2>1. Ended.made = {} /\ Ended.todo = {}
    BY DEF Ended, Unborn
  <2>2. ASSUME Begin(t)
        PROVE  \E task : /\ Becomes(t, task)
                         /\ task.made = tasks[t].made /\ task.todo = tasks[t].todo
    <3> DEFINE task == [tasks[t] EXCEPT !.pc = "copying", !.dest = {configured},
                                        !.now = IF tasks[t].pc = "asked" THEN clock ELSE @]
    <3>1. task.made = tasks[t].made /\ task.todo = tasks[t].todo
      BY TaskFields DEF BackupInv, Task
    <3>2. Becomes(t, task)
      BY <2>2 DEF Begin
    <3> HIDE DEF task
    <3> QED
      BY <3>1, <3>2
  <2>3. CASE Becomes(t, Ended)
    BY <2>1, <2>3
  <2>4. ASSUME Goes(t, "promoting")
        PROVE  \E task : /\ Becomes(t, task)
                         /\ task.made = tasks[t].made /\ task.todo = tasks[t].todo
    <3> DEFINE task == [tasks[t] EXCEPT !.pc = "promoting"]
    <3>1. task.made = tasks[t].made /\ task.todo = tasks[t].todo
      BY TaskFields DEF BackupInv, Task
    <3>2. Becomes(t, task)
      BY <2>4 DEF Goes
    <3> HIDE DEF task
    <3> QED
      BY <3>1, <3>2
  <2> QED
    BY <2>2, <2>3, <2>4 DEF Skip, CheckClaim, Fail, Finish, BreakOff
<1>4. tasks'[t] = task /\ \A u \in Tasks : u # t => tasks'[u] = tasks[u]
  BY <1>3, OneTaskWrites DEF BackupInv
<1> QED
  BY <1>1, <1>2, <1>3, <1>4, PairsSame

LEMMA PromoteRetains ==
  ASSUME BackupInv, RetentionInv, NEW t \in Tasks, Promote(t)
  PROVE  RetentionInv'
<1>1. PICK d \in Destinations, r \in RunIds : tasks[t].dest = {d} /\ tasks[t].run = {r}
  BY DEF Promote, BackupInv, TaskInv, Suits
<1>2. Run(t) = r /\ Dest(t) = d
  BY <1>1, RunChosen, DestChosen
<1>3. [name |-> t, dest |-> d, run |-> r, created |-> tasks[t].now] \in Artifact
  BY TaskFields DEF Artifact, BackupInv
<1>4. PICK made \in Artifact :
         /\ pairs' = pairs \cup {made} /\ runs' = runs
         /\ Becomes(t, [tasks[t] EXCEPT !.pc = "promoted", !.made = {made}])
  BY <1>2, <1>3 DEF Promote, ledgerVars
<1> DEFINE task == [tasks[t] EXCEPT !.pc = "promoted", !.made = {made}]
<1>5. task.made = {made} /\ task.todo = tasks[t].todo
  BY TaskFields DEF BackupInv, Task
<1>6. Becomes(t, task)
  BY <1>4
<1> HIDE DEF task
<1>7. tasks'[t] = task /\ \A u \in Tasks : u # t => tasks'[u] = tasks[u]
  BY <1>6, OneTaskWrites DEF BackupInv
<1>8. \A x \in Artifact : (Superseded(x) => Superseded(x)') /\ (Kept(x) => Kept(x)')
  BY <1>4, AddedKeeps DEF BackupInv
<1>9. Kept(made)'
  BY <1>4, AddedKeeps DEF BackupInv
<1>10. /\ \A q \in RunIds : \A a \in runs[q].verified : a \in Artifact
       /\ \A u \in Tasks : \A a \in tasks[u].made : a \in Artifact
       /\ \A u \in Tasks : \A a \in tasks[u].todo : a \in Artifact
  BY HoldArtifacts DEF BackupInv
<1>11. \A u \in Tasks : \A a \in tasks'[u].made : a \in tasks[u].made \/ a = made
  BY <1>5, <1>7
<1>12. \A u \in Tasks : tasks'[u].todo = tasks[u].todo
  BY <1>5, <1>7
<1> QED
  BY <1>4, <1>8, <1>9, <1>10, <1>11, <1>12 DEF RetentionInv

LEMMA CompleteRetains ==
  ASSUME BackupInv, RetentionInv, NEW t \in Tasks, Complete(t)
  PROVE  RetentionInv'
<1>1. PICK r \in RunIds : tasks[t].run = {r} /\ Run(t) = r
  BY RunChosen DEF Complete, BackupInv, TaskInv, KnowsRun
<1>2. PICK task : Becomes(t, task) /\ task.made = {} /\ task.todo = {}
  <2> DEFINE task == [Unborn EXCEPT !.pc = "verified", !.dest = tasks[t].dest]
  <2>1. task.made = {} /\ task.todo = {} /\ Ended.made = {} /\ Ended.todo = {}
    BY DEF Ended, Unborn
  <2>2. Becomes(t, task) \/ Becomes(t, Ended)
    BY DEF Complete
  <2> HIDE DEF task
  <2> QED
    BY <2>1, <2>2
<1>3. tasks'[t] = task /\ \A u \in Tasks : u # t => tasks'[u] = tasks[u]
  BY <1>2, OneTaskWrites DEF BackupInv
<1>4. \A q \in RunIds : runs'[q].verified = runs[q].verified \/ runs'[q].verified = tasks[t].made
  <2> DEFINE row == [runs[r] EXCEPT !.state = "verified", !.finished = tasks[t].now,
                                    !.verified = tasks[t].made]
  <2>1. row.verified = tasks[t].made
    BY RowFields DEF BackupInv, Row
  <2>2. runs' = runs \/ runs' = [runs EXCEPT ![r] = row]
    BY <1>1 DEF Complete, BackupInv, Typed
  <2> HIDE DEF row
  <2> QED
    BY <2>1, <2>2 DEF BackupInv, Typed
<1>5. pairs' = pairs
  BY DEF Complete
<1> QED
  BY <1>2, <1>3, <1>4, <1>5, PairsSame

\* What a listing leaves to remove is superseded when it is made.
LEMMA ListRetains ==
  ASSUME BackupInv, RetentionInv, NEW t \in Tasks, ListOwned(t)
  PROVE  RetentionInv'
<1>1. PICK d \in Destinations : tasks[t].dest = {d} /\ Dest(t) = d
  BY DestChosen DEF ListOwned, BackupInv, TaskInv, KnowsDestination
<1> DEFINE todo == {a \in Owned(d) : a.run \notin RetainedRuns(Owned(d))}
           task == [tasks[t] EXCEPT !.pc = "retaining", !.todo = todo]
<1>2. Becomes(t, task) /\ pairs' = pairs /\ runs' = runs
  BY <1>1 DEF ListOwned, ledgerVars
<1>3. \A x \in todo : Superseded(x)
  <2>1. SUFFICES ASSUME NEW x \in Owned(d), x.run \notin RetainedRuns(Owned(d)) PROVE Superseded(x)
    OBVIOUS
  <2>2. ~(NewestOfDate(x, Owned(d)) /\ InWindow(x, Owned(d)))
    BY <2>1 DEF RetainedRuns
  <2>3. x.dest = d
    BY <2>1 DEF Owned
  <2> QED
    BY <2>2, <2>3 DEF NewestOfDate, Superseded
<1> HIDE DEF todo
<1>4. task.made = tasks[t].made /\ task.todo = todo
  BY TaskFields DEF BackupInv, Task
<1> HIDE DEF task
<1>5. tasks'[t] = task /\ \A u \in Tasks : u # t => tasks'[u] = tasks[u]
  BY <1>2, OneTaskWrites DEF BackupInv
<1> QED
  BY <1>2, <1>3, <1>4, <1>5, PairsSame

LEMMA RemoveRetains ==
  ASSUME BackupInv, RetentionInv, NEW t \in Tasks, NEW x \in tasks[t].todo, Remove(t, x)
  PROVE  RetentionInv'
<1> DEFINE task == [tasks[t] EXCEPT !.todo = @ \ {x}]
<1>1. Becomes(t, task) /\ pairs' = pairs \ {x} /\ runs' = runs
  BY DEF Remove, ledgerVars
<1>2. task.made = tasks[t].made /\ task.todo = tasks[t].todo \ {x}
  BY TaskFields DEF BackupInv, Task
<1> HIDE DEF task
<1>3. tasks'[t] = task /\ \A u \in Tasks : u # t => tasks'[u] = tasks[u]
  BY <1>1, OneTaskWrites DEF BackupInv
<1>4. x \in Artifact /\ Superseded(x)
  BY TaskFields DEF BackupInv, RetentionInv
<1>5. \A y \in Artifact : (Superseded(y) => Superseded(y)') /\ (Kept(y) => Kept(y)')
  BY <1>1, <1>4, RemovedKeeps DEF BackupInv
<1>6. \A u \in Tasks : tasks'[u].made = tasks[u].made /\ tasks'[u].todo \subseteq tasks[u].todo
  BY <1>2, <1>3
<1>7. /\ \A r \in RunIds : \A a \in runs[r].verified : a \in Artifact
      /\ \A u \in Tasks : \A a \in tasks[u].made : a \in Artifact
      /\ \A u \in Tasks : \A a \in tasks[u].todo : a \in Artifact
  BY HoldArtifacts DEF BackupInv
<1> QED
  BY <1>1, <1>5, <1>6, <1>7 DEF RetentionInv

LEMMA RetentionStep == ASSUME BackupInv, RetentionInv, [Next]_vars PROVE RetentionInv'
<1>1. CASE UNCHANGED vars \/ Advance
  BY <1>1, PairsSame DEF vars, ledgerVars, Advance
<1>2. ASSUME NEW r \in RunIds, GiveUp(r) PROVE RetentionInv'
  <2>1. [runs[r] EXCEPT !.state = "failed"].verified = runs[r].verified
    BY RowFields DEF BackupInv, Row
  <2>2. \A q \in RunIds : runs'[q].verified = runs[q].verified
    BY <1>2, <2>1 DEF GiveUp, BackupInv, Typed
  <2> QED
    BY <1>2, <2>2, PairsSame DEF GiveUp
<1> QED
  BY <1>1, <1>2, ClaimRetains, SaveRetains, StageRetains, PromoteRetains, CompleteRetains,
     ListRetains, RemoveRetains DEF Next, Execute, Retain

LEMMA RetentionInit == ASSUME Init PROVE RetentionInv
BY DEF Init, RetentionInv, NoRun, Unborn

\* retain/2 of whatever tasks overlap: the date of every verified run keeps a backup at
\* least as new as that run's until Window later dates have one in its directory, for any
\* window and any number of dates, tasks and directories.
THEOREM DatesKept == Spec => []EveryDateKept
<1>1. ASSUME BackupInv, RetentionInv PROVE EveryDateKept
  <2>1. SUFFICES ASSUME NEW r \in RunIds, NEW a \in runs[r].verified
                 PROVE  \/ \E b \in Owned(a.dest) : Date(b.created) = Date(a.created) /\ ~Newer(a, b)
                        \/ ~InWindow(a, Owned(a.dest))
    BY DEF EveryDateKept
  <2>2. a \in Artifact /\ Kept(a)
    BY <1>1, <2>1, HoldArtifacts DEF RetentionInv, BackupInv
  <2>3. CASE a \in pairs
    BY <2>2, <2>3, NewerOrders DEF Owned
  <2>4. CASE Superseded(a)
    BY <1>1, <2>2, <2>4, NewerOrders DEF Superseded, Owned, BackupInv, Typed
  <2> QED
    BY <2>2, <2>3, <2>4 DEF Kept
<1>2. BackupInv /\ RetentionInv /\ [Next]_vars => RetentionInv'
  BY RetentionStep
<1> QED
  BY <1>1, <1>2, RetentionInit, BackupAlways, PTL DEF Spec
=============================================================================
