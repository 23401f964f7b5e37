------------------------------- MODULE Backup -------------------------------
(* The Backup bounded context with the Scheduler task that drives it: the  *)
(* snapshot a claimed run promotes into the configured destination, the    *)
(* receipt beside it, the ledger's completion, and the retention that each *)
(* verified run is followed by.  The run ledger is what the Scheduler's    *)
(* facade shows of it: module Scheduler models the rest.                   *)
(*                                                                         *)
(* A ledger call is one transaction and a file operation one system call;  *)
(* between two of them a task may be overtaken, fail, or die.              *)
EXTENDS Integers, FiniteSets

CONSTANTS
    Destinations, \* marked directories, by destination ID
    Slots,        \* the daily instants a backup is due at
    Tasks,        \* task processes ever started; each makes at most one artifact,
                  \* and its number is the random part of the artifact's name
    PerDay,       \* instants in a WIB date
    Window,       \* the dates retention keeps
    MaxTime       \* bound of the clock

MaxAttempts == 3
Instants == 0 .. MaxTime

\* A setup run is named by its destination, a daily run by its slot.
RunIds == Destinations \cup Slots

ASSUME BackupAssumption ==
    /\ Destinations # {} /\ Destinations \cap Int = {}
    /\ Slots \subseteq Nat /\ Tasks \subseteq Nat
    /\ PerDay \in Nat \ {0} /\ Window \in Nat \ {0}
    /\ MaxTime \in Nat

VARIABLES
    clock,
    configured, \* the destination the configuration names
    runs,       \* bnest_schedule_runs of the backup's schedule
    tasks,      \* what each task process is doing
    pairs       \* the artifacts of every destination that have a receipt

ledgerVars == <<configured, runs>>
vars == <<clock, ledgerVars, tasks, pairs>>

Artifact == [name : Tasks, dest : Destinations, run : RunIds, created : Instants]
Date(instant) == instant \div PerDay

\* A run's row; verified holds the artifact it was verified with, if any.
NoRun == [state |-> "none", attempt |-> 0, finished |-> 0, verified |-> {}]
Unborn == [pc |-> "unborn", run |-> {}, attempt |-> 0, now |-> 0, dest |-> {},
           made |-> {}, todo |-> {}]
Ended == [Unborn EXCEPT !.pc = "ended"]

Init ==
    /\ clock = 0
    /\ configured \in Destinations
    /\ runs = [r \in RunIds |-> NoRun]
    /\ tasks = [t \in Tasks |-> Unborn]
    /\ pairs = {}

Becomes(t, task) == tasks' = [tasks EXCEPT ![t] = task]
Goes(t, pc) == Becomes(t, [tasks[t] EXCEPT !.pc = pc])

---------------------------------------------------------------------------
(* Claims: a row becomes running under a new attempt and a task is started *)
(* with it; claim times are the tick's.                                    *)

Starts(t, r, pc, attempt) ==
    /\ tasks[t] = Unborn
    /\ Becomes(t, [Unborn EXCEPT !.pc = pc, !.run = {r}, !.attempt = attempt, !.now = clock])

Attempt(r) == [runs[r] EXCEPT !.state = "running", !.attempt = @ + 1]

ClaimSlot(t, s) ==
    /\ s <= clock /\ \A later \in Slots : later >= s => runs[later] = NoRun
    /\ runs' = [runs EXCEPT ![s] = Attempt(s)]
    /\ Starts(t, s, "claimed", 1)
    /\ UNCHANGED <<clock, configured, pairs>>

\* A retryable run counted its next attempt when the last one failed.  The
\* task of a running one died, which is to take no further step, or its lease
\* was not renewed in time.
Rerun(r) == IF runs[r].state = "retryable" THEN [runs[r] EXCEPT !.state = "running"]
                                           ELSE Attempt(r)

Recover(t, r) ==
    /\ \/ runs[r].state = "retryable"
       \/ runs[r].state = "running" /\ runs[r].attempt < MaxAttempts
    /\ runs' = [runs EXCEPT ![r] = Rerun(r)]
    /\ Starts(t, r, "claimed", Rerun(r).attempt)
    /\ UNCHANGED <<clock, configured, pairs>>

\* The third attempt was lost too.
GiveUp(r) ==
    /\ runs[r].state = "running" /\ runs[r].attempt = MaxAttempts
    /\ runs' = [runs EXCEPT ![r].state = "failed"]
    /\ UNCHANGED <<clock, configured, tasks, pairs>>

\* The operator's page saves the destination, then claims its setup run, the
\* one there is in whatever state, and has its attempt executed (again); a
\* page that dies in between only saved.
SaveDestination(d) ==
    /\ configured' = d
    /\ \/ UNCHANGED <<runs, tasks>>
       \/ /\ runs' = IF runs[d] = NoRun THEN [runs EXCEPT ![d] = Attempt(d)] ELSE runs
          /\ \E t \in Tasks : Starts(t, d, "asked", runs'[d].attempt)
    /\ UNCHANGED <<clock, pairs>>

---------------------------------------------------------------------------
(* ScheduledBackupTask.execute/2.                                          *)

Run(t) == CHOOSE r \in RunIds : tasks[t].run = {r}
Dest(t) == CHOOSE d \in Destinations : tasks[t].dest = {d}

\* The attempt still runs, by the ledger.
Active(t) == runs[Run(t)].state = "running" /\ runs[Run(t)].attempt = tasks[t].attempt

\* destination/0 names the directory the whole task works in.  A run the
\* page started reads the clock only now.
Begin(t) ==
    /\ tasks[t].pc \in {"claimed", "asked"}
    /\ Becomes(t, [tasks[t] EXCEPT !.pc = "copying", !.dest = {configured},
                       !.now = IF tasks[t].pc = "asked" THEN clock ELSE @])
    /\ UNCHANGED <<clock, ledgerVars, pairs>>

\* Fault: any destination will do for a setup run.
DestinationAny(t) == TRUE

DestinationMatches(t) == Run(t) \in Destinations => Run(t) = Dest(t)

\* A setup run of a destination that is configured no longer.
Skip(t) ==
    /\ tasks[t].pc = "copying" /\ ~DestinationMatches(t)
    /\ runs' = IF Active(t) THEN [runs EXCEPT ![Run(t)].state = "skipped"] ELSE runs
    /\ Becomes(t, Ended)
    /\ UNCHANGED <<clock, configured, pairs>>

\* before_promote, once the copy is made and proved.  An attempt that runs no
\* longer ends here: there is nothing for it to record.  One whose lease had
\* passed when it began fails.
CheckClaim(t) ==
    /\ tasks[t].pc = "copying" /\ DestinationMatches(t)
    /\ IF Active(t) THEN Goes(t, "promoting") ELSE Becomes(t, Ended)
    /\ UNCHANGED <<clock, ledgerVars, pairs>>

\* The copy is renamed and its receipt written.  A task that dies in between
\* leaves a file that nothing counts, so the two are one step.
Promote(t) ==
    /\ tasks[t].pc = "promoting"
    /\ LET made == [name |-> t, dest |-> Dest(t), run |-> Run(t), created |-> tasks[t].now]
       IN  /\ pairs' = pairs \cup {made}
           /\ Becomes(t, [tasks[t] EXCEPT !.pc = "promoted", !.made = {made}])
    /\ UNCHANGED <<clock, ledgerVars>>

\* complete_run/4, of the attempt that still runs.
Complete(t) ==
    /\ tasks[t].pc = "promoted"
    /\ IF Active(t)
       THEN /\ runs' = [runs EXCEPT ![Run(t)].state = "verified",
                            ![Run(t)].finished = tasks[t].now,
                            ![Run(t)].verified = tasks[t].made]
            /\ Becomes(t, [Unborn EXCEPT !.pc = "verified", !.dest = tasks[t].dest])
       ELSE UNCHANGED runs /\ Becomes(t, Ended)
    /\ UNCHANGED <<clock, configured, pairs>>

\* after_failure/2: the next attempt is counted at once, if there is one.
AfterFailure(r) ==
    IF runs[r].attempt < MaxAttempts
    THEN [runs[r] EXCEPT !.state = "retryable", !.attempt = @ + 1]
    ELSE [runs[r] EXCEPT !.state = "failed"]

\* Fault: an attempt that runs no longer fails its run all the same.
FailAnyway(t) ==
    /\ tasks[t].pc \in {"claimed", "asked", "copying", "promoting", "promoted"}
    /\ runs' = [runs EXCEPT ![Run(t)] = AfterFailure(Run(t))]
    /\ Becomes(t, Ended)
    /\ UNCHANGED <<clock, configured, pairs>>

\* No room, an aborted or corrupt copy, a lease that has passed, a file or
\* ledger call that raises: fail_attempt/5, of the attempt that still runs.
Fail(t) ==
    /\ tasks[t].pc \in {"claimed", "asked", "copying", "promoting", "promoted"}
    /\ runs' = IF Active(t) THEN [runs EXCEPT ![Run(t)] = AfterFailure(Run(t))] ELSE runs
    /\ Becomes(t, Ended)
    /\ UNCHANGED <<clock, configured, pairs>>

\* Retention may raise too, at a file that went away; the run is verified by
\* then, and fail_attempt/5 refuses to change it.
BreakOff(t) ==
    /\ tasks[t].pc \in {"verified", "retaining"}
    /\ Becomes(t, Ended)
    /\ UNCHANGED <<clock, ledgerVars, pairs>>

---------------------------------------------------------------------------
(* Retention.                                                              *)

\* Receipts of the directory whose artifact is there and unchanged.
Owned(d) == {a \in pairs : a.dest = d}

\* newest_first/1 sorts by the receipts' time alone and leaves ties in the
\* order of their names.
Newer(a, b) == a.created > b.created \/ (a.created = b.created /\ a.name < b.name)

NewestOfDate(a, S) == \A b \in S : Date(b.created) = Date(a.created) => ~Newer(b, a)

\* Fault: the oldest of each date is kept.
OldestOfDate(a, S) == \A b \in S : Date(b.created) = Date(a.created) => ~Newer(a, b)

LaterDates(a, S) == {Date(b.created) : b \in {c \in S : Date(c.created) > Date(a.created)}}
InWindow(a, S) == Cardinality(LaterDates(a, S)) < Window

\* Fault: retention keeps the oldest pair of each date.
RetainedOldest(S) == {a.run : a \in {b \in S : OldestOfDate(b, S) /\ InWindow(b, S)}}

\* retained_run_ids/1: pairs are kept by the run they belong to.
RetainedRuns(S) == {a.run : a \in {b \in S : NewestOfDate(b, S) /\ InWindow(b, S)}}

\* The receipts and digests are read one after the other; a pair that comes or
\* goes meanwhile is as good as there or gone before.
ListOwned(t) ==
    /\ tasks[t].pc = "verified"
    /\ LET owned == Owned(Dest(t))
       IN  Becomes(t, [tasks[t] EXCEPT !.pc = "retaining",
                           !.todo = {a \in owned : a.run \notin RetainedRuns(owned)}])
    /\ UNCHANGED <<clock, ledgerVars, pairs>>

\* The pairs go newest first, an artifact before its receipt: what is left in
\* between is counted by nothing either.
Remove(t, a) ==
    /\ tasks[t].pc = "retaining"
    /\ a \in tasks[t].todo /\ \A b \in tasks[t].todo : ~Newer(b, a)
    /\ pairs' = pairs \ {a}
    /\ Becomes(t, [tasks[t] EXCEPT !.todo = @ \ {a}])
    /\ UNCHANGED <<clock, ledgerVars>>

\* What reconcile/2 then reports changes nothing.
Finish(t) ==
    /\ tasks[t].pc = "retaining" /\ tasks[t].todo = {}
    /\ Becomes(t, Ended)
    /\ UNCHANGED <<clock, ledgerVars, pairs>>

Advance ==
    /\ clock < MaxTime
    /\ clock' = clock + 1
    /\ UNCHANGED <<ledgerVars, tasks, pairs>>

Claim(t) ==
    \/ \E s \in Slots : ClaimSlot(t, s)
    \/ \E r \in RunIds : Recover(t, r)

Execute(t) ==
    \/ Begin(t) \/ Skip(t) \/ CheckClaim(t) \/ Promote(t) \/ Complete(t) \/ Fail(t)

Retain(t) ==
    \/ ListOwned(t) \/ Finish(t) \/ BreakOff(t)
    \/ \E a \in tasks[t].todo : Remove(t, a)

Next ==
    \/ \E t \in Tasks : Claim(t) \/ Execute(t) \/ Retain(t)
    \/ \E r \in RunIds : GiveUp(r)
    \/ \E d \in Destinations : SaveDestination(d)
    \/ Advance

Spec == Init /\ [][Next]_vars

---------------------------------------------------------------------------
(* Properties.                                                             *)

Stages == {"unborn", "ended", "claimed", "asked", "copying", "promoting", "promoted", "verified", "retaining"}

Optional(S) == {{}} \cup {{x} : x \in S}

\* The ledger, the tasks and the directories keep their types.
BackupTypeOK ==
    /\ clock \in Instants
    /\ configured \in Destinations
    /\ runs \in [RunIds -> [state : {"none", "running", "retryable", "verified",
                                     "failed", "skipped"},
                            attempt : 0 .. MaxAttempts, finished : Instants,
                            verified : Optional(Artifact)]]
    /\ \A r \in RunIds : runs[r].attempt = 0 <=> runs[r].state = "none"
    /\ tasks \in [Tasks -> [pc : Stages, run : Optional(RunIds), attempt : 0 .. MaxAttempts,
                            now : Instants, dest : Optional(Destinations),
                            made : Optional(Artifact), todo : SUBSET Artifact]]
    /\ pairs \subseteq Artifact

\* What a run was verified with is never taken back: not by another execution
\* of the same attempt, a late failure, or the page that asks for it again.
VerifiedStays ==
    [][\A r \in RunIds : runs[r].state = "verified" => runs'[r] = runs[r]]_vars

\* Whatever tasks overlap, overtake each other or die while they promote and
\* retain, the date of every verified run keeps a backup at least as new as
\* that run's, until Window later dates have one in the same directory.
EveryDateKept ==
    \A r \in RunIds : \A a \in runs[r].verified :
        \/ \E b \in Owned(a.dest) : Date(b.created) = Date(a.created) /\ ~Newer(a, b)
        \/ ~InWindow(a, Owned(a.dest))

\* A setup run verifies the destination it was claimed for, although the
\* operator may configure another one at any moment of it.
SetupVerifiesDestination ==
    \A d \in Destinations : \A a \in runs[d].verified : a.dest = d

\* expected/1: the newest verified run of each of the latest dates; ties in
\* time go by run_id, which is random too.
VerifiedRuns == {r \in RunIds : runs[r].state = "verified"}
Expected ==
    {r \in VerifiedRuns :
        /\ \A q \in VerifiedRuns :
               Date(runs[q].finished) = Date(runs[r].finished)
                   => q = r \/ runs[q].finished < runs[r].finished
        /\ Cardinality({Date(runs[q].finished) :
                            q \in {v \in VerifiedRuns :
                                      Date(runs[v].finished) > Date(runs[r].finished)}}) < Window}

\* With every task ended, the run that reconciliation expects of a retained
\* date is one whose artifact retention has kept.
ExpectedKept ==
    (\A t \in Tasks : tasks[t].pc \in {"unborn", "ended"})
        => \A r \in Expected : runs[r].verified \subseteq pairs
=============================================================================
