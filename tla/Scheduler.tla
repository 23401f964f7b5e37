---------------------------- MODULE Scheduler ----------------------------
(* The Scheduler bounded context of bnest-app: persisted daily schedules,  *)
(* the ledger of the runs claimed from them, one coordinator process per   *)
(* BEAM node that claims due work on every tick, and the task processes    *)
(* that execute the claims.  Several nodes may share the one SQLite file:  *)
(* a release boots its candidate beside the active backend.                *)
(*                                                                         *)
(* A ledger change is one SQLite immediate transaction, hence one action.  *)
(* Between two transactions of a process anything else may happen.         *)
EXTENDS Integers, FiniteSets

CONSTANTS
    Schedules,        \* schedule keys
    BackupSchedule,   \* the one editable key; setup runs belong to it
    Destinations,     \* backup destination IDs, the claim keys of setup runs
    Expiration,       \* schedule key -> [kind, at, max], fixed by the seeds
    InitialDaily,     \* schedule key -> seeded daily slot, an offset in the day
    InitiallyEnabled, \* the schedules seeded enabled
    DailyTimes,       \* the daily slots an operator or a release may choose
    Nodes,            \* BEAM nodes sharing the database
    Pids,             \* identifiers of task processes
    Admins,           \* open admin pages
    Day, Lease, RetryWait1, RetryWait2, \* durations
    NoTime,           \* SQL NULL in a time column
    MaxTime,          \* bound of the clock
    MaxRevision       \* bound of a schedule's revision

MaxAttempts == 3

Instants == 0 .. MaxTime
Claims == Instants \cup Destinations
RunKeys == Schedules \X Claims

ASSUME KeysAssumption ==
    /\ BackupSchedule \in Schedules
    /\ Destinations \cap Int = {}
    /\ InitiallyEnabled \subseteq Schedules

ASSUME TimeAssumption ==
    /\ Day \in Nat \ {0} /\ Lease \in Nat \ {0}
    /\ RetryWait1 \in Nat /\ RetryWait2 \in Nat
    /\ MaxTime \in Nat /\ MaxRevision \in Nat
    /\ Day <= MaxTime
    /\ NoTime \notin Int
    /\ DailyTimes \subseteq 0 .. Day - 1
    /\ InitialDaily \in [Schedules -> DailyTimes]

ASSUME ExpirationAssumption ==
    Expiration \in [Schedules -> [kind : {"never", "at", "after_occurrences"},
                                  at : Int, max : Nat \ {0}]]

VARIABLES
    clock,      \* the host's wall clock, shared by the nodes
    schedules,  \* bnest_schedules, by schedule key
    runs,       \* bnest_schedule_runs, by primary key (schedule, claim)
    started,    \* claims a node has taken but not yet handed to a process
    tasks,      \* the running task processes
    forms       \* what each open admin page last read of the backup schedule

vars == <<clock, schedules, runs, started, tasks, forms>>

---------------------------------------------------------------------------
(* Scheduler.Domain.Policy: the time and attempt rules.                    *)

SlotOn(daily, now) == now - (now % Day) + daily

LatestSlot(daily, now) ==
    IF SlotOn(daily, now) > now THEN SlotOn(daily, now) - Day
                                ELSE SlotOn(daily, now)

NextSlot(daily, now) ==
    IF SlotOn(daily, now) > now THEN SlotOn(daily, now)
                                ELSE SlotOn(daily, now) + Day

LeaseUntil(now) == now + Lease

RetryAt(attempt, now) == CASE attempt = 1 -> now + RetryWait1
                           [] attempt = 2 -> now + RetryWait2
                           [] OTHER       -> NoTime

\* A NULL column compares with nothing.
Passed(time) == time # NoTime /\ time <= clock

\* Fault: one occurrence past the limit.
FinalOccurrenceLate(s, occurrence) ==
    Expiration[s].kind = "after_occurrences" /\ occurrence > Expiration[s].max

FinalOccurrence(s, occurrence) ==
    Expiration[s].kind = "after_occurrences" /\ occurrence >= Expiration[s].max

\* The schedule still admits a claim of slot.
Eligible(s, slot) ==
    CASE Expiration[s].kind = "never" -> TRUE
      [] Expiration[s].kind = "at"    -> Expiration[s].at > slot
      [] OTHER -> schedules[s].claimed < Expiration[s].max

---------------------------------------------------------------------------
Absent == [state |-> "absent", attempt |-> 0, lease |-> NoTime,
           retryAt |-> NoTime, occurrence |-> 0]

FirstAttempt(occurrence) ==
    [state |-> "running", attempt |-> 1, lease |-> LeaseUntil(clock),
     retryAt |-> NoTime, occurrence |-> occurrence]

\* Fault: the failure category is written into the state column.
SettledAsCategory(run, state) ==
    [run EXCEPT !.state = IF state = "failed" THEN "attempt_limit" ELSE state,
                !.lease = NoTime, !.retryAt = NoTime]

\* A run that leaves "running" or "retryable" for good.
Settled(run, state) ==
    [run EXCEPT !.state = state, !.lease = NoTime, !.retryAt = NoTime]

States == {"absent", "running", "retryable", "verified", "failed", "skipped"}
Terminal == {"verified", "failed", "skipped"}

\* A claim is held by the tick that took it, with the tick's time, or by the
\* page that asked for it; run_now/1 reads the clock only when its task starts.
Claim(key, by) == [key |-> key, attempt |-> runs'[key].attempt, by |-> by,
                   now |-> IF by = "tick" THEN clock ELSE 0]

ClaimSet == [key : RunKeys, attempt : Nat, now : Instants, by : {"tick", "page"}]
TaskSet == [pid : Pids, node : Nodes, claim : ClaimSet,
            pc : {"executing", "failing"}]

\* Fault: the fence checks the attempt number alone.
RunningAttemptOnly(key, attempt) == runs[key].attempt = attempt

Running(key, attempt) ==
    runs[key].state = "running" /\ runs[key].attempt = attempt

Init ==
    /\ clock = Day
    /\ schedules = [s \in Schedules |->
           [daily |-> InitialDaily[s], enabled |-> s \in InitiallyEnabled,
            claimed |-> 0, expired |-> FALSE,
            next |-> LatestSlot(InitialDaily[s], Day), revision |-> 1]]
    /\ runs = [k \in RunKeys |-> Absent]
    /\ started = [n \in Nodes |-> {}]
    /\ tasks = {}
    /\ forms = [a \in Admins |-> [daily |-> InitialDaily[BackupSchedule],
                                  enabled |-> BackupSchedule \in InitiallyEnabled,
                                  revision |-> 1]]

---------------------------------------------------------------------------
(* The coordinator: claim_due/1 and the dispatch of what it returned.      *)

DueSchedules == {s \in Schedules : /\ schedules[s].enabled
                                   /\ ~schedules[s].expired
                                   /\ Passed(schedules[s].next)}

\* Fault: the slot that was due, rather than the latest one, is claimed.
OldestSlot(s) == <<s, schedules[s].next>>

DueSlot(s) == <<s, LatestSlot(schedules[s].daily, clock)>>

\* INSERT OR IGNORE: a slot already in the ledger is not claimed again.
Claimable == {s \in DueSchedules : /\ Eligible(s, DueSlot(s)[2])
                                   /\ runs[DueSlot(s)].state = "absent"}

Expiring == {s \in DueSchedules : ~Eligible(s, DueSlot(s)[2])}

\* Fault: a run whose lease expired is not looked for.
RetryableOnly ==
    {k \in RunKeys : runs[k].state = "retryable" /\ Passed(runs[k].retryAt)}

Recoverable ==
    {k \in RunKeys :
        \/ runs[k].state = "retryable" /\ Passed(runs[k].retryAt)
        \/ runs[k].state = "running" /\ Passed(runs[k].lease)}

\* Fault: an off-by-one in the attempt limit.
AttemptsSpentLate(run) == run.state = "running" /\ run.attempt > MaxAttempts

\* A lost attempt at the limit fails; a waiting attempt runs; a lost one is
\* followed by the next.
AttemptsSpent(run) == run.state = "running" /\ run.attempt >= MaxAttempts

\* Fault: a run whose lease expired runs again under the same attempt.
RecoveredUnfenced(run) ==
    IF AttemptsSpent(run) THEN Settled(run, "failed")
    ELSE [run EXCEPT !.state = "running", !.lease = LeaseUntil(clock),
                     !.retryAt = NoTime]

Recovered(run) ==
    IF AttemptsSpent(run) THEN Settled(run, "failed")
    ELSE [run EXCEPT !.state = "running",
                     !.attempt = IF run.state = "retryable" THEN @ ELSE @ + 1,
                     !.lease = LeaseUntil(clock), !.retryAt = NoTime]

\* Fault: the next run is not moved.
ClaimedScheduleStuck(s) ==
    LET occurrence == schedules[s].claimed + 1
    IN  [schedules[s] EXCEPT !.claimed = occurrence,
                             !.expired = FinalOccurrence(s, occurrence)]

ClaimedSchedule(s) ==
    LET occurrence == schedules[s].claimed + 1
    IN  [schedules[s] EXCEPT !.claimed = occurrence,
                             !.expired = FinalOccurrence(s, occurrence),
                             !.next = NextSlot(schedules[s].daily, clock)]

\* One transaction claims every due slot and recovers every lost or waiting
\* run; the coordinator then holds the claims it has to start.
Tick(n) ==
    /\ \A c \in started[n] : c.by # "tick"
    /\ DueSchedules \cup Recoverable # {}
    /\ schedules' = [s \in Schedules |->
           IF s \in Claimable THEN ClaimedSchedule(s)
           ELSE IF s \in Expiring THEN [schedules[s] EXCEPT !.expired = TRUE]
           ELSE schedules[s]]
    /\ runs' = [k \in RunKeys |->
           IF k[1] \in Claimable /\ k = DueSlot(k[1])
           THEN FirstAttempt(schedules[k[1]].claimed + 1)
           ELSE IF k \in Recoverable THEN Recovered(runs[k])
           ELSE runs[k]]
    /\ started' = [started EXCEPT ![n] = @ \cup
           {Claim(k, "tick") : k \in
               {DueSlot(s) : s \in Claimable} \cup
               {k \in Recoverable : ~AttemptsSpent(runs[k])}}]
    /\ UNCHANGED <<clock, tasks, forms>>

\* A task starts under the supervisor.
StartTask(n, c, pid) ==
    /\ c \in started[n]
    /\ \A t \in tasks : t.pid # pid
    /\ started' = [started EXCEPT ![n] = @ \ {c}]
    /\ tasks' = tasks \cup
           {[pid |-> pid, node |-> n, pc |-> "executing",
             claim |-> IF c.by = "tick" THEN c ELSE [c EXCEPT !.now = clock]]}
    /\ UNCHANGED <<clock, schedules, runs, forms>>

\* The coordinator or the page dies, or a start raises, before the start.
LoseStart(n, c) ==
    /\ c \in started[n]
    /\ started' = [started EXCEPT ![n] = @ \ {c}]
    /\ UNCHANGED <<clock, schedules, runs, tasks, forms>>

---------------------------------------------------------------------------
(* The task process: Scheduler.Run and the handler it calls.               *)

Ends(t) == tasks' = tasks \ {t}
Becomes(t, u) == tasks' = (tasks \ {t}) \cup {u}

\* The handler finished: complete/5 or skip/5.  A refused attempt is an error
\* of the handler, which goes on to record its failure.
Settle(t, state) ==
    /\ t.pc = "executing"
    /\ IF Running(t.claim.key, t.claim.attempt)
       THEN /\ runs' = [runs EXCEPT ![t.claim.key] = Settled(@, state)]
            /\ Ends(t)
       ELSE /\ Becomes(t, [t EXCEPT !.pc = "failing"])
            /\ UNCHANGED runs
    /\ UNCHANGED <<clock, schedules, started, forms>>

Complete(t) == Settle(t, "verified")

\* Only a setup claim is skipped: its destination is no longer configured.
\* The result of skip/5 is ignored.
Skip(t) ==
    /\ t.pc = "executing"
    /\ t.claim.key[2] \in Destinations
    /\ runs' = IF Running(t.claim.key, t.claim.attempt)
               THEN [runs EXCEPT ![t.claim.key] = Settled(@, "skipped")]
               ELSE runs
    /\ Ends(t)
    /\ UNCHANGED <<clock, schedules, started, forms>>

\* The handler returned an error or raised.
HandlerFails(t) ==
    /\ t.pc = "executing"
    /\ Becomes(t, [t EXCEPT !.pc = "failing"])
    /\ UNCHANGED <<clock, schedules, runs, started, forms>>

\* Fault: the wait is looked up by the attempt that comes next.
AfterFailureNextWait(run, now) ==
    IF run.attempt < MaxAttempts
    THEN [run EXCEPT !.state = "retryable", !.attempt = @ + 1, !.lease = NoTime,
                     !.retryAt = RetryAt(run.attempt + 1, now)]
    ELSE Settled(run, "failed")

AfterFailure(run, now) ==
    IF run.attempt < MaxAttempts
    THEN [run EXCEPT !.state = "retryable", !.attempt = @ + 1, !.lease = NoTime,
                     !.retryAt = RetryAt(run.attempt, now)]
    ELSE Settled(run, "failed")

\* fail_attempt/5 with the time the task was given, then the process ends.
RecordFailure(t) ==
    /\ t.pc = "failing"
    /\ runs' = IF Running(t.claim.key, t.claim.attempt)
               THEN [runs EXCEPT ![t.claim.key] = AfterFailure(@, t.claim.now)]
               ELSE runs
    /\ Ends(t)
    /\ UNCHANGED <<clock, schedules, started, forms>>

\* The process is killed, or the database stays unavailable while it records.
TaskLost(t) ==
    /\ Ends(t)
    /\ UNCHANGED <<clock, schedules, runs, started, forms>>

\* The renewer beside the task.  It may stop early (told to, refused, or the
\* database is gone) and outlives a handler that raised until the process ends;
\* once refused it would be refused for ever, so only renewals are steps.
Renew(t) ==
    /\ Running(t.claim.key, t.claim.attempt)
    /\ runs' = [runs EXCEPT ![t.claim.key].lease = LeaseUntil(clock)]
    /\ UNCHANGED <<clock, schedules, started, tasks, forms>>

\* A node goes down with its coordinator, its pages and its tasks; the next
\* Tick of the node is the boot tick of its successor.
Crash(n) ==
    /\ started[n] # {} \/ \E t \in tasks : t.node = n
    /\ started' = [started EXCEPT ![n] = {}]
    /\ tasks' = {t \in tasks : t.node # n}
    /\ UNCHANGED <<clock, schedules, runs, forms>>

---------------------------------------------------------------------------
(* Operators and releases.                                                 *)

\* Saving a backup folder claims its setup run once; a second save gets the
\* run already there, whatever its state, and starts it again.  The page of a
\* node starts what it claimed before it handles another save.
ClaimSetup(n, d) ==
    LET key == <<BackupSchedule, d>>
    IN  /\ \A c \in started[n] : c.by # "page"
        /\ runs' = IF runs[key].state = "absent"
                   THEN [runs EXCEPT ![key] = FirstAttempt(0)]
                   ELSE runs
        /\ started' = [started EXCEPT ![n] = @ \cup {Claim(key, "page")}]
        /\ UNCHANGED <<clock, schedules, tasks, forms>>

Shown(s) == [daily |-> schedules[s].daily, enabled |-> schedules[s].enabled,
             revision |-> schedules[s].revision]

OpenPage(a) ==
    /\ forms[a] # Shown(BackupSchedule)
    /\ forms' = [forms EXCEPT ![a] = Shown(BackupSchedule)]
    /\ UNCHANGED <<clock, schedules, runs, started, tasks>>

\* Fault: an edit leaves the revision alone.
EditedSilently(s, daily, enabled) ==
    [schedules[s] EXCEPT !.daily = daily, !.enabled = enabled,
                         !.next = NextSlot(daily, clock)]

Edited(s, daily, enabled) ==
    [schedules[s] EXCEPT !.daily = daily, !.enabled = enabled,
                         !.next = NextSlot(daily, clock), !.revision = @ + 1]

\* update_daily/6 at the revision the page read; the page then reads again.
SaveSchedule(a, daily, enabled) ==
    LET s == BackupSchedule
    IN  /\ schedules[s].revision = forms[a].revision
        /\ schedules[s].revision < MaxRevision
        /\ schedules' = [schedules EXCEPT ![s] = Edited(s, daily, enabled)]
        /\ forms' = [forms EXCEPT ![a] = [daily |-> daily, enabled |-> enabled,
                                          revision |-> schedules[s].revision + 1]]
        /\ UNCHANGED <<clock, runs, started, tasks>>

\* Fault: the convergence leaves the revision at 1.
ConvergeSilently(daily) ==
    /\ schedules[BackupSchedule].revision = 1
    /\ schedules' = [schedules EXCEPT ![BackupSchedule].daily = daily,
                                      ![BackupSchedule].next = NextSlot(daily, clock)]
    /\ UNCHANGED <<clock, runs, started, tasks, forms>>

\* A release moves the still pristine backup schedule to its daily time.
Converge(daily) ==
    /\ schedules[BackupSchedule].revision = 1
    /\ MaxRevision > 1
    /\ schedules' = [schedules EXCEPT ![BackupSchedule] =
           Edited(BackupSchedule, daily, schedules[BackupSchedule].enabled)]
    /\ UNCHANGED <<clock, runs, started, tasks, forms>>

\* A release enables a still pristine schedule; its next run does not move.
Activate(s) ==
    /\ schedules[s].revision = 1
    /\ MaxRevision > 1
    /\ schedules' = [schedules EXCEPT ![s] =
           [schedules[s] EXCEPT !.enabled = TRUE, !.revision = @ + 1]]
    /\ UNCHANGED <<clock, runs, started, tasks, forms>>

Advance ==
    /\ clock < MaxTime
    /\ clock' = clock + 1
    /\ UNCHANGED <<schedules, runs, started, tasks, forms>>

---------------------------------------------------------------------------
Coordinator == \E n \in Nodes :
    \/ Tick(n)
    \/ \E c \in started[n] : LoseStart(n, c) \/ \E pid \in Pids : StartTask(n, c, pid)
    \/ Crash(n)

Task == \E t \in tasks :
    \/ Complete(t) \/ Skip(t) \/ HandlerFails(t)
    \/ RecordFailure(t) \/ TaskLost(t) \/ Renew(t)

Operator ==
    \/ \E n \in Nodes, d \in Destinations : ClaimSetup(n, d)
    \/ \E a \in Admins : OpenPage(a)
    \/ \E a \in Admins, daily \in DailyTimes, b \in BOOLEAN : SaveSchedule(a, daily, b)

Release ==
    \/ \E daily \in DailyTimes : Converge(daily)
    \/ \E s \in Schedules : Activate(s)

Next == Coordinator \/ Task \/ Operator \/ Release \/ Advance

Spec == Init /\ [][Next]_vars

---------------------------------------------------------------------------
(* Properties.                                                             *)

\* The claims held anywhere: waiting to start, or in a task.
Held == (UNION {started[n] : n \in Nodes}) \cup {t.claim : t \in tasks}

TypeOK ==
    /\ clock \in Instants
    /\ schedules \in [Schedules -> [daily : DailyTimes, enabled : BOOLEAN,
           claimed : Nat, expired : BOOLEAN, next : Int, revision : Nat \ {0}]]
    /\ runs \in [RunKeys -> [state : States, attempt : Nat, occurrence : Nat,
           lease : Int \cup {NoTime}, retryAt : Int \cup {NoTime}]]
    /\ started \in [Nodes -> SUBSET ClaimSet]
    /\ tasks \subseteq TaskSet
    /\ forms \in [Admins -> [daily : DailyTimes, enabled : BOOLEAN,
                             revision : Nat \ {0}]]

\* However its failures and its lost leases mix, and whichever coordinators
\* recover it, a run is never given a fourth attempt
\* (Policy.recovery/1 and Policy.after_failure/2 bound it together).
AttemptBudget ==
    /\ \A k \in RunKeys : runs[k].attempt <= MaxAttempts
    /\ \A c \in Held : c.attempt <= MaxAttempts

\* Two coordinators, retries, lost leases and crashes never put one attempt of
\* a daily run in two hands: the attempt number is a fencing token.  (A setup
\* run asked for twice is the exception: claim_setup/4 hands out the same
\* attempt again.)
OneExecutionPerAttempt ==
    LET slotClaim(c) == c.key[2] \in Instants
        waiting(n, c) == slotClaim(c) /\ c \in started[n]
        same(c, d) == c.key = d.key /\ c.attempt = d.attempt
    IN  /\ \A n, m \in Nodes : \A c \in started[n], d \in started[m] :
               slotClaim(c) /\ same(c, d) => n = m /\ c = d
        /\ \A t, u \in tasks : slotClaim(t.claim) /\ same(t.claim, u.claim) => t = u
        /\ \A n \in Nodes : \A c \in started[n], t \in tasks :
               slotClaim(c) => ~same(c, t.claim)

\* A run that still has to end carries the one time the recovery scan looks
\* for, and only that one: nothing is stranded, nothing is recovered twice.
Recoverability ==
    \A k \in RunKeys :
        /\ runs[k].state = "running" <=> runs[k].lease # NoTime
        /\ runs[k].state = "retryable" <=> runs[k].retryAt # NoTime

\* The occurrence counter of a schedule numbers its daily runs without a gap
\* shared or reused, and never goes past the schedule's limit; a schedule that
\* reached its limit has expired, and one that expires at an instant has no
\* run for a slot at or after it.
OccurrencesAccounted ==
    \A s \in Schedules :
        LET claimed == {i \in Instants : runs[<<s, i>>].state # "absent"}
        IN  /\ \A i \in claimed : runs[<<s, i>>].occurrence \in 1 .. schedules[s].claimed
            /\ \A i, j \in claimed :
                   runs[<<s, i>>].occurrence < runs[<<s, j>>].occurrence <=> i < j
            /\ Cardinality(claimed) = schedules[s].claimed
            /\ Expiration[s].kind = "after_occurrences" =>
                   /\ schedules[s].claimed <= Expiration[s].max
                   /\ schedules[s].claimed = Expiration[s].max => schedules[s].expired
            /\ Expiration[s].kind = "at" =>
                   \A i \in claimed : i < Expiration[s].at

\* A revision names one content of the editable schedule, whoever wrote it: an
\* operator whose page shows the current revision is looking at the current
\* time and switch, so the save's compare-and-set cannot overwrite an edit or a
\* release convergence the operator never saw.
RevisionNamesContent ==
    \A a \in Admins :
        /\ forms[a].revision <= schedules[BackupSchedule].revision
        /\ forms[a].revision = schedules[BackupSchedule].revision =>
               forms[a] = Shown(BackupSchedule)

\* A verified, failed or skipped run is never touched again: not by a late
\* task of an older attempt, a renewal, a recovery or a repeated setup.
SettledRunsStay ==
    [][\A k \in RunKeys : runs[k].state \in Terminal => runs'[k] = runs[k]]_vars

\* A due slot is passed over only by claiming the latest slot in the same
\* transaction, by expiring the schedule, or by an edit of the schedule.
DueSlotNotLost ==
    [][\A s \in DueSchedules :
           \/ schedules'[s].next = schedules[s].next
           \/ runs[DueSlot(s)].state = "absent" /\ runs'[DueSlot(s)].state = "running"
           \/ schedules'[s].revision > schedules[s].revision]_vars

\* Missed days coalesce: a claimed slot is the newest that has passed, no
\* earlier than the one that was due, and later than every slot claimed before.
ClaimIsNewest ==
    [][\A s \in Schedules : \A i \in Instants :
           runs[<<s, i>>].state = "absent" /\ runs'[<<s, i>>].state # "absent" =>
               /\ schedules[s].next <= i /\ i <= clock /\ clock < i + Day
               /\ \A j \in Instants : runs[<<s, j>>].state # "absent" => j < i]_vars

---------------------------------------------------------------------------
(* Liveness: the minute timer ticks, time passes, a supervisor starts what *)
(* it is asked to, and a handler (every step of it has a timeout) returns. *)

TaskReturns(pid) == \E t \in tasks :
    t.pid = pid /\ (Complete(t) \/ Skip(t) \/ HandlerFails(t) \/ RecordFailure(t))

StartsClaimed(n) == \E c \in started[n], pid \in Pids :
    c.by = "tick" /\ StartTask(n, c, pid)

\* Starting is strongly fair because the finite pool of Pids is a bound of the
\* model: a start in the code never waits for another task to end.
Fairness ==
    /\ WF_vars(Advance)
    /\ \A n \in Nodes :
           /\ WF_vars(Tick(n))
           /\ SF_vars(StartsClaimed(n))
    /\ \A pid \in Pids : WF_vars(TaskReturns(pid))

FairSpec == Spec /\ Fairness

\* The recovery of the run lies beyond the bounded clock.
BeyondHorizon(run) ==
    \/ run.state = "running" /\ run.lease # NoTime /\ run.lease > MaxTime
    \/ run.state = "retryable" /\ run.retryAt # NoTime /\ run.retryAt > MaxTime

\* Every claimed run ends verified, failed or skipped, through any number of
\* crashes, lost starts and failures, unless the bounded clock stops first.
RunsSettle ==
    \A k \in RunKeys :
        runs[k].state \in {"running", "retryable"} ~>
            runs[k].state \in Terminal \/ BeyondHorizon(runs[k])

\* A due schedule does not stay due: its slot is claimed, it expires, or an
\* operator moves or disables it.
DueSchedulesMove == \A s \in Schedules : s \in DueSchedules ~> s \notin DueSchedules
===========================================================================
