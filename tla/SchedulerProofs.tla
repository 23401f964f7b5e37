------------------------- MODULE SchedulerProofs -------------------------
(* Machine-checked theorems about Scheduler, for every number of           *)
(* schedules, destinations, nodes, processes and pages, every duration and *)
(* every length of the clock.                                              *)
EXTENDS Scheduler, FiniteSetTheorems, TLAPS

---------------------------------------------------------------------------
(* The slot arithmetic.                                                    *)

\* The latest slot of a day that has begun is an instant not after now, and
\* less than a day before it; the next slot is the one a day later.
LEMMA SlotFacts ==
    ASSUME NEW daily \in DailyTimes, NEW now \in Int, now >= Day
    PROVE  /\ LatestSlot(daily, now) \in Int
           /\ 0 <= LatestSlot(daily, now)
           /\ LatestSlot(daily, now) <= now
           /\ now < LatestSlot(daily, now) + Day
           /\ NextSlot(daily, now) = LatestSlot(daily, now) + Day
<1>1. Day \in Nat /\ Day > 0 /\ daily \in 0 .. Day - 1
  BY TimeAssumption
<1>2. now % Day \in 0 .. Day - 1
  BY <1>1
<1>3. SlotOn(daily, now) \in Int
  BY <1>1, <1>2 DEF SlotOn
<1>4. CASE SlotOn(daily, now) > now
  BY <1>1, <1>2, <1>3, <1>4 DEF LatestSlot, NextSlot, SlotOn
<1>5. CASE ~(SlotOn(daily, now) > now)
  BY <1>1, <1>2, <1>3, <1>5 DEF LatestSlot, NextSlot, SlotOn
<1>6. QED
  BY <1>4, <1>5

---------------------------------------------------------------------------
(* Type correctness.  A claimed slot is a key of the ledger because the    *)
(* clock starts a day after instant 0 and never goes back.                 *)

TypeInv == TypeOK /\ clock >= Day

Schedule == [daily : DailyTimes, enabled : BOOLEAN, claimed : Nat,
             expired : BOOLEAN, next : Int, revision : Nat \ {0}]
Run == [state : States, attempt : Nat, occurrence : Nat,
        lease : Int \cup {NoTime}, retryAt : Int \cup {NoTime}]

LEMMA RunTypes ==
    ASSUME clock \in Int
    PROVE  /\ Absent \in Run
           /\ \A o \in Nat : FirstAttempt(o) \in Run
           /\ \A r \in Run, st \in States : Settled(r, st) \in Run
           /\ \A r \in Run : Recovered(r) \in Run
           /\ \A r \in Run, now \in Int : AfterFailure(r, now) \in Run
<1>1. Absent \in Run
  BY DEF Absent, Run, States
<1>2. \A o \in Nat : FirstAttempt(o) \in Run
  BY TimeAssumption DEF FirstAttempt, LeaseUntil, Run, States
<1>3. \A r \in Run, st \in States : Settled(r, st) \in Run
  BY DEF Settled, Run
<1>4. ASSUME NEW r \in Run PROVE Recovered(r) \in Run
  <2>1. CASE AttemptsSpent(r)
    BY <1>3, <2>1 DEF Recovered, States
  <2>2. CASE ~AttemptsSpent(r)
    <3>1. /\ LeaseUntil(clock) \in Int
          /\ (IF r.state = "retryable" THEN r.attempt ELSE r.attempt + 1) \in Nat
      BY TimeAssumption DEF LeaseUntil, Run
    <3>2. QED
      BY <2>2, <3>1 DEF Recovered, Run, States
  <2>3. QED
    BY <2>1, <2>2
<1>5. ASSUME NEW r \in Run, NEW now \in Int PROVE AfterFailure(r, now) \in Run
  <2>1. CASE r.attempt < MaxAttempts
    <3>1. RetryAt(r.attempt, now) \in Int \cup {NoTime} /\ r.attempt + 1 \in Nat
      BY TimeAssumption DEF RetryAt, Run
    <3>2. QED
      BY <2>1, <3>1 DEF AfterFailure, Run, States
  <2>2. CASE ~(r.attempt < MaxAttempts)
    BY <1>3, <2>2 DEF AfterFailure, States
  <2>3. QED
    BY <2>1, <2>2
<1>6. QED
  BY <1>1, <1>2, <1>3, <1>4, <1>5

LEMMA ScheduleTypes ==
    ASSUME clock \in Int, clock >= Day, clock <= MaxTime,
           NEW s \in Schedules, schedules[s] \in Schedule
    PROVE  /\ ClaimedSchedule(s) \in Schedule
           /\ \A daily \in DailyTimes, b \in BOOLEAN : Edited(s, daily, b) \in Schedule
           /\ DueSlot(s) \in RunKeys
<1>1. \A daily \in DailyTimes : /\ NextSlot(daily, clock) \in Int
                                /\ LatestSlot(daily, clock) \in Instants
  BY SlotFacts, TimeAssumption DEF Instants
<1>2. schedules[s].daily \in DailyTimes
  BY DEF Schedule
<1>3. ClaimedSchedule(s) \in Schedule
  <2>1. /\ NextSlot(schedules[s].daily, clock) \in Int
        /\ schedules[s].claimed + 1 \in Nat
    BY <1>1, <1>2 DEF Schedule
  <2>2. FinalOccurrence(s, schedules[s].claimed + 1) \in BOOLEAN
    BY DEF FinalOccurrence
  <2>3. QED
    BY <2>1, <2>2 DEF ClaimedSchedule, Schedule
<1>4. ASSUME NEW daily \in DailyTimes, NEW b \in BOOLEAN PROVE Edited(s, daily, b) \in Schedule
  <2>1. /\ NextSlot(daily, clock) \in Int
        /\ schedules[s].revision + 1 \in Nat \ {0}
    BY <1>1 DEF Schedule
  <2>2. QED
    BY <2>1 DEF Edited, Schedule
<1>5. DueSlot(s) \in RunKeys
  BY <1>1, <1>2 DEF DueSlot, RunKeys, Claims
<1>6. QED
  BY <1>3, <1>4, <1>5

\* A new claim of a ledger row is well typed.
LEMMA ClaimTypes ==
    ASSUME clock \in Instants, runs' \in [RunKeys -> Run], NEW k \in RunKeys,
           NEW by \in {"tick", "page"}
    PROVE  Claim(k, by) \in ClaimSet
<1>1. 0 \in Instants
  BY TimeAssumption DEF Instants
<1>2. runs'[k].attempt \in Nat
  BY DEF Run
<1>3. QED
  BY <1>1, <1>2 DEF Claim, ClaimSet

LEMMA TypeInit == Init => TypeInv
<1> SUFFICES ASSUME Init PROVE TypeInv
  OBVIOUS
<1>1. clock \in Instants /\ clock \in Int /\ clock >= Day
  BY TimeAssumption DEF Init, Instants
<1>2. schedules \in [Schedules -> Schedule]
  <2>1. ASSUME NEW s \in Schedules
        PROVE  /\ InitialDaily[s] \in DailyTimes
               /\ LatestSlot(InitialDaily[s], Day) \in Int
    <3>1. InitialDaily[s] \in DailyTimes /\ Day \in Int /\ Day >= Day
      BY TimeAssumption
    <3>2. QED
      BY <3>1, SlotFacts
  <2>2. ASSUME NEW s \in Schedules PROVE schedules[s] \in Schedule
    <3>1. (s \in InitiallyEnabled) \in BOOLEAN
      OBVIOUS
    <3>2. [daily |-> InitialDaily[s], enabled |-> s \in InitiallyEnabled,
           claimed |-> 0, expired |-> FALSE,
           next |-> LatestSlot(InitialDaily[s], Day), revision |-> 1] \in Schedule
      BY <2>1, <3>1 DEF Schedule
    <3>3. QED
      BY <3>2 DEF Init
  <2>3. QED
    BY <2>2 DEF Init
<1>3. runs \in [RunKeys -> Run]
  BY <1>1, RunTypes DEF Init
<1>4. /\ started \in [Nodes -> SUBSET ClaimSet]
      /\ tasks \subseteq TaskSet
  BY DEF Init
<1>5. forms \in [Admins -> [daily : DailyTimes, enabled : BOOLEAN, revision : Nat \ {0}]]
  BY KeysAssumption, TimeAssumption DEF Init
<1>6. QED
  BY <1>1, <1>2, <1>3, <1>4, <1>5 DEF TypeInv, TypeOK, Run, Schedule

LEMMA TypeStep == TypeInv /\ [Next]_vars => TypeInv'
<1> DEFINE Forms == [Admins -> [daily : DailyTimes, enabled : BOOLEAN, revision : Nat \ {0}]]
<1> SUFFICES ASSUME TypeInv, [Next]_vars PROVE TypeInv'
  OBVIOUS
<1>t. /\ clock \in Instants /\ clock \in Int /\ clock >= Day /\ clock <= MaxTime
      /\ schedules \in [Schedules -> Schedule]
      /\ runs \in [RunKeys -> Run]
      /\ started \in [Nodes -> SUBSET ClaimSet]
      /\ tasks \subseteq TaskSet
      /\ forms \in Forms
  BY TimeAssumption DEF TypeInv, TypeOK, Run, Schedule, Instants
<1>g. ASSUME clock' \in Instants, clock' >= Day, schedules' \in [Schedules -> Schedule],
             runs' \in [RunKeys -> Run], started' \in [Nodes -> SUBSET ClaimSet],
             tasks' \subseteq TaskSet, forms' \in Forms
      PROVE  TypeInv'
  BY <1>g DEF TypeInv, TypeOK, Run, Schedule
<1>1. ASSUME NEW n \in Nodes, Tick(n) PROVE TypeInv'
  <2>1. schedules' \in [Schedules -> Schedule]
    <3>1. ASSUME NEW s \in Schedules
          PROVE  /\ ClaimedSchedule(s) \in Schedule
                 /\ [schedules[s] EXCEPT !.expired = TRUE] \in Schedule
                 /\ schedules[s] \in Schedule
      <4>1. schedules[s] \in Schedule
        BY <1>t
      <4>2. [schedules[s] EXCEPT !.expired = TRUE] \in Schedule
        BY <4>1 DEF Schedule
      <4>3. QED
        BY <1>t, <4>1, <4>2, ScheduleTypes
    <3>2. QED
      BY <1>1, <3>1 DEF Tick
  <2>2. runs' \in [RunKeys -> Run]
    <3>1. ASSUME NEW k \in RunKeys
          PROVE  /\ k[1] \in Claimable => FirstAttempt(schedules[k[1]].claimed + 1) \in Run
                 /\ Recovered(runs[k]) \in Run
                 /\ runs[k] \in Run
      <4>1. k[1] \in Schedules /\ schedules[k[1]].claimed + 1 \in Nat
        BY <1>t DEF RunKeys, Schedule
      <4>2. QED
        BY <1>t, <4>1, RunTypes
    <3>2. QED
      BY <1>1, <3>1 DEF Tick
  <2>3. started' \in [Nodes -> SUBSET ClaimSet]
    <3>1. {DueSlot(s) : s \in Claimable} \subseteq RunKeys
      BY <1>t, ScheduleTypes DEF Claimable, DueSchedules
    <3>2. ASSUME NEW k \in RunKeys PROVE Claim(k, "tick") \in ClaimSet
      BY <1>t, <2>2, ClaimTypes
    <3>3. {Claim(k, "tick") : k \in {DueSlot(s) : s \in Claimable} \cup
               {k \in Recoverable : ~AttemptsSpent(runs[k])}} \subseteq ClaimSet
      BY <3>1, <3>2 DEF Recoverable
    <3>4. QED
      BY <1>t, <1>1, <3>3 DEF Tick
  <2>4. QED
    BY <1>t, <1>g, <1>1, <2>1, <2>2, <2>3 DEF Tick
<1>2. ASSUME NEW n \in Nodes, NEW c \in started[n], NEW pid \in Pids, StartTask(n, c, pid)
      PROVE  TypeInv'
  <2>1. c \in ClaimSet /\ [c EXCEPT !.now = clock] \in ClaimSet
    BY <1>t DEF ClaimSet
  <2>2. tasks' \subseteq TaskSet
    BY <1>t, <1>2, <2>1 DEF StartTask, TaskSet
  <2>3. QED
    BY <1>t, <1>g, <1>2, <2>2 DEF StartTask
<1>3. ASSUME NEW n \in Nodes, NEW c \in started[n], LoseStart(n, c) PROVE TypeInv'
  BY <1>t, <1>g, <1>3 DEF LoseStart
<1>4. ASSUME NEW n \in Nodes, Crash(n) PROVE TypeInv'
  BY <1>t, <1>g, <1>4 DEF Crash
<1>s. ASSUME NEW t \in tasks
      PROVE  /\ t.claim.key \in RunKeys
             /\ t.claim.now \in Int
             /\ [t EXCEPT !.pc = "failing"] \in TaskSet
             /\ runs[t.claim.key] \in Run
  BY <1>t DEF TaskSet, ClaimSet, Instants
<1>r. \A r \in Run, st \in States : Settled(r, st) \in Run
  BY <1>t, RunTypes
<1>5. ASSUME NEW t \in tasks, Complete(t) PROVE TypeInv'
  <2>1. runs' \in [RunKeys -> Run]
    BY <1>t, <1>5, <1>s, <1>r DEF Complete, Settle, States
  <2>2. tasks' \subseteq TaskSet
    BY <1>t, <1>5, <1>s DEF Complete, Settle, Ends, Becomes
  <2>3. QED
    BY <1>t, <1>g, <1>5, <2>1, <2>2 DEF Complete, Settle
<1>6. ASSUME NEW t \in tasks, Skip(t) PROVE TypeInv'
  <2>1. runs' \in [RunKeys -> Run]
    BY <1>t, <1>6, <1>s, <1>r DEF Skip, States
  <2>2. QED
    BY <1>t, <1>g, <1>6, <2>1 DEF Skip, Ends
<1>7. ASSUME NEW t \in tasks, HandlerFails(t) PROVE TypeInv'
  BY <1>t, <1>g, <1>7, <1>s DEF HandlerFails, Becomes
<1>8. ASSUME NEW t \in tasks, RecordFailure(t) PROVE TypeInv'
  <2>1. AfterFailure(runs[t.claim.key], t.claim.now) \in Run
    BY <1>t, <1>s, RunTypes
  <2>2. runs' \in [RunKeys -> Run]
    BY <1>t, <1>8, <1>s, <2>1 DEF RecordFailure
  <2>3. QED
    BY <1>t, <1>g, <1>8, <2>2 DEF RecordFailure, Ends
<1>9. ASSUME NEW t \in tasks, TaskLost(t) PROVE TypeInv'
  BY <1>t, <1>g, <1>9 DEF TaskLost, Ends
<1>10. ASSUME NEW t \in tasks, Renew(t) PROVE TypeInv'
  <2>1. LeaseUntil(clock) \in Int
    BY <1>t, TimeAssumption DEF LeaseUntil
  <2>2. runs' \in [RunKeys -> Run]
    BY <1>t, <1>10, <1>s, <2>1 DEF Renew, Run
  <2>3. QED
    BY <1>t, <1>g, <1>10, <2>2 DEF Renew
<1>11. ASSUME NEW n \in Nodes, NEW d \in Destinations, ClaimSetup(n, d) PROVE TypeInv'
  <2>1. <<BackupSchedule, d>> \in RunKeys
    BY KeysAssumption DEF RunKeys, Claims
  <2>2. FirstAttempt(0) \in Run
    BY <1>t, RunTypes
  <2>3. runs' \in [RunKeys -> Run]
    BY <1>t, <1>11, <2>1, <2>2 DEF ClaimSetup
  <2>4. Claim(<<BackupSchedule, d>>, "page") \in ClaimSet
    BY <1>t, <2>1, <2>3, ClaimTypes
  <2>5. QED
    BY <1>t, <1>g, <1>11, <2>3, <2>4 DEF ClaimSetup
<1>12. ASSUME NEW a \in Admins, OpenPage(a) PROVE TypeInv'
  BY <1>t, <1>g, <1>12, KeysAssumption DEF OpenPage, Shown, Schedule
<1>13. ASSUME NEW a \in Admins, NEW daily \in DailyTimes, NEW b \in BOOLEAN,
              SaveSchedule(a, daily, b)
       PROVE  TypeInv'
  <2>1. Edited(BackupSchedule, daily, b) \in Schedule
    BY <1>t, ScheduleTypes, KeysAssumption
  <2>2. schedules[BackupSchedule].revision + 1 \in Nat \ {0}
    BY <1>t, KeysAssumption DEF Schedule
  <2>3. QED
    BY <1>t, <1>g, <1>13, <2>1, <2>2 DEF SaveSchedule
<1>14. ASSUME NEW daily \in DailyTimes, Converge(daily) PROVE TypeInv'
  <2>1. Edited(BackupSchedule, daily, schedules[BackupSchedule].enabled) \in Schedule
    BY <1>t, ScheduleTypes, KeysAssumption DEF Schedule
  <2>2. QED
    BY <1>t, <1>g, <1>14, <2>1 DEF Converge
<1>15. ASSUME NEW s \in Schedules, Activate(s) PROVE TypeInv'
  <2>1. schedules[s] \in Schedule /\ schedules[s].revision + 1 \in Nat \ {0}
    BY <1>t DEF Schedule
  <2>2. [schedules[s] EXCEPT !.enabled = TRUE, !.revision = @ + 1] \in Schedule
    BY <2>1 DEF Schedule
  <2>3. QED
    BY <1>t, <1>g, <1>15, <2>2 DEF Activate
<1>16. ASSUME Advance PROVE TypeInv'
  BY <1>t, <1>g, <1>16, TimeAssumption DEF Advance, Instants
<1>17. ASSUME UNCHANGED vars PROVE TypeInv'
  BY <1>t, <1>g, <1>17 DEF vars
<1>18. QED
  BY <1>1, <1>2, <1>3, <1>4, <1>5, <1>6, <1>7, <1>8, <1>9, <1>10, <1>11, <1>12,
     <1>13, <1>14, <1>15, <1>16, <1>17
     DEF Next, Coordinator, Task, Operator, Release

\* Every reachable state is well typed: in particular each claimed slot is an
\* instant of the clock and each claim names a row of the ledger.
THEOREM TypeCorrect == Spec => []TypeOK
<1>1. TypeInv => TypeOK
  BY DEF TypeInv
<1>2. QED
  BY TypeInit, TypeStep, <1>1, PTL DEF Spec

---------------------------------------------------------------------------
(* The ledger.  The attempt number fences a run: it only grows, a waiting  *)
(* run is ahead of every claim ever handed out, and a claim handed out is  *)
(* at the run's number or behind it.  With that, one attempt cannot come   *)
(* to be in two hands.                                                     *)

\* A row the recovery scan can find, within its attempts.
RowOK(r) ==
    /\ r.attempt <= MaxAttempts
    /\ r.state = "absent" <=> r.attempt = 0
    /\ r.state = "running" <=> r.lease # NoTime
    /\ r.state = "retryable" <=> r.retryAt # NoTime

\* What a transaction may do to a row r, leaving q.
RowStep(r, q) ==
    /\ RowOK(q)
    /\ r.attempt <= q.attempt
    /\ r.state # "absent" => q.state # "absent"
    /\ q.state = "retryable" => q = r \/ r.attempt < q.attempt
    /\ r.state \in Terminal => q = r

\* A claim that the row of its key has not outrun in the wrong way.
Behind(c, r) ==
    /\ r.state # "absent"
    /\ c.attempt <= r.attempt
    /\ c.key[2] \in Instants /\ r.state = "retryable" => c.attempt < r.attempt

LedgerInv ==
    /\ TypeInv
    /\ \A k \in RunKeys : RowOK(runs[k])
    /\ \A c \in Held : Behind(c, runs[c.key])
    /\ OneExecutionPerAttempt

LEMMA RowSteps ==
    ASSUME clock \in Int, NEW r \in Run, RowOK(r)
    PROVE  /\ RowStep(r, r)
           /\ \A o \in Nat : r.state = "absent" => RowStep(r, FirstAttempt(o))
           /\ \A st \in Terminal : r.state \in {"running", "retryable"} =>
                  RowStep(r, Settled(r, st))
           /\ r.state \in {"running", "retryable"} => RowStep(r, Recovered(r))
           /\ \A now \in Int : r.state = "running" => RowStep(r, AfterFailure(r, now))
<1> USE DEF RowStep, RowOK, Terminal
<1>1. RowStep(r, r)
  BY DEF Run
<1>2. \A o \in Nat : r.state = "absent" => RowStep(r, FirstAttempt(o))
  <2>1. LeaseUntil(clock) \in Int
    BY TimeAssumption DEF LeaseUntil
  <2>2. QED
    BY <2>1, TimeAssumption DEF FirstAttempt, Run, MaxAttempts
<1>3. ASSUME NEW st \in Terminal, r.state \in {"running", "retryable"}
      PROVE  RowStep(r, Settled(r, st))
  BY <1>3 DEF Settled, Run
<1>4. ASSUME r.state \in {"running", "retryable"} PROVE RowStep(r, Recovered(r))
  <2>1. CASE AttemptsSpent(r)
    BY <1>3, <1>4, <2>1 DEF Recovered
  <2>2. CASE ~AttemptsSpent(r)
    <3>1. LeaseUntil(clock) \in Int
      BY TimeAssumption DEF LeaseUntil
    <3>2. CASE r.state = "retryable"
      BY <2>2, <3>1, <3>2, TimeAssumption DEF Recovered, Run, MaxAttempts
    <3>3. CASE r.state = "running"
      BY <2>2, <3>1, <3>3, TimeAssumption DEF Recovered, Run, AttemptsSpent, MaxAttempts
    <3>4. QED
      BY <1>4, <3>2, <3>3
  <2>3. QED
    BY <2>1, <2>2
<1>5. ASSUME NEW now \in Int, r.state = "running" PROVE RowStep(r, AfterFailure(r, now))
  <2>1. CASE r.attempt < MaxAttempts
    <3>1. RetryAt(r.attempt, now) \in Int
      <4>1. r.attempt = 1 \/ r.attempt = 2
        BY <1>5, <2>1 DEF Run, MaxAttempts
      <4>2. QED
        BY <4>1, TimeAssumption DEF RetryAt
    <3>2. QED
      BY <1>5, <2>1, <3>1, TimeAssumption DEF AfterFailure, Run, MaxAttempts
  <2>2. CASE ~(r.attempt < MaxAttempts)
    BY <1>3, <1>5, <2>2 DEF AfterFailure
  <2>3. QED
    BY <2>1, <2>2
<1>6. QED
  BY <1>1, <1>2, <1>3, <1>4, <1>5

\* Every step moves every row of the ledger forward.
LEMMA RowsStep == LedgerInv /\ [Next]_vars => \A k \in RunKeys : RowStep(runs[k], runs'[k])
<1> SUFFICES ASSUME LedgerInv, [Next]_vars, NEW k \in RunKeys
             PROVE  RowStep(runs[k], runs'[k])
  OBVIOUS
<1>t. /\ clock \in Int
      /\ runs \in [RunKeys -> Run]
      /\ \A i \in RunKeys : RowOK(runs[i])
      /\ tasks \subseteq TaskSet
      /\ schedules \in [Schedules -> Schedule]
  BY DEF LedgerInv, TypeInv, TypeOK, Run, Schedule, Instants
<1>r. /\ RowStep(runs[k], runs[k])
      /\ \A o \in Nat : runs[k].state = "absent" => RowStep(runs[k], FirstAttempt(o))
      /\ \A st \in Terminal : runs[k].state \in {"running", "retryable"} =>
             RowStep(runs[k], Settled(runs[k], st))
      /\ runs[k].state \in {"running", "retryable"} => RowStep(runs[k], Recovered(runs[k]))
      /\ \A now \in Int : runs[k].state = "running" =>
             RowStep(runs[k], AfterFailure(runs[k], now))
  BY <1>t, RowSteps
<1>u. ASSUME runs' = runs PROVE RowStep(runs[k], runs'[k])
  BY <1>r, <1>u
<1>1. ASSUME NEW n \in Nodes, Tick(n) PROVE RowStep(runs[k], runs'[k])
  <2>1. CASE k[1] \in Claimable /\ k = DueSlot(k[1])
    <3>1. runs'[k] = FirstAttempt(schedules[k[1]].claimed + 1)
      BY <1>1, <2>1 DEF Tick
    <3>2. runs[k].state = "absent"
      BY <2>1 DEF Claimable
    <3>3. k[1] \in Schedules /\ schedules[k[1]].claimed + 1 \in Nat
      BY <1>t DEF RunKeys, Schedule
    <3>4. QED
      BY <1>r, <3>1, <3>2, <3>3
  <2>2. CASE ~(k[1] \in Claimable /\ k = DueSlot(k[1])) /\ k \in Recoverable
    <3>1. runs'[k] = Recovered(runs[k])
      BY <1>1, <2>2 DEF Tick
    <3>2. runs[k].state \in {"running", "retryable"}
      BY <2>2 DEF Recoverable
    <3>3. QED
      BY <1>r, <3>1, <3>2
  <2>3. CASE ~(k[1] \in Claimable /\ k = DueSlot(k[1])) /\ k \notin Recoverable
    BY <1>r, <1>1, <2>3 DEF Tick
  <2>4. QED
    BY <2>1, <2>2, <2>3
<1>2. ASSUME NEW t \in tasks, Complete(t) \/ Skip(t) PROVE RowStep(runs[k], runs'[k])
  <2>1. t.claim.key \in RunKeys
    BY <1>t DEF TaskSet, ClaimSet
  <2>2. \/ runs' = runs
        \/ /\ runs[t.claim.key].state = "running"
           /\ \E st \in Terminal :
                  runs' = [runs EXCEPT ![t.claim.key] = Settled(runs[t.claim.key], st)]
    BY <1>2 DEF Complete, Settle, Skip, Running, Terminal
  <2>3. QED
    BY <1>t, <1>r, <1>u, <2>1, <2>2
<1>3. ASSUME NEW t \in tasks, RecordFailure(t) PROVE RowStep(runs[k], runs'[k])
  <2>1. t.claim.key \in RunKeys /\ t.claim.now \in Int
    BY <1>t DEF TaskSet, ClaimSet, Instants
  <2>2. \/ runs' = runs
        \/ /\ runs[t.claim.key].state = "running"
           /\ runs' = [runs EXCEPT ![t.claim.key] =
                           AfterFailure(runs[t.claim.key], t.claim.now)]
    BY <1>3 DEF RecordFailure, Running
  <2>3. QED
    BY <1>t, <1>r, <1>u, <2>1, <2>2
<1>4. ASSUME NEW t \in tasks, Renew(t) PROVE RowStep(runs[k], runs'[k])
  <2>1. t.claim.key \in RunKeys
    BY <1>t DEF TaskSet, ClaimSet
  <2>2. CASE k # t.claim.key
    BY <1>t, <1>r, <1>4, <2>2 DEF Renew
  <2>3. CASE k = t.claim.key
    <3>1. runs'[k] = [runs[k] EXCEPT !.lease = LeaseUntil(clock)]
      BY <1>t, <1>4, <2>1, <2>3 DEF Renew
    <3>2. runs[k].state = "running" /\ runs[k] \in Run /\ RowOK(runs[k])
      BY <1>t, <1>4, <2>3 DEF Renew, Running
    <3>3. LeaseUntil(clock) # NoTime
      BY <1>t, TimeAssumption DEF LeaseUntil
    <3>4. QED
      BY <3>1, <3>2, <3>3 DEF RowStep, RowOK, Run, Terminal
  <2>4. QED
    BY <2>2, <2>3
<1>5. ASSUME NEW n \in Nodes, NEW d \in Destinations, ClaimSetup(n, d)
      PROVE  RowStep(runs[k], runs'[k])
  <2>1. \/ runs' = runs
        \/ /\ runs[<<BackupSchedule, d>>].state = "absent"
           /\ runs' = [runs EXCEPT ![<<BackupSchedule, d>>] = FirstAttempt(0)]
    BY <1>5 DEF ClaimSetup
  <2>2. <<BackupSchedule, d>> \in RunKeys
    BY KeysAssumption DEF RunKeys, Claims
  <2>3. QED
    BY <1>t, <1>r, <1>u, <2>1, <2>2
<1>6. ASSUME \/ \E n \in Nodes :
                    \/ \E c \in started[n] : LoseStart(n, c) \/ \E pid \in Pids : StartTask(n, c, pid)
                    \/ Crash(n)
             \/ \E t \in tasks : HandlerFails(t) \/ TaskLost(t)
             \/ \E a \in Admins : OpenPage(a)
             \/ \E a \in Admins, daily \in DailyTimes, b \in BOOLEAN : SaveSchedule(a, daily, b)
             \/ Release \/ Advance \/ UNCHANGED vars
      PROVE  runs' = runs
  BY <1>6 DEF LoseStart, StartTask, Crash, HandlerFails, TaskLost, OpenPage, SaveSchedule,
              Release, Converge, Activate, Advance, vars
<1>7. QED
  BY <1>u, <1>1, <1>2, <1>3, <1>4, <1>5, <1>6 DEF Next, Coordinator, Task, Operator

\* Claims that are only dropped, and a task that only changes its program
\* counter, put no attempt in a second hand.
LEMMA FewerClaims ==
    ASSUME OneExecutionPerAttempt, \A n \in Nodes : started'[n] \subseteq started[n],
           \/ tasks' \subseteq tasks
           \/ \E t \in tasks : tasks' \subseteq (tasks \ {t}) \cup {[t EXCEPT !.pc = "failing"]},
           tasks \subseteq TaskSet
    PROVE  Held' \subseteq Held /\ OneExecutionPerAttempt'
<1>1. CASE tasks' \subseteq tasks
  BY <1>1 DEF Held, OneExecutionPerAttempt
<1>2. ASSUME NEW t \in tasks,
             tasks' \subseteq (tasks \ {t}) \cup {[t EXCEPT !.pc = "failing"]}
      PROVE  Held' \subseteq Held /\ OneExecutionPerAttempt'
  <2> DEFINE u == [t EXCEPT !.pc = "failing"]
  <2>1. u.claim = t.claim
    BY DEF TaskSet
  <2> HIDE DEF u
  <2>2. tasks' \subseteq (tasks \ {t}) \cup {u}
    BY <1>2 DEF u
  <2>3. \A v \in tasks' : v = u \/ (v \in tasks /\ v # t)
    BY <2>2
  <2>4. Held' \subseteq Held
    BY <2>1, <2>3 DEF Held
  <2>5. OneExecutionPerAttempt'
    BY <2>1, <2>3 DEF OneExecutionPerAttempt
  <2>6. QED
    BY <2>4, <2>5
<1>3. QED
  BY <1>1, <1>2

\* The ledger rows a tick hands out.
Dispatched == {DueSlot(s) : s \in Claimable} \cup
              {k \in Recoverable : ~AttemptsSpent(runs[k])}

\* A row a tick hands out is running under an attempt that no claim of that
\* row has had.
LEMMA FreshClaims ==
    ASSUME LedgerInv, NEW n \in Nodes, Tick(n), NEW k \in Dispatched
    PROVE  /\ k \in RunKeys
           /\ runs'[k].state = "running"
           /\ k[2] \in Instants =>
                  \A c \in Held : c.key = k => c.attempt < runs'[k].attempt
<1>t. /\ clock \in Int /\ clock >= Day /\ clock <= MaxTime
      /\ schedules \in [Schedules -> Schedule]
      /\ runs \in [RunKeys -> Run]
      /\ \A c \in Held : Behind(c, runs[c.key]) /\ c.attempt \in Nat
  <2>1. \A c \in Held : c \in ClaimSet
    BY DEF LedgerInv, TypeInv, TypeOK, Held, TaskSet
  <2>2. QED
    BY <2>1, TimeAssumption
       DEF LedgerInv, TypeInv, TypeOK, Run, Schedule, Instants, ClaimSet
<1>1. ASSUME NEW s \in Claimable, k = DueSlot(s)
      PROVE  /\ k \in RunKeys /\ runs'[k].state = "running"
             /\ \A c \in Held : c.key # k
  <2>1. s \in Schedules /\ schedules[s] \in Schedule
    BY <1>t DEF Claimable, DueSchedules
  <2>2. k \in RunKeys
    BY <1>t, <1>1, <2>1, ScheduleTypes
  <2>3. k[1] = s
    BY <1>1 DEF DueSlot
  <2>4. runs'[k] = FirstAttempt(schedules[s].claimed + 1)
    BY <1>1, <2>2, <2>3 DEF Tick
  <2>5. runs[k].state = "absent"
    BY <1>1 DEF Claimable
  <2>6. QED
    BY <1>t, <2>2, <2>4, <2>5 DEF FirstAttempt, Behind
<1>2. ASSUME k \in Recoverable, ~AttemptsSpent(runs[k]),
             ~\E s \in Claimable : k = DueSlot(s)
      PROVE  /\ k \in RunKeys /\ runs'[k].state = "running"
             /\ k[2] \in Instants =>
                    \A c \in Held : c.key = k => c.attempt < runs'[k].attempt
  <2>1. k \in RunKeys /\ runs[k] \in Run /\ runs[k].state \in {"running", "retryable"}
    BY <1>t, <1>2 DEF Recoverable
  <2>2. runs'[k] = Recovered(runs[k])
    BY <1>2, <2>1 DEF Tick
  <2>3. /\ runs'[k].state = "running"
        /\ runs'[k].attempt = IF runs[k].state = "retryable" THEN runs[k].attempt
                                                             ELSE runs[k].attempt + 1
    BY <1>2, <2>1, <2>2 DEF Recovered, Run
  <2>4. ASSUME k[2] \in Instants, NEW c \in Held, c.key = k
        PROVE  c.attempt < runs'[k].attempt
    <3>1. Behind(c, runs[k]) /\ c.attempt \in Nat /\ runs[k].attempt \in Nat
      BY <1>t, <2>1, <2>4 DEF Run
    <3>2. QED
      BY <2>1, <2>3, <2>4, <3>1 DEF Behind
  <2>5. QED
    BY <2>1, <2>3, <2>4
<1>3. QED
  BY <1>1, <1>2 DEF Dispatched

\* A tick adds claims of fresh attempts on one node.
LEMMA TickClaims ==
    ASSUME LedgerInv, NEW n \in Nodes, Tick(n)
    PROVE  /\ OneExecutionPerAttempt'
           /\ \A c \in Held' : c \in Held \/ Behind(c, runs'[c.key])
<1> DEFINE New == {Claim(k, "tick") : k \in Dispatched}
<1>t. /\ started \in [Nodes -> SUBSET ClaimSet]
      /\ tasks' = tasks /\ started' = [started EXCEPT ![n] = started[n] \cup New]
  BY DEF LedgerInv, TypeInv, TypeOK, Tick, Dispatched
<1>i. \A c \in Held : c.attempt \in Nat
  BY DEF LedgerInv, TypeInv, TypeOK, Held, TaskSet, ClaimSet
<1>1. \A c \in New : /\ c.key \in Dispatched /\ c = Claim(c.key, "tick")
                     /\ c.attempt = runs'[c.key].attempt
  BY DEF Claim
<1>2. ASSUME NEW c \in New
      PROVE  /\ Behind(c, runs'[c.key])
             /\ c.key[2] \in Instants => \A d \in Held : d.key = c.key => d.attempt # c.attempt
  <2>1. /\ c.key \in RunKeys /\ runs'[c.key].state = "running"
        /\ c.key[2] \in Instants =>
               \A d \in Held : d.key = c.key => d.attempt < runs'[c.key].attempt
    BY <1>1, FreshClaims
  <2>2. runs'[c.key].attempt \in Nat
    BY <2>1, TypeStep DEF LedgerInv, TypeInv, TypeOK, Next, Coordinator
  <2>3. QED
    BY <1>1, <1>i, <2>1, <2>2 DEF Behind
<1> HIDE DEF New
<1>3. \A c \in Held' : c \in Held \/ c \in New
  BY <1>t DEF Held
<1>4. \A m \in Nodes : \A c \in started'[m] : c \in started[m] \/ (m = n /\ c \in New)
  BY <1>t
<1>5. \A c, d \in New : c.key = d.key => c = d
  BY <1>1
<1>6. \A m \in Nodes : started[m] \subseteq Held
  BY DEF Held
<1>7. \A t \in tasks : t.claim \in Held
  BY DEF Held
<1>8. OneExecutionPerAttempt
  BY DEF LedgerInv
<1>9. OneExecutionPerAttempt'
  <2> DEFINE Same(c, d) == c.key = d.key /\ c.attempt = d.attempt
  <2>1. ASSUME NEW m \in Nodes, NEW l \in Nodes, NEW c \in started'[m], NEW d \in started'[l],
               c.key[2] \in Instants, Same(c, d)
        PROVE  m = l /\ c = d
    <3>1. CASE c \in New /\ d \in New
      <4>1. m = n /\ l = n
        BY <1>2, <1>4, <1>6, <2>1, <3>1
      <4>2. QED
        BY <1>5, <2>1, <3>1, <4>1
    <3>2. CASE c \in New /\ d \notin New
      BY <1>2, <1>4, <1>6, <2>1, <3>2
    <3>3. CASE c \notin New /\ d \in New
      BY <1>2, <1>4, <1>6, <2>1, <3>3
    <3>4. CASE c \notin New /\ d \notin New
      BY <1>4, <1>8, <2>1, <3>4 DEF OneExecutionPerAttempt
    <3>5. QED
      BY <3>1, <3>2, <3>3, <3>4
  <2>2. ASSUME NEW t \in tasks, NEW u \in tasks, t.claim.key[2] \in Instants,
               Same(t.claim, u.claim)
        PROVE  t = u
    BY <1>8, <2>2 DEF OneExecutionPerAttempt
  <2>3. ASSUME NEW m \in Nodes, NEW c \in started'[m], NEW t \in tasks, c.key[2] \in Instants
        PROVE  ~Same(c, t.claim)
    <3>1. CASE c \in New
      BY <1>2, <1>7, <2>3, <3>1
    <3>2. CASE c \notin New
      BY <1>4, <1>8, <2>3, <3>2 DEF OneExecutionPerAttempt
    <3>3. QED
      BY <3>1, <3>2
  <2>4. QED
    BY <1>t, <2>1, <2>2, <2>3 DEF OneExecutionPerAttempt
<1>10. QED
  BY <1>2, <1>3, <1>9

\* A start moves a claim from a node's hands into one task.
LEMMA StartClaims ==
    ASSUME LedgerInv, NEW n \in Nodes, NEW c \in started[n], NEW pid \in Pids,
           StartTask(n, c, pid)
    PROVE  /\ OneExecutionPerAttempt'
           /\ \A d \in Held' : d \in Held \/ (d.key = c.key /\ d.attempt = c.attempt)
<1> DEFINE e == IF c.by = "tick" THEN c ELSE [c EXCEPT !.now = clock]
           t == [pid |-> pid, node |-> n, pc |-> "executing", claim |-> e]
<1>1. c \in ClaimSet /\ started \in [Nodes -> SUBSET ClaimSet]
  BY DEF LedgerInv, TypeInv, TypeOK
<1>2. e.key = c.key /\ e.attempt = c.attempt
  BY <1>1 DEF ClaimSet
<1>3. t.claim = e
  OBVIOUS
<1>4. /\ started' = [started EXCEPT ![n] = started[n] \ {c}]
      /\ tasks' = tasks \cup {t}
  BY DEF StartTask
<1> HIDE DEF e, t
<1>5. /\ \A m \in Nodes : \A d \in started'[m] : d \in started[m] /\ (m = n => d # c)
      /\ \A u \in tasks' : u \in tasks \/ u = t
  BY <1>1, <1>4
<1>6. OneExecutionPerAttempt
  BY DEF LedgerInv
<1>7. \A d \in Held' : d \in Held \/ d = e
  BY <1>3, <1>5 DEF Held
<1>8. OneExecutionPerAttempt'
  <2> DEFINE Same(d, f) == d.key = f.key /\ d.attempt = f.attempt
  <2>1. ASSUME NEW m \in Nodes, NEW l \in Nodes, NEW d \in started'[m], NEW f \in started'[l],
               d.key[2] \in Instants, Same(d, f)
        PROVE  m = l /\ d = f
    BY <1>5, <1>6, <2>1 DEF OneExecutionPerAttempt
  <2>2. ASSUME NEW u \in tasks', NEW v \in tasks', u.claim.key[2] \in Instants,
               Same(u.claim, v.claim)
        PROVE  u = v
    <3>1. CASE u \in tasks /\ v \in tasks
      BY <1>6, <2>2, <3>1 DEF OneExecutionPerAttempt
    <3>2. CASE u = t /\ v \in tasks
      BY <1>2, <1>3, <1>6, <2>2, <3>2 DEF OneExecutionPerAttempt
    <3>3. CASE u \in tasks /\ v = t
      <4>1. c.key[2] \in Instants /\ Same(c, u.claim)
        BY <1>2, <1>3, <2>2, <3>3
      <4>2. QED
        BY <1>6, <3>3, <4>1 DEF OneExecutionPerAttempt
    <3>4. QED
      BY <1>5, <3>1, <3>2, <3>3
  <2>3. ASSUME NEW m \in Nodes, NEW d \in started'[m], NEW u \in tasks', d.key[2] \in Instants
        PROVE  ~Same(d, u.claim)
    <3>1. CASE u \in tasks
      BY <1>5, <1>6, <2>3, <3>1 DEF OneExecutionPerAttempt
    <3>2. CASE u = t
      <4>1. Same(d, u.claim) => d = c /\ m = n
        BY <1>2, <1>3, <1>5, <1>6, <2>3, <3>2 DEF OneExecutionPerAttempt
      <4>2. QED
        BY <1>5, <4>1
    <3>3. QED
      BY <1>5, <3>1, <3>2
  <2>4. QED
    BY <2>1, <2>2, <2>3 DEF OneExecutionPerAttempt
<1>9. QED
  BY <1>2, <1>7, <1>8

LEMMA LedgerInit == Init => LedgerInv
<1> SUFFICES ASSUME Init PROVE LedgerInv
  OBVIOUS
<1>1. TypeInv
  BY TypeInit
<1>2. \A k \in RunKeys : RowOK(runs[k])
  BY DEF Init, Absent, RowOK, MaxAttempts
<1>3. Held = {} /\ tasks = {} /\ \A n \in Nodes : started[n] = {}
  BY DEF Init, Held
<1>4. OneExecutionPerAttempt
  BY <1>3 DEF OneExecutionPerAttempt
<1>5. QED
  BY <1>1, <1>2, <1>3, <1>4 DEF LedgerInv

LEMMA LedgerStep == LedgerInv /\ [Next]_vars => LedgerInv'
<1> SUFFICES ASSUME LedgerInv, [Next]_vars PROVE LedgerInv'
  OBVIOUS
<1>1. TypeInv /\ TypeInv'
  BY TypeStep DEF LedgerInv
<1>t. /\ runs \in [RunKeys -> Run] /\ runs' \in [RunKeys -> Run]
      /\ tasks \subseteq TaskSet
      /\ started \in [Nodes -> SUBSET ClaimSet]
      /\ \A c \in Held : c \in ClaimSet
  BY <1>1 DEF TypeInv, TypeOK, Run, Held, TaskSet
<1>2. \A k \in RunKeys : RowStep(runs[k], runs'[k])
  BY RowsStep
<1>3. \A k \in RunKeys : RowOK(runs'[k])
  BY <1>2 DEF RowStep
<1>4. ASSUME NEW c \in ClaimSet, Behind(c, runs[c.key]) PROVE Behind(c, runs'[c.key])
  <2>1. c.key \in RunKeys /\ c.attempt \in Nat
    BY DEF ClaimSet
  <2>2. RowStep(runs[c.key], runs'[c.key])
    BY <1>2, <2>1
  <2>3. runs[c.key].attempt \in Nat /\ runs'[c.key].attempt \in Nat
    BY <1>t, <2>1 DEF Run
  <2>4. QED
    BY <1>4, <2>1, <2>2, <2>3 DEF RowStep, Behind
<1>5. \A c \in Held : Behind(c, runs'[c.key])
  BY <1>t, <1>4 DEF LedgerInv
<1>6. OneExecutionPerAttempt
  BY DEF LedgerInv
\* An action that adds no claim.
<1>f. ASSUME \A n \in Nodes : started'[n] \subseteq started[n],
             \/ tasks' \subseteq tasks
             \/ \E t \in tasks : tasks' \subseteq (tasks \ {t}) \cup {[t EXCEPT !.pc = "failing"]}
      PROVE  LedgerInv'
  <2>1. Held' \subseteq Held /\ OneExecutionPerAttempt'
    BY <1>t, <1>6, <1>f, FewerClaims
  <2>2. \A c \in Held' : Behind(c, runs'[c.key])
    BY <1>5, <2>1
  <2>3. QED
    BY <1>1, <1>3, <2>1, <2>2 DEF LedgerInv
<1>7. ASSUME NEW n \in Nodes, Tick(n) PROVE LedgerInv'
  <2>1. /\ OneExecutionPerAttempt'
        /\ \A c \in Held' : c \in Held \/ Behind(c, runs'[c.key])
    BY <1>7, TickClaims
  <2>2. \A c \in Held' : Behind(c, runs'[c.key])
    BY <1>5, <2>1
  <2>3. QED
    BY <1>1, <1>3, <2>1, <2>2 DEF LedgerInv
<1>8. ASSUME NEW n \in Nodes, NEW c \in started[n], NEW pid \in Pids, StartTask(n, c, pid)
      PROVE  LedgerInv'
  <2>1. /\ OneExecutionPerAttempt'
        /\ \A d \in Held' : d \in Held \/ (d.key = c.key /\ d.attempt = c.attempt)
    BY <1>8, StartClaims
  <2>2. Behind(c, runs'[c.key])
    BY <1>5 DEF Held
  <2>3. \A d \in Held' : Behind(d, runs'[d.key])
    BY <1>5, <2>1, <2>2 DEF Behind
  <2>4. QED
    BY <1>1, <1>3, <2>1, <2>3 DEF LedgerInv
<1>9. ASSUME NEW n \in Nodes, NEW c \in started[n], LoseStart(n, c) PROVE LedgerInv'
  BY <1>f, <1>t, <1>9 DEF LoseStart
<1>10. ASSUME NEW n \in Nodes, Crash(n) PROVE LedgerInv'
  BY <1>f, <1>t, <1>10 DEF Crash
<1>11. ASSUME NEW t \in tasks,
              \/ Complete(t) \/ Skip(t) \/ HandlerFails(t)
              \/ RecordFailure(t) \/ TaskLost(t) \/ Renew(t)
       PROVE  LedgerInv'
  <2>1. \A n \in Nodes : started'[n] \subseteq started[n]
    BY <1>11 DEF Complete, Settle, Skip, HandlerFails, RecordFailure, TaskLost, Renew
  <2>2. \/ tasks' \subseteq tasks
        \/ tasks' \subseteq (tasks \ {t}) \cup {[t EXCEPT !.pc = "failing"]}
    BY <1>11 DEF Complete, Settle, Skip, HandlerFails, RecordFailure, TaskLost, Renew,
                 Ends, Becomes
  <2>3. QED
    BY <1>f, <2>1, <2>2
<1>12. ASSUME NEW n \in Nodes, NEW d \in Destinations, ClaimSetup(n, d) PROVE LedgerInv'
  <2> DEFINE key == <<BackupSchedule, d>>
             new == Claim(key, "page")
  <2>1. key \in RunKeys /\ key[2] \notin Instants
    BY KeysAssumption, TimeAssumption DEF RunKeys, Claims, Instants
  <2>2. new.key = key /\ new.attempt = runs'[key].attempt
    BY DEF Claim
  <2>3. started' = [started EXCEPT ![n] = started[n] \cup {new}] /\ tasks' = tasks
    BY <1>12 DEF ClaimSetup
  <2> HIDE DEF new
  <2>4. Behind(new, runs'[key])
    <3>1. runs'[key].state # "absent"
      BY <1>12, <1>t, <2>1 DEF ClaimSetup, FirstAttempt
    <3>2. runs'[key].attempt \in Nat
      BY <1>t, <2>1 DEF Run
    <3>3. QED
      BY <2>1, <2>2, <3>1, <3>2 DEF Behind
  <2> HIDE DEF key
  <2>5. \A m \in Nodes : \A c \in started'[m] : c \in started[m] \/ c = new
    BY <1>t, <2>3
  <2>6. \A c \in Held' : Behind(c, runs'[c.key])
    BY <1>5, <2>2, <2>3, <2>4, <2>5 DEF Held
  <2>7. OneExecutionPerAttempt'
    <3>1. \A m, l \in Nodes : \A c \in started'[m], e \in started'[l] :
              c.key[2] \in Instants /\ c.key = e.key /\ c.attempt = e.attempt => m = l /\ c = e
      BY <1>6, <2>1, <2>2, <2>5 DEF OneExecutionPerAttempt
    <3>2. \A m \in Nodes : \A c \in started'[m], t \in tasks :
              c.key[2] \in Instants => ~(c.key = t.claim.key /\ c.attempt = t.claim.attempt)
      BY <1>6, <2>1, <2>2, <2>5 DEF OneExecutionPerAttempt
    <3>3. QED
      BY <1>6, <2>3, <3>1, <3>2 DEF OneExecutionPerAttempt
  <2>8. QED
    BY <1>1, <1>3, <2>6, <2>7 DEF LedgerInv
<1>13. ASSUME started' = started, tasks' = tasks PROVE LedgerInv'
  BY <1>f, <1>13
<1>14. ASSUME \/ \E a \in Admins : OpenPage(a)
              \/ \E a \in Admins, daily \in DailyTimes, b \in BOOLEAN : SaveSchedule(a, daily, b)
              \/ Release \/ Advance \/ UNCHANGED vars
       PROVE  started' = started /\ tasks' = tasks
  BY <1>14 DEF OpenPage, SaveSchedule, Release, Converge, Activate, Advance, vars
<1>15. QED
  BY <1>7, <1>8, <1>9, <1>10, <1>11, <1>12, <1>13, <1>14
     DEF Next, Coordinator, Task, Operator

\* At most one coordinator or task holds a given attempt of a daily run, for
\* any number of nodes, crashes, lost starts and failures: what
\* claim_due/1 hands out is always a number no one has had.
THEOREM OneExecution == Spec => []OneExecutionPerAttempt
<1>1. LedgerInv => OneExecutionPerAttempt
  BY DEF LedgerInv
<1>2. QED
  BY LedgerInit, LedgerStep, <1>1, PTL DEF Spec

\* No run and no claim ever gets past the third attempt.
THEOREM AttemptsBounded == Spec => []AttemptBudget
<1>1. LedgerInv => AttemptBudget
  <2> SUFFICES ASSUME LedgerInv PROVE AttemptBudget
    OBVIOUS
  <2>1. \A k \in RunKeys : runs[k].attempt <= MaxAttempts
    BY DEF LedgerInv, RowOK
  <2>2. ASSUME NEW c \in Held PROVE c.attempt <= MaxAttempts
    <3>1. c \in ClaimSet
      BY DEF LedgerInv, TypeInv, TypeOK, Held, TaskSet
    <3>2. c.key \in RunKeys /\ c.attempt \in Nat
      BY <3>1 DEF ClaimSet
    <3>3. runs[c.key].attempt \in Nat
      BY <3>2 DEF LedgerInv, TypeInv, TypeOK
    <3>4. c.attempt <= runs[c.key].attempt /\ runs[c.key].attempt <= MaxAttempts
      BY <2>1, <3>2 DEF LedgerInv, Behind
    <3>5. QED
      BY <3>2, <3>3, <3>4 DEF MaxAttempts
  <2>3. QED
    BY <2>1, <2>2 DEF AttemptBudget
<1>2. QED
  BY LedgerInit, LedgerStep, <1>1, PTL DEF Spec

\* Every unfinished run carries exactly the time the recovery scan reads.
THEOREM RunsRecoverable == Spec => []Recoverability
<1>1. LedgerInv => Recoverability
  BY DEF LedgerInv, RowOK, Recoverability
<1>2. QED
  BY LedgerInit, LedgerStep, <1>1, PTL DEF Spec

\* A verified, failed or skipped run is final.
THEOREM SettledForGood == Spec => SettledRunsStay
<1>1. LedgerInv /\ [Next]_vars =>
          [\A k \in RunKeys : runs[k].state \in Terminal => runs'[k] = runs[k]]_vars
  BY RowsStep DEF RowStep
<1>2. QED
  BY LedgerInit, LedgerStep, <1>1, PTL DEF Spec, SettledRunsStay

---------------------------------------------------------------------------
(* The editable schedule.                                                  *)

\* Every write of the daily time or the switch of a schedule takes a revision.
LEMMA ContentStep ==
    ASSUME TypeInv, [Next]_vars
    PROVE  LET r == schedules[BackupSchedule] q == schedules'[BackupSchedule]
           IN  \/ q.revision = r.revision /\ q.daily = r.daily /\ q.enabled = r.enabled
               \/ q.revision = r.revision + 1
<1> DEFINE r == schedules[BackupSchedule]
           q == schedules'[BackupSchedule]
           Goal == \/ q.revision = r.revision /\ q.daily = r.daily /\ q.enabled = r.enabled
                   \/ q.revision = r.revision + 1
<1>t. /\ BackupSchedule \in Schedules
      /\ schedules \in [Schedules -> Schedule]
      /\ r \in Schedule
  BY KeysAssumption DEF TypeInv, TypeOK, Schedule
<1>1. ASSUME NEW n \in Nodes, Tick(n) PROVE Goal
  <2>1. q \in {ClaimedSchedule(BackupSchedule), [r EXCEPT !.expired = TRUE], r}
    BY <1>1, <1>t DEF Tick
  <2>2. QED
    BY <1>t, <2>1 DEF ClaimedSchedule, Schedule
<1>2. ASSUME NEW daily \in DailyTimes, NEW b \in BOOLEAN,
             schedules' = [schedules EXCEPT ![BackupSchedule] = Edited(BackupSchedule, daily, b)]
      PROVE  Goal
  BY <1>2, <1>t DEF Edited, Schedule
<1>3. ASSUME NEW s \in Schedules, Activate(s) PROVE Goal
  BY <1>3, <1>t DEF Activate, Schedule
<1>4. ASSUME schedules' = schedules PROVE Goal
  BY <1>4
<1>5. ASSUME \/ \E a \in Admins, daily \in DailyTimes, b \in BOOLEAN : SaveSchedule(a, daily, b)
             \/ \E daily \in DailyTimes : Converge(daily)
      PROVE  Goal
  BY <1>2, <1>5, <1>t DEF SaveSchedule, Converge, Schedule
<1>6. ASSUME \/ \E n \in Nodes :
                    \/ \E c \in started[n] : LoseStart(n, c) \/ \E pid \in Pids : StartTask(n, c, pid)
                    \/ Crash(n)
             \/ Task \/ Advance \/ UNCHANGED vars
             \/ \E n \in Nodes, d \in Destinations : ClaimSetup(n, d)
             \/ \E a \in Admins : OpenPage(a)
      PROVE  Goal
  <2>1. schedules' = schedules
    BY <1>6 DEF LoseStart, StartTask, Crash, Task, Complete, Settle, Skip, HandlerFails,
                RecordFailure, TaskLost, Renew, Advance, vars, ClaimSetup, OpenPage
  <2>2. QED
    BY <1>4, <2>1
<1>7. QED
  BY <1>1, <1>3, <1>5, <1>6 DEF Next, Coordinator, Operator, Release

LEMMA RevisionStep == TypeInv /\ RevisionNamesContent /\ [Next]_vars => RevisionNamesContent'
<1> SUFFICES ASSUME TypeInv, RevisionNamesContent, [Next]_vars, NEW a \in Admins
             PROVE  /\ forms'[a].revision <= schedules'[BackupSchedule].revision
                    /\ forms'[a].revision = schedules'[BackupSchedule].revision =>
                           forms'[a] = Shown(BackupSchedule)'
  BY DEF RevisionNamesContent
<1>t. /\ BackupSchedule \in Schedules
      /\ schedules[BackupSchedule] \in Schedule
      /\ schedules'[BackupSchedule] \in Schedule
      /\ schedules \in [Schedules -> Schedule]
      /\ forms \in [Admins -> [daily : DailyTimes, enabled : BOOLEAN, revision : Nat \ {0}]]
  BY KeysAssumption, TypeStep DEF TypeInv, TypeOK, Schedule
<1>1. CASE forms'[a] = forms[a]
  <2>1. \/ schedules'[BackupSchedule].revision = schedules[BackupSchedule].revision + 1
        \/ /\ schedules'[BackupSchedule].revision = schedules[BackupSchedule].revision
           /\ Shown(BackupSchedule)' = Shown(BackupSchedule)
    BY ContentStep DEF Shown
  <2>2. /\ forms[a].revision \in Nat
        /\ schedules[BackupSchedule].revision \in Nat
        /\ schedules'[BackupSchedule].revision \in Nat
    BY <1>t DEF Schedule
  <2>3. QED
    BY <1>1, <2>1, <2>2 DEF RevisionNamesContent
<1>2. CASE forms'[a] # forms[a]
  <2>1. CASE \E b \in Admins : OpenPage(b)
    <3>1. forms'[a] = Shown(BackupSchedule) /\ schedules' = schedules
      BY <1>2, <1>t, <2>1 DEF OpenPage
    <3>2. QED
      BY <1>t, <3>1 DEF Shown, Schedule
  <2>2. CASE \E b \in Admins, daily \in DailyTimes, e \in BOOLEAN : SaveSchedule(b, daily, e)
    <3>1. PICK daily \in DailyTimes, e \in BOOLEAN :
              /\ forms'[a] = [daily |-> daily, enabled |-> e,
                              revision |-> schedules[BackupSchedule].revision + 1]
              /\ schedules' = [schedules EXCEPT ![BackupSchedule] =
                                   Edited(BackupSchedule, daily, e)]
      BY <1>2, <1>t, <2>2 DEF SaveSchedule
    <3>2. schedules'[BackupSchedule] = Edited(BackupSchedule, daily, e)
      BY <1>t, <3>1
    <3>3. /\ schedules'[BackupSchedule].daily = daily
          /\ schedules'[BackupSchedule].enabled = e
          /\ schedules'[BackupSchedule].revision = schedules[BackupSchedule].revision + 1
      BY <1>t, <3>2 DEF Edited, Schedule
    <3>4. QED
      BY <1>t, <3>1, <3>3 DEF Shown, Schedule
  <2>3. QED
    BY <1>2, <2>1, <2>2
       DEF Next, Coordinator, Task, Operator, Release, vars, Tick, LoseStart, StartTask,
           Crash, Complete, Settle, Skip, HandlerFails, RecordFailure, TaskLost, Renew,
           ClaimSetup, Converge, Activate, Advance
<1>3. QED
  BY <1>1, <1>2

\* A save at the current revision overwrites nothing its page has not shown.
THEOREM RevisionsName == Spec => []RevisionNamesContent
<1>1. Init => RevisionNamesContent
  <2>1. ASSUME Init, NEW a \in Admins
        PROVE  forms[a] = Shown(BackupSchedule) /\ forms[a].revision = 1
    BY <2>1, KeysAssumption DEF Init, Shown
  <2>2. ASSUME Init PROVE schedules[BackupSchedule].revision = 1
    BY <2>2, KeysAssumption DEF Init
  <2>3. QED
    BY <2>1, <2>2 DEF RevisionNamesContent
<1>2. QED
  BY TypeInit, TypeStep, RevisionStep, <1>1, PTL DEF Spec
---------------------------------------------------------------------------
(* The slots.  The next slot of a schedule is one of its daily time, so    *)
(* once it has passed the latest slot is not before it; every slot claimed *)
(* is before the next one and has passed.  So a claim takes a slot later   *)
(* than all before it, and numbers it one higher.                          *)

Taken(s) == {i \in Instants : runs[<<s, i>>].state # "absent"}

\* Whenever next has passed, the latest slot of the time daily is at or after it.
Reached(daily, next) ==
    \A now \in Int : Day <= now /\ next <= now => next <= LatestSlot(daily, now)

\* The slots claimed of s, by number and in time.
Numbered(s) ==
    /\ \A i \in Taken(s) : runs[<<s, i>>].occurrence \in 1 .. schedules[s].claimed
    /\ \A i, j \in Taken(s) :
           runs[<<s, i>>].occurrence < runs[<<s, j>>].occurrence <=> i < j
    /\ Cardinality(Taken(s)) = schedules[s].claimed

\* The limits a schedule's claims respect.
Limited(s) ==
    /\ Expiration[s].kind = "after_occurrences" =>
           /\ schedules[s].claimed <= Expiration[s].max
           /\ schedules[s].claimed = Expiration[s].max => schedules[s].expired
    /\ Expiration[s].kind = "at" => \A i \in Taken(s) : i < Expiration[s].at

SlotsOK(s) ==
    /\ Reached(schedules[s].daily, schedules[s].next)
    /\ \A i \in Taken(s) : i < schedules[s].next /\ i <= clock
    /\ Numbered(s)
    /\ Limited(s)

SlotInv == \A s \in Schedules : SlotsOK(s)

\* A slot of the time daily that has passed is not after the latest one.
LEMMA SlotsInOrder ==
    ASSUME NEW daily \in DailyTimes, NEW q \in Int, NEW now \in Int,
           q * Day + daily <= now
    PROVE  q * Day + daily <= LatestSlot(daily, now)
<1> DEFINE Q == now \div Day
<1>1. Day \in Nat /\ Day > 0 /\ daily \in 0 .. Day - 1
  BY TimeAssumption
<1>2. /\ now % Day \in 0 .. Day - 1
      /\ Q \in Int
      /\ now - (now % Day) = Q * Day
  BY <1>1
<1> HIDE DEF Q
<1>3. Q * Day \in Int /\ q * Day \in Int /\ (Q - 1) * Day = Q * Day - Day
      /\ (Q + 1) * Day = Q * Day + Day
  BY <1>1, <1>2
<1>4. SlotOn(daily, now) = Q * Day + daily
  BY <1>2 DEF SlotOn
<1>5. \A a, b \in Int : a <= b => a * Day <= b * Day
  BY <1>1
<1>6. CASE SlotOn(daily, now) > now
  <2>1. q * Day < Q * Day
    BY <1>1, <1>3, <1>4, <1>6
  <2>2. q <= Q - 1
    <3>1. ~(Q <= q)
      BY <1>2, <1>3, <1>5, <2>1
    <3>2. QED
      BY <1>2, <3>1
  <2>3. q * Day <= (Q - 1) * Day
    BY <1>2, <1>5, <2>2
  <2>4. QED
    BY <1>1, <1>3, <1>4, <1>6, <2>3 DEF LatestSlot
<1>7. CASE ~(SlotOn(daily, now) > now)
  <2>1. q <= Q
    <3>1. ~(Q + 1 <= q)
      <4>1. q * Day < (Q + 1) * Day
        BY <1>1, <1>2, <1>3
      <4>2. Q + 1 \in Int /\ (Q + 1) * Day \in Int
        BY <1>1, <1>2, <1>3
      <4>3. Q + 1 <= q => (Q + 1) * Day <= q * Day
        BY <1>5, <4>2
      <4>4. QED
        BY <1>3, <4>1, <4>2, <4>3
    <3>2. QED
      BY <1>2, <3>1
  <2>2. q * Day <= Q * Day
    BY <1>2, <1>5, <2>1
  <2>3. QED
    BY <1>1, <1>3, <1>4, <1>7, <2>2 DEF LatestSlot
<1>8. QED
  BY <1>6, <1>7

\* The latest and the next slot of a time are slots of that time.
LEMMA SlotsReached ==
    ASSUME NEW daily \in DailyTimes, NEW now \in Int
    PROVE  /\ Reached(daily, LatestSlot(daily, now))
           /\ Reached(daily, NextSlot(daily, now))
<1> DEFINE Q == now \div Day
<1>1. Day \in Nat /\ Day > 0 /\ daily \in Int
  BY TimeAssumption
<1>2. now % Day \in Int /\ Q \in Int /\ now - (now % Day) = Q * Day
  BY <1>1
<1> HIDE DEF Q
<1>3. /\ Q * Day \in Int
      /\ (Q - 1) * Day = Q * Day - Day
      /\ (Q + 1) * Day = Q * Day + Day
  BY <1>1, <1>2
<1>4. SlotOn(daily, now) = Q * Day + daily
  BY <1>2 DEF SlotOn
<1>5. \E q \in Int : LatestSlot(daily, now) = q * Day + daily
  BY <1>1, <1>2, <1>3, <1>4 DEF LatestSlot
<1>6. \E q \in Int : NextSlot(daily, now) = q * Day + daily
  BY <1>1, <1>2, <1>3, <1>4 DEF NextSlot
<1>7. QED
  BY <1>5, <1>6, SlotsInOrder DEF Reached

\* A row that keeps its number and is neither claimed nor forgotten.
KeptRow(r, q) == (q.state = "absent" <=> r.state = "absent") /\ q.occurrence = r.occurrence

\* Every step keeps the row of a slot, or is the tick that claims the slot.
LEMMA SlotRows ==
    ASSUME LedgerInv, [Next]_vars, NEW s \in Schedules, NEW i \in Instants
    PROVE  \/ KeptRow(runs[<<s, i>>], runs'[<<s, i>>])
           \/ \E n \in Nodes : Tick(n) /\ s \in Claimable /\ <<s, i>> = DueSlot(s)
<1> DEFINE k == <<s, i>>
<1>t. /\ k \in RunKeys
      /\ runs \in [RunKeys -> Run]
      /\ tasks \subseteq TaskSet
  BY DEF LedgerInv, TypeInv, TypeOK, Run, RunKeys, Claims
<1>r. /\ runs[k].state # "absent" => runs'[k].state # "absent"
      /\ runs[k] \in Run
  BY <1>t, RowsStep DEF RowStep
<1>u. ASSUME runs' = runs PROVE KeptRow(runs[k], runs'[k])
  BY <1>u DEF KeptRow
<1>e. /\ \A st \in Terminal : Settled(runs[k], st).occurrence = runs[k].occurrence
      /\ Recovered(runs[k]).occurrence = runs[k].occurrence
      /\ \A now \in Int : AfterFailure(runs[k], now).occurrence = runs[k].occurrence
  BY <1>r DEF Settled, Recovered, AfterFailure, Run
<1>1. ASSUME NEW n \in Nodes, Tick(n), ~(s \in Claimable /\ k = DueSlot(s))
      PROVE  KeptRow(runs[k], runs'[k])
  <2>1. CASE k \in Recoverable
    <3>1. runs'[k] = Recovered(runs[k])
      BY <1>t, <1>1, <2>1 DEF Tick
    <3>2. runs[k].state # "absent"
      BY <2>1 DEF Recoverable
    <3>3. QED
      BY <1>r, <1>e, <3>1, <3>2 DEF KeptRow
  <2>2. CASE k \notin Recoverable
    <3>1. runs'[k] = runs[k]
      BY <1>t, <1>1, <2>2 DEF Tick
    <3>2. QED
      BY <3>1 DEF KeptRow
  <2>3. QED
    BY <2>1, <2>2
<1>2. ASSUME NEW t \in tasks, Complete(t) \/ Skip(t) PROVE KeptRow(runs[k], runs'[k])
  <2>1. \/ runs' = runs
        \/ /\ runs[t.claim.key].state = "running"
           /\ \E st \in Terminal :
                  runs' = [runs EXCEPT ![t.claim.key] = Settled(runs[t.claim.key], st)]
    BY <1>2 DEF Complete, Settle, Skip, Running, Terminal
  <2>2. QED
    BY <1>t, <1>r, <1>e, <1>u, <2>1 DEF KeptRow
<1>3. ASSUME NEW t \in tasks, RecordFailure(t) PROVE KeptRow(runs[k], runs'[k])
  <2>1. t.claim.now \in Int
    BY <1>t DEF TaskSet, ClaimSet, Instants
  <2>2. \/ runs' = runs
        \/ /\ runs[t.claim.key].state = "running"
           /\ runs' = [runs EXCEPT ![t.claim.key] =
                           AfterFailure(runs[t.claim.key], t.claim.now)]
    BY <1>3 DEF RecordFailure, Running
  <2>3. QED
    BY <1>t, <1>r, <1>e, <1>u, <2>1, <2>2 DEF KeptRow
<1>4. ASSUME NEW t \in tasks, Renew(t) PROVE KeptRow(runs[k], runs'[k])
  <2>1. CASE k # t.claim.key
    BY <1>t, <1>4, <2>1 DEF Renew, KeptRow
  <2>2. CASE k = t.claim.key
    <3>1. runs'[k] = [runs[k] EXCEPT !.lease = LeaseUntil(clock)]
      BY <1>t, <1>4, <2>2 DEF Renew
    <3>2. QED
      BY <1>r, <3>1 DEF KeptRow, Run
  <2>3. QED
    BY <2>1, <2>2
<1>5. ASSUME NEW n \in Nodes, NEW d \in Destinations, ClaimSetup(n, d)
      PROVE  KeptRow(runs[k], runs'[k])
  <2>1. k # <<BackupSchedule, d>>
    BY KeysAssumption DEF Instants
  <2>2. QED
    BY <1>t, <1>5, <2>1 DEF ClaimSetup, KeptRow
<1>6. ASSUME \/ \E n \in Nodes :
                    \/ \E c \in started[n] : LoseStart(n, c) \/ \E pid \in Pids : StartTask(n, c, pid)
                    \/ Crash(n)
             \/ \E t \in tasks : HandlerFails(t) \/ TaskLost(t)
             \/ \E a \in Admins : OpenPage(a)
             \/ \E a \in Admins, daily \in DailyTimes, b \in BOOLEAN : SaveSchedule(a, daily, b)
             \/ Release \/ Advance \/ UNCHANGED vars
      PROVE  runs' = runs
  BY <1>6 DEF LoseStart, StartTask, Crash, HandlerFails, TaskLost, OpenPage, SaveSchedule,
              Release, Converge, Activate, Advance, vars
<1>7. QED
  BY <1>u, <1>1, <1>2, <1>3, <1>4, <1>5, <1>6 DEF Next, Coordinator, Task, Operator
\* What a step that claims no slot of s may do to its schedule: leave its times
\* alone or give it the next slot of a time, and never count, nor bring it back.
LEMMA ScheduleKept ==
    ASSUME TypeInv, [Next]_vars, NEW s \in Schedules,
           ~ \E n \in Nodes : Tick(n) /\ s \in Claimable
    PROVE  /\ schedules'[s].claimed = schedules[s].claimed
           /\ schedules[s].expired => schedules'[s].expired
           /\ clock <= clock'
           /\ \/ /\ schedules'[s].daily = schedules[s].daily
                 /\ schedules'[s].next = schedules[s].next
              \/ /\ schedules'[s].daily \in DailyTimes
                 /\ schedules'[s].next = NextSlot(schedules'[s].daily, clock)
                 /\ schedules'[s].revision = schedules[s].revision + 1
                 /\ clock' = clock
<1>t. /\ schedules \in [Schedules -> Schedule]
      /\ schedules[s] \in Schedule
      /\ BackupSchedule \in Schedules
      /\ clock \in Int
  BY KeysAssumption DEF TypeInv, TypeOK, Schedule, Instants
<1>1. ASSUME NEW n \in Nodes, Tick(n)
      PROVE  /\ clock' = clock
             /\ schedules'[s] \in {schedules[s], [schedules[s] EXCEPT !.expired = TRUE]}
  BY <1>1 DEF Tick
<1>2. ASSUME NEW daily \in DailyTimes, NEW b \in BOOLEAN,
             schedules' = [schedules EXCEPT ![BackupSchedule] = Edited(BackupSchedule, daily, b)]
      PROVE  \/ schedules'[s] = schedules[s]
             \/ /\ schedules'[s].daily = daily
                /\ schedules'[s].next = NextSlot(daily, clock)
                /\ schedules'[s].claimed = schedules[s].claimed
                /\ schedules'[s].expired = schedules[s].expired
                /\ schedules'[s].revision = schedules[s].revision + 1
  BY <1>t, <1>2 DEF Edited, Schedule
<1>3. CASE \E n \in Nodes : Tick(n)
  BY <1>t, <1>1, <1>3 DEF Schedule
<1>4. CASE \/ \E a \in Admins, daily \in DailyTimes, b \in BOOLEAN : SaveSchedule(a, daily, b)
           \/ \E daily \in DailyTimes : Converge(daily)
  <2>1. /\ clock' = clock
        /\ \E daily \in DailyTimes, b \in BOOLEAN :
               schedules' = [schedules EXCEPT ![BackupSchedule] =
                                 Edited(BackupSchedule, daily, b)]
    BY <1>t, <1>4 DEF SaveSchedule, Converge, Schedule
  <2>2. PICK daily \in DailyTimes, b \in BOOLEAN :
            schedules' = [schedules EXCEPT ![BackupSchedule] = Edited(BackupSchedule, daily, b)]
    BY <2>1
  <2>3. clock <= clock'
    BY <1>t, <2>1
  <2>4. CASE schedules'[s] = schedules[s]
    BY <2>3, <2>4
  <2>5. CASE schedules'[s] # schedules[s]
    BY <1>2, <2>1, <2>2, <2>3, <2>5
  <2>6. QED
    BY <2>4, <2>5
<1>5. CASE \E u \in Schedules : Activate(u)
  BY <1>t, <1>5 DEF Activate, Schedule
<1>6. CASE schedules' = schedules
  <2>1. clock' = clock \/ clock' = clock + 1
    BY <1>6 DEF Next, Coordinator, Task, Operator, Release, vars, Tick, LoseStart, StartTask,
                Crash, Complete, Settle, Skip, HandlerFails, RecordFailure, TaskLost, Renew,
                ClaimSetup, OpenPage, SaveSchedule, Converge, Activate, Advance
  <2>2. QED
    BY <1>t, <1>6, <2>1
<1>7. QED
  BY <1>3, <1>4, <1>5, <1>6
     DEF Next, Coordinator, Task, Operator, Release, vars, LoseStart, StartTask, Crash,
         Complete, Settle, Skip, HandlerFails, RecordFailure, TaskLost, Renew, ClaimSetup,
         OpenPage, Advance

\* The slot a tick claims is the newest that has passed, and not before the
\* one that was due.
LEMMA SlotClaimed ==
    ASSUME LedgerInv, NEW n \in Nodes, Tick(n), NEW s \in Claimable,
           Reached(schedules[s].daily, schedules[s].next)
    PROVE  LET i == LatestSlot(schedules[s].daily, clock)
           IN  /\ i \in Instants
               /\ DueSlot(s) = <<s, i>>
               /\ schedules[s].next <= i /\ i <= clock /\ clock < i + Day
               /\ Eligible(s, i)
               /\ runs[<<s, i>>].state = "absent"
               /\ runs'[<<s, i>>] = FirstAttempt(schedules[s].claimed + 1)
               /\ schedules'[s] = ClaimedSchedule(s)
               /\ clock' = clock
<1> DEFINE i == LatestSlot(schedules[s].daily, clock)
<1>1. /\ s \in Schedules
      /\ schedules[s] \in Schedule
      /\ clock \in Instants /\ clock \in Int /\ clock >= Day
      /\ schedules[s].daily \in DailyTimes /\ schedules[s].next \in Int
  BY DEF LedgerInv, TypeInv, TypeOK, Schedule, Claimable, DueSchedules, Instants
<1>2. /\ i \in Int /\ 0 <= i /\ i <= clock /\ clock < i + Day
  BY <1>1, SlotFacts
<1>3. i \in Instants
  BY <1>1, <1>2, TimeAssumption DEF Instants
<1>4. schedules[s].next <= i
  BY <1>1, TimeAssumption DEF Reached, Claimable, DueSchedules, Passed
<1>5. /\ DueSlot(s) = <<s, i>>
      /\ Eligible(s, i)
      /\ runs[<<s, i>>].state = "absent"
  BY DEF DueSlot, Claimable
<1>6. /\ runs'[<<s, i>>] = FirstAttempt(schedules[s].claimed + 1)
      /\ schedules'[s] = ClaimedSchedule(s)
      /\ clock' = clock
  <2>1. <<s, i>> \in RunKeys /\ <<s, i>>[1] = s
    BY <1>1, <1>3 DEF RunKeys, Claims
  <2>2. QED
    BY <1>1, <1>5, <2>1 DEF Tick
<1>7. QED
  BY <1>2, <1>3, <1>4, <1>5, <1>6

LEMMA SlotInit == Init => SlotInv
<1> SUFFICES ASSUME Init, NEW s \in Schedules PROVE SlotsOK(s)
  BY DEF SlotInv
<1>1. Taken(s) = {}
  BY DEF Init, Taken, Absent, RunKeys, Claims
<1>2. /\ schedules[s].daily = InitialDaily[s]
      /\ schedules[s].next = LatestSlot(InitialDaily[s], Day)
      /\ schedules[s].claimed = 0
  BY DEF Init
<1>3. Reached(schedules[s].daily, schedules[s].next)
  <2>1. InitialDaily[s] \in DailyTimes /\ Day \in Int
    BY TimeAssumption
  <2>2. QED
    BY <1>2, <2>1, SlotsReached
<1>4. Numbered(s)
  BY <1>1, <1>2, FS_EmptySet DEF Numbered
<1>5. Limited(s)
  BY <1>1, <1>2, ExpirationAssumption DEF Limited
<1>6. QED
  BY <1>1, <1>3, <1>4, <1>5 DEF SlotsOK

LEMMA TakenFinite == \A s : IsFiniteSet(Taken(s))
<1>1. IsFiniteSet(Instants)
  BY FS_Interval, TimeAssumption DEF Instants
<1>2. QED
  BY <1>1, FS_Subset DEF Taken

LEMMA SlotStep ==
    ASSUME LedgerInv, LedgerInv', SlotInv, [Next]_vars, NEW s \in Schedules
    PROVE  SlotsOK(s)'
<1>t. /\ TypeInv
      /\ clock \in Int /\ clock' \in Int /\ clock >= Day
      /\ schedules[s] \in Schedule /\ schedules'[s] \in Schedule
      /\ schedules[s].claimed \in Nat /\ schedules[s].next \in Int
      /\ schedules[s].daily \in DailyTimes
      /\ Expiration[s].max \in Nat /\ Expiration[s].at \in Int
      /\ \A i \in Taken(s) : i \in Int /\ runs[<<s, i>>].occurrence \in Nat
  BY ExpirationAssumption DEF LedgerInv, TypeInv, TypeOK, Schedule, Instants, Taken, RunKeys, Claims
<1>s. SlotsOK(s)
  BY DEF SlotInv
<1>u. \A i \in Taken(s) : i \in Int /\ i < schedules[s].next /\ i <= clock
  BY <1>t, <1>s DEF SlotsOK
<1>1. CASE \E n \in Nodes : Tick(n) /\ s \in Claimable
  <2> DEFINE i == LatestSlot(schedules[s].daily, clock)
             o == schedules[s].claimed + 1
  <2>1. PICK n \in Nodes : Tick(n) /\ s \in Claimable
    BY <1>1
  <2>2. /\ i \in Instants /\ i \in Int
        /\ DueSlot(s) = <<s, i>>
        /\ schedules[s].next <= i /\ i <= clock
        /\ Eligible(s, i)
        /\ runs[<<s, i>>].state = "absent"
        /\ runs'[<<s, i>>] = FirstAttempt(o)
        /\ schedules'[s] = ClaimedSchedule(s)
        /\ clock' = clock
    BY <1>s, <2>1, SlotClaimed DEF SlotsOK, Instants
  <2>3. /\ schedules'[s].daily = schedules[s].daily
        /\ schedules'[s].next = NextSlot(schedules[s].daily, clock)
        /\ schedules'[s].claimed = o
        /\ schedules'[s].expired = FinalOccurrence(s, o)
    BY <1>t, <2>2 DEF ClaimedSchedule, Schedule
  <2>4. \A j \in Instants : j # i => KeptRow(runs[<<s, j>>], runs'[<<s, j>>])
    BY <2>2, SlotRows
  <2> HIDE DEF i
  <2>5. /\ Taken(s)' = Taken(s) \cup {i}
        /\ i \notin Taken(s)
        /\ \A j \in Taken(s) : runs'[<<s, j>>].occurrence = runs[<<s, j>>].occurrence
        /\ runs'[<<s, i>>].occurrence = o
    <3>1. runs'[<<s, i>>].occurrence = o /\ runs'[<<s, i>>].state = "running"
      BY <2>2 DEF FirstAttempt
    <3>2. i \notin Taken(s)
      BY <2>2 DEF Taken
    <3>3. \A j \in Instants : j \in Taken(s)' <=> j \in Taken(s) \cup {i}
      BY <2>2, <2>4, <3>1, <3>2 DEF Taken, KeptRow
    <3>4. Taken(s)' \subseteq Instants /\ Taken(s) \subseteq Instants
      BY DEF Taken, Instants
    <3>5. \A j \in Taken(s) : runs'[<<s, j>>].occurrence = runs[<<s, j>>].occurrence
      BY <2>4, <3>2, <3>4 DEF KeptRow
    <3>6. QED
      BY <2>2, <3>1, <3>2, <3>3, <3>4, <3>5
  <2>6. \A j \in Taken(s) : j < i
    BY <1>u, <1>t, <2>2
  <2>7. Reached(schedules[s].daily, schedules[s].next)'
    BY <1>t, <2>3, SlotsReached DEF Reached
  <2>8. \A j \in Taken(s)' : j < schedules'[s].next /\ j <= clock'
    <3>1. schedules'[s].next = i + Day /\ clock < i + Day
      BY <1>t, <2>3, SlotFacts DEF i
    <3>2. Day \in Nat /\ Day > 0
      BY TimeAssumption
    <3>3. QED
      BY <1>t, <1>u, <2>2, <2>5, <2>6, <3>1, <3>2
  <2>9. Numbered(s)'
    <3>1. \A j \in Taken(s) : runs[<<s, j>>].occurrence \in 1 .. schedules[s].claimed
      BY <1>s DEF SlotsOK, Numbered
    <3>2. \A j \in Taken(s)' : runs'[<<s, j>>].occurrence \in 1 .. o
      BY <1>t, <2>5, <3>1
    <3>3. \A j, k \in Taken(s)' :
              runs'[<<s, j>>].occurrence < runs'[<<s, k>>].occurrence <=> j < k
      <4>1. \A j, k \in Taken(s) :
                runs[<<s, j>>].occurrence < runs[<<s, k>>].occurrence <=> j < k
        BY <1>s DEF SlotsOK, Numbered
      <4>2. \A j \in Taken(s) : runs[<<s, j>>].occurrence < o
        BY <1>t, <3>1
      <4>3. QED
        BY <1>t, <2>2, <2>5, <2>6, <4>1, <4>2
    <3>4. Cardinality(Taken(s)') = o
      <4>1. Cardinality(Taken(s)) = schedules[s].claimed
        BY <1>s DEF SlotsOK, Numbered
      <4>2. QED
        BY <2>5, <4>1, TakenFinite, FS_AddElement
    <3>5. QED
      BY <2>3, <3>2, <3>3, <3>4 DEF Numbered
  <2>10. Limited(s)'
    <3>1. CASE Expiration[s].kind = "after_occurrences"
      <4>1. schedules[s].claimed < Expiration[s].max
        BY <2>2, <3>1 DEF Eligible
      <4>2. schedules'[s].expired <=> o >= Expiration[s].max
        BY <2>3, <3>1 DEF FinalOccurrence
      <4>3. QED
        BY <1>t, <2>3, <3>1, <4>1, <4>2 DEF Limited
    <3>2. CASE Expiration[s].kind = "at"
      <4>1. i < Expiration[s].at
        BY <1>t, <2>2, <3>2 DEF Eligible
      <4>2. QED
        BY <1>s, <2>5, <3>2, <4>1 DEF SlotsOK, Limited
    <3>3. QED
      BY <3>1, <3>2 DEF Limited
  <2>11. QED
    BY <2>7, <2>8, <2>9, <2>10 DEF SlotsOK
<1>2. CASE ~ \E n \in Nodes : Tick(n) /\ s \in Claimable
  <2>1. \A j \in Instants : KeptRow(runs[<<s, j>>], runs'[<<s, j>>])
    BY <1>2, SlotRows
  <2>2. /\ Taken(s)' = Taken(s)
        /\ \A j \in Taken(s) : runs'[<<s, j>>].occurrence = runs[<<s, j>>].occurrence
    BY <2>1 DEF Taken, KeptRow, Instants
  <2>3. /\ schedules'[s].claimed = schedules[s].claimed
        /\ schedules[s].expired => schedules'[s].expired
        /\ clock <= clock'
        /\ \/ /\ schedules'[s].daily = schedules[s].daily
              /\ schedules'[s].next = schedules[s].next
           \/ /\ schedules'[s].daily \in DailyTimes
              /\ schedules'[s].next = NextSlot(schedules'[s].daily, clock)
    BY <1>t, <1>2, ScheduleKept
  <2>4. Reached(schedules[s].daily, schedules[s].next)'
    BY <1>t, <1>s, <2>3, SlotsReached DEF Reached, SlotsOK
  <2>5. \A j \in Taken(s)' : j < schedules'[s].next /\ j <= clock'
    <3>1. ASSUME NEW daily \in DailyTimes PROVE NextSlot(daily, clock) > clock
                                               /\ NextSlot(daily, clock) \in Int
      BY <1>t, SlotFacts, TimeAssumption
    <3>2. QED
      BY <1>t, <1>u, <2>2, <2>3, <3>1
  <2>6. Numbered(s)'
    BY <1>s, <2>2, <2>3 DEF SlotsOK, Numbered
  <2>7. Limited(s)'
    BY <1>s, <2>2, <2>3 DEF SlotsOK, Limited
  <2>8. QED
    BY <2>4, <2>5, <2>6, <2>7 DEF SlotsOK
<1>3. QED
  BY <1>1, <1>2

\* The daily runs of a schedule are numbered in the order of their slots,
\* none twice and none left out, within the schedule's limit
\* (SqliteScheduleStore.claim_due/2, Policy.final_occurrence_expiry/3).
THEOREM OccurrencesCounted == Spec => []OccurrencesAccounted
<1>1. LedgerInv /\ SlotInv /\ [Next]_vars => (LedgerInv /\ SlotInv)'
  BY LedgerStep, SlotStep DEF SlotInv
<1>2. SlotInv => OccurrencesAccounted
  BY DEF SlotInv, SlotsOK, Numbered, Limited, Taken, OccurrencesAccounted
<1>3. QED
  BY <1>1, <1>2, LedgerInit, SlotInit, PTL DEF Spec

\* A claim takes the newest slot that has passed, which is later than all
\* claimed before it: missed days coalesce (SqliteScheduleStore.claim_due/2, Policy.latest_slot/2).
THEOREM NewestClaimed == Spec => ClaimIsNewest
<1>1. ASSUME LedgerInv, SlotInv, [Next]_vars, NEW s \in Schedules, NEW i \in Instants,
             runs[<<s, i>>].state = "absent", runs'[<<s, i>>].state # "absent"
      PROVE  /\ schedules[s].next <= i /\ i <= clock /\ clock < i + Day
             /\ \A j \in Instants : runs[<<s, j>>].state # "absent" => j < i
  <2>1. ~KeptRow(runs[<<s, i>>], runs'[<<s, i>>])
    BY <1>1 DEF KeptRow
  <2>2. PICK n \in Nodes : Tick(n) /\ s \in Claimable /\ <<s, i>> = DueSlot(s)
    BY <1>1, <2>1, SlotRows
  <2>3. SlotsOK(s)
    BY <1>1 DEF SlotInv
  <2>4. i = LatestSlot(schedules[s].daily, clock)
    BY <2>2 DEF DueSlot
  <2>5. schedules[s].next <= i /\ i <= clock /\ clock < i + Day
    BY <1>1, <2>2, <2>3, <2>4, SlotClaimed DEF SlotsOK
  <2>6. \A j \in Taken(s) : j < schedules[s].next
    BY <2>3 DEF SlotsOK
  <2>7. schedules[s].next \in Int
    BY <1>1 DEF LedgerInv, TypeInv, TypeOK
  <2>8. QED
    BY <2>5, <2>6, <2>7 DEF Taken, Instants
<1>2. LedgerInv /\ SlotInv /\ [Next]_vars =>
          /\ (LedgerInv /\ SlotInv)'
          /\ [\A s \in Schedules : \A i \in Instants :
                 runs[<<s, i>>].state = "absent" /\ runs'[<<s, i>>].state # "absent" =>
                     /\ schedules[s].next <= i /\ i <= clock /\ clock < i + Day
                     /\ \A j \in Instants : runs[<<s, j>>].state # "absent" => j < i]_vars
  BY <1>1, LedgerStep, SlotStep DEF SlotInv
<1>3. QED
  BY <1>2, LedgerInit, SlotInit, PTL DEF Spec, ClaimIsNewest

\* A due slot is passed over only by the claim of the newest one in the same
\* transaction, or by an edit that gives the schedule a new revision (claim_due/2, update_daily/6).
THEOREM DueSlotKept == Spec => DueSlotNotLost
<1>1. ASSUME LedgerInv, SlotInv, [Next]_vars, NEW s \in DueSchedules
      PROVE  \/ schedules'[s].next = schedules[s].next
             \/ runs[DueSlot(s)].state = "absent" /\ runs'[DueSlot(s)].state = "running"
             \/ schedules'[s].revision > schedules[s].revision
  <2>1. s \in Schedules
    BY DEF DueSchedules
  <2>2. CASE \E n \in Nodes : Tick(n) /\ s \in Claimable
    <3>1. PICK n \in Nodes : Tick(n) /\ s \in Claimable
      BY <2>2
    <3>2. Reached(schedules[s].daily, schedules[s].next)
      BY <1>1, <2>1 DEF SlotInv, SlotsOK
    <3>3. /\ runs[DueSlot(s)].state = "absent"
          /\ runs'[DueSlot(s)] = FirstAttempt(schedules[s].claimed + 1)
      BY <1>1, <3>1, <3>2, SlotClaimed
    <3>4. QED
      BY <3>3 DEF FirstAttempt
  <2>3. CASE ~ \E n \in Nodes : Tick(n) /\ s \in Claimable
    <3>1. \/ schedules'[s].next = schedules[s].next
          \/ schedules'[s].revision = schedules[s].revision + 1
      BY <1>1, <2>1, <2>3, ScheduleKept DEF LedgerInv
    <3>2. schedules[s].revision \in Nat
      BY <1>1, <2>1 DEF LedgerInv, TypeInv, TypeOK
    <3>3. QED
      BY <3>1, <3>2
  <2>4. QED
    BY <2>2, <2>3
<1>2. LedgerInv /\ SlotInv /\ [Next]_vars =>
          /\ (LedgerInv /\ SlotInv)'
          /\ [\A s \in DueSchedules :
                 \/ schedules'[s].next = schedules[s].next
                 \/ runs[DueSlot(s)].state = "absent" /\ runs'[DueSlot(s)].state = "running"
                 \/ schedules'[s].revision > schedules[s].revision]_vars
  BY <1>1, LedgerStep, SlotStep DEF SlotInv
<1>3. QED
  BY <1>2, LedgerInit, SlotInit, PTL DEF Spec, DueSlotNotLost
===========================================================================
