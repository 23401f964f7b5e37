---------------------------- MODULE ReleaseProofs ----------------------------
(* For any number of releases, revisions and crashes and on both platforms: *)
(* a release builds what its gates ran on and, as long as no takeover removes *)
(* a lock that is in use, one release owns the host, the slot that state.json *)
(* names is served, a rollback has its way back and every report is true.     *)
EXTENDS Release, TLAPS

Names == Ended \cup Waiting \cup Stages

\* Who is at what point of taking the lock, and what the lock then is, as long as no
\* takeover has removed a lock that was not stale.
LockInv ==
    /\ pc \in [Pids -> Names]
    /\ \A p \in Pids : pc[p] \in Stages => lock = p
    /\ \A p \in Pids : pc[p] = "mark" => lock = Unmarked
    /\ \A p, q \in Pids : pc[p] = "mark" /\ pc[q] = "mark" => p = q

LEMMA LockValues ==
    /\ NoLock \notin Pids /\ Unmarked \notin Pids /\ Leftover \notin Pids
    /\ NoLock # Unmarked /\ Leftover # Unmarked /\ Leftover # NoLock
    BY ReleaseAssumption DEF NoLock, Unmarked, Leftover, Pids

LEMMA StagesAre ==
    Stages = {"preflight", "gate", "build", "migrate", "prepare", "await", "verify", "promote",
        "install", "record", "prove", "drain", "retire", "retain", "converge", "coalesce",
        "gates", "recover", "rollback", "discard", "erase", "unlock", "hung"}
    BY DEF Stages, CompatibilityOrder

\* The order of the stages and of the recovery leads to stages only.
LEMMA StagesFollow ==
    ASSUME NEW p \in Pids
    PROVE  /\ pc[p] \in DOMAIN CompatibilityOrder => NextStage(p) \in Stages
           /\ pc[p] \in DOMAIN CompatibilityRecovery => Recovery(p) \in Stages
<1>1. \A s \in DOMAIN CompatibilityOrder : CompatibilityOrder[s] \in Stages
    BY StagesAre DEF CompatibilityOrder
<1>2. \A s \in DOMAIN CompatibilityOrder : ExperienceOrder[s] \in Stages
    BY <1>1, StagesAre DEF ExperienceOrder
<1>3. \A s \in DOMAIN CompatibilityRecovery : CompatibilityRecovery[s] \in Stages
    BY StagesAre DEF CompatibilityRecovery
<1>4. \A s \in DOMAIN CompatibilityRecovery : ExperienceRecovery[s] \in Stages
    BY <1>3, StagesAre DEF ExperienceRecovery
<1>. QED BY <1>1, <1>2, <1>3, <1>4 DEF NextStage, Recovery

\* Outside the lock's own actions a release goes from stage to stage.
StageStep(p) ==
    /\ lock' = lock
    /\ pc[p] \in Stages
    /\ \E s \in Stages : pc' = [pc EXCEPT ![p] = s]

LEMMA ProceedSteps == ASSUME NEW p \in Pids, Proceed(p) PROVE StageStep(p)
<1>1. CASE Preflight(p) \/ experiencePreflight(p) \/ Coalesce(p) \/ BeginGate(p)
    BY <1>1, StagesAre DEF StageStep, Preflight, experiencePreflight, Coalesce, BeginGate, Goto, Finish
<1>2. CASE EndGate(p)
    <2>1. NextStage(p) \in Stages
        BY <1>2, StagesFollow DEF EndGate, CompatibilityOrder
    <2>. QED BY <1>2, <2>1, StagesAre DEF StageStep, EndGate, Goto
<1>3. ASSUME pc[p] \in DOMAIN CompatibilityOrder, Advance(p), lock' = lock PROVE StageStep(p)
    <2>1. NextStage(p) \in Stages
        BY <1>3, StagesFollow
    <2>. QED BY <1>3, <2>1 DEF StageStep, Advance, Goto, Stages
<1>4. CASE Build(p) \/ proveMigration(p) \/ AwaitCandidate(p) \/ verifyCandidateRevision(p)
    BY <1>3, <1>4 DEF Build, proveMigration, AwaitCandidate, verifyCandidateRevision, CompatibilityOrder
<1>5. CASE prepareCandidate(p)
    <2>1. pc[p] = "prepare" /\ lock' = lock /\ (Advance(p) \/ Goto(p, "discard"))
        BY <1>5 DEF prepareCandidate
    <2>2. pc[p] \in DOMAIN CompatibilityOrder
        BY <2>1 DEF CompatibilityOrder
    <2>. QED BY <1>3, <2>1, <2>2, StagesAre DEF StageStep, Goto
<1>6. CASE Promote(p) \/ proveRouted(p)
    BY <1>3, <1>6 DEF Promote, proveRouted, CompatibilityOrder
<1>7. CASE InstallConfig(p) \/ RecordRoute(p)
    <2>1. /\ pc[p] \in {"install", "record"} /\ lock' = lock
          /\ Advance(p) \/ Goto(p, "discard") \/ Goto(p, "recover") \/ Goto(p, "unlock")
        BY <1>7 DEF InstallConfig, RecordRoute, BreaksOff, Finish
    <2>2. pc[p] \in DOMAIN CompatibilityOrder
        BY <2>1 DEF CompatibilityOrder
    <2>. QED BY <1>3, <2>1, <2>2, StagesAre DEF StageStep, Goto
<1>8. CASE Drain(p)
    <2>1. pc[p] = "drain" /\ lock' = lock /\ (Advance(p) \/ Goto(p, Recovery(p)))
        BY <1>8 DEF Drain
    <2>2. pc[p] \in DOMAIN CompatibilityOrder /\ pc[p] \in DOMAIN CompatibilityRecovery
        BY <2>1 DEF CompatibilityOrder, CompatibilityRecovery
    <2>3. Recovery(p) \in Stages
        BY <2>2, StagesFollow
    <2>. QED BY <1>3, <2>1, <2>2, <2>3, StagesAre DEF StageStep, Goto
<1>9. CASE Retire(p) \/ retainArtifacts(p) \/ convergeAfterDrain(p)
    BY <1>3, <1>9 DEF Retire, retainArtifacts, convergeAfterDrain, CompatibilityOrder
<1>. QED BY <1>1, <1>2, <1>4, <1>5, <1>6, <1>7, <1>8, <1>9 DEF Proceed

LEMMA RecoverSteps == ASSUME NEW p \in Pids, Recover(p) PROVE StageStep(p)
<1>1. DOMAIN CompatibilityRecovery \subseteq Stages
    BY StagesAre DEF CompatibilityRecovery
<1>2. ASSUME pc[p] \in DOMAIN CompatibilityRecovery, Goto(p, Recovery(p)), lock' = lock
      PROVE  StageStep(p)
    BY <1>1, <1>2, StagesFollow DEF StageStep, Goto
<1>3. CASE Fail(p) \/ discardCandidate(p) \/ discardArtifact(p)
    BY <1>2, <1>3 DEF Fail, discardCandidate, discardArtifact, CompatibilityRecovery
<1>4. CASE FailCleanup(p) \/ FailRecovery(p) \/ recoverActivation(p) \/ Rollback(p)
    BY <1>4, StagesAre DEF StageStep, FailCleanup, FailRecovery, recoverActivation,
        Rollback, Goto, Finish
<1>. QED BY <1>3, <1>4 DEF Recover

\* A command that never returns keeps its release at work.
LEMMA HangStep ==
    ASSUME pc \in [Pids -> Names], NEW p \in Pids, Hang(p)
    PROVE  StageStep(p)
<1>1. lock' = lock /\ pc[p] \in Stages
    BY DEF Hang, Untimed
<1>2. pc' = [pc EXCEPT ![p] = "hung"]
    BY DEF Hang, Leave
<1>. QED BY <1>1, <1>2, StagesAre DEF StageStep

\* The owner of the lock is the only one at work.
LEMMA StageStepKeeps == ASSUME LockInv, NEW p \in Pids, StageStep(p) PROVE LockInv'
<1>1. PICK s \in Stages : pc' = [pc EXCEPT ![p] = s]
    BY DEF StageStep
<1>2. lock' = lock /\ lock = p /\ pc[p] \in Stages /\ pc \in [Pids -> Names]
    BY DEF StageStep, LockInv
<1>3. \A q \in Pids : pc'[q] = IF q = p THEN s ELSE pc[q]
    BY <1>1, <1>2
<1>4. s # "mark" /\ s \in Names
    BY StagesAre DEF Names
<1>5. pc' \in [Pids -> Names]
    BY <1>1, <1>2, <1>4
<1>. QED BY <1>2, <1>3, <1>4, <1>5 DEF LockInv

\* The lock stays, and some processes end or go to a point where they have no part in it.
LEMMA AsideKeeps ==
    ASSUME LockInv, NEW Q \in SUBSET Pids, NEW s \in {"lock", "break", "retake", "done"},
           lock' = lock, pc' \in [Pids -> Names],
           \A q \in Pids : pc'[q] = IF q \in Q THEN s ELSE pc[q]
    PROVE  LockInv'
<1>1. s \notin Stages /\ s # "mark"
    BY StagesAre
<1>. QED BY <1>1 DEF LockInv

LEMMA ForgetKeeps ==
    ASSUME LockInv, NEW Q \in SUBSET Pids, Forget(Q), lock' = lock
    PROVE  LockInv'
<1>1. \A q \in Pids : pc'[q] = IF q \in Q THEN "done" ELSE pc[q]
    BY DEF Forget, Leave
<1>2. pc' \in [Pids -> Names]
    <2>1. "done" \in Names
        BY DEF Names, Ended
    <2>. QED BY <2>1 DEF Forget, Leave, LockInv
<1>. QED BY <1>1, <1>2, AsideKeeps

\* A process that frees the lock while nobody else is at work.
LEMMA FreedKeeps ==
    ASSUME LockInv, NEW p \in Pids, lock' = NoLock, NEW s \in {"done", "retake"},
           \A q \in Pids : q # p => pc[q] \notin Stages /\ pc[q] # "mark",
           \A q \in Pids : pc'[q] = IF q = p THEN s ELSE pc[q],
           pc' \in [Pids -> Names]
    PROVE  LockInv'
<1>1. s \notin Stages /\ s # "mark"
    BY StagesAre
<1>. QED BY <1>1 DEF LockInv

LEMMA GotoAt ==
    ASSUME pc \in [Pids -> Names], NEW p \in Pids, NEW s \in Names, Goto(p, s)
    PROVE  pc' \in [Pids -> Names] /\ \A q \in Pids : pc'[q] = IF q = p THEN s ELSE pc[q]
    BY DEF Goto

LEMMA EndAt ==
    ASSUME pc \in [Pids -> Names], NEW p \in Pids, End(p)
    PROVE  pc' \in [Pids -> Names] /\ \A q \in Pids : pc'[q] = IF q = p THEN "done" ELSE pc[q]
<1>1. "done" \in Names
    BY DEF Names, Ended
<1>. QED BY <1>1 DEF End, Forget, Leave

LEMMA StartKeeps == ASSUME LockInv, NEW p \in Pids, Start(p) PROVE LockInv'
<1>1. lock' = lock /\ pc \in [Pids -> Names] /\ {p} \in SUBSET Pids
    BY DEF Start, LockInv
<1>2. CASE End(p)
    BY <1>1, <1>2, ForgetKeeps DEF End
<1>3. CASE Goto(p, "lock")
    <2>1. "lock" \in Names
        BY DEF Names, Waiting
    <2>2. pc' \in [Pids -> Names] /\ \A q \in Pids : pc'[q] = IF q \in {p} THEN "lock" ELSE pc[q]
        BY <1>1, <1>3, <2>1, GotoAt
    <2>. QED BY <1>1, <2>2, AsideKeeps
<1>. QED BY <1>2, <1>3 DEF Start

LEMMA MakeLockKeeps == ASSUME LockInv, NEW p \in Pids, MakeLock(p) PROVE LockInv'
<1>1. lock = NoLock /\ lock' = Unmarked /\ Goto(p, "mark") /\ pc \in [Pids -> Names]
    BY DEF MakeLock, LockInv
<1>2. "mark" \in Names /\ "mark" \notin Stages
    BY StagesAre DEF Names, Waiting
<1>3. pc' \in [Pids -> Names] /\ \A q \in Pids : pc'[q] = IF q = p THEN "mark" ELSE pc[q]
    BY <1>1, <1>2, GotoAt
<1>4. \A q \in Pids : pc[q] \notin Stages /\ pc[q] # "mark"
    BY <1>1, LockValues DEF LockInv
<1>. QED BY <1>1, <1>2, <1>3, <1>4, LockValues DEF LockInv

LEMMA MarkLockKeeps == ASSUME LockInv, NEW p \in Pids, MarkLock(p) PROVE LockInv'
<1>1. pc[p] = "mark" /\ pc \in [Pids -> Names]
    BY DEF MarkLock, LockInv
<1>2. \A q \in Pids : q # p => pc[q] \notin Stages /\ pc[q] # "mark"
    BY <1>1, LockValues DEF LockInv
<1>3. CASE lock' = NoLock /\ End(p)
    BY <1>1, <1>2, <1>3, EndAt, FreedKeeps
<1>4. CASE lock' = p /\ Goto(p, "preflight")
    <2>1. "preflight" \in Names /\ "preflight" \in Stages
        BY StagesAre DEF Names
    <2>2. pc' \in [Pids -> Names] /\ \A q \in Pids : pc'[q] = IF q = p THEN "preflight" ELSE pc[q]
        BY <1>1, <1>4, <2>1, GotoAt
    <2>. QED BY <1>2, <1>4, <2>1, <2>2 DEF LockInv
<1>. QED BY <1>3, <1>4 DEF MarkLock

\* Several processes may judge the lock stale at once.
LEMMA FindLockKeeps == ASSUME LockInv, NEW p \in Pids, FindLock(p) PROVE LockInv'
<1>1. lock' = lock /\ pc \in [Pids -> Names] /\ {p} \in SUBSET Pids
    BY DEF FindLock, LockInv
<1>2. CASE End(p)
    BY <1>1, <1>2, ForgetKeeps DEF End
<1>3. CASE Goto(p, "break")
    <2>1. "break" \in Names
        BY DEF Names, Waiting
    <2>2. pc' \in [Pids -> Names] /\ \A q \in Pids : pc'[q] = IF q \in {p} THEN "break" ELSE pc[q]
        BY <1>1, <1>3, <2>1, GotoAt
    <2>. QED BY <1>1, <2>2, AsideKeeps
<1>. QED BY <1>2, <1>3 DEF FindLock

\* Where the race would show: what is removed is the lock of a process that is gone.
LEMMA BreakLockKeeps ==
    ASSUME LockInv, NEW p \in Pids, BreakLock(p), ~raced'
    PROVE  LockInv'
<1>1. pc[p] = "break" /\ pc \in [Pids -> Names] /\ {p} \in SUBSET Pids
    BY DEF BreakLock, LockInv
<1>2. CASE lock' = lock /\ End(p)
    BY <1>1, <1>2, ForgetKeeps DEF End
<1>3. CASE /\ lock' = NoLock
           /\ raced' = IF staleProcessMarker THEN raced ELSE TRUE
           /\ Goto(p, "retake")
    <2>1. staleProcessMarker
        <3>1. ASSUME ~staleProcessMarker PROVE FALSE
            <4>1. raced' = TRUE
                BY <1>3, <3>1
            <4>. QED BY <4>1
        <3>. QED BY <3>1
    <2>2. \A q \in Pids : pc[q] \notin Stages /\ pc[q] # "mark"
        <3>1. CASE lock = Leftover
            BY <3>1, LockValues DEF LockInv
        <3>2. CASE lock \in Pids /\ ~Alive(lock)
            BY <3>2, LockValues, StagesAre DEF LockInv, Alive, Ended
        <3>. QED BY <2>1, <3>1, <3>2 DEF staleProcessMarker
    <2>3. "retake" \in Names
        BY DEF Names, Waiting
    <2>4. Goto(p, "retake")
        BY <1>3
    <2>5. pc' \in [Pids -> Names] /\ \A q \in Pids : pc'[q] = IF q = p THEN "retake" ELSE pc[q]
        BY <1>1, <2>3, <2>4, GotoAt
    <2>6. lock' = NoLock
        BY <1>3
    <2>. QED BY <2>2, <2>5, <2>6, FreedKeeps
<1>. QED BY <1>2, <1>3 DEF BreakLock

LEMMA ReleaseLockKeeps == ASSUME LockInv, NEW p \in Pids, releaseLock(p) PROVE LockInv'
<1>1. pc[p] \in Stages /\ lock = p /\ pc \in [Pids -> Names]
    BY StagesAre DEF releaseLock, LockInv
<1>2. lock' = NoLock /\ End(p)
    BY <1>1 DEF releaseLock
<1>3. \A q \in Pids : q # p => pc[q] \notin Stages /\ pc[q] # "mark"
    BY <1>1, LockValues DEF LockInv
<1>. QED BY <1>1, <1>2, <1>3, EndAt, FreedKeeps

LEMMA AroundKeeps == ASSUME LockInv, Around PROVE LockInv'
<1>1. CASE Reboot
    <2>1. lock' = lock /\ {p \in Pids : Alive(p)} \in SUBSET Pids /\ Forget({p \in Pids : Alive(p)})
        BY <1>1 DEF Reboot
    <2>. QED BY <2>1, ForgetKeeps
<1>2. CASE UNCHANGED <<lock, pc>>
    BY <1>2 DEF LockInv
<1>. QED BY <1>1, <1>2 DEF Around, MoveMain, SlotDown, SlotUp, OperatorRetire, processVars

LEMMA LockStep == ASSUME LockInv, [Next]_vars, ~raced' PROVE LockInv'
<1>1. CASE UNCHANGED vars
    BY <1>1 DEF LockInv, vars, processVars
<1>2. CASE Around
    BY <1>2, AroundKeeps
<1>3. ASSUME NEW p \in Pids, Start(p) \/ Step(p) \/ Hang(p) \/ Kill(p) PROVE LockInv'
    <2>1. CASE Start(p)
        BY <2>1, StartKeeps
    <2>2. CASE Locking(p)
        BY <2>2, MakeLockKeeps, MarkLockKeeps, FindLockKeeps, BreakLockKeeps, ReleaseLockKeeps DEF Locking
    <2>3. CASE Proceed(p) \/ Recover(p)
        BY <2>3, ProceedSteps, RecoverSteps, StageStepKeeps
    <2>4. CASE Hang(p)
        BY <2>4, HangStep, StageStepKeeps DEF LockInv
    <2>5. CASE Kill(p)
        <3>1. lock' = lock /\ {p} \in SUBSET Pids /\ Forget({p})
            BY <2>5 DEF Kill
        <3>. QED BY <3>1, ForgetKeeps
    <2>. QED BY <1>3, <2>1, <2>2, <2>3, <2>4, <2>5 DEF Step
<1>. QED BY <1>1, <1>2, <1>3 DEF Next

LEMMA LockInit == Init => LockInv
<1>. SUFFICES ASSUME Init PROVE LockInv
    OBVIOUS
<1>1. "new" \in Names /\ "new" \notin Stages
    BY StagesAre DEF Names, Ended
<1>2. \A p \in Pids : pc[p] = "new"
    BY DEF Init
<1>. QED BY <1>1, <1>2 DEF Init, LockInv

\* Only a takeover changes raced, and it never takes it back.
LEMMA RacedStep ==
    ASSUME [Next]_vars
    PROVE  (raced' = raced) \/ (raced' = TRUE)
<1>1. ASSUME NEW p \in Pids, Locking(p)
      PROVE  (raced' = raced) \/ (raced' = TRUE)
    BY <1>1 DEF Locking, MakeLock, MarkLock, FindLock, BreakLock, releaseLock
<1>2. ASSUME NEW p \in Pids, Proceed(p) PROVE raced' = raced
    BY <1>2 DEF Proceed, Preflight, experiencePreflight, Coalesce, BeginGate, EndGate, Build,
        proveMigration, prepareCandidate, AwaitCandidate, verifyCandidateRevision, Promote,
        InstallConfig, RecordRoute, proveRouted, Drain, Retire, retainArtifacts, convergeAfterDrain
<1>3. ASSUME NEW p \in Pids, Start(p) \/ Hang(p) \/ Kill(p) \/ Recover(p) PROVE raced' = raced
    BY <1>3 DEF Start, Hang, Kill, Recover, Fail, FailCleanup, FailRecovery, recoverActivation, Rollback,
        discardCandidate, discardArtifact
<1>4. CASE Around \/ UNCHANGED vars
    BY <1>4 DEF Around, MoveMain, Reboot, SlotDown, SlotUp, OperatorRetire, vars
<1>. QED BY <1>1, <1>2, <1>3, <1>4 DEF Next, Step

LEMMA RacedStays == ASSUME [Next]_vars, raced PROVE raced'
<1>1. (raced' = raced) \/ (raced' = TRUE)
    BY RacedStep
<1>2. ASSUME raced' = raced PROVE raced'
    BY <1>2
<1>3. ASSUME raced' = TRUE PROVE raced'
    BY <1>3
<1>. QED BY <1>1, <1>2, <1>3

\* One release at a time works on the host, through refusals, failures, hung and killed
\* owners, reboots and takeovers by several releases at once (acquireLock,
\* staleProcessMarker, releaseLock), until a takeover removes a lock that is in use.
THEOREM OneReleaseOwns == Spec => []OneOwner
<1>1. Init => raced \/ LockInv
    BY LockInit
<1>2. (raced \/ LockInv) /\ [Next]_vars => (raced \/ LockInv)'
    BY LockStep, RacedStays
<1>3. raced \/ LockInv => OneOwner
    BY DEF LockInv, OneOwner, OwnsAlone
<1>. QED BY <1>1, <1>2, <1>3, PTL DEF Spec

-----------------------------------------------------------------------------
(* The values of the state. *)

\* Where a process takes no step of its own.
Still == Ended \cup {"hung"}
Working == Stages \ {"hung"}

LEMMA WorkingAre ==
    Working = {"preflight", "gate", "build", "migrate", "prepare", "await", "verify", "promote",
        "install", "record", "prove", "drain", "retire", "retain", "converge", "coalesce",
        "gates", "recover", "rollback", "discard", "erase", "unlock"}
    BY StagesAre DEF Working

LEMMA WorkingMoves ==
    /\ DOMAIN CompatibilityOrder \subseteq Working /\ DOMAIN CompatibilityRecovery \subseteq Working
    /\ Working \cap Still = {}
    BY WorkingAre DEF CompatibilityOrder, CompatibilityRecovery, Still, Ended


ProcessTypes ==
    /\ pc \in [Pids -> Names]
    /\ mode \in [Pids -> {"compatibility", "experience"}]
    /\ rev \in [Pids -> Revisions \cup {NoRevision}]
    /\ prior \in [Pids -> Slots]
    /\ gate \in [Pids -> Nat]
    /\ tested \in [Pids -> SUBSET Revisions]
    /\ late \in [Pids -> BOOLEAN]
    /\ verdict \in [Pids -> Verdicts]
    \* A process that works has read a revision.
    /\ \A p \in Pids : pc[p] \notin Still => rev[p] \in Revisions

HostTypes ==
    /\ disk \in Slots /\ caddy \in Slots
    /\ route \in Route
    /\ boot \subseteq Slots /\ loaded \subseteq Slots
    /\ unstopped \subseteq loaded /\ up \subseteq loaded
    /\ runs \in [Slots -> Revisions]
    /\ prepared \in [Slots -> Revisions \cup {NoRevision}]
    /\ releases \subseteq Revisions /\ converged \subseteq Revisions
    \* What Caddy serves, now or after a reboot, went through a preparation.
    /\ prepared[caddy] \in Revisions /\ prepared[disk] \in Revisions

TypeInv ==
    /\ ProcessTypes /\ HostTypes
    /\ head \in Revisions /\ lock \in Nat /\ crashes \in Nat

LEMMA ExceptType ==
    ASSUME NEW S, NEW T, NEW f \in [S -> T], NEW x \in S, NEW y \in T
    PROVE  [f EXCEPT ![x] = y] \in [S -> T]
    OBVIOUS

\* A process goes on to another point, with new values of the right kind.
LEMMA GoesOn ==
    ASSUME ProcessTypes, NEW p \in Pids, pc[p] \notin Still, NEW s \in Names, Goto(p, s),
           mode' = mode, \A q \in Pids : rev'[q] = rev[q] \/ rev'[q] \in Revisions,
           rev' \in [Pids -> Revisions \cup {NoRevision}], prior' \in [Pids -> Slots],
           gate' \in [Pids -> Nat], tested' \in [Pids -> SUBSET Revisions],
           late' \in [Pids -> BOOLEAN], verdict' \in [Pids -> Verdicts]
    PROVE  ProcessTypes'
<1>1. pc' = [pc EXCEPT ![p] = s] /\ pc \in [Pids -> Names]
    BY DEF Goto, ProcessTypes
<1>2. pc' \in [Pids -> Names] /\ \A q \in Pids : q # p => pc'[q] = pc[q]
    BY <1>1
<1>3. \A q \in Pids : pc'[q] \notin Still => rev'[q] \in Revisions
    BY <1>2 DEF ProcessTypes
<1>. QED BY <1>2, <1>3 DEF ProcessTypes

LEMMA JustGoes ==
    ASSUME ProcessTypes, NEW p \in Pids, pc[p] \notin Still, NEW s \in Names, Goto(p, s),
           UNCHANGED <<mode, rev, prior, gate, tested, late, verdict>>
    PROVE  ProcessTypes'
    BY GoesOn DEF ProcessTypes

LEMMA Reports ==
    ASSUME ProcessTypes, NEW p \in Pids, pc[p] \notin Still, NEW s \in Names, Goto(p, s),
           NEW v \in Verdicts, Report(p, v), UNCHANGED <<mode, rev, prior, gate, tested>>,
           late' \in [Pids -> BOOLEAN]
    PROVE  ProcessTypes'
<1>1. verdict' \in [Pids -> Verdicts]
    BY DEF Report, ProcessTypes
<1>. QED BY <1>1, GoesOn DEF ProcessTypes

LEMMA FinishTypes ==
    ASSUME ProcessTypes, NEW p \in Pids, pc[p] \notin Still, NEW v \in Verdicts, Finish(p, v)
    PROVE  ProcessTypes'
<1>1. "unlock" \in Names
    BY StagesAre DEF Names
<1>2. late' \in [Pids -> BOOLEAN]
    BY DEF Finish, ProcessTypes
<1>. QED BY <1>1, <1>2, Reports DEF Finish

LEMMA AdvanceTypes ==
    ASSUME ProcessTypes, NEW p \in Pids, pc[p] \in DOMAIN CompatibilityOrder, Advance(p)
    PROVE  ProcessTypes'
<1>1. NextStage(p) \in Names /\ pc[p] \notin Still
    BY StagesFollow, WorkingMoves DEF Names
<1>2. (IF NextStage(p) = "unlock" THEN "passed" ELSE verdict[p]) \in Verdicts
    BY DEF ProcessTypes, Verdicts
<1>3. late' \in [Pids -> BOOLEAN]
    BY DEF Advance, ProcessTypes
<1>. QED BY <1>1, <1>2, <1>3, Reports DEF Advance

LEMMA ForgetTypes ==
    ASSUME ProcessTypes, NEW Q \in SUBSET Pids, Forget(Q)
    PROVE  ProcessTypes'
<1>1. pc' \in [Pids -> Names] /\ \A q \in Pids : pc'[q] = IF q \in Q THEN "done" ELSE pc[q]
    BY DEF Forget, Leave, ProcessTypes, Names, Ended, Still
<1>2. mode' \in [Pids -> {"compatibility", "experience"}]
    BY DEF Forget, Leave, ProcessTypes
<1>3. /\ rev' \in [Pids -> Revisions \cup {NoRevision}]
      /\ \A q \in Pids : q \notin Q => rev'[q] = rev[q]
    BY DEF Forget, Leave, ProcessTypes
<1>4. prior' \in [Pids -> Slots] /\ gate' \in [Pids -> Nat]
    BY DEF Forget, Leave, ProcessTypes, Slots
<1>5. tested' \in [Pids -> SUBSET Revisions]
    BY DEF Forget, Leave, ProcessTypes
<1>6. late' \in [Pids -> BOOLEAN]
    BY DEF Forget, Leave, ProcessTypes
<1>7. verdict' \in [Pids -> Verdicts]
    BY DEF Forget, Leave, ProcessTypes, Verdicts
<1>8. \A q \in Pids : pc'[q] \notin Still => rev'[q] \in Revisions
    BY <1>1, <1>3 DEF ProcessTypes, Ended, Still
<1>. QED BY <1>1, <1>2, <1>3, <1>4, <1>5, <1>6, <1>7, <1>8 DEF ProcessTypes

LEMMA HostSame == ASSUME HostTypes, UNCHANGED hostVars PROVE HostTypes'
    BY DEF HostTypes, hostVars, proxyVars, slotVars

LEMMA StartTypes == ASSUME TypeInv, NEW p \in Pids, Start(p) PROVE TypeInv'
<1>1. HostTypes' /\ head' \in Revisions /\ lock' \in Nat /\ crashes' \in Nat
    BY HostSame DEF Start, TypeInv
<1>2. CASE End(p)
    BY <1>1, <1>2, ForgetTypes DEF End, TypeInv
<1>3. CASE ~End(p)
    <2>1. PICK m \in {"compatibility", "experience"} : mode' = [mode EXCEPT ![p] = m]
        BY <1>3 DEF Start
    <2>2. /\ rev' = [rev EXCEPT ![p] = head] /\ Goto(p, "lock")
          /\ UNCHANGED <<prior, gate, tested, late, verdict>>
        BY <1>3 DEF Start
    <2>3. mode' \in [Pids -> {"compatibility", "experience"}]
        BY <2>1 DEF TypeInv, ProcessTypes
    <2>4. /\ rev' \in [Pids -> Revisions \cup {NoRevision}]
          /\ rev'[p] \in Revisions /\ \A q \in Pids : q # p => rev'[q] = rev[q]
        BY <2>2 DEF TypeInv, ProcessTypes
    <2>5. pc' \in [Pids -> Names] /\ \A q \in Pids : q # p => pc'[q] = pc[q]
        BY <2>2 DEF TypeInv, ProcessTypes, Goto, Names, Waiting
    <2>6. \A q \in Pids : pc'[q] \notin Still => rev'[q] \in Revisions
        BY <2>4, <2>5 DEF TypeInv, ProcessTypes
    <2>. QED BY <1>1, <2>2, <2>3, <2>4, <2>5, <2>6 DEF TypeInv, ProcessTypes
<1>. QED BY <1>2, <1>3

LEMMA LockingTypes == ASSUME TypeInv, NEW p \in Pids, Locking(p) PROVE TypeInv'
<1>1. HostTypes' /\ head' \in Revisions /\ crashes' \in Nat
    BY HostSame DEF TypeInv, Locking, MakeLock, MarkLock, FindLock, BreakLock, releaseLock
<1>2. lock' \in Nat
    <2>1. lock' \in {lock, NoLock, Unmarked, p}
        BY DEF Locking, MakeLock, MarkLock, FindLock, BreakLock, releaseLock
    <2>. QED BY <2>1, ReleaseAssumption DEF TypeInv, NoLock, Unmarked, Pids
<1>3. pc[p] \notin Still
    BY DEF Locking, MakeLock, MarkLock, FindLock, BreakLock, releaseLock, Ended, Still
<1>4. ProcessTypes'
    <2>1. ASSUME NEW s \in {"mark", "preflight", "break", "retake"}, Goto(p, s),
                 UNCHANGED <<mode, rev, prior, gate, tested, late, verdict>>
          PROVE  ProcessTypes'
        <3>1. s \in Names
            BY <2>1, StagesAre DEF Names, Waiting
        <3>. QED BY <1>3, <2>1, <3>1, JustGoes DEF TypeInv
    <2>2. ASSUME End(p) PROVE ProcessTypes'
        BY <2>2, ForgetTypes DEF End, TypeInv
    <2>. QED BY <2>1, <2>2 DEF Locking, MakeLock, MarkLock, FindLock, BreakLock, releaseLock
<1>. QED BY <1>1, <1>2, <1>4 DEF TypeInv

\* The stages before the host is touched.
LEMMA PreflightTypes ==
    ASSUME TypeInv, NEW p \in Pids, Preflight(p) \/ experiencePreflight(p) \/ Coalesce(p)
    PROVE  TypeInv'
<1>1. HostTypes' /\ head' \in Revisions /\ lock' \in Nat /\ crashes' \in Nat
    BY HostSame DEF TypeInv, Preflight, experiencePreflight, Coalesce
<1>2. pc[p] \notin Still
    BY DEF Preflight, experiencePreflight, Coalesce, Ended, Still
<1>3. route.slot \in Slots /\ route.rev \in Revisions
    BY DEF TypeInv, HostTypes, Route
<1>4. CASE Preflight(p)
    <2>1. prior' \in [Pids -> Slots]
        BY <1>3, <1>4 DEF Preflight, TypeInv, ProcessTypes
    <2>2. PICK s \in {"coalesce", "gates"} : Goto(p, s)
        BY <1>4 DEF Preflight
    <2>3. s \in Names
        BY <2>2, StagesAre DEF Names
    <2>4. ProcessTypes'
        BY <1>2, <1>4, <2>1, <2>2, <2>3, GoesOn DEF Preflight, TypeInv, ProcessTypes
    <2>. QED BY <1>1, <2>4 DEF TypeInv
<1>5. CASE experiencePreflight(p)
    <2>1. prior' \in [Pids -> Slots]
        BY <1>3, <1>5 DEF experiencePreflight, TypeInv, ProcessTypes
    <2>2. /\ rev' \in [Pids -> Revisions \cup {NoRevision}]
          /\ \A q \in Pids : rev'[q] = rev[q] \/ rev'[q] \in Revisions
        BY <1>3, <1>5 DEF experiencePreflight, TypeInv, ProcessTypes
    <2>3. "gates" \in Names /\ Goto(p, "gates")
        BY <1>5, StagesAre DEF experiencePreflight, Names
    <2>4. ProcessTypes'
        BY <1>2, <1>5, <2>1, <2>2, <2>3, GoesOn DEF experiencePreflight, TypeInv, ProcessTypes
    <2>. QED BY <1>1, <2>4 DEF TypeInv
<1>6. CASE Coalesce(p)
    <2>1. "coalesced" \in Verdicts
        BY DEF Verdicts
    <2>. QED BY <1>1, <1>2, <1>6, <2>1, FinishTypes DEF Coalesce, TypeInv
<1>. QED BY <1>4, <1>5, <1>6

LEMMA GateTypes == ASSUME TypeInv, NEW p \in Pids, BeginGate(p) \/ EndGate(p) PROVE TypeInv'
<1>1. HostTypes' /\ head' \in Revisions /\ lock' \in Nat /\ crashes' \in Nat
    BY HostSame DEF TypeInv, BeginGate, EndGate
<1>2. pc[p] \notin Still
    BY DEF BeginGate, EndGate, Ended, Still
<1>3. tested' = [tested EXCEPT ![p] = @ \cup Compared(p)] /\ Compared(p) \subseteq {head}
    BY DEF BeginGate, EndGate, Compared
<1>4. tested' \in [Pids -> SUBSET Revisions]
    BY <1>3 DEF TypeInv, ProcessTypes
<1>5. gate' \in [Pids -> Nat]
    BY DEF BeginGate, EndGate, TypeInv, ProcessTypes
<1>6. \E s \in Names : Goto(p, s)
    <2>1. CASE BeginGate(p)
        BY <2>1, StagesAre DEF BeginGate, Names
    <2>2. CASE EndGate(p)
        <3>1. NextStage(p) \in Stages
            BY <2>2, StagesFollow DEF EndGate, CompatibilityOrder
        <3>. QED BY <2>2, <3>1, StagesAre DEF EndGate, Names
    <2>. QED BY <2>1, <2>2
<1>7. ProcessTypes'
    BY <1>2, <1>4, <1>5, <1>6, GoesOn DEF BeginGate, EndGate, TypeInv, ProcessTypes
<1>. QED BY <1>1, <1>7 DEF TypeInv

\* The revision of a process at work, and its slots.
LEMMA KnownAtWork ==
    ASSUME TypeInv, NEW p \in Pids, pc[p] \in Working
    PROVE  /\ rev[p] \in Revisions /\ pc[p] \notin Still
           /\ prior[p] \in Slots /\ candidate(p) \in Slots
<1>1. pc[p] \notin Still
    BY WorkingMoves
<1>. QED BY <1>1 DEF TypeInv, ProcessTypes, candidate, Other, Slots

LEMMA BuildTypes ==
    ASSUME TypeInv, NEW p \in Pids,
           \/ Build(p) \/ proveMigration(p) \/ verifyCandidateRevision(p) \/ proveRouted(p)
           \/ retainArtifacts(p) \/ convergeAfterDrain(p)
    PROVE  TypeInv'
<1>1. /\ pc[p] \in {"build", "migrate", "verify", "prove", "retain", "converge"} /\ Advance(p)
      /\ UNCHANGED <<head, lock, crashes, proxyVars, slotVars>>
      /\ releases' \in {releases, releases \cup {rev[p]}, releases \cap {rev[p], route.prevRev}}
      /\ converged' \in {converged, converged \cup {rev[p]}}
    BY DEF Build, proveMigration, verifyCandidateRevision, proveRouted, retainArtifacts,
        convergeAfterDrain, buildRelease, convergeRelease, hostVars
<1>2. pc[p] \in DOMAIN CompatibilityOrder
    BY <1>1 DEF CompatibilityOrder
<1>3. ProcessTypes'
    BY <1>1, <1>2, AdvanceTypes DEF TypeInv
<1>4. rev[p] \in Revisions
    BY <1>2, WorkingMoves, KnownAtWork
<1>5. releases' \subseteq Revisions /\ converged' \subseteq Revisions
    BY <1>1, <1>4 DEF TypeInv, HostTypes
<1>. QED BY <1>1, <1>3, <1>5 DEF TypeInv, HostTypes, proxyVars, slotVars

LEMMA PrepareTypes == ASSUME TypeInv, NEW p \in Pids, prepareCandidate(p) PROVE TypeInv'
<1>1. pc[p] = "prepare" /\ UNCHANGED <<head, lock, crashes, proxyVars, prepared, releases, converged>>
    BY DEF prepareCandidate
<1>2. pc[p] \in DOMAIN CompatibilityOrder /\ pc[p] \in Working
    BY <1>1, WorkingAre DEF CompatibilityOrder
<1>3. ProcessTypes'
    <2>1. CASE Advance(p)
        BY <1>2, <2>1, AdvanceTypes DEF TypeInv
    <2>2. CASE ~Advance(p)
        <3>1. /\ Goto(p, "discard") /\ Report(p, "stopped")
              /\ UNCHANGED <<mode, rev, prior, gate, tested, late>>
            BY <2>2 DEF prepareCandidate
        <3>2. "discard" \in Names /\ "stopped" \in Verdicts /\ late' \in [Pids -> BOOLEAN]
            BY <3>1, StagesAre DEF Names, Verdicts, TypeInv, ProcessTypes
        <3>. QED BY <1>2, <3>1, <3>2, Reports, KnownAtWork DEF TypeInv
    <2>. QED BY <2>1, <2>2
<1>4. candidate(p) \in Slots /\ rev[p] \in Revisions
    BY <1>2, KnownAtWork
<1>5. /\ boot' = boot \cup {candidate(p)} /\ up' \in {up \ {candidate(p)}, up \cap loaded'}
      /\ loaded' \in {loaded \cup {candidate(p)}, loaded, loaded \ {candidate(p)}}
      /\ unstopped' = unstopped \ {candidate(p)}
      /\ runs' = [runs EXCEPT ![candidate(p)] = rev[p]]
    BY DEF prepareCandidate, prepareSlot, installSlotService
<1>6. runs' \in [Slots -> Revisions]
    BY <1>4, <1>5 DEF TypeInv, HostTypes
<1>7. /\ boot' \subseteq Slots /\ loaded' \subseteq Slots
      /\ unstopped' \subseteq loaded' /\ up' \subseteq loaded'
    BY <1>4, <1>5 DEF TypeInv, HostTypes
<1>. QED BY <1>1, <1>3, <1>6, <1>7 DEF TypeInv, HostTypes, proxyVars

LEMMA AwaitTypes == ASSUME TypeInv, NEW p \in Pids, AwaitCandidate(p) PROVE TypeInv'
<1>1. /\ pc[p] = "await" /\ Advance(p)
      /\ UNCHANGED <<head, lock, crashes, proxyVars, boot, loaded, unstopped, up, runs,
                     releases, converged>>
      /\ prepared' = [prepared EXCEPT ![candidate(p)] = rev[p]]
    BY DEF AwaitCandidate
<1>2. pc[p] \in DOMAIN CompatibilityOrder /\ pc[p] \in Working
    BY <1>1, WorkingAre DEF CompatibilityOrder
<1>3. ProcessTypes'
    BY <1>1, <1>2, AdvanceTypes DEF TypeInv
<1>4. candidate(p) \in Slots /\ rev[p] \in Revisions
    BY <1>2, KnownAtWork
<1>5. /\ prepared' \in [Slots -> Revisions \cup {NoRevision}]
      /\ \A s \in Slots : prepared'[s] = prepared[s] \/ prepared'[s] \in Revisions
    BY <1>1, <1>4 DEF TypeInv, HostTypes
<1>6. disk' = disk /\ caddy' = caddy /\ route' = route
    BY <1>1 DEF proxyVars
<1>. QED BY <1>1, <1>3, <1>5, <1>6 DEF TypeInv, HostTypes

\* Caddy is only ever reloaded to a slot with preparation metadata.
LEMMA SwitchTypes ==
    ASSUME HostTypes, NEW slot \in Slots, promoteSlot(slot)
    PROVE  HostTypes'
<1>1. /\ caddy' = slot /\ prepared[slot] \in Revisions
      /\ UNCHANGED <<disk, route, boot, loaded, unstopped, up, runs, prepared, releases, converged>>
    BY DEF promoteSlot, preparedRevision, slotVars
<1>. QED BY <1>1 DEF HostTypes

LEMMA PromoteTypes == ASSUME TypeInv, NEW p \in Pids, Promote(p) \/ Rollback(p) PROVE TypeInv'
<1>1. UNCHANGED <<head, lock, crashes>> /\ pc[p] \in Working
    BY WorkingAre DEF Promote, Rollback
<1>2. CASE Promote(p)
    <2>1. ProcessTypes'
        BY <1>2, AdvanceTypes DEF Promote, TypeInv, CompatibilityOrder
    <2>2. HostTypes'
        BY <1>1, <1>2, KnownAtWork, SwitchTypes DEF Promote, TypeInv
    <2>. QED BY <1>1, <2>1, <2>2 DEF TypeInv
<1>3. CASE Rollback(p)
    <2>1. "install" \in Names
        BY StagesAre DEF Names
    <2>2. ProcessTypes'
        BY <1>1, <1>3, <2>1, KnownAtWork, JustGoes DEF Rollback, TypeInv
    <2>3. HostTypes'
        BY <1>3, SwitchTypes DEF Rollback, TypeInv
    <2>. QED BY <1>1, <2>2, <2>3 DEF TypeInv
<1>. QED BY <1>2, <1>3

LEMMA BreaksOffTypes ==
    ASSUME ProcessTypes, NEW p \in Pids, pc[p] \notin Still, BreaksOff(p)
    PROVE  ProcessTypes'
<1>1. CASE late[p]
    <2>1. "recover-route" \in Verdicts
        BY DEF Verdicts
    <2>. QED BY <1>1, <2>1, FinishTypes DEF BreaksOff
<1>2. CASE ~late[p]
    <2>1. /\ Goto(p, "recover") /\ Report(p, "stopped")
          /\ late' = [late EXCEPT ![p] = TRUE]
          /\ UNCHANGED <<mode, rev, prior, gate, tested>>
        BY <1>2 DEF BreaksOff
    <2>2. late' \in [Pids -> BOOLEAN]
        BY <2>1, ExceptType DEF ProcessTypes
    <2>3. "recover" \in Names /\ "stopped" \in Verdicts
        BY StagesAre DEF Names, Verdicts
    <2>. QED BY <2>1, <2>2, <2>3, Reports
<1>. QED BY <1>1, <1>2

LEMMA RecordTypes == ASSUME TypeInv, NEW p \in Pids, InstallConfig(p) \/ RecordRoute(p) PROVE TypeInv'
<1>1. /\ pc[p] \in {"install", "record"}
      /\ UNCHANGED <<head, lock, crashes, caddy, slotVars, releases, converged>>
    BY DEF InstallConfig, RecordRoute
<1>2. pc[p] \in DOMAIN CompatibilityOrder /\ pc[p] \notin Still
    BY <1>1 DEF CompatibilityOrder, Ended, Still
<1>3. ProcessTypes'
    <2>1. \/ Advance(p) \/ BreaksOff(p)
          \/ Goto(p, "discard") /\ UNCHANGED <<mode, rev, prior, gate, tested, late, verdict>>
        BY DEF InstallConfig, RecordRoute
    <2>2. "discard" \in Names
        BY StagesAre DEF Names
    <2>. QED BY <1>2, <2>1, <2>2, AdvanceTypes, BreaksOffTypes, JustGoes DEF TypeInv
<1>4. disk' \in {disk, caddy}
    BY DEF InstallConfig, RecordRoute
<1>5. route' \in Route
    <2>1. CASE route' = route
        BY <2>1 DEF TypeInv, HostTypes
    <2>2. CASE route' = [slot |-> caddy, rev |-> prepared[caddy],
                         prevSlot |-> route.slot, prevRev |-> route.rev]
        <3>1. caddy \in Slots /\ prepared[caddy] \in Revisions
            BY DEF TypeInv, HostTypes
        <3>2. route.slot \in Slots /\ route.rev \in Revisions
            BY DEF TypeInv, HostTypes, Route
        <3>. QED BY <2>2, <3>1, <3>2 DEF Route
    <2>. QED BY <2>1, <2>2 DEF InstallConfig, RecordRoute
<1>. QED BY <1>1, <1>3, <1>4, <1>5 DEF TypeInv, HostTypes, slotVars

LEMMA DrainTypes == ASSUME TypeInv, NEW p \in Pids, Drain(p) PROVE TypeInv'
<1>1. pc[p] = "drain" /\ UNCHANGED <<head, lock, hostVars, crashes>>
    BY DEF Drain
<1>2. HostTypes'
    BY <1>1, HostSame DEF TypeInv
<1>3. /\ pc[p] \in DOMAIN CompatibilityOrder /\ pc[p] \in DOMAIN CompatibilityRecovery
      /\ pc[p] \notin Still
    BY <1>1 DEF CompatibilityOrder, CompatibilityRecovery, Ended, Still
<1>4. ProcessTypes'
    <2>1. CASE Advance(p)
        BY <1>3, <2>1, AdvanceTypes DEF TypeInv
    <2>2. CASE ~Advance(p)
        <3>1. /\ Goto(p, Recovery(p)) /\ Report(p, "rolled-back")
              /\ late' = [late EXCEPT ![p] = TRUE]
              /\ UNCHANGED <<mode, rev, prior, gate, tested>>
            BY <2>2 DEF Drain
        <3>2. late' \in [Pids -> BOOLEAN]
            BY <3>1, ExceptType DEF TypeInv, ProcessTypes
        <3>3. Recovery(p) \in Names /\ "rolled-back" \in Verdicts
            BY <1>3, StagesFollow DEF Names, Verdicts
        <3>. QED BY <1>3, <3>1, <3>2, <3>3, Reports DEF TypeInv
    <2>. QED BY <2>1, <2>2
<1>. QED BY <1>1, <1>2, <1>4 DEF TypeInv

LEMMA RetireHost ==
    ASSUME HostTypes, NEW slot \in Slots, retireSlot(slot),
           UNCHANGED <<proxyVars, releases, converged>>
    PROVE  HostTypes'
<1>1. /\ boot' \in {boot, boot \ {slot}} /\ UNCHANGED <<runs, prepared>>
      /\ \/ loaded' = loaded \ {slot} /\ unstopped' = unstopped \ {slot} /\ up' = up \ {slot}
         \/ slot \in loaded /\ unstopped' = unstopped \cup {slot} /\ UNCHANGED <<loaded, up>>
    BY DEF retireSlot, systemdRetire, launchdRetire
<1>2. /\ boot' \subseteq Slots /\ loaded' \subseteq Slots
      /\ unstopped' \subseteq loaded' /\ up' \subseteq loaded'
    BY <1>1 DEF HostTypes
<1>. QED BY <1>1, <1>2 DEF HostTypes, proxyVars

LEMMA RetireTypes == ASSUME TypeInv, NEW p \in Pids, Retire(p) PROVE TypeInv'
<1>1. /\ pc[p] = "retire" /\ retireSlot(prior[p]) /\ Advance(p)
      /\ UNCHANGED <<head, lock, crashes, proxyVars, releases, converged>>
    BY DEF Retire
<1>2. pc[p] \in DOMAIN CompatibilityOrder /\ pc[p] \in Working
    BY <1>1, WorkingAre DEF CompatibilityOrder
<1>3. ProcessTypes' /\ HostTypes'
    BY <1>1, <1>2, AdvanceTypes, KnownAtWork, RetireHost DEF TypeInv
<1>. QED BY <1>1, <1>3 DEF TypeInv

LEMMA FailTypes == ASSUME TypeInv, NEW p \in Pids, Fail(p) PROVE TypeInv'
<1>1. /\ pc[p] \in DOMAIN CompatibilityRecovery /\ Goto(p, Recovery(p))
      /\ late' = [late EXCEPT ![p] = pc[p] \in AttemptsActivation]
      /\ UNCHANGED <<head, lock, mode, rev, prior, gate, tested, proxyVars, slotVars, converged, crashes>>
      /\ releases' \in {releases, releases \cup {rev[p]}}
    BY DEF Fail
<1>2. PICK v \in FailureVerdicts(pc[p]) : Report(p, v)
    BY DEF Fail
<1>3. v \in Verdicts
    BY DEF FailureVerdicts, Verdicts
<1>4. pc[p] \in Working /\ Recovery(p) \in Names
    BY <1>1, WorkingMoves, StagesFollow DEF Names
<1>5. late' \in [Pids -> BOOLEAN]
    <2>1. (pc[p] \in AttemptsActivation) \in BOOLEAN
        OBVIOUS
    <2>. QED BY <1>1, <2>1, ExceptType DEF TypeInv, ProcessTypes
<1>6. ProcessTypes'
    BY <1>1, <1>2, <1>3, <1>4, <1>5, Reports, KnownAtWork DEF TypeInv
<1>7. releases' \subseteq Revisions
    BY <1>1, <1>4, KnownAtWork DEF TypeInv, HostTypes
<1>. QED BY <1>1, <1>6, <1>7 DEF TypeInv, HostTypes, proxyVars, slotVars

LEMMA RecoverTypes ==
    ASSUME TypeInv, NEW p \in Pids,
           FailCleanup(p) \/ FailRecovery(p) \/ recoverActivation(p) \/ discardCandidate(p) \/ discardArtifact(p)
    PROVE  TypeInv'
<1>1. UNCHANGED <<head, lock, crashes>> /\ pc[p] \in Working
    BY WorkingAre DEF FailCleanup, FailRecovery, recoverActivation, discardCandidate, discardArtifact
<1>2. pc[p] \notin Still
    BY <1>1, KnownAtWork
<1>3. CASE FailCleanup(p) \/ FailRecovery(p)
    <2>1. "cleanup" \in Verdicts /\ (IF late[p] THEN "recover-route" ELSE "cleanup") \in Verdicts
        BY DEF Verdicts
    <2>2. ProcessTypes'
        BY <1>2, <1>3, <2>1, FinishTypes DEF FailCleanup, FailRecovery, TypeInv
    <2>3. HostTypes'
        BY <1>3, HostSame DEF FailCleanup, FailRecovery, TypeInv
    <2>. QED BY <1>1, <2>2, <2>3 DEF TypeInv
<1>4. CASE recoverActivation(p)
    <2>1. PICK s \in {"rollback", "discard"}, v \in {"rolled-back", "stopped"} :
            Goto(p, s) /\ Report(p, v)
        BY <1>4 DEF recoverActivation
    <2>2. s \in Names /\ v \in Verdicts /\ late' \in [Pids -> BOOLEAN]
        BY <1>4, StagesAre DEF Names, Verdicts, recoverActivation, TypeInv, ProcessTypes
    <2>3. ProcessTypes'
        BY <1>2, <1>4, <2>1, <2>2, Reports DEF recoverActivation, TypeInv
    <2>4. HostTypes'
        BY <1>4, HostSame DEF recoverActivation, TypeInv
    <2>. QED BY <1>1, <2>3, <2>4 DEF TypeInv
<1>5. CASE discardCandidate(p) \/ discardArtifact(p)
    <2>1. Recovery(p) \in Names
        BY <1>5, StagesFollow DEF Names, discardCandidate, discardArtifact, CompatibilityRecovery
    <2>2. ProcessTypes'
        BY <1>2, <1>5, <2>1, JustGoes DEF discardCandidate, discardArtifact, TypeInv
    <2>3. HostTypes'
        <3>1. CASE discardCandidate(p)
            BY <1>1, <3>1, RetireHost, KnownAtWork DEF discardCandidate, TypeInv
        <3>2. CASE discardArtifact(p)
            BY <3>2 DEF discardArtifact, TypeInv, HostTypes, proxyVars, slotVars
        <3>. QED BY <1>5, <3>1, <3>2
    <2>. QED BY <1>1, <2>2, <2>3 DEF TypeInv
<1>. QED BY <1>3, <1>4, <1>5

LEMMA AroundTypes == ASSUME TypeInv, Around PROVE TypeInv'
<1>1. CASE MoveMain
    <2>1. head' \in Revisions
        BY <1>1, ReleaseAssumption DEF MoveMain, TypeInv, Revisions
    <2>2. ProcessTypes' /\ HostTypes'
        BY <1>1, HostSame DEF MoveMain, TypeInv, ProcessTypes, processVars
    <2>. QED BY <1>1, <2>1, <2>2 DEF MoveMain, TypeInv
<1>2. CASE Reboot
    <2>1. ProcessTypes'
        <3>1. Forget({p \in Pids : Alive(p)}) /\ {p \in Pids : Alive(p)} \in SUBSET Pids
            BY <1>2 DEF Reboot
        <3>. QED BY <3>1, ForgetTypes DEF TypeInv
    <2>2. HostTypes' /\ crashes' \in Nat
        BY <1>2 DEF Reboot, TypeInv, HostTypes
    <2>. QED BY <1>2, <2>1, <2>2 DEF Reboot, TypeInv
<1>3. ASSUME NEW s \in Slots, SlotDown(s) \/ SlotUp(s) \/ OperatorRetire(s) PROVE TypeInv'
    <2>1. UNCHANGED <<head, lock, processVars, crashes, proxyVars, releases, converged>>
        BY <1>3 DEF SlotDown, SlotUp, OperatorRetire
    <2>2. ProcessTypes'
        BY <2>1 DEF TypeInv, ProcessTypes, processVars
    <2>3. HostTypes'
        <3>1. CASE OperatorRetire(s)
            BY <2>1, <3>1, RetireHost DEF OperatorRetire, TypeInv
        <3>2. CASE SlotDown(s) \/ SlotUp(s)
            BY <2>1, <3>2 DEF SlotDown, SlotUp, TypeInv, HostTypes, proxyVars
        <3>. QED BY <1>3, <3>1, <3>2
    <2>. QED BY <2>1, <2>2, <2>3 DEF TypeInv
<1>. QED BY <1>1, <1>2, <1>3 DEF Around

LEMMA KillTypes == ASSUME TypeInv, NEW p \in Pids, Kill(p) PROVE TypeInv'
<1>1. ProcessTypes'
    BY ForgetTypes DEF Kill, TypeInv
<1>2. HostTypes' /\ crashes' \in Nat
    BY HostSame DEF Kill, TypeInv
<1>. QED BY <1>1, <1>2 DEF Kill, TypeInv

LEMMA HangTypes == ASSUME TypeInv, NEW p \in Pids, Hang(p) PROVE TypeInv'
<1>1. /\ pc' = [q \in Pids |-> IF q = p THEN "hung" ELSE pc[q]]
      /\ rev' = [q \in Pids |-> IF q = p THEN NoRevision ELSE rev[q]]
      /\ UNCHANGED <<head, lock, hostVars, crashes>>
    BY DEF Hang, Leave
<1>2. "hung" \in Names /\ "none" \in Verdicts /\ "blue" \in Slots
    BY StagesAre DEF Names, Verdicts, Slots
<1>3. pc' \in [Pids -> Names] /\ \A q \in Pids : pc'[q] \notin Still => rev'[q] \in Revisions
    BY <1>1, <1>2 DEF TypeInv, ProcessTypes, Still
<1>4. /\ mode' \in [Pids -> {"compatibility", "experience"}]
      /\ rev' \in [Pids -> Revisions \cup {NoRevision}]
      /\ prior' \in [Pids -> Slots] /\ gate' \in [Pids -> Nat]
    BY <1>2 DEF Hang, Leave, TypeInv, ProcessTypes
<1>5. tested' \in [Pids -> SUBSET Revisions]
    BY DEF Hang, Leave, TypeInv, ProcessTypes
<1>6. late' \in [Pids -> BOOLEAN]
    BY DEF Hang, Leave, TypeInv, ProcessTypes
<1>7. verdict' \in [Pids -> Verdicts]
    BY <1>2 DEF Hang, Leave, TypeInv, ProcessTypes
<1>8. ProcessTypes' /\ HostTypes'
    BY <1>1, <1>3, <1>4, <1>5, <1>6, <1>7, HostSame DEF TypeInv, ProcessTypes
<1>. QED BY <1>1, <1>8 DEF TypeInv

LEMMA TypeStep == ASSUME TypeInv, [Next]_vars PROVE TypeInv'
<1>1. CASE UNCHANGED vars
    BY <1>1, HostSame DEF TypeInv, ProcessTypes, vars, processVars
<1>2. ASSUME NEW p \in Pids, Start(p) \/ Step(p) \/ Hang(p) \/ Kill(p) PROVE TypeInv'
    <2>1. CASE Start(p) \/ Locking(p) \/ Hang(p) \/ Kill(p)
        BY <2>1, StartTypes, LockingTypes, HangTypes, KillTypes
    <2>2. CASE Proceed(p)
        BY <2>2, PreflightTypes, GateTypes, BuildTypes, PrepareTypes, AwaitTypes, PromoteTypes,
            RecordTypes, DrainTypes, RetireTypes DEF Proceed
    <2>3. CASE Recover(p)
        BY <2>3, FailTypes, RecoverTypes, PromoteTypes DEF Recover
    <2>. QED BY <1>2, <2>1, <2>2, <2>3 DEF Step
<1>. QED BY <1>1, <1>2, AroundTypes DEF Next

LEMMA TypeInit == ASSUME Init PROVE TypeInv
<1>1. 0 \in Revisions
    BY ReleaseAssumption DEF Revisions
<1>2. "new" \in Names /\ "new" \in Still /\ "none" \in Verdicts
    BY DEF Names, Ended, Still, Verdicts
<1>3. late \in [Pids -> BOOLEAN]
    BY DEF Init
<1>4. ProcessTypes
    BY <1>2, <1>3 DEF Init, ProcessTypes, Slots
<1>5. prepared \in [Slots -> Revisions \cup {NoRevision}] /\ prepared["blue"] = 0
    BY <1>1 DEF Init, Slots
<1>6. route \in Route
    BY <1>1 DEF Init, Route, Slots
<1>7. runs \in [Slots -> Revisions]
    BY <1>1 DEF Init
<1>8. HostTypes
    BY <1>1, <1>5, <1>6, <1>7 DEF Init, HostTypes, Slots
<1>9. lock \in Nat
    BY ReleaseAssumption DEF Init, NoLock, Leftover
<1>. QED BY <1>1, <1>4, <1>8, <1>9 DEF Init, TypeInv

\* Every part of the state keeps its kind of value, for any number of releases, revisions
\* and crashes and on both platforms; what Caddy serves was always prepared.
THEOREM ReleaseTypes == Spec => []ReleaseTypeOK
<1>1. Init => TypeInv /\ raced \in BOOLEAN
    BY TypeInit DEF Init
<1>2. (TypeInv /\ raced \in BOOLEAN) /\ [Next]_vars => (TypeInv /\ raced \in BOOLEAN)'
    BY TypeStep, RacedStep
<1>3. TypeInv /\ raced \in BOOLEAN => ReleaseTypeOK
    BY DEF TypeInv, ProcessTypes, HostTypes, ReleaseTypeOK, Names
<1>. QED BY <1>1, <1>2, <1>3, PTL DEF Spec

-----------------------------------------------------------------------------
(* The gates run on the revision that is built. *)

Untried == Ended \cup Waiting \cup {"preflight"}

\* The stages that the gates open, and those that undo a promotion.
Tested == {"gate", "build", "migrate", "prepare", "await", "verify", "promote", "install",
           "record", "prove", "drain", "retire", "retain", "converge", "recover", "rollback"}

\* What has been tested by the time a release is at each point.
GateInv ==
    \A p \in Pids :
        /\ pc[p] \in Untried => tested[p] = {}
        /\ mode[p] = "compatibility" =>
            /\ pc[p] = "gates" => tested[p] \subseteq {rev[p]}
            /\ pc[p] \in Tested => tested[p] = {rev[p]}

\* A release comes to a stage after the gates from such a stage only.
GoesTo(p, s) ==
    /\ Goto(p, s)
    /\ UNCHANGED <<mode, tested>>
    /\ mode[p] = "compatibility" => rev' = rev
    /\ \A q \in Pids : q # p => rev'[q] = rev[q]
    /\ s \in Untried => pc[p] \in Untried
    /\ s = "gates" => pc[p] \in Untried
    /\ s \in Tested => pc[p] \in Tested

LEMMA GoesToKeeps ==
    ASSUME TypeInv, GateInv, NEW p \in Pids, NEW s, GoesTo(p, s)
    PROVE  GateInv'
<1>1. \A q \in Pids : pc'[q] = IF q = p THEN s ELSE pc[q]
    BY DEF GoesTo, Goto, TypeInv, ProcessTypes
<1>2. ASSUME NEW q \in Pids, pc'[q] \in Untried PROVE tested'[q] = {}
    BY <1>1, <1>2 DEF GateInv, GoesTo
<1>3. ASSUME NEW q \in Pids, mode'[q] = "compatibility"
      PROVE  /\ pc'[q] = "gates" => tested'[q] \subseteq {rev'[q]}
             /\ pc'[q] \in Tested => tested'[q] = {rev'[q]}
    <2>1. mode[q] = "compatibility" /\ tested'[q] = tested[q] /\ rev'[q] = rev[q]
        BY <1>3 DEF GoesTo
    <2>2. CASE q # p
        BY <1>1, <2>1, <2>2 DEF GateInv
    <2>3. CASE q = p
        BY <1>1, <2>1, <2>3 DEF GateInv, GoesTo
    <2>. QED BY <2>2, <2>3
<1>. QED BY <1>2, <1>3 DEF GateInv

LEMMA LeaveGates ==
    ASSUME GateInv, NEW Q \in SUBSET Pids, NEW point \in {"done", "hung"}, Leave(Q, point)
    PROVE  GateInv'
<1>1. ASSUME NEW q \in Pids, q \in Q PROVE pc'[q] = point /\ tested'[q] = {}
    BY <1>1 DEF Leave
<1>2. ASSUME NEW q \in Pids, q \notin Q
      PROVE  /\ pc'[q] = pc[q] /\ tested'[q] = tested[q]
             /\ rev'[q] = rev[q] /\ mode'[q] = mode[q]
    BY <1>2 DEF Leave
<1>3. point \notin Tested /\ point # "gates"
    BY DEF Tested
<1>. QED BY <1>1, <1>2, <1>3 DEF GateInv

LEMMA ForgetGates ==
    ASSUME GateInv, NEW Q \in SUBSET Pids, Forget(Q)
    PROVE  GateInv'
    BY LeaveGates DEF Forget

LEMMA StageOrder ==
    ASSUME NEW p \in Pids
    PROVE  /\ pc[p] \in Tested \cap DOMAIN CompatibilityOrder =>
                NextStage(p) \in Tested \cup {"unlock"}
           /\ pc[p] \in DOMAIN CompatibilityRecovery =>
                \/ Recovery(p) \in {"unlock", "erase", "discard"}
                \/ pc[p] \in Tested /\ Recovery(p) \in {"recover", "rollback"}
<1>1. \A s \in Tested \cap DOMAIN CompatibilityOrder :
        /\ CompatibilityOrder[s] \in Tested \cup {"unlock"}
        /\ ExperienceOrder[s] \in Tested \cup {"unlock"}
    BY DEF Tested, CompatibilityOrder, ExperienceOrder
<1>2. \A s \in DOMAIN CompatibilityRecovery :
        \/ CompatibilityRecovery[s] \in {"unlock", "erase", "discard"}
        \/ s \in Tested /\ CompatibilityRecovery[s] \in {"recover", "rollback"}
    BY DEF Tested, CompatibilityRecovery
<1>3. \A s \in DOMAIN CompatibilityRecovery :
        ExperienceRecovery[s] \in {CompatibilityRecovery[s], "unlock"}
    BY DEF ExperienceRecovery, CompatibilityRecovery
<1>. QED BY <1>1, <1>2, <1>3 DEF NextStage, Recovery

\* The ends of a release, reached from anywhere.
LEMMA GoesOff ==
    ASSUME NEW p \in Pids, NEW s \in {"unlock", "erase", "discard", "coalesce"}, Goto(p, s),
           UNCHANGED <<mode, rev, tested>>
    PROVE  GoesTo(p, s)
    BY DEF GoesTo, Untried, Ended, Waiting, Tested

LEMMA StaysTested ==
    ASSUME NEW p \in Pids, pc[p] \in Tested, NEW s \in Tested \cup {"unlock", "discard"},
           Goto(p, s), UNCHANGED <<mode, rev, tested>>
    PROVE  GoesTo(p, s)
    BY DEF GoesTo, Untried, Ended, Waiting, Tested

LEMMA AdvanceGoes ==
    ASSUME NEW p \in Pids, pc[p] \in Tested \cap DOMAIN CompatibilityOrder, Advance(p)
    PROVE  \E s : GoesTo(p, s)
<1>1. NextStage(p) \in Tested \cup {"unlock", "discard"}
    BY StageOrder
<1>. QED BY <1>1, StaysTested DEF Advance

LEMMA RecoveryGoes ==
    ASSUME NEW p \in Pids, pc[p] \in DOMAIN CompatibilityRecovery, Goto(p, Recovery(p)),
           UNCHANGED <<mode, rev, tested>>
    PROVE  \E s : GoesTo(p, s)
<1>1. CASE Recovery(p) \in {"unlock", "erase", "discard"}
    BY <1>1, GoesOff
<1>2. CASE pc[p] \in Tested /\ Recovery(p) \in {"recover", "rollback"}
    <2>1. Recovery(p) \in Tested
        BY <1>2 DEF Tested
    <2>. QED BY <1>2, <2>1, StaysTested
<1>. QED BY <1>1, <1>2, StageOrder

\* The comparison with the checkout at both ends of a gate: what ran is the revision.
LEMMA GateKeeps ==
    ASSUME TypeInv, GateInv, NEW p \in Pids, BeginGate(p) \/ EndGate(p)
    PROVE  GateInv'
<1>1. /\ pc[p] \in {"gates", "gate"} /\ UNCHANGED <<mode, rev>>
      /\ mode[p] = "compatibility" => head = rev[p]
      /\ tested' = [tested EXCEPT ![p] = @ \cup Compared(p)]
    BY DEF BeginGate, EndGate, assertReleaseSource
<1>2. PICK s \in Tested \cup {"gates", "unlock"} : Goto(p, s)
    <2>1. CASE BeginGate(p)
        BY <2>1 DEF BeginGate, Tested
    <2>2. CASE EndGate(p)
        <3>1. NextStage(p) \in Tested \cup {"unlock"}
            BY <2>2, StageOrder DEF EndGate, Tested, CompatibilityOrder
        <3>. QED BY <2>2, <3>1 DEF EndGate
    <2>. QED BY <2>1, <2>2
<1>3. \A q \in Pids : pc'[q] = IF q = p THEN s ELSE pc[q]
    BY <1>2 DEF Goto, TypeInv, ProcessTypes
<1>4. \A q \in Pids : tested'[q] = IF q = p THEN tested[q] \cup Compared(p) ELSE tested[q]
    BY <1>1 DEF TypeInv, ProcessTypes
<1>5. s \notin Untried
    BY <1>2 DEF Untried, Ended, Waiting, Tested
<1>6. mode[p] = "compatibility" => tested[p] \subseteq {rev[p]}
    BY <1>1 DEF GateInv, Tested
<1>7. mode[p] = "compatibility" => tested'[p] = {rev[p]}
    BY <1>1, <1>4, <1>6 DEF Compared
<1>. QED BY <1>1, <1>3, <1>4, <1>5, <1>7 DEF GateInv

LEMMA StartGates == ASSUME TypeInv, GateInv, NEW p \in Pids, Start(p) PROVE GateInv'
<1>1. CASE End(p)
    BY <1>1, ForgetGates DEF End
<1>2. CASE ~End(p)
    <2>1. /\ pc[p] = "new" /\ tested' = tested /\ Goto(p, "lock")
          /\ \A q \in Pids : q # p => mode'[q] = mode[q] /\ rev'[q] = rev[q]
        BY <1>2 DEF Start, TypeInv, ProcessTypes
    <2>2. \A q \in Pids : pc'[q] = IF q = p THEN "lock" ELSE pc[q]
        BY <2>1 DEF Goto, TypeInv, ProcessTypes
    <2>3. tested[p] = {} /\ "lock" # "gates" /\ "lock" \notin Tested
        BY <2>1 DEF GateInv, Untried, Ended, Tested
    <2>. QED BY <2>1, <2>2, <2>3 DEF GateInv
<1>. QED BY <1>1, <1>2

LEMMA LockingGates == ASSUME TypeInv, GateInv, NEW p \in Pids, Locking(p) PROVE GateInv'
<1>1. CASE End(p)
    BY <1>1, ForgetGates DEF End
<1>2. CASE ~End(p)
    <2>1. PICK s \in {"mark", "preflight", "break", "retake"} :
            Goto(p, s) /\ UNCHANGED <<mode, rev, tested>> /\ pc[p] \in Waiting
        BY <1>2 DEF Locking, MakeLock, MarkLock, FindLock, BreakLock, releaseLock, Waiting
    <2>2. GoesTo(p, s)
        BY <2>1 DEF GoesTo, Untried, Waiting, Tested
    <2>. QED BY <2>2, GoesToKeeps
<1>. QED BY <1>1, <1>2

LEMMA ProceedGates == ASSUME TypeInv, GateInv, NEW p \in Pids, Proceed(p) PROVE GateInv'
<1>1. CASE Preflight(p)
    <2>1. PICK s \in {"coalesce", "gates"} : Goto(p, s)
        BY <1>1 DEF Preflight
    <2>2. GoesTo(p, s)
        BY <1>1, <2>1 DEF GoesTo, Preflight, Untried, Ended, Waiting, Tested
    <2>. QED BY <2>2, GoesToKeeps
<1>2. CASE experiencePreflight(p)
    <2>1. \A q \in Pids : q # p => rev'[q] = rev[q]
        BY <1>2 DEF experiencePreflight, TypeInv, ProcessTypes
    <2>2. GoesTo(p, "gates")
        BY <1>2, <2>1 DEF GoesTo, experiencePreflight, Untried, Ended, Waiting, Tested
    <2>. QED BY <2>2, GoesToKeeps
<1>3. CASE Coalesce(p)
    BY <1>3, GoesOff, GoesToKeeps DEF Coalesce, Finish
<1>4. CASE BeginGate(p) \/ EndGate(p)
    BY <1>4, GateKeeps
<1>5. ASSUME pc[p] \in Tested \cap DOMAIN CompatibilityOrder, Advance(p) PROVE GateInv'
    BY <1>5, AdvanceGoes, GoesToKeeps
<1>6. CASE Build(p) \/ proveMigration(p) \/ AwaitCandidate(p) \/ verifyCandidateRevision(p) \/ Promote(p)
    BY <1>5, <1>6 DEF Build, proveMigration, AwaitCandidate, verifyCandidateRevision, Promote,
        Tested, CompatibilityOrder
<1>7. CASE proveRouted(p) \/ Retire(p) \/ retainArtifacts(p) \/ convergeAfterDrain(p)
    BY <1>5, <1>7 DEF proveRouted, Retire, retainArtifacts, convergeAfterDrain, Tested, CompatibilityOrder
<1>8. CASE prepareCandidate(p) \/ InstallConfig(p) \/ RecordRoute(p) \/ Drain(p)
    <2>1. pc[p] \in Tested \cap DOMAIN CompatibilityOrder
        BY <1>8 DEF prepareCandidate, InstallConfig, RecordRoute, Drain, Tested, CompatibilityOrder
    <2>2. \/ Advance(p)
          \/ /\ UNCHANGED <<mode, rev, tested>>
             /\ \/ \E s \in {"discard", "recover", "unlock"} : Goto(p, s)
                \/ pc[p] = "drain" /\ Goto(p, Recovery(p))
        BY <1>8 DEF prepareCandidate, InstallConfig, RecordRoute, Drain, BreaksOff, Finish
    <2>3. ASSUME NEW s \in {"discard", "recover", "unlock"}, Goto(p, s), UNCHANGED <<mode, rev, tested>>
          PROVE  GateInv'
        <3>1. s \in Tested \cup {"unlock", "discard"}
            BY <2>3 DEF Tested
        <3>. QED BY <2>1, <2>3, <3>1, StaysTested, GoesToKeeps
    <2>4. CASE pc[p] = "drain" /\ Goto(p, Recovery(p)) /\ UNCHANGED <<mode, rev, tested>>
        <3>1. pc[p] \in DOMAIN CompatibilityRecovery
            BY <2>4 DEF CompatibilityRecovery
        <3>. QED BY <2>4, <3>1, RecoveryGoes, GoesToKeeps
    <2>. QED BY <1>5, <2>1, <2>2, <2>3, <2>4
<1>. QED BY <1>1, <1>2, <1>3, <1>4, <1>6, <1>7, <1>8 DEF Proceed

LEMMA RecoverGates == ASSUME TypeInv, GateInv, NEW p \in Pids, Recover(p) PROVE GateInv'
<1>1. CASE Fail(p) \/ discardCandidate(p) \/ discardArtifact(p)
    <2>1. /\ pc[p] \in DOMAIN CompatibilityRecovery /\ Goto(p, Recovery(p))
          /\ UNCHANGED <<mode, rev, tested>>
        BY <1>1 DEF Fail, discardCandidate, discardArtifact, CompatibilityRecovery
    <2>. QED BY <2>1, RecoveryGoes, GoesToKeeps
<1>2. CASE FailCleanup(p) \/ FailRecovery(p)
    BY <1>2, GoesOff, GoesToKeeps DEF FailCleanup, FailRecovery, Finish
<1>3. CASE recoverActivation(p) \/ Rollback(p)
    <2>1. PICK s \in {"rollback", "discard", "install"} :
            Goto(p, s) /\ UNCHANGED <<mode, rev, tested>>
        BY <1>3 DEF recoverActivation, Rollback
    <2>2. pc[p] \in Tested /\ s \in Tested \cup {"unlock", "discard"}
        BY <1>3, <2>1 DEF recoverActivation, Rollback, Tested
    <2>. QED BY <2>1, <2>2, StaysTested, GoesToKeeps
<1>. QED BY <1>1, <1>2, <1>3 DEF Recover

LEMMA GateStep == ASSUME TypeInv, GateInv, [Next]_vars PROVE GateInv'
<1>1. CASE UNCHANGED processVars
    BY <1>1 DEF processVars, GateInv
<1>2. CASE UNCHANGED vars
    BY <1>1, <1>2 DEF vars
<1>3. CASE Around
    <2>1. CASE Reboot
        <3>1. Forget({p \in Pids : Alive(p)}) /\ {p \in Pids : Alive(p)} \in SUBSET Pids
            BY <2>1 DEF Reboot
        <3>. QED BY <3>1, ForgetGates
    <2>2. CASE ~Reboot
        BY <1>1, <1>3, <2>2 DEF Around, MoveMain, SlotDown, SlotUp, OperatorRetire
    <2>. QED BY <2>1, <2>2
<1>4. ASSUME NEW p \in Pids, Start(p) \/ Step(p) \/ Hang(p) \/ Kill(p) PROVE GateInv'
    <2>1. CASE Kill(p)
        BY <2>1, ForgetGates DEF Kill
    <2>2. CASE Hang(p)
        BY <2>2, LeaveGates DEF Hang
    <2>. QED BY <1>4, <2>1, <2>2, StartGates, LockingGates, ProceedGates, RecoverGates DEF Step
<1>. QED BY <1>2, <1>3, <1>4 DEF Next

LEMMA GateInit == ASSUME Init PROVE GateInv
<1>1. \A p \in Pids : tested[p] = {} /\ pc[p] = "new"
    BY DEF Init
<1>. QED BY <1>1 DEF GateInv, Tested

\* A compatibility release builds, prepares, promotes and converges only what every gate
\* before it ran on, although main may move at any instant (runGates, assertReleaseSource).
THEOREM GatesOnRevision == Spec => []TestedIsBuilt
<1>1. Init => TypeInv /\ GateInv
    BY TypeInit, GateInit
<1>2. (TypeInv /\ GateInv) /\ [Next]_vars => (TypeInv /\ GateInv)'
    BY TypeStep, GateStep
<1>3. TypeInv /\ GateInv => TestedIsBuilt
    BY DEF GateInv, TestedIsBuilt, Gated, Tested
<1>. QED BY <1>1, <1>2, <1>3, PTL DEF Spec
-----------------------------------------------------------------------------
(* The way back.  Wherever a promotion breaks off, state.json names a slot *)
(* that is kept running, and the release at work knows which slot is which. *)

\* What the way back is about.
wayVars == <<caddy, route, boot, loaded, unstopped, runs, prepared, releases>>

\* A slot that users can be sent to, also after a reboot.
Kept(slot) == Serves(slot) /\ slot \in boot /\ slot \notin unstopped

\* The slot that the host's record names.
HostInv == Kept(route.slot) /\ runs[route.slot] = route.rev

Before == {"gates", "gate", "build", "migrate", "prepare", "await", "verify", "promote"}
Behind == {"prove", "drain", "retire", "rollback"}
Busy == Before \cup Behind \cup {"install", "record", "retain", "recover", "discard", "erase"}

\* The revision runs in the candidate slot, and its artifact exists.
Standing(p) ==
    /\ candidate(p) \in boot /\ candidate(p) \in loaded /\ candidate(p) \notin unstopped
    /\ runs[candidate(p)] = rev[p] /\ rev[p] \in releases

\* Caddy was switched to one of the two slots, state.json still names the other.
Switching(p) ==
    /\ Kept(prior[p]) /\ Kept(candidate(p))
    /\ runs[candidate(p)] = rev[p]
    /\ caddy = IF late[p] THEN prior[p] ELSE candidate(p)
    /\ route.slot = Other(caddy)

\* The promotion is recorded and the prior slot is still there.
Switched(p) ==
    /\ caddy = candidate(p) /\ route.slot = candidate(p) /\ route.prevSlot = prior[p]
    /\ Kept(prior[p])
    /\ runs[candidate(p)] = rev[p]

\* What a release can rely on at each stage.
Known(p) ==
    /\ mode[p] = "compatibility" => rev[p] # runs[prior[p]]
    /\ mode[p] = "experience" => pc[p] \notin {"build", "migrate", "erase"}
    /\ pc[p] \in Before \cup {"discard", "erase"} => route.slot = prior[p]
    /\ pc[p] \in Before => caddy = prior[p]
    /\ pc[p] \in {"discard", "erase"} /\ ~late[p] => caddy = prior[p]
    /\ pc[p] \in {"await", "verify", "promote"} => Standing(p)
    /\ pc[p] \in {"verify", "promote"} => prepared[candidate(p)] = rev[p]
    /\ pc[p] \in {"install", "record"} => Switching(p)
    /\ pc[p] \in Behind => Switched(p)
    /\ pc[p] = "recover" => route.slot = prior[p] \/ Switched(p)
    /\ pc[p] \in Before \cup {"prove", "drain", "retire"} => ~late[p]
    /\ pc[p] \in {"recover", "rollback"} => late[p]
    /\ pc[p] = "retain" =>
        caddy = candidate(p) /\ route.slot = candidate(p) /\ runs[candidate(p)] = rev[p]

WayInv ==
    /\ HostInv
    /\ \A p \in Pids : pc[p] \in Busy => Known(p)
    /\ \A p \in Pids : pc[p] \in Untried => ~late[p]

SafeInv == LockInv /\ TypeInv /\ WayInv

LEMMA BusyStages == Busy \subseteq Stages /\ Busy \cap Untried = {} /\ Stages \cap Untried = {"preflight"}
    BY StagesAre DEF Busy, Before, Behind, Untried, Ended, Waiting

LEMMA OtherSlot ==
    ASSUME NEW slot \in Slots
    PROVE  Other(slot) \in Slots /\ Other(slot) # slot /\ Other(Other(slot)) = slot
    BY DEF Slots, Other

LEMMA StageAfter ==
    ASSUME NEW p \in Pids, mode[p] \in {"compatibility", "experience"}
    PROVE  /\ pc[p] = "gate" => NextStage(p) = IF mode[p] = "compatibility" THEN "build" ELSE "prepare"
           /\ pc[p] = "build" => NextStage(p) = "migrate"
           /\ pc[p] = "migrate" => NextStage(p) = "prepare"
           /\ pc[p] = "prepare" => NextStage(p) = "await"
           /\ pc[p] = "await" => NextStage(p) = "verify"
           /\ pc[p] = "verify" => NextStage(p) = "promote"
           /\ pc[p] = "promote" => NextStage(p) = "install"
           /\ pc[p] = "install" => NextStage(p) = "record"
           /\ pc[p] = "record" => NextStage(p) = "prove"
           /\ pc[p] = "prove" => NextStage(p) = "drain"
           /\ pc[p] = "drain" => NextStage(p) = "retire"
           /\ pc[p] = "retire" => NextStage(p) = "retain"
           /\ pc[p] = "retain" => NextStage(p) = IF mode[p] = "compatibility" THEN "converge" ELSE "unlock"
           /\ pc[p] = "converge" => NextStage(p) = "unlock"
    BY DEF NextStage, CompatibilityOrder, ExperienceOrder

LEMMA StageUndone ==
    ASSUME NEW p \in Pids, mode[p] \in {"compatibility", "experience"}
    PROVE  /\ pc[p] \in {"preflight", "coalesce", "gates", "gate"} => Recovery(p) = "unlock"
           /\ pc[p] \in {"build", "migrate"} => Recovery(p) = "erase"
           /\ pc[p] \in {"prepare", "await", "verify"} => Recovery(p) = "discard"
           /\ pc[p] \in {"promote", "install", "record"} => Recovery(p) = "recover"
           /\ pc[p] \in {"prove", "drain"} => Recovery(p) = "rollback"
           /\ pc[p] = "discard" => Recovery(p) = IF mode[p] = "compatibility" THEN "erase" ELSE "unlock"
           /\ pc[p] = "erase" => Recovery(p) = "unlock"
    BY DEF Recovery, CompatibilityRecovery, ExperienceRecovery

\* The release at work is alone, and its two slots are the host's.
LEMMA AtWork ==
    ASSUME SafeInv, NEW p \in Pids, pc[p] \in Stages
    PROVE  /\ \A q \in Pids : q # p => pc[q] \notin Stages
           /\ pc \in [Pids -> Names]
           /\ mode[p] \in {"compatibility", "experience"}
           /\ prior[p] \in Slots /\ candidate(p) \in Slots
           /\ candidate(p) = Other(prior[p]) /\ prior[p] = Other(candidate(p))
           /\ candidate(p) # prior[p]
           /\ caddy \in Slots /\ route.slot \in Slots
<1>1. \A q \in Pids : q # p => pc[q] \notin Stages
    BY DEF SafeInv, LockInv
<1>2. /\ pc \in [Pids -> Names] /\ mode[p] \in {"compatibility", "experience"}
      /\ prior[p] \in Slots /\ caddy \in Slots /\ route.slot \in Slots
    BY DEF SafeInv, TypeInv, ProcessTypes, HostTypes, Route
<1>3. /\ candidate(p) \in Slots /\ candidate(p) = Other(prior[p])
      /\ prior[p] = Other(candidate(p)) /\ candidate(p) # prior[p]
    BY <1>2, OtherSlot DEF candidate
<1>. QED BY <1>1, <1>2, <1>3

\* A step of the release at work: only what it knows next is to be shown.
LEMMA WorkKeeps ==
    ASSUME SafeInv, NEW p \in Pids, pc[p] \in Stages, NEW s \in Names \ Untried, Goto(p, s),
           \A q \in Pids : q # p => late'[q] = late[q],
           HostInv', s \in Busy => Known(p)'
    PROVE  WayInv'
<1>1. /\ pc \in [Pids -> Names] /\ \A q \in Pids : q # p => pc[q] \notin Stages
    BY AtWork
<1>2. \A q \in Pids : pc'[q] = IF q = p THEN s ELSE pc[q]
    BY <1>1 DEF Goto
<1>3. ASSUME NEW q \in Pids, pc'[q] \in Busy PROVE Known(q)'
    <2>1. q = p
        BY <1>1, <1>2, <1>3, BusyStages
    <2>. QED BY <1>2, <1>3, <2>1
<1>4. ASSUME NEW q \in Pids, pc'[q] \in Untried PROVE ~late'[q]
    BY <1>2, <1>4 DEF SafeInv, WayInv
<1>. QED BY <1>3, <1>4 DEF WayInv

LEMMA HostStays == ASSUME SafeInv, UNCHANGED wayVars PROVE HostInv'
    BY DEF SafeInv, WayInv, HostInv, Kept, Serves, wayVars

\* Steps that leave the slots and the route alone, and every release where it was or done
\* with the host.
LEMMA ElsewhereKeeps ==
    ASSUME SafeInv, UNCHANGED wayVars,
           \A q \in Pids :
              \/ /\ pc'[q] = pc[q] /\ mode'[q] = mode[q] /\ rev'[q] = rev[q]
                 /\ prior'[q] = prior[q] /\ late'[q] = late[q]
              \/ pc'[q] \notin Busy /\ (pc'[q] \in Untried => ~late'[q])
    PROVE  WayInv'
<1>1. ASSUME NEW q \in Pids, pc'[q] \in Busy PROVE Known(q)'
    <2>1. /\ pc'[q] = pc[q] /\ mode'[q] = mode[q] /\ rev'[q] = rev[q]
          /\ prior'[q] = prior[q] /\ late'[q] = late[q]
        BY <1>1
    <2>2. Known(q)
        BY <1>1, <2>1 DEF SafeInv, WayInv
    <2>. QED BY <2>1, <2>2 DEF Known, Standing, Switching, Switched, Kept, Serves, candidate, wayVars
<1>2. ASSUME NEW q \in Pids, pc'[q] \in Untried PROVE ~late'[q]
    BY <1>2 DEF SafeInv, WayInv
<1>. QED BY <1>1, <1>2, HostStays DEF WayInv

\* A step of the release at work that leaves slots and route alone.
LEMMA QuietWork ==
    ASSUME SafeInv, NEW p \in Pids, pc[p] \in Stages,
           NEW s \in Stages \ {"preflight"}, Goto(p, s), UNCHANGED wayVars,
           \A q \in Pids : q # p => late'[q] = late[q],
           s \in Busy => Known(p)'
    PROVE  WayInv'
<1>1. s \in Names \ Untried
    BY BusyStages DEF Names
<1>. QED BY <1>1, HostStays, WorkKeeps

\* What a release knows stays true at its next stage, if that stage asks for no more.
LEMMA StillKnown ==
    ASSUME SafeInv, NEW p \in Pids, pc[p] \in Busy,
           UNCHANGED wayVars, mode'[p] = mode[p], rev'[p] = rev[p], prior'[p] = prior[p], late'[p] = late[p],
           <<pc[p], pc'[p]>> \in {<<"gates", "gate">>, <<"gate", "gates">>, <<"gate", "build">>,
               <<"gate", "prepare">>, <<"migrate", "prepare">>, <<"prove", "drain">>,
               <<"drain", "retire">>},
           pc'[p] = "build" => mode[p] = "compatibility"
    PROVE  Known(p)'
<1>1. UNCHANGED <<caddy, route, boot, loaded, unstopped, runs, prepared, releases>>
    BY DEF wayVars
<1>2. Known(p)
    BY DEF SafeInv, WayInv
<1>3. /\ pc[p] \in Before => pc'[p] \in Before
      /\ pc[p] \in Behind => pc'[p] \in Behind
      /\ pc[p] \in Before \/ pc[p] \in Behind
      /\ pc'[p] \notin {"await", "verify", "promote", "install", "record", "recover", "rollback",
                        "retain", "discard", "erase", "migrate"}
    BY DEF Before, Behind
<1>4. /\ pc[p] \in Before => route.slot = prior[p] /\ caddy = prior[p] /\ ~late[p] /\ pc'[p] \notin Behind
      /\ pc[p] \in Behind => Switched(p) /\ ~late[p] /\ pc'[p] \notin Before
    BY <1>2 DEF Known, Before, Behind
<1>5. Switched(p) => Switched(p)'
    BY <1>1 DEF Switched, Kept, Serves, candidate
<1>. QED BY <1>1, <1>2, <1>3, <1>4, <1>5 DEF Known

\* The ports show that Caddy proxies to the slot of state.json.
LEMMA PortsAgree ==
    ASSUME SafeInv, caddyReady, assertPorts
    PROVE  caddy = route.slot
<1>1. caddy \in Slots /\ route.slot \in Slots
    BY DEF SafeInv, TypeInv, HostTypes, Route
<1>2. caddy # Other(route.slot)
    BY DEF caddyReady, assertPorts, listenerPids
<1>. QED BY <1>1, <1>2 DEF Other, Slots

LEMMA PreflightKeeps ==
    ASSUME SafeInv, NEW p \in Pids, Preflight(p) \/ experiencePreflight(p)
    PROVE  WayInv'
<1>1. pc[p] = "preflight" /\ pc[p] \in Stages
    BY StagesAre DEF Preflight, experiencePreflight
<1>2. UNCHANGED wayVars /\ UNCHANGED <<mode, late>> /\ prior'[p] = route.slot
    BY DEF Preflight, experiencePreflight, hostVars, proxyVars, slotVars, wayVars, SafeInv, TypeInv,
        ProcessTypes
<1>3. PICK s \in {"coalesce", "gates"} : Goto(p, s)
    BY DEF Preflight, experiencePreflight
<1>4. s \in Stages \ {"preflight"}
    BY <1>3, StagesAre
<1>5. ASSUME s = "gates" PROVE Known(p)'
    <2>1. pc'[p] = "gates"
        BY <1>1, <1>3, <1>5, AtWork DEF Goto
    <2>2. ~late[p] /\ caddy = route.slot
        BY <1>1, PortsAgree DEF SafeInv, WayInv, Untried, Preflight, experiencePreflight
    <2>3. mode'[p] = "compatibility" => rev'[p] # runs'[prior'[p]]
        <3>1. CASE Preflight(p)
            <4>1. route.rev # rev[p] /\ rev' = rev
                BY <1>1, <1>3, <1>5, <3>1, AtWork DEF Preflight, Goto
            <4>. QED BY <1>2, <4>1 DEF SafeInv, WayInv, HostInv, wayVars
        <3>2. CASE experiencePreflight(p)
            BY <1>2, <3>2 DEF experiencePreflight
        <3>. QED BY <3>1, <3>2
    <2>. QED BY <1>2, <2>1, <2>2, <2>3 DEF Known, Before, Behind, wayVars
<1>6. s \in Busy => s = "gates"
    BY <1>3 DEF Busy, Before, Behind
<1>. QED BY <1>1, <1>2, <1>3, <1>4, <1>5, <1>6, QuietWork

LEMMA GateWays ==
    ASSUME SafeInv, NEW p \in Pids,
           \/ BeginGate(p) \/ EndGate(p) \/ proveMigration(p) \/ verifyCandidateRevision(p)
           \/ proveRouted(p) \/ (Drain(p) /\ Advance(p))
    PROVE  WayInv'
<1>1. /\ pc[p] \in {"gates", "gate", "migrate", "verify", "prove", "drain"}
      /\ UNCHANGED wayVars /\ UNCHANGED <<mode, rev, prior, late>>
    BY DEF BeginGate, EndGate, proveMigration, verifyCandidateRevision, proveRouted, Drain, Advance,
        hostVars, proxyVars, slotVars, wayVars
<1>2. pc[p] \in Stages /\ pc[p] \in Busy
    BY <1>1, StagesAre DEF Busy, Before, Behind
<1>3. mode[p] \in {"compatibility", "experience"}
    BY <1>2, AtWork
<1>4. PICK s : /\ Goto(p, s)
               /\ <<pc[p], s>> \in {<<"gates", "gate">>, <<"gate", "gates">>, <<"gate", "build">>,
                     <<"gate", "prepare">>, <<"migrate", "prepare">>, <<"verify", "promote">>,
                     <<"prove", "drain">>, <<"drain", "retire">>}
               /\ s = "build" => mode[p] = "compatibility"
    <2>1. CASE BeginGate(p)
        BY <2>1 DEF BeginGate
    <2>2. CASE EndGate(p)
        BY <1>3, <2>2, StageAfter DEF EndGate
    <2>3. CASE proveMigration(p) \/ verifyCandidateRevision(p) \/ proveRouted(p) \/ (Drain(p) /\ Advance(p))
        BY <1>3, <2>3, StageAfter DEF proveMigration, verifyCandidateRevision, proveRouted, Drain, Advance
    <2>. QED BY <2>1, <2>2, <2>3
<1>5. s \in Stages \ {"preflight"} /\ pc'[p] = s
    BY <1>2, <1>4, StagesAre, AtWork DEF Goto
<1>6. CASE s # "promote"
    BY <1>1, <1>2, <1>4, <1>5, <1>6, StillKnown, QuietWork
<1>7. CASE s = "promote"
    <2>1. pc[p] = "verify"
        BY <1>4, <1>7
    <2>2. /\ Known(p) /\ Standing(p) /\ prepared[candidate(p)] = rev[p]
          /\ route.slot = prior[p] /\ caddy = prior[p] /\ ~late[p]
        BY <1>2, <2>1 DEF SafeInv, WayInv, Known, Before
    <2>3. Standing(p)' /\ (prepared[candidate(p)] = rev[p])'
        BY <1>1, <2>2 DEF Standing, candidate, wayVars
    <2>4. Known(p)'
        BY <1>1, <1>5, <1>7, <2>2, <2>3 DEF Known, Before, Behind, wayVars
    <2>. QED BY <1>1, <1>2, <1>4, <1>5, <2>4, QuietWork
<1>. QED BY <1>6, <1>7

LEMMA BuildKeeps == ASSUME SafeInv, NEW p \in Pids, Build(p) PROVE WayInv'
<1>1. pc[p] = "build" /\ pc[p] \in Stages /\ pc[p] \in Busy
    BY StagesAre DEF Build, Busy, Before
<1>2. /\ UNCHANGED <<caddy, route, boot, loaded, unstopped, runs, prepared, mode, rev, prior, late>>
      /\ releases' = releases \cup {rev[p]}
    BY DEF Build, buildRelease, Advance, proxyVars, slotVars
<1>3. Goto(p, "migrate") /\ pc'[p] = "migrate"
    BY <1>1, StageAfter, AtWork DEF Build, Advance, Goto
<1>4. Known(p) /\ HostInv
    BY <1>1 DEF SafeInv, WayInv
<1>5. HostInv'
    BY <1>2, <1>4 DEF HostInv, Kept, Serves
<1>6. Known(p)'
    BY <1>1, <1>2, <1>3, <1>4 DEF Known, Before, Behind
<1>7. "migrate" \in Names \ Untried
    BY StagesAre DEF Names, Untried, Ended, Waiting
<1>. QED BY <1>1, <1>2, <1>3, <1>5, <1>6, <1>7, WorkKeeps

\* The slot that Caddy proxies to is not the candidate while the candidate is prepared.
LEMMA CandidateApart ==
    ASSUME SafeInv, NEW p \in Pids, pc[p] \in Before
    PROVE  /\ pc[p] \in Stages /\ pc[p] \in Busy /\ Known(p)
           /\ caddy = prior[p] /\ route.slot = prior[p]
           /\ candidate(p) # prior[p] /\ ~late[p]
           /\ Kept(prior[p]) /\ runs[prior[p]] = route.rev
<1>1. pc[p] \in Stages /\ pc[p] \in Busy
    BY StagesAre DEF Busy, Before
<1>2. Known(p) /\ HostInv
    BY <1>1 DEF SafeInv, WayInv
<1>3. route.slot = prior[p] /\ caddy = prior[p] /\ ~late[p]
    BY <1>2 DEF Known
<1>. QED BY <1>1, <1>2, <1>3, AtWork DEF HostInv

LEMMA PrepareKeeps == ASSUME SafeInv, NEW p \in Pids, prepareCandidate(p) PROVE WayInv'
<1> DEFINE c == candidate(p)
<1>1. pc[p] = "prepare" /\ pc[p] \in Before
    BY DEF prepareCandidate, Before
<1>2. /\ UNCHANGED <<caddy, route, prepared, releases, mode, rev, prior, late>>
      /\ boot' = boot \cup {c} /\ loaded \ {c} \subseteq loaded' /\ unstopped' = unstopped \ {c}
      /\ runs' = [runs EXCEPT ![c] = rev[p]] /\ rev[p] \in releases
    BY DEF prepareCandidate, prepareSlot, installSlotService, Advance, proxyVars
<1>3. /\ caddy = prior[p] /\ route.slot = prior[p] /\ c # prior[p]
      /\ Known(p) /\ ~late[p] /\ Kept(prior[p]) /\ runs[prior[p]] = route.rev /\ pc[p] \in Stages
    BY <1>1, CandidateApart
<1>4. runs \in [Slots -> Revisions] /\ c \in Slots /\ prior[p] \in Slots
    BY <1>3, AtWork DEF SafeInv, TypeInv, HostTypes
<1>5. runs'[prior[p]] = runs[prior[p]] /\ runs'[c] = rev[p]
    BY <1>2, <1>3, <1>4
<1>6. HostInv'
    BY <1>2, <1>3, <1>5 DEF HostInv, Kept, Serves
<1>7. PICK s \in {"await", "discard"} : Goto(p, s) /\ (s = "await" => loaded' = loaded \cup {c})
    BY <1>1, <1>3, StageAfter, AtWork DEF prepareCandidate, prepareSlot, installSlotService, Advance
<1>8. pc'[p] = s
    BY <1>3, <1>7, AtWork DEF Goto
<1>9. s = "await" => Standing(p)'
    BY <1>2, <1>5, <1>7 DEF Standing, candidate
<1>10. Known(p)'
    BY <1>1, <1>2, <1>3, <1>5, <1>7, <1>8, <1>9 DEF Known, Before, Behind
<1>11. s \in Names \ Untried
    BY <1>7, StagesAre DEF Names, Untried, Ended, Waiting
<1>. QED BY <1>2, <1>3, <1>6, <1>7, <1>10, <1>11, WorkKeeps

LEMMA AwaitKeeps == ASSUME SafeInv, NEW p \in Pids, AwaitCandidate(p) PROVE WayInv'
<1> DEFINE c == candidate(p)
<1>1. pc[p] = "await" /\ pc[p] \in Before
    BY DEF AwaitCandidate, Before
<1>2. /\ UNCHANGED <<caddy, route, boot, loaded, unstopped, runs, releases, mode, rev, prior, late>>
      /\ prepared' = [prepared EXCEPT ![c] = rev[p]]
    BY DEF AwaitCandidate, Advance, proxyVars
<1>3. /\ caddy = prior[p] /\ route.slot = prior[p] /\ c # prior[p]
      /\ Known(p) /\ ~late[p] /\ Kept(prior[p]) /\ runs[prior[p]] = route.rev /\ pc[p] \in Stages
    BY <1>1, CandidateApart
<1>4. prepared \in [Slots -> Revisions \cup {NoRevision}] /\ c \in Slots /\ prior[p] \in Slots
    BY <1>3, AtWork DEF SafeInv, TypeInv, HostTypes
<1>5. prepared'[prior[p]] = prepared[prior[p]] /\ prepared'[c] = rev[p]
    BY <1>2, <1>3, <1>4
<1>6. HostInv'
    BY <1>2, <1>3, <1>5 DEF HostInv, Kept, Serves
<1>7. Goto(p, "verify") /\ pc'[p] = "verify"
    BY <1>1, <1>3, StageAfter, AtWork DEF AwaitCandidate, Advance, Goto
<1>8. Standing(p)' /\ (prepared[candidate(p)] = rev[p])'
    BY <1>1, <1>2, <1>3, <1>5 DEF Known, Standing, candidate
<1>9. Known(p)'
    BY <1>1, <1>2, <1>3, <1>7, <1>8 DEF Known, Before, Behind
<1>10. "verify" \in Names \ Untried
    BY StagesAre DEF Names, Untried, Ended, Waiting
<1>. QED BY <1>2, <1>3, <1>6, <1>7, <1>9, <1>10, WorkKeeps

LEMMA PromoteKeeps == ASSUME SafeInv, NEW p \in Pids, Promote(p) PROVE WayInv'
<1> DEFINE c == candidate(p)
<1>1. pc[p] = "promote" /\ pc[p] \in Before
    BY DEF Promote, Before
<1>2. /\ UNCHANGED <<route, boot, loaded, unstopped, runs, prepared, releases, mode, rev, prior, late>>
      /\ caddy' = c
    BY DEF Promote, promoteSlot, Advance, slotVars
<1>3. /\ caddy = prior[p] /\ route.slot = prior[p] /\ c # prior[p]
      /\ Known(p) /\ ~late[p] /\ Kept(prior[p]) /\ runs[prior[p]] = route.rev /\ pc[p] \in Stages
    BY <1>1, CandidateApart
<1>4. Kept(c) /\ runs[c] = rev[p]
    BY <1>1, <1>3 DEF Known, Standing, Kept, Serves
<1>5. Goto(p, "install") /\ pc'[p] = "install"
    BY <1>1, <1>3, StageAfter, AtWork DEF Promote, Advance, Goto
<1>6. Kept(c)' /\ Kept(prior[p])' /\ HostInv'
    BY <1>2, <1>3, <1>4 DEF HostInv, Kept, Serves, candidate
<1>7. Switching(p)'
    BY <1>2, <1>3, <1>4, <1>6, AtWork DEF Switching, candidate
<1>8. Known(p)'
    BY <1>2, <1>3, <1>5, <1>7 DEF Known, Before, Behind
<1>9. "install" \in Names \ Untried
    BY StagesAre DEF Names, Untried, Ended, Waiting
<1>. QED BY <1>2, <1>3, <1>5, <1>6, <1>8, <1>9, WorkKeeps

LEMMA RollbackKeeps == ASSUME SafeInv, NEW p \in Pids, Rollback(p) PROVE WayInv'
<1> DEFINE c == candidate(p)
<1>1. pc[p] = "rollback" /\ pc[p] \in Stages /\ pc[p] \in Busy /\ Goto(p, "install")
    BY StagesAre DEF Rollback, Busy, Behind
<1>2. /\ UNCHANGED <<route, boot, loaded, unstopped, runs, prepared, releases, mode, rev, prior, late>>
      /\ caddy' = route.prevSlot
    BY DEF Rollback, promoteSlot, slotVars
<1>3. Known(p) /\ late[p] /\ Switched(p) /\ HostInv
    BY <1>1 DEF SafeInv, WayInv, Known, Behind
<1>4. route.slot = c /\ caddy' = prior[p] /\ Kept(c) /\ Kept(prior[p]) /\ runs[c] = rev[p]
    BY <1>2, <1>3 DEF Switched, HostInv
<1>5. pc'[p] = "install"
    BY <1>1, AtWork DEF Goto
<1>6. Kept(c)' /\ Kept(prior[p])' /\ HostInv'
    BY <1>2, <1>3, <1>4 DEF HostInv, Kept, Serves, candidate
<1>7. Switching(p)'
    BY <1>1, <1>2, <1>3, <1>4, <1>6, AtWork DEF Switching, candidate
<1>8. Known(p)'
    BY <1>2, <1>3, <1>5, <1>7 DEF Known, Before, Behind
<1>9. "install" \in Names \ Untried
    BY StagesAre DEF Names, Untried, Ended, Waiting
<1>. QED BY <1>1, <1>2, <1>6, <1>8, <1>9, WorkKeeps

\* Where a promotion or a rollback goes that breaks off after the reload.
LEMMA BrokenOff ==
    ASSUME SafeInv, NEW p \in Pids, pc[p] \in Stages, BreaksOff(p)
    PROVE  /\ UNCHANGED <<mode, rev, prior>>
           /\ \A q \in Pids : q # p => late'[q] = late[q]
           /\ \/ late[p] /\ Goto(p, "unlock") /\ pc'[p] = "unlock"
              \/ ~late[p] /\ late'[p] /\ Goto(p, "recover") /\ pc'[p] = "recover"
<1>1. pc \in [Pids -> Names] /\ late \in [Pids -> BOOLEAN]
    BY DEF SafeInv, TypeInv, ProcessTypes
<1>2. CASE late[p]
    BY <1>1, <1>2 DEF BreaksOff, Finish, Goto
<1>3. CASE ~late[p]
    <2>1. /\ Goto(p, "recover") /\ late' = [late EXCEPT ![p] = TRUE]
          /\ UNCHANGED <<mode, rev, prior>>
        BY <1>3 DEF BreaksOff
    <2>2. late'[p] /\ \A q \in Pids : q # p => late'[q] = late[q]
        BY <1>1, <2>1
    <2>. QED BY <1>1, <1>3, <2>1, <2>2 DEF Goto
<1>. QED BY <1>2, <1>3

\* A promotion that breaks off before state.json leaves the record on the old slot.
LEMMA BrokenKeeps ==
    ASSUME SafeInv, NEW p \in Pids, pc[p] \in {"install", "record"}, BreaksOff(p), UNCHANGED wayVars
    PROVE  WayInv'
<1>1. pc[p] \in Stages /\ pc[p] \in Busy
    BY StagesAre DEF Busy
<1>2. Known(p) /\ Switching(p)
    BY <1>1 DEF SafeInv, WayInv, Known
<1>3. CASE late[p]
    <2>1. Goto(p, "unlock") /\ \A q \in Pids : q # p => late'[q] = late[q]
        BY <1>1, <1>3, BrokenOff
    <2>2. "unlock" \in Stages \ {"preflight"} /\ "unlock" \notin Busy
        BY StagesAre DEF Busy, Before, Behind
    <2>. QED BY <1>1, <2>1, <2>2, QuietWork
<1>4. CASE ~late[p]
    <2>1. /\ Goto(p, "recover") /\ pc'[p] = "recover" /\ late'[p]
          /\ UNCHANGED <<mode, rev, prior>> /\ \A q \in Pids : q # p => late'[q] = late[q]
        BY <1>1, <1>4, BrokenOff
    <2>2. route.slot = prior[p]
        BY <1>1, <1>2, <1>4, AtWork DEF Switching
    <2>3. Known(p)'
        BY <1>2, <2>1, <2>2 DEF Known, Before, Behind, wayVars
    <2>4. "recover" \in Stages \ {"preflight"}
        BY StagesAre
    <2>. QED BY <1>1, <2>1, <2>3, <2>4, QuietWork
<1>. QED BY <1>3, <1>4

\* The last two steps of a promotion or a rollback, and where they lead.
LEMMA InstallKeeps ==
    ASSUME SafeInv, NEW p \in Pids, InstallConfig(p)
    PROVE  WayInv'
<1>1. pc[p] = "install" /\ pc[p] \in Stages /\ pc[p] \in Busy
    BY StagesAre DEF InstallConfig, Busy
<1>2. UNCHANGED wayVars
    BY DEF InstallConfig, slotVars, wayVars
<1>3. CASE BreaksOff(p)
    BY <1>1, <1>2, <1>3, BrokenKeeps
<1>4. CASE Advance(p)
    <2>1. Goto(p, "record") /\ pc'[p] = "record" /\ UNCHANGED <<mode, rev, prior, late>>
        BY <1>1, <1>4, StageAfter, AtWork DEF Advance, Goto
    <2>2. Known(p) /\ Switching(p)
        BY <1>1 DEF SafeInv, WayInv, Known
    <2>3. Switching(p)'
        BY <1>2, <2>1, <2>2 DEF Switching, Kept, Serves, candidate, wayVars
    <2>4. Known(p)'
        BY <1>2, <2>1, <2>2, <2>3 DEF Known, Before, Behind, wayVars
    <2>5. "record" \in Stages \ {"preflight"}
        BY StagesAre
    <2>. QED BY <1>1, <1>2, <2>1, <2>4, <2>5, QuietWork
<1>. QED BY <1>3, <1>4 DEF InstallConfig

LEMMA RecordKeeps ==
    ASSUME SafeInv, NEW p \in Pids, RecordRoute(p)
    PROVE  WayInv'
<1>1. pc[p] = "record" /\ pc[p] \in Stages /\ pc[p] \in Busy
    BY StagesAre DEF RecordRoute, Busy
<1>2. UNCHANGED <<caddy, boot, loaded, unstopped, runs, prepared, releases>>
    BY DEF RecordRoute, slotVars
<1>3. CASE UNCHANGED route /\ BreaksOff(p)
    BY <1>1, <1>2, <1>3, BrokenKeeps DEF wayVars
<1>4. CASE route' = [slot |-> caddy, rev |-> prepared[caddy],
                     prevSlot |-> route.slot, prevRev |-> route.rev]
    <2>1. Known(p) /\ Switching(p) /\ Kept(caddy)
        BY <1>1, AtWork DEF SafeInv, WayInv, Known, Switching
    <2>2. HostInv'
        BY <1>2, <1>4, <2>1 DEF HostInv, Kept, Serves
    <2>3. PICK s \in {"prove", "discard", "unlock", "recover"} :
            /\ Goto(p, s)
            /\ s = "prove" => ~late[p] /\ ~late'[p]
            /\ s = "discard" => late[p] /\ late'[p]
            /\ s = "recover" => ~late[p] /\ late'[p]
            /\ UNCHANGED <<mode, rev, prior>> /\ \A q \in Pids : q # p => late'[q] = late[q]
        <3>1. CASE BreaksOff(p)
            BY <1>1, <3>1, BrokenOff
        <3>2. CASE ~BreaksOff(p)
            BY <1>1, <1>3, <3>2, StageAfter, AtWork DEF RecordRoute, Advance
        <3>. QED BY <3>1, <3>2
    <2>4. pc'[p] = s
        BY <1>1, <2>3, AtWork DEF Goto
    <2>5. ~late[p] => Switched(p)'
        BY <1>1, <1>2, <1>4, <2>1, <2>3, AtWork DEF Switching, Switched, Kept, Serves, candidate
    <2>6. late[p] => (route.slot = prior[p])'
        BY <1>4, <2>1, <2>3 DEF Switching
    <2>7. s \in Busy => Known(p)'
        BY <1>2, <2>1, <2>3, <2>4, <2>5, <2>6 DEF Known, Before, Behind, Busy
    <2>8. s \in Names \ Untried
        BY <2>3, StagesAre DEF Names, Untried, Ended, Waiting
    <2>. QED BY <1>1, <2>2, <2>3, <2>7, <2>8, WorkKeeps
<1>. QED BY <1>3, <1>4 DEF RecordRoute

\* A slot that is not the routed one goes down, or goes on running unnoticed.
LEMMA RetiredApart ==
    ASSUME SafeInv, NEW slot \in Slots, retireSlot(slot), UNCHANGED <<proxyVars, releases>>
    PROVE  HostInv' /\ UNCHANGED <<caddy, route, runs, prepared>>
<1>1. /\ UNCHANGED <<caddy, route, runs, prepared, releases>> /\ slot # route.slot
      /\ loaded \ {slot} \subseteq loaded' /\ boot \ {slot} \subseteq boot'
      /\ unstopped' \subseteq unstopped \cup {slot}
    BY DEF retireSlot, launchdRetire, systemdRetire, proxyVars
<1>. QED BY <1>1 DEF SafeInv, WayInv, HostInv, Kept, Serves

LEMMA RetireKeeps == ASSUME SafeInv, NEW p \in Pids, Retire(p) PROVE WayInv'
<1>1. pc[p] = "retire" /\ pc[p] \in Stages /\ pc[p] \in Busy
    BY StagesAre DEF Retire, Busy, Behind
<1>2. /\ UNCHANGED <<proxyVars, releases, mode, rev, prior, late>>
      /\ retireSlot(prior[p]) /\ Advance(p)
    BY DEF Retire, Advance
<1>3. HostInv' /\ UNCHANGED <<caddy, route, runs, prepared>>
    BY <1>1, <1>2, AtWork, RetiredApart
<1>4. Known(p) /\ Switched(p) /\ ~late[p]
    BY <1>1 DEF SafeInv, WayInv, Known, Behind
<1>5. Goto(p, "retain") /\ pc'[p] = "retain"
    BY <1>1, <1>2, StageAfter, AtWork DEF Advance, Goto
<1>6. Known(p)'
    BY <1>2, <1>3, <1>4, <1>5 DEF Known, Switched, Before, Behind, candidate
<1>7. "retain" \in Names \ Untried
    BY StagesAre DEF Names, Untried, Ended, Waiting
<1>. QED BY <1>1, <1>2, <1>3, <1>5, <1>6, <1>7, WorkKeeps

LEMMA RetainKeeps == ASSUME SafeInv, NEW p \in Pids, retainArtifacts(p) PROVE WayInv'
<1>1. pc[p] = "retain" /\ pc[p] \in Stages /\ pc[p] \in Busy
    BY StagesAre DEF retainArtifacts, Busy
<1>2. /\ UNCHANGED <<caddy, route, boot, loaded, unstopped, runs, prepared, late>>
      /\ releases' = releases \cap {rev[p], route.prevRev} /\ Advance(p)
    BY DEF retainArtifacts, Advance, proxyVars, slotVars
<1>3. Known(p) /\ HostInv
    BY <1>1 DEF SafeInv, WayInv
<1>4. runs[route.slot] = rev[p]
    BY <1>1, <1>3 DEF Known
<1>5. HostInv'
    BY <1>2, <1>3, <1>4 DEF HostInv, Kept, Serves
<1>6. PICK s \in {"converge", "unlock"} : Goto(p, s)
    BY <1>1, <1>2, StageAfter, AtWork DEF Advance
<1>7. s \in Names \ Untried /\ s \notin Busy
    BY <1>6, StagesAre DEF Names, Untried, Ended, Waiting, Busy, Before, Behind
<1>. QED BY <1>1, <1>2, <1>5, <1>6, <1>7, WorkKeeps

LEMMA DiscardKeeps == ASSUME SafeInv, NEW p \in Pids, discardCandidate(p) PROVE WayInv'
<1>1. pc[p] = "discard" /\ pc[p] \in Stages /\ pc[p] \in Busy
    BY StagesAre DEF discardCandidate, Busy
<1>2. /\ UNCHANGED <<proxyVars, releases, mode, rev, prior, late>>
      /\ retireSlot(candidate(p)) /\ Goto(p, Recovery(p))
    BY DEF discardCandidate
<1>3. HostInv' /\ UNCHANGED <<caddy, route, runs, prepared>>
    BY <1>1, <1>2, AtWork, RetiredApart
<1>4. Known(p)
    BY <1>1 DEF SafeInv, WayInv
<1>5. PICK s \in {"erase", "unlock"} : Goto(p, s) /\ (s = "erase" => mode[p] = "compatibility")
    BY <1>1, <1>2, StageUndone, AtWork
<1>6. pc'[p] = s
    BY <1>1, <1>5, AtWork DEF Goto
<1>7. s = "erase" => Known(p)'
    BY <1>1, <1>2, <1>3, <1>4, <1>5, <1>6 DEF Known, Before, Behind
<1>8. s \in Names \ Untried /\ (s \in Busy => s = "erase")
    BY <1>5, StagesAre DEF Names, Untried, Ended, Waiting, Busy, Before, Behind
<1>. QED BY <1>1, <1>2, <1>3, <1>5, <1>7, <1>8, WorkKeeps

LEMMA EraseKeeps == ASSUME SafeInv, NEW p \in Pids, discardArtifact(p) PROVE WayInv'
<1>1. pc[p] = "erase" /\ pc[p] \in Stages /\ pc[p] \in Busy
    BY StagesAre DEF discardArtifact, Busy
<1>2. /\ UNCHANGED <<caddy, route, boot, loaded, unstopped, runs, prepared, late>>
      /\ releases' = releases \ {rev[p]}
    BY DEF discardArtifact, proxyVars, slotVars
<1>3. Goto(p, "unlock")
    BY <1>1, StageUndone, AtWork DEF discardArtifact
<1>4. Known(p) /\ HostInv
    BY <1>1 DEF SafeInv, WayInv
<1>5. runs[route.slot] # rev[p]
    BY <1>1, <1>4, AtWork DEF Known
<1>6. HostInv'
    BY <1>2, <1>4, <1>5 DEF HostInv, Kept, Serves
<1>7. "unlock" \in Names \ Untried /\ "unlock" \notin Busy
    BY StagesAre DEF Names, Untried, Ended, Waiting, Busy, Before, Behind
<1>. QED BY <1>1, <1>2, <1>3, <1>6, <1>7, WorkKeeps

\* A failure hands over to the recovery what its stage knew.
LEMMA FailKeeps ==
    ASSUME SafeInv, NEW p \in Pids, Fail(p) \/ (Drain(p) /\ Goto(p, Recovery(p)))
    PROVE  WayInv'
<1>1. /\ pc[p] \in {"preflight", "coalesce", "gates", "gate", "build", "migrate", "prepare",
                    "await", "verify", "promote", "prove", "drain"}
      /\ Goto(p, Recovery(p))
    BY DEF Fail, Drain, CompatibilityRecovery
<1>2. pc[p] \in Stages
    BY <1>1, StagesAre
<1>3. PICK s \in {"unlock", "erase", "discard", "recover", "rollback"} :
        /\ Goto(p, s)
        /\ s = "erase" => pc[p] \in {"build", "migrate"}
        /\ s = "discard" => pc[p] \in {"prepare", "await", "verify"}
        /\ s = "recover" => pc[p] = "promote"
        /\ s = "rollback" => pc[p] \in {"prove", "drain"}
    BY <1>1, <1>2, StageUndone, AtWork
<1>4. pc'[p] = s
    BY <1>2, <1>3, AtWork DEF Goto
<1>5. /\ UNCHANGED <<caddy, route, boot, loaded, unstopped, runs, prepared, mode, rev, prior>>
      /\ releases \subseteq releases'
    <2>1. CASE Fail(p)
        BY <2>1 DEF Fail, proxyVars, slotVars
    <2>2. CASE Drain(p) /\ Goto(p, Recovery(p))
        <3>1. mode' = mode /\ rev' = rev /\ prior' = prior
            BY <2>2 DEF Drain, Advance
        <3>. QED BY <2>2, <3>1 DEF Drain, hostVars, proxyVars, slotVars
    <2>. QED BY <2>1, <2>2
<1>6. late \in [Pids -> BOOLEAN]
    BY DEF SafeInv, TypeInv, ProcessTypes
<1>7. \A q \in Pids : q # p => late'[q] = late[q]
    BY <1>6 DEF Fail, Drain, Advance
<1>8. s \in {"recover", "rollback"} => late'[p]
    <2>1. CASE Fail(p)
        BY <1>3, <1>6, <2>1 DEF Fail, AttemptsActivation
    <2>2. CASE Drain(p) /\ Goto(p, Recovery(p))
        <3>1. pc[p] = "drain" /\ NextStage(p) = "retire"
            BY <1>2, <2>2, StageAfter, AtWork DEF Drain
        <3>2. pc'[p] # "retire"
            BY <1>3, <1>4
        <3>3. ~Advance(p)
            BY <1>2, <3>1, <3>2, AtWork DEF Advance, Goto
        <3>. QED BY <1>6, <2>2, <3>3 DEF Drain
    <2>. QED BY <2>1, <2>2
<1>9. HostInv'
    BY <1>5 DEF SafeInv, WayInv, HostInv, Kept, Serves
<1>10. ASSUME s \in Busy PROVE Known(p)'
    <2>1. pc[p] \in Busy
        BY <1>3, <1>10 DEF Busy, Before, Behind
    <2>2. Known(p)
        BY <2>1 DEF SafeInv, WayInv
    <2>3. s = "rollback" => Switched(p)'
        <3>1. s = "rollback" => Switched(p)
            BY <1>3, <2>2 DEF Known, Behind
        <3>. QED BY <1>5, <3>1 DEF Switched, Kept, Serves, candidate
    <2>4. s \in {"erase", "discard", "recover"} => route.slot = prior[p] /\ caddy = prior[p]
        BY <1>3, <2>2 DEF Known, Before
    <2>5. s = "erase" => mode[p] = "compatibility"
        BY <1>2, <1>3, <2>2, AtWork DEF Known
    <2>6. mode[p] = "compatibility" => rev[p] # runs[prior[p]]
        BY <2>2 DEF Known
    <2>7. s \in {"erase", "discard", "recover", "rollback"}
        BY <1>3, <1>10 DEF Busy, Before, Behind
    <2>. QED BY <1>4, <1>5, <1>8, <2>3, <2>4, <2>5, <2>6, <2>7 DEF Known, Before, Behind
<1>11. s \in Names \ Untried
    BY <1>3, StagesAre DEF Names, Untried, Ended, Waiting
<1>. QED BY <1>2, <1>3, <1>7, <1>9, <1>10, <1>11, WorkKeeps

LEMMA RecoverKeeps == ASSUME SafeInv, NEW p \in Pids, recoverActivation(p) PROVE WayInv'
<1>1. pc[p] = "recover" /\ pc[p] \in Stages /\ pc[p] \in Busy
    BY StagesAre DEF recoverActivation, Busy
<1>2. UNCHANGED wayVars /\ UNCHANGED <<mode, rev, prior, late>>
    BY DEF recoverActivation, hostVars, proxyVars, slotVars, wayVars
<1>3. Known(p) /\ late[p] /\ (route.slot = prior[p] \/ Switched(p))
    BY <1>1 DEF SafeInv, WayInv, Known
<1>4. PICK s \in {"rollback", "discard"} :
        /\ Goto(p, s)
        /\ route.slot = IF s = "rollback" THEN candidate(p) ELSE prior[p]
    BY DEF recoverActivation
<1>5. pc'[p] = s
    BY <1>1, <1>4, AtWork DEF Goto
<1>6. s = "rollback" => Switched(p)'
    <2>1. s = "rollback" => Switched(p)
        BY <1>1, <1>3, <1>4, AtWork
    <2>. QED BY <1>2, <2>1 DEF Switched, Kept, Serves, candidate, wayVars
<1>7. Known(p)'
    BY <1>2, <1>3, <1>4, <1>5, <1>6 DEF Known, Before, Behind, wayVars
<1>8. s \in Stages \ {"preflight"}
    BY <1>4, StagesAre
<1>. QED BY <1>1, <1>2, <1>4, <1>7, <1>8, QuietWork

\* A release that is done with the host, or waits for ever.
LEMMA LeavesKeeps ==
    ASSUME SafeInv, NEW p \in Pids, Coalesce(p) \/ FailCleanup(p) \/ FailRecovery(p) \/ convergeAfterDrain(p)
    PROVE  WayInv'
<1>1. /\ pc[p] \in {"coalesce", "drain", "retire", "retain", "converge", "recover", "rollback",
                    "discard", "erase"}
      /\ UNCHANGED wayVars /\ UNCHANGED late
    BY DEF Coalesce, FailCleanup, FailRecovery, convergeAfterDrain, convergeRelease, Finish,
        Advance, hostVars, proxyVars, slotVars, wayVars
<1>2. pc[p] \in Stages
    BY <1>1, StagesAre
<1>3. Goto(p, "unlock")
    BY <1>2, StageAfter, AtWork DEF Coalesce, FailCleanup, FailRecovery, convergeAfterDrain, Finish, Advance
<1>4. "unlock" \in Stages \ {"preflight"} /\ "unlock" \notin Busy
    BY StagesAre DEF Busy, Before, Behind
<1>. QED BY <1>1, <1>2, <1>3, <1>4, QuietWork

LEMMA LeaveWay ==
    ASSUME SafeInv, NEW Q \in SUBSET Pids, NEW point \in {"done", "hung"}, Leave(Q, point),
           UNCHANGED wayVars
    PROVE  WayInv'
<1>1. ASSUME NEW q \in Pids, q \in Q PROVE pc'[q] = point /\ ~late'[q]
    BY <1>1 DEF Leave
<1>2. ASSUME NEW q \in Pids, q \notin Q
      PROVE  /\ pc'[q] = pc[q] /\ mode'[q] = mode[q] /\ rev'[q] = rev[q]
             /\ prior'[q] = prior[q] /\ late'[q] = late[q]
    BY <1>2 DEF Leave
<1>3. point \notin Busy
    BY DEF Busy, Before, Behind
<1>. QED BY <1>1, <1>2, <1>3, ElsewhereKeeps

LEMMA EndWay == ASSUME SafeInv, NEW p \in Pids, End(p), UNCHANGED wayVars PROVE WayInv'
    BY LeaveWay DEF End, Forget

LEMMA StartWay == ASSUME SafeInv, NEW p \in Pids, Start(p) PROVE WayInv'
<1>1. pc[p] = "new" /\ UNCHANGED wayVars
    BY DEF Start, hostVars, proxyVars, slotVars, wayVars
<1>2. CASE End(p)
    BY <1>1, <1>2, EndWay
<1>3. CASE ~End(p)
    <2>1. /\ Goto(p, "lock") /\ late' = late /\ prior' = prior
          /\ \A q \in Pids : q # p => mode'[q] = mode[q] /\ rev'[q] = rev[q]
        BY <1>3 DEF Start, SafeInv, TypeInv, ProcessTypes
    <2>2. \A q \in Pids : pc'[q] = IF q = p THEN "lock" ELSE pc[q]
        BY <2>1 DEF Goto, SafeInv, TypeInv, ProcessTypes
    <2>3. "lock" \notin Busy /\ ~late[p]
        BY <1>1 DEF SafeInv, WayInv, Untried, Ended, Busy, Before, Behind
    <2>. QED BY <1>1, <2>1, <2>2, <2>3, ElsewhereKeeps
<1>. QED BY <1>2, <1>3

LEMMA LockingWay == ASSUME SafeInv, NEW p \in Pids, Locking(p) PROVE WayInv'
<1>1. UNCHANGED wayVars
    BY DEF Locking, MakeLock, MarkLock, FindLock, BreakLock, releaseLock, hostVars, proxyVars, slotVars,
        wayVars
<1>2. CASE End(p)
    BY <1>1, <1>2, EndWay
<1>3. CASE ~End(p)
    <2>1. PICK s \in {"mark", "preflight", "break", "retake"} :
            Goto(p, s) /\ UNCHANGED <<mode, rev, prior, late>> /\ pc[p] \in Waiting
        BY <1>3 DEF Locking, MakeLock, MarkLock, FindLock, BreakLock, releaseLock, Waiting
    <2>2. \A q \in Pids : pc'[q] = IF q = p THEN s ELSE pc[q]
        BY <2>1 DEF Goto, SafeInv, TypeInv, ProcessTypes
    <2>3. s \notin Busy /\ ~late[p]
        BY <2>1 DEF SafeInv, WayInv, Untried, Busy, Before, Behind
    <2>. QED BY <1>1, <2>1, <2>2, <2>3, ElsewhereKeeps
<1>. QED BY <1>2, <1>3

LEMMA KillWay == ASSUME SafeInv, NEW p \in Pids, Kill(p) \/ Hang(p) PROVE WayInv'
<1>1. UNCHANGED wayVars
    BY DEF Kill, Hang, hostVars, proxyVars, slotVars, wayVars
<1>. QED BY <1>1, LeaveWay DEF Kill, Hang, Forget

\* After a reboot the services that start with the host run, among them the recorded one.
LEMMA RebootWay == ASSUME SafeInv, Reboot PROVE WayInv'
<1>1. /\ loaded' = boot /\ unstopped' = {} /\ UNCHANGED <<route, boot, runs, prepared, releases>>
      /\ Leave({p \in Pids : Alive(p)}, "done")
    BY DEF Reboot, Forget
<1>2. ASSUME NEW q \in Pids PROVE pc'[q] \in Ended /\ ~late'[q]
    <2>1. CASE Alive(q)
        BY <1>1, <2>1 DEF Leave, Ended
    <2>2. CASE ~Alive(q)
        <3>1. pc'[q] = pc[q] /\ late'[q] = late[q] /\ pc[q] \in Ended
            BY <1>1, <2>2 DEF Leave, Alive
        <3>. QED BY <3>1 DEF SafeInv, WayInv, Untried
    <2>. QED BY <2>1, <2>2
<1>3. HostInv'
    BY <1>1 DEF SafeInv, WayInv, HostInv, Kept, Serves
<1>4. \A q \in Pids : pc'[q] \notin Busy
    BY <1>2, BusyStages DEF Untried
<1>. QED BY <1>2, <1>3, <1>4 DEF WayInv

LEMMA AroundWay == ASSUME SafeInv, Around PROVE WayInv'
<1>1. CASE Reboot
    BY <1>1, RebootWay
<1>2. CASE MoveMain \/ \E slot \in Slots : SlotDown(slot) \/ SlotUp(slot)
    <2>1. UNCHANGED wayVars /\ UNCHANGED processVars
        BY <1>2 DEF MoveMain, SlotDown, SlotUp, hostVars, proxyVars, slotVars, wayVars
    <2>. QED BY <2>1, ElsewhereKeeps DEF processVars
<1>3. ASSUME NEW slot \in Slots, OperatorRetire(slot) PROVE WayInv'
    <2>1. /\ retireSlot(slot) /\ UNCHANGED <<proxyVars, releases, processVars>>
          /\ \A p \in Pids : pc[p] \in Ended
        BY <1>3 DEF OperatorRetire, Alive
    <2>2. \A p \in Pids : pc[p] \notin Busy
        BY <2>1 DEF Ended, Busy, Before, Behind
    <2>3. HostInv'
        BY <2>1, RetiredApart
    <2>. QED BY <2>1, <2>2, <2>3 DEF SafeInv, WayInv, processVars
<1>. QED BY <1>1, <1>2, <1>3 DEF Around

LEMMA WayStep == ASSUME SafeInv, [Next]_vars PROVE WayInv'
<1>1. CASE UNCHANGED vars
    <2>1. UNCHANGED wayVars /\ UNCHANGED processVars
        BY <1>1 DEF vars, hostVars, proxyVars, slotVars, wayVars
    <2>. QED BY <2>1, ElsewhereKeeps DEF processVars
<1>2. ASSUME NEW p \in Pids, Start(p) \/ Step(p) \/ Hang(p) \/ Kill(p) PROVE WayInv'
    <2>1. CASE Start(p) \/ Kill(p) \/ Hang(p) \/ Locking(p)
        BY <2>1, StartWay, KillWay, LockingWay
    <2>2. CASE Proceed(p)
        <3>1. Drain(p) => (Drain(p) /\ Advance(p)) \/ (Drain(p) /\ Goto(p, Recovery(p)))
            BY DEF Drain
        <3>. QED BY <2>2, <3>1, PreflightKeeps, LeavesKeeps, GateWays, BuildKeeps, PrepareKeeps,
                AwaitKeeps, PromoteKeeps, InstallKeeps, RecordKeeps, FailKeeps, RetireKeeps,
                RetainKeeps DEF Proceed
    <2>3. CASE Recover(p)
        BY <2>3, FailKeeps, LeavesKeeps, RecoverKeeps, RollbackKeeps, DiscardKeeps, EraseKeeps DEF Recover
    <2>. QED BY <1>2, <2>1, <2>2, <2>3 DEF Step
<1>. QED BY <1>1, <1>2, AroundWay DEF Next

LEMMA WayInit == ASSUME Init PROVE WayInv
<1>1. \A p \in Pids : pc[p] = "new" /\ ~late[p]
    BY DEF Init
<1>2. "new" \notin Busy
    BY DEF Busy, Before, Behind
<1>3. HostInv
    BY DEF Init, HostInv, Kept, Serves, Slots
<1>. QED BY <1>1, <1>2, <1>3 DEF WayInv

\* Every step that is not the takeover of a lock in use keeps the invariant.
LEMMA SafeStep == ASSUME SafeInv, [Next]_vars, ~raced' PROVE SafeInv'
    BY LockStep, TypeStep, WayStep DEF SafeInv

LEMMA SafeInit == ASSUME Init PROVE SafeInv
    BY LockInit, TypeInit, WayInit DEF SafeInv

LEMMA SafeAlways == Spec => [](raced \/ SafeInv)
<1>1. Init => raced \/ SafeInv
    BY SafeInit
<1>2. (raced \/ SafeInv) /\ [Next]_vars => (raced \/ SafeInv)'
    BY SafeStep, RacedStays
<1>. QED BY <1>1, <1>2, PTL DEF Spec

\* Until a takeover removes a lock in use, the slot that state.json names is kept running
\* on an artifact that exists, wherever a promotion breaks off, and until the prior slot
\* is retired a rollback finds its way back (prepareSlot, promoteSlot, retireSlot,
\* retainArtifacts, recoverActivation).
THEOREM RollbackHasWayBack == Spec => []WayBack
<1>1. ASSUME SafeInv PROVE WayBack
    <2>1. Serves(route.slot)
        BY <1>1 DEF SafeInv, WayInv, HostInv, Kept
    <2>2. ASSUME NEW p \in Pids, pc[p] \in {"install", "record"} PROVE Serves(caddy)
        <3>1. Switching(p) /\ pc[p] \in Stages
            BY <1>1, <2>2, StagesAre DEF SafeInv, WayInv, Known, Busy
        <3>. QED BY <3>1 DEF Switching, Kept
    <2>3. ASSUME NEW p \in Pids, pc[p] \in {"prove", "drain", "retire", "rollback"}
          PROVE  caddy = route.slot /\ route.prevSlot = prior[p] /\ Serves(prior[p])
        BY <1>1, <2>3 DEF SafeInv, WayInv, Known, Busy, Behind, Switched, Kept
    <2>. QED BY <2>1, <2>2, <2>3 DEF WayBack
<1>2. raced => WayBack
    BY DEF WayBack
<1>. QED BY <1>1, <1>2, SafeAlways, PTL

-----------------------------------------------------------------------------
(* The promise to users.  The slot that state.json names changes with the  *)
(* record of a switch or of the way back only, for the one that runs       *)
(* beside it.                                                              *)

Served == IF route.slot \in loaded THEN runs[route.slot] ELSE NoRevision
Standby == IF Other(route.slot) \in loaded THEN runs[Other(route.slot)] ELSE NoRevision

LEMMA ServedValues ==
    ASSUME SafeInv
    PROVE  /\ Served = runs[route.slot] /\ Served \in Revisions
           /\ Standby \in Revisions \cup {NoRevision}
<1>1. route.slot \in Slots /\ Other(route.slot) \in Slots /\ runs \in [Slots -> Revisions]
    BY OtherSlot DEF SafeInv, TypeInv, HostTypes, Route
<1>2. route.slot \in loaded
    BY DEF SafeInv, WayInv, HostInv, Kept, Serves
<1>. QED BY <1>1, <1>2 DEF Served, Standby

\* What happens beside the slot served only changes what stands by.
LEMMA BesideServed ==
    ASSUME SafeInv, SafeInv', route' = route, runs'[route.slot] = runs[route.slot]
    PROVE  Contract!Next
<1>1. Served' = Served
    <2>1. Served = runs[route.slot]
        BY ServedValues
    <2>2. (route.slot)' \in loaded'
        BY DEF SafeInv, WayInv, HostInv, Kept, Serves
    <2>. QED BY <2>1, <2>2 DEF Served
<1>2. Standby' \in Revisions \cup {NoRevision}
    <2>1. route'.slot \in Slots /\ runs' \in [Slots -> Revisions]
        BY DEF SafeInv, TypeInv, HostTypes, Route
    <2>2. Other(route'.slot) \in Slots
        BY <2>1, OtherSlot
    <2>. QED BY <2>1, <2>2 DEF Standby
<1>3. CASE Standby' = NoRevision
    BY <1>1, <1>3 DEF Contract!Next, Contract!Withdraw, Served, Standby
<1>4. CASE Standby' \in Revisions
    BY <1>1, <1>4 DEF Contract!Next, Contract!Offer, Served, Standby
<1>. QED BY <1>2, <1>3, <1>4

\* The record of a switch exchanges two slots that both run.
LEMMA RecordExchanges ==
    ASSUME SafeInv, NEW p \in Pids, RecordRoute(p), route' # route
    PROVE  Contract!Next
<1>1. pc[p] = "record" /\ pc[p] \in Stages /\ pc[p] \in Busy
    BY StagesAre DEF RecordRoute, Busy
<1>2. Switching(p) /\ Kept(caddy)
    BY <1>1, AtWork DEF SafeInv, WayInv, Known, Switching
<1>3. UNCHANGED <<loaded, runs>> /\ (route.slot)' = caddy
    BY DEF RecordRoute, slotVars
<1>4. /\ caddy \in Slots /\ route.slot = Other(caddy) /\ Other(route.slot) = caddy
      /\ caddy \in loaded /\ runs \in [Slots -> Revisions]
    BY <1>1, <1>2, AtWork, OtherSlot DEF Switching, Kept, Serves, SafeInv, TypeInv, HostTypes
<1>5. Served = runs[route.slot] /\ route.slot \in loaded
    BY ServedValues DEF SafeInv, WayInv, HostInv, Kept, Serves
<1>6. Standby = runs[caddy] /\ Standby # NoRevision
    BY <1>4, ReleaseAssumption DEF Standby, Revisions
<1>7. Served' = Standby
    BY <1>3, <1>4, <1>6 DEF Served
<1>8. Standby' = Served
    BY <1>3, <1>4, <1>5 DEF Standby
<1>. QED BY <1>6, <1>7, <1>8 DEF Contract!Next, Contract!Exchange, Served, Standby

LEMMA OnlyRecords ==
    ASSUME [Next]_vars
    PROVE  route' = route \/ \E p \in Pids : RecordRoute(p)
<1>1. ASSUME NEW p \in Pids, Start(p) \/ Step(p) \/ Hang(p) \/ Kill(p), ~RecordRoute(p)
      PROVE  route' = route
    <2>1. CASE Start(p) \/ Hang(p) \/ Kill(p) \/ Locking(p)
        BY <2>1 DEF Start, Hang, Kill, Locking, MakeLock, MarkLock, FindLock, BreakLock, releaseLock,
            hostVars, proxyVars
    <2>2. CASE Proceed(p)
        BY <1>1, <2>2 DEF Proceed, Preflight, experiencePreflight, Coalesce, BeginGate, EndGate,
            Build, proveMigration, prepareCandidate, AwaitCandidate, verifyCandidateRevision,
            Promote, promoteSlot, InstallConfig, proveRouted, Drain, Retire, retainArtifacts,
            convergeAfterDrain, hostVars, proxyVars
    <2>3. CASE Recover(p)
        BY <2>3 DEF Recover, Fail, FailCleanup, FailRecovery, recoverActivation, Rollback,
            promoteSlot, discardCandidate, discardArtifact, hostVars, proxyVars
    <2>. QED BY <1>1, <2>1, <2>2, <2>3 DEF Step
<1>2. CASE Around \/ UNCHANGED vars
    BY <1>2 DEF Around, MoveMain, Reboot, SlotDown, SlotUp, OperatorRetire, vars, hostVars, proxyVars
<1>. QED BY <1>1, <1>2 DEF Next

LEMMA OnlyPrepares ==
    ASSUME [Next]_vars
    PROVE  runs' = runs \/ \E p \in Pids : prepareCandidate(p)
<1>1. ASSUME NEW p \in Pids, Start(p) \/ Step(p) \/ Hang(p) \/ Kill(p), ~prepareCandidate(p)
      PROVE  runs' = runs
    <2>1. CASE Start(p) \/ Hang(p) \/ Kill(p) \/ Locking(p)
        BY <2>1 DEF Start, Hang, Kill, Locking, MakeLock, MarkLock, FindLock, BreakLock, releaseLock,
            hostVars, slotVars
    <2>2. CASE Proceed(p)
        BY <1>1, <2>2 DEF Proceed, Preflight, experiencePreflight, Coalesce, BeginGate, EndGate,
            Build, proveMigration, AwaitCandidate, verifyCandidateRevision, Promote, promoteSlot,
            InstallConfig, RecordRoute, proveRouted, Drain, Retire, retireSlot, retainArtifacts,
            convergeAfterDrain, hostVars, slotVars
    <2>3. CASE Recover(p)
        BY <2>3 DEF Recover, Fail, FailCleanup, FailRecovery, recoverActivation, Rollback,
            promoteSlot, discardCandidate, retireSlot, discardArtifact, hostVars, slotVars
    <2>. QED BY <1>1, <2>1, <2>2, <2>3 DEF Step
<1>2. CASE Around \/ UNCHANGED vars
    BY <1>2 DEF Around, MoveMain, SlotDown, SlotUp, OperatorRetire, retireSlot, Reboot, vars,
        hostVars, slotVars
<1>. QED BY <1>1, <1>2 DEF Next

LEMMA ServesStep == ASSUME SafeInv, SafeInv', [Next]_vars PROVE Contract!Next
<1>1. CASE route' = route
    <2>1. CASE runs' = runs
        BY <1>1, <2>1, BesideServed
    <2>2. ASSUME NEW p \in Pids, prepareCandidate(p) PROVE Contract!Next
        <3>1. pc[p] \in Before /\ runs' = [runs EXCEPT ![candidate(p)] = rev[p]]
            BY <2>2 DEF prepareCandidate, Before, prepareSlot, installSlotService
        <3>2. route.slot = prior[p] /\ candidate(p) # prior[p]
            BY <3>1, CandidateApart
        <3>3. runs'[route.slot] = runs[route.slot]
            BY <3>1, <3>2 DEF SafeInv, TypeInv, HostTypes, Route
        <3>. QED BY <1>1, <3>3, BesideServed
    <2>. QED BY <2>1, <2>2, OnlyPrepares
<1>2. CASE route' # route
    BY <1>2, RecordExchanges, OnlyRecords
<1>. QED BY <1>1, <1>2

LEMMA ServesInit == ASSUME Init PROVE Contract!Init
    BY SafeInit, ServedValues DEF Contract!Init, Served, Standby

\* The release tools keep the promise to users as far as the host's record goes: the slot
\* that state.json names serves one revision through failures, torn promotions, killed
\* releases and reboots, and the record only ever exchanges it with the one that runs
\* beside it, until a takeover removes a lock in use (promoteSlot, prepareSlot, retireSlot).
THEOREM ReleaseServes == Spec => ServesContract
<1>1. (raced \/ SafeInv) /\ (raced \/ SafeInv)' /\ [Next]_vars =>
        [Contract!Next \/ raced']_Contract!vars
    BY ServesStep, RacedStays
<1>. QED BY <1>1, ServesInit, SafeAlways, PTL DEF Spec, ServesContract

-----------------------------------------------------------------------------
(* The report.  What a release knows of the end it comes to.                *)

Informed(p) ==
    /\ pc[p] # "unlock" => verdict[p] # "passed"
    /\ pc[p] \in Untried \cup {"coalesce"} => gate[p] = 0
    /\ pc[p] \in {"retain", "converge"} => Alone
    /\ pc[p] = "converge" => caddy = candidate(p) /\ route.slot = caddy /\ runs[caddy] = rev[p]
    /\ pc[p] \in {"discard", "erase"} /\ verdict[p] = "rolled-back" => caddy = prior[p]
    /\ pc[p] = "erase" /\ verdict[p] = "rolled-back" => Alone
    /\ Reported(p)

ReportInv == \A p \in Pids : Informed(p)

\* A step of the release at work: only its own end is to be shown.
LEMMA WorkReports ==
    ASSUME SafeInv, ReportInv, NEW p \in Pids, pc[p] \in Stages, NEW s \in Names, Goto(p, s),
           \A q \in Pids : q # p => gate'[q] = gate[q] /\ verdict'[q] = verdict[q],
           Informed(p)'
    PROVE  ReportInv'
<1>1. ASSUME NEW q \in Pids, q # p PROVE Informed(q)'
    <2>1. pc'[q] = pc[q] /\ pc[q] \notin Stages
        BY <1>1, AtWork DEF Goto
    <2>2. pc'[q] \notin {"unlock", "coalesce", "retain", "converge", "discard", "erase"}
        BY <2>1, StagesAre
    <2>3. Informed(q)
        BY DEF ReportInv
    <2>. QED BY <1>1, <2>1, <2>2, <2>3 DEF Informed, Reported
<1>. QED BY <1>1 DEF ReportInv

Quiet == Names \ (Untried \cup {"coalesce", "retain", "converge", "erase", "unlock"})

\* A step to a stage that asks for nothing of the end, or where a rollback begins to
\* clean up.
LEMMA QuietReports ==
    ASSUME SafeInv, ReportInv, NEW p \in Pids, pc[p] \in Stages, NEW s \in Quiet, Goto(p, s),
           \A q \in Pids : q # p => gate'[q] = gate[q] /\ verdict'[q] = verdict[q],
           verdict'[p] # "passed",
           s = "discard" => verdict'[p] # "rolled-back" \/ caddy' = prior'[p]
    PROVE  ReportInv'
<1>1. pc'[p] = s /\ s \in Names
    BY AtWork DEF Goto, Quiet
<1>2. Informed(p)'
    BY <1>1 DEF Informed, Reported, Quiet
<1>. QED BY <1>1, <1>2, WorkReports

LEMMA QuietStages ==
    {"gates", "gate", "build", "migrate", "prepare", "await", "verify", "promote", "install",
     "record", "prove", "drain", "retire", "recover", "rollback", "discard"} \subseteq Quiet
    BY StagesAre DEF Quiet, Names, Untried, Ended, Waiting

\* A verdict is written in its own row.
LEMMA ReportRow ==
    ASSUME SafeInv, NEW p \in Pids, NEW v, Report(p, v)
    PROVE  verdict'[p] = v /\ \A q \in Pids : q # p => verdict'[q] = verdict[q]
    BY DEF Report, SafeInv, TypeInv, ProcessTypes

LEMMA AdvanceReports ==
    ASSUME SafeInv, ReportInv, NEW p \in Pids, Advance(p),
           pc[p] \in {"build", "migrate", "prepare", "await", "verify", "promote", "install",
                      "record", "prove", "drain"}
    PROVE  ReportInv'
<1>1. pc[p] \in Stages
    BY StagesAre
<1>2. NextStage(p) \in Quiet /\ NextStage(p) \notin {"unlock", "discard"}
    BY <1>1, StageAfter, AtWork, QuietStages
<1>3. Report(p, verdict[p]) /\ Goto(p, NextStage(p)) /\ gate' = gate
    BY <1>2 DEF Advance
<1>4. verdict[p] # "passed"
    BY DEF ReportInv, Informed
<1>. QED BY <1>1, <1>2, <1>3, <1>4, ReportRow, QuietReports

LEMMA FinishReports ==
    ASSUME SafeInv, ReportInv, NEW p \in Pids, pc[p] \in Stages,
           NEW v \in {"coalesced", "cleanup", "recover-route"}, Finish(p, v)
    PROVE  ReportInv'
<1>1. pc'[p] = "unlock" /\ gate' = gate /\ "unlock" \in Names
    BY AtWork, StagesAre DEF Finish, Goto, Names
<1>2. verdict'[p] = v /\ \A q \in Pids : q # p => verdict'[q] = verdict[q]
    BY ReportRow DEF Finish
<1>3. Informed(p)'
    BY <1>1, <1>2 DEF Informed, Reported, Untried, Ended, Waiting
<1>. QED BY <1>1, <1>2, <1>3, WorkReports DEF Finish

\* The stages before the promotion is recorded.
LEMMA EarlyReports ==
    ASSUME SafeInv, ReportInv, NEW p \in Pids,
           \/ Preflight(p) \/ experiencePreflight(p) \/ BeginGate(p) \/ EndGate(p) \/ Build(p)
           \/ proveMigration(p) \/ prepareCandidate(p) \/ AwaitCandidate(p)
           \/ verifyCandidateRevision(p) \/ Promote(p) \/ Rollback(p) \/ proveRouted(p)
    PROVE  ReportInv'
<1>0. verdict[p] # "passed" \/ pc[p] = "unlock"
    BY DEF ReportInv, Informed
<1>1. CASE Preflight(p) \/ experiencePreflight(p)
    <2>1. pc[p] = "preflight" /\ pc[p] \in Stages /\ verdict' = verdict /\ gate' = gate
        BY <1>1, StagesAre DEF Preflight, experiencePreflight
    <2>2. PICK s \in {"coalesce", "gates"} : Goto(p, s)
        BY <1>1 DEF Preflight, experiencePreflight
    <2>3. pc'[p] = s /\ s \in Names
        BY <2>1, <2>2, AtWork, StagesAre DEF Goto, Names
    <2>4. gate[p] = 0
        BY <2>1 DEF ReportInv, Informed, Untried
    <2>5. Informed(p)'
        BY <1>0, <2>1, <2>2, <2>3, <2>4 DEF Informed, Reported, Untried, Ended, Waiting
    <2>. QED BY <2>1, <2>2, <2>3, <2>5, WorkReports
<1>2. CASE BeginGate(p) \/ EndGate(p)
    <2>1. pc[p] \in {"gates", "gate"} /\ pc[p] \in Stages /\ verdict' = verdict
        BY <1>2, StagesAre DEF BeginGate, EndGate
    <2>2. PICK s \in {"gates", "gate", "build", "prepare"} : Goto(p, s)
        BY <1>2, <2>1, StageAfter, AtWork DEF BeginGate, EndGate
    <2>3. s \in Quiet
        BY <2>2, QuietStages
    <2>4. \A q \in Pids : q # p => gate'[q] = gate[q]
        BY <1>2 DEF BeginGate, EndGate, SafeInv, TypeInv, ProcessTypes
    <2>. QED BY <1>0, <2>1, <2>2, <2>3, <2>4, QuietReports
<1>3. CASE Build(p) \/ proveMigration(p) \/ AwaitCandidate(p) \/ verifyCandidateRevision(p)
           \/ Promote(p) \/ proveRouted(p)
    BY <1>3, AdvanceReports DEF Build, proveMigration, AwaitCandidate, verifyCandidateRevision,
        Promote, proveRouted
<1>4. CASE prepareCandidate(p)
    <2>1. CASE Advance(p)
        BY <1>4, <2>1, AdvanceReports DEF prepareCandidate
    <2>2. CASE ~Advance(p)
        <3>1. /\ pc[p] \in Stages /\ Goto(p, "discard") /\ Report(p, "stopped") /\ gate' = gate
            BY <1>4, <2>2, StagesAre DEF prepareCandidate
        <3>. QED BY <3>1, ReportRow, QuietStages, QuietReports
    <2>. QED BY <2>1, <2>2
<1>5. CASE Rollback(p)
    <2>1. pc[p] = "rollback" /\ pc[p] \in Stages /\ verdict' = verdict /\ gate' = gate /\ Goto(p, "install")
        BY <1>5, StagesAre DEF Rollback
    <2>. QED BY <1>0, <2>1, QuietStages, QuietReports
<1>. QED BY <1>1, <1>2, <1>3, <1>4, <1>5

LEMMA BreaksOffReports ==
    ASSUME SafeInv, ReportInv, NEW p \in Pids, pc[p] \in Stages, BreaksOff(p)
    PROVE  ReportInv'
<1>1. CASE Finish(p, "recover-route")
    BY <1>1, FinishReports
<1>2. CASE Goto(p, "recover") /\ Report(p, "stopped") /\ gate' = gate
    BY <1>2, ReportRow, QuietStages, QuietReports
<1>. QED BY <1>1, <1>2 DEF BreaksOff

LEMMA RecordReports ==
    ASSUME SafeInv, ReportInv, NEW p \in Pids, InstallConfig(p) \/ RecordRoute(p)
    PROVE  ReportInv'
<1>1. pc[p] \in {"install", "record"} /\ pc[p] \in Stages
    BY StagesAre DEF InstallConfig, RecordRoute
<1>2. verdict[p] # "passed"
    BY <1>1 DEF ReportInv, Informed
<1>3. CASE Advance(p) \/ BreaksOff(p)
    BY <1>1, <1>3, AdvanceReports, BreaksOffReports
<1>4. CASE ~(Advance(p) \/ BreaksOff(p))
    <2>1. /\ pc[p] = "record" /\ late[p] /\ Goto(p, "discard")
          /\ UNCHANGED <<gate, verdict, caddy, prior>>
        BY <1>4 DEF InstallConfig, RecordRoute
    <2>2. caddy = prior[p]
        BY <2>1 DEF SafeInv, WayInv, Known, Busy, Switching
    <2>3. caddy' = prior'[p]
        BY <2>1, <2>2
    <2>. QED BY <1>1, <1>2, <2>1, <2>3, QuietStages, QuietReports
<1>. QED BY <1>3, <1>4

LEMMA DrainReports ==
    ASSUME SafeInv, ReportInv, NEW p \in Pids, Drain(p) \/ recoverActivation(p)
    PROVE  ReportInv'
<1>1. CASE Drain(p) /\ Advance(p)
    BY <1>1, AdvanceReports DEF Drain
<1>2. CASE Drain(p) /\ ~Advance(p)
    <2>1. pc[p] \in Stages /\ Recovery(p) = "rollback"
        BY <1>2, StagesAre, StageUndone, AtWork DEF Drain
    <2>2. Goto(p, "rollback") /\ Report(p, "rolled-back") /\ gate' = gate
        BY <1>2, <2>1 DEF Drain
    <2>. QED BY <2>1, <2>2, ReportRow, QuietStages, QuietReports
<1>3. CASE recoverActivation(p)
    <2>1. pc[p] \in Stages /\ gate' = gate
        BY <1>3, StagesAre DEF recoverActivation
    <2>2. PICK s \in {"rollback", "discard"}, v \in {"rolled-back", "stopped"} :
            Goto(p, s) /\ Report(p, v) /\ (s = "discard" => v = "stopped")
        BY <1>3 DEF recoverActivation
    <2>3. s \in Quiet
        BY <2>2, QuietStages
    <2>. QED BY <2>1, <2>2, <2>3, ReportRow, QuietReports
<1>. QED BY <1>1, <1>2, <1>3

\* The two slots are all there is: when the other one has been told to stop, the slot
\* served is the only one that was not.
LEMMA LeftAlone ==
    ASSUME SafeInv, NEW slot \in Slots, slot # caddy, retireSlot(slot), route.slot = caddy,
           UNCHANGED <<proxyVars, releases>>
    PROVE  Alone'
<1>1. caddy' = caddy /\ loaded' \ unstopped' = (loaded \ unstopped) \ {slot}
    BY DEF retireSlot, proxyVars
<1>2. loaded \subseteq Slots /\ caddy \in Slots /\ caddy \in loaded \ unstopped
    BY DEF SafeInv, TypeInv, HostTypes, WayInv, HostInv, Kept, Serves
<1>3. \A x \in Slots : x = slot \/ x = caddy
    BY <1>2 DEF Slots
<1>4. \A x : x \in loaded' \ unstopped' <=> x = caddy
    BY <1>1, <1>2, <1>3
<1>. QED BY <1>1, <1>4 DEF Alone

LEMMA RetireReports == ASSUME SafeInv, ReportInv, NEW p \in Pids, Retire(p) PROVE ReportInv'
<1>1. pc[p] = "retire" /\ pc[p] \in Stages /\ pc[p] \in Busy
    BY StagesAre DEF Retire, Busy, Behind
<1>2. NextStage(p) = "retain"
    BY <1>1, StageAfter, AtWork
<1>3. pc'[p] = "retain" /\ Goto(p, "retain") /\ Report(p, verdict[p]) /\ gate' = gate
    BY <1>1, <1>2, AtWork DEF Retire, Advance, Goto
<1>4. Switched(p)
    BY <1>1 DEF SafeInv, WayInv, Known, Behind
<1>5. Alone'
    BY <1>1, <1>4, AtWork, LeftAlone DEF Retire, Switched
<1>6. verdict[p] # "passed"
    BY <1>1 DEF ReportInv, Informed
<1>7. Informed(p)'
    BY <1>3, <1>5, <1>6, ReportRow DEF Informed, Reported, Untried, Ended, Waiting
<1>8. "retain" \in Names
    BY StagesAre DEF Names
<1>. QED BY <1>1, <1>3, <1>7, <1>8, ReportRow, WorkReports

LEMMA RetainReports == ASSUME SafeInv, ReportInv, NEW p \in Pids, retainArtifacts(p) PROVE ReportInv'
<1>1. pc[p] = "retain" /\ pc[p] \in Stages /\ pc[p] \in Busy
    BY StagesAre DEF retainArtifacts, Busy
<1>2. UNCHANGED <<caddy, route, loaded, unstopped, runs, mode, rev, prior, gate>> /\ Advance(p)
    BY DEF retainArtifacts, Advance, proxyVars, slotVars
<1>3. Known(p) /\ runs[route.slot] = route.rev
    BY <1>1 DEF SafeInv, WayInv, HostInv
<1>4. Alone /\ verdict[p] # "passed"
    BY <1>1 DEF ReportInv, Informed
<1>5. caddy = candidate(p) /\ route.slot = caddy /\ runs[caddy] = rev[p] /\ route.rev = rev[p]
    BY <1>1, <1>3, AtWork DEF Known
<1>6. CASE mode[p] = "compatibility"
    <2>1. pc'[p] = "converge" /\ Goto(p, "converge") /\ Report(p, verdict[p]) /\ "converge" \in Names
        BY <1>1, <1>2, <1>6, StageAfter, AtWork, StagesAre DEF Advance, Goto, Names
    <2>2. Informed(p)'
        BY <1>2, <1>4, <1>5, <2>1, ReportRow DEF Informed, Reported, Alone, Untried, Ended, Waiting, candidate
    <2>. QED BY <1>1, <1>2, <2>1, <2>2, ReportRow, WorkReports
<1>7. CASE mode[p] = "experience"
    <2>1. pc'[p] = "unlock" /\ Goto(p, "unlock") /\ Report(p, "passed") /\ "unlock" \in Names
        BY <1>1, <1>2, <1>7, StageAfter, AtWork, StagesAre DEF Advance, Goto, Names
    <2>2. verdict'[p] = "passed"
        BY <2>1, ReportRow
    <2>3. /\ caddy' = candidate(p)' /\ (route.slot = caddy)' /\ (route.rev = rev[p])'
          /\ Alone' /\ mode'[p] # "compatibility"
        BY <1>2, <1>4, <1>5, <1>7 DEF Alone, candidate
    <2>4. Informed(p)'
        BY <2>1, <2>2, <2>3 DEF Informed, Reported, Untried, Ended, Waiting
    <2>. QED BY <1>1, <1>2, <2>1, <2>4, ReportRow, WorkReports
<1>. QED BY <1>1, <1>6, <1>7, AtWork

LEMMA ConvergeReports == ASSUME SafeInv, ReportInv, NEW p \in Pids, convergeAfterDrain(p) PROVE ReportInv'
<1>1. pc[p] = "converge" /\ pc[p] \in Stages
    BY StagesAre DEF convergeAfterDrain
<1>2. /\ UNCHANGED <<caddy, route, loaded, unstopped, runs, mode, rev, prior, gate>> /\ Advance(p)
      /\ rev[p] \in converged'
    BY DEF convergeAfterDrain, convergeRelease, Advance, proxyVars, slotVars
<1>3. Alone /\ caddy = candidate(p) /\ route.slot = caddy /\ runs[caddy] = rev[p]
    BY <1>1 DEF ReportInv, Informed
<1>4. route.rev = rev[p]
    BY <1>3 DEF SafeInv, WayInv, HostInv
<1>5. pc'[p] = "unlock" /\ Goto(p, "unlock") /\ Report(p, "passed") /\ "unlock" \in Names
    BY <1>1, <1>2, StageAfter, AtWork, StagesAre DEF Advance, Goto, Names
<1>6. verdict'[p] = "passed"
    BY <1>5, ReportRow
<1>7. /\ caddy' = candidate(p)' /\ (route.slot = caddy)' /\ (route.rev = rev[p])'
      /\ Alone' /\ (rev[p] \in converged)'
    BY <1>2, <1>3, <1>4 DEF Alone, candidate
<1>8. Informed(p)'
    BY <1>5, <1>6, <1>7 DEF Informed, Reported, Untried, Ended, Waiting
<1>. QED BY <1>1, <1>2, <1>5, <1>8, ReportRow, WorkReports

\* What a rollback ends in: the prior slot is routed and the candidate was told to stop.
LEMMA DiscardReports == ASSUME SafeInv, ReportInv, NEW p \in Pids, discardCandidate(p) PROVE ReportInv'
<1>1. pc[p] = "discard" /\ pc[p] \in Stages /\ pc[p] \in Busy
    BY StagesAre DEF discardCandidate, Busy
<1>2. /\ UNCHANGED <<caddy, route, proxyVars, releases, mode, rev, prior, gate, late, verdict>>
      /\ retireSlot(candidate(p)) /\ Goto(p, Recovery(p))
    BY DEF discardCandidate, proxyVars
<1>3. /\ route.slot = prior[p] /\ candidate(p) \in Slots /\ candidate(p) # prior[p]
      /\ ~late[p] => caddy = prior[p]
    BY <1>1, AtWork DEF SafeInv, WayInv, Known
<1>4. verdict[p] # "passed" /\ (verdict[p] = "rolled-back" => caddy = prior[p])
    BY <1>1 DEF ReportInv, Informed
<1>5. caddy = prior[p] => Alone'
    BY <1>2, <1>3, LeftAlone
<1>6. PICK s \in {"erase", "unlock"} : Goto(p, s) /\ (s = "unlock" => mode[p] = "experience")
    BY <1>1, <1>2, StageUndone, AtWork
<1>7. pc'[p] = s /\ s \in Names
    BY <1>1, <1>6, AtWork, StagesAre DEF Goto, Names
<1>8. /\ (route.slot = prior[p])' /\ (~late'[p] => caddy' = prior'[p])
      /\ verdict'[p] # "passed" /\ (verdict'[p] = "rolled-back" => caddy' = prior'[p] /\ Alone')
      /\ s = "unlock" => mode'[p] # "compatibility"
    BY <1>2, <1>3, <1>4, <1>5, <1>6
<1>9. Informed(p)'
    BY <1>6, <1>7, <1>8 DEF Informed, Reported, Untried, Ended, Waiting
<1>. QED BY <1>1, <1>2, <1>6, <1>7, <1>9, WorkReports

LEMMA EraseReports == ASSUME SafeInv, ReportInv, NEW p \in Pids, discardArtifact(p) PROVE ReportInv'
<1>1. pc[p] = "erase" /\ pc[p] \in Stages /\ pc[p] \in Busy
    BY StagesAre DEF discardArtifact, Busy
<1>2. /\ UNCHANGED <<caddy, route, loaded, unstopped, mode, rev, prior, gate, late, verdict>>
      /\ releases' = releases \ {rev[p]}
    BY DEF discardArtifact, proxyVars, slotVars
<1>3. route.slot = prior[p] /\ (~late[p] => caddy = prior[p])
    BY <1>1 DEF SafeInv, WayInv, Known
<1>4. verdict[p] # "passed" /\ (verdict[p] = "rolled-back" => Alone /\ caddy = prior[p])
    BY <1>1 DEF ReportInv, Informed
<1>5. pc'[p] = "unlock" /\ Goto(p, "unlock") /\ "unlock" \in Names
    BY <1>1, StageUndone, AtWork, StagesAre DEF discardArtifact, Goto, Names
<1>6. /\ (route.slot = prior[p])' /\ (~late'[p] => caddy' = prior'[p]) /\ (rev[p] \notin releases)'
      /\ verdict'[p] # "passed" /\ (verdict'[p] = "rolled-back" => Alone' /\ caddy' = prior'[p])
    BY <1>2, <1>3, <1>4 DEF Alone
<1>7. Informed(p)'
    BY <1>5, <1>6 DEF Informed, Reported, Untried, Ended, Waiting
<1>. QED BY <1>1, <1>2, <1>5, <1>7, WorkReports

LEMMA FailReports == ASSUME SafeInv, ReportInv, NEW p \in Pids, Fail(p) PROVE ReportInv'
<1>1. /\ pc[p] \in {"preflight", "coalesce", "gates", "gate", "build", "migrate", "prepare",
                    "await", "verify", "promote", "prove"}
      /\ Goto(p, Recovery(p))
      /\ UNCHANGED <<caddy, route, loaded, unstopped, mode, rev, prior, gate>>
    BY DEF Fail, CompatibilityRecovery, proxyVars, slotVars
<1>2. pc[p] \in Stages
    BY <1>1, StagesAre
<1>3. PICK v \in FailureVerdicts(pc[p]) : Report(p, v)
    BY DEF Fail
<1>4. v \in {"stopped", "deferred", "rolled-back"} /\ (pc[p] # "prove" => v # "rolled-back")
    BY <1>3 DEF FailureVerdicts
<1>5. verdict'[p] = v
    BY <1>3, ReportRow
<1>6. CASE pc[p] \in {"preflight", "coalesce", "gates", "gate"}
    <2>1. pc'[p] = "unlock" /\ Goto(p, "unlock") /\ "unlock" \in Names
        BY <1>1, <1>2, <1>6, StageUndone, AtWork, StagesAre DEF Goto, Names
    <2>2. gate[p] > 0 => caddy = prior[p] /\ route.slot = prior[p]
        <3>1. pc[p] \in {"preflight", "coalesce"} => gate[p] = 0
            BY DEF ReportInv, Informed, Untried
        <3>2. pc[p] \in {"gates", "gate"} => caddy = prior[p] /\ route.slot = prior[p]
            BY CandidateApart DEF Before
        <3>. QED BY <1>6, <3>1, <3>2
    <2>3. (gate[p] > 0)' => caddy' = prior'[p] /\ (route.slot = prior[p])'
        BY <1>1, <2>2
    <2>4. Informed(p)'
        BY <1>4, <1>5, <1>6, <2>1, <2>3 DEF Informed, Reported, Untried, Ended, Waiting
    <2>. QED BY <1>1, <1>2, <1>3, <2>1, <2>4, ReportRow, WorkReports
<1>7. CASE pc[p] \in {"build", "migrate"}
    <2>1. pc'[p] = "erase" /\ Goto(p, "erase") /\ "erase" \in Names
        BY <1>1, <1>2, <1>7, StageUndone, AtWork, StagesAre DEF Goto, Names
    <2>2. Informed(p)'
        BY <1>4, <1>5, <1>7, <2>1 DEF Informed, Reported, Untried, Ended, Waiting
    <2>. QED BY <1>1, <1>2, <1>3, <2>1, <2>2, ReportRow, WorkReports
<1>8. CASE pc[p] \in {"prepare", "await", "verify", "promote", "prove"}
    <2>1. PICK s \in {"discard", "recover", "rollback"} : Goto(p, s)
        BY <1>1, <1>2, <1>8, StageUndone, AtWork
    <2>2. s = "discard" => pc[p] # "prove"
        BY <1>1, <1>2, <2>1, StageUndone, AtWork DEF Goto
    <2>. QED BY <1>1, <1>2, <1>3, <1>4, <1>5, <2>1, <2>2, ReportRow, QuietStages, QuietReports
<1>. QED BY <1>1, <1>6, <1>7, <1>8

\* Steps that leave what a report is about alone, and every release where it was or away
\* from the host.
LEMMA ElsewhereReports ==
    ASSUME ReportInv,
           \A q \in Pids :
              \/ /\ UNCHANGED <<caddy, route, loaded, unstopped, runs, releases, converged>>
                 /\ pc'[q] = pc[q] /\ mode'[q] = mode[q] /\ rev'[q] = rev[q] /\ late'[q] = late[q]
                 /\ prior'[q] = prior[q] /\ gate'[q] = gate[q] /\ verdict'[q] = verdict[q]
              \/ pc'[q] \in Untried \cup {"hung"} /\ gate'[q] = 0 /\ verdict'[q] # "passed"
    PROVE  ReportInv'
<1>1. ASSUME NEW q \in Pids PROVE Informed(q)'
    <2>1. Informed(q)
        BY DEF ReportInv
    <2>2. CASE /\ UNCHANGED <<caddy, route, loaded, unstopped, runs, releases, converged>>
               /\ pc'[q] = pc[q] /\ mode'[q] = mode[q] /\ rev'[q] = rev[q] /\ late'[q] = late[q]
               /\ prior'[q] = prior[q] /\ gate'[q] = gate[q] /\ verdict'[q] = verdict[q]
        BY <2>1, <2>2 DEF Informed, Reported, Alone, candidate
    <2>3. CASE pc'[q] \in Untried \cup {"hung"} /\ gate'[q] = 0 /\ verdict'[q] # "passed"
        BY <2>3 DEF Informed, Reported, Untried, Ended, Waiting
    <2>. QED BY <2>2, <2>3
<1>. QED BY <1>1 DEF ReportInv

LEMMA LeaveReports ==
    ASSUME ReportInv, NEW Q \in SUBSET Pids, NEW point \in {"done", "hung"}, Leave(Q, point),
           UNCHANGED <<caddy, route, loaded, unstopped, runs, releases, converged>>
    PROVE  ReportInv'
<1>1. ASSUME NEW q \in Pids, q \in Q
      PROVE  pc'[q] \in Untried \cup {"hung"} /\ gate'[q] = 0 /\ verdict'[q] # "passed"
    BY <1>1 DEF Leave, Untried, Ended
<1>2. ASSUME NEW q \in Pids, q \notin Q
      PROVE  /\ pc'[q] = pc[q] /\ mode'[q] = mode[q] /\ rev'[q] = rev[q] /\ late'[q] = late[q]
             /\ prior'[q] = prior[q] /\ gate'[q] = gate[q] /\ verdict'[q] = verdict[q]
    BY <1>2 DEF Leave
<1>. QED BY <1>1, <1>2, ElsewhereReports

LEMMA OutsideReports ==
    ASSUME SafeInv, ReportInv, NEW p \in Pids, Start(p) \/ Kill(p) \/ Hang(p) \/ Locking(p)
    PROVE  ReportInv'
<1>1. UNCHANGED <<caddy, route, loaded, unstopped, runs, releases, converged>>
    BY DEF Start, Kill, Hang, Locking, MakeLock, MarkLock, FindLock, BreakLock, releaseLock,
        hostVars, proxyVars, slotVars
<1>2. CASE \E point \in {"done", "hung"} : Leave({p}, point)
    BY <1>1, <1>2, LeaveReports
<1>3. CASE ~ \E point \in {"done", "hung"} : Leave({p}, point)
    <2>1. PICK s \in Untried : Goto(p, s) /\ UNCHANGED <<prior, gate, late, verdict>> /\ pc[p] \in Untried
        BY <1>3 DEF Start, Kill, Hang, End, Forget, Locking, MakeLock, MarkLock, FindLock, BreakLock, releaseLock,
            Untried, Ended, Waiting
    <2>2. \A q \in Pids : pc'[q] = IF q = p THEN s ELSE pc[q]
        BY <2>1 DEF Goto, SafeInv, TypeInv, ProcessTypes
    <2>3. gate'[p] = 0 /\ verdict'[p] # "passed"
        <3>1. pc[p] # "unlock"
            BY <2>1 DEF Untried, Ended, Waiting
        <3>. QED BY <2>1, <3>1 DEF ReportInv, Informed
    <2>4. \A q \in Pids : q # p => mode'[q] = mode[q] /\ rev'[q] = rev[q]
        BY <1>3 DEF Start, Kill, Hang, End, Forget, Locking, MakeLock, MarkLock, FindLock, BreakLock, releaseLock,
            SafeInv, TypeInv, ProcessTypes
    <2>. QED BY <1>1, <2>1, <2>2, <2>3, <2>4, ElsewhereReports
<1>. QED BY <1>2, <1>3

LEMMA AroundReports == ASSUME SafeInv, ReportInv, Around PROVE ReportInv'
<1>1. ASSUME NEW q \in Pids, pc[q] \in Ended PROVE pc[q] \in Untried /\ gate[q] = 0 /\ verdict[q] # "passed"
    BY <1>1 DEF ReportInv, Informed, Untried, Ended
<1>2. CASE Reboot
    <2>1. ASSUME NEW q \in Pids PROVE pc'[q] \in Untried /\ gate'[q] = 0 /\ verdict'[q] # "passed"
        <3>1. CASE Alive(q)
            BY <1>2, <3>1 DEF Reboot, Forget, Leave, Untried, Ended
        <3>2. CASE ~Alive(q)
            <4>1. pc'[q] = pc[q] /\ gate'[q] = gate[q] /\ verdict'[q] = verdict[q] /\ pc[q] \in Ended
                BY <1>2, <3>2 DEF Reboot, Forget, Leave, Alive
            <4>. QED BY <1>1, <4>1
        <3>. QED BY <3>1, <3>2
    <2>. QED BY <2>1, ElsewhereReports
<1>3. CASE MoveMain \/ \E slot \in Slots : SlotDown(slot) \/ SlotUp(slot)
    <2>1. UNCHANGED <<caddy, route, loaded, unstopped, runs, releases, converged>> /\ UNCHANGED processVars
        BY <1>3 DEF MoveMain, SlotDown, SlotUp, hostVars, proxyVars, slotVars
    <2>. QED BY <2>1, ElsewhereReports DEF processVars
<1>4. ASSUME NEW slot \in Slots, OperatorRetire(slot) PROVE ReportInv'
    <2>1. UNCHANGED <<pc, gate, verdict>> /\ \A q \in Pids : pc[q] \in Ended
        BY <1>4 DEF OperatorRetire, processVars, Alive
    <2>. QED BY <1>1, <2>1, ElsewhereReports
<1>. QED BY <1>2, <1>3, <1>4 DEF Around

LEMMA ReportStep == ASSUME SafeInv, ReportInv, [Next]_vars PROVE ReportInv'
<1>1. CASE UNCHANGED vars
    BY <1>1, ElsewhereReports DEF vars, processVars, hostVars, proxyVars, slotVars
<1>2. ASSUME NEW p \in Pids, Start(p) \/ Step(p) \/ Hang(p) \/ Kill(p) PROVE ReportInv'
    <2>1. CASE Start(p) \/ Kill(p) \/ Hang(p) \/ Locking(p)
        BY <2>1, OutsideReports
    <2>2. ASSUME Coalesce(p) \/ FailCleanup(p) \/ FailRecovery(p) PROVE ReportInv'
        <3>1. /\ pc[p] \in {"coalesce", "drain", "retire", "retain", "converge", "recover",
                            "rollback", "discard", "erase"}
              /\ \E v \in {"coalesced", "cleanup", "recover-route"} : Finish(p, v)
            BY <2>2 DEF Coalesce, FailCleanup, FailRecovery
        <3>2. pc[p] \in Stages
            BY <3>1, StagesAre
        <3>. QED BY <3>1, <3>2, FinishReports
    <2>3. CASE Proceed(p)
        BY <2>2, <2>3, EarlyReports, RecordReports, DrainReports, RetireReports, RetainReports,
            ConvergeReports DEF Proceed
    <2>4. CASE Recover(p)
        BY <2>2, <2>4, FailReports, DrainReports, EarlyReports, DiscardReports, EraseReports DEF Recover
    <2>. QED BY <1>2, <2>1, <2>3, <2>4 DEF Step
<1>. QED BY <1>1, <1>2, AroundReports DEF Next

LEMMA ReportInit == ASSUME Init PROVE ReportInv
<1>1. \A p \in Pids : pc[p] = "new" /\ gate[p] = 0 /\ verdict[p] = "none"
    BY DEF Init
<1>. QED BY <1>1 DEF ReportInv, Informed, Reported, Untried, Ended, Waiting

\* Until a takeover removes a lock in use, what a release reports is what it leaves behind,
\* and the schedules converge on the new revision when the prior slot was told to stop
\* (executeRelease, executeExperienceRelease and their recoveries).
THEOREM ReportsTrue == Spec => []VerdictTrue
<1>1. Init => raced \/ (SafeInv /\ ReportInv)
    BY SafeInit, ReportInit
<1>2. (raced \/ (SafeInv /\ ReportInv)) /\ [Next]_vars => (raced \/ (SafeInv /\ ReportInv))'
    BY SafeStep, ReportStep, RacedStays
<1>3. raced \/ (SafeInv /\ ReportInv) => VerdictTrue
    <2>1. ASSUME ReportInv, NEW p \in Pids PROVE Convergent(p) /\ Reported(p)
        BY <2>1 DEF ReportInv, Informed, Convergent
    <2>. QED BY <2>1 DEF VerdictTrue
<1>. QED BY <1>1, <1>2, <1>3, PTL DEF Spec
=============================================================================
