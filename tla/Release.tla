------------------------------- MODULE Release -------------------------------
(* The release tools: release.mjs, one process per release, which drives   *)
(* the commands of deployment.mjs and its service adapter over one host    *)
(* with two slots, a Caddy route and a state file.  One action is a        *)
(* file-system call, a service command or a probe, and between two of them *)
(* a release may fail or be killed, a slot may crash, main may move and    *)
(* the host may reboot.                                                    *)
EXTENDS Integers, Sequences

CONSTANTS
    MaxReleases,  \* release processes ever started
    MaxRevision,  \* revisions of main: 0, 1, ..., MaxRevision
    MaxCrashes,   \* killed releases and reboots
    NoRevision,   \* null
    Platform      \* darwin or linux, which picks the service adapter

Pids == 1 .. MaxReleases
Revisions == 0 .. MaxRevision
Slots == {"blue", "green"}

ASSUME ReleaseAssumption ==
    /\ MaxReleases \in Nat /\ MaxRevision \in Nat /\ MaxCrashes \in Nat
    /\ NoRevision \notin Int
    /\ Platform \in {"darwin", "linux"}

VARIABLES
    head,    \* the revision of the primary checkout and of origin/main
    lock,    \* release.lock: NoLock, Unmarked, or the pid in its owner.json, which is
             \* Leftover for a release that was killed before the first one here
    raced,   \* history: a takeover removed a lock that was no longer stale
    \* What each release process knows and where it is.
    pc, mode, rev, prior, gate, tested, late, verdict,
    \* The host.
    disk,    \* the slot of the Caddyfile
    caddy,   \* the slot the running Caddy proxies to
    route,   \* state.json
    boot,    \* slots whose service starts with the host
    loaded,  \* slots whose service is kept running
    unstopped, \* of these, the slots whose stop failed without anybody noticing
    up,      \* slots that answer /health/ready
    runs,    \* per slot the revision its service starts
    prepared, \* per slot the revision in its preparation metadata
    releases, \* revisions with an artifact
    converged, \* revisions whose convergence ran
    crashes

processVars == <<pc, mode, rev, prior, gate, tested, late, verdict>>
proxyVars == <<disk, caddy, route>>
slotVars == <<boot, loaded, unstopped, up, runs, prepared>>
hostVars == <<proxyVars, slotVars, releases, converged>>
vars == <<head, lock, raced, processVars, hostVars, crashes>>

NoLock == 0
Unmarked == MaxReleases + 1
Leftover == MaxReleases + 2

Other(slot) == IF slot = "blue" THEN "green" ELSE "blue"

\* Fault: the candidate goes where the route points.
ActiveSlot(p) == prior[p]

candidate(p) == Other(prior[p])

gateManifest == <<"bnest-quick", "bnest-integration", "be-e2e-quick", "fe-e2e-quick",
    "release-recovery-e2e", "release-load-e2e", "repository">>
experienceGateManifest == <<"experience-release-e2e">>
Gates(p) == IF mode[p] = "compatibility" THEN Len(gateManifest) ELSE Len(experienceGateManifest)

\* Fault: the schedules converge before the prior slot is retired.
ConvergeFirst == [preflight |-> "gates", gate |-> "build", build |-> "migrate",
    migrate |-> "prepare", prepare |-> "await", await |-> "verify", verify |-> "promote",
    promote |-> "install", install |-> "record", record |-> "prove", prove |-> "drain",
    drain |-> "converge", retire |-> "retain", retain |-> "unlock", converge |-> "retire",
    coalesce |-> "unlock"]

\* executeRelease: the stage after each one that passed.
CompatibilityOrder == [preflight |-> "gates", gate |-> "build", build |-> "migrate",
    migrate |-> "prepare", prepare |-> "await", await |-> "verify", verify |-> "promote",
    promote |-> "install", install |-> "record", record |-> "prove", prove |-> "drain",
    drain |-> "retire", retire |-> "retain", retain |-> "converge", converge |-> "unlock",
    coalesce |-> "unlock"]

\* executeExperienceRelease: no build, no migration, no convergence.
ExperienceOrder == [CompatibilityOrder EXCEPT !["gate"] = "prepare", !["retain"] = "unlock"]

NextStage(p) == IF mode[p] = "compatibility" THEN CompatibilityOrder[pc[p]]
                ELSE ExperienceOrder[pc[p]]

\* Fault: a candidate that does not answer is prepared once more.
PrepareAgain == [preflight |-> "unlock", coalesce |-> "unlock", gates |-> "unlock",
    gate |-> "unlock", build |-> "erase", migrate |-> "erase", prepare |-> "discard",
    await |-> "prepare", verify |-> "discard", promote |-> "recover", install |-> "recover",
    record |-> "recover", prove |-> "rollback", drain |-> "rollback",
    discard |-> "erase", erase |-> "unlock"]

\* executeRelease's catch: where a stage that failed leads, and in which order the
\* recovery that follows undoes what was done.
CompatibilityRecovery == [preflight |-> "unlock", coalesce |-> "unlock", gates |-> "unlock",
    gate |-> "unlock", build |-> "erase", migrate |-> "erase", prepare |-> "discard",
    await |-> "discard", verify |-> "discard", promote |-> "recover", install |-> "recover",
    record |-> "recover", prove |-> "rollback", drain |-> "rollback",
    discard |-> "erase", erase |-> "unlock"]

\* Fault: an experience release cleans up like any other.
EraseToo == CompatibilityRecovery

\* executeExperienceRelease's catch never removes the artifact that is being served.
ExperienceRecovery == [CompatibilityRecovery EXCEPT !["discard"] = "unlock"]

Recovery(p) == IF mode[p] = "compatibility" THEN CompatibilityRecovery[pc[p]]
               ELSE ExperienceRecovery[pc[p]]

\* activationAttempted, at the stage a failure comes from.
AttemptsActivation == {"promote", "prove"}

Ended == {"new", "done"}
Waiting == {"lock", "break", "retake", "mark"}
Stages == DOMAIN CompatibilityOrder \cup
    {"gates", "recover", "rollback", "discard", "erase", "unlock", "hung"}

\* The result that a release reports: outcome and nextTransition in one name.
\* stopped is failed/diagnose, cleanup is failed/cleanup, recover-route is failed.
Verdicts == {"none", "passed", "coalesced", "deferred", "stopped", "rolled-back",
             "cleanup", "recover-route"}

Init ==
    /\ head = 0
    /\ lock \in {NoLock, Leftover} /\ raced = FALSE
    /\ pc = [p \in Pids |-> "new"]
    /\ mode = [p \in Pids |-> "compatibility"]
    /\ rev = [p \in Pids |-> NoRevision]
    /\ prior = [p \in Pids |-> "blue"]
    /\ gate = [p \in Pids |-> 0]
    /\ tested = [p \in Pids |-> {}]
    /\ late = [p \in Pids |-> FALSE]
    /\ verdict = [p \in Pids |-> "none"]
    /\ disk = "blue" /\ caddy = "blue"
    /\ route = [slot |-> "blue", rev |-> 0, prevSlot |-> "none", prevRev |-> NoRevision]
    /\ boot = {"blue"} /\ loaded = {"blue"} /\ unstopped = {} /\ up = {"blue"}
    /\ runs = [s \in Slots |-> 0]
    /\ prepared = [s \in Slots |-> IF s = "blue" THEN 0 ELSE NoRevision]
    /\ releases = {0}
    /\ converged = {0}
    /\ crashes = 0

Goto(p, stage) == pc' = [pc EXCEPT ![p] = stage]
Report(p, v) == verdict' = [verdict EXCEPT ![p] = v]
Finish(p, v) ==
    /\ Goto(p, "unlock") /\ Report(p, v)
    /\ UNCHANGED <<mode, rev, prior, gate, tested, late>>

\* A stage passed, and after the last one the release.
Advance(p) ==
    /\ Goto(p, NextStage(p))
    /\ Report(p, IF NextStage(p) = "unlock" THEN "passed" ELSE verdict[p])
    /\ UNCHANGED <<mode, rev, prior, gate, tested, late>>

\* Processes that stop for good at a point, and what they knew with them.
Leave(Q, point) ==
    /\ pc' = [p \in Pids |-> IF p \in Q THEN point ELSE pc[p]]
    /\ mode' = [p \in Pids |-> IF p \in Q THEN "compatibility" ELSE mode[p]]
    /\ rev' = [p \in Pids |-> IF p \in Q THEN NoRevision ELSE rev[p]]
    /\ prior' = [p \in Pids |-> IF p \in Q THEN "blue" ELSE prior[p]]
    /\ gate' = [p \in Pids |-> IF p \in Q THEN 0 ELSE gate[p]]
    /\ tested' = [p \in Pids |-> IF p \in Q THEN {} ELSE tested[p]]
    /\ late' = [p \in Pids |-> IF p \in Q THEN FALSE ELSE late[p]]
    /\ verdict' = [p \in Pids |-> IF p \in Q THEN "none" ELSE verdict[p]]

Forget(Q) == Leave(Q, "done")
End(p) == Forget({p})

\* What runs in a process that a pid names.
Alive(p) == pc[p] \notin Ended

------------------------------------------------------------------------------
(* The lock *)

\* Fault: a lock without a readable owner counts as left behind.
UnreadableIsStale == lock \in {Unmarked, Leftover} \/ (lock \in Pids /\ ~Alive(lock))

\* A marker is stale when its process is gone; an unreadable one never is.
staleProcessMarker == lock = Leftover \/ (lock \in Pids /\ ~Alive(lock))

\* main of release.mjs, and assertReleaseSource: a process starts at the checkout's head.
Start(p) ==
    /\ pc[p] = "new"
    /\ \A q \in Pids : q < p => pc[q] # "new"
    /\ \/ /\ \E m \in {"compatibility", "experience"} : mode' = [mode EXCEPT ![p] = m]
          /\ rev' = [rev EXCEPT ![p] = head]
          /\ Goto(p, "lock")
          /\ UNCHANGED <<prior, gate, tested, late, verdict>>
       \/ End(p)
    /\ UNCHANGED <<head, lock, raced, hostVars, crashes>>

\* acquireLock: mkdir succeeds for one process.
MakeLock(p) ==
    /\ pc[p] \in {"lock", "retake"}
    /\ lock = NoLock
    /\ lock' = Unmarked
    /\ Goto(p, "mark")
    /\ UNCHANGED <<head, raced, mode, rev, prior, gate, tested, late, verdict, hostVars, crashes>>

\* acquireLock: its owner.json, in a directory that is made again if it is gone; a
\* write that fails removes the directory.
MarkLock(p) ==
    /\ pc[p] = "mark"
    /\ \/ /\ lock' = p
          /\ Goto(p, "preflight")
          /\ UNCHANGED <<mode, rev, prior, gate, tested, late, verdict>>
       \/ lock' = NoLock /\ End(p)
    /\ UNCHANGED <<head, raced, hostVars, crashes>>

\* acquireLock: EEXIST.  The second attempt does not look at the owner again.
FindLock(p) ==
    /\ pc[p] \in {"lock", "retake"}
    /\ lock # NoLock
    /\ \/ /\ pc[p] = "lock" /\ staleProcessMarker
          /\ Goto(p, "break")
          /\ UNCHANGED <<mode, rev, prior, gate, tested, late, verdict>>
       \/ pc[p] = "lock" /\ ~staleProcessMarker /\ End(p)
       \/ pc[p] = "retake" /\ End(p)
    /\ UNCHANGED <<head, lock, raced, hostVars, crashes>>

\* acquireLock: rmSync of the directory, whoever owns it by now, which fails when it
\* is gone.
BreakLock(p) ==
    /\ pc[p] = "break"
    /\ \/ /\ lock # NoLock
          /\ lock' = NoLock
          /\ raced' = IF staleProcessMarker THEN raced ELSE TRUE
          /\ Goto(p, "retake")
          /\ UNCHANGED <<mode, rev, prior, gate, tested, late, verdict>>
       \/ lock = NoLock /\ End(p) /\ UNCHANGED <<lock, raced>>
    /\ UNCHANGED <<head, hostVars, crashes>>

\* releaseLock: only the process that owner.json names removes the directory; for
\* another, main reports the refusal in place of the release's result.
releaseLock(p) ==
    /\ pc[p] = "unlock"
    /\ IF lock = p THEN lock' = NoLock /\ End(p)
                   ELSE UNCHANGED lock /\ End(p)
    /\ UNCHANGED <<head, raced, hostVars, crashes>>

------------------------------------------------------------------------------
(* The host *)

\* printStatus: the request through Caddy to the slot it proxies to.
caddyReady == caddy \in up

\* installSlotService of both adapters: the service is written, the one that ran in
\* the slot stops and the new one is started with the revision, unless that command
\* fails; then the old one may still run.
installSlotService(slot, revision, starts) ==
    /\ boot' = boot \cup {slot}
    /\ unstopped' = unstopped \ {slot}
    /\ runs' = [runs EXCEPT ![slot] = revision]
    /\ \/ starts /\ loaded' = loaded \cup {slot} /\ up' = up \ {slot}
       \/ ~starts /\ loaded' \in {loaded, loaded \ {slot}} /\ up' = up \cap loaded'

\* retireSlot of systemd disables and stops the unit.
systemdRetire(slot) == boot' = boot \ {slot}

\* retireSlot of launchd boots the agent out; its plist, with RunAtLoad, stays.
launchdRetire(slot) == UNCHANGED boot

\* Neither adapter looks at the result of its command: the service may go on running,
\* disabled or not.
retireSlot(slot) ==
    /\ route.slot # slot
    /\ \/ /\ IF Platform = "darwin" THEN launchdRetire(slot) ELSE systemdRetire(slot)
          /\ loaded' = loaded \ {slot}
          /\ unstopped' = unstopped \ {slot}
          /\ up' = up \ {slot}
       \/ /\ slot \in loaded
          /\ UNCHANGED boot \/ (Platform = "linux" /\ systemdRetire(slot))
          /\ unstopped' = unstopped \cup {slot}
          /\ UNCHANGED <<loaded, up>>
    /\ UNCHANGED <<runs, prepared>>

\* awaitReady: the slot answers with the revision's header.
awaitReady(slot, revision) == slot \in up /\ runs[slot] = revision

\* preparedRevision: a slot without preparation metadata cannot be promoted.
preparedRevision(slot) == prepared[slot] \in Revisions

\* buildRelease refuses an artifact that exists.
buildRelease(revision) ==
    /\ revision \notin releases
    /\ releases' = releases \cup {revision}

\* migrateRelease and convergeRelease run the artifact itself.
migrateRelease(revision) == revision \in releases
convergeRelease(revision) ==
    /\ revision \in releases
    /\ converged' = converged \cup {revision}

\* prepareSlot, up to the wait for readiness.
prepareSlot(slot, revision, starts) ==
    /\ revision \in releases
    /\ installSlotService(slot, revision, starts)

------------------------------------------------------------------------------
(* Stages of a release *)

\* A slot has a listener on its port when it is up.
listenerPids(slot) == slot \in up
assertPorts == listenerPids(route.slot) /\ ~listenerPids(Other(route.slot))

\* preflight and experiencePreflight, after the lock: capacity, route, ports.
Preflight(p) ==
    /\ pc[p] = "preflight"
    /\ mode[p] = "compatibility"
    /\ caddyReady /\ assertPorts
    /\ prior' = [prior EXCEPT ![p] = route.slot]
    /\ Goto(p, IF route.rev = rev[p] THEN "coalesce" ELSE "gates")
    /\ UNCHANGED <<head, lock, raced, mode, rev, gate, tested, late, verdict, hostVars, crashes>>

experiencePreflight(p) ==
    /\ pc[p] = "preflight"
    /\ mode[p] = "experience"
    /\ caddyReady /\ assertPorts
    /\ route.rev \in releases
    /\ prior' = [prior EXCEPT ![p] = route.slot]
    /\ rev' = [rev EXCEPT ![p] = route.rev]
    /\ Goto(p, "gates")
    /\ UNCHANGED <<head, lock, raced, mode, gate, tested, late, verdict, hostVars, crashes>>

\* proveRouted of a revision that is already active.
Coalesce(p) ==
    /\ pc[p] = "coalesce"
    /\ caddyReady /\ route.rev = rev[p]
    /\ Finish(p, "coalesced")
    /\ UNCHANGED <<head, lock, raced, hostVars, crashes>>

\* Fault: a checkout that has moved on with main still counts.
AheadCounts(p) == mode[p] = "compatibility" => head >= rev[p]

\* runGates: the checkout is compared before and after each gate, which runs on
\* whatever the checkout holds meanwhile; an experience release does not compare.
assertReleaseSource(p) == mode[p] = "compatibility" => head = rev[p]
assertActiveHealth == caddyReady

\* What a gate runs on, of a release that compares it.
Compared(p) == IF mode[p] = "compatibility" THEN {head} ELSE {}

BeginGate(p) ==
    /\ pc[p] = "gates"
    /\ assertReleaseSource(p)
    /\ tested' = [tested EXCEPT ![p] = @ \cup Compared(p)]
    /\ Goto(p, "gate")
    /\ UNCHANGED <<head, lock, raced, mode, rev, prior, gate, late, verdict, hostVars, crashes>>

EndGate(p) ==
    /\ pc[p] = "gate"
    /\ assertReleaseSource(p)
    /\ assertActiveHealth
    /\ tested' = [tested EXCEPT ![p] = @ \cup Compared(p)]
    /\ gate' = [gate EXCEPT ![p] = @ + 1]
    /\ Goto(p, IF gate[p] + 1 < Gates(p) THEN "gates" ELSE NextStage(p))
    /\ UNCHANGED <<head, lock, raced, mode, rev, prior, late, verdict, hostVars, crashes>>

\* build, in a worktree of its own.
Build(p) ==
    /\ pc[p] = "build"
    /\ assertReleaseSource(p)
    /\ buildRelease(rev[p])
    /\ Advance(p)
    /\ UNCHANGED <<head, lock, raced, proxyVars, slotVars, converged, crashes>>

\* proveMigration: a declared set is applied by the artifact.
proveMigration(p) ==
    /\ pc[p] = "migrate"
    /\ migrateRelease(rev[p])
    /\ Advance(p)
    /\ UNCHANGED <<head, lock, raced, hostVars, crashes>>

\* prepareCandidate: the inactive slot's service, its readiness, its metadata.
prepareCandidate(p) ==
    /\ pc[p] = "prepare"
    /\ \/ prepareSlot(candidate(p), rev[p], TRUE) /\ Advance(p)
       \/ /\ prepareSlot(candidate(p), rev[p], FALSE)
          /\ Goto(p, "discard") /\ Report(p, "stopped")
          /\ UNCHANGED <<mode, rev, prior, gate, tested, late>>
    /\ UNCHANGED <<head, lock, raced, proxyVars, prepared, releases, converged, crashes>>

AwaitCandidate(p) ==
    /\ pc[p] = "await"
    /\ awaitReady(candidate(p), rev[p])
    /\ prepared' = [prepared EXCEPT ![candidate(p)] = rev[p]]
    /\ Advance(p)
    /\ UNCHANGED <<head, lock, raced, proxyVars, boot, loaded, unstopped, up, runs,
                   releases, converged, crashes>>

verifyCandidateRevision(p) ==
    /\ pc[p] = "verify"
    /\ awaitReady(candidate(p), rev[p])
    /\ Advance(p)
    /\ UNCHANGED <<head, lock, raced, hostVars, crashes>>

\* promoteSlot up to Caddy's reload, which rollback uses as well.
promoteSlot(slot) ==
    /\ preparedRevision(slot)
    /\ awaitReady(slot, prepared[slot])
    /\ route.slot # slot
    /\ caddy' = slot
    /\ UNCHANGED <<disk, route, slotVars, releases, converged>>

Promote(p) ==
    /\ pc[p] = "promote"
    /\ promoteSlot(candidate(p))
    /\ Advance(p)
    /\ UNCHANGED <<head, lock, raced, crashes>>

Rollback(p) ==
    /\ pc[p] = "rollback"
    /\ route.prevSlot \in Slots
    /\ promoteSlot(route.prevSlot)
    /\ Goto(p, "install")
    /\ UNCHANGED <<head, lock, raced, mode, rev, prior, gate, tested, late, verdict, crashes>>

\* A promotion or a rollback whose command fails after Caddy's reload.
BreaksOff(p) ==
    IF late[p] THEN Finish(p, "recover-route")
    ELSE /\ Goto(p, "recover") /\ Report(p, "stopped")
         /\ late' = [late EXCEPT ![p] = TRUE]
         /\ UNCHANGED <<mode, rev, prior, gate, tested>>

\* promoteSlot: the rename of the Caddyfile, which may fail.
InstallConfig(p) ==
    /\ pc[p] = "install"
    /\ \/ disk' = caddy /\ Advance(p)
       \/ UNCHANGED disk /\ BreaksOff(p)
    /\ UNCHANGED <<head, lock, raced, caddy, route, slotVars, releases, converged, crashes>>

\* promoteSlot: state.json, which may fail, and the status that ends the command.
RecordRoute(p) ==
    /\ pc[p] = "record"
    /\ \/ /\ route' = [slot |-> caddy, rev |-> prepared[caddy],
                        prevSlot |-> route.slot, prevRev |-> route.rev]
          /\ \/ caddyReady /\ ~late[p] /\ Advance(p)
             \/ /\ caddyReady /\ late[p]
                /\ Goto(p, "discard")
                /\ UNCHANGED <<mode, rev, prior, gate, tested, late, verdict>>
             \/ BreaksOff(p)
       \/ UNCHANGED route /\ BreaksOff(p)
    /\ UNCHANGED <<head, lock, raced, disk, caddy, slotVars, releases, converged, crashes>>

\* proveRouted: the status, then ten browsers that reconnect.
proveRouted(p) ==
    /\ pc[p] = "prove"
    /\ caddyReady /\ route.rev = rev[p]
    /\ Advance(p)
    /\ UNCHANGED <<head, lock, raced, hostVars, crashes>>

\* stopResourceMonitor of a release that requires the evidence.
ResourceEvidence == {"sound", "capacity", "continuity"}

\* drainAndCleanup: the drain and its evidence, the prior slot, the artifacts.  Bad
\* evidence is the one failure after routed proof that is rolled back.
Drain(p) ==
    /\ pc[p] = "drain"
    /\ \E evidence \in ResourceEvidence :
        IF evidence = "sound" THEN Advance(p)
        ELSE /\ Goto(p, Recovery(p)) /\ Report(p, "rolled-back")
             /\ late' = [late EXCEPT ![p] = TRUE]
             /\ UNCHANGED <<mode, rev, prior, gate, tested>>
    /\ UNCHANGED <<head, lock, raced, hostVars, crashes>>

Retire(p) ==
    /\ pc[p] = "retire"
    /\ retireSlot(prior[p])
    /\ Advance(p)
    /\ UNCHANGED <<head, lock, raced, proxyVars, releases, converged, crashes>>

retainArtifacts(p) ==
    /\ pc[p] = "retain"
    /\ caddyReady
    /\ releases' = releases \cap {rev[p], route.prevRev}
    /\ Advance(p)
    /\ UNCHANGED <<head, lock, raced, proxyVars, slotVars, converged, crashes>>

convergeAfterDrain(p) ==
    /\ pc[p] = "converge"
    /\ convergeRelease(rev[p])
    /\ Advance(p)
    /\ UNCHANGED <<head, lock, raced, proxyVars, slotVars, releases, crashes>>

------------------------------------------------------------------------------
(* Failures, and the recovery that follows *)

\* assertCapacity makes the outcome deferred where it runs; a failure after the
\* switch is undone by a rollback, if that succeeds.
FailureVerdicts(stage) ==
    IF stage = "prove" THEN {"rolled-back"}
    ELSE IF stage \in {"preflight", "gate", "build", "prepare"} THEN {"stopped", "deferred"}
    ELSE {"stopped"}

\* A command of a stage fails and leaves the host as it was; a build may leave its
\* artifact.
Fail(p) ==
    /\ pc[p] \in DOMAIN CompatibilityRecovery \ {"install", "record", "drain", "discard", "erase"}
    /\ Goto(p, Recovery(p))
    /\ \E v \in FailureVerdicts(pc[p]) : Report(p, v)
    /\ late' = [late EXCEPT ![p] = pc[p] \in AttemptsActivation]
    /\ IF pc[p] = "build" THEN releases' \in {releases, releases \cup {rev[p]}}
                          ELSE UNCHANGED releases
    /\ UNCHANGED <<head, lock, raced, mode, rev, prior, gate, tested, proxyVars, slotVars,
                   converged, crashes>>

\* After routed proof every other failure keeps the route and asks for cleanup.
FailCleanup(p) ==
    /\ pc[p] \in {"drain", "retire", "retain", "converge"}
    /\ Finish(p, "cleanup")
    /\ UNCHANGED <<head, lock, raced, hostVars, crashes>>

\* recoverActivation: state.json tells which way the promotion fell.
recoverActivation(p) ==
    /\ pc[p] = "recover"
    /\ caddyReady
    /\ \/ route.slot = candidate(p) /\ Goto(p, "rollback") /\ Report(p, "rolled-back")
       \/ route.slot = prior[p] /\ Goto(p, "discard") /\ Report(p, "stopped")
    /\ UNCHANGED <<head, lock, raced, mode, rev, prior, gate, tested, late, hostVars, crashes>>

discardCandidate(p) ==
    /\ pc[p] = "discard"
    /\ retireSlot(candidate(p))
    /\ Goto(p, Recovery(p))
    /\ UNCHANGED <<head, lock, raced, mode, rev, prior, gate, tested, late, verdict,
                   proxyVars, releases, converged, crashes>>

discardArtifact(p) ==
    /\ pc[p] = "erase"
    /\ releases' = releases \ {rev[p]}
    /\ Goto(p, Recovery(p))
    /\ UNCHANGED <<head, lock, raced, mode, rev, prior, gate, tested, late, verdict,
                   proxyVars, slotVars, converged, crashes>>

FailRecovery(p) ==
    /\ pc[p] \in {"recover", "rollback", "discard", "erase"}
    /\ Finish(p, IF late[p] THEN "recover-route" ELSE "cleanup")
    /\ UNCHANGED <<head, lock, raced, hostVars, crashes>>

------------------------------------------------------------------------------
(* What happens around the releases *)

\* A merge, pulled into the primary checkout.
MoveMain ==
    /\ head < MaxRevision
    /\ head' = head + 1
    /\ UNCHANGED <<lock, raced, processVars, hostVars, crashes>>

\* KeepAlive and Restart=always: a service that crashed is started again, if its
\* artifact is there.
SlotDown(slot) ==
    /\ slot \in up
    /\ up' = up \ {slot}
    /\ UNCHANGED <<head, lock, raced, processVars, proxyVars, boot, loaded, unstopped, runs,
                   prepared, releases, converged, crashes>>

SlotUp(slot) ==
    /\ slot \in loaded \ up
    /\ runs[slot] \in releases
    /\ up' = up \cup {slot}
    /\ UNCHANGED <<head, lock, raced, processVars, proxyVars, boot, loaded, unstopped, runs,
                   prepared, releases, converged, crashes>>

\* Stages that wait for a child process, or for the one of the stage before: run
\* spawns it without a deadline.  Only probes have one, and file-system calls return.
Untimed == Stages \ {"verify", "record", "recover", "hung"}

\* A gate, a build, a migration, a service command or Caddy's reload never returns.
Hang(p) ==
    /\ pc[p] \in Untimed
    /\ Leave({p}, "hung")
    /\ UNCHANGED <<head, lock, raced, hostVars, crashes>>

\* A release is killed and its lock stays.
Kill(p) ==
    /\ crashes < MaxCrashes
    /\ Alive(p)
    /\ crashes' = crashes + 1
    /\ Forget({p})
    /\ UNCHANGED <<head, lock, raced, hostVars>>

\* The host restarts: Caddy reads the Caddyfile, installed services start.
Reboot ==
    /\ crashes < MaxCrashes
    /\ crashes' = crashes + 1
    /\ Forget({p \in Pids : Alive(p)})
    /\ caddy' = disk
    /\ loaded' = boot /\ unstopped' = {}
    /\ up' = {}
    /\ UNCHANGED <<head, lock, raced, disk, route, boot, runs, prepared, releases, converged>>

\* deploy:retire by hand, which clears what a killed release left in a slot.
OperatorRetire(slot) ==
    /\ \A p \in Pids : ~Alive(p)
    /\ slot \in loaded
    /\ retireSlot(slot)
    /\ UNCHANGED <<head, lock, raced, processVars, proxyVars, releases, converged, crashes>>

------------------------------------------------------------------------------

Proceed(p) ==
    \/ Preflight(p) \/ experiencePreflight(p) \/ Coalesce(p)
    \/ BeginGate(p) \/ EndGate(p)
    \/ Build(p) \/ proveMigration(p)
    \/ prepareCandidate(p) \/ AwaitCandidate(p) \/ verifyCandidateRevision(p)
    \/ Promote(p) \/ InstallConfig(p) \/ RecordRoute(p) \/ proveRouted(p)
    \/ Drain(p) \/ Retire(p) \/ retainArtifacts(p) \/ convergeAfterDrain(p)

Recover(p) ==
    \/ Fail(p) \/ FailCleanup(p) \/ FailRecovery(p)
    \/ recoverActivation(p) \/ Rollback(p) \/ discardCandidate(p) \/ discardArtifact(p)

Locking(p) ==
    MakeLock(p) \/ MarkLock(p) \/ FindLock(p) \/ BreakLock(p) \/ releaseLock(p)

Step(p) == Locking(p) \/ Proceed(p) \/ Recover(p)

Around ==
    \/ MoveMain \/ Reboot
    \/ \E s \in Slots : SlotDown(s) \/ SlotUp(s) \/ OperatorRetire(s)

Next == Around \/ \E p \in Pids : Start(p) \/ Step(p) \/ Hang(p) \/ Kill(p)

Spec == Init /\ [][Next]_vars

\* A release whose commands return takes its next step: a stage passes or fails.  Hang
\* is no step of it, so a command may still never return.
FairSpec == Spec /\ \A p \in Pids : WF_vars(Alive(p) /\ Step(p))

------------------------------------------------------------------------------
(* Properties *)

Route == [slot : Slots, rev : Revisions, prevSlot : Slots \cup {"none"},
          prevRev : Revisions \cup {NoRevision}]

\* The values each part of the state may have.
ReleaseTypeOK ==
    /\ head \in Revisions
    /\ lock \in Nat /\ raced \in BOOLEAN
    /\ pc \in [Pids -> Ended \cup Waiting \cup Stages]
    /\ mode \in [Pids -> {"compatibility", "experience"}]
    /\ rev \in [Pids -> Revisions \cup {NoRevision}]
    /\ prior \in [Pids -> Slots]
    /\ gate \in [Pids -> Nat]
    /\ tested \in [Pids -> SUBSET Revisions]
    /\ late \in [Pids -> BOOLEAN]
    /\ verdict \in [Pids -> Verdicts]
    /\ disk \in Slots /\ caddy \in Slots
    /\ route \in Route
    /\ boot \subseteq Slots /\ loaded \subseteq Slots
    /\ unstopped \subseteq loaded /\ up \subseteq loaded
    /\ runs \in [Slots -> Revisions]
    /\ prepared \in [Slots -> Revisions \cup {NoRevision}]
    /\ releases \subseteq Revisions
    /\ converged \subseteq Revisions
    /\ crashes \in Nat

\* One release at a time works on the host (release-contract.md: "One release owns
\* the host lock").
OwnsAlone == \A p, q \in Pids : pc[p] \in Stages /\ pc[q] \in Stages => p = q

\* acquireLock gives the host to one release, through killed and hung owners and
\* takeovers by several releases at once, as long as no takeover removes a lock that
\* its own check would not call stale any more.
OneOwner == raced \/ OwnsAlone

\* A slot that is kept running with a revision whose artifact exists.
Serves(slot) == slot \in loaded /\ prepared[slot] = runs[slot] /\ runs[slot] \in releases

\* The slot that state.json names is always served, also when the reload, the rename
\* or state.json fails or the release dies between them; the slot that Caddy was
\* switched to is while a promotion is under way; and from the recorded switch until
\* the prior slot is retired a rollback finds the way back it needs.
WayBack == raced \/
    /\ Serves(route.slot)
    /\ \A p \in Pids :
        /\ pc[p] \in {"install", "record"} => Serves(caddy)
        /\ pc[p] \in {"prove", "drain", "retire", "rollback"} =>
            caddy = route.slot /\ route.prevSlot = prior[p] /\ Serves(prior[p])

\* The gates ran on the revision that is built and on nothing else, although main may
\* move at any instant and each gate runs on what the checkout holds.
Gated(p) ==
    mode[p] = "compatibility" /\ pc[p] \in {"build", "migrate", "prepare", "await", "verify",
        "promote", "prove", "drain", "retire", "retain", "converge"} => tested[p] = {rev[p]}

TestedIsBuilt == \A p \in Pids : Gated(p)

\* The routed slot is the only one that was not told to stop.
Alone == loaded \ unstopped = {caddy}

\* Convergence needs every runnable slot to have the new code.
Convergent(p) == pc[p] = "converge" => Alone /\ runs[caddy] = rev[p]

\* What a release reports is what it leaves behind.
Reported(p) ==
    pc[p] = "unlock" =>
    /\ verdict[p] = "passed" =>
        /\ caddy = candidate(p) /\ route.slot = caddy /\ route.rev = rev[p]
        /\ Alone
        /\ mode[p] = "compatibility" => rev[p] \in converged
    /\ verdict[p] = "rolled-back" =>
        /\ caddy = prior[p] /\ route.slot = caddy
        /\ Alone
        /\ mode[p] = "compatibility" => rev[p] \notin releases
    /\ verdict[p] \in {"stopped", "deferred"} /\ gate[p] > 0 =>
        /\ route.slot = prior[p]
        /\ ~late[p] => caddy = prior[p]

VerdictTrue == raced \/ \A p \in Pids : Convergent(p) /\ Reported(p)

\* The tools implement the promise about the host's record: the slot that state.json
\* names serves one revision at any time, and the record only exchanges it with the one
\* that runs beside it.
Contract == INSTANCE ReleaseContract WITH
    None <- NoRevision,
    served <- IF route.slot \in loaded THEN runs[route.slot] ELSE NoRevision,
    standby <- IF Other(route.slot) \in loaded THEN runs[Other(route.slot)] ELSE NoRevision

ServesContract == Contract!Init /\ [][Contract!Next \/ raced']_(Contract!vars)

\* A release that took the lock ends, whatever fails on the way, or waits for a command
\* that never returns: no recovery leads back to what it came from.
ReleaseEnds == \A p \in Pids : pc[p] \in Stages ~> pc[p] \in {"done", "hung"}

------------------------------------------------------------------------------
(* What the code's comments say and the code does not give. *)

\* deployment.mjs, convergeRelease: "every runnable slot supports the new Backup
\* service".  A prior slot whose stop failed unnoticed still runs.
NoneLeftRunning == \A p \in Pids : pc[p] = "converge" => loaded = {caddy}

\* systemd.mjs, retireSlot: "Stopping a slot that is not routed."
RetiredNotRouted == [][\A s \in loaded : s \notin loaded' => s # caddy]_vars
=============================================================================
