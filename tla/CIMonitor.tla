------------------------------ MODULE CIMonitor ------------------------------
(* The CI monitor: an agent that polls the CI attempts of a branch, lets    *)
(* ci-poll-decide.mjs decide what a poll means and ci-state-update.mjs what *)
(* follows from an action of its own, until it stops.  The CI service moves *)
(* at any time, also between a poll and the action it leads to: a poll      *)
(* reads any status.                                                        *)
EXTENDS Integers, FiniteSets

CONSTANTS
    Infos,          \* the statuses of a CI attempt that a poll may read
    NoStatus,       \* null
    Timeout,        \* --timeout, in units of 30 s
    NewCipeTimeout, \* --new-cipe-timeout, in polls of 30 s
    Breaker,        \* polls without progress before the monitor gives up: 13
    MaxCycles,      \* --max-cycles
    LocalAttempts,  \* --local-verify-attempts
    MaxAttempts,    \* CI attempts of the branch
    MaxCommits      \* commits of the branch

ASSUME MonitorAssumption ==
    /\ Timeout \in Nat /\ NewCipeTimeout \in Nat /\ Breaker \in Nat /\ Breaker >= 3
    /\ MaxCycles \in Nat \ {0} /\ LocalAttempts \in Nat
    /\ MaxAttempts \in Nat \ {0} /\ MaxCommits \in Nat \ {0}

VARIABLES
    attempt, \* the branch's latest CI attempt: cipeUrl and commitSha
    commits, \* commits pushed to the branch
    \* The orchestrator's tracking state.
    pc,      \* poll, act on a decision, or stopped
    wait,    \* wait_mode
    polls,   \* poll_count
    elapsed, \* --elapsed-seconds, as far as the timeout tells it apart
    idle,    \* no_progress_count, as far as the breaker tells it apart
    prev,    \* prev_cipe_status, prev_sh_status, ...
    lastUrl, expected, \* last_cipe_url and expected_commit_sha, 0 for null
    agent,   \* agent_triggered
    cycles, fixes, reruns, \* cycle_count, local_verify_count, env_rerun_count
    decision, \* the code to act on and the attempt it was decided for
    \* What the monitor has done so far.
    acts,    \* how often it acted on each attempt
    spent    \* how many CI attempts it asked for

ciVars == <<attempt, commits>>
countVars == <<cycles, fixes, reruns>>
trackVars == <<wait, polls, lastUrl, expected, agent>>
vars == <<ciVars, pc, trackVars, elapsed, idle, prev, countVars, decision, acts, spent>>

Urls == 1 .. MaxAttempts
Commits == 1 .. MaxCommits
NoDecision == [code |-> "none", url |-> 1]
NoInfo == [cipe |-> NoStatus, sh |-> NoStatus, ver |-> NoStatus, class |-> NoStatus]

Least(a, b) == IF a < b THEN a ELSE b

------------------------------------------------------------------------------
(* ci-poll-decide.mjs *)

\* 60, 90, 120 and then 180 seconds.
backoff(count) == [n \in 0 .. 3 |-> IF n = 3 THEN 6 ELSE n + 2][Least(count, 3)]

\* A previous status that is null compares with nothing.
hasStateChanged(info) ==
    \E f \in {"cipe", "sh", "ver", "class"} : prev[f] # NoStatus /\ info[f] # prev[f]

\* Fault: the total budget does not count.
NeverTimesOut == FALSE

isTimedOut == Timeout > 0 /\ elapsed >= Timeout

isWaitTimedOut == NewCipeTimeout > 0 /\ polls >= NewCipeTimeout

isNewCipe ==
    \/ lastUrl # 0 /\ attempt.url # lastUrl
    \/ expected # 0 /\ attempt.sha = expected

\* Polls in a row without progress.  A tracked attempt that has come counts as new at
\* every poll.
noProgressCount(i) ==
    IF wait THEN (IF isNewCipe THEN 0 ELSE idle)
    ELSE IF isNewCipe \/ hasStateChanged(i) THEN 0
    ELSE Least(idle + 1, Breaker)

classifyWait ==
    IF isNewCipe THEN "new_cipe_detected"
    ELSE IF isTimedOut THEN "polling_timeout"
    ELSE IF isWaitTimedOut THEN "no_new_cipe"
    ELSE "waiting_for_cipe"

\* A fix that may be applied automatically, and one that waits for somebody.
classifyFix(i) ==
    IF i.auto /\ i.autoSkipped THEN "fix_auto_apply_skipped"
    ELSE IF i.auto /\ i.ver \in {"NOT_STARTED", "IN_PROGRESS"} THEN "verification_pending"
    ELSE IF i.auto /\ i.ver = "COMPLETED" THEN "fix_auto_applying"
    ELSE IF i.sh = "COMPLETED" THEN
        IF i.ver \in {"FAILED", "NOT_EXECUTABLE"} \/ (~i.auto /\ i.ver = NoStatus)
        THEN "fix_needs_review"
        ELSE IF i.tasks \in {"all_verified", "e2e_only"} THEN "fix_apply_ready"
        ELSE "fix_needs_local_verify"
    ELSE IF i.sh = "FAILED" THEN "fix_failed"
    ELSE IF i.cipe = "FAILED" /\ (~i.healing \/ i.sh = "NOT_EXECUTABLE") THEN "no_fix"
    ELSE "fallback"

classify(i) ==
    IF isTimedOut THEN "polling_timeout"
    ELSE IF noProgressCount(i) >= Breaker THEN "circuit_breaker"
    ELSE IF i.cipe = "SUCCEEDED" THEN "ci_success"
    ELSE IF i.cipe = "CANCELED" THEN "cipe_canceled"
    ELSE IF i.cipe = "TIMED_OUT" THEN "cipe_timed_out"
    ELSE IF i.cipe = "FAILED" /\ i.tasks = "none" /\ i.sh = NoStatus THEN "cipe_no_tasks"
    ELSE IF i.class = "environment_state" THEN
        IF reruns >= 2 THEN "environment_rerun_cap" ELSE "environment_issue"
    ELSE IF i.skipped = "THROTTLED" THEN "self_healing_throttled"
    ELSE IF i.cipe \in {"IN_PROGRESS", "NOT_STARTED"} THEN "ci_running"
    ELSE IF i.sh \in {"IN_PROGRESS", "NOT_STARTED"} /\ i.skipped = NoStatus THEN "sh_running"
    ELSE IF i.class = "flaky_task" THEN "flaky_rerun"
    ELSE IF i.applied THEN "fix_auto_applied"
    ELSE classifyFix(i)

Pending == {"new_cipe_detected", "waiting_for_cipe", "ci_running", "sh_running", "flaky_rerun",
         "fix_auto_applied", "verification_pending", "fallback"}

resetProgressCodes == {"ci_success", "fix_auto_applying", "fix_auto_apply_skipped",
    "fix_needs_review", "fix_apply_ready", "fix_needs_local_verify"}

delay(code, i) ==
    IF code = "waiting_for_cipe" THEN 1
    ELSE IF code = "new_cipe_detected" THEN 2 ELSE backoff(noProgressCount(i))

Sleep(d) == elapsed' = Least(elapsed + d, Timeout)

\* One turn of the loop: fetch, decide, and sleep or go on to act.  A poll in wait
\* mode selects the attempt and its CI status only.
FetchAndDecide ==
    /\ pc = "poll"
    /\ \E i \in Infos : LET code == IF wait THEN classifyWait ELSE classify(i) IN
        /\ idle' = IF code \in resetProgressCodes THEN 0 ELSE noProgressCount(i)
        /\ prev' = [f \in DOMAIN NoInfo |-> IF wait /\ f # "cipe" THEN NoStatus ELSE i[f]]
        /\ wait' = (wait /\ code # "new_cipe_detected")
        /\ IF code = "new_cipe_detected" THEN fixes' = 0 /\ reruns' = 0
                                        ELSE UNCHANGED <<fixes, reruns>>
        /\ IF code \in Pending
           THEN Sleep(delay(code, i)) /\ UNCHANGED <<pc, decision>>
           ELSE /\ pc' = "act"
                /\ decision' = [code |-> code, url |-> attempt.url]
                /\ UNCHANGED elapsed
    /\ polls' = Least(polls + 1, NewCipeTimeout)
    /\ UNCHANGED <<ciVars, lastUrl, expected, agent, cycles, acts, spent>>

\* A result that is not JSON decides before any timeout is looked at.
FetchFails ==
    /\ pc = "poll"
    /\ pc' = "act"
    /\ decision' = [code |-> "error", url |-> attempt.url]
    /\ idle' = Least(idle + 1, Breaker)
    /\ polls' = Least(polls + 1, NewCipeTimeout)
    /\ prev' = NoInfo
    /\ UNCHANGED <<ciVars, wait, lastUrl, expected, agent, elapsed, countVars, acts, spent>>

------------------------------------------------------------------------------
(* ci-state-update.mjs, and the orchestrator that calls it *)

\* Fault: the limit is noticed one cycle late.
LimitPassed(count) == count > MaxCycles

limitReached(count) == count >= MaxCycles

\* cycle-check, before a code is handled: what it makes of the two counters.
cycleCount == IF agent THEN cycles + 1 ELSE cycles
envRerunCount == IF decision.code = "environment_issue" THEN reruns ELSE 0

\* gate: the budgets of local fixes and of environment reruns.
gate(type) ==
    /\ type = "local-fix" => fixes < LocalAttempts
    /\ type = "env-rerun" => envRerunCount < 2
    /\ fixes' = IF type = "local-fix" THEN fixes + 1 ELSE fixes
    /\ reruns' = IF type = "env-rerun" THEN envRerunCount + 1 ELSE envRerunCount

cipeUrlActions == {"fix-auto-applying", "apply-mcp", "env-rerun"}
commitShaActions == {"apply-local-push", "reject-fix-push", "local-fix-push", "auto-fix-push",
                     "empty-commit-push"}

\* Fault: the commit of an earlier push stays expected.
KeptSha(action) == IF action \in commitShaActions THEN commits + 1 ELSE expected

trackedSha(action) == IF action \in commitShaActions THEN commits + 1 ELSE 0

\* post-action: wait for the attempt that the action leads to.
postAction(action) ==
    /\ wait' = TRUE
    /\ polls' = 0
    /\ lastUrl' = IF action \in cipeUrlActions THEN decision.url ELSE 0
    /\ expected' = trackedSha(action)
    /\ agent' = (action # "fix-auto-applying")

\* fix-flows.md: what may be done about a code, and through which gate.
Responses(code) ==
    CASE code = "fix_auto_applying" -> {<<"fix-auto-applying", "none">>}
      [] code \in {"fix_auto_apply_skipped", "fix_apply_ready"} -> {<<"apply-mcp", "none">>}
      [] code = "fix_needs_local_verify" ->
            {<<"apply-mcp", "none">>, <<"apply-local-push", "none">>, <<"apply-local-push", "local-fix">>}
      [] code = "fix_needs_review" ->
            {<<"apply-mcp", "none">>, <<"apply-local-push", "none">>, <<"reject-fix-push", "local-fix">>}
      [] code \in {"fix_failed", "no_fix"} -> {<<"local-fix-push", "local-fix">>}
      [] code = "environment_issue" -> {<<"env-rerun", "env-rerun">>}
      [] code = "self_healing_throttled" ->
            {<<"local-fix-push", "local-fix">>, <<"empty-commit-push", "none">>}
      [] code = "no_new_cipe" -> {<<"auto-fix-push", "none">>}
      [] code = "cipe_no_tasks" -> {<<"empty-commit-push", "none">>}
      [] OTHER -> {}

Act ==
    /\ pc = "act"
    /\ ~limitReached(cycleCount)
    /\ \E r \in Responses(decision.code) :
        /\ gate(r[2])
        /\ postAction(r[1])
        /\ commits' = IF r[1] \in commitShaActions THEN commits + 1 ELSE commits
        /\ commits' <= MaxCommits
        /\ spent' = IF r[1] = "fix-auto-applying" THEN spent ELSE spent + 1
    /\ cycles' = cycleCount
    \* A workflow fix is made because there is no attempt, and about none.
    /\ acts' = IF decision.code = "no_new_cipe" THEN acts ELSE [acts EXCEPT ![decision.url] = @ + 1]
    /\ pc' = "poll" /\ decision' = NoDecision
    /\ UNCHANGED <<attempt, elapsed, idle, prev>>

\* error: "Wait 60s and loop".
Retry ==
    /\ pc = "act"
    /\ decision.code = "error"
    /\ ~limitReached(cycleCount)
    /\ cycles' = cycleCount /\ agent' = FALSE /\ reruns' = envRerunCount
    /\ Sleep(2)
    /\ pc' = "poll" /\ decision' = NoDecision
    /\ UNCHANGED <<ciVars, wait, polls, lastUrl, expected, idle, prev, fixes, acts, spent>>

\* A code to exit on, a limit, a gate that is closed, a fix that fails or is declined.
Stop ==
    /\ pc = "act"
    /\ decision.code = "error" => limitReached(cycleCount)
    /\ pc' = "stopped"
    /\ UNCHANGED <<ciVars, trackVars, elapsed, idle, prev, countVars, decision, acts, spent>>

------------------------------------------------------------------------------
(* The CI service and the people who push *)

\* A new attempt: a rerun, or for a commit pushed since.
NewAttempt ==
    /\ attempt.url < MaxAttempts
    /\ \E sha \in attempt.sha .. commits : attempt' = [url |-> attempt.url + 1, sha |-> sha]
    /\ UNCHANGED <<commits, pc, trackVars, elapsed, idle, prev, countVars, decision, acts, spent>>

\* A member of the team, or the service that commits a fix.
SomebodyPushes ==
    /\ commits < MaxCommits
    /\ commits' = commits + 1
    /\ UNCHANGED <<attempt, pc, trackVars, elapsed, idle, prev, countVars, decision, acts, spent>>

------------------------------------------------------------------------------

Init ==
    /\ attempt = [url |-> 1, sha |-> 1]
    /\ commits = 1
    /\ pc = "poll"
    /\ wait = FALSE /\ polls = 0 /\ elapsed = 0 /\ idle = 0
    /\ prev = NoInfo
    /\ lastUrl = 0 /\ expected = 0 /\ agent = FALSE
    /\ cycles = 0 /\ fixes = 0 /\ reruns = 0
    /\ decision = NoDecision
    /\ acts = [u \in Urls |-> 0]
    /\ spent = 0

Handle == Act \/ Retry \/ Stop

Next == FetchAndDecide \/ FetchFails \/ Handle \/ NewAttempt \/ SomebodyPushes

Spec == Init /\ [][Next]_vars

\* The agent goes on, and not every fetch fails.
FairSpec == Spec /\ SF_vars(FetchAndDecide) /\ WF_vars(Handle)

------------------------------------------------------------------------------
(* Properties *)

\* However attempts, pushes and failed fetches fall between a poll, its decision and
\* the action, the monitor acts on one CI attempt at most once: it never applies a
\* second fix on top of one whose attempt has not come.
OncePerAttempt == \A u \in Urls : acts[u] <= 1

\* SKILL.md: --max-cycles is the "Maximum agent-initiated CI Attempt cycles"; no path
\* through errors, waits and automatic fixes asks for more attempts.
WithinBudget == spent <= MaxCycles

\* The monitor stops, whatever CI does and however long it takes.
MonitorEnds == <>(pc = "stopped")
=============================================================================
