--------------------------- MODULE CIMonitorProofs ---------------------------
(* The monitor keeps its budget and acts once on each CI attempt, for any     *)
(* statuses, timeouts and budgets, and any number of attempts and commits.    *)
EXTENDS CIMonitor, TLAPS

\* The attempts the monitor has acted on are at most n, or before n.
ActedUpTo(n) == \A u \in Urls : acts[u] > 0 => u <= n
ActedBefore(n) == \A u \in Urls : acts[u] > 0 => u < n

\* Codes that no attempt is acted on about.
Aside == {"no_new_cipe", "polling_timeout", "error"}

CITypes ==
    /\ attempt.url \in Urls /\ attempt.sha \in Nat
    /\ commits \in Nat
    /\ attempt.sha <= commits
    /\ wait \in BOOLEAN /\ agent \in BOOLEAN
    /\ lastUrl \in Nat /\ expected \in Nat
    /\ cycles \in Nat /\ spent \in Nat
    /\ decision.url \in Urls
    /\ acts \in [Urls -> Nat]

\* What was asked for is counted, or will be when the next code is handled.
Counted ==
    /\ spent <= cycles + (IF agent THEN 1 ELSE 0)
    /\ cycles + (IF agent THEN 1 ELSE 0) <= MaxCycles

\* What is tracked lies after everything acted on: in normal mode the attempt that is
\* read, in wait mode the attempt that would end the wait.
Tracked ==
    /\ ActedUpTo(attempt.url)
    /\ ~wait => ActedBefore(attempt.url)
    /\ lastUrl # 0 => lastUrl <= attempt.url /\ ActedUpTo(lastUrl)
    /\ wait /\ expected # 0 /\ attempt.sha = expected => ActedBefore(attempt.url)

\* A decision about an attempt is about one not yet acted on.
Decided ==
    pc = "act" => /\ decision.url <= attempt.url
                  /\ decision.code \notin Aside => ActedBefore(decision.url)

CIInv == CITypes /\ Counted /\ Tracked /\ Decided /\ OncePerAttempt

LEMMA CIInit == ASSUME Init PROVE CIInv
<1>1. 1 \in Urls /\ Urls \subseteq Int
    BY MonitorAssumption DEF Urls
<1>2. CITypes
    <2>1. NoDecision.url \in Urls
        BY <1>1 DEF NoDecision
    <2>2. attempt.url = 1 /\ attempt.sha = 1
        BY DEF Init
    <2>3. acts \in [Urls -> Nat]
        BY DEF Init
    <2>4. decision.url \in Urls
        BY <2>1 DEF Init
    <2>5. commits = 1 /\ lastUrl = 0 /\ expected = 0 /\ cycles = 0 /\ spent = 0
        BY DEF Init
    <2>6. wait \in BOOLEAN /\ agent \in BOOLEAN
        BY Zenon DEF Init
    <2>. QED BY <1>1, <2>2, <2>3, <2>4, <2>5, <2>6 DEF CITypes
<1>3. Counted
    BY MonitorAssumption DEF Init, Counted
<1>4. \A u \in Urls : acts[u] = 0
    BY DEF Init
<1>5. Tracked /\ Decided /\ OncePerAttempt
    BY <1>4 DEF Init, Tracked, Decided, OncePerAttempt, ActedUpTo, ActedBefore
<1>. QED BY <1>2, <1>3, <1>5 DEF CIInv

\* A poll that ends the wait reads an attempt after everything acted on.
LEMMA NewCipeIsLater ==
    ASSUME CIInv, wait, isNewCipe
    PROVE  ActedBefore(attempt.url)
<1>1. CASE lastUrl # 0 /\ attempt.url # lastUrl
    <2>1. lastUrl < attempt.url /\ ActedUpTo(lastUrl)
        BY <1>1 DEF CIInv, CITypes, Tracked, Urls
    <2>. QED BY <2>1 DEF CIInv, CITypes, ActedUpTo, ActedBefore, Urls
<1>2. CASE expected # 0 /\ attempt.sha = expected
    BY <1>2 DEF CIInv, Tracked
<1>. QED BY <1>1, <1>2 DEF isNewCipe

LEMMA FetchKeeps == ASSUME CIInv, FetchAndDecide PROVE CIInv'
<1>1. PICK i \in Infos : LET code == IF wait THEN classifyWait ELSE classify(i) IN
        /\ wait' = (wait /\ code # "new_cipe_detected")
        /\ IF code \in Pending
           THEN UNCHANGED <<pc, decision>>
           ELSE pc' = "act" /\ decision' = [code |-> code, url |-> attempt.url]
    BY DEF FetchAndDecide
<1> DEFINE code == IF wait THEN classifyWait ELSE classify(i)
<1>2. /\ wait' = (wait /\ code # "new_cipe_detected")
      /\ IF code \in Pending
         THEN UNCHANGED <<pc, decision>>
         ELSE pc' = "act" /\ decision' = [code |-> code, url |-> attempt.url]
    BY <1>1
<1>3. wait => \/ code = "new_cipe_detected" /\ isNewCipe
              \/ code \in {"polling_timeout", "no_new_cipe", "waiting_for_cipe"}
    BY DEF classifyWait
<1> HIDE DEF code
<1>4. pc = "poll" /\ UNCHANGED <<attempt, commits, lastUrl, expected, agent, cycles, acts, spent>>
    BY DEF FetchAndDecide, ciVars
<1>5. \A n : ActedUpTo(n)' <=> ActedUpTo(n')
    BY <1>4 DEF ActedUpTo
<1>6. \A n : ActedBefore(n)' <=> ActedBefore(n')
    BY <1>4 DEF ActedBefore
<1>7. CITypes'
    BY <1>2, <1>4 DEF CIInv, CITypes
<1>8. Counted' /\ OncePerAttempt'
    BY <1>4 DEF CIInv, Counted, OncePerAttempt
<1>9. Tracked'
    <2>1. ~wait' => ActedBefore(attempt.url)
        BY <1>2, <1>3, NewCipeIsLater DEF CIInv, Tracked
    <2>2. wait' => wait
        BY <1>2
    <2>. QED BY <1>4, <2>1, <2>2 DEF CIInv, Tracked, ActedUpTo, ActedBefore
<1>10. Decided'
    <2>1. CASE code \in Pending
        BY <1>2, <1>4, <2>1 DEF Decided
    <2>2. CASE code \notin Pending
        <3>1. pc' = "act" /\ decision'.url = attempt.url /\ decision'.code = code
            BY <1>2, <2>2
        <3>2. code \in Aside \/ ~wait
            BY <1>3, <2>2 DEF Pending, Aside
        <3>3. attempt.url <= attempt.url
            BY DEF CIInv, CITypes, Urls
        <3>4. ~wait => ActedBefore(attempt.url)
            BY DEF CIInv, Tracked
        <3>. QED BY <1>4, <3>1, <3>2, <3>3, <3>4 DEF Decided, ActedBefore
    <2>. QED BY <2>1, <2>2
<1>. QED BY <1>7, <1>8, <1>9, <1>10 DEF CIInv

LEMMA FetchFailsKeeps == ASSUME CIInv, FetchFails PROVE CIInv'
<1>1. UNCHANGED <<attempt, commits, wait, lastUrl, expected, agent, cycles, acts, spent>>
    BY DEF FetchFails, ciVars, countVars
<1>2. pc' = "act" /\ decision' = [code |-> "error", url |-> attempt.url]
    BY DEF FetchFails
<1>3. CITypes' /\ Counted' /\ OncePerAttempt'
    BY <1>1, <1>2 DEF CIInv, CITypes, Counted, OncePerAttempt
<1>4. Tracked'
    BY <1>1 DEF CIInv, Tracked, ActedUpTo, ActedBefore
<1>5. Decided'
    BY <1>1, <1>2 DEF CIInv, CITypes, Decided, Aside, Urls
<1>. QED BY <1>3, <1>4, <1>5 DEF CIInv

\* What a response leads to, as far as the invariant tells it apart.
LEMMA ActDoes ==
    ASSUME CIInv, Act
    PROVE  /\ decision.code \notin {"polling_timeout", "error"}
           /\ wait' = TRUE
           /\ lastUrl' \in {0, decision.url}
           /\ decision.code = "no_new_cipe" => lastUrl' = 0
           /\ expected' \in {0, commits + 1}
           /\ commits' \in {commits, commits + 1}
           /\ agent' \in BOOLEAN
           /\ spent' = spent + (IF agent' THEN 1 ELSE 0)
           /\ cycles' = cycleCount /\ ~(cycleCount >= MaxCycles)
           /\ acts' = IF decision.code = "no_new_cipe" THEN acts
                      ELSE [acts EXCEPT ![decision.url] = @ + 1]
           /\ pc = "act" /\ pc' = "poll" /\ decision' = NoDecision
           /\ attempt' = attempt
<1>1. PICK r \in Responses(decision.code) :
        /\ postAction(r[1])
        /\ commits' = IF r[1] \in commitShaActions THEN commits + 1 ELSE commits
        /\ spent' = IF r[1] = "fix-auto-applying" THEN spent ELSE spent + 1
    BY DEF Act
<1>2. decision.code \notin {"polling_timeout", "error"}
    BY <1>1 DEF Responses
<1>3. decision.code = "no_new_cipe" => r[1] = "auto-fix-push"
    BY <1>1 DEF Responses
<1>4. /\ wait' = TRUE
      /\ lastUrl' = IF r[1] \in cipeUrlActions THEN decision.url ELSE 0
      /\ expected' \in {0, commits + 1}
      /\ agent' = (r[1] # "fix-auto-applying")
    BY <1>1 DEF postAction, trackedSha
<1>5. decision.code = "no_new_cipe" => lastUrl' = 0
    BY <1>3, <1>4 DEF cipeUrlActions
<1>6. spent' = spent + (IF agent' THEN 1 ELSE 0)
    <2>1. spent \in Nat
        BY DEF CIInv, CITypes
    <2>2. CASE r[1] = "fix-auto-applying"
        <3>1. ~agent'
            BY <1>4, <2>2
        <3>2. spent' = spent + 0
            BY <1>1, <2>1, <2>2
        <3>. QED BY <3>1, <3>2
    <2>3. CASE r[1] # "fix-auto-applying"
        <3>1. agent'
            BY <1>4, <2>3
        <3>2. spent' = spent + 1
            BY <1>1, <2>3
        <3>. QED BY <3>1, <3>2
    <2>. QED BY <2>2, <2>3
<1>7. commits' \in {commits, commits + 1} /\ lastUrl' \in {0, decision.url} /\ agent' \in BOOLEAN
    BY <1>1, <1>4
<1>8. /\ cycles' = cycleCount /\ ~(cycleCount >= MaxCycles)
      /\ acts' = IF decision.code = "no_new_cipe" THEN acts
                 ELSE [acts EXCEPT ![decision.url] = @ + 1]
      /\ pc = "act" /\ pc' = "poll" /\ decision' = NoDecision
      /\ attempt' = attempt
    BY DEF Act, limitReached
<1>. QED BY <1>2, <1>4, <1>5, <1>6, <1>7, <1>8

LEMMA ActKeeps == ASSUME CIInv, Act PROVE CIInv'
<1> DEFINE d == decision.url
           about == decision.code # "no_new_cipe"
           asked == IF agent' THEN 1 ELSE 0
<1>1. /\ decision.code \notin {"polling_timeout", "error"}
      /\ wait' = TRUE
      /\ lastUrl' \in {0, d} /\ (~about => lastUrl' = 0)
      /\ expected' \in {0, commits + 1}
      /\ commits' \in {commits, commits + 1}
      /\ agent' \in BOOLEAN /\ spent' = spent + asked
      /\ cycles' = cycleCount /\ ~(cycleCount >= MaxCycles)
      /\ acts' = IF about THEN [acts EXCEPT ![d] = @ + 1] ELSE acts
      /\ pc = "act" /\ pc' = "poll" /\ decision' = NoDecision
      /\ attempt' = attempt
    BY ActDoes
<1>2. /\ attempt.url \in Urls /\ attempt.sha \in Nat /\ commits \in Nat
      /\ attempt.sha <= commits /\ cycles \in Nat /\ spent \in Nat /\ agent \in BOOLEAN
      /\ d \in Urls /\ acts \in [Urls -> Nat]
    BY DEF CIInv, CITypes
<1>3. d <= attempt.url /\ (about => ActedBefore(d))
    BY <1>1 DEF CIInv, Decided, Aside
<1>4. Urls \subseteq Nat /\ 1 \in Urls /\ MaxCycles \in Nat
    BY MonitorAssumption DEF Urls
<1>5. /\ spent <= cycles + (IF agent THEN 1 ELSE 0)
      /\ ActedUpTo(attempt.url) /\ OncePerAttempt
    BY DEF CIInv, Counted, Tracked
<1>6. cycleCount = cycles + (IF agent THEN 1 ELSE 0)
    BY <1>2 DEF cycleCount
<1> HIDE DEF asked
<1>7. \A u \in Urls : acts'[u] = IF about /\ u = d THEN acts[u] + 1 ELSE acts[u]
    BY <1>1, <1>2
<1>8. \A u \in Urls : acts'[u] > 0 => acts[u] > 0 \/ (about /\ u = d)
    BY <1>7
<1> HIDE DEF d, about
<1>9. CITypes'
    <2>1. acts' \in [Urls -> Nat]
        BY <1>1, <1>2
    <2>2. cycles' \in Nat
        BY <1>1, <1>2, <1>6
    <2>3. spent' \in Nat
        BY <1>1, <1>2 DEF asked
    <2>4. decision'.url \in Urls
        BY <1>1, <1>4 DEF NoDecision
    <2>5. lastUrl' \in Nat /\ commits' \in Nat /\ commits <= commits' /\ expected' \in Nat
        BY <1>1, <1>2, <1>4
    <2>6. attempt'.sha <= commits' /\ attempt'.url \in Urls /\ attempt'.sha \in Nat
        BY <1>1, <1>2, <2>5
    <2>. QED BY <1>1, <2>1, <2>2, <2>3, <2>4, <2>5, <2>6 DEF CITypes
<1>10. Counted'
    <2>1. spent <= cycleCount /\ cycleCount \in Nat /\ cycleCount < MaxCycles
        BY <1>1, <1>2, <1>4, <1>5, <1>6
    <2>2. cycles' = cycleCount /\ spent' = spent + asked
        BY <1>1
    <2>3. asked \in {0, 1}
        BY DEF asked
    <2>. QED BY <1>2, <1>4, <2>1, <2>2, <2>3 DEF Counted, asked
<1>11. OncePerAttempt'
    <2>1. about => ~(acts[d] > 0)
        BY <1>2, <1>3, <1>4 DEF ActedBefore
    <2>2. about => acts[d] = 0
        BY <1>2, <2>1
    <2>. QED BY <1>2, <1>5, <1>7, <2>2 DEF OncePerAttempt
<1>12. ActedUpTo(attempt.url)'
    BY <1>1, <1>3, <1>5, <1>8 DEF ActedUpTo
<1>13. lastUrl' # 0 => lastUrl' <= attempt.url' /\ ActedUpTo(lastUrl)'
    <2>1. SUFFICES ASSUME lastUrl' # 0
                   PROVE  lastUrl' <= attempt.url' /\ ActedUpTo(lastUrl)'
        OBVIOUS
    <2>2. lastUrl' = d /\ about
        BY <1>1, <2>1
    <2>3. \A u \in Urls : acts'[u] > 0 => u <= d
        BY <1>2, <1>3, <1>4, <1>8, <2>2 DEF ActedBefore
    <2>. QED BY <1>1, <1>3, <2>2, <2>3 DEF ActedUpTo
<1>14. ~(expected' # 0 /\ attempt'.sha = expected')
    BY <1>1, <1>2
<1>15. Tracked'
    BY <1>1, <1>12, <1>13, <1>14 DEF Tracked
<1>16. Decided'
    BY <1>1 DEF Decided
<1>. QED BY <1>9, <1>10, <1>11, <1>15, <1>16 DEF CIInv

LEMMA RetryKeeps == ASSUME CIInv, Retry PROVE CIInv'
<1>1. UNCHANGED <<attempt, commits, wait, lastUrl, expected, acts, spent>>
    BY DEF Retry, ciVars
<1>2. /\ pc' = "poll" /\ decision' = NoDecision
      /\ agent' = FALSE /\ cycles' = cycleCount /\ ~(cycleCount >= MaxCycles)
    BY DEF Retry, limitReached
<1>3. NoDecision.url \in Urls /\ MaxCycles \in Nat
    BY MonitorAssumption DEF Urls, NoDecision
<1>4. cycles \in Nat /\ spent \in Nat /\ spent <= cycles + (IF agent THEN 1 ELSE 0)
    BY DEF CIInv, CITypes, Counted
<1>5. cycleCount \in Nat /\ spent <= cycleCount
    BY <1>4 DEF cycleCount
<1>6. CITypes'
    <2>1. decision'.url \in Urls
        BY <1>2, <1>3
    <2>. QED BY <1>1, <1>2, <1>5, <2>1 DEF CIInv, CITypes
<1>7. Counted'
    BY <1>1, <1>2, <1>3, <1>4, <1>5 DEF Counted
<1>8. Tracked' /\ Decided' /\ OncePerAttempt'
    BY <1>1, <1>2 DEF CIInv, Tracked, Decided, OncePerAttempt, ActedUpTo, ActedBefore
<1>. QED BY <1>6, <1>7, <1>8 DEF CIInv

LEMMA NewAttemptKeeps == ASSUME CIInv, NewAttempt PROVE CIInv'
<1>1. PICK sha \in attempt.sha .. commits : attempt' = [url |-> attempt.url + 1, sha |-> sha]
    BY DEF NewAttempt
<1>2. UNCHANGED <<commits, pc, wait, lastUrl, expected, agent, cycles, decision, acts, spent>>
    BY DEF NewAttempt, trackVars, countVars
<1>3. /\ attempt.url \in Urls /\ attempt.sha \in Nat /\ commits \in Nat
      /\ decision.url \in Urls /\ lastUrl \in Nat /\ acts \in [Urls -> Nat]
    BY DEF CIInv, CITypes
<1>4. Urls \subseteq Nat /\ attempt.url < MaxAttempts /\ attempt.url + 1 \in Urls
    BY <1>3, MonitorAssumption DEF NewAttempt, Urls
<1>5. sha \in Nat /\ sha <= commits
    BY <1>3
<1>6. attempt'.url = attempt.url + 1 /\ attempt'.sha = sha
    BY <1>1
<1>7. CITypes' /\ Counted' /\ OncePerAttempt'
    BY <1>2, <1>4, <1>5, <1>6 DEF CIInv, CITypes, Counted, OncePerAttempt
<1>8. /\ ActedUpTo(attempt.url)
      /\ lastUrl # 0 => lastUrl <= attempt.url /\ ActedUpTo(lastUrl)
    BY DEF CIInv, Tracked
<1>9. Tracked'
    <2>1. \A u \in Urls : acts'[u] > 0 => u < attempt'.url
        <3>1. TAKE u \in Urls
        <3>2. acts[u] > 0 => u <= attempt.url
            BY <1>8 DEF ActedUpTo
        <3>3. u \in Nat /\ attempt.url \in Nat /\ acts[u] = acts'[u]
            BY <1>2, <1>3, <1>4
        <3>. QED BY <1>6, <3>2, <3>3
    <2>2. ActedUpTo(attempt.url)' /\ ActedBefore(attempt.url)'
        <3>1. \A u \in Urls : u \in Nat
            BY <1>4
        <3>2. attempt'.url \in Nat
            BY <1>4, <1>6
        <3>. QED BY <2>1, <3>1, <3>2 DEF ActedUpTo, ActedBefore
    <2>3. lastUrl' # 0 => lastUrl' <= attempt'.url /\ ActedUpTo(lastUrl)'
        <3>1. attempt.url \in Nat /\ lastUrl \in Nat /\ lastUrl' = lastUrl /\ acts' = acts
            BY <1>2, <1>3, <1>4
        <3>2. ActedUpTo(lastUrl)' <=> ActedUpTo(lastUrl)
            BY <3>1 DEF ActedUpTo
        <3>. QED BY <1>6, <1>8, <3>1, <3>2
    <2>. QED BY <2>2, <2>3 DEF Tracked
<1>10. Decided'
    <2>1. Decided
        BY DEF CIInv
    <2>2. decision.url \in Nat /\ attempt.url \in Nat
        BY <1>3, <1>4
    <2>. QED BY <1>2, <1>6, <2>1, <2>2 DEF Decided, ActedBefore
<1>. QED BY <1>7, <1>9, <1>10 DEF CIInv

LEMMA CIStep == ASSUME CIInv, [Next]_vars PROVE CIInv'
<1>1. ASSUME UNCHANGED vars PROVE CIInv'
    BY <1>1 DEF CIInv, CITypes, Counted, Tracked, Decided, OncePerAttempt, ActedUpTo, ActedBefore,
        vars, ciVars, trackVars, countVars
<1>2. ASSUME Stop PROVE CIInv'
    BY <1>2 DEF Stop, CIInv, CITypes, Counted, Tracked, Decided, OncePerAttempt, ActedUpTo,
        ActedBefore, ciVars, trackVars, countVars
<1>3. ASSUME SomebodyPushes PROVE CIInv'
    <2>1. /\ commits' = commits + 1
          /\ UNCHANGED <<attempt, pc, wait, lastUrl, expected, agent, cycles, decision, acts, spent>>
        BY <1>3 DEF SomebodyPushes, trackVars, countVars
    <2>2. CITypes'
        <3>1. attempt.sha \in Nat /\ commits \in Nat /\ attempt.sha <= commits
            BY DEF CIInv, CITypes
        <3>. QED BY <2>1, <3>1 DEF CIInv, CITypes
    <2>3. Counted' /\ Tracked' /\ Decided' /\ OncePerAttempt'
        BY <2>1 DEF CIInv, Counted, Tracked, Decided, OncePerAttempt, ActedUpTo, ActedBefore
    <2>. QED BY <2>2, <2>3 DEF CIInv
<1>. QED BY <1>1, <1>2, <1>3, FetchKeeps, FetchFailsKeeps, ActKeeps, RetryKeeps, NewAttemptKeeps
    DEF Next, Handle

LEMMA CIInvariant == Spec => []CIInv
<1>1. Init => CIInv
    BY CIInit
<1>2. CIInv /\ [Next]_vars => CIInv'
    BY CIStep
<1>. QED BY <1>1, <1>2, PTL DEF Spec

\* However errors, waits and automatic fixes fall between them, the monitor never
\* asks for more CI attempts than --max-cycles allows (limitReached, cycleCount).
THEOREM BudgetKept == Spec => []WithinBudget
<1>1. CIInv => WithinBudget
    BY MonitorAssumption DEF CIInv, CITypes, Counted, WithinBudget
<1>. QED BY <1>1, CIInvariant, PTL

\* The url or the commit that post-action remembers is enough to never act twice on
\* one attempt, whatever CI and the team do between a poll and the action.
THEOREM ActsOnce == Spec => []OncePerAttempt
<1>1. CIInv => OncePerAttempt
    BY DEF CIInv
<1>. QED BY <1>1, CIInvariant, PTL
=============================================================================
