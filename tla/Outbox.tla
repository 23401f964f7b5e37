------------------------------- MODULE Outbox -------------------------------
(* Sending a family chat message: the outbox of every open tab of one      *)
(* member and one room, the queue the tabs share in the device's IndexedDB, *)
(* and the server that commits a client message ID once.                   *)
(*                                                                         *)
(* A tab's code runs to its next await, so one action is one callback.     *)
(* Between them lie the device's writes, which complete later and in       *)
(* order, and the requests: several of one message may run at once, from   *)
(* two tabs or from one that resumed while a first was under way.          *)
EXTENDS Integers, Sequences, FiniteSets

CONSTANTS
    Tabs, Messages,
    MaxQueued,    \* MAX_QUEUED_PER_ROOM
    MaxRequests,  \* bound of one tab's concurrent requests for one message
    MaxWrites,    \* bound of the writes of one message a tab has under way
    MaxFaults     \* bound of what goes wrong: see Fault

ASSUME OutboxAssumption ==
    /\ IsFiniteSet(Messages)
    /\ MaxQueued \in Nat /\ MaxRequests \in Nat
    /\ MaxWrites \in Nat /\ MaxFaults \in Nat

None == "none"
Statuses == {"WAITING", "SENDING", "RETRYING", "SENT", "FAILED"}
Answers == {"ok", "auth", "retryable", "terminal"}
Slots == 1 .. MaxRequests

VARIABLES
    tabs,       \* tab -> its page, and whether its outbox drains and is online
    items,      \* tab -> message -> the tab's copy of the queued message
    requests,   \* tab -> message -> slot -> a request under way
    device,     \* message -> the status of its row in IndexedDB, or None
    rows,       \* family_chat_messages, in the order of their IDs
    signedIn,   \* the session the tabs share is valid
    composed,   \* messages ever composed
    discarded,  \* those the member discarded
    left,       \* those that logging out cleared from the device
    faults

page == <<tabs, items, requests>>
member == <<composed, discarded, left>>
vars == <<tabs, items, requests, device, rows, signedIn, composed,
          discarded, left, faults>>

---------------------------------------------------------------------------
\* deleting: the timer of scheduleDeletion is set.  strays: retry timers no
\* longer in timerHandle.  writes: to the device, not yet complete.
NoItem == [listed |-> FALSE, status |-> None, timer |-> FALSE, strays |-> 0,
           deleting |-> FALSE, writes |-> <<>>]
Idle == [stage |-> "idle", heard |-> FALSE]
Asked == [stage |-> "asked", heard |-> TRUE]
\* A request the tab no longer waits for goes on at the server.
Unheard(request) ==
    IF request.stage \in Answers THEN Idle ELSE [request EXCEPT !.heard = FALSE]
Closed == [page |-> "closed", draining |-> FALSE, online |-> FALSE,
           promotions |-> 0]

Dropped == discarded \cup left
Committed == {rows[n] : n \in DOMAIN rows}

Init ==
    /\ tabs = [t \in Tabs |-> Closed]
    /\ items = [t \in Tabs |-> [m \in Messages |-> NoItem]]
    /\ requests = [t \in Tabs |-> [m \in Messages |-> [n \in Slots |-> Idle]]]
    /\ device = [m \in Messages |-> None]
    /\ rows = <<>>
    /\ signedIn = TRUE
    /\ composed = {} /\ discarded = {} /\ left = {}
    /\ faults = 0

Fault == faults < MaxFaults /\ faults' = faults + 1
Written(t) == \A m \in Messages : Len(items'[t][m].writes) <= MaxWrites
Runs(t) == tabs[t].page # "closed"

---------------------------------------------------------------------------
(* The queue of one tab.                                                   *)

\* notify: every change of a status is written to the device.
Becomes(item, status) ==
    [item EXCEPT !.status = status, !.writes = Append(@, status)]

Listed(queue) == {m \in Messages : queue[m].listed}
Unsettled(queue) ==
    {m \in Listed(queue) : queue[m].status \notin {"SENT", "FAILED"}}
ActiveCount(t) == Cardinality({m \in Listed(items[t]) : items[t][m].status # "SENT"})

FreeSlots(t, m) == {n \in Slots : requests[t][m][n] = Idle}
Asks(t, m) ==
    [requests[t][m] EXCEPT ![CHOOSE n \in FreeSlots(t, m) : TRUE] = Asked]

\* attemptSend of each message of S in turn, after the handler made the
\* tab's flags those of tab and its queue this queue.
AttemptSend(t, tab, queue, S) ==
    LET sent == IF tab.draining /\ tab.online THEN S ELSE {} IN
    /\ \A m \in sent : FreeSlots(t, m) # {}
    /\ tabs' = [tabs EXCEPT ![t] = tab]
    /\ items' = [items EXCEPT ![t] =
         [m \in Messages |-> IF m \in sent THEN Becomes(queue[m], "SENDING")
                             ELSE queue[m]]]
    /\ requests' = [requests EXCEPT ![t] =
         [m \in Messages |-> IF m \in sent THEN Asks(t, m) ELSE @[m]]]
    /\ Written(t)

AttemptOne(t, m, item) ==
    AttemptSend(t, tabs[t], [items[t] EXCEPT ![m] = item], {m})

\* resumeOnOpen.  Some messages may be past their seven days.
ResumeOnOpen(t, tab, queue) ==
    \E expired \in SUBSET Unsettled(queue) :
      LET resumed == Unsettled(queue) \ expired IN
      /\ IF expired = {} THEN UNCHANGED faults ELSE Fault
      /\ AttemptSend(t, tab,
           [m \in Messages |-> IF m \in expired THEN Becomes(queue[m], "FAILED")
                               ELSE IF m \in resumed
                                    THEN [queue[m] EXCEPT !.timer = FALSE]
                               ELSE queue[m]],
           resumed)

---------------------------------------------------------------------------
(* Composing, retrying and discarding.                                     *)

\* buildQueuedMessage, put in the queue and saved.
Queued == Becomes([NoItem EXCEPT !.listed = TRUE], "WAITING")

Send(t, m) ==
    /\ tabs[t].page = "open" /\ m \notin composed
    /\ ActiveCount(t) < MaxQueued
    /\ composed' = composed \cup {m}
    /\ AttemptOne(t, m, Queued)
    /\ UNCHANGED <<device, rows, signedIn, discarded, left, faults>>

Failed(t, m) ==
    tabs[t].page = "open" /\ items[t][m].listed /\ items[t][m].status = "FAILED"

RetryFailed(t, m) ==
    /\ Failed(t, m)
    /\ AttemptOne(t, m, Becomes(items[t][m], "WAITING"))
    /\ UNCHANGED <<device, rows, signedIn, member, faults>>

Unlist(item) == [item EXCEPT !.listed = FALSE, !.writes = Append(@, None)]

DiscardFailed(t, m) ==
    /\ Failed(t, m)
    /\ items' = [items EXCEPT ![t][m] = Unlist(@)]
    /\ Written(t)
    /\ discarded' = discarded \cup {m}
    /\ UNCHANGED <<tabs, requests, device, rows, signedIn, composed, left,
                   faults>>

---------------------------------------------------------------------------
(* Answers and timers.                                                     *)

\* scheduleRetry: a timer still set is no longer in timerHandle.
ScheduleRetry(item) ==
    [Becomes(item, "RETRYING") EXCEPT
       !.timer = TRUE, !.strays = @ + (IF item.timer THEN 1 ELSE 0)]

\* Fault: whatever ends the sending deletes the message.
OutcomeDeletes(item, answer) ==
    CASE answer \in {"ok", "terminal"} ->
           [Becomes(item, IF answer = "ok" THEN "SENT" ELSE "FAILED")
              EXCEPT !.deleting = TRUE]
      [] answer = "auth" -> Becomes(item, "RETRYING")
      [] answer = "retryable" -> ScheduleRetry(item)

Outcome(item, answer) ==
    CASE answer = "ok" -> [Becomes(item, "SENT") EXCEPT !.deleting = TRUE]
      [] answer = "auth" -> Becomes(item, "RETRYING")
      [] answer = "retryable" -> ScheduleRetry(item)
      [] answer = "terminal" -> Becomes(item, "FAILED")

HandleTransportResult(t, m, answer) ==
    /\ items' = [items EXCEPT ![t][m] = Outcome(@, answer)]
    /\ tabs' = IF answer = "auth" THEN [tabs EXCEPT ![t].draining = FALSE]
               ELSE tabs
    /\ Written(t)

Answer(t, m, n) ==
    /\ requests[t][m][n].heard /\ requests[t][m][n].stage \in Answers
    /\ HandleTransportResult(t, m, requests[t][m][n].stage)
    /\ requests' = [requests EXCEPT ![t][m][n] = Idle]
    /\ UNCHANGED <<device, rows, signedIn, member, faults>>

\* The request failed on its way, there or back, for the tab: what has
\* reached the server goes on there.
GiveUp(t, m, n) ==
    /\ Fault
    /\ requests[t][m][n].heard
    /\ HandleTransportResult(t, m, "retryable")
    /\ requests' = [requests EXCEPT ![t][m][n] = Unheard(@)]
    /\ UNCHANGED <<device, rows, signedIn, member>>

\* The timer of scheduleRetry, or one a later scheduleRetry replaced.
RetryTimer(t, m) ==
    /\ \/ items[t][m].timer /\ AttemptOne(t, m, [items[t][m] EXCEPT !.timer = FALSE])
       \/ items[t][m].strays > 0
          /\ AttemptOne(t, m, [items[t][m] EXCEPT !.strays = @ - 1])
    /\ UNCHANGED <<device, rows, signedIn, member, faults>>

\* The timer of scheduleDeletion.
Delete(t, m) ==
    /\ items[t][m].deleting
    /\ items' = [items EXCEPT ![t][m] = [Unlist(@) EXCEPT !.deleting = FALSE]]
    /\ Written(t)
    /\ UNCHANGED <<tabs, requests, device, rows, signedIn, member, faults>>

---------------------------------------------------------------------------
(* The server.                                                             *)

Reaches(t, m, n, stage) ==
    requests' = [requests EXCEPT ![t][m][n] =
      IF @.heard \/ stage \notin Answers THEN [@ EXCEPT !.stage = stage] ELSE Idle]
ServerStep == UNCHANGED <<tabs, items, device, signedIn, member>>

\* The session is checked, then the client message ID looked up.
FindMessage(t, m, n) ==
    /\ requests[t][m][n].stage = "asked"
    /\ Reaches(t, m, n, IF ~signedIn THEN "auth"
                        ELSE IF m \in Committed THEN "ok" ELSE "missed")
    /\ ServerStep /\ UNCHANGED <<rows, faults>>

\* The room takes no posts, the body is not valid, the CSRF token is stale.
Refuse(t, m, n) ==
    /\ Fault
    /\ requests[t][m][n].stage = "asked" /\ signedIn
    /\ Reaches(t, m, n, "terminal")
    /\ ServerStep /\ UNCHANGED rows

\* Fault: without the index.
UniqueAny(m) == TRUE
\* The unique index of the table lets one of two inserts in.
Unique(m) == m \notin Committed

\* Fault: answered as sent, and rolled back.
InsertLost(t, m, n) ==
    /\ requests[t][m][n].stage = "missed"
    /\ Reaches(t, m, n, "ok")
    /\ ServerStep /\ UNCHANGED <<rows, faults>>

InsertMessage(t, m, n) ==
    /\ requests[t][m][n].stage = "missed"
    /\ \/ Unique(m) /\ rows' = Append(rows, m) /\ Reaches(t, m, n, "ok")
       \/ ~Unique(m) /\ UNCHANGED rows /\ Reaches(t, m, n, "retryable")
    /\ ServerStep /\ UNCHANGED faults

\* A request nobody waits for is lost on its way, or with the process that
\* served it.
Fade(t, m, n) ==
    /\ requests[t][m][n] # Idle /\ ~requests[t][m][n].heard
    /\ requests' = [requests EXCEPT ![t][m][n] = Idle]
    /\ ServerStep /\ UNCHANGED <<rows, faults>>

---------------------------------------------------------------------------
(* The browser: IndexedDB, the network, pages and the session.             *)

Flush(t, m) ==
    /\ items[t][m].writes # <<>>
    /\ device' = [device EXCEPT ![m] = Head(items[t][m].writes)]
    /\ items' = [items EXCEPT ![t][m].writes = Tail(@)]
    /\ UNCHANGED <<tabs, requests, rows, signedIn, member, faults>>

GoOffline(t) ==
    /\ Fault
    /\ Runs(t) /\ tabs[t].online
    /\ tabs' = [tabs EXCEPT ![t].online = FALSE]
    /\ UNCHANGED <<items, requests, device, rows, signedIn, member>>

\* reportOnline
\* Fault: what was composed offline has no retry to resume.
ResumableRetrying(t) ==
    {m \in Listed(items[t]) : items[t][m].status = "RETRYING"}
Resumable(t) ==
    {m \in Listed(items[t]) : items[t][m].status \in {"WAITING", "RETRYING"}}
GoOnline(t) ==
    /\ Runs(t) /\ ~tabs[t].online
    /\ AttemptSend(t, [tabs[t] EXCEPT !.online = TRUE],
         [m \in Messages |-> IF m \in Resumable(t)
                             THEN [items[t][m] EXCEPT !.timer = FALSE]
                             ELSE items[t][m]],
         Resumable(t))
    /\ UNCHANGED <<device, rows, signedIn, member, faults>>

\* promoteSlot pauses the drain, and resumes it when the room caught up or
\* could not.  Two promotions may overlap.
Paused(tab) == [tab EXCEPT !.draining = FALSE, !.promotions = @ + 1]
PauseDrain(t) ==
    /\ Fault
    /\ Runs(t)
    /\ tabs' = [tabs EXCEPT ![t] = Paused(@)]
    /\ UNCHANGED <<items, requests, device, rows, signedIn, member>>

ResumeDrain(t) ==
    /\ tabs[t].promotions > 0
    /\ ResumeOnOpen(t, [tabs[t] EXCEPT !.draining = TRUE, !.promotions = @ - 1],
                    items[t])
    /\ UNCHANGED <<device, rows, signedIn, member>>

\* hydrateNamespace, then createOutbox.
Hydrated(m) ==
    IF device[m] = None THEN NoItem
    ELSE [NoItem EXCEPT !.listed = TRUE, !.status = device[m]]
Open(t) ==
    /\ ~Runs(t) /\ signedIn
    /\ ResumeOnOpen(t, [page |-> "open", draining |-> TRUE, online |-> TRUE,
                        promotions |-> 0],
                    [m \in Messages |-> Hydrated(m)])
    /\ UNCHANGED <<device, rows, signedIn, member>>

\* The page goes, with its memory and the writes that did not complete.
Unload(t) ==
    /\ tabs' = [tabs EXCEPT ![t] = Closed]
    /\ items' = [items EXCEPT ![t] = [m \in Messages |-> NoItem]]
    /\ requests' = [requests EXCEPT ![t] =
         [m \in Messages |-> [n \in Slots |-> Unheard(@[m][n])]]]

Close(t) ==
    /\ Fault
    /\ Runs(t) /\ Unload(t)
    /\ UNCHANGED <<device, rows, signedIn, member>>

\* The member reloads a page whose session had expired.
Reload(t) ==
    /\ tabs[t].page = "open" /\ signedIn
    /\ ~tabs[t].draining /\ tabs[t].promotions = 0
    /\ Unload(t)
    /\ UNCHANGED <<device, rows, signedIn, member, faults>>

ExpireSession ==
    /\ Fault
    /\ signedIn /\ signedIn' = FALSE
    /\ UNCHANGED <<page, device, rows, member>>

SignIn ==
    /\ ~signedIn /\ signedIn' = TRUE
    /\ UNCHANGED <<page, device, rows, member, faults>>

\* Logging out clears the member's rows first, unless the device refuses or
\* takes too long, and goes ahead either way.
LogOut(t) ==
    /\ Fault
    /\ tabs[t].page = "open"
    /\ tabs' = [tabs EXCEPT ![t].page = "leaving"]
    /\ \/ /\ device' = [m \in Messages |-> None]
          /\ left' = left \cup {m \in Messages : device[m] # None}
       \/ UNCHANGED <<device, left>>
    /\ UNCHANGED <<items, requests, rows, signedIn, composed, discarded>>

Leave(t) ==
    /\ tabs[t].page = "leaving"
    /\ signedIn' = FALSE
    /\ Unload(t)
    /\ UNCHANGED <<device, rows, member, faults>>

---------------------------------------------------------------------------
TabStep(t) ==
    \/ GoOnline(t) \/ ResumeDrain(t) \/ Open(t) \/ Reload(t) \/ Leave(t)
    \/ \E m \in Messages : RetryTimer(t, m) \/ Delete(t, m) \/ Flush(t, m)

RequestStep(t, m, n) ==
    \/ Answer(t, m, n) \/ FindMessage(t, m, n) \/ InsertMessage(t, m, n)
    \/ Fade(t, m, n)

Disturb(t) ==
    \/ GoOffline(t) \/ PauseDrain(t) \/ Close(t) \/ LogOut(t)
    \/ \E m \in Messages : Send(t, m) \/ RetryFailed(t, m) \/ DiscardFailed(t, m)
    \/ \E m \in Messages, n \in Slots : GiveUp(t, m, n) \/ Refuse(t, m, n)

Progress ==
    \/ SignIn
    \/ \E t \in Tabs : TabStep(t)
    \/ \E t \in Tabs, m \in Messages, n \in Slots : RequestStep(t, m, n)

Next == Progress \/ ExpireSession \/ \E t \in Tabs : Disturb(t)

Spec == Init /\ [][Next]_vars

\* Something that is due happens: a timer fires, a write completes, a request
\* ends, an offline browser comes back online, the member signs in again and
\* opens or reloads a page.  What is due ends, so this is all of it in time.
Fairness == WF_vars(Progress)

FairSpec == Spec /\ Fairness

---------------------------------------------------------------------------
(* Properties.                                                             *)

Item == [listed : BOOLEAN, status : Statuses \cup {None}, timer : BOOLEAN,
         strays : Nat, deleting : BOOLEAN, writes : Seq(Statuses \cup {None})]
Request == [stage : Answers \cup {"idle", "asked", "missed"},
            heard : BOOLEAN]
Tab == [page : {"closed", "open", "leaving"}, draining : BOOLEAN,
        online : BOOLEAN, promotions : Nat]

\* The type of every variable.
OutboxTypeOK ==
    /\ tabs \in [Tabs -> Tab]
    /\ items \in [Tabs -> [Messages -> Item]]
    /\ \A t \in Tabs, m \in Messages :
         items[t][m].listed => items[t][m].status # None
    /\ requests \in [Tabs -> [Messages -> [Slots -> Request]]]
    /\ device \in [Messages -> Statuses \cup {None}]
    /\ rows \in Seq(Messages)
    /\ signedIn \in BOOLEAN
    /\ composed \subseteq Messages
    /\ discarded \subseteq Messages /\ left \subseteq Messages
    /\ faults \in 0 .. MaxFaults

\* However many tabs and retries send one message, the server commits one
\* row for its client ID.
CommittedOnce == \A a, b \in DOMAIN rows : rows[a] = rows[b] => a = b

\* "Sent", in a tab or on the device, means a committed message.
SentIsCommitted ==
    \A m \in Messages :
      (device[m] = "SENT" \/ \E t \in Tabs : items[t][m].status = "SENT")
        => m \in Committed

\* The device lets go of a queued message only when the server committed it
\* or the member dropped it, whatever the tabs and requests do.
ForgetsOnlySettled ==
    [][\A m \in Messages :
         device[m] # None /\ device'[m] = None => m \in Committed' \cup Dropped']_vars

\* Every message that reached the device is in the end committed, stopped at
\* "Couldn't send" for the member to decide, or dropped by the member.
MessagesSettle ==
    \A m \in Messages :
      device[m] # None ~>
        (m \in Committed \cup Dropped \/ device[m] = "FAILED")

\* Once the member discarded a message at "Couldn't send" and it left the
\* queue of the tab, that tab starts no request for it.
DiscardedStaysUnsent ==
    [][\A t \in Tabs, m \in discarded, n \in Slots :
         ~items[t][m].listed /\ ~items'[t][m].listed /\ requests[t][m][n] = Idle
           => requests'[t][m][n] = Idle]_vars
=============================================================================
