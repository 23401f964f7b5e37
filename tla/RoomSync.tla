------------------------------ MODULE RoomSync ------------------------------
(***************************************************************************)
(* What one member's open page of the family chat room shows.              *)
(*                                                                         *)
(* The server commits messages under increasing ids.  The page learns of   *)
(* them in four ways: pages of history it asks for (`history.js`), pushes  *)
(* of the subscription (`mount_browser_sync.js`), the catch-up a promotion *)
(* runs after every reconnect (`reconnect.js`), and the answers to its own *)
(* sends (`mount_browser_composer.js`).  All four write the same window of *)
(* rendered rows (`real_store.js`), and nothing orders them but the order  *)
(* in which they happen to arrive.                                         *)
(*                                                                         *)
(* One action is one browser task: a handler up to its next await on the   *)
(* network.  The socket, the HTTP requests and the server sit behind the   *)
(* actions that read `committed`.                                          *)
(***************************************************************************)
EXTENDS Integers, Sequences, FiniteSets

CONSTANTS MaxMessages,    \* bound: messages the room ever holds
          PageSize,       \* MESSAGE_PAGE_SIZE, 50 in the code
          ContextSize,    \* CONTEXT_PAGE_SIZE, 20 in the code
          MaxGenerations, \* bound: reconnects of one page
          Requests,       \* bound: requests for history a page makes
          MaxTurns        \* bound: reconnects and requests together

ASSUME RoomAssumption ==
  /\ MaxMessages \in Nat
  /\ PageSize \in Nat \ {0}
  /\ ContextSize \in Nat \ {0}
  /\ MaxGenerations \in Nat
  /\ MaxTurns \in Nat

NoId == 0       \* null: ids start at 1
Pending == -1   \* the row of the own message before it is committed
Ids == 1 .. MaxMessages
Generations == 1 .. MaxGenerations

VARIABLES
  committed,   \* the server: ids 1 .. committed exist
  own,         \* the member's one queued message, as the outbox has it
  ownId,       \* the id the server gave it
  phase,       \* mountBrowser: loading, joining, ready
  since,       \* committed when the first page was asked for
  window,      \* RealStoreState and the rows on screen
  marker,      \* the stored read position
  highest,     \* highestCommittedId
  generation,  \* reconnect generation
  promotions,  \* the promoteSlot calls, by generation
  live,        \* the subscription of the current socket is established
  pushes,      \* ids published to it and not handled yet
  paused,      \* outbox.pauseDrain
  asked,       \* the requests for history
  owed         \* history: ids the subscription or the catch-up has yet to bring

serverVars == <<committed, own, ownId>>
socketVars == <<live, pushes>>
catchUpVars == <<highest, generation, promotions, paused>>
readingVars == <<window, marker, asked>>
vars == <<serverVars, phase, since, readingVars, socketVars, catchUpVars, owed>>

-----------------------------------------------------------------------------
(* Pages of history: `familyChatMessages`. *)

Larger(a, b) == IF a > b THEN a ELSE b
Smaller(a, b) == IF a < b THEN a ELSE b

Span(lo, hi) == [i \in 1 .. Larger(hi - lo + 1, 0) |-> lo + i - 1]

\* upTo is the newest id the server had when it read the page.
LatestPage(upTo, limit) ==
  LET lo == Larger(upTo - limit + 1, 1)
  IN [nodes |-> Span(lo, upTo), hasOlder |-> lo > 1, hasNewer |-> FALSE]

BeforePage(id, limit) ==
  LET lo == Larger(id - limit, 1)
  IN [nodes |-> Span(lo, id - 1), hasOlder |-> lo > 1, hasNewer |-> TRUE]

AfterPage(id, upTo, limit) ==
  LET hi == Smaller(upTo, id + limit)
  IN [nodes |-> Span(id + 1, hi), hasOlder |-> TRUE, hasNewer |-> hi < upTo]

\* An absent cursor is sent as no cursor at all, which asks for the newest page.
OlderThan(id, upTo) ==
  IF id = NoId THEN LatestPage(upTo, PageSize) ELSE BeforePage(id, PageSize)

-----------------------------------------------------------------------------
(* The window: `real_store.js`. *)

EmptyWindow ==
  [rows |-> <<>>, oldest |-> NoId, newest |-> NoId, hasNewer |-> FALSE,
   hasOlder |-> TRUE, atBottom |-> TRUE, indicator |-> FALSE]

Entries(seq) == {seq[i] : i \in DOMAIN seq}
Shown(w) == Entries(w.rows) \ {Pending}
hasRendered(w, id) == id \in Shown(w)

appendMessages(w, nodes) ==
  IF nodes = <<>> THEN w
  ELSE [w EXCEPT !.rows = @ \o nodes,
                 !.oldest = IF @ = NoId THEN nodes[1] ELSE @,
                 !.newest = nodes[Len(nodes)]]

resetWindow(w) == [w EXCEPT !.rows = <<>>, !.oldest = NoId, !.newest = NoId]

renderInitial(w, page) ==
  [appendMessages(resetWindow(w), page.nodes) EXCEPT
     !.hasNewer = FALSE, !.indicator = FALSE, !.atBottom = TRUE,
     !.hasOlder = page.nodes # <<>> /\ page.hasOlder]

renderResumed(w, context, unread, near) ==
  [appendMessages(appendMessages(resetWindow(w), context.nodes), unread.nodes) EXCEPT
     !.hasNewer = unread.hasNewer, !.indicator = unread.hasNewer,
     !.hasOlder = context.hasOlder, !.atBottom = near]

prependOlder(w, page) ==
  IF page.nodes = <<>> THEN [w EXCEPT !.hasOlder = page.hasOlder]
  ELSE [w EXCEPT !.rows = page.nodes \o @, !.oldest = page.nodes[1],
                 !.hasOlder = page.hasOlder]

appendNewer(w, page) ==
  [appendMessages(w, page.nodes) EXCEPT
     !.hasNewer = page.hasNewer, !.indicator = @ /\ page.hasNewer]

scrolledToBottom(w) == [w EXCEPT !.atBottom = TRUE, !.indicator = @ /\ w.hasNewer]

renderPending(w) == [scrolledToBottom(w) EXCEPT !.rows = Append(@, Pending)]

reportPending(w) == [w EXCEPT !.atBottom = FALSE, !.indicator = TRUE]

\* pendingNode.remove()
RemovePending(rows) ==
  LET k == CHOOSE k \in DOMAIN rows : rows[k] = Pending
  IN IF Pending \in Entries(rows)
     THEN [i \in 1 .. Len(rows) - 1 |-> IF i < k THEN rows[i] ELSE rows[i + 1]]
     ELSE rows

\* Fault: the answer ignores that a push may have rendered the message.
ReplaceAnyway(w, id) ==
  [w EXCEPT !.rows = Append(RemovePending(@), id), !.newest = id]

(***************************************************************************)
(* The answer to an own send takes the place of its pending row, or of     *)
(* nothing when a push has rendered the message already.                   *)
(***************************************************************************)
reconcile(w, id) ==
  IF hasRendered(w, id)
  THEN [w EXCEPT !.rows = RemovePending(@)]
  ELSE IF Pending \in Entries(w.rows)
  THEN [w EXCEPT !.rows = [i \in DOMAIN @ |-> IF @[i] = Pending THEN id ELSE @[i]],
                 !.newest = id]
  ELSE [w EXCEPT !.rows = Append(@, id), !.newest = id]

\* Ids in ascending order, as pages bring them.
Rank(id, ids) == Cardinality({other \in ids : other <= id})
Ascending(ids) == [i \in 1 .. Cardinality(ids) |-> CHOOSE id \in ids : Rank(id, ids) = i]

(***************************************************************************)
(* Arrivals, in order.  One that is rendered already is dropped; while the *)
(* window stops short of the newest message they are only reported.        *)
(***************************************************************************)
receiveRemote(w, nodes, near) ==
  LET fresh == Ascending(Entries(nodes) \ Shown(w))
  IN IF fresh = <<>> THEN w
     ELSE IF w.hasNewer THEN reportPending(w)
     ELSE [w EXCEPT !.rows = @ \o fresh, !.newest = fresh[Len(fresh)],
                    !.atBottom = near, !.indicator = ~near]

\* Fault: the last candidate wins.
lastWrite(current, candidate) == IF candidate = NoId THEN current ELSE candidate

\* The read position only moves forward.
furthest(current, candidate) == Larger(current, candidate)

noteArrival(w) == IF w.atBottom THEN furthest(marker, w.newest) ELSE marker

-----------------------------------------------------------------------------
NoPromotion == [step |-> "idle", after |-> NoId, upTo |-> NoId, over |-> FALSE]
NoRequest == [kind |-> "none", cursor |-> NoId, since |-> NoId]
Ended == [NoRequest EXCEPT !.kind = "ended"]

BoundTurns == generation + Cardinality({r \in Requests : asked[r] # NoRequest}) < MaxTurns

(***************************************************************************)
(* The page opens: the room has some history, the device some read         *)
(* position in it, and the outbox perhaps a message of an earlier visit.   *)
(***************************************************************************)
Init ==
  /\ committed \in 0 .. MaxMessages
  /\ marker \in 0 .. committed
  /\ own \in {"none", "queued"}
  /\ ownId = NoId
  /\ phase = "loading"
  /\ window = EmptyWindow
  /\ highest = NoId
  /\ generation = 0
  /\ promotions = [g \in Generations |-> NoPromotion]
  /\ live = FALSE
  /\ pushes = {}
  /\ paused = FALSE
  /\ since = committed
  /\ asked = [r \in Requests |-> NoRequest]
  /\ owed = {}
-----------------------------------------------------------------------------
(* Opening the room: `mountBrowser`. *)

\* Rows of the outbox's own message, waiting or already answered.
renderResumedPending(w) ==
  IF own = "none" THEN w
  ELSE IF own = "answered" THEN reconcile(w, ownId)
  ELSE renderPending(w)

(***************************************************************************)
(* The first page: from the first unread message, with some context above  *)
(* it, or the newest page when nothing was unread or nothing was ever      *)
(* read.  The newest page is a second request, which may find more.        *)
(***************************************************************************)
loadInitial(read, upTo, near) ==
  LET unread == AfterPage(marker, read, PageSize)
  IN IF marker = NoId \/ unread.nodes = <<>>
     THEN renderInitial(window, LatestPage(upTo, PageSize))
     ELSE renderResumed(window, BeforePage(unread.nodes[1], ContextSize), unread, near)

Open ==
  /\ phase = "loading"
  /\ \E read \in since .. committed, upTo \in since .. committed, near \in BOOLEAN :
       LET w == loadInitial(read, upTo, near)
       IN /\ read <= upTo
          /\ window' = renderResumedPending(w)
          /\ marker' = noteArrival(w)
          /\ highest' = w.newest
  /\ phase' = "joining"
  /\ since' = NoId
  /\ UNCHANGED <<serverVars, socketVars, generation, promotions, paused, asked, owed>>

\* All attempts failed: the room opens empty.
OpenFails ==
  /\ phase = "loading"
  /\ window' = renderResumedPending(window)
  /\ phase' = "joining"
  /\ since' = NoId
  /\ UNCHANGED <<serverVars, marker, asked, socketVars, catchUpVars, owed>>

\* attemptInitialSubscribe: a failed join leaves the room without pushes.
Join ==
  /\ phase = "joining"
  /\ phase' = "ready"
  /\ live' \in BOOLEAN
  /\ UNCHANGED <<serverVars, since, readingVars, pushes, catchUpVars, owed>>

-----------------------------------------------------------------------------
(* The server, and the subscription it publishes to. *)

Publish(id) ==
  /\ pushes' = IF live THEN pushes \cup {id} ELSE pushes
  /\ owed' = IF live THEN owed \cup {id} ELSE owed

Commit ==
  /\ committed < MaxMessages
  /\ committed' = committed + 1
  /\ Publish(committed + 1)
  /\ UNCHANGED <<own, ownId, phase, since, readingVars, live, catchUpVars>>

\* handleSubscriptionData; pushes may overtake one another.
Push ==
  \E id \in pushes, near \in BOOLEAN :
    /\ pushes' = pushes \ {id}
    /\ owed' = owed \ {id}
    /\ highest' = id
    /\ window' = receiveRemote(window, <<id>>, near)
    /\ marker' = IF hasRendered(window, id) THEN marker ELSE noteArrival(window')
    /\ UNCHANGED <<serverVars, phase, since, asked, live, generation, promotions, paused>>

\* The transport dies, or its slot stops hearing of commits: nobody is told.
Drop ==
  /\ live
  /\ live' = FALSE
  /\ pushes' = {}
  /\ owed' = {}
  /\ UNCHANGED <<serverVars, phase, since, readingVars, catchUpVars>>

-----------------------------------------------------------------------------
(* A reconnect: `promoteSlot`, from the socket opening again. *)

CatchingUp(g) == promotions[g].step \in {"asking", "answered"}
Running(g) == promotions[g].step = "subscribing" \/ CatchingUp(g)
Current(g) == g = generation

SetPromotion(g, step, after, upTo, over) ==
  promotions' = [promotions EXCEPT ![g] =
                   [step |-> step, after |-> after, upTo |-> upTo, over |-> over]]

(***************************************************************************)
(* onReconnect: pause the drain, close the socket, count a generation and  *)
(* subscribe on a new socket.  A promotion still running is not stopped,   *)
(* but what its catch-up brings will be dropped; `over` remembers that     *)
(* this one started over one still catching up.                            *)
(***************************************************************************)
Reconnect ==
  /\ phase = "ready" /\ ~live
  /\ generation < MaxGenerations /\ BoundTurns
  /\ generation' = generation + 1
  /\ SetPromotion(generation + 1, "subscribing", NoId, NoId,
                  \E g \in Generations : CatchingUp(g))
  /\ paused' = TRUE
  /\ UNCHANGED <<serverVars, phase, since, readingVars, socketVars, highest, owed>>

(***************************************************************************)
(* subscribeFirstStep: only the newest generation has a socket to join on; *)
(* one overtaken here waits for ever.  The catch-up starts from what is    *)
(* the highest id at this moment.                                          *)
(***************************************************************************)
Subscribed(g) ==
  /\ Current(g)
  /\ promotions[g].step = "subscribing"
  /\ SetPromotion(g, "asking", highest, NoId, promotions[g].over)
  /\ live' = TRUE
  /\ owed' = IF highest = NoId THEN {} ELSE highest + 1 .. committed
  /\ UNCHANGED <<serverVars, phase, since, readingVars, pushes, highest, generation>>

\* Fault: the drain resumes as soon as the subscription is back.
SubscribeAndResume(g) == Subscribed(g) /\ paused' = FALSE

Subscribe(g) == Subscribed(g) /\ UNCHANGED paused

(***************************************************************************)
(* fetchMissed: page after page until one has nothing newer, so that it is *)
(* the last page's read that counts.                                       *)
(***************************************************************************)
FetchMissed(g) ==
  /\ promotions[g].step = "asking"
  /\ SetPromotion(g, "answered", promotions[g].after, committed, promotions[g].over)
  /\ UNCHANGED <<serverVars, phase, since, readingVars, socketVars, highest, generation,
                 paused, owed>>

\* Fault: one page, whatever it says of newer ones.
firstMissedPage(p) == Span(p.after + 1, Smaller(p.after + PageSize, p.upTo))

missedMessages(p) ==
  IF p.after = NoId
  THEN LatestPage(p.upTo, PageSize).nodes
  ELSE Span(p.after + 1, p.upTo)

End(g, step) == SetPromotion(g, step, NoId, NoId, FALSE)

(***************************************************************************)
(* The rest of the promotion is one task: check the generation, merge and  *)
(* resume the drain.                                                       *)
(***************************************************************************)
Merge(g) ==
  LET missed == missedMessages(promotions[g])
      n == Len(missed)
  IN /\ Current(g)
     /\ promotions[g].step = "answered"
     /\ highest' = IF n = 0 THEN highest ELSE missed[n]
     /\ \E near \in BOOLEAN : window' = receiveRemote(window, missed, near)
     /\ owed' = owed \ Entries(missed)
     /\ End(g, "merged")
     /\ paused' = FALSE
     /\ UNCHANGED <<serverVars, phase, since, marker, asked, socketVars, generation>>

\* The same task, when a newer promotion started: the messages are dropped, and the
\* drain is resumed all the same.
Overtaken(g) ==
  /\ ~Current(g)
  /\ promotions[g].step = "answered"
  /\ End(g, "ended")
  /\ paused' = FALSE
  /\ UNCHANGED <<serverVars, phase, since, readingVars, socketVars, highest, generation, owed>>

\* The join is refused, or the query failed four times.
Fails(g) ==
  /\ \/ Current(g) /\ promotions[g].step = "subscribing"
     \/ promotions[g].step = "asking"
  /\ End(g, "ended")
  /\ UNCHANGED <<serverVars, phase, since, readingVars, socketVars, highest, generation, owed>>

\* Fault: no `finally`.
GiveUpPaused(g) == Fails(g) /\ UNCHANGED paused

\* Only `finally` runs.
GiveUp(g) == Fails(g) /\ paused' = FALSE

-----------------------------------------------------------------------------
(* The member's own message: the composer and the outbox. *)

Compose ==
  /\ own = "none"
  /\ phase # "loading"
  /\ own' = "queued"
  /\ window' = renderPending(window)
  /\ UNCHANGED <<committed, ownId, phase, since, marker, asked, socketVars, catchUpVars, owed>>

\* A drain that is not paused starts an attempt.
Send ==
  /\ own = "queued"
  /\ ~paused
  /\ own' = "sending"
  /\ UNCHANGED <<committed, ownId, phase, since, readingVars, socketVars, catchUpVars, owed>>

\* The server commits it and publishes it like any other message.
CommitOwn ==
  /\ own = "sending"
  /\ committed < MaxMessages
  /\ committed' = committed + 1
  /\ ownId' = committed + 1
  /\ own' = "posted"
  /\ Publish(committed + 1)
  /\ UNCHANGED <<phase, since, readingVars, live, catchUpVars>>

\* The mutation answers; watchPendingMessage follows it once the room is open.
Answer ==
  /\ own = "posted"
  /\ own' = "answered"
  /\ IF phase = "loading"
     THEN UNCHANGED <<window, marker>>
     ELSE /\ window' = reconcile(window, ownId)
          /\ marker' = noteArrival(window')
  /\ UNCHANGED <<committed, ownId, phase, since, asked, socketVars, catchUpVars, owed>>

-----------------------------------------------------------------------------
(* Reading: `history.js`.  Every gesture asks at once, with the cursor of  *)
(* that moment, whatever is asked already; the page is rendered whenever   *)
(* it comes, into the window as it then is.                                *)

Ask(kind, cursor) ==
  /\ BoundTurns
  /\ \E r \in Requests :
       /\ asked[r] = NoRequest
       /\ asked' = [asked EXCEPT ![r] = [kind |-> kind, cursor |-> cursor, since |-> committed]]

LoadOlder ==
  /\ window.hasOlder
  /\ Ask("older", window.oldest)
  /\ UNCHANGED <<serverVars, phase, since, window, marker, socketVars, catchUpVars, owed>>

\* reportScrolledToBottom: there is more to load, or all of it is read.
ScrollToBottom ==
  /\ phase # "loading"
  /\ window' = scrolledToBottom(window)
  /\ \/ /\ window.hasNewer
        /\ Ask("newer", window.newest)
        /\ UNCHANGED marker
     \/ /\ ~window.hasNewer
        /\ marker' = furthest(marker, window.newest)
        /\ UNCHANGED asked
  /\ UNCHANGED <<serverVars, phase, since, socketVars, catchUpVars, owed>>

JumpToLatest ==
  /\ window.indicator
  /\ Ask("latest", NoId)
  /\ UNCHANGED <<serverVars, phase, since, window, marker, socketVars, catchUpVars, owed>>

Taken(r, kind) ==
  /\ asked[r].kind = kind
  /\ asked' = [asked EXCEPT ![r] = Ended]
  /\ UNCHANGED <<serverVars, phase, since, socketVars, catchUpVars, owed>>

OlderArrives(r) ==
  /\ Taken(r, "older")
  /\ \E upTo \in asked[r].since .. committed :
       window' = prependOlder(window, OlderThan(asked[r].cursor, upTo))
  /\ UNCHANGED marker

NewerArrives(r) ==
  /\ Taken(r, "newer")
  /\ \E upTo \in asked[r].since .. committed :
       window' = appendNewer(window, AfterPage(asked[r].cursor, upTo, PageSize))
  /\ UNCHANGED marker

LatestArrives(r) ==
  /\ Taken(r, "latest")
  /\ \E upTo \in asked[r].since .. committed :
       window' = renderInitial(window, LatestPage(upTo, PageSize))
  /\ marker' = furthest(marker, window'.newest)

\* The request fails: nothing tries again.
RequestFails(r) ==
  /\ \E kind \in {"older", "newer", "latest"} : Taken(r, kind)
  /\ UNCHANGED <<window, marker>>

-----------------------------------------------------------------------------
Network == Open \/ OpenFails \/ Join \/ Commit \/ Push \/ Drop \/ Reconnect

Promote(g) == Subscribe(g) \/ FetchMissed(g) \/ Merge(g) \/ Overtaken(g) \/ GiveUp(g)

Outbox == Send \/ CommitOwn \/ Answer

Member == Compose \/ LoadOlder \/ ScrollToBottom \/ JumpToLatest

PageArrives(r) == OlderArrives(r) \/ NewerArrives(r) \/ LatestArrives(r) \/ RequestFails(r)

Next ==
  \/ Network \/ Outbox \/ Member
  \/ \E g \in Generations : Promote(g)
  \/ \E r \in Requests : PageArrives(r)

Spec == Init /\ [][Next]_vars

-----------------------------------------------------------------------------
(* Properties *)

(***************************************************************************)
(* Subscribing before the catch-up query leaves no gap between the two:    *)
(* once a promotion has merged, and while its subscription lives, every    *)
(* message after the highest id it started from has reached the page or is *)
(* on its way, however commits, pushes and pages interleave.  (With no     *)
(* highest id a catch-up brings the newest page only.)                     *)
(***************************************************************************)
NothingMissed ==
  live /\ (\E g \in Generations : Current(g) /\ promotions[g].step = "merged") =>
    owed \subseteq pushes

(***************************************************************************)
(* Whatever tells the page of a message first, and however often it is     *)
(* told, no push, catch-up, own send, first page or jump gives a message a *)
(* second row, and the own message never has two pending ones.  Only a     *)
(* page of older or newer history may: it is added without a look at what  *)
(* is rendered.                                                            *)
(***************************************************************************)
Twice(w, id) == \E i, j \in DOMAIN w.rows : i # j /\ w.rows[i] = id /\ w.rows[j] = id

HistoryAdded ==
  \E r \in Requests : asked[r].kind \in {"older", "newer"} /\ asked'[r] = Ended

NoSecondRow ==
  [][\A id \in Ids \cup {Pending} :
       Twice(window', id) => Twice(window, id) \/ (id # Pending /\ HistoryAdded)]_vars

(***************************************************************************)
(* Catch-up comes before the queue: while a reconnect is at work, no own   *)
(* send starts, unless the reconnect started over one still catching up,   *)
(* whose `finally` resumes the drain for both.                             *)
(***************************************************************************)
SendsAfterCatchUp ==
  [][own = "queued" /\ own' = "sending" =>
       \A g \in Generations : Current(g) /\ Running(g) => promotions[g].over]_vars

(***************************************************************************)
(* The read position never moves back, although the newest known id does   *)
(* when a catch-up brings messages older than a push already rendered.     *)
(***************************************************************************)
MarkerForward == [][marker' >= marker]_vars

(***************************************************************************)
(* The drain is paused only while the newest promotion is still at work:   *)
(* neither a refused join, a failing catch-up nor a promotion overtaken by *)
(* the next one leaves the member's queue stopped.                         *)
(***************************************************************************)
NeverLeftPaused == paused => \E g \in Generations : Current(g) /\ Running(g)

(***************************************************************************)
(* What real_store_render.js says of a window that stops short of the      *)
(* newest message: nothing is added below its newest row that leaves a gap *)
(* there.  An own send does.                                               *)
(***************************************************************************)
AppendsContiguous ==
  [][window.hasNewer /\ Shown(window) \subseteq Shown(window') =>
       \A id \in Shown(window') :
         id > window.newest => window.newest .. id \subseteq Shown(window')]_vars

-----------------------------------------------------------------------------
(* What one would like to hold and the code does not give.                 *)

\* No own send starts while a reconnect is at work, as mount_browser_sync.js says.
NeverAheadOfCatchUp ==
  [][own = "queued" /\ own' = "sending" =>
       \A g \in Generations : Current(g) => ~Running(g)]_vars

\* Once nothing is on its way, the rows are one stretch of the room's messages, once
\* each, that reaches the newest one or still offers the way to it.
Quiet ==
  /\ phase = "ready" /\ live /\ pushes = {} /\ own # "posted"
  /\ \A r \in Requests : asked[r] \in {NoRequest, Ended}
  /\ \A g \in Generations : Current(g) => ~Running(g)

WindowIsRight ==
  Quiet =>
    LET shown == Shown(window)
    IN /\ \A a, b \in shown : a .. b \subseteq shown
       /\ shown # {} => committed \in shown \/ window.hasNewer
       /\ \A id \in shown : ~Twice(window, id)

=============================================================================
