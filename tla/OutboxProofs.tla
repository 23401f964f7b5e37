---------------------------- MODULE OutboxProofs ----------------------------
(* Proofs about Outbox, for any number of tabs, messages and requests.     *)
EXTENDS Outbox, TLAPS

Typed ==
    /\ tabs \in [Tabs -> Tab]
    /\ items \in [Tabs -> [Messages -> Item]]
    /\ requests \in [Tabs -> [Messages -> [Slots -> Request]]]
    /\ device \in [Messages -> Statuses \cup {None}]
    /\ rows \in Seq(Messages)
    /\ signedIn \in BOOLEAN
    /\ composed \subseteq Messages
    /\ discarded \subseteq Messages /\ left \subseteq Messages
    /\ faults \in 0 .. MaxFaults

Settled == Committed \cup Dropped

\* What a tab's copy of a message may hold: a status once it is in the
\* queue; "Sent", or a deletion to come, and a write of "Sent" under way if
\* the message is sent; a removal of its row under way if it is settled.
Grounded(item, m, sent, settled) ==
    /\ item.listed => item.status # None
    /\ item.status = "SENT" \/ item.deleting => m \in sent
    /\ \A k \in DOMAIN item.writes :
         /\ item.writes[k] = "SENT" => m \in sent
         /\ item.writes[k] = None => m \in settled

ItemsGrounded == \A t \in Tabs, m \in Messages :
    Grounded(items[t][m], m, Committed, Settled)
AnswersGrounded == \A t \in Tabs, m \in Messages, n \in Slots :
    requests[t][m][n].stage = "ok" => m \in Committed
DeviceGrounded == \A m \in Messages : device[m] = "SENT" => m \in Committed

OutboxInv ==
    /\ Typed
    /\ CommittedOnce /\ ItemsGrounded /\ AnswersGrounded /\ DeviceGrounded

LEMMA OutboxInvTypes == OutboxInv => OutboxTypeOK
BY DEF OutboxInv, Typed, OutboxTypeOK, ItemsGrounded, Grounded

LEMMA OutboxInvSent == OutboxInv => SentIsCommitted
BY DEF OutboxInv, SentIsCommitted, ItemsGrounded, Grounded, DeviceGrounded

---------------------------------------------------------------------------
(* The operators that change one item.                                     *)

LEMMA Blank ==
  ASSUME NEW m, NEW sent, NEW settled
  PROVE  NoItem \in Item /\ Grounded(NoItem, m, sent, settled)
BY DEF NoItem, Item, Grounded, None, Statuses

LEMMA Weaker ==
  ASSUME NEW item, NEW m, NEW sent, NEW settled,
         NEW sent2, NEW settled2,
         Grounded(item, m, sent, settled), m \in sent => m \in sent2,
         m \in settled => m \in settled2
  PROVE  Grounded(item, m, sent2, settled2)
BY DEF Grounded

\* Appending a write to those under way.
LEMMA Writes ==
  ASSUME NEW w \in Seq(Statuses \cup {None}), NEW s \in Statuses \cup {None}
  PROVE  /\ Append(w, s) \in Seq(Statuses \cup {None})
         /\ \A k \in DOMAIN Append(w, s) :
              \/ k \in DOMAIN w /\ Append(w, s)[k] = w[k]
              \/ Append(w, s)[k] = s
OBVIOUS

LEMMA BecomesGrounded ==
  ASSUME NEW item \in Item, NEW status \in Statuses,
         NEW m, NEW sent, NEW settled,
         Grounded([item EXCEPT !.status = status], m, sent, settled)
  PROVE  /\ Becomes(item, status) \in Item
         /\ Grounded(Becomes(item, status), m, sent, settled)
         /\ Becomes(item, status).timer = item.timer
         /\ Becomes(item, status).strays = item.strays
         /\ Becomes(item, status).deleting = item.deleting
         /\ Becomes(item, status).listed = item.listed
         /\ Becomes(item, status).status = status
<1> DEFINE b == Becomes(item, status)
<1>1. /\ b.listed = item.listed /\ b.status = status /\ b.timer = item.timer
      /\ b.strays = item.strays /\ b.deleting = item.deleting
      /\ b.writes = Append(item.writes, status)
  BY DEF Becomes, Item
<1>2. item.writes \in Seq(Statuses \cup {None}) BY DEF Item
<1>3. b \in Item BY <1>2, Writes DEF Becomes, Item
<1>4. Grounded(b, m, sent, settled)
  <2>1. /\ item.listed => status # None
        /\ status = "SENT" \/ item.deleting => m \in sent
        /\ \A k \in DOMAIN item.writes :
             /\ item.writes[k] = "SENT" => m \in sent
             /\ item.writes[k] = None => m \in settled
    BY DEF Grounded, Item
  <2>2. status # None BY DEF None, Statuses
  <2>3. \A k \in DOMAIN b.writes :
             /\ b.writes[k] = "SENT" => m \in sent
             /\ b.writes[k] = None => m \in settled
    BY <1>1, <1>2, <2>1, <2>2, Writes
  <2> QED BY <1>1, <2>1, <2>2, <2>3 DEF Grounded
<1> QED BY <1>1, <1>3, <1>4

LEMMA RetryGrounded ==
  ASSUME NEW item \in Item, NEW m, NEW sent, NEW settled,
         Grounded(item, m, sent, settled)
  PROVE  ScheduleRetry(item) \in Item /\ Grounded(ScheduleRetry(item), m, sent, settled)
<1> DEFINE b == Becomes(item, "RETRYING")
           r == ScheduleRetry(item)
<1>1. /\ b \in Item /\ Grounded(b, m, sent, settled) /\ b.strays = item.strays
  <2>1. Grounded([item EXCEPT !.status = "RETRYING"], m, sent, settled)
    BY DEF Grounded, Item, None
  <2> QED BY <2>1, BecomesGrounded DEF Statuses
<1>2. item.strays + (IF item.timer THEN 1 ELSE 0) \in Nat BY DEF Item
<1> HIDE DEF b
<1>3. r = [b EXCEPT !.timer = TRUE,
                    !.strays = b.strays + (IF item.timer THEN 1 ELSE 0)]
  BY DEF b, ScheduleRetry
<1>4. /\ r.listed = b.listed /\ r.status = b.status
      /\ r.deleting = b.deleting /\ r.writes = b.writes
  BY <1>1, <1>3 DEF Item
<1>5. r \in Item BY <1>1, <1>2, <1>3 DEF Item
<1>6. Grounded(r, m, sent, settled) BY <1>1, <1>4 DEF Grounded
<1> QED BY <1>5, <1>6

\* A queued message becomes anything but "Sent" without further conditions.
LEMMA UnsentGrounded ==
  ASSUME NEW item \in Item, NEW m, NEW sent, NEW settled,
         Grounded(item, m, sent, settled), NEW status \in Statuses \ {"SENT"}
  PROVE  Becomes(item, status) \in Item /\ Grounded(Becomes(item, status), m, sent, settled)
<1>1. Grounded([item EXCEPT !.status = status], m, sent, settled)
  BY DEF Grounded, Item, None, Statuses
<1> QED BY <1>1, BecomesGrounded

LEMMA OutcomeGrounded ==
  ASSUME NEW item \in Item, NEW m, NEW sent, NEW settled,
         Grounded(item, m, sent, settled),
         NEW answer \in Answers, answer = "ok" => m \in sent
  PROVE  Outcome(item, answer) \in Item /\ Grounded(Outcome(item, answer), m, sent, settled)
<1>1. CASE answer = "ok"
  <2> DEFINE b == Becomes(item, "SENT")
  <2>1. Grounded([item EXCEPT !.status = "SENT"], m, sent, settled)
    BY <1>1 DEF Grounded, Item, None
  <2>2. b \in Item /\ Grounded(b, m, sent, settled) BY <2>1, BecomesGrounded DEF Statuses
  <2>3. Outcome(item, answer) = [b EXCEPT !.deleting = TRUE] BY <1>1 DEF Outcome
  <2> HIDE DEF b
  <2> QED BY <1>1, <2>2, <2>3 DEF Grounded, Item
<1>2. CASE answer = "auth"
  <2>1. Outcome(item, answer) = Becomes(item, "RETRYING") BY <1>2 DEF Outcome
  <2>2. "RETRYING" \in Statuses \ {"SENT"} BY DEF Statuses
  <2> QED BY <2>1, <2>2, UnsentGrounded
<1>3. CASE answer = "retryable"
  BY <1>3, RetryGrounded DEF Outcome
<1>4. CASE answer = "terminal"
  <2>1. Outcome(item, answer) = Becomes(item, "FAILED") BY <1>4 DEF Outcome
  <2>2. "FAILED" \in Statuses \ {"SENT"} BY DEF Statuses
  <2> QED BY <2>1, <2>2, UnsentGrounded
<1> QED BY <1>1, <1>2, <1>3, <1>4 DEF Answers

LEMMA UnlistGrounded ==
  ASSUME NEW item \in Item, NEW m, NEW sent, NEW settled,
         Grounded(item, m, sent, settled), m \in settled
  PROVE  Unlist(item) \in Item /\ Grounded(Unlist(item), m, sent, settled)
<1> DEFINE u == Unlist(item)
<1>1. /\ u.listed = FALSE /\ u.status = item.status /\ u.timer = item.timer
      /\ u.strays = item.strays /\ u.deleting = item.deleting
      /\ u.writes = Append(item.writes, None)
  BY DEF Unlist, Item
<1>2. item.writes \in Seq(Statuses \cup {None}) BY DEF Item
<1>3. u \in Item BY <1>2, Writes DEF Unlist, Item
<1>4. \A k \in DOMAIN u.writes : u.writes[k] = "SENT" => m \in sent
  <2>1. \A k \in DOMAIN item.writes : item.writes[k] = "SENT" => m \in sent BY DEF Grounded
  <2> QED BY <1>1, <1>2, <2>1, Writes DEF None
<1> HIDE DEF u
<1>5. Grounded(u, m, sent, settled) BY <1>1, <1>4 DEF Grounded
<1> QED BY <1>3, <1>5 DEF u

LEMMA TailGrounded ==
  ASSUME NEW item \in Item, NEW m, NEW sent, NEW settled,
         Grounded(item, m, sent, settled), item.writes # <<>>
  PROVE  /\ [item EXCEPT !.writes = Tail(@)] \in Item
         /\ Grounded([item EXCEPT !.writes = Tail(@)], m, sent, settled)
         /\ Head(item.writes) \in Statuses \cup {None}
         /\ Head(item.writes) = "SENT" => m \in sent
         /\ Head(item.writes) = None => m \in settled
<1>1. item.writes \in Seq(Statuses \cup {None}) BY DEF Item
<1>2. /\ Tail(item.writes) \in Seq(Statuses \cup {None})
      /\ Head(item.writes) = item.writes[1] /\ 1 \in DOMAIN item.writes
      /\ \A k \in DOMAIN Tail(item.writes) :
           k + 1 \in DOMAIN item.writes /\ Tail(item.writes)[k] = item.writes[k + 1]
  BY <1>1
<1>3. [item EXCEPT !.writes = Tail(@)] \in Item BY <1>2 DEF Item
<1>4. Grounded([item EXCEPT !.writes = Tail(@)], m, sent, settled)
  <2> DEFINE f == [item EXCEPT !.writes = Tail(@)]
  <2>1. /\ f.listed = item.listed /\ f.status = item.status
        /\ f.deleting = item.deleting /\ f.writes = Tail(item.writes)
    BY DEF Item
  <2> HIDE DEF f
  <2>2. Grounded(f, m, sent, settled) BY <1>2, <2>1 DEF Grounded
  <2> QED BY <2>2 DEF f
<1> QED BY <1>1, <1>2, <1>3, <1>4 DEF Grounded

---------------------------------------------------------------------------
(* What a step leaves of the invariant, one variable at a time.            *)

ItemsSound(queues) ==
    /\ queues \in [Tabs -> [Messages -> Item]]
    /\ \A t \in Tabs, m \in Messages :
         Grounded(queues[t][m], m, Committed, Settled)
RequestsSound(asked) ==
    /\ asked \in [Tabs -> [Messages -> [Slots -> Request]]]
    /\ \A t \in Tabs, m \in Messages, n \in Slots :
         asked[t][m][n].stage = "ok" => m \in Committed

LEMMA Sound ==
  OutboxInv => /\ ItemsSound(items) /\ RequestsSound(requests)
               /\ \A t \in Tabs, m \in Messages :
                    /\ items[t][m] \in Item
                    /\ Grounded(items[t][m], m, Committed, Settled)
BY DEF OutboxInv, Typed, ItemsGrounded, AnswersGrounded, ItemsSound, RequestsSound

\* The server and the member's decisions did not change, or grew.
LEMMA Carried ==
  ASSUME OutboxInv, ItemsSound(items'), RequestsSound(requests'),
         Committed \subseteq Committed', Settled \subseteq Settled',
         tabs' \in [Tabs -> Tab], device' \in [Messages -> Statuses \cup {None}],
         \A m \in Messages : device'[m] = "SENT" => m \in Committed,
         rows' \in Seq(Messages), CommittedOnce', signedIn' \in BOOLEAN,
         composed' \subseteq Messages, discarded' \subseteq Messages,
         left' \subseteq Messages, faults' \in 0 .. MaxFaults
  PROVE  OutboxInv'
<1>1. Typed' BY DEF Typed, ItemsSound, RequestsSound
<1>2. ItemsGrounded'
  <2> SUFFICES ASSUME NEW t \in Tabs, NEW m \in Messages
      PROVE Grounded(items'[t][m], m, Committed', Settled')
    BY DEF ItemsGrounded
  <2>1. Grounded(items'[t][m], m, Committed, Settled) BY DEF ItemsSound
  <2>2. /\ m \in Committed => m \in Committed'
        /\ m \in Settled => m \in Settled'
    OBVIOUS
  <2> QED BY <2>1, <2>2, Weaker
<1>3. AnswersGrounded' BY DEF AnswersGrounded, RequestsSound
<1>4. DeviceGrounded' BY DEF DeviceGrounded
<1> QED BY <1>1, <1>2, <1>3, <1>4 DEF OutboxInv

\* The same for a step of the pages alone.
LEMMA CarriedPages ==
  ASSUME OutboxInv, ItemsSound(items'), RequestsSound(requests'),
         tabs' \in [Tabs -> Tab], UNCHANGED <<device, rows>>,
         discarded \subseteq discarded', left' = left,
         signedIn' \in BOOLEAN, composed' \subseteq Messages,
         discarded' \subseteq Messages, faults' \in 0 .. MaxFaults
  PROVE  OutboxInv'
<1>1. Committed' = Committed BY DEF Committed
<1>2. Settled \subseteq Settled' BY <1>1 DEF Settled, Dropped
<1>3. CommittedOnce' BY DEF OutboxInv, CommittedOnce
<1>4. \A m \in Messages : device'[m] = "SENT" => m \in Committed
  BY DEF OutboxInv, DeviceGrounded
<1>5. /\ device' \in [Messages -> Statuses \cup {None}]
      /\ rows' \in Seq(Messages) /\ left' \subseteq Messages
  BY DEF OutboxInv, Typed
<1> QED BY <1>1, <1>2, <1>3, <1>4, <1>5, Carried

LEMMA OneItem ==
  ASSUME OutboxInv, NEW t \in Tabs, NEW m \in Messages, NEW item \in Item,
         Grounded(item, m, Committed, Settled)
  PROVE  ItemsSound([items EXCEPT ![t][m] = item])
BY Sound DEF ItemsSound

LEMMA OneRequest ==
  ASSUME OutboxInv, NEW t \in Tabs, NEW m \in Messages, NEW n \in Slots,
         NEW r \in Request, r.stage = "ok" => m \in Committed
  PROVE  RequestsSound([requests EXCEPT ![t][m][n] = r])
BY Sound DEF RequestsSound

LEMMA Constants ==
  /\ Idle \in Request /\ Idle.stage # "ok"
  /\ Asked \in Request /\ Asked.stage # "ok"
  /\ Closed \in Tab
BY DEF Idle, Asked, Closed, Request, Tab, Answers

LEMMA UnheardSound ==
  ASSUME NEW r \in Request
  PROVE  Unheard(r) \in Request /\ (Unheard(r).stage = "ok" => r.stage = "ok")
BY Constants DEF Unheard, Request, Answers

\* attemptSend of the messages of S, after the handler's own changes.
LEMMA AttemptSendSound ==
  ASSUME OutboxInv, NEW t \in Tabs, NEW tab \in Tab,
         NEW queue \in [Messages -> Item],
         \A m \in Messages : Grounded(queue[m], m, Committed, Settled),
         NEW S \in SUBSET Messages, AttemptSend(t, tab, queue, S)
  PROVE  ItemsSound(items') /\ RequestsSound(requests') /\ tabs' \in [Tabs -> Tab]
<1> DEFINE sent == IF tab.draining /\ tab.online THEN S ELSE {}
           sending == [m \in Messages |-> IF m \in sent THEN Becomes(queue[m], "SENDING")
                                          ELSE queue[m]]
           asking == [m \in Messages |-> IF m \in sent THEN Asks(t, m)
                                         ELSE requests[t][m]]
<1>1. /\ tabs' = [tabs EXCEPT ![t] = tab]
      /\ items' = [items EXCEPT ![t] = sending]
      /\ requests' = [requests EXCEPT ![t] = asking]
  BY DEF AttemptSend
<1>2. tabs' \in [Tabs -> Tab] BY <1>1 DEF OutboxInv, Typed
<1>3. \A m \in Messages : /\ sending[m] \in Item
                          /\ Grounded(sending[m], m, Committed, Settled)
  <2> SUFFICES ASSUME NEW m \in Messages
      PROVE /\ sending[m] \in Item
            /\ Grounded(sending[m], m, Committed, Settled)
    OBVIOUS
  <2>1. CASE m \in sent
    <3>1. "SENDING" \in Statuses \ {"SENT"} BY DEF Statuses
    <3>2. sending[m] = Becomes(queue[m], "SENDING") BY <2>1
    <3> QED BY <3>1, <3>2, UnsentGrounded
  <2>2. CASE m \notin sent BY <2>2
  <2> QED BY <2>1, <2>2
<1>4. \A m \in Messages : /\ asking[m] \in [Slots -> Request]
                          /\ \A n \in Slots : asking[m][n].stage = "ok" => m \in Committed
  <2> SUFFICES ASSUME NEW m \in Messages
      PROVE /\ asking[m] \in [Slots -> Request]
            /\ \A n \in Slots : asking[m][n].stage = "ok" => m \in Committed
    OBVIOUS
  <2>1. /\ requests[t][m] \in [Slots -> Request]
        /\ \A n \in Slots : requests[t][m][n].stage = "ok" => m \in Committed
    BY Sound DEF RequestsSound
  <2>2. CASE m \in sent
    <3> DEFINE free == CHOOSE n \in FreeSlots(t, m) : TRUE
    <3>1. asking[m] = [requests[t][m] EXCEPT ![free] = Asked]
      BY <2>2 DEF Asks
    <3> HIDE DEF free
    <3> QED BY <2>1, <3>1, Constants
  <2>3. CASE m \notin sent BY <2>1, <2>3
  <2> QED BY <2>2, <2>3
<1> HIDE DEF sending, asking
<1>5. sending \in [Messages -> Item] BY <1>3 DEF sending
<1>6. asking \in [Messages -> [Slots -> Request]] BY <1>4 DEF asking
<1>7. ItemsSound(items') BY <1>1, <1>3, <1>5, Sound DEF ItemsSound
<1>8. RequestsSound(requests') BY <1>1, <1>4, <1>6, Sound DEF RequestsSound
<1> QED BY <1>2, <1>7, <1>8

---------------------------------------------------------------------------
(* The steps.                                                              *)

LEMMA InitInv == Init => OutboxInv
<1> SUFFICES ASSUME Init PROVE OutboxInv OBVIOUS
<1>1. Typed
  <2>1. NoItem \in Item /\ Idle \in Request /\ Closed \in Tab BY Blank, Constants
  <2>2. 0 \in 0 .. MaxFaults /\ <<>> \in Seq(Messages) BY OutboxAssumption
  <2>3. /\ tabs \in [Tabs -> Tab]
        /\ items \in [Tabs -> [Messages -> Item]]
        /\ requests \in [Tabs -> [Messages -> [Slots -> Request]]]
        /\ device \in [Messages -> Statuses \cup {None}]
    BY <2>1 DEF Init
  <2> QED BY <2>2, <2>3 DEF Init, Typed
<1>2. CommittedOnce BY DEF Init, CommittedOnce
<1>3. ItemsGrounded BY Blank DEF Init, ItemsGrounded
<1>4. AnswersGrounded BY Constants DEF Init, AnswersGrounded
<1>5. DeviceGrounded BY DEF Init, DeviceGrounded, None
<1> QED BY <1>1, <1>2, <1>3, <1>4, <1>5 DEF OutboxInv

\* A handler that changes one item and attempts its message.
LEMMA AttemptOneSound ==
  ASSUME OutboxInv, NEW t \in Tabs, NEW m \in Messages, NEW item \in Item,
         Grounded(item, m, Committed, Settled), AttemptOne(t, m, item)
  PROVE  ItemsSound(items') /\ RequestsSound(requests') /\ tabs' \in [Tabs -> Tab]
<1> DEFINE queue == [items[t] EXCEPT ![m] = item]
<1>1. AttemptSend(t, tabs[t], queue, {m}) BY DEF AttemptOne
<1>2. /\ queue \in [Messages -> Item] /\ tabs[t] \in Tab
      /\ \A k \in Messages : Grounded(queue[k], k, Committed, Settled)
  BY Sound DEF OutboxInv, Typed
<1> HIDE DEF queue
<1> QED BY <1>1, <1>2, AttemptSendSound

LEMMA MemberSteps ==
  ASSUME OutboxInv, NEW t \in Tabs, NEW m \in Messages,
         Send(t, m) \/ RetryFailed(t, m) \/ DiscardFailed(t, m)
  PROVE  OutboxInv'
<1>1. CASE Send(t, m)
  <2> DEFINE blank == [NoItem EXCEPT !.listed = TRUE]
  <2>1. /\ blank \in Item
        /\ Grounded([blank EXCEPT !.status = "WAITING"], m, Committed, Settled)
    <3> DEFINE w == [blank EXCEPT !.status = "WAITING"]
    <3>1. NoItem \in Item /\ ~NoItem.deleting /\ NoItem.writes = <<>>
      BY Blank DEF NoItem
    <3>2. blank \in Item /\ ~blank.deleting /\ blank.writes = <<>>
      BY <3>1 DEF Item
    <3> HIDE DEF blank
    <3>3. w.status = "WAITING" /\ ~w.deleting /\ w.writes = <<>>
      BY <3>2 DEF Item
    <3> HIDE DEF w
    <3>4. Grounded(w, m, Committed, Settled) BY <3>3 DEF Grounded, None
    <3> USE DEF w
    <3> QED BY <3>2, <3>4
  <2> HIDE DEF blank
  <2>2. /\ Becomes(blank, "WAITING") \in Item
        /\ Grounded(Becomes(blank, "WAITING"), m, Committed, Settled)
    BY <2>1, BecomesGrounded DEF Statuses
  <2>3. AttemptOne(t, m, Becomes(blank, "WAITING")) BY <1>1 DEF Send, Queued, blank
  <2>4. ItemsSound(items') /\ RequestsSound(requests') /\ tabs' \in [Tabs -> Tab]
    BY <2>2, <2>3, AttemptOneSound
  <2> QED BY <1>1, <2>4, CarriedPages DEF Send, OutboxInv, Typed
<1>2. CASE RetryFailed(t, m)
  <2>1. "WAITING" \in Statuses \ {"SENT"} BY DEF Statuses
  <2>2. /\ Becomes(items[t][m], "WAITING") \in Item
        /\ Grounded(Becomes(items[t][m], "WAITING"), m, Committed, Settled)
    BY <2>1, Sound, UnsentGrounded
  <2>3. ItemsSound(items') /\ RequestsSound(requests') /\ tabs' \in [Tabs -> Tab]
    BY <1>2, <2>2, AttemptOneSound DEF RetryFailed
  <2> QED BY <1>2, <2>3, CarriedPages DEF RetryFailed, member, OutboxInv, Typed
<1>3. CASE DiscardFailed(t, m)
  <2> DEFINE u == Unlist(items[t][m])
             gone == Committed \cup (discarded \cup {m}) \cup left
  <2>1. items[t][m] \in Item /\ Grounded(items[t][m], m, Committed, Settled) BY Sound
  <2>2. Grounded(items[t][m], m, Committed, gone)
    BY <2>1, Weaker DEF Settled, Dropped
  <2>3. u \in Item /\ Grounded(u, m, Committed, gone) BY <2>1, <2>2, UnlistGrounded
  <2>4. items' = [items EXCEPT ![t][m] = u] BY <1>3 DEF DiscardFailed
  <2>5. Committed' = Committed /\ Settled' = gone /\ Settled \subseteq gone
    BY <1>3 DEF DiscardFailed, Committed, Settled, Dropped
  <2>6. /\ items \in [Tabs -> [Messages -> Item]]
        /\ requests' = requests /\ device' = device /\ rows' = rows
    BY <1>3 DEF OutboxInv, Typed, DiscardFailed
  <2> HIDE DEF u, gone
  <2>7. Typed' BY <1>3, <2>3, <2>4, <2>6 DEF OutboxInv, Typed, DiscardFailed
  <2>8. ItemsGrounded'
    <3> SUFFICES ASSUME NEW s \in Tabs, NEW k \in Messages
        PROVE Grounded(items'[s][k], k, Committed', Settled')
      BY DEF ItemsGrounded
    <3>1. CASE s = t /\ k = m BY <2>3, <2>4, <2>5, <2>6, <3>1
    <3>2. CASE ~(s = t /\ k = m)
      <4>1. items'[s][k] = items[s][k] BY <2>4, <2>6, <3>2
      <4>2. Grounded(items[s][k], k, Committed, Settled) BY Sound
      <4> QED BY <2>5, <4>1, <4>2, Weaker
    <3> QED BY <3>1, <3>2
  <2>9. CommittedOnce' /\ AnswersGrounded' /\ DeviceGrounded'
    BY <2>5, <2>6 DEF OutboxInv, CommittedOnce, AnswersGrounded, DeviceGrounded
  <2> QED BY <2>7, <2>8, <2>9 DEF OutboxInv
<1> QED BY <1>1, <1>2, <1>3

LEMMA HandledSound ==
  ASSUME OutboxInv, NEW t \in Tabs, NEW m \in Messages, NEW answer \in Answers,
         answer = "ok" => m \in Committed, HandleTransportResult(t, m, answer)
  PROVE  ItemsSound(items') /\ tabs' \in [Tabs -> Tab]
<1> DEFINE o == Outcome(items[t][m], answer)
<1>1. o \in Item /\ Grounded(o, m, Committed, Settled) BY Sound, OutcomeGrounded
<1>2. items' = [items EXCEPT ![t][m] = o] BY DEF HandleTransportResult
<1> HIDE DEF o
<1>3. ItemsSound(items') BY <1>1, <1>2, OneItem
<1>4. tabs' \in [Tabs -> Tab] BY DEF HandleTransportResult, OutboxInv, Typed, Tab
<1> QED BY <1>3, <1>4

LEMMA AnswerSteps ==
  ASSUME OutboxInv, NEW t \in Tabs, NEW m \in Messages, NEW n \in Slots,
         Answer(t, m, n) \/ GiveUp(t, m, n)
  PROVE  OutboxInv'
<1>0. /\ requests[t][m][n] \in Request
      /\ requests[t][m][n].stage = "ok" => m \in Committed
  BY Sound DEF RequestsSound
<1>1. CASE Answer(t, m, n)
  <2>1. RequestsSound(requests') BY <1>1, Constants, OneRequest DEF Answer
  <2>2. ItemsSound(items') /\ tabs' \in [Tabs -> Tab]
    BY <1>0, <1>1, HandledSound DEF Answer
  <2> QED BY <1>1, <2>1, <2>2, CarriedPages DEF Answer, member, OutboxInv, Typed
<1>2. CASE GiveUp(t, m, n)
  <2> DEFINE r == Unheard(requests[t][m][n])
  <2>1. r \in Request /\ (r.stage = "ok" => m \in Committed) BY <1>0, UnheardSound
  <2>2. requests' = [requests EXCEPT ![t][m][n] = r] BY <1>2 DEF GiveUp
  <2> HIDE DEF r
  <2>3. RequestsSound(requests') BY <2>1, <2>2, OneRequest
  <2>4. ItemsSound(items') /\ tabs' \in [Tabs -> Tab]
    BY <1>2, HandledSound DEF GiveUp, Answers
  <2>5. faults' \in 0 .. MaxFaults
    BY <1>2, OutboxAssumption DEF GiveUp, Fault, OutboxInv, Typed
  <2> QED BY <1>2, <2>3, <2>4, <2>5, CarriedPages DEF GiveUp, member, OutboxInv, Typed
<1> QED BY <1>1, <1>2

LEMMA PageTimers ==
  ASSUME OutboxInv, NEW t \in Tabs, NEW m \in Messages,
         RetryTimer(t, m) \/ Delete(t, m)
  PROVE  OutboxInv'
<1>0. items[t][m] \in Item /\ Grounded(items[t][m], m, Committed, Settled) BY Sound
<1>1. CASE RetryTimer(t, m)
  <2> DEFINE fired == [items[t][m] EXCEPT !.timer = FALSE]
             stray == [items[t][m] EXCEPT !.strays = @ - 1]
  <2>1. fired \in Item /\ Grounded(fired, m, Committed, Settled)
    BY <1>0 DEF Item, Grounded
  <2>2. items[t][m].strays > 0
          => stray \in Item /\ Grounded(stray, m, Committed, Settled)
    BY <1>0 DEF Item, Grounded
  <2>3. \/ AttemptOne(t, m, fired)
        \/ items[t][m].strays > 0 /\ AttemptOne(t, m, stray)
    BY <1>1 DEF RetryTimer
  <2> HIDE DEF fired, stray
  <2>4. ItemsSound(items') /\ RequestsSound(requests') /\ tabs' \in [Tabs -> Tab]
    BY <2>1, <2>2, <2>3, AttemptOneSound
  <2> QED BY <1>1, <2>4, CarriedPages DEF RetryTimer, member, OutboxInv, Typed
<1>2. CASE Delete(t, m)
  <2> DEFINE u == Unlist(items[t][m])
             d == [u EXCEPT !.deleting = FALSE]
  <2>1. m \in Settled BY <1>0, <1>2 DEF Delete, Grounded, Settled
  <2>2. u \in Item /\ Grounded(u, m, Committed, Settled) BY <1>0, <2>1, UnlistGrounded
  <2>3. items' = [items EXCEPT ![t][m] = d] BY <1>2 DEF Delete
  <2> HIDE DEF u
  <2>4. d \in Item /\ Grounded(d, m, Committed, Settled) BY <2>2 DEF Item, Grounded
  <2> HIDE DEF d
  <2>5. ItemsSound(items') BY <2>3, <2>4, OneItem
  <2>6. RequestsSound(requests') BY <1>2, Sound DEF Delete
  <2> QED BY <1>2, <2>5, <2>6, CarriedPages DEF Delete, member, OutboxInv, Typed
<1> QED BY <1>1, <1>2

LEMMA FlushStep ==
  ASSUME OutboxInv, NEW t \in Tabs, NEW m \in Messages, Flush(t, m)
  PROVE  OutboxInv' /\ (device'[m] = None => m \in Settled)
<1> DEFINE w == [items[t][m] EXCEPT !.writes = Tail(@)]
           h == Head(items[t][m].writes)
<1>1. items[t][m] \in Item /\ Grounded(items[t][m], m, Committed, Settled) BY Sound
<1>2. /\ w \in Item /\ Grounded(w, m, Committed, Settled)
      /\ h \in Statuses \cup {None}
      /\ h = "SENT" => m \in Committed
      /\ h = None => m \in Settled
  BY <1>1, TailGrounded DEF Flush
<1>3. items' = [items EXCEPT ![t][m] = w] BY DEF Flush
<1>4. device' = [device EXCEPT ![m] = h] BY DEF Flush
<1> HIDE DEF w, h
<1>5. ItemsSound(items') BY <1>2, <1>3, OneItem
<1>6. RequestsSound(requests') BY Sound DEF Flush
<1>7. Committed' = Committed /\ Settled' = Settled /\ CommittedOnce'
  BY DEF Flush, member, Committed, Settled, Dropped, OutboxInv, CommittedOnce
<1>8. /\ device' \in [Messages -> Statuses \cup {None}]
      /\ \A k \in Messages : device'[k] = "SENT" => k \in Committed
      /\ device'[m] = None => m \in Settled
  BY <1>2, <1>4 DEF OutboxInv, Typed, DeviceGrounded
<1>9. OutboxInv'
  BY <1>5, <1>6, <1>7, <1>8, Carried DEF Flush, member, OutboxInv, Typed
<1> QED BY <1>8, <1>9

LEMMA ResumeSound ==
  ASSUME OutboxInv, NEW t \in Tabs, NEW tab \in Tab,
         NEW queue \in [Messages -> Item],
         \A m \in Messages : Grounded(queue[m], m, Committed, Settled),
         ResumeOnOpen(t, tab, queue)
  PROVE  /\ ItemsSound(items') /\ RequestsSound(requests') /\ tabs' \in [Tabs -> Tab]
         /\ faults' \in 0 .. MaxFaults
<1> PICK expired \in SUBSET Unsettled(queue) :
      LET resumed == Unsettled(queue) \ expired IN
      /\ IF expired = {} THEN UNCHANGED faults ELSE Fault
      /\ AttemptSend(t, tab,
           [m \in Messages |-> IF m \in expired THEN Becomes(queue[m], "FAILED")
                               ELSE IF m \in resumed
                                    THEN [queue[m] EXCEPT !.timer = FALSE]
                               ELSE queue[m]],
           resumed)
  BY DEF ResumeOnOpen
<1> DEFINE resumed == Unsettled(queue) \ expired
           prepared == [m \in Messages |->
             IF m \in expired THEN Becomes(queue[m], "FAILED")
             ELSE IF m \in resumed THEN [queue[m] EXCEPT !.timer = FALSE]
             ELSE queue[m]]
<1>1. AttemptSend(t, tab, prepared, resumed) OBVIOUS
<1>2. \A m \in Messages : /\ prepared[m] \in Item
                          /\ Grounded(prepared[m], m, Committed, Settled)
  <2> SUFFICES ASSUME NEW m \in Messages
      PROVE prepared[m] \in Item /\ Grounded(prepared[m], m, Committed, Settled)
    OBVIOUS
  <2>1. queue[m] \in Item /\ Grounded(queue[m], m, Committed, Settled) OBVIOUS
  <2>2. CASE m \in expired
    <3>1. "FAILED" \in Statuses \ {"SENT"} BY DEF Statuses
    <3>2. prepared[m] = Becomes(queue[m], "FAILED") BY <2>2
    <3> HIDE DEF prepared
    <3> QED BY <2>1, <3>1, <3>2, UnsentGrounded
  <2>3. CASE m \notin expired /\ m \in resumed
    <3>1. prepared[m] = [queue[m] EXCEPT !.timer = FALSE] BY <2>3
    <3> HIDE DEF prepared
    <3> QED BY <2>1, <3>1 DEF Item, Grounded
  <2>4. CASE m \notin expired /\ m \notin resumed BY <2>1, <2>4
  <2> QED BY <2>2, <2>3, <2>4
<1>3. prepared \in [Messages -> Item]
  <2> HIDE DEF resumed
  <2> QED BY <1>2
<1>4. resumed \in SUBSET Messages BY DEF Unsettled, Listed
<1>5. faults' \in 0 .. MaxFaults BY OutboxAssumption DEF Fault, OutboxInv, Typed
<1> HIDE DEF prepared, resumed
<1> QED BY <1>1, <1>2, <1>3, <1>4, <1>5, AttemptSendSound

LEMMA ResumeSteps ==
  ASSUME OutboxInv, NEW t \in Tabs, GoOnline(t) \/ ResumeDrain(t) \/ Open(t)
  PROVE  OutboxInv'
<1>0. tabs[t] \in Tab /\ items[t] \in [Messages -> Item]
      /\ \A m \in Messages : /\ items[t][m] \in Item
                             /\ Grounded(items[t][m], m, Committed, Settled)
  BY Sound DEF OutboxInv, Typed
<1>1. CASE GoOnline(t)
  <2> DEFINE tab == [tabs[t] EXCEPT !.online = TRUE]
             queue == [m \in Messages |-> IF m \in Resumable(t)
                                          THEN [items[t][m] EXCEPT !.timer = FALSE]
                                          ELSE items[t][m]]
  <2>1. AttemptSend(t, tab, queue, Resumable(t)) BY <1>1 DEF GoOnline
  <2>2. tab \in Tab BY <1>0 DEF Tab
  <2>3. \A m \in Messages : queue[m] \in Item /\ Grounded(queue[m], m, Committed, Settled)
    <3> SUFFICES ASSUME NEW m \in Messages
        PROVE queue[m] \in Item /\ Grounded(queue[m], m, Committed, Settled)
      OBVIOUS
    <3>1. queue[m] = items[t][m] \/ queue[m] = [items[t][m] EXCEPT !.timer = FALSE]
      OBVIOUS
    <3> HIDE DEF queue
    <3> QED BY <1>0, <3>1 DEF Item, Grounded
  <2>4. queue \in [Messages -> Item] BY <2>3
  <2>5. Resumable(t) \in SUBSET Messages BY DEF Resumable, Listed
  <2> HIDE DEF tab, queue
  <2>6. ItemsSound(items') /\ RequestsSound(requests') /\ tabs' \in [Tabs -> Tab]
    BY <2>1, <2>2, <2>3, <2>4, <2>5, AttemptSendSound
  <2> QED BY <1>1, <2>6, CarriedPages DEF GoOnline, member, OutboxInv, Typed
<1>2. CASE ResumeDrain(t)
  <2> DEFINE tab == [tabs[t] EXCEPT !.draining = TRUE, !.promotions = @ - 1]
  <2>0. tabs[t].promotions - 1 \in Nat BY <1>0, <1>2 DEF Tab, ResumeDrain
  <2>1. tab \in Tab BY <1>0, <2>0 DEF Tab
  <2>2. ResumeOnOpen(t, tab, items[t]) BY <1>2 DEF ResumeDrain
  <2> HIDE DEF tab
  <2>3. /\ ItemsSound(items') /\ RequestsSound(requests') /\ tabs' \in [Tabs -> Tab]
        /\ faults' \in 0 .. MaxFaults
    BY <1>0, <2>1, <2>2, ResumeSound
  <2> QED BY <1>2, <2>3, CarriedPages DEF ResumeDrain, member, OutboxInv, Typed
<1>3. CASE Open(t)
  <2> DEFINE tab == [page |-> "open", draining |-> TRUE, online |-> TRUE,
                     promotions |-> 0]
             queue == [m \in Messages |-> Hydrated(m)]
  <2>1. tab \in Tab BY DEF Tab
  <2>2. ResumeOnOpen(t, tab, queue) BY <1>3 DEF Open
  <2>3. \A m \in Messages : queue[m] \in Item /\ Grounded(queue[m], m, Committed, Settled)
    <3> SUFFICES ASSUME NEW m \in Messages
        PROVE Hydrated(m) \in Item /\ Grounded(Hydrated(m), m, Committed, Settled)
      OBVIOUS
    <3>1. /\ NoItem \in Item /\ ~NoItem.deleting /\ NoItem.writes = <<>>
          /\ Grounded(NoItem, m, Committed, Settled)
      BY Blank DEF NoItem
    <3>2. /\ device[m] \in Statuses \cup {None}
          /\ device[m] = "SENT" => m \in Committed
      BY DEF OutboxInv, Typed, DeviceGrounded
    <3>3. CASE device[m] = None BY <3>1, <3>3 DEF Hydrated
    <3>4. CASE device[m] # None
      <4> DEFINE h == [NoItem EXCEPT !.listed = TRUE, !.status = device[m]]
      <4>1. h \in Item BY <3>1, <3>2 DEF Item
      <4>2. h.status = device[m] /\ ~h.deleting /\ h.writes = <<>>
        BY <3>1, <3>2 DEF Item
      <4>3. Hydrated(m) = h BY <3>4 DEF Hydrated
      <4> HIDE DEF h
      <4>4. Grounded(h, m, Committed, Settled) BY <3>2, <3>4, <4>2 DEF Grounded
      <4> QED BY <4>1, <4>3, <4>4
    <3> QED BY <3>3, <3>4
  <2>4. queue \in [Messages -> Item] BY <2>3
  <2> HIDE DEF tab, queue
  <2>5. /\ ItemsSound(items') /\ RequestsSound(requests') /\ tabs' \in [Tabs -> Tab]
        /\ faults' \in 0 .. MaxFaults
    BY <2>1, <2>2, <2>3, <2>4, ResumeSound
  <2> QED BY <1>3, <2>5, CarriedPages DEF Open, member, OutboxInv, Typed
<1> QED BY <1>1, <1>2, <1>3

LEMMA UnloadSound ==
  ASSUME OutboxInv, NEW t \in Tabs, Unload(t)
  PROVE  ItemsSound(items') /\ RequestsSound(requests') /\ tabs' \in [Tabs -> Tab]
<1>1. tabs' \in [Tabs -> Tab] BY Constants DEF Unload, OutboxInv, Typed
<1>2. ItemsSound(items')
  <2> DEFINE none == [m \in Messages |-> NoItem]
  <2>1. none \in [Messages -> Item] BY Blank
  <2>2. \A m \in Messages : Grounded(none[m], m, Committed, Settled) BY Blank
  <2>3. items' = [items EXCEPT ![t] = none] BY DEF Unload
  <2> HIDE DEF none
  <2> QED BY <2>1, <2>2, <2>3, Sound DEF ItemsSound
<1>3. RequestsSound(requests')
  <2> DEFINE gone == [m \in Messages |-> [n \in Slots |-> Unheard(requests[t][m][n])]]
  <2>1. \A m \in Messages, n \in Slots :
          /\ requests[t][m][n] \in Request
          /\ requests[t][m][n].stage = "ok" => m \in Committed
    BY Sound DEF RequestsSound
  <2>2. \A m \in Messages, n \in Slots :
          gone[m][n] \in Request /\ (gone[m][n].stage = "ok" => m \in Committed)
    BY <2>1, UnheardSound
  <2>3. gone \in [Messages -> [Slots -> Request]] BY <2>2
  <2>4. requests' = [requests EXCEPT ![t] = gone] BY DEF Unload
  <2> HIDE DEF gone
  <2> QED BY <2>2, <2>3, <2>4, Sound DEF RequestsSound
<1> QED BY <1>1, <1>2, <1>3

LEMMA PageSteps ==
  ASSUME OutboxInv, NEW t \in Tabs,
         \/ Close(t) \/ Reload(t) \/ Leave(t) \/ GoOffline(t) \/ PauseDrain(t)
  PROVE  OutboxInv'
<1>0. Fault => faults' \in 0 .. MaxFaults
  BY OutboxAssumption DEF Fault, OutboxInv, Typed
<1>1. CASE Close(t)
  BY <1>0, <1>1, UnloadSound, CarriedPages DEF Close, member, OutboxInv, Typed
<1>2. CASE Reload(t)
  BY <1>2, UnloadSound, CarriedPages DEF Reload, member, OutboxInv, Typed
<1>3. CASE Leave(t)
  BY <1>3, UnloadSound, CarriedPages DEF Leave, member, OutboxInv, Typed
<1>4. tabs[t] \in Tab BY DEF OutboxInv, Typed
<1>5. CASE GoOffline(t)
  <2>1. tabs' \in [Tabs -> Tab] BY <1>4, <1>5 DEF GoOffline, OutboxInv, Typed, Tab
  <2>2. ItemsSound(items') /\ RequestsSound(requests') BY <1>5, Sound DEF GoOffline
  <2> QED BY <1>0, <1>5, <2>1, <2>2, CarriedPages
      DEF GoOffline, member, OutboxInv, Typed
<1>6. CASE PauseDrain(t)
  <2>1. tabs' \in [Tabs -> Tab]
    <3> DEFINE p == Paused(tabs[t])
    <3>1. tabs[t].promotions + 1 \in Nat BY <1>4 DEF Tab
    <3>2. p \in Tab BY <1>4, <3>1 DEF Tab, Paused
    <3>3. tabs' = [tabs EXCEPT ![t] = p] BY <1>6 DEF PauseDrain
    <3> HIDE DEF p
    <3> QED BY <3>2, <3>3 DEF OutboxInv, Typed
  <2>2. ItemsSound(items') /\ RequestsSound(requests') BY <1>6, Sound DEF PauseDrain
  <2> QED BY <1>0, <1>6, <2>1, <2>2, CarriedPages
      DEF PauseDrain, member, OutboxInv, Typed
<1> QED BY <1>1, <1>2, <1>3, <1>5, <1>6

LEMMA SessionSteps ==
  ASSUME OutboxInv, ExpireSession \/ SignIn
  PROVE  OutboxInv'
<1>1. Fault => faults' \in 0 .. MaxFaults
  BY OutboxAssumption DEF Fault, OutboxInv, Typed
<1>2. ItemsSound(items') /\ RequestsSound(requests')
  BY Sound DEF ExpireSession, SignIn, page
<1> QED BY <1>1, <1>2, CarriedPages DEF ExpireSession, SignIn, page, member, OutboxInv, Typed

\* What the device held and no longer holds.
Forgotten == {m \in Messages : device[m] # None /\ device'[m] = None}

LEMMA LogOutStep ==
  ASSUME OutboxInv, NEW t \in Tabs, LogOut(t)
  PROVE  OutboxInv' /\ Forgotten \subseteq Settled'
<1>1. /\ Committed' = Committed /\ Settled \subseteq Settled' /\ CommittedOnce'
      /\ left \subseteq left' /\ left' \subseteq Messages
  BY DEF LogOut, Committed, Settled, Dropped, OutboxInv, Typed, CommittedOnce
<1>2. /\ device' \in [Messages -> Statuses \cup {None}]
      /\ \A m \in Messages : device'[m] = "SENT" => m \in Committed
  BY DEF LogOut, OutboxInv, Typed, DeviceGrounded, None
<1>3. faults' \in 0 .. MaxFaults
  BY OutboxAssumption DEF LogOut, Fault, OutboxInv, Typed
<1>4. tabs' \in [Tabs -> Tab]
  <2>1. tabs[t] \in Tab BY DEF OutboxInv, Typed
  <2> QED BY <2>1 DEF LogOut, OutboxInv, Typed, Tab
<1>5. ItemsSound(items') /\ RequestsSound(requests') BY Sound DEF LogOut
<1>6. OutboxInv' BY <1>1, <1>2, <1>3, <1>4, <1>5, Carried DEF LogOut, OutboxInv, Typed
<1>7. Forgotten \subseteq left' BY DEF Forgotten, LogOut
<1> QED BY <1>6, <1>7 DEF Settled, Dropped

LEMMA ServerSteps ==
  ASSUME OutboxInv, NEW t \in Tabs, NEW m \in Messages, NEW n \in Slots,
         FindMessage(t, m, n) \/ Refuse(t, m, n) \/ InsertMessage(t, m, n)
           \/ Fade(t, m, n)
  PROVE  OutboxInv' /\ device' = device
<1> DEFINE r == requests[t][m][n]
<1>0. r \in Request /\ (r.stage = "ok" => m \in Committed)
  BY Sound DEF RequestsSound
<1>1. Fault => faults' \in 0 .. MaxFaults
  BY OutboxAssumption DEF Fault, OutboxInv, Typed
<1>2. /\ UNCHANGED <<tabs, items, device, signedIn, member>>
      /\ Refuse(t, m, n) => Fault
      /\ ~Refuse(t, m, n) => faults' = faults
  BY DEF FindMessage, Refuse, InsertMessage, Fade, ServerStep
<1>3. rows' \in Seq(Messages) /\ Committed \subseteq Committed' /\ CommittedOnce'
  <2>1. CASE rows' = rows
    BY <2>1 DEF Committed, CommittedOnce, OutboxInv, Typed
  <2>2. CASE m \notin Committed /\ rows' = Append(rows, m)
    <3>1. /\ rows \in Seq(Messages)
          /\ \A a, b \in DOMAIN rows : rows[a] = rows[b] => a = b
          /\ \A a \in DOMAIN rows : rows[a] # m
      BY <2>2 DEF OutboxInv, Typed, CommittedOnce, Committed
    <3>2. /\ rows' \in Seq(Messages)
          /\ \A a \in DOMAIN rows : a \in DOMAIN rows' /\ rows'[a] = rows[a]
          /\ \A a \in DOMAIN rows' : \/ a \in DOMAIN rows /\ rows'[a] = rows[a]
                                     \/ a = Len(rows) + 1 /\ rows'[a] = m
      BY <2>2, <3>1
    <3> QED BY <3>1, <3>2 DEF Committed, CommittedOnce
  <2> QED BY <2>1, <2>2
      DEF FindMessage, Refuse, InsertMessage, Fade, Unique
<1>4. \E stage \in {"auth", "ok", "missed", "terminal", "retryable"} :
        /\ Reaches(t, m, n, stage) \/ requests' = [requests EXCEPT ![t][m][n] = Idle]
        /\ stage = "ok" => m \in Committed'
  <2>1. CASE FindMessage(t, m, n)
    BY <2>1, <1>3 DEF FindMessage
  <2>2. CASE Refuse(t, m, n) BY <2>2 DEF Refuse
  <2>3. CASE InsertMessage(t, m, n)
    <3>1. CASE Unique(m) /\ rows' = Append(rows, m) /\ Reaches(t, m, n, "ok")
      <4>1. rows \in Seq(Messages) BY DEF OutboxInv, Typed
      <4>2. Len(rows) + 1 \in DOMAIN rows' /\ rows'[Len(rows) + 1] = m
        BY <3>1, <4>1
      <4> QED BY <3>1, <4>2 DEF Committed
    <3>2. CASE Reaches(t, m, n, "retryable") BY <3>2
    <3> QED BY <2>3, <3>1, <3>2 DEF InsertMessage
  <2>4. CASE Fade(t, m, n) BY <2>4 DEF Fade
  <2> QED BY <2>1, <2>2, <2>3, <2>4
<1>5. \E r2 \in Request : /\ requests' = [requests EXCEPT ![t][m][n] = r2]
                          /\ r2.stage = "ok" => m \in Committed'
  <2>1. PICK stage \in {"auth", "ok", "missed", "terminal", "retryable"} :
          /\ Reaches(t, m, n, stage) \/ requests' = [requests EXCEPT ![t][m][n] = Idle]
          /\ stage = "ok" => m \in Committed'
    BY <1>4
  <2>2. Idle \in Request /\ Idle.stage # "ok" BY Constants
  <2>3. CASE requests' = [requests EXCEPT ![t][m][n] = Idle] BY <2>2, <2>3
  <2>4. CASE Reaches(t, m, n, stage)
    <3> DEFINE moved == [r EXCEPT !.stage = stage]
    <3>1. moved \in Request /\ moved.stage = stage BY <1>0 DEF Request, Answers
    <3>2. requests' = [requests EXCEPT ![t][m][n] =
            IF r.heard \/ stage \notin Answers THEN moved ELSE Idle]
      BY <2>4 DEF Reaches
    <3> HIDE DEF moved, r
    <3> QED BY <2>1, <2>2, <3>1, <3>2
  <2> QED BY <2>1, <2>3, <2>4
<1> HIDE DEF r
<1>6. Typed'
  BY <1>1, <1>2, <1>3, <1>5 DEF OutboxInv, Typed, member
<1>7. AnswersGrounded'
  BY <1>3, <1>5, Sound DEF AnswersGrounded, RequestsSound
<1>8. Settled \subseteq Settled' BY <1>2, <1>3 DEF Settled, Dropped, member
<1>9. ItemsGrounded'
  <2> SUFFICES ASSUME NEW s \in Tabs, NEW k \in Messages
      PROVE Grounded(items'[s][k], k, Committed', Settled')
    BY DEF ItemsGrounded
  <2> QED BY <1>2, <1>3, <1>8, Sound, Weaker
<1>10. DeviceGrounded' BY <1>2, <1>3 DEF OutboxInv, DeviceGrounded
<1> QED BY <1>2, <1>3, <1>6, <1>7, <1>9, <1>10 DEF OutboxInv

---------------------------------------------------------------------------
(* The theorems.                                                           *)

\* A step keeps the invariant, and forgets what is settled only.
LEMMA NextInv ==
  ASSUME OutboxInv, [Next]_vars
  PROVE  OutboxInv' /\ Forgotten \subseteq Settled'
<1>1. CASE \E t \in Tabs, m \in Messages : Flush(t, m)
  <2> PICK t \in Tabs, m \in Messages : Flush(t, m) BY <1>1
  <2>1. OutboxInv' /\ (device'[m] = None => m \in Settled) BY FlushStep
  <2>2. Settled' = Settled
    BY DEF Flush, member, Settled, Dropped, Committed
  <2>3. \A k \in Messages : k # m => device'[k] = device[k]
    BY DEF Flush, OutboxInv, Typed
  <2> QED BY <2>1, <2>2, <2>3 DEF Forgotten
<1>2. CASE \E t \in Tabs : LogOut(t) BY <1>2, LogOutStep
<1>3. CASE device' = device /\ OutboxInv' BY <1>3 DEF Forgotten
<1>4. CASE UNCHANGED vars
  <2>1. ItemsSound(items') /\ RequestsSound(requests') BY <1>4, Sound DEF vars
  <2>2. OutboxInv' BY <1>4, <2>1, CarriedPages DEF vars, OutboxInv, Typed
  <2> QED BY <1>3, <1>4, <2>2 DEF vars
<1>5. CASE SignIn \/ ExpireSession
  BY <1>3, <1>5, SessionSteps DEF SignIn, ExpireSession
<1>6. ASSUME NEW t \in Tabs, GoOnline(t) \/ ResumeDrain(t) \/ Open(t)
      PROVE  OutboxInv' /\ Forgotten \subseteq Settled'
  BY <1>3, <1>6, ResumeSteps DEF GoOnline, ResumeDrain, Open
<1>7. ASSUME NEW t \in Tabs,
             Close(t) \/ Reload(t) \/ Leave(t) \/ GoOffline(t) \/ PauseDrain(t)
      PROVE  OutboxInv' /\ Forgotten \subseteq Settled'
  BY <1>3, <1>7, PageSteps DEF Close, Reload, Leave, GoOffline, PauseDrain
<1>8. ASSUME NEW t \in Tabs, NEW m \in Messages,
             RetryTimer(t, m) \/ Delete(t, m)
      PROVE  OutboxInv' /\ Forgotten \subseteq Settled'
  BY <1>3, <1>8, PageTimers DEF RetryTimer, Delete
<1>9. ASSUME NEW t \in Tabs, NEW m \in Messages,
             Send(t, m) \/ RetryFailed(t, m) \/ DiscardFailed(t, m)
      PROVE  OutboxInv' /\ Forgotten \subseteq Settled'
  BY <1>3, <1>9, MemberSteps DEF Send, RetryFailed, DiscardFailed
<1>10. ASSUME NEW t \in Tabs, NEW m \in Messages, NEW n \in Slots,
              Answer(t, m, n) \/ GiveUp(t, m, n)
       PROVE  OutboxInv' /\ Forgotten \subseteq Settled'
  BY <1>3, <1>10, AnswerSteps DEF Answer, GiveUp
<1>11. ASSUME NEW t \in Tabs, NEW m \in Messages, NEW n \in Slots,
              FindMessage(t, m, n) \/ Refuse(t, m, n) \/ InsertMessage(t, m, n)
                \/ Fade(t, m, n)
       PROVE  OutboxInv' /\ Forgotten \subseteq Settled'
  BY <1>3, <1>11, ServerSteps
<1>12. ASSUME NEW t \in Tabs, TabStep(t) \/ Disturb(t)
       PROVE  OutboxInv' /\ Forgotten \subseteq Settled'
  <2>1. CASE TabStep(t)
    BY <2>1, <1>1, <1>6, <1>7, <1>8 DEF TabStep
  <2>2. CASE Disturb(t)
    BY <2>2, <1>2, <1>7, <1>9, <1>10, <1>11 DEF Disturb
  <2> QED BY <1>12, <2>1, <2>2
<1>13. ASSUME NEW t \in Tabs, NEW m \in Messages, NEW n \in Slots,
              RequestStep(t, m, n)
       PROVE  OutboxInv' /\ Forgotten \subseteq Settled'
  BY <1>10, <1>11, <1>13 DEF RequestStep
<1> QED BY <1>4, <1>5, <1>12, <1>13 DEF Next, Progress

LEMMA OutboxInvariance == Spec => []OutboxInv
<1>1. Init => OutboxInv BY InitInv
<1>2. OutboxInv /\ [Next]_vars => OutboxInv' BY NextInv
<1> QED BY <1>1, <1>2, PTL DEF Spec

\* Every variable keeps its type, whatever the tabs, the network and the
\* member do.
THEOREM OutboxTypes == Spec => []OutboxTypeOK
BY OutboxInvariance, OutboxInvTypes, PTL

\* However many tabs send a message, and however often, the server has one
\* row of it.
THEOREM OneRowPerMessage == Spec => []CommittedOnce
<1>1. OutboxInv => CommittedOnce BY DEF OutboxInv
<1> QED BY <1>1, OutboxInvariance, PTL

\* No tab and no row of the device says "Sent" of a message that is not
\* committed.
THEOREM SentMeansCommitted == Spec => []SentIsCommitted
BY OutboxInvariance, OutboxInvSent, PTL

\* The device forgets a queued message only once it is committed or dropped.
THEOREM QueueKeepsUnsettled == Spec => ForgetsOnlySettled
<1>1. OutboxInv /\ [Next]_vars
        => [\A m \in Messages : device[m] # None /\ device'[m] = None
              => m \in Committed' \cup Dropped']_vars
  BY NextInv DEF Forgotten, Settled
<1> QED BY <1>1, OutboxInvariance, PTL DEF Spec, ForgetsOnlySettled
=============================================================================
