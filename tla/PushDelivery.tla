--------------------------- MODULE PushDelivery ---------------------------
(* The Push Notifications bounded context of bnest-app: Web Push           *)
(* subscriptions, the deliveries a committed family chat message owes      *)
(* them, the dispatcher processes every tick starts, which claim the       *)
(* oldest due delivery, send it and record what the provider answered, and *)
(* the retention that removes finished rows.                               *)
(*                                                                         *)
(* A claim, a record of an answer, a retention run is one SQLite           *)
(* transaction each.  Between a claim and the record of its answer lies an *)
(* HTTP request; meanwhile any other process may run.                      *)
EXTENDS Integers, Sequences, FiniteSets

CONSTANTS
    Users, Sessions,
    Subscriptions,  \* rows of web_push_subscriptions, one per endpoint
    Dispatchers,    \* processes that drain the due deliveries
    Wait,           \* attempt -> wait after its retryable failure
    Lease, Ceiling, \* of one attempt; of all attempts since the commit
    Retention,      \* how long a finished, then a soft-deleted, row is kept
    NoTime,         \* SQL NULL in a time column
    Nobody,         \* the sender of a system message; the owner of no row yet
    MaxTime,        \* bound of the clock
    MaxDeliveries,  \* bound of the rows ever committed
    MaxLosses,      \* bound of the dispatchers that die holding a claim
    MaxLag          \* bound of a retention run's delay since its claim

MaxAttempts == 5

Instants == 0 .. MaxTime
Owners == Users \X Sessions

ASSUME PushAssumption ==
    /\ Wait \in [1 .. MaxAttempts - 1 -> Nat]
    /\ Lease \in Nat \ {0} /\ Ceiling \in Nat /\ Retention \in Nat
    /\ IsFiniteSet(Subscriptions)
    /\ NoTime \notin Int
    /\ Nobody \notin Users /\ Nobody \notin Owners
    /\ MaxTime \in Nat /\ MaxDeliveries \in Nat
    /\ MaxLosses \in Nat /\ MaxLag \in Nat

VARIABLES
    clock,          \* the host's wall clock
    subscriptions,  \* web_push_subscriptions
    deliveries,     \* family_chat_push_deliveries, in the order of their IDs
    dispatchers,    \* what each dispatcher holds
    losses,         \* how many died with a claim, for MaxLosses
    overrun         \* history: the deliveries written after the writer's lease

vars == <<clock, subscriptions, deliveries, dispatchers, losses, overrun>>

---------------------------------------------------------------------------
(* PushNotifications.Domain.Policy.                                        *)

PastCeiling(created, now) == now - created > Ceiling

\* Fault: only the attempts are counted.
NextWaitUncapped(attempt, created, now) ==
    IF attempt >= MaxAttempts THEN NoTime ELSE Wait[attempt]

\* NoTime once the attempts are spent or the next would pass the ceiling.
NextWait(attempt, created, now) ==
    IF attempt >= MaxAttempts THEN NoTime
    ELSE IF PastCeiling(created, now + Wait[attempt]) THEN NoTime
    ELSE Wait[attempt]

---------------------------------------------------------------------------
Unfinished == {"pending", "claimed", "retryable"}
Final == {"delivered", "terminal"}

Pending(s) == [sub |-> s, state |-> "pending", attempt |-> 0, next |-> NoTime,
               lease |-> NoTime, created |-> clock, updated |-> clock,
               deleted |-> NoTime]

Idle == [pc |-> "idle", id |-> 0, attempt |-> 0, now |-> 0]

Init ==
    /\ clock = 0
    /\ subscriptions = [s \in Subscriptions |-> [owner |-> Nobody, active |-> FALSE]]
    /\ deliveries = <<>>
    /\ dispatchers = [p \in Dispatchers |-> Idle]
    /\ losses = 0 /\ overrun = {}

---------------------------------------------------------------------------
(* Members: subscriptions and messages.                                    *)

\* The session's other bindings are deactivated; the endpoint's row is made
\* the session's, whoever owned it before.
Upsert(owner, s) ==
    /\ subscriptions' = [r \in Subscriptions |->
           IF r = s THEN [owner |-> owner, active |-> TRUE]
           ELSE IF subscriptions[r].owner = owner
                THEN [subscriptions[r] EXCEPT !.active = FALSE]
           ELSE subscriptions[r]]
    /\ UNCHANGED <<clock, deliveries, dispatchers, losses, overrun>>

\* Turned off in the room, or by a logout.
DisableSession(owner) ==
    /\ subscriptions' = [r \in Subscriptions |->
           IF subscriptions[r].owner = owner
           THEN [subscriptions[r] EXCEPT !.active = FALSE] ELSE subscriptions[r]]
    /\ UNCHANGED <<clock, deliveries, dispatchers, losses, overrun>>

Recipients(sender) ==
    {s \in Subscriptions : /\ subscriptions[s].active
                           /\ sender = Nobody \/ subscriptions[s].owner[1] # sender}

\* A message commits with one pending delivery for each recipient; the query
\* that names them has no ORDER BY.
Post(sender) ==
    LET n == Cardinality(Recipients(sender))
    IN  /\ Len(deliveries) + n <= MaxDeliveries
        /\ n > 0
        /\ \E order \in [1 .. n -> Recipients(sender)] :
               /\ \A i, j \in 1 .. n : order[i] = order[j] => i = j
               /\ deliveries' = deliveries \o [i \in 1 .. n |-> Pending(order[i])]
        /\ UNCHANGED <<clock, subscriptions, dispatchers, losses, overrun>>

---------------------------------------------------------------------------
(* The dispatcher: one Dispatcher.attempt/0 after another until none is    *)
(* due.  A process between two attempts is as one that has not started.    *)

\* Fault: a claimed delivery is due whether or not its lease has passed.
DueUnleased ==
    {i \in DOMAIN deliveries :
        /\ deliveries[i].deleted = NoTime
        /\ \/ /\ deliveries[i].state \in {"pending", "retryable"}
              /\ deliveries[i].next = NoTime \/ deliveries[i].next <= clock
           \/ deliveries[i].state = "claimed"}

\* Fault: a delivery whose dispatcher died is not looked for.
DueUnrecovered ==
    {i \in DOMAIN deliveries :
        /\ deliveries[i].deleted = NoTime
        /\ deliveries[i].state \in {"pending", "retryable"}
        /\ deliveries[i].next = NoTime \/ deliveries[i].next <= clock}

Due ==
    {i \in DOMAIN deliveries :
        /\ deliveries[i].deleted = NoTime
        /\ \/ /\ deliveries[i].state \in {"pending", "retryable"}
              /\ deliveries[i].next = NoTime \/ deliveries[i].next <= clock
           \/ deliveries[i].state = "claimed" /\ deliveries[i].lease <= clock}

\* Fault: the lease is counted from the row's last change.
ClaimedStale(d) ==
    [d EXCEPT !.state = "claimed", !.lease = d.updated + Lease, !.next = NoTime,
              !.attempt = @ + 1, !.updated = clock]

Claimed(d) ==
    [d EXCEPT !.state = "claimed", !.lease = clock + Lease, !.next = NoTime,
              !.attempt = @ + 1, !.updated = clock]

\* The table admits no sixth attempt: the claim of a row at the limit is
\* aborted by its CHECK and the dispatcher dies with nothing changed.
Claim(p, i) ==
    /\ dispatchers[p].pc = "idle"
    /\ i \in Due /\ \A j \in Due : i <= j
    /\ deliveries[i].attempt < MaxAttempts
    /\ deliveries' = [deliveries EXCEPT ![i] = Claimed(@)]
    /\ dispatchers' = [dispatchers EXCEPT ![p] =
           [pc |-> "sending", id |-> i, attempt |-> deliveries[i].attempt + 1,
            now |-> clock]]
    /\ UNCHANGED <<clock, subscriptions, losses, overrun>>

Held(p) == deliveries[dispatchers[p].id]
TooLate(p) == PastCeiling(Held(p).created, dispatchers[p].now)

\* The row is written by its ID alone; a purged row is no longer there.
Finalize(p, state) ==
    deliveries' =
        IF Held(p).state = "purged" THEN deliveries
        ELSE [deliveries EXCEPT ![dispatchers[p].id] =
                 [@ EXCEPT !.state = state, !.lease = NoTime, !.next = NoTime,
                           !.updated = dispatchers[p].now]]

InLease(p) == clock < dispatchers[p].now + Lease

\* Nothing compares the row with the claim that is being answered: an answer
\* that comes after the lease is written as any other.
NotesOverrun(p) ==
    overrun' = IF InLease(p) THEN overrun ELSE overrun \cup {dispatchers[p].id}

Finished(p) == dispatchers' = [dispatchers EXCEPT ![p] = Idle]

\* Accepted by the provider, or refused for good.
Answered(p, state) ==
    /\ dispatchers[p].pc = "sending" /\ ~TooLate(p)
    /\ Finalize(p, state)
    /\ Finished(p)
    /\ NotesOverrun(p)
    /\ UNCHANGED <<clock, subscriptions, losses>>

\* The endpoint is gone: the delivery ends, then its subscription is disabled.
Gone(p) ==
    /\ dispatchers[p].pc = "sending" /\ ~TooLate(p)
    /\ Finalize(p, "terminal")
    /\ dispatchers' = [dispatchers EXCEPT ![p].pc = "gone"]
    /\ NotesOverrun(p)
    /\ UNCHANGED <<clock, subscriptions, losses>>

DisableGone(p) ==
    /\ dispatchers[p].pc = "gone"
    /\ subscriptions' = [subscriptions EXCEPT ![Held(p).sub].active = FALSE]
    /\ Finished(p)
    /\ UNCHANGED <<clock, deliveries, losses, overrun>>

WaitAfter(p) == NextWait(dispatchers[p].attempt, Held(p).created, dispatchers[p].now)

\* A retryable answer with time and attempts left.  A soft-deleted row may not
\* become unfinished again: its CHECK aborts the write and the process dies.
Retry(p) ==
    /\ dispatchers[p].pc = "sending" /\ ~TooLate(p) /\ WaitAfter(p) # NoTime
    /\ deliveries' =
           IF Held(p).deleted # NoTime THEN deliveries
           ELSE [deliveries EXCEPT ![dispatchers[p].id] =
                    [@ EXCEPT !.state = "retryable", !.lease = NoTime,
                              !.next = dispatchers[p].now + WaitAfter(p),
                              !.updated = dispatchers[p].now]]
    /\ Finished(p)
    /\ NotesOverrun(p)
    /\ UNCHANGED <<clock, subscriptions, losses>>

\* Claimed past the ceiling, or retryable with no attempt left before it.
Retire(p) ==
    /\ dispatchers[p].pc = "sending"
    /\ TooLate(p) \/ WaitAfter(p) = NoTime
    /\ Finalize(p, "terminal")
    /\ Finished(p)
    /\ NotesOverrun(p)
    /\ UNCHANGED <<clock, subscriptions, losses>>

\* The process or its node dies, or an adapter raises.
Lose(p) ==
    /\ dispatchers[p].pc # "idle"
    /\ losses < MaxLosses
    /\ Finished(p)
    /\ losses' = losses + 1
    /\ UNCHANGED <<clock, subscriptions, deliveries, overrun>>

---------------------------------------------------------------------------
(* Retention: retain_deliveries/1, run by the scheduler with the time its  *)
(* claim was made at.                                                      *)

\* Fault: rows are removed by age, whatever their state.
OutlivedByAge(now) ==
    {i \in DOMAIN deliveries : /\ deliveries[i].deleted = NoTime
                               /\ deliveries[i].updated <= now - Retention}

Outlived(now) ==
    {i \in DOMAIN deliveries : /\ deliveries[i].deleted = NoTime
                               /\ deliveries[i].state \in Final
                               /\ deliveries[i].updated <= now - Retention}

Purgeable(now) ==
    {i \in DOMAIN deliveries : /\ deliveries[i].deleted # NoTime
                               /\ deliveries[i].state # "purged"
                               /\ deliveries[i].deleted <= now - Retention}

Retain(now) ==
    /\ now >= clock - MaxLag
    /\ Outlived(now) \cup Purgeable(now) # {}
    /\ deliveries' = [i \in DOMAIN deliveries |->
           IF i \in Outlived(now) THEN [deliveries[i] EXCEPT !.deleted = now]
           ELSE IF i \in Purgeable(now) THEN [deliveries[i] EXCEPT !.state = "purged"]
           ELSE deliveries[i]]
    /\ UNCHANGED <<clock, subscriptions, dispatchers, losses, overrun>>

---------------------------------------------------------------------------
\* Also while a dispatcher's request is under way, past its lease if the host
\* stalls: nothing ends a process when its lease passes.
Advance ==
    /\ clock < MaxTime
    /\ clock' = clock + 1
    /\ UNCHANGED <<subscriptions, deliveries, dispatchers, losses, overrun>>

Member ==
    \/ \E o \in Owners, s \in Subscriptions : Upsert(o, s)
    \/ \E o \in Owners : DisableSession(o)
    \/ \E u \in Users \cup {Nobody} : Post(u)

Records(p) ==
    \/ \E state \in Final : Answered(p, state)
    \/ Gone(p) \/ DisableGone(p) \/ Retry(p) \/ Retire(p)

Dispatch == \E p \in Dispatchers :
    (\E i \in DOMAIN deliveries : Claim(p, i)) \/ Records(p) \/ Lose(p)

Next == Member \/ Dispatch \/ (\E now \in 0 .. clock : Retain(now)) \/ Advance

Spec == Init /\ [][Next]_vars

---------------------------------------------------------------------------
(* Properties.                                                             *)

Rows == [sub : Subscriptions, state : Unfinished \cup Final \cup {"purged"},
         attempt : 0 .. MaxAttempts, next : Int \cup {NoTime},
         lease : Int \cup {NoTime}, created : Instants, updated : Instants,
         deleted : Instants \cup {NoTime}]

\* Besides the types, the table's CHECKs: a lease marks a claimed row, only a
\* waiting row has a next attempt.
TypeOK ==
    /\ clock \in Instants /\ losses \in 0 .. MaxLosses
    /\ overrun \subseteq DOMAIN deliveries
    /\ subscriptions \in [Subscriptions ->
           [owner : Owners \cup {Nobody}, active : BOOLEAN]]
    /\ deliveries \in Seq(Rows)
    /\ \A i \in DOMAIN deliveries :
           LET d == deliveries[i]
           IN  /\ d.state = "claimed" <=> d.lease # NoTime
               /\ d.next # NoTime => d.state \in {"pending", "retryable"}
    /\ dispatchers \in [Dispatchers ->
           [pc : {"idle", "sending", "gone"}, id : 0 .. Len(deliveries),
            attempt : 0 .. MaxAttempts, now : Instants]]

\* A delivery is in the hands of one process whose lease lasts, across
\* overlapping drains of several ticks and nodes, lost processes, stalled ones
\* and recoveries, so that nobody is notified twice by one attempt: unless an
\* answer was written after its lease, which takes the claim from whoever
\* recovered the row.
OneSender ==
    \A p, q \in Dispatchers :
        /\ dispatchers[p].pc = "sending" /\ InLease(p)
        /\ dispatchers[q].pc = "sending" /\ InLease(q)
        /\ dispatchers[p].id = dispatchers[q].id
        => p = q \/ dispatchers[p].id \in overrun

\* A delivery waits for another attempt only within the ceiling counted from
\* the commit of its message, however late the answer was written, and, if its
\* answers came in time, only when an attempt is left.
RetriesFit ==
    \A i \in DOMAIN deliveries :
        deliveries[i].state = "retryable" =>
            /\ deliveries[i].next - deliveries[i].created <= Ceiling
            /\ i \notin overrun => deliveries[i].attempt < MaxAttempts

\* A session notifies one endpoint: rebinding an endpoint, a new endpoint of
\* the session and a gone endpoint never leave it two active ones.
OneBindingPerSession ==
    \A r, s \in Subscriptions :
        /\ subscriptions[r].active /\ subscriptions[s].active
        /\ subscriptions[r].owner = subscriptions[s].owner
        => r = s

\* A row leaves the active set a full retention period after its message was
\* committed, after its last answer if that came in time, and the table
\* another period later; an unfinished row never does, nor does a late answer
\* make a row unfinished that has left.
KeptForRetention ==
    \A i \in DOMAIN deliveries :
        LET d == deliveries[i]
        IN  d.deleted # NoTime =>
                /\ d.state \notin Unfinished
                /\ d.created + Retention <= d.deleted
                /\ i \notin overrun => d.updated + Retention <= d.deleted
                /\ d.state = "purged" => d.deleted + Retention <= clock

Replaced(i) ==
    /\ deliveries[i].state \in Final
    /\ deliveries'[i].state \notin {deliveries[i].state, "purged"}

\* The recorded outcome of a delivery is replaced only after an answer was
\* written past its lease: overlapping drains, recoveries and retention
\* replace none.
OutcomeStays == [][\A i \in DOMAIN deliveries : Replaced(i) => i \in overrun']_vars

\* What the contract says of every completion (002-data-model-and-migration-
\* contract.md:253): a stale one overwrites no outcome.  The code's does.
FinalStays == [][\A i \in DOMAIN deliveries : ~Replaced(i)]_vars

---------------------------------------------------------------------------
(* Liveness: the tick starts a drain every minute, time passes, and a      *)
(* dispatcher's requests time out, so that it records an answer or dies.   *)

Fairness ==
    /\ WF_vars(Advance)
    /\ WF_vars(\E p \in Dispatchers, i \in 1 .. MaxDeliveries : Claim(p, i))
    /\ \A p \in Dispatchers : WF_vars(Records(p))

FairSpec == Spec /\ Fairness

Owed(i) == i \in DOMAIN deliveries /\ deliveries[i].state \in Unfinished

\* The delivery's next attempt lies beyond the bounded clock.
BeyondHorizon(i) ==
    \/ deliveries[i].next # NoTime /\ deliveries[i].next > MaxTime
    \/ deliveries[i].lease # NoTime /\ deliveries[i].lease > MaxTime

\* Every delivery ends delivered or given up, whatever the provider answers
\* and whatever became of the deliveries queued before it.
DeliveriesSettle ==
    \A i \in 1 .. MaxDeliveries : Owed(i) ~> ~Owed(i) \/ BeyondHorizon(i)
===========================================================================
