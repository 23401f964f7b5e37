------------------------ MODULE PushDeliveryProofs ------------------------
(* Machine-checked theorems about PushDelivery, for every number of users, *)
(* subscriptions, dispatchers and deliveries and every duration.           *)
EXTENDS PushDelivery, SequenceTheorems, FiniteSetTheorems, TLAPS

---------------------------------------------------------------------------
(* Types.  A held delivery is in the table, a soft-deleted one finished.   *)

RowOK(d) ==
    /\ d \in Rows
    /\ d.state = "claimed" <=> d.lease # NoTime
    /\ d.next # NoTime => d.state \in {"pending", "retryable"}
    /\ d.deleted # NoTime => d.state \notin Unfinished

Holding == [pc : {"idle", "sending", "gone"}, id : 0 .. Len(deliveries),
            attempt : 0 .. MaxAttempts, now : Instants]

DispatchersOK ==
    /\ dispatchers \in [Dispatchers -> Holding]
    /\ \A p \in Dispatchers :
           dispatchers[p].pc # "idle" => /\ dispatchers[p].id \in 1 .. Len(deliveries)
                                         /\ dispatchers[p].attempt \in 1 .. MaxAttempts

TypeInv ==
    /\ clock \in Instants /\ losses \in 0 .. MaxLosses
    /\ subscriptions \in [Subscriptions ->
           [owner : Owners \cup {Nobody}, active : BOOLEAN]]
    /\ deliveries \in Seq(Rows)
    /\ \A i \in 1 .. Len(deliveries) : RowOK(deliveries[i])
    /\ DispatchersOK
    /\ overrun \subseteq 1 .. Len(deliveries)

LEMMA TypeInvImplies == TypeInv => TypeOK
<1> SUFFICES ASSUME TypeInv PROVE TypeOK
  OBVIOUS
<1>1. DOMAIN deliveries = 1 .. Len(deliveries)
  BY LenProperties DEF TypeInv
<1>2. QED
  BY <1>1 DEF TypeInv, TypeOK, DispatchersOK, Holding, RowOK

\* A function on 1 .. n is a sequence of length n.
LEMMA SequenceOf ==
    ASSUME NEW S, NEW n \in Nat, NEW f \in [1 .. n -> S]
    PROVE  f \in Seq(S) /\ Len(f) = n
<1>1. f \in Seq(S)
  BY SeqDef
<1>2. DOMAIN f = 1 .. Len(f) /\ Len(f) \in Nat
  BY <1>1, LenProperties
<1>3. 1 .. Len(f) = 1 .. n
  BY <1>2
<1>4. QED
  BY <1>1, <1>2, <1>3

---------------------------------------------------------------------------
(* What a step writes into a row.                                          *)

LEMMA ClaimedOK ==
    ASSUME clock \in Instants, NEW d, RowOK(d), d.attempt < MaxAttempts,
           d.deleted = NoTime
    PROVE  RowOK(Claimed(d))
<1>1. clock + Lease \in Int /\ clock + Lease # NoTime /\ d.attempt + 1 \in 0 .. MaxAttempts
  BY PushAssumption DEF RowOK, Rows, Instants, MaxAttempts
<1>2. Claimed(d) \in Rows
  BY <1>1 DEF Claimed, RowOK, Rows, Unfinished
<1>3. /\ Claimed(d).state = "claimed" /\ Claimed(d).lease = clock + Lease
      /\ Claimed(d).next = NoTime /\ Claimed(d).deleted = NoTime
  BY <1>2 DEF Claimed, RowOK, Rows
<1>4. QED
  BY <1>1, <1>2, <1>3 DEF RowOK

Ended(d, state, now) ==
    [d EXCEPT !.state = state, !.lease = NoTime, !.next = NoTime, !.updated = now]

LEMMA EndedOK ==
    ASSUME NEW d, RowOK(d), NEW state \in Final, NEW now \in Instants
    PROVE  RowOK(Ended(d, state, now))
<1>1. Ended(d, state, now) \in Rows
  BY DEF Ended, RowOK, Rows
<1>2. /\ Ended(d, state, now).state = state /\ Ended(d, state, now).lease = NoTime
      /\ Ended(d, state, now).next = NoTime
      /\ Ended(d, state, now).deleted = d.deleted
  BY DEF Ended, RowOK, Rows
<1>3. state # "claimed" /\ state \notin Unfinished
  BY DEF Final, Unfinished
<1>4. QED
  BY <1>1, <1>2, <1>3 DEF RowOK

Waiting(d, next, now) ==
    [d EXCEPT !.state = "retryable", !.lease = NoTime, !.next = next, !.updated = now]

LEMMA WaitingOK ==
    ASSUME NEW d, RowOK(d), d.deleted = NoTime, NEW next \in Int, NEW now \in Instants
    PROVE  RowOK(Waiting(d, next, now))
<1>1. Waiting(d, next, now) \in Rows
  BY DEF Waiting, RowOK, Rows, Unfinished
<1>2. /\ Waiting(d, next, now).state = "retryable"
      /\ Waiting(d, next, now).lease = NoTime
      /\ Waiting(d, next, now).deleted = NoTime
  BY DEF Waiting, RowOK, Rows
<1>3. QED
  BY <1>1, <1>2 DEF RowOK

\* Retention: a final row is soft-deleted, a soft-deleted one is purged.
LEMMA RetainedOK ==
    ASSUME NEW d, RowOK(d), NEW now \in Instants
    PROVE  /\ d.state \in Final => RowOK([d EXCEPT !.deleted = now])
           /\ d.deleted # NoTime => RowOK([d EXCEPT !.state = "purged"])
<1>1. [d EXCEPT !.deleted = now] \in Rows /\ [d EXCEPT !.state = "purged"] \in Rows
  BY DEF RowOK, Rows
<1>2. ASSUME d.state \in Final PROVE RowOK([d EXCEPT !.deleted = now])
  <2> DEFINE e == [d EXCEPT !.deleted = now]
  <2>1. e.state = d.state /\ e.lease = d.lease /\ e.next = d.next
    BY DEF RowOK, Rows
  <2>2. QED
    BY <1>1, <1>2, <2>1 DEF RowOK, Final, Unfinished
<1>3. ASSUME d.deleted # NoTime PROVE RowOK([d EXCEPT !.state = "purged"])
  <2> DEFINE e == [d EXCEPT !.state = "purged"]
  <2>1. e.state = "purged" /\ e.lease = d.lease /\ e.next = d.next
    BY DEF RowOK, Rows
  <2>2. QED
    BY <1>1, <1>3, <2>1 DEF RowOK, Unfinished
<1>4. QED
  BY <1>2, <1>3

\* A retry that the policy allows: an attempt is left, and falls within the ceiling.
Fits(p, i, next) ==
    /\ next \in Int /\ dispatchers[p].attempt < MaxAttempts
    /\ next - deliveries[i].created <= Ceiling

\* What a step may do to a row that is there.
RowStep(i) ==
    \/ deliveries'[i] = deliveries[i]
    \/ /\ i \in Due /\ deliveries[i].attempt < MaxAttempts
       /\ deliveries'[i] = Claimed(deliveries[i])
    \/ \E p \in Dispatchers :
           /\ dispatchers[p].pc = "sending" /\ dispatchers[p].id = i
           /\ dispatchers'[p].pc # "sending" /\ (InLease(p) \/ i \in overrun')
           /\ \/ \E state \in Final :
                     deliveries'[i] = Ended(deliveries[i], state, dispatchers[p].now)
              \/ /\ deliveries[i].deleted = NoTime
                 /\ \E next \in Int : /\ Fits(p, i, next)
                        /\ deliveries'[i] = Waiting(deliveries[i], next, dispatchers[p].now)
    \/ \E now \in 0 .. clock :
           \/ i \in Outlived(now) /\ deliveries'[i] = [deliveries[i] EXCEPT !.deleted = now]
           \/ i \in Purgeable(now) /\ deliveries'[i] = [deliveries[i] EXCEPT !.state = "purged"]

LEMMA RowStepOK ==
    ASSUME TypeInv, NEW i \in 1 .. Len(deliveries), RowStep(i)
    PROVE  RowOK(deliveries'[i])
<1>1. RowOK(deliveries[i]) /\ DOMAIN deliveries = 1 .. Len(deliveries)
  BY LenProperties DEF TypeInv
<1>i. 0 .. clock \subseteq Instants
  BY PushAssumption DEF TypeInv, Instants
<1>2. CASE deliveries'[i] = deliveries[i]
  BY <1>1, <1>2
<1>3. CASE /\ i \in Due /\ deliveries[i].attempt < MaxAttempts
           /\ deliveries'[i] = Claimed(deliveries[i])
  <2>1. clock \in Instants /\ deliveries[i].deleted = NoTime
    BY <1>3 DEF Due, TypeInv
  <2>2. QED
    BY <1>1, <1>3, <2>1, ClaimedOK
<1>4. ASSUME NEW p \in Dispatchers, dispatchers[p].pc = "sending",
             NEW state \in Final,
             deliveries'[i] = Ended(deliveries[i], state, dispatchers[p].now)
      PROVE  RowOK(deliveries'[i])
  <2>1. dispatchers[p].now \in Instants
    BY DEF TypeInv, DispatchersOK, Holding
  <2>2. QED
    BY <1>1, <1>4, <2>1, EndedOK
<1>5. ASSUME NEW p \in Dispatchers, dispatchers[p].pc = "sending",
             deliveries[i].deleted = NoTime, NEW next \in Int,
             deliveries'[i] = Waiting(deliveries[i], next, dispatchers[p].now)
      PROVE  RowOK(deliveries'[i])
  <2>1. dispatchers[p].now \in Instants
    BY DEF TypeInv, DispatchersOK, Holding
  <2>2. QED
    BY <1>1, <1>5, <2>1, WaitingOK
<1>6. ASSUME NEW now \in 0 .. clock, i \in Outlived(now),
             deliveries'[i] = [deliveries[i] EXCEPT !.deleted = now]
      PROVE  RowOK(deliveries'[i])
  <2>1. deliveries[i].state \in Final
    BY <1>6 DEF Outlived
  <2>2. RowOK([deliveries[i] EXCEPT !.deleted = now])
    BY <1>1, <1>i, <2>1, RetainedOK
  <2>3. QED
    BY <1>6, <2>2
<1>7. ASSUME NEW now \in 0 .. clock, i \in Purgeable(now),
             deliveries'[i] = [deliveries[i] EXCEPT !.state = "purged"]
      PROVE  RowOK(deliveries'[i])
  BY <1>1, <1>i, <1>7, RetainedOK DEF Purgeable
<1>8. CASE \E p \in Dispatchers :
             /\ dispatchers[p].pc = "sending" /\ dispatchers[p].id = i
             /\ dispatchers'[p].pc # "sending" /\ (InLease(p) \/ i \in overrun')
             /\ \/ \E state \in Final :
                       deliveries'[i] = Ended(deliveries[i], state, dispatchers[p].now)
                \/ /\ deliveries[i].deleted = NoTime
                   /\ \E next \in Int : /\ Fits(p, i, next)
                       /\ deliveries'[i] = Waiting(deliveries[i], next, dispatchers[p].now)
  BY <1>4, <1>5, <1>8, Zenon
<1>9. CASE \E now \in 0 .. clock :
             \/ i \in Outlived(now) /\ deliveries'[i] = [deliveries[i] EXCEPT !.deleted = now]
             \/ i \in Purgeable(now)
                /\ deliveries'[i] = [deliveries[i] EXCEPT !.state = "purged"]
  BY <1>6, <1>7, <1>9, Zenon
<1>10. QED
  BY <1>2, <1>3, <1>8, <1>9, Zenon DEF RowStep

Fresh(d) ==
    /\ RowOK(d) /\ d.state = "pending" /\ d.deleted = NoTime
    /\ d.created = clock /\ d.updated = clock

\* The table only grows, and its rows only take these steps.
TableStep ==
    /\ deliveries' \in Seq(Rows)
    /\ Len(deliveries') >= Len(deliveries)
    /\ \A i \in 1 .. Len(deliveries) : RowStep(i)
    /\ \A i \in 1 .. Len(deliveries') : i > Len(deliveries) => Fresh(deliveries'[i])

\* A step that writes one row.
LEMMA OneRow ==
    ASSUME TypeInv, NEW k \in 1 .. Len(deliveries), NEW row \in Rows,
           deliveries' = [deliveries EXCEPT ![k] = row], RowStep(k)
    PROVE  TableStep
<1>1. /\ deliveries' \in Seq(Rows) /\ Len(deliveries') = Len(deliveries)
      /\ \A j \in 1 .. Len(deliveries) :
             deliveries'[j] = IF j = k THEN row ELSE deliveries[j]
  BY ExceptSeq DEF TypeInv
<1>2. Len(deliveries) \in Nat
  BY LenProperties DEF TypeInv
<1>3. ASSUME NEW j \in 1 .. Len(deliveries) PROVE RowStep(j)
  <2>1. CASE j = k
    BY <2>1
  <2>2. CASE j # k
    BY <1>1, <2>2 DEF RowStep
  <2>3. QED
    BY <2>1, <2>2
<1>4. QED
  BY <1>1, <1>2, <1>3 DEF TableStep

LEMMA SameRows == ASSUME TypeInv, deliveries' = deliveries PROVE TableStep
<1>1. Len(deliveries) \in Nat
  BY LenProperties DEF TypeInv
<1>2. QED
  BY <1>1 DEF TypeInv, TableStep, RowStep

LEMMA PostRows ==
    ASSUME TypeInv, NEW u \in Users \cup {Nobody}, Post(u)
    PROVE  TableStep
<1>1. PICK order \in [1 .. Cardinality(Recipients(u)) -> Recipients(u)] :
          deliveries' = deliveries \o [i \in 1 .. Cardinality(Recipients(u)) |-> Pending(order[i])]
  BY DEF Post
<1> DEFINE n == Cardinality(Recipients(u))
           new == [i \in 1 .. n |-> Pending(order[i])]
<1>2. n \in Nat
  BY PushAssumption, FS_Subset, FS_CardinalityType DEF Recipients
<1>3. ASSUME NEW s \in Subscriptions PROVE Fresh(Pending(s))
  BY <1>3, PushAssumption DEF TypeInv, Pending, Fresh, RowOK, Rows, Unfinished, Final, MaxAttempts
<1>4. \A i \in 1 .. n : order[i] \in Subscriptions
  BY <1>1 DEF Recipients
<1>5. new \in [1 .. n -> Rows] /\ \A i \in 1 .. n : Fresh(new[i])
  BY <1>3, <1>4 DEF Fresh, RowOK
<1>6. new \in Seq(Rows) /\ Len(new) = n
  BY <1>2, <1>5, SequenceOf
<1> HIDE DEF n, new
<1>7. /\ deliveries' \in Seq(Rows) /\ Len(deliveries') = Len(deliveries) + n
      /\ \A i \in 1 .. Len(deliveries) + n :
             deliveries'[i] = IF i <= Len(deliveries) THEN deliveries[i]
                              ELSE new[i - Len(deliveries)]
  <2>1. deliveries \in Seq(Rows) /\ deliveries' = deliveries \o new
    BY <1>1 DEF n, new, TypeInv
  <2>2. QED
    BY <1>6, <2>1, ConcatProperties
<1>8. Len(deliveries) \in Nat
  BY LenProperties DEF TypeInv
<1>9. \A i \in 1 .. Len(deliveries) : deliveries'[i] = deliveries[i]
  BY <1>2, <1>7, <1>8
<1>10. \A i \in 1 .. Len(deliveries') : i > Len(deliveries) => Fresh(deliveries'[i])
  <2> SUFFICES ASSUME NEW i \in 1 .. Len(deliveries'), i > Len(deliveries)
               PROVE  Fresh(deliveries'[i])
    OBVIOUS
  <2>1. deliveries'[i] = new[i - Len(deliveries)] /\ i - Len(deliveries) \in 1 .. n
    BY <1>2, <1>7, <1>8
  <2>2. QED
    BY <1>5, <2>1
<1>11. QED
  BY <1>2, <1>7, <1>8, <1>9, <1>10 DEF TableStep, RowStep

\* A dispatcher that finishes, retires or finds its endpoint gone.
LEMMA FinalizeRows ==
    ASSUME TypeInv, NEW p \in Dispatchers, dispatchers[p].pc = "sending",
           dispatchers'[p].pc # "sending", NEW state \in Final, Finalize(p, state),
           NotesOverrun(p)
    PROVE  TableStep
<1> DEFINE k == dispatchers[p].id
<1>1. k \in 1 .. Len(deliveries) /\ dispatchers[p].now \in Instants
  BY DEF TypeInv, DispatchersOK, Holding
<1>2. RowOK(deliveries[k]) /\ DOMAIN deliveries = 1 .. Len(deliveries)
  BY <1>1, LenProperties DEF TypeInv
<1>3. CASE Held(p).state = "purged"
  BY <1>3, SameRows DEF Finalize
<1>4. CASE Held(p).state # "purged"
  <2> DEFINE row == Ended(deliveries[k], state, dispatchers[p].now)
  <2>1. RowOK(row)
    BY <1>1, <1>2, EndedOK
  <2>2. deliveries' = [deliveries EXCEPT ![k] = row]
    BY <1>4 DEF Finalize, Held, Ended
  <2>3. deliveries'[k] = row
    BY <1>1, <1>2, <2>2
  <2>7. InLease(p) \/ k \in overrun'
    BY DEF NotesOverrun
  <2>4. RowStep(k)
    BY <2>3, <2>7, Zenon DEF RowStep
  <2>5. row \in Rows
    BY <2>1 DEF RowOK
  <2> HIDE DEF row
  <2>6. QED
    BY <1>1, <2>2, <2>4, <2>5, OneRow
<1>5. QED
  BY <1>3, <1>4

LEMMA FinishedSends ==
    ASSUME TypeInv, NEW p \in Dispatchers, Finished(p)
    PROVE  dispatchers'[p].pc # "sending"
BY DEF TypeInv, DispatchersOK, Finished, Idle

LEMMA RetryRows ==
    ASSUME TypeInv, NEW p \in Dispatchers, Retry(p)
    PROVE  TableStep
<1> DEFINE k == dispatchers[p].id
           next == dispatchers[p].now + WaitAfter(p)
<1>1. /\ dispatchers[p].pc = "sending"
      /\ k \in 1 .. Len(deliveries) /\ dispatchers[p].now \in Instants
      /\ dispatchers[p].attempt \in 1 .. MaxAttempts
  BY DEF TypeInv, DispatchersOK, Holding, Retry
<1>2. RowOK(deliveries[k]) /\ DOMAIN deliveries = 1 .. Len(deliveries)
  BY <1>1, LenProperties DEF TypeInv
<1>6. dispatchers'[p].pc # "sending"
  BY FinishedSends DEF Retry
<1>3. CASE Held(p).deleted # NoTime
  BY <1>3, SameRows DEF Retry
<1>4. CASE Held(p).deleted = NoTime
  <2> DEFINE row == Waiting(deliveries[k], next, dispatchers[p].now)
  <2>1. next \in Int
    <3>1. dispatchers[p].attempt \in 1 .. MaxAttempts - 1
      BY <1>1 DEF Retry, WaitAfter, NextWait, MaxAttempts
    <3>2. WaitAfter(p) = Wait[dispatchers[p].attempt]
      BY DEF Retry, WaitAfter, NextWait
    <3>3. Wait[dispatchers[p].attempt] \in Int
      BY <3>1, PushAssumption
    <3>4. QED
      BY <1>1, <3>2, <3>3 DEF Instants
  <2>2. RowOK(row)
    BY <1>1, <1>2, <1>4, <2>1, WaitingOK DEF Held
  <2>3. deliveries' = [deliveries EXCEPT ![k] = row]
    BY <1>4 DEF Retry, Held, Waiting
  <2>4. deliveries'[k] = row /\ deliveries[k].deleted = NoTime
    BY <1>1, <1>2, <1>4, <2>3 DEF Held
  <2>8. Fits(p, k, next)
    <3>1. dispatchers[p].attempt \in 1 .. MaxAttempts - 1
      BY <1>1 DEF Retry, WaitAfter, NextWait, MaxAttempts
    <3>2. /\ ~PastCeiling(Held(p).created, dispatchers[p].now + Wait[dispatchers[p].attempt])
          /\ WaitAfter(p) = Wait[dispatchers[p].attempt]
      BY <3>1 DEF Retry, WaitAfter, NextWait
    <3>3. /\ deliveries[k].created \in Int /\ dispatchers[p].now \in Int
          /\ Wait[dispatchers[p].attempt] \in Int /\ Ceiling \in Int
      BY <1>1, <1>2, <3>1, PushAssumption DEF RowOK, Rows, Instants
    <3>4. next - deliveries[k].created <= Ceiling
      BY <3>2, <3>3 DEF PastCeiling, Held
    <3>5. dispatchers[p].attempt < MaxAttempts
      BY <3>1 DEF MaxAttempts
    <3> HIDE DEF next
    <3>6. QED
      BY <2>1, <3>4, <3>5 DEF Fits
  <2>9. InLease(p) \/ k \in overrun'
    BY DEF Retry, NotesOverrun
  <2>5. RowStep(k)
    BY <1>1, <1>6, <2>1, <2>4, <2>8, <2>9, Zenon DEF RowStep
  <2>6. row \in Rows
    BY <2>2 DEF RowOK
  <2> HIDE DEF row
  <2>7. QED
    BY <1>1, <2>3, <2>5, <2>6, OneRow
<1>5. QED
  BY <1>3, <1>4

LEMMA ClaimRows ==
    ASSUME TypeInv, NEW p \in Dispatchers, NEW i \in DOMAIN deliveries, Claim(p, i)
    PROVE  TableStep
<1>1. i \in 1 .. Len(deliveries) /\ DOMAIN deliveries = 1 .. Len(deliveries)
  BY LenProperties DEF TypeInv
<1>2. /\ i \in Due /\ deliveries[i].attempt < MaxAttempts
      /\ deliveries' = [deliveries EXCEPT ![i] = Claimed(deliveries[i])]
  BY DEF Claim
<1>3. RowOK(Claimed(deliveries[i]))
  BY <1>1, <1>2, ClaimedOK DEF TypeInv, Due
<1>4. deliveries'[i] = Claimed(deliveries[i])
  BY <1>1, <1>2
<1>5. RowStep(i)
  BY <1>2, <1>4, Zenon DEF RowStep
<1>6. Claimed(deliveries[i]) \in Rows
  BY <1>3 DEF RowOK
<1>7. QED
  BY <1>1, <1>2, <1>5, <1>6, OneRow

LEMMA RetainRows ==
    ASSUME TypeInv, NEW now \in 0 .. clock, Retain(now)
    PROVE  TableStep
<1>1. now \in Instants
  BY PushAssumption DEF TypeInv, Instants
<1>2. DOMAIN deliveries = 1 .. Len(deliveries) /\ Len(deliveries) \in Nat
  BY LenProperties DEF TypeInv
<1>3. ASSUME NEW i \in 1 .. Len(deliveries) PROVE RowStep(i)
  <2>1. CASE i \in Outlived(now)
    <3>1. deliveries'[i] = [deliveries[i] EXCEPT !.deleted = now]
      BY <1>2, <2>1 DEF Retain
    <3>2. QED
      BY <1>1, <2>1, <3>1, Zenon DEF RowStep
  <2>2. CASE i \notin Outlived(now) /\ i \in Purgeable(now)
    <3>1. deliveries'[i] = [deliveries[i] EXCEPT !.state = "purged"]
      BY <1>2, <2>2 DEF Retain
    <3>2. QED
      BY <1>1, <2>2, <3>1, Zenon DEF RowStep
  <2>3. CASE i \notin Outlived(now) /\ i \notin Purgeable(now)
    <3>1. deliveries'[i] = deliveries[i]
      BY <1>2, <2>3 DEF Retain
    <3>2. QED
      BY <3>1 DEF RowStep
  <2>4. QED
    BY <2>1, <2>2, <2>3
<1>4. \A i \in 1 .. Len(deliveries) : deliveries'[i] \in Rows
  BY <1>3, RowStepOK DEF RowOK
<1>5. deliveries' = [i \in 1 .. Len(deliveries) |-> deliveries'[i]]
  BY <1>2 DEF Retain
<1>6. deliveries' \in [1 .. Len(deliveries) -> Rows]
  BY <1>4, <1>5
<1>7. deliveries' \in Seq(Rows) /\ Len(deliveries') = Len(deliveries)
  BY <1>2, <1>6, SequenceOf
<1>8. QED
  BY <1>2, <1>3, <1>7 DEF TableStep

LEMMA TableSteps == TypeInv /\ [Next]_vars => TableStep
<1> SUFFICES ASSUME TypeInv, [Next]_vars PROVE TableStep
  OBVIOUS
<1>1. ASSUME NEW u \in Users \cup {Nobody}, Post(u) PROVE TableStep
  BY <1>1, PostRows
<1>2. ASSUME Member, deliveries' # deliveries PROVE TableStep
  BY <1>1, <1>2 DEF Member, Upsert, DisableSession
<1>3. ASSUME NEW p \in Dispatchers, Records(p) PROVE TableStep
  <2>1. ASSUME NEW state \in Final, Answered(p, state) PROVE TableStep
    BY <2>1, FinalizeRows, FinishedSends DEF Answered
  <2>2. CASE Gone(p)
    <3>1. dispatchers'[p].pc # "sending"
      BY <2>2 DEF Gone, TypeInv, DispatchersOK
    <3>2. QED
      BY <2>2, <3>1, FinalizeRows DEF Gone, Final
  <2>3. CASE DisableGone(p)
    BY <2>3, SameRows DEF DisableGone
  <2>4. CASE Retry(p)
    BY <2>4, RetryRows
  <2>5. CASE Retire(p)
    BY <2>5, FinalizeRows, FinishedSends DEF Retire, Final
  <2>6. QED
    BY <1>3, <2>1, <2>2, <2>3, <2>4, <2>5 DEF Records
<1>4. ASSUME NEW p \in Dispatchers, NEW i \in DOMAIN deliveries, Claim(p, i) PROVE TableStep
  BY <1>4, ClaimRows
<1>5. ASSUME NEW p \in Dispatchers, Lose(p) PROVE TableStep
  BY <1>5, SameRows DEF Lose
<1>6. ASSUME NEW now \in 0 .. clock, Retain(now) PROVE TableStep
  BY <1>6, RetainRows
<1>7. ASSUME Advance PROVE TableStep
  BY <1>7, SameRows DEF Advance
<1>8. ASSUME UNCHANGED vars PROVE TableStep
  BY <1>8, SameRows DEF vars
<1>9. CASE Member
  BY <1>2, <1>9, SameRows
<1>10. CASE Dispatch
  BY <1>3, <1>4, <1>5, <1>10 DEF Dispatch
<1>11. QED
  BY <1>6, <1>7, <1>8, <1>9, <1>10 DEF Next

LEMMA TypeInit == Init => TypeInv
<1> SUFFICES ASSUME Init PROVE TypeInv
  OBVIOUS
<1>1. clock \in Instants /\ losses \in 0 .. MaxLosses
  BY PushAssumption DEF Init, Instants
<1>2. subscriptions \in [Subscriptions -> [owner : Owners \cup {Nobody}, active : BOOLEAN]]
  BY DEF Init
<1>3. deliveries \in Seq(Rows) /\ Len(deliveries) = 0
  BY DEF Init
<1>4. Idle \in Holding
  BY <1>1, <1>3 DEF Idle, Holding, MaxAttempts, Init
<1>5. DispatchersOK
  BY <1>4 DEF Init, DispatchersOK, Idle
<1>6. overrun = {}
  BY DEF Init
<1>7. QED
  BY <1>1, <1>2, <1>3, <1>5, <1>6 DEF TypeInv

\* A held delivery stays in the table.
LEMMA HoldingGrows ==
    ASSUME TypeInv, Len(deliveries') \in Nat, Len(deliveries') >= Len(deliveries),
           NEW p \in Dispatchers, dispatchers'[p] = dispatchers[p]
    PROVE  /\ dispatchers'[p] \in Holding'
           /\ dispatchers'[p].pc # "idle" =>
                  /\ dispatchers'[p].id \in 1 .. Len(deliveries')
                  /\ dispatchers'[p].attempt \in 1 .. MaxAttempts
<1>1. Len(deliveries) \in Nat
  BY LenProperties DEF TypeInv
<1>2. QED
  BY <1>1 DEF TypeInv, DispatchersOK, Holding

LEMMA DispatchersStep ==
    ASSUME TypeInv, [Next]_vars, Len(deliveries') \in Nat,
           Len(deliveries') >= Len(deliveries)
    PROVE  DispatchersOK'
<1>1. Len(deliveries) \in Nat /\ DOMAIN deliveries = 1 .. Len(deliveries)
  BY LenProperties DEF TypeInv
<1>2. dispatchers \in [Dispatchers -> Holding] /\ 0 \in Instants
  BY PushAssumption DEF TypeInv, DispatchersOK, Instants
<1> DEFINE OK(h) == /\ h \in Holding'
                    /\ h.pc # "idle" => /\ h.id \in 1 .. Len(deliveries')
                                        /\ h.attempt \in 1 .. MaxAttempts
<1>3. \A p \in Dispatchers : dispatchers'[p] = dispatchers[p] => OK(dispatchers'[p])
  BY HoldingGrows
<1>4. OK(Idle)
  BY <1>2 DEF Idle, Holding, MaxAttempts
<1>5. ASSUME NEW p \in Dispatchers, NEW h, OK(h),
             dispatchers' = [dispatchers EXCEPT ![p] = h]
      PROVE  DispatchersOK'
  <2>1. \A q \in Dispatchers : OK(dispatchers'[q])
    BY <1>2, <1>3, <1>5
  <2>2. dispatchers' = [q \in Dispatchers |-> dispatchers'[q]]
    BY <1>2, <1>5
  <2>3. dispatchers' \in [Dispatchers -> Holding']
    BY <2>1, <2>2
  <2>4. QED
    BY <2>1, <2>3 DEF DispatchersOK
<1>6. ASSUME dispatchers' = dispatchers PROVE DispatchersOK'
  <2>1. \A q \in Dispatchers : OK(dispatchers'[q])
    BY <1>2, <1>3, <1>6
  <2>2. dispatchers' = [q \in Dispatchers |-> dispatchers'[q]]
    BY <1>2, <1>6
  <2>3. dispatchers' \in [Dispatchers -> Holding']
    BY <2>1, <2>2
  <2>4. QED
    BY <2>1, <2>3 DEF DispatchersOK
<1>7. ASSUME NEW p \in Dispatchers, Finished(p) PROVE DispatchersOK'
  BY <1>4, <1>5, <1>7 DEF Finished
<1>8. ASSUME NEW p \in Dispatchers, Gone(p) PROVE DispatchersOK'
  <2> DEFINE h == [dispatchers[p] EXCEPT !.pc = "gone"]
  <2>1. dispatchers' = [dispatchers EXCEPT ![p] = h]
    BY <1>8 DEF Gone
  <2>2. /\ dispatchers[p] \in Holding
        /\ dispatchers[p].id \in 1 .. Len(deliveries)
        /\ dispatchers[p].attempt \in 1 .. MaxAttempts
    BY <1>8 DEF Gone, TypeInv, DispatchersOK
  <2>3. h \in Holding' /\ h.id = dispatchers[p].id /\ h.attempt = dispatchers[p].attempt
    BY <1>1, <2>2 DEF Holding
  <2>4. OK(h)
    BY <1>1, <2>2, <2>3
  <2> HIDE DEF h
  <2>5. QED
    BY <1>5, <2>1, <2>4
<1>9. ASSUME NEW p \in Dispatchers, NEW i \in DOMAIN deliveries, Claim(p, i)
      PROVE  DispatchersOK'
  <2> DEFINE h == [pc |-> "sending", id |-> i, attempt |-> deliveries[i].attempt + 1,
                   now |-> clock]
  <2>1. dispatchers' = [dispatchers EXCEPT ![p] = h]
    BY <1>9 DEF Claim
  <2>2. deliveries[i].attempt + 1 \in 1 .. MaxAttempts
    <3>1. deliveries[i] \in Rows
      BY <1>1, <1>9 DEF TypeInv, RowOK
    <3>2. deliveries[i].attempt \in 0 .. MaxAttempts /\ deliveries[i].attempt < MaxAttempts
      BY <1>9, <3>1 DEF Claim, Rows
    <3>3. QED
      BY <3>2 DEF MaxAttempts
  <2>3. OK(h)
    BY <1>1, <2>2 DEF Holding, TypeInv, MaxAttempts
  <2> HIDE DEF h
  <2>4. QED
    BY <1>5, <2>1, <2>3
<1>10. ASSUME NEW p \in Dispatchers, Records(p) PROVE DispatchersOK'
  BY <1>7, <1>8, <1>10 DEF Records, Answered, DisableGone, Retry, Retire
<1>11. CASE Member
  BY <1>6, <1>11 DEF Member, Upsert, DisableSession, Post
<1>12. CASE Dispatch
  BY <1>7, <1>9, <1>10, <1>12 DEF Dispatch, Lose
<1>13. ASSUME NEW now \in 0 .. clock, Retain(now) PROVE DispatchersOK'
  BY <1>6, <1>13 DEF Retain
<1>14. CASE Advance
  BY <1>6, <1>14 DEF Advance
<1>15. CASE UNCHANGED vars
  BY <1>6, <1>15 DEF vars
<1>16. QED
  BY <1>11, <1>12, <1>13, <1>14, <1>15 DEF Next

LEMMA SubscriptionsStep ==
    ASSUME TypeInv, [Next]_vars
    PROVE  /\ subscriptions' \in [Subscriptions ->
                  [owner : Owners \cup {Nobody}, active : BOOLEAN]]
           /\ clock' \in Instants /\ losses' \in 0 .. MaxLosses
<1> DEFINE Subs == [Subscriptions -> [owner : Owners \cup {Nobody}, active : BOOLEAN]]
<1>1. subscriptions \in Subs /\ clock \in Instants /\ losses \in 0 .. MaxLosses
  BY DEF TypeInv
<1>2. CASE Member
  <2>1. ASSUME NEW o \in Owners, NEW s \in Subscriptions, Upsert(o, s)
        PROVE  subscriptions' \in Subs /\ clock' = clock /\ losses' = losses
    <3>1. \A r \in Subscriptions :
             [subscriptions[r] EXCEPT !.active = FALSE]
                 \in [owner : Owners \cup {Nobody}, active : BOOLEAN]
      BY <1>1
    <3>2. QED
      BY <1>1, <2>1, <3>1 DEF Upsert
  <2>2. ASSUME NEW o \in Owners, DisableSession(o)
        PROVE  subscriptions' \in Subs /\ clock' = clock /\ losses' = losses
    BY <1>1, <2>2 DEF DisableSession
  <2>3. ASSUME NEW u \in Users \cup {Nobody}, Post(u)
        PROVE  UNCHANGED <<subscriptions, clock, losses>>
    BY <2>3 DEF Post
  <2>4. QED
    BY <1>1, <1>2, <2>1, <2>2, <2>3 DEF Member
<1>3. CASE Dispatch
  <2>1. ASSUME NEW p \in Dispatchers, Records(p)
        PROVE  /\ subscriptions' \in Subs
               /\ clock' = clock /\ losses' = losses
    BY <1>1, <2>1 DEF Records, Answered, Gone, DisableGone, Retry, Retire
  <2>2. ASSUME NEW p \in Dispatchers, NEW i \in DOMAIN deliveries, Claim(p, i)
        PROVE  /\ subscriptions' \in Subs
               /\ clock' = clock /\ losses' = losses
    BY <1>1, <2>2 DEF Claim
  <2>3. ASSUME NEW p \in Dispatchers, Lose(p)
        PROVE  /\ subscriptions' \in Subs
               /\ clock' = clock /\ losses' \in 0 .. MaxLosses
    BY <1>1, <2>3, PushAssumption DEF Lose
  <2>4. QED
    BY <1>1, <1>3, <2>1, <2>2, <2>3 DEF Dispatch
<1>4. ASSUME NEW now \in 0 .. clock, Retain(now)
      PROVE  UNCHANGED <<subscriptions, clock, losses>>
  BY <1>4 DEF Retain
<1>5. CASE Advance
  BY <1>1, <1>5, PushAssumption DEF Advance, Instants
<1>6. CASE UNCHANGED vars
  BY <1>1, <1>6 DEF vars
<1>7. QED
  BY <1>1, <1>2, <1>3, <1>4, <1>5, <1>6 DEF Next

\* A delivery stays overrun, and what becomes overrun was being sent.
LEMMA OverrunStep ==
    ASSUME TypeInv, [Next]_vars
    PROVE  overrun \subseteq overrun' /\ overrun' \subseteq 1 .. Len(deliveries)
<1>1. overrun \subseteq 1 .. Len(deliveries)
  BY DEF TypeInv
<1>2. ASSUME NEW p \in Dispatchers, dispatchers[p].pc = "sending", NotesOverrun(p)
      PROVE  overrun \subseteq overrun' /\ overrun' \subseteq 1 .. Len(deliveries)
  BY <1>1, <1>2 DEF NotesOverrun, TypeInv, DispatchersOK
<1>3. CASE overrun' = overrun
  BY <1>1, <1>3
<1>4. CASE Member
  BY <1>3, <1>4 DEF Member, Upsert, DisableSession, Post
<1>5. CASE Dispatch
  BY <1>2, <1>3, <1>5 DEF Dispatch, Claim, Records, Answered, Gone, DisableGone, Retry,
                          Retire, Lose
<1>6. ASSUME NEW now \in 0 .. clock, Retain(now) PROVE overrun' = overrun
  BY <1>6 DEF Retain
<1>7. QED
  BY <1>3, <1>4, <1>5, <1>6 DEF Next, Advance, vars

LEMMA TypeStep == TypeInv /\ [Next]_vars => TypeInv'
<1> SUFFICES ASSUME TypeInv, [Next]_vars PROVE TypeInv'
  OBVIOUS
<1>1. TableStep
  BY TableSteps
<1>2. /\ deliveries' \in Seq(Rows) /\ Len(deliveries') \in Nat
      /\ Len(deliveries') >= Len(deliveries) /\ Len(deliveries) \in Nat
  BY <1>1, LenProperties DEF TableStep, TypeInv
<1>3. \A i \in 1 .. Len(deliveries') : RowOK(deliveries'[i])
  BY <1>1, <1>2, RowStepOK DEF TableStep, Fresh
<1>4. DispatchersOK'
  BY <1>2, DispatchersStep
<1>5. overrun' \subseteq 1 .. Len(deliveries')
  BY <1>2, OverrunStep
<1>6. QED
  BY <1>2, <1>3, <1>4, <1>5, SubscriptionsStep DEF TypeInv, RowOK, Rows, Owners

\* Every reachable state is well typed and satisfies the table's CHECKs.
THEOREM PushTypeCorrect == Spec => []TypeOK
<1>1. Spec => []TypeInv
  BY TypeInit, TypeStep, PTL DEF Spec
<1>2. QED
  BY <1>1, TypeInvImplies, PTL

---------------------------------------------------------------------------
(* Leases.  A row whose sender's lease lasts is claimed under that lease,   *)
(* so it is not due to anyone else, until an answer is written past its     *)
(* lease: such an answer takes the claim from whoever recovered the row.    *)

InTime(p) ==
    dispatchers[p].pc = "sending" /\ InLease(p) /\ dispatchers[p].id \notin overrun

Leased ==
    \A p \in Dispatchers :
        InTime(p) =>
            LET d == deliveries[dispatchers[p].id]
            IN  /\ d.state = "claimed"
                /\ d.lease = dispatchers[p].now + Lease
                /\ d.attempt = dispatchers[p].attempt

LeaseInv == TypeInv /\ Leased /\ OneSender

LEMMA ClockGrows == ASSUME TypeInv, [Next]_vars PROVE clock' \in Int /\ clock <= clock'
<1>1. clock \in Int
  BY DEF TypeInv, Instants
<1>2. clock' = clock \/ clock' = clock + 1
  <2>1. CASE Member
    BY <2>1 DEF Member, Upsert, DisableSession, Post
  <2>2. CASE Dispatch
    BY <2>2 DEF Dispatch, Claim, Records, Answered, Gone, DisableGone, Retry, Retire, Lose
  <2>3. ASSUME NEW now \in 0 .. clock, Retain(now) PROVE clock' = clock
    BY <2>3 DEF Retain
  <2>4. QED
    BY <2>1, <2>2, <2>3 DEF Next, Advance, vars
<1>3. QED
  BY <1>1, <1>2

\* A row being sent in time is not due, and not one retention looks for.
LEMMA SentNotDue ==
    ASSUME TypeInv, Leased, NEW p \in Dispatchers, InTime(p)
    PROVE  /\ dispatchers[p].id \notin Due
           /\ \A now \in Instants : /\ dispatchers[p].id \notin Outlived(now)
                                    /\ dispatchers[p].id \notin Purgeable(now)
<1> DEFINE i == dispatchers[p].id
<1>1. i \in 1 .. Len(deliveries)
  BY DEF TypeInv, DispatchersOK, InTime
<1>2. /\ RowOK(deliveries[i]) /\ deliveries[i].state = "claimed"
      /\ deliveries[i].lease \in Int /\ clock < deliveries[i].lease /\ clock \in Int
  BY <1>1, PushAssumption DEF TypeInv, DispatchersOK, Holding, Leased, Instants, InTime,
                              InLease
<1>3. i \notin Due
  BY <1>2 DEF Due
<1>4. deliveries[i].deleted = NoTime
  BY <1>2 DEF RowOK, Unfinished
<1>5. QED
  BY <1>2, <1>3, <1>4 DEF Outlived, Purgeable, Final

\* Who sends in time after a step and did not claim in it sent in time before.
LEMMA InTimeBefore ==
    ASSUME TypeInv, [Next]_vars, NEW p \in Dispatchers, InTime(p)',
           dispatchers'[p] = dispatchers[p]
    PROVE  InTime(p)
<1>1. /\ clock <= clock' /\ clock' \in Int /\ clock \in Int
      /\ overrun \subseteq overrun'
  BY ClockGrows, OverrunStep DEF TypeInv, Instants
<1>2. dispatchers[p].now + Lease \in Int
  BY PushAssumption DEF TypeInv, DispatchersOK, Holding, Instants
<1>3. QED
  BY <1>1, <1>2 DEF InTime, InLease

\* Who sends after a step: a process that went on sending, or one that claimed.
LEMMA SendingAfter ==
    ASSUME TypeInv, [Next]_vars, NEW p \in Dispatchers, dispatchers'[p].pc = "sending"
    PROVE  \/ dispatchers'[p] = dispatchers[p]
           \/ \E i \in DOMAIN deliveries : Claim(p, i)
<1>1. dispatchers \in [Dispatchers -> Holding]
  BY DEF TypeInv, DispatchersOK
<1>2. ASSUME NEW q \in Dispatchers, Records(q) \/ Lose(q)
      PROVE  dispatchers'[p] = dispatchers[p]
  <2>1. \/ dispatchers' = [dispatchers EXCEPT ![q] = Idle]
        \/ dispatchers' = [dispatchers EXCEPT ![q].pc = "gone"]
    BY <1>2 DEF Records, Answered, Gone, DisableGone, Retry, Retire, Lose, Finished
  <2>2. CASE q = p
    <3>1. dispatchers'[p] = Idle \/ dispatchers'[p] = [dispatchers[p] EXCEPT !.pc = "gone"]
      BY <1>1, <2>1, <2>2
    <3>2. dispatchers[p] \in Holding
      BY <1>1
    <3>3. dispatchers'[p].pc = "idle" \/ dispatchers'[p].pc = "gone"
      BY <3>1, <3>2 DEF Idle, Holding
    <3>4. QED
      BY <3>3
  <2>3. CASE q # p
    BY <1>1, <2>1, <2>3
  <2>4. QED
    BY <2>2, <2>3
<1>3. ASSUME NEW q \in Dispatchers, NEW i \in DOMAIN deliveries, Claim(q, i), q # p
      PROVE  dispatchers'[p] = dispatchers[p]
  BY <1>1, <1>3 DEF Claim
<1>4. CASE Dispatch
  BY <1>2, <1>3, <1>4 DEF Dispatch
<1>5. CASE Member
  BY <1>5 DEF Member, Upsert, DisableSession, Post
<1>6. ASSUME NEW now \in 0 .. clock, Retain(now) PROVE dispatchers'[p] = dispatchers[p]
  BY <1>6 DEF Retain
<1>7. CASE Advance
  BY <1>7 DEF Advance
<1>8. CASE UNCHANGED vars
  BY <1>8 DEF vars
<1>9. QED
  BY <1>4, <1>5, <1>6, <1>7, <1>8 DEF Next

\* A row that goes on being sent in time is left alone.
LEMMA SentRowStays ==
    ASSUME TypeInv, Leased, OneSender, [Next]_vars, NEW p \in Dispatchers,
           InTime(p), InTime(p)', dispatchers'[p] = dispatchers[p]
    PROVE  deliveries'[dispatchers[p].id] = deliveries[dispatchers[p].id]
<1> DEFINE i == dispatchers[p].id
<1>1. i \in 1 .. Len(deliveries)
  BY DEF TypeInv, DispatchersOK, InTime
<1>2. RowStep(i)
  BY <1>1, TableSteps DEF TableStep
<1>3. i \notin Due
  BY SentNotDue
<1>4. \A now \in 0 .. clock : i \notin Outlived(now) /\ i \notin Purgeable(now)
  <2>1. 0 .. clock \subseteq Instants
    BY PushAssumption DEF TypeInv, Instants
  <2>2. QED
    BY <2>1, SentNotDue
<1>5. \A q \in Dispatchers :
          ~ /\ dispatchers[q].pc = "sending" /\ dispatchers[q].id = i
            /\ dispatchers'[q].pc # "sending" /\ (InLease(q) \/ i \in overrun')
  BY DEF OneSender, InTime
<1>6. QED
  BY <1>2, <1>3, <1>4, <1>5, Zenon DEF RowStep

\* A claimed row was due, and carries the lease of its claim.
LEMMA ClaimLeases ==
    ASSUME TypeInv, NEW p \in Dispatchers, NEW i \in DOMAIN deliveries, Claim(p, i)
    PROVE  /\ i \in Due /\ clock' = clock
           /\ dispatchers'[p].id = i /\ dispatchers'[p].now = clock
           /\ deliveries'[i].state = "claimed"
           /\ deliveries'[i].lease = clock + Lease
           /\ deliveries'[i].attempt = dispatchers'[p].attempt
           /\ \A q \in Dispatchers : q # p => dispatchers'[q] = dispatchers[q]
<1>1. i \in 1 .. Len(deliveries) /\ DOMAIN deliveries = 1 .. Len(deliveries)
  BY LenProperties DEF TypeInv
<1>2. deliveries[i] \in Rows
  BY <1>1 DEF TypeInv, RowOK
<1>3. deliveries'[i] = Claimed(deliveries[i])
  BY <1>1 DEF Claim
<1>4. /\ deliveries'[i].state = "claimed" /\ deliveries'[i].lease = clock + Lease
      /\ deliveries'[i].attempt = deliveries[i].attempt + 1
  BY <1>2, <1>3 DEF Claimed, Rows
<1>5. dispatchers \in [Dispatchers -> Holding]
  BY DEF TypeInv, DispatchersOK
<1>6. QED
  BY <1>4, <1>5 DEF Claim

LEMMA LeaseStep == LeaseInv /\ [Next]_vars => LeaseInv'
<1> SUFFICES ASSUME LeaseInv, [Next]_vars PROVE LeaseInv'
  OBVIOUS
<1>t. TypeInv /\ TypeInv' /\ Leased /\ OneSender
  BY TypeStep DEF LeaseInv
<1> SUFFICES Leased' /\ OneSender'
  BY <1>t DEF LeaseInv
<1> DEFINE Holds(p) == LET d == deliveries'[dispatchers'[p].id]
                       IN  /\ d.state = "claimed"
                           /\ d.lease = dispatchers'[p].now + Lease
                           /\ d.attempt = dispatchers'[p].attempt
<1>1. ASSUME NEW p \in Dispatchers, InTime(p)' PROVE Holds(p)
  <2>1. CASE dispatchers'[p] = dispatchers[p]
    <3>1. InTime(p)
      BY <1>t, <1>1, <2>1, InTimeBefore
    <3>2. deliveries'[dispatchers[p].id] = deliveries[dispatchers[p].id]
      BY <1>t, <1>1, <2>1, <3>1, SentRowStays
    <3>3. QED
      BY <1>t, <2>1, <3>1, <3>2 DEF Leased
  <2>2. ASSUME NEW i \in DOMAIN deliveries, Claim(p, i) PROVE Holds(p)
    BY <1>t, <2>2, ClaimLeases
  <2>3. dispatchers'[p].pc = "sending"
    BY <1>1 DEF InTime
  <2>4. QED
    BY <1>t, <2>1, <2>2, <2>3, SendingAfter
<1>2. ASSUME NEW p \in Dispatchers, NEW q \in Dispatchers, p # q,
             InTime(p)', InTime(q)', dispatchers'[p].id = dispatchers'[q].id
      PROVE  FALSE
  <2>1. ASSUME NEW r \in Dispatchers, NEW o \in Dispatchers, r # o, InTime(o)',
               dispatchers'[r].id = dispatchers'[o].id,
               NEW i \in DOMAIN deliveries, Claim(r, i)
        PROVE  FALSE
    <3>1. i \in Due /\ dispatchers'[r].id = i /\ dispatchers'[o] = dispatchers[o]
      BY <1>t, <2>1, ClaimLeases
    <3>2. dispatchers[o].id \notin Due
      BY <1>t, <2>1, <3>1, InTimeBefore, SentNotDue
    <3>3. QED
      BY <2>1, <3>1, <3>2
  <2>2. CASE dispatchers'[p] = dispatchers[p] /\ dispatchers'[q] = dispatchers[q]
    <3>1. InTime(p) /\ InTime(q)
      BY <1>t, <1>2, <2>2, InTimeBefore
    <3>2. QED
      BY <1>t, <1>2, <2>2, <3>1 DEF OneSender, InTime
  <2>3. dispatchers'[p].pc = "sending" /\ dispatchers'[q].pc = "sending"
    BY <1>2 DEF InTime
  <2>4. QED
    BY <1>t, <1>2, <2>1, <2>2, <2>3, SendingAfter
<1>3. Leased'
  BY <1>1 DEF Leased
<1>4. OneSender'
  <2> SUFFICES ASSUME NEW p \in Dispatchers, NEW q \in Dispatchers,
                      (dispatchers[p].pc = "sending" /\ InLease(p))',
                      (dispatchers[q].pc = "sending" /\ InLease(q))',
                      dispatchers'[p].id = dispatchers'[q].id, p # q,
                      dispatchers'[p].id \notin overrun'
               PROVE  FALSE
    BY DEF OneSender
  <2>1. InTime(p)' /\ InTime(q)'
    BY DEF InTime
  <2>2. QED
    BY <1>2, <2>1
<1>5. QED
  BY <1>3, <1>4

LEMMA LeaseAlways == Spec => []LeaseInv
<1>1. Init => LeaseInv
  <2> SUFFICES ASSUME Init PROVE LeaseInv
    OBVIOUS
  <2>1. \A p \in Dispatchers : dispatchers[p].pc = "idle"
    BY DEF Init, Idle
  <2>2. QED
    BY <2>1, TypeInit DEF LeaseInv, Leased, OneSender, InTime
<1>2. QED
  BY <1>1, LeaseStep, PTL DEF Spec

\* No delivery is in the hands of two processes whose leases last, unless one of its
\* answers was written past its lease (claim_due, finalize!, retry!).
THEOREM OneSenderInLease == Spec => []OneSender
<1>1. LeaseInv => OneSender
  BY DEF LeaseInv
<1>2. QED
  BY <1>1, LeaseAlways, PTL

\* The recorded outcome of a delivery is replaced only in a delivery that an answer
\* was written to past its lease: no recovery, drain or retention replaces one.
THEOREM OutcomesStay == Spec => OutcomeStays
<1>1. ASSUME LeaseInv, [Next]_vars
      PROVE  [\A i \in DOMAIN deliveries : Replaced(i) => i \in overrun']_vars
  <2> SUFFICES ASSUME NEW i \in DOMAIN deliveries, Replaced(i), i \notin overrun'
               PROVE  FALSE
    OBVIOUS
  <2>1. TypeInv /\ Leased /\ overrun \subseteq overrun'
    BY <1>1, OverrunStep DEF LeaseInv
  <2>2. i \in 1 .. Len(deliveries)
    BY <2>1, LenProperties DEF TypeInv
  <2>3. RowStep(i) /\ deliveries[i] \in Rows
    BY <1>1, <2>1, <2>2, TableSteps DEF TableStep, TypeInv, RowOK
  <2>4. i \notin Due /\ deliveries'[i] # deliveries[i]
    BY DEF Due, Final, Replaced
  <2>5. \A p \in Dispatchers :
            ~ /\ dispatchers[p].pc = "sending" /\ dispatchers[p].id = i
              /\ InLease(p) \/ i \in overrun'
    BY <2>1 DEF Leased, InTime, Final, Replaced
  <2>6. ASSUME NEW now \in 0 .. clock, deliveries'[i] = [deliveries[i] EXCEPT !.deleted = now]
        PROVE  FALSE
    BY <2>3, <2>6 DEF Rows, Replaced
  <2>7. ASSUME deliveries'[i] = [deliveries[i] EXCEPT !.state = "purged"]
        PROVE  FALSE
    BY <2>3, <2>7 DEF Rows, Replaced
  <2>8. QED
    BY <2>3, <2>4, <2>5, <2>6, <2>7, Zenon DEF RowStep
<1>2. QED
  BY <1>1, LeaseAlways, PTL DEF Spec, OutcomeStays

---------------------------------------------------------------------------
(* Rows.  A dispatcher that answers in time writes the row it claimed, so  *)
(* the attempt it counts is the row's and retention has not looked at the  *)
(* row meanwhile; one that is late writes whatever row has its ID, with a  *)
(* time and a retry that still lie after the row's commit.                 *)

FitsPolicy(i) ==
    deliveries[i].state = "retryable" =>
        /\ deliveries[i].next - deliveries[i].created <= Ceiling
        /\ i \notin overrun => deliveries[i].attempt < MaxAttempts

Outlasts(i) ==
    deliveries[i].deleted # NoTime =>
        /\ deliveries[i].created + Retention <= deliveries[i].deleted
        /\ i \notin overrun => deliveries[i].updated + Retention <= deliveries[i].deleted
        /\ deliveries[i].state = "purged" => deliveries[i].deleted + Retention <= clock

RowGood(i) ==
    /\ FitsPolicy(i) /\ Outlasts(i)
    /\ deliveries[i].created <= deliveries[i].updated
    /\ deliveries[i].created <= clock

ClaimAfterCommit ==
    \A p \in Dispatchers :
        dispatchers[p].pc = "sending" =>
            deliveries[dispatchers[p].id].created <= dispatchers[p].now

RowsInv == (\A i \in 1 .. Len(deliveries) : RowGood(i)) /\ ClaimAfterCommit

\* A row that is being sent in time is not soft-deleted.
LEMMA SentKept ==
    ASSUME TypeInv, Leased, NEW p \in Dispatchers, InTime(p)
    PROVE  /\ deliveries[dispatchers[p].id].deleted = NoTime
           /\ deliveries[dispatchers[p].id].attempt = dispatchers[p].attempt
<1>1. dispatchers[p].id \in 1 .. Len(deliveries)
  BY DEF TypeInv, DispatchersOK, InTime
<1>2. RowOK(deliveries[dispatchers[p].id]) /\ deliveries[dispatchers[p].id].state = "claimed"
  BY <1>1 DEF TypeInv, Leased
<1>3. QED
  BY <1>2 DEF RowOK, Unfinished, Leased

LEMMA RowStepGood ==
    ASSUME LeaseInv, [Next]_vars, ClaimAfterCommit, NEW i \in 1 .. Len(deliveries),
           RowStep(i), RowGood(i)
    PROVE  RowGood(i)' /\ deliveries'[i].created = deliveries[i].created
<1> DEFINE d == deliveries[i]
           e == deliveries'[i]
           Good(r, time) ==
               /\ r.state = "retryable" =>
                      /\ r.next - r.created <= Ceiling
                      /\ i \notin overrun' => r.attempt < MaxAttempts
               /\ r.deleted # NoTime =>
                      /\ r.created + Retention <= r.deleted
                      /\ i \notin overrun' => r.updated + Retention <= r.deleted
                      /\ r.state = "purged" => r.deleted + Retention <= time
               /\ r.created <= r.updated /\ r.created <= time
<1>t. TypeInv /\ Leased /\ overrun \subseteq overrun' /\ clock' \in Int /\ clock <= clock'
  BY ClockGrows, OverrunStep DEF LeaseInv
<1>1. /\ RowOK(d) /\ d \in Rows /\ d.updated \in Int /\ d.created \in Int
      /\ (d.deleted # NoTime => d.deleted \in Int)
      /\ clock \in Int /\ Retention \in Int /\ Lease \in Int
  BY <1>t, PushAssumption DEF TypeInv, RowOK, Rows, Instants
<1>g. Good(d, clock')
  BY <1>t, <1>1 DEF RowGood, FitsPolicy, Outlasts
<1>2. ASSUME e = d PROVE Good(e, clock') /\ e.created = d.created
  BY <1>2, <1>g
<1>3. ASSUME i \in Due, e = Claimed(d) PROVE Good(e, clock') /\ e.created = d.created
  <2>1. /\ e.state = "claimed" /\ e.deleted = NoTime /\ e.created = d.created
        /\ e.updated = clock
    BY <1>1, <1>3 DEF Claimed, Due, Rows
  <2>2. d.created <= clock
    BY DEF RowGood
  <2> HIDE DEF d, e
  <2>3. QED
    BY <1>t, <1>1, <2>1, <2>2
\* A writer that is late leaves nothing but the row's age to be kept.
<1>w. ASSUME NEW p \in Dispatchers, dispatchers[p].pc = "sending", dispatchers[p].id = i,
             InLease(p) \/ i \in overrun'
      PROVE  /\ d.created <= dispatchers[p].now /\ dispatchers[p].now \in Int
             /\ i \notin overrun' => d.deleted = NoTime /\ d.attempt = dispatchers[p].attempt
  <2>1. d.created <= dispatchers[p].now /\ dispatchers[p].now \in Int
    BY <1>t, <1>w DEF ClaimAfterCommit, TypeInv, DispatchersOK, Holding, Instants
  <2>2. ASSUME i \notin overrun'
        PROVE  d.deleted = NoTime /\ d.attempt = dispatchers[p].attempt
    <3>1. InTime(p)
      BY <1>t, <1>w, <2>2 DEF InTime
    <3>2. QED
      BY <1>t, <1>w, <3>1, SentKept
  <2>3. QED
    BY <2>1, <2>2
<1>4. ASSUME NEW p \in Dispatchers, dispatchers[p].pc = "sending", dispatchers[p].id = i,
             InLease(p) \/ i \in overrun',
             NEW state \in Final, e = Ended(d, state, dispatchers[p].now)
      PROVE  Good(e, clock') /\ e.created = d.created
  <2>1. /\ e.state = state /\ e.deleted = d.deleted /\ e.created = d.created
        /\ e.updated = dispatchers[p].now
    BY <1>1, <1>4 DEF Ended, Rows
  <2>2. e.state # "retryable" /\ e.state # "purged"
    BY <2>1 DEF Final
  <2>3. /\ d.created <= dispatchers[p].now /\ dispatchers[p].now \in Int
        /\ i \notin overrun' => d.deleted = NoTime
    BY <1>4, <1>w
  <2> HIDE DEF d, e
  <2>4. QED
    BY <1>t, <1>1, <1>g, <2>1, <2>2, <2>3
<1>5. ASSUME NEW p \in Dispatchers, dispatchers[p].pc = "sending", dispatchers[p].id = i,
             InLease(p) \/ i \in overrun', d.deleted = NoTime,
             NEW next \in Int, Fits(p, i, next), e = Waiting(d, next, dispatchers[p].now)
      PROVE  Good(e, clock') /\ e.created = d.created
  <2>1. /\ e.deleted = NoTime /\ e.attempt = d.attempt
        /\ e.created = d.created /\ e.next = next /\ e.updated = dispatchers[p].now
    BY <1>1, <1>5 DEF Waiting, Rows
  <2>2. /\ d.created <= dispatchers[p].now /\ dispatchers[p].now \in Int
        /\ i \notin overrun' => d.attempt = dispatchers[p].attempt
    BY <1>5, <1>w
  <2>3. next - d.created <= Ceiling /\ dispatchers[p].attempt < MaxAttempts
    BY <1>5 DEF Fits
  <2> HIDE DEF d, e
  <2>4. QED
    BY <1>t, <1>1, <1>g, <2>1, <2>2, <2>3
<1>6. ASSUME NEW now \in 0 .. clock, i \in Outlived(now), e = [d EXCEPT !.deleted = now]
      PROVE  Good(e, clock') /\ e.created = d.created
  <2>1. d.state \in Final /\ d.updated <= now - Retention
    BY <1>6 DEF Outlived
  <2>2. /\ e.state = d.state /\ e.updated = d.updated /\ e.deleted = now
        /\ e.created = d.created
    BY <1>1, <1>6 DEF Rows
  <2>3. e.state # "retryable" /\ e.state # "purged"
    BY <2>1, <2>2 DEF Final
  <2> HIDE DEF d, e
  <2>4. QED
    BY <1>1, <1>g, <2>1, <2>2, <2>3
<1>7. ASSUME NEW now \in 0 .. clock, i \in Purgeable(now), e = [d EXCEPT !.state = "purged"]
      PROVE  Good(e, clock') /\ e.created = d.created
  <2>1. d.deleted # NoTime /\ d.deleted <= now - Retention
    BY <1>7 DEF Purgeable
  <2>2. /\ e.state = "purged" /\ e.updated = d.updated /\ e.deleted = d.deleted
        /\ e.created = d.created
    BY <1>1, <1>7 DEF Rows
  <2> HIDE DEF d, e
  <2>3. QED
    BY <1>t, <1>1, <1>g, <2>1, <2>2
<1> DEFINE Writes == \E p \in Dispatchers :
               /\ dispatchers[p].pc = "sending" /\ dispatchers[p].id = i
               /\ InLease(p) \/ i \in overrun'
               /\ \/ \E state \in Final : e = Ended(d, state, dispatchers[p].now)
                  \/ /\ d.deleted = NoTime
                     /\ \E next \in Int :
                            Fits(p, i, next) /\ e = Waiting(d, next, dispatchers[p].now)
           Retains == \E now \in 0 .. clock :
               \/ i \in Outlived(now) /\ e = [d EXCEPT !.deleted = now]
               \/ i \in Purgeable(now) /\ e = [d EXCEPT !.state = "purged"]
           Goal == Good(e, clock') /\ e.created = d.created
<1> HIDE DEF d, e, Good
<1>8. e = d \/ (i \in Due /\ e = Claimed(d)) \/ Writes \/ Retains
  BY Zenon DEF RowStep, d, e
<1>9. Goal
  <2>1. CASE Writes
    BY <1>4, <1>5, <2>1, Zenon
  <2>2. CASE Retains
    BY <1>6, <1>7, <2>2, Zenon
  <2>3. QED
    BY <1>2, <1>3, <1>8, <2>1, <2>2
<1>10. QED
  BY <1>9 DEF e, d, Good, RowGood, FitsPolicy, Outlasts

LEMMA FreshGood ==
    ASSUME TypeInv, TypeInv', TableStep, clock <= clock',
           NEW i \in 1 .. Len(deliveries'), i \notin 1 .. Len(deliveries)
    PROVE  RowGood(i)'
<1>1. Len(deliveries) \in Nat /\ Len(deliveries') \in Nat /\ clock \in Int
  BY LenProperties DEF TypeInv, TableStep, Instants
<1>2. Fresh(deliveries'[i])
  BY <1>1 DEF TableStep
<1>3. QED
  BY <1>1, <1>2 DEF Fresh, RowGood, FitsPolicy, Outlasts

LEMMA RowsStep == LeaseInv /\ RowsInv /\ [Next]_vars => RowsInv'
<1> SUFFICES ASSUME LeaseInv, RowsInv, [Next]_vars PROVE RowsInv'
  OBVIOUS
<1>1. TypeInv /\ TypeInv' /\ clock' \in Int /\ clock <= clock'
  BY ClockGrows, TypeStep DEF LeaseInv
<1>2. TableStep
  BY <1>1, TableSteps
<1>3. Len(deliveries) \in Nat /\ Len(deliveries') \in Nat
  BY <1>1, <1>2, LenProperties DEF TypeInv, TableStep
<1>4. ASSUME NEW i \in 1 .. Len(deliveries)
      PROVE  RowGood(i)' /\ deliveries'[i].created = deliveries[i].created
  BY <1>2, <1>4, RowStepGood DEF TableStep, RowsInv
<1>5. ASSUME NEW i \in 1 .. Len(deliveries'), i \notin 1 .. Len(deliveries)
      PROVE  RowGood(i)'
  BY <1>1, <1>2, <1>3, <1>5, FreshGood
<1>6. ASSUME NEW p \in Dispatchers, dispatchers'[p].pc = "sending"
      PROVE  deliveries'[dispatchers'[p].id].created <= dispatchers'[p].now
  <2>1. CASE dispatchers'[p] = dispatchers[p]
    BY <1>1, <1>4, <1>6, <2>1 DEF RowsInv, ClaimAfterCommit, TypeInv, DispatchersOK
  <2>2. ASSUME NEW i \in DOMAIN deliveries, Claim(p, i)
        PROVE  deliveries'[dispatchers'[p].id].created <= dispatchers'[p].now
    <3>1. i \in 1 .. Len(deliveries)
      BY <1>1, LenProperties DEF TypeInv
    <3>2. deliveries[i].created <= clock
      BY <3>1 DEF RowsInv, RowGood
    <3>3. QED
      BY <1>1, <1>4, <2>2, <3>1, <3>2, ClaimLeases
  <2>3. QED
    BY <1>1, <1>6, <2>1, <2>2, SendingAfter
<1>7. \A i \in 1 .. Len(deliveries') : RowGood(i)'
  BY <1>4, <1>5
<1>8. QED
  BY <1>6, <1>7 DEF RowsInv, ClaimAfterCommit

LEMMA RowsAlways == Spec => [](TypeInv /\ RowsInv)
<1>1. Init => RowsInv
  BY DEF Init, RowsInv, ClaimAfterCommit, Idle
<1>2. LeaseInv /\ RowsInv /\ [Next]_vars => RowsInv'
  BY RowsStep
<1>3. LeaseInv => TypeInv
  BY DEF LeaseInv
<1>4. QED
  BY <1>1, <1>2, <1>3, LeaseAlways, PTL DEF Spec

\* A delivery only ever waits for an attempt within the ceiling of its message and,
\* answered in time, one that the policy leaves it (NextWait of Domain.Policy).
THEOREM RetriesFitPolicy == Spec => []RetriesFit
<1>1. TypeInv /\ RowsInv => RetriesFit
  <2> SUFFICES ASSUME TypeInv, RowsInv PROVE RetriesFit
    OBVIOUS
  <2>1. DOMAIN deliveries = 1 .. Len(deliveries)
    BY LenProperties DEF TypeInv
  <2>2. QED
    BY <2>1 DEF RowsInv, RowGood, FitsPolicy, RetriesFit
<1>2. QED
  BY <1>1, RowsAlways, PTL

\* Retention never takes a row that is owed an attempt, nor one before its period,
\* however late it runs and however late the row is written (retain_deliveries).
THEOREM RowsKept == Spec => []KeptForRetention
<1>1. TypeInv /\ RowsInv => KeptForRetention
  <2> SUFFICES ASSUME TypeInv, RowsInv PROVE KeptForRetention
    OBVIOUS
  <2>1. DOMAIN deliveries = 1 .. Len(deliveries)
    BY LenProperties DEF TypeInv
  <2>2. \A i \in 1 .. Len(deliveries) : RowOK(deliveries[i]) /\ Outlasts(i)
    BY DEF TypeInv, RowsInv, RowGood
  <2>3. QED
    BY <2>1, <2>2 DEF RowOK, Outlasts, KeptForRetention
<1>2. QED
  BY <1>1, RowsAlways, PTL

---------------------------------------------------------------------------
(* Subscriptions.                                                          *)

LEMMA BindingStep ==
    TypeInv /\ OneBindingPerSession /\ [Next]_vars => OneBindingPerSession'
<1> SUFFICES ASSUME TypeInv, OneBindingPerSession, [Next]_vars
             PROVE  OneBindingPerSession'
  OBVIOUS
<1>1. subscriptions \in [Subscriptions -> [owner : Owners \cup {Nobody}, active : BOOLEAN]]
  BY DEF TypeInv
<1>2. CASE UNCHANGED subscriptions
  BY <1>2 DEF OneBindingPerSession
\* Nobody but Upsert activates a binding or changes an owner.
<1>3. ASSUME \A r \in Subscriptions : /\ subscriptions'[r].owner = subscriptions[r].owner
                                      /\ subscriptions'[r].active => subscriptions[r].active
      PROVE  OneBindingPerSession'
  BY <1>3 DEF OneBindingPerSession
<1>4. ASSUME NEW o \in Owners, NEW s \in Subscriptions, Upsert(o, s)
      PROVE  OneBindingPerSession'
  <2>1. /\ subscriptions'[s].owner = o
        /\ \A r \in Subscriptions : r # s =>
               /\ subscriptions'[r].owner = subscriptions[r].owner
               /\ subscriptions'[r].active =>
                      subscriptions[r].active /\ subscriptions[r].owner # o
    BY <1>1, <1>4 DEF Upsert
  <2>2. QED
    BY <2>1 DEF OneBindingPerSession
<1>5. ASSUME NEW o \in Owners, DisableSession(o) PROVE OneBindingPerSession'
  BY <1>1, <1>3, <1>5 DEF DisableSession
<1>6. ASSUME NEW p \in Dispatchers, DisableGone(p) PROVE OneBindingPerSession'
  BY <1>1, <1>3, <1>6 DEF DisableGone
<1>7. CASE Member
  BY <1>2, <1>4, <1>5, <1>7 DEF Member, Post
<1>8. CASE Dispatch
  BY <1>2, <1>6, <1>8 DEF Dispatch, Claim, Records, Answered, Gone, Retry, Retire, Lose
<1>9. ASSUME NEW now \in 0 .. clock, Retain(now) PROVE OneBindingPerSession'
  BY <1>2, <1>9 DEF Retain
<1>10. QED
  BY <1>2, <1>7, <1>8, <1>9 DEF Next, Advance, vars

\* A session of a user never has two active endpoints.
THEOREM BindingsUnique == Spec => []OneBindingPerSession
<1>1. Init => OneBindingPerSession
  BY DEF Init, OneBindingPerSession
<1>2. TypeInv /\ OneBindingPerSession /\ [Next]_vars
          => TypeInv' /\ OneBindingPerSession'
  BY TypeStep, BindingStep
<1>3. QED
  BY <1>1, <1>2, TypeInit, PTL DEF Spec
===========================================================================
