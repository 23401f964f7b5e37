---------------------------- MODULE RoomSyncProofs ----------------------------
(* The drain of the outbox, the types and the read position, one row for    *)
(* each message in every step that adds no page of history, and no message  *)
(* lost between the subscription and the catch-up: for any number of        *)
(* messages, reconnects and requests for history, any page size, and every  *)
(* order in which the network answers.                                      *)
EXTENDS RoomSync, FunctionTheorems, FiniteSetTheorems, SequenceTheorems, TLAPS

\* What the drain's pause says of the promotions: it lasts while the newest one is at
\* work, and only one that this one started over ends it earlier.
PauseInv ==
    /\ generation \in Nat
    /\ promotions = [g \in Generations |-> promotions[g]]
    /\ NeverLeftPaused
    /\ \A g \in Generations : Current(g) /\ Running(g) => paused \/ promotions[g].over
    /\ \A g, h \in Generations :
          CatchingUp(g) /\ ~Current(g) /\ Current(h) /\ Running(h) => promotions[h].over

\* The variables that the invariant is about.
pauseVars == <<generation, promotions, paused>>

LEMMA PauseUnchanged == ASSUME PauseInv, UNCHANGED pauseVars PROVE PauseInv'
    BY DEF PauseInv, pauseVars, NeverLeftPaused, Current, Running, CatchingUp

LEMMA PromotionSet ==
    ASSUME promotions = [h \in Generations |-> promotions[h]], NEW g \in Generations,
           NEW step, NEW after, NEW upTo, NEW over, SetPromotion(g, step, after, upTo, over)
    PROVE  /\ promotions' = [h \in Generations |-> promotions'[h]]
           /\ \A h \in Generations :
                IF h = g
                THEN /\ promotions'[h].step = step /\ promotions'[h].after = after
                     /\ promotions'[h].upTo = upTo /\ promotions'[h].over = over
                ELSE promotions'[h] = promotions[h]
<1> DEFINE r == [step |-> step, after |-> after, upTo |-> upTo, over |-> over]
<1>1. r.step = step /\ r.after = after /\ r.upTo = upTo /\ r.over = over
    OBVIOUS
<1>2. promotions' = [promotions EXCEPT ![g] = r]
    BY DEF SetPromotion
<1> HIDE DEF r
<1>3. \A h \in Generations : promotions'[h] = IF h = g THEN r ELSE promotions[h]
    BY <1>2
<1>4. promotions' = [h \in Generations |-> promotions'[h]]
    BY <1>2
<1>. QED BY <1>1, <1>3, <1>4

LEMMA ReconnectKeeps == ASSUME PauseInv, Reconnect PROVE PauseInv'
<1> DEFINE over == \E g \in Generations : CatchingUp(g)
<1>1. generation \in Nat /\ generation' = generation + 1 /\ generation + 1 \in Generations
    BY RoomAssumption DEF PauseInv, Reconnect, Generations
<1>2. SetPromotion(generation + 1, "subscribing", NoId, NoId, over) /\ paused' = TRUE
    BY DEF Reconnect
<1>3. promotions = [h \in Generations |-> promotions[h]]
    BY DEF PauseInv
<1> HIDE DEF over
<1>4. /\ promotions' = [h \in Generations |-> promotions'[h]]
      /\ promotions'[generation + 1].step = "subscribing"
      /\ promotions'[generation + 1].over = over
      /\ \A h \in Generations : h # generation + 1 => promotions'[h] = promotions[h]
    BY <1>1, <1>2, <1>3, PromotionSet
<1>5. NeverLeftPaused'
    BY <1>1, <1>4 DEF NeverLeftPaused, Current, Running
<1>6. ASSUME NEW g \in Generations, NEW h \in Generations, CatchingUp(g)', ~Current(g)', Current(h)'
      PROVE  promotions'[h].over
    <2>1. h = generation + 1 /\ g # generation + 1
        BY <1>1, <1>6 DEF Current
    <2>2. CatchingUp(g)
        BY <1>4, <1>6, <2>1 DEF CatchingUp
    <2>. QED BY <1>4, <2>1, <2>2 DEF over
<1>. QED BY <1>1, <1>2, <1>4, <1>5, <1>6 DEF PauseInv

\* The promotion goes on, and the drain with it as before.
LEMMA SubscribeKeeps ==
    ASSUME PauseInv, NEW g \in Generations, Subscribe(g) \/ FetchMissed(g)
    PROVE  PauseInv'
<1>1. UNCHANGED <<generation, paused>> /\ promotions = [h \in Generations |-> promotions[h]]
    BY DEF Subscribe, Subscribed, FetchMissed, PauseInv
<1>2. PICK step \in {"asking", "answered"} :
        /\ promotions' = [h \in Generations |-> promotions'[h]]
        /\ promotions'[g].step = step /\ promotions'[g].over = promotions[g].over
        /\ \A h \in Generations : h # g => promotions'[h] = promotions[h]
    BY <1>1, PromotionSet DEF Subscribe, Subscribed, FetchMissed
<1>3. Running(g) /\ Running(g)' /\ (Current(g) \/ CatchingUp(g)) /\ CatchingUp(g)'
    BY <1>2 DEF Subscribe, Subscribed, FetchMissed, Running, CatchingUp
<1>4. \A h \in Generations : h # g => (Running(h)' <=> Running(h)) /\ (CatchingUp(h)' <=> CatchingUp(h))
    BY <1>2 DEF Running, CatchingUp
<1>5. \A h \in Generations : Current(h)' <=> Current(h)
    BY <1>1 DEF Current
<1>6. \A h \in Generations : promotions'[h].over = promotions[h].over
    BY <1>2
<1>7. NeverLeftPaused'
    BY <1>1, <1>3, <1>4, <1>5 DEF PauseInv, NeverLeftPaused
<1>8. ASSUME NEW h \in Generations, Current(h)', Running(h)' PROVE paused' \/ promotions'[h].over
    BY <1>1, <1>3, <1>4, <1>5, <1>6, <1>8 DEF PauseInv
<1>9. ASSUME NEW f \in Generations, NEW h \in Generations,
             CatchingUp(f)', ~Current(f)', Current(h)', Running(h)'
      PROVE  promotions'[h].over
    <2>1. CatchingUp(f) /\ Running(h)
        BY <1>3, <1>4, <1>5, <1>9
    <2>. QED BY <1>5, <1>6, <1>9, <2>1 DEF PauseInv
<1>. QED BY <1>1, <1>2, <1>7, <1>8, <1>9 DEF PauseInv

\* The promotion ends and resumes the drain, for one started over it as well.
LEMMA EndKeeps ==
    ASSUME PauseInv, NEW g \in Generations, Merge(g) \/ Overtaken(g) \/ GiveUp(g)
    PROVE  PauseInv'
<1>1. /\ generation' = generation /\ paused' = FALSE
      /\ \E step \in {"merged", "ended"} : SetPromotion(g, step, NoId, NoId, FALSE)
      /\ promotions = [h \in Generations |-> promotions[h]]
    BY DEF Merge, Overtaken, GiveUp, Fails, End, PauseInv
<1>2. /\ promotions' = [h \in Generations |-> promotions'[h]]
      /\ promotions'[g].step \in {"merged", "ended"}
      /\ \A h \in Generations : h # g => promotions'[h] = promotions[h]
    BY <1>1, PromotionSet
<1>3. ~Running(g)' /\ ~CatchingUp(g)'
    BY <1>2 DEF Running, CatchingUp
<1>4. \A h \in Generations : h # g => (CatchingUp(h)' <=> CatchingUp(h)) /\ (Running(h)' <=> Running(h))
    BY <1>2 DEF CatchingUp, Running
<1>5. \A h \in Generations : Current(h)' <=> Current(h)
    BY <1>1 DEF Current
<1>6. Current(g) \/ CatchingUp(g)
    BY DEF Merge, Overtaken, GiveUp, Fails, CatchingUp
<1>7. \A f, h \in Generations : Current(f) /\ Current(h) => f = h
    BY DEF Current
<1>8. NeverLeftPaused'
    BY <1>1 DEF NeverLeftPaused
<1>9. ASSUME NEW h \in Generations, Current(h)', Running(h)' PROVE promotions'[h].over
    <2>1. h # g /\ Current(h) /\ Running(h)
        BY <1>3, <1>4, <1>5, <1>9
    <2>2. CatchingUp(g) /\ ~Current(g)
        BY <1>6, <1>7, <2>1
    <2>3. promotions[h].over
        BY <2>1, <2>2 DEF PauseInv
    <2>. QED BY <1>2, <2>1, <2>3
<1>. QED BY <1>1, <1>2, <1>8, <1>9 DEF PauseInv

LEMMA PauseStep == ASSUME PauseInv, [Next]_vars PROVE PauseInv'
<1>1. CASE UNCHANGED vars
    BY <1>1, PauseUnchanged DEF vars, catchUpVars, pauseVars
<1>2. CASE Reconnect
    BY <1>2, ReconnectKeeps
<1>3. CASE Open \/ OpenFails \/ Join \/ Commit \/ Push \/ Drop
    BY <1>3, PauseUnchanged DEF Open, OpenFails, Join, Commit, Push, Drop, catchUpVars, pauseVars
<1>4. ASSUME NEW g \in Generations, Promote(g) PROVE PauseInv'
    BY <1>4, SubscribeKeeps, EndKeeps DEF Promote
<1>5. CASE Outbox \/ Member
    BY <1>5, PauseUnchanged DEF Outbox, Send, CommitOwn, Answer, Member, Compose, LoadOlder,
        ScrollToBottom, JumpToLatest, catchUpVars, pauseVars
<1>6. ASSUME NEW r \in Requests, PageArrives(r) PROVE PauseInv'
    BY <1>6, PauseUnchanged DEF PageArrives, OlderArrives, NewerArrives, LatestArrives,
        RequestFails, Taken, catchUpVars, pauseVars
<1>. QED BY <1>1, <1>2, <1>3, <1>4, <1>5, <1>6 DEF Next, Network

LEMMA PauseInit == Init => PauseInv
    BY DEF Init, PauseInv, NeverLeftPaused, Current, Running, CatchingUp, NoPromotion

LEMMA PauseInvariant == Spec => []PauseInv
<1>1. Init => PauseInv
    BY PauseInit
<1>2. PauseInv /\ [Next]_vars => PauseInv'
    BY PauseStep
<1>. QED BY <1>1, <1>2, PTL DEF Spec

\* Neither a refused join, a failing catch-up nor a promotion overtaken by the next one
\* leaves the member's queue stopped (promoteSlot's finally).
THEOREM DrainResumes == Spec => []NeverLeftPaused
<1>1. PauseInv => NeverLeftPaused
    BY DEF PauseInv
<1>. QED BY <1>1, PauseInvariant, PTL

\* No own send starts while a reconnect is at work (onReconnect pauses the drain before it
\* subscribes), unless it started over one still catching up, whose finally resumes the
\* drain for both.
THEOREM CatchUpFirst == Spec => SendsAfterCatchUp
<1> DEFINE Fine == own = "queued" /\ own' = "sending" =>
                     \A g \in Generations : Current(g) /\ Running(g) => promotions[g].over
<1>1. PauseInv /\ [Next]_vars => [Fine]_vars
    <2>1. SUFFICES ASSUME PauseInv, Next, own = "queued", own' = "sending"
                   PROVE  \A g \in Generations : Current(g) /\ Running(g) => promotions[g].over
        OBVIOUS
    <2>2. own' # own
        BY <2>1
    <2>3. Send
        BY <2>1, <2>2 DEF Next, Network, Open, OpenFails, Join, Commit, Push, Drop, Reconnect,
            Promote, Subscribe, Subscribed, FetchMissed, Merge, Overtaken, GiveUp, Fails, Outbox,
            CommitOwn, Answer, Member, Compose, LoadOlder, ScrollToBottom, JumpToLatest,
            PageArrives, OlderArrives, NewerArrives, LatestArrives, RequestFails, Taken, serverVars
    <2>4. ~paused
        BY <2>3 DEF Send
    <2>. QED BY <2>1, <2>4 DEF PauseInv
<1>. QED BY <1>1, PauseInvariant, PTL DEF Spec, SendsAfterCatchUp
---------------------------------------------------------------------------
(* Lists of rows: what they hold, some of it once, whatever is joined to   *)
(* them or taken out of them.                                              *)

\* No repetitions among the messages of O.
Distinct(seq, O) == \A i, j \in DOMAIN seq : seq[i] = seq[j] /\ seq[i] \in O => i = j

\* A list, and the set it is a listing of.
Lists(seq, S, O) == seq \in Seq(Int) /\ Distinct(seq, O) /\ Entries(seq) = S

LEMMA EmptyList == ASSUME NEW O PROVE Lists(<<>>, {}, O)
<1>1. DOMAIN <<>> = {}
    OBVIOUS
<1>. QED BY <1>1 DEF Lists, Distinct, Entries

LEMMA ListEnds ==
    ASSUME NEW O, NEW seq, NEW S, Lists(seq, S, O)
    PROVE  /\ Len(seq) \in Nat /\ DOMAIN seq = 1 .. Len(seq)
           /\ seq = <<>> <=> S = {}
           /\ seq # <<>> => seq[1] \in S /\ seq[Len(seq)] \in S
           /\ S \subseteq Int
<1>1. Len(seq) \in Nat /\ DOMAIN seq = 1 .. Len(seq) /\ seq \in Seq(Int)
    BY DEF Lists
<1>2. \A i \in 1 .. Len(seq) : seq[i] \in S /\ seq[i] \in Int
    BY <1>1 DEF Lists, Entries
<1>3. \A x \in S : \E i \in 1 .. Len(seq) : x = seq[i]
    BY <1>1 DEF Lists, Entries
<1>4. seq # <<>> => Len(seq) >= 1
    BY <1>1
<1>5. seq = <<>> => Len(seq) = 0
    OBVIOUS
<1>6. S = {} => seq = <<>>
    BY <1>1, <1>2, <1>4
<1>7. seq = <<>> => S = {}
    BY <1>1, <1>3, <1>5
<1>. QED BY <1>1, <1>2, <1>3, <1>4, <1>6, <1>7

LEMMA JoinedLists ==
    ASSUME NEW O, NEW s, NEW S, Lists(s, S, O), NEW t, NEW T, Lists(t, T, O), S \cap T \cap O = {}
    PROVE  Lists(s \o t, S \cup T, O)
<1>1. s \in Seq(Int) /\ t \in Seq(Int) /\ Len(s) \in Nat /\ Len(t) \in Nat
    BY ListEnds DEF Lists
<1>2. /\ s \o t \in Seq(Int) /\ Len(s \o t) = Len(s) + Len(t)
      /\ \A i \in 1 .. Len(s) + Len(t) :
            (s \o t)[i] = IF i <= Len(s) THEN s[i] ELSE t[i - Len(s)]
    BY <1>1, ConcatProperties
<1> DEFINE both == s \o t
<1>3. DOMAIN both = 1 .. Len(s) + Len(t) /\ both \in Seq(Int)
    BY <1>1, <1>2
<1>4. \A i \in 1 .. Len(s) : both[i] = s[i]
    BY <1>1, <1>2
<1>5. \A i \in 1 .. Len(t) : Len(s) + i \in 1 .. Len(s) + Len(t) /\ both[Len(s) + i] = t[i]
    BY <1>1, <1>2
<1> HIDE DEF both
<1>6. \A i \in DOMAIN both : \/ i \in 1 .. Len(s)
                             \/ \E k \in 1 .. Len(t) : i = Len(s) + k
    <2>1. SUFFICES ASSUME NEW i \in 1 .. Len(s) + Len(t), ~(i \in 1 .. Len(s))
                   PROVE  \E k \in 1 .. Len(t) : i = Len(s) + k
        BY <1>3
    <2>2. i - Len(s) \in 1 .. Len(t) /\ i = Len(s) + (i - Len(s))
        BY <1>1, <2>1
    <2>. QED BY <2>2
<1>7. DOMAIN s = 1 .. Len(s) /\ DOMAIN t = 1 .. Len(t)
    BY <1>1
<1>8. Entries(both) = S \cup T
    <2>1. \A i \in DOMAIN both : both[i] \in S \cup T
        BY <1>4, <1>5, <1>6, <1>7 DEF Lists, Entries
    <2>2. \A x \in S : x \in Entries(both)
        <3>1. SUFFICES ASSUME NEW i \in 1 .. Len(s) PROVE s[i] \in Entries(both)
            BY <1>7 DEF Lists, Entries
        <3>2. i \in DOMAIN both /\ both[i] = s[i]
            BY <1>1, <1>3, <1>4
        <3>. QED BY <3>2 DEF Entries
    <2>3. \A x \in T : x \in Entries(both)
        <3>1. SUFFICES ASSUME NEW i \in 1 .. Len(t) PROVE t[i] \in Entries(both)
            BY <1>7 DEF Lists, Entries
        <3>2. Len(s) + i \in DOMAIN both /\ both[Len(s) + i] = t[i]
            BY <1>3, <1>5
        <3>. QED BY <3>2 DEF Entries
    <2>. QED BY <2>1, <2>2, <2>3 DEF Entries
<1>9. Distinct(both, O)
    <2>1. SUFFICES ASSUME NEW i \in DOMAIN both, NEW j \in DOMAIN both, both[i] = both[j],
                          both[i] \in O
                   PROVE  i = j
        BY DEF Distinct
    <2>2. \A k \in 1 .. Len(s) : s[k] \in S
        BY <1>7 DEF Lists, Entries
    <2>3. \A k \in 1 .. Len(t) : t[k] \in T
        BY <1>7 DEF Lists, Entries
    <2>4. CASE i \in 1 .. Len(s) /\ j \in 1 .. Len(s)
        BY <1>4, <1>7, <2>1, <2>4 DEF Lists, Distinct
    <2>5. CASE \E k \in 1 .. Len(t), l \in 1 .. Len(t) : i = Len(s) + k /\ j = Len(s) + l
        BY <1>5, <1>7, <2>1, <2>5 DEF Lists, Distinct
    <2>6. CASE i \in 1 .. Len(s) /\ \E k \in 1 .. Len(t) : j = Len(s) + k
        BY <1>4, <1>5, <2>1, <2>2, <2>3, <2>6
    <2>7. CASE j \in 1 .. Len(s) /\ \E k \in 1 .. Len(t) : i = Len(s) + k
        BY <1>4, <1>5, <2>1, <2>2, <2>3, <2>7
    <2>. QED BY <1>6, <2>4, <2>5, <2>6, <2>7
<1>. QED BY <1>3, <1>8, <1>9 DEF Lists, both

LEMMA OneEntry == ASSUME NEW O, NEW x \in Int PROVE Lists(<<x>>, {x}, O)
BY DEF Lists, Distinct, Entries

LEMMA AppendedList ==
    ASSUME NEW O, NEW s, NEW S, Lists(s, S, O), NEW x \in Int, x \notin S
    PROVE  Lists(Append(s, x), S \cup {x}, O)
<1>1. Append(s, x) = s \o <<x>>
    BY DEF Lists
<1>2. S \cap {x} \cap O = {} /\ Lists(<<x>>, {x}, O)
    BY OneEntry
<1>3. Lists(s \o <<x>>, S \cup {x}, O)
    BY <1>2, JoinedLists
<1>. QED BY <1>1, <1>3

LEMMA SpanIs ==
    ASSUME NEW lo \in Int, NEW hi \in Int
    PROVE  /\ Span(lo, hi) \in Seq(Int) /\ Entries(Span(lo, hi)) = lo .. hi
           /\ \A i, j \in DOMAIN Span(lo, hi) : Span(lo, hi)[i] = Span(lo, hi)[j] => i = j
           /\ Span(lo, hi) = <<>> <=> hi < lo
           /\ Len(Span(lo, hi)) = Larger(hi - lo + 1, 0)
           /\ lo <= hi => Span(lo, hi)[1] = lo /\ Span(lo, hi)[Len(Span(lo, hi))] = hi
<1> DEFINE n == Larger(hi - lo + 1, 0)
           s == Span(lo, hi)
<1>1. n \in Nat /\ (lo <= hi => n = hi - lo + 1) /\ (~(lo <= hi) => n = 0)
    BY DEF Larger
<1>2. s = [i \in 1 .. n |-> lo + i - 1]
    BY DEF Span
<1> HIDE DEF n, s
<1>3. s \in [1 .. n -> Int]
    BY <1>1, <1>2
<1>4. s \in Seq(Int) /\ Len(s) = n /\ DOMAIN s = 1 .. n
    BY <1>1, <1>3
<1>5. \A i, j \in DOMAIN s : s[i] = s[j] => i = j
    BY <1>1, <1>2, <1>4
<1>6. Entries(s) = lo .. hi
    <2>1. \A i \in 1 .. n : s[i] \in lo .. hi
        BY <1>1, <1>2
    <2>2. \A x \in lo .. hi : x - lo + 1 \in 1 .. n /\ s[x - lo + 1] = x
        BY <1>1, <1>2
    <2>. QED BY <1>4, <2>1, <2>2 DEF Entries
<1>7. lo <= hi => s[1] = lo /\ s[n] = hi
    BY <1>1, <1>2
<1>8. s = <<>> <=> hi < lo
    BY <1>1, <1>4
<1>. QED BY <1>4, <1>5, <1>6, <1>7, <1>8 DEF n, s

LEMMA SpanLists ==
    ASSUME NEW O, NEW lo \in Int, NEW hi \in Int PROVE Lists(Span(lo, hi), lo .. hi, O)
BY SpanIs DEF Lists, Distinct

LEMMA RankSteps ==
    ASSUME NEW S \in SUBSET Int, IsFiniteSet(S)
    PROVE  /\ \A x \in S : Rank(x, S) \in 1 .. Cardinality(S)
           /\ \A x, y \in S : Rank(x, S) = Rank(y, S) => x = y
           /\ \A i \in 1 .. Cardinality(S) : \E x \in S : Rank(x, S) = i
<1> DEFINE Upto(x) == {other \in S : other <= x}
           rank == [id \in S |-> Rank(id, S)]
<1>1. \A x \in S : Upto(x) \in SUBSET S /\ x \in Upto(x)
    OBVIOUS
<1>2. \A x \in S : IsFiniteSet(Upto(x)) /\ Cardinality(Upto(x)) \in 1 .. Cardinality(S)
    <2>1. SUFFICES ASSUME NEW x \in S
                   PROVE  IsFiniteSet(Upto(x)) /\ Cardinality(Upto(x)) \in 1 .. Cardinality(S)
        OBVIOUS
    <2>2. IsFiniteSet(Upto(x)) /\ Cardinality(Upto(x)) <= Cardinality(S)
        BY <1>1, FS_Subset
    <2>3. Cardinality(Upto(x)) \in Nat /\ Cardinality(S) \in Nat
        BY <2>2, FS_CardinalityType
    <2>4. Cardinality(Upto(x)) # 0
        BY <1>1, <2>2, FS_EmptySet
    <2>. QED BY <2>2, <2>3, <2>4
<1>3. \A x, y \in S : x < y => Cardinality(Upto(x)) # Cardinality(Upto(y))
    <2>1. SUFFICES ASSUME NEW x \in S, NEW y \in S, x < y
                   PROVE  Cardinality(Upto(y)) # Cardinality(Upto(x))
        OBVIOUS
    <2>2. \A z \in Upto(x) : z \in Upto(y)
        BY <2>1
    <2>3. y \in Upto(y) /\ y \notin Upto(x)
        BY <2>1
    <2>4. Upto(x) \in SUBSET Upto(y) /\ Upto(x) # Upto(y)
        BY <2>2, <2>3
    <2>. QED BY <1>2, <2>4, FS_Subset
<1>4. \A x \in S : Rank(x, S) = Cardinality(Upto(x))
    BY DEF Rank
<1>5. \A x, y \in S : Rank(x, S) = Rank(y, S) => x = y
    <2>1. \A x, y \in S : x = y \/ x < y \/ y < x
        OBVIOUS
    <2>. QED BY <1>3, <1>4, <2>1
<1>6. \A x \in S : Rank(x, S) \in 1 .. Cardinality(S)
    BY <1>2, <1>4
<1>7. rank \in [S -> 1 .. Cardinality(S)] /\ \A x \in S : rank[x] = Rank(x, S)
    BY <1>6
<1> HIDE DEF rank
<1>8. rank \in Injection(S, 1 .. Cardinality(S))
    BY <1>5, <1>7 DEF Injection, IsInjective
<1>9. Cardinality(S) \in Nat
    BY FS_CardinalityType
<1>10. IsFiniteSet(1 .. Cardinality(S)) /\ Cardinality(1 .. Cardinality(S)) = Cardinality(S)
    BY <1>9, FS_Interval
<1>11. rank \in Surjection(S, 1 .. Cardinality(S))
    BY <1>8, <1>10, FS_Injection
<1>12. \A i \in 1 .. Cardinality(S) : \E x \in S : Rank(x, S) = i
    BY <1>7, <1>11 DEF Surjection
<1>. QED BY <1>5, <1>6, <1>12

LEMMA AscendingLists ==
    ASSUME NEW O, NEW S \in SUBSET Int, IsFiniteSet(S) PROVE Lists(Ascending(S), S, O)
<1> DEFINE n == Cardinality(S)
           a == Ascending(S)
<1>1. n \in Nat
    BY FS_CardinalityType
<1>2. \A i \in 1 .. n : \E x \in S : Rank(x, S) = i
    BY RankSteps
<1>3. \A x, y \in S : Rank(x, S) = Rank(y, S) => x = y
    BY RankSteps
<1>4. \A x \in S : Rank(x, S) \in 1 .. n
    BY RankSteps
<1>5. a = [i \in 1 .. n |-> CHOOSE id \in S : Rank(id, S) = i]
    BY DEF Ascending
<1> HIDE DEF n, a
<1>6. \A i \in 1 .. n : a[i] \in S /\ Rank(a[i], S) = i
    BY <1>2, <1>5
<1>7. a \in [1 .. n -> Int] /\ DOMAIN a = 1 .. n
    BY <1>5, <1>6
<1>8. a \in Seq(Int)
    BY <1>1, <1>7
<1>9. Distinct(a, O)
    BY <1>6, <1>7 DEF Distinct
<1>10. Entries(a) = S
    <2>1. \A x \in S : a[Rank(x, S)] = x
        BY <1>3, <1>4, <1>6
    <2>. QED BY <1>4, <1>6, <1>7, <2>1 DEF Entries
<1>. QED BY <1>8, <1>9, <1>10 DEF Lists, a

\* The pending row goes.
LEMMA RemovedList ==
    ASSUME NEW O, Pending \in O, NEW s, NEW S, Lists(s, S, O) PROVE Lists(RemovePending(s), S \ {Pending}, O)
<1>1. CASE Pending \notin S
    BY <1>1 DEF RemovePending, Lists
<1>2. CASE Pending \in S
    <2> DEFINE k == CHOOSE k \in DOMAIN s : s[k] = Pending
               t == RemovePending(s)
               n == Len(s)
    <2>1. n \in Nat /\ DOMAIN s = 1 .. n /\ \A i \in 1 .. n : s[i] \in Int /\ s[i] \in S
        BY ListEnds DEF Lists, Entries
    <2>2. k \in 1 .. n /\ s[k] = Pending
        BY <1>2, <2>1 DEF Lists, Entries
    <2>3. t = [i \in 1 .. n - 1 |-> IF i < k THEN s[i] ELSE s[i + 1]]
        BY <1>2 DEF RemovePending, Lists
    <2> HIDE DEF k, t, n
    <2>4. \A i \in 1 .. n : s[i] = Pending => i = k
        BY <2>1, <2>2 DEF Lists, Distinct
    <2>5. n - 1 \in Nat /\ \A i \in 1 .. n - 1 : i \in 1 .. n /\ i + 1 \in 1 .. n
        BY <2>1, <2>2
    <2>6. t \in [1 .. n - 1 -> Int] /\ DOMAIN t = 1 .. n - 1
        BY <2>1, <2>3, <2>5
    <2>7. t \in Seq(Int)
        BY <2>5, <2>6
    <2>8. Distinct(t, O)
        <3>1. SUFFICES ASSUME NEW i \in 1 .. n - 1, NEW j \in 1 .. n - 1, t[i] = t[j], t[i] \in O
                       PROVE  i = j
            BY <2>6 DEF Distinct
        <3>2. \A x, y \in 1 .. n : s[x] = s[y] /\ s[x] \in O => x = y
            BY <2>1 DEF Lists, Distinct
        <3>. QED BY <2>1, <2>2, <2>3, <2>5, <3>1, <3>2
    <2>9. Entries(t) = S \ {Pending}
        <3>1. \A i \in 1 .. n - 1 : t[i] \in S \ {Pending}
            BY <2>1, <2>2, <2>3, <2>4, <2>5
        <3>2. ASSUME NEW x \in S, x # Pending PROVE \E i \in 1 .. n - 1 : t[i] = x
            <4>1. PICK i \in 1 .. n : s[i] = x
                BY <2>1 DEF Lists, Entries
            <4>2. i # k
                BY <2>2, <3>2, <4>1
            <4>3. CASE i < k
                BY <2>1, <2>2, <2>3, <4>1, <4>3
            <4>4. CASE i > k
                <5>1. i - 1 \in 1 .. n - 1 /\ ~(i - 1 < k) /\ (i - 1) + 1 = i
                    BY <2>1, <2>2, <4>4
                <5>. QED BY <2>3, <4>1, <5>1
            <4>. QED BY <2>1, <2>2, <4>2, <4>3, <4>4
        <3>. QED BY <2>6, <3>1, <3>2 DEF Entries
    <2>. QED BY <2>7, <2>8, <2>9 DEF Lists, t
<1>. QED BY <1>1, <1>2

Replaced(s, id) == [i \in DOMAIN s |-> IF s[i] = Pending THEN id ELSE s[i]]

\* The committed message takes the place of the pending row.
LEMMA ReplacedList ==
    ASSUME NEW O, Pending \in O, NEW s, NEW S, Lists(s, S, O), Pending \in S, NEW id \in Int, id \notin S
    PROVE  Lists(Replaced(s, id), (S \ {Pending}) \cup {id}, O)
<1> DEFINE n == Len(s)
           t == Replaced(s, id)
<1>1. n \in Nat /\ DOMAIN s = 1 .. n /\ \A i \in 1 .. n : s[i] \in Int /\ s[i] \in S
    BY ListEnds DEF Lists, Entries
<1>2. \A x \in S : \E i \in 1 .. n : s[i] = x
    BY <1>1 DEF Lists, Entries
<1>3. t = [i \in 1 .. n |-> IF s[i] = Pending THEN id ELSE s[i]]
    BY <1>1 DEF Replaced
<1> HIDE DEF n, t
<1>4. t \in [1 .. n -> Int] /\ DOMAIN t = 1 .. n
    BY <1>1, <1>3
<1>5. t \in Seq(Int)
    BY <1>1, <1>4
<1>6. Distinct(t, O)
    <2>1. \A x, y \in 1 .. n : s[x] = s[y] /\ s[x] \in O => x = y
        BY <1>1 DEF Lists, Distinct
    <2>2. \A x, y \in 1 .. n : s[x] = Pending /\ s[y] = Pending => x = y
        BY <2>1
    <2>3. SUFFICES ASSUME NEW i \in 1 .. n, NEW j \in 1 .. n, t[i] = t[j], t[i] \in O PROVE i = j
        BY <1>4 DEF Distinct
    <2>4. t[i] = (IF s[i] = Pending THEN id ELSE s[i]) /\ t[j] = IF s[j] = Pending THEN id ELSE s[j]
        BY <1>3
    <2>5. s[i] # id /\ s[j] # id
        BY <1>1
    <2>. QED BY <2>1, <2>2, <2>3, <2>4, <2>5
<1>7. Entries(t) = (S \ {Pending}) \cup {id}
    <2>1. \A i \in 1 .. n : t[i] \in (S \ {Pending}) \cup {id}
        BY <1>1, <1>3
    <2>2. \A x \in S \ {Pending} : \E i \in 1 .. n : t[i] = x
        BY <1>2, <1>3
    <2>3. \E i \in 1 .. n : t[i] = id
        BY <1>2, <1>3
    <2>. QED BY <1>4, <2>1, <2>2, <2>3 DEF Entries
<1>. QED BY <1>5, <1>6, <1>7 DEF Lists, t
(* The window's operations: what becomes of its fields.                    *)

Window(c) == [rows : Seq(Int), oldest : 0 .. c, newest : 0 .. c, hasNewer : BOOLEAN,
              hasOlder : BOOLEAN, atBottom : BOOLEAN, indicator : BOOLEAN]

WindowIs(w, c, rows, oldest, newest, hasNewer) ==
    /\ w \in Window(c)
    /\ w.rows = rows /\ w.oldest = oldest /\ w.newest = newest /\ w.hasNewer = hasNewer

\* A page of history, by its first and last id.
Page(page, lo, hi) ==
    /\ page.nodes = Span(lo, hi)
    /\ page.hasOlder \in BOOLEAN /\ page.hasNewer \in BOOLEAN

LEMMA WindowGrows == ASSUME NEW c \in Nat, NEW w \in Window(c) PROVE w \in Window(c + 1)
BY DEF Window

LEMMA WindowFields ==
    ASSUME NEW c \in Nat, NEW w \in Window(c)
    PROVE  /\ w.rows \in Seq(Int) /\ w.oldest \in 0 .. c /\ w.newest \in 0 .. c
           /\ w.hasNewer \in BOOLEAN /\ w.hasOlder \in BOOLEAN
           /\ w.atBottom \in BOOLEAN /\ w.indicator \in BOOLEAN
BY DEF Window

LEMMA EmptyWindowFits ==
    ASSUME NEW c \in Nat PROVE WindowIs(EmptyWindow, c, <<>>, NoId, NoId, FALSE)
<1>1. <<>> \in Seq(Int) /\ 0 \in 0 .. c
    BY EmptySeq
<1>. QED BY <1>1 DEF EmptyWindow, Window, WindowIs, NoId

LEMMA ResetFits ==
    ASSUME NEW c \in Nat, NEW w \in Window(c)
    PROVE  WindowIs(resetWindow(w), c, <<>>, NoId, NoId, w.hasNewer)
<1>1. <<>> \in Seq(Int) /\ 0 \in 0 .. c
    BY EmptySeq
<1>. QED BY <1>1 DEF resetWindow, Window, WindowIs, NoId

LEMMA AppendFits ==
    ASSUME NEW c \in Nat, NEW w \in Window(c), NEW lo \in Nat \ {0}, NEW hi \in 0 .. c
    PROVE  WindowIs(appendMessages(w, Span(lo, hi)), c, w.rows \o Span(lo, hi),
                    IF lo <= hi /\ w.oldest = NoId THEN lo ELSE w.oldest,
                    IF lo <= hi THEN hi ELSE w.newest, w.hasNewer)
<1> DEFINE nodes == Span(lo, hi)
<1>1. lo <= hi => nodes[1] = lo /\ nodes[Len(nodes)] = hi
    <2>1. lo \in Int /\ hi \in Int
        OBVIOUS
    <2>. QED BY <2>1, SpanIs
<1>2. nodes \in Seq(Int) /\ (nodes = <<>> <=> ~(lo <= hi))
    <2>1. lo \in Int /\ hi \in Int
        OBVIOUS
    <2>2. nodes \in Seq(Int) /\ (nodes = <<>> <=> hi < lo)
        BY <2>1, SpanIs
    <2>. QED BY <2>1, <2>2
<1> DEFINE v == appendMessages(w, nodes)
<1>3. w.rows \in Seq(Int)
    BY WindowFields
<1>4. w.rows \o nodes \in Seq(Int) /\ w.rows \o <<>> = w.rows
    BY <1>2, <1>3, ConcatProperties, ConcatEmptySeq
<1> HIDE DEF nodes
<1>5. CASE lo <= hi
    <2> DEFINE rows == w.rows \o nodes
               first == IF w.oldest = NoId THEN lo ELSE w.oldest
    <2>1. v = [w EXCEPT !.rows = rows, !.oldest = first, !.newest = hi]
        BY <1>1, <1>2, <1>5 DEF appendMessages, Window
    <2>2. first \in 0 .. c /\ first = IF lo <= hi /\ w.oldest = NoId THEN lo ELSE w.oldest
        BY <1>5, WindowFields
    <2>3. rows \in Seq(Int)
        BY <1>4
    <2> HIDE DEF rows, first, v
    <2>4. WindowIs(v, c, rows, first, hi, w.hasNewer)
        BY <2>1, <2>2, <2>3 DEF Window, WindowIs
    <2>. QED BY <1>5, <2>2, <2>4 DEF v, rows, nodes
<1>6. CASE ~(lo <= hi)
    <2>1. v = w
        BY <1>2, <1>6 DEF appendMessages
    <2>2. w.rows \o nodes = w.rows
        BY <1>2, <1>4, <1>6
    <2> HIDE DEF v
    <2>. QED BY <1>6, <2>1, <2>2 DEF WindowIs, v, nodes
<1>. QED BY <1>5, <1>6

LEMMA InitialFits ==
    ASSUME NEW c \in Nat, NEW w \in Window(c), NEW lo \in Nat \ {0}, NEW hi \in 0 .. c,
           NEW page, Page(page, lo, hi)
    PROVE  WindowIs(renderInitial(w, page), c, Span(lo, hi), IF lo <= hi THEN lo ELSE NoId,
                    IF lo <= hi THEN hi ELSE NoId, FALSE)
<1> DEFINE r == resetWindow(w)
           u == appendMessages(r, Span(lo, hi))
           older1 == page.nodes # <<>> /\ page.hasOlder
           v == renderInitial(w, page)
           first == IF lo <= hi THEN lo ELSE NoId
           last == IF lo <= hi THEN hi ELSE NoId
<1>1. WindowIs(r, c, <<>>, NoId, NoId, w.hasNewer)
    BY ResetFits
<1>2. v = [u EXCEPT !.hasNewer = FALSE, !.indicator = FALSE, !.atBottom = TRUE, !.hasOlder = older1]
    BY DEF Page, renderInitial
<1>3. older1 \in BOOLEAN
    BY DEF Page
<1> HIDE DEF r
<1>4. WindowIs(u, c, r.rows \o Span(lo, hi), IF lo <= hi /\ r.oldest = NoId THEN lo ELSE r.oldest,
               IF lo <= hi THEN hi ELSE r.newest, r.hasNewer)
    BY <1>1, AppendFits DEF WindowIs
<1>5. <<>> \o Span(lo, hi) = Span(lo, hi)
    BY SpanIs, ConcatEmptySeq
<1> HIDE DEF u, older1, v
<1>6. u \in Window(c) /\ u.rows = Span(lo, hi)
    BY <1>1, <1>4, <1>5 DEF WindowIs
<1>7. u.oldest = first /\ u.newest = last
    BY <1>1, <1>4 DEF WindowIs
<1> HIDE DEF first, last
<1>8. WindowIs(v, c, Span(lo, hi), first, last, FALSE)
    BY <1>2, <1>3, <1>6, <1>7 DEF WindowIs, Window
<1>. QED BY <1>8 DEF v, first, last

LEMMA ResumedFits ==
    ASSUME NEW c \in Nat, NEW w \in Window(c), NEW lo \in Nat \ {0}, NEW mid \in lo .. c, NEW hi \in mid + 1 .. c,
           NEW context, Page(context, lo, mid), NEW unread, Page(unread, mid + 1, hi),
           NEW near \in BOOLEAN
    PROVE  WindowIs(renderResumed(w, context, unread, near), c, Span(lo, mid) \o Span(mid + 1, hi),
                    lo, hi, unread.hasNewer)
<1> DEFINE r == resetWindow(w)
           u == appendMessages(r, Span(lo, mid))
           t == appendMessages(u, Span(mid + 1, hi))
           v == renderResumed(w, context, unread, near)
<1>1. WindowIs(r, c, <<>>, NoId, NoId, w.hasNewer)
    BY ResetFits
<1>2. v = [t EXCEPT !.hasNewer = unread.hasNewer, !.indicator = unread.hasNewer,
                    !.hasOlder = context.hasOlder, !.atBottom = near]
    BY DEF renderResumed, Page
<1> HIDE DEF r
<1>3. mid \in 0 .. c /\ hi \in 0 .. c /\ mid + 1 \in Nat \ {0} /\ lo <= mid /\ mid + 1 <= hi
    OBVIOUS
<1>4. WindowIs(u, c, r.rows \o Span(lo, mid), IF lo <= mid /\ r.oldest = NoId THEN lo ELSE r.oldest,
               IF lo <= mid THEN mid ELSE r.newest, r.hasNewer)
    BY <1>1, <1>3, AppendFits DEF WindowIs
<1>5. <<>> \o Span(lo, mid) = Span(lo, mid)
    BY <1>3, SpanIs, ConcatEmptySeq
<1> HIDE DEF u
<1>6. u \in Window(c) /\ u.rows = Span(lo, mid) /\ u.oldest = lo
    BY <1>1, <1>3, <1>4, <1>5 DEF WindowIs
<1>7. WindowIs(t, c, u.rows \o Span(mid + 1, hi), IF mid + 1 <= hi /\ u.oldest = NoId THEN mid + 1 ELSE u.oldest,
               IF mid + 1 <= hi THEN hi ELSE u.newest, u.hasNewer)
    BY <1>3, <1>6, AppendFits
<1> HIDE DEF t, v
<1>8. t \in Window(c) /\ t.rows = Span(lo, mid) \o Span(mid + 1, hi) /\ t.oldest = lo /\ t.newest = hi
    BY <1>3, <1>6, <1>7 DEF WindowIs, NoId
<1>9. context.hasOlder \in BOOLEAN /\ unread.hasNewer \in BOOLEAN
    BY DEF Page
<1>10. WindowIs(v, c, Span(lo, mid) \o Span(mid + 1, hi), lo, hi, unread.hasNewer)
    BY <1>2, <1>8, <1>9 DEF WindowIs, Window
<1>. QED BY <1>10 DEF v

LEMMA PrependFits ==
    ASSUME NEW c \in Nat, NEW w \in Window(c), NEW lo \in Nat \ {0}, NEW hi \in 0 .. c,
           NEW page, Page(page, lo, hi)
    PROVE  WindowIs(prependOlder(w, page), c, Span(lo, hi) \o w.rows,
                    IF lo <= hi THEN lo ELSE w.oldest, w.newest, w.hasNewer)
<1> DEFINE nodes == Span(lo, hi)
           v == prependOlder(w, page)
<1>0. lo \in Int /\ hi \in Int
    OBVIOUS
<1>1. lo <= hi => nodes[1] = lo
    BY <1>0, SpanIs
<1>2. nodes \in Seq(Int) /\ (nodes = <<>> <=> ~(lo <= hi))
    <2>1. nodes \in Seq(Int) /\ (nodes = <<>> <=> hi < lo)
        BY <1>0, SpanIs
    <2>. QED BY <1>0, <2>1
<1>3. w.rows \in Seq(Int)
    BY WindowFields
<1>4. nodes \o w.rows \in Seq(Int) /\ <<>> \o w.rows = w.rows
    BY <1>2, <1>3, ConcatProperties, ConcatEmptySeq
<1>5. page.nodes = nodes /\ page.hasOlder \in BOOLEAN
    BY DEF Page
<1> HIDE DEF nodes
<1>6. CASE lo <= hi
    <2> DEFINE rows == nodes \o w.rows
    <2>1. v = [w EXCEPT !.rows = rows, !.oldest = lo, !.hasOlder = page.hasOlder]
        BY <1>1, <1>2, <1>5, <1>6 DEF prependOlder, Window
    <2>2. rows \in Seq(Int) /\ lo \in 0 .. c
        BY <1>4, <1>6
    <2> HIDE DEF rows, v
    <2>3. WindowIs(v, c, rows, lo, w.newest, w.hasNewer)
        BY <1>5, <2>1, <2>2 DEF Window, WindowIs
    <2>. QED BY <1>6, <2>3 DEF v, rows, nodes
<1>7. CASE ~(lo <= hi)
    <2>1. v = [w EXCEPT !.hasOlder = page.hasOlder]
        BY <1>2, <1>5, <1>7 DEF prependOlder
    <2>2. nodes \o w.rows = w.rows
        BY <1>2, <1>4, <1>7
    <2> HIDE DEF v
    <2>3. WindowIs(v, c, w.rows, w.oldest, w.newest, w.hasNewer)
        BY <1>5, <2>1 DEF Window, WindowIs
    <2>. QED BY <1>7, <2>2, <2>3 DEF v, nodes
<1>. QED BY <1>6, <1>7

LEMMA NewerFits ==
    ASSUME NEW c \in Nat, NEW w \in Window(c), NEW lo \in Nat \ {0}, NEW hi \in 0 .. c,
           NEW page, Page(page, lo, hi)
    PROVE  WindowIs(appendNewer(w, page), c, w.rows \o Span(lo, hi),
                    IF lo <= hi /\ w.oldest = NoId THEN lo ELSE w.oldest,
                    IF lo <= hi THEN hi ELSE w.newest, page.hasNewer)
<1> DEFINE u == appendMessages(w, Span(lo, hi))
           v == appendNewer(w, page)
           rows == w.rows \o Span(lo, hi)
           first == IF lo <= hi /\ w.oldest = NoId THEN lo ELSE w.oldest
           last == IF lo <= hi THEN hi ELSE w.newest
<1>1. WindowIs(u, c, rows, first, last, w.hasNewer)
    BY AppendFits
<1>2. page.hasNewer \in BOOLEAN
    BY DEF Page
<1>3. v = [u EXCEPT !.hasNewer = page.hasNewer, !.indicator = @ /\ page.hasNewer]
    BY DEF appendNewer, Page
<1> HIDE DEF u, v, rows, first, last
<1>4. u.indicator \in BOOLEAN
    BY <1>1 DEF WindowIs, Window
<1>5. WindowIs(v, c, rows, first, last, page.hasNewer)
    BY <1>1, <1>2, <1>3, <1>4 DEF WindowIs, Window
<1>. QED BY <1>5 DEF v, rows, first, last

LEMMA BottomFits ==
    ASSUME NEW c \in Nat, NEW w \in Window(c)
    PROVE  WindowIs(scrolledToBottom(w), c, w.rows, w.oldest, w.newest, w.hasNewer)
BY DEF scrolledToBottom, Window, WindowIs

LEMMA PendingFits ==
    ASSUME NEW c \in Nat, NEW w \in Window(c)
    PROVE  WindowIs(renderPending(w), c, Append(w.rows, Pending), w.oldest, w.newest, w.hasNewer)
<1> DEFINE u == scrolledToBottom(w)
           v == renderPending(w)
           rows == Append(w.rows, Pending)
<1>1. WindowIs(u, c, w.rows, w.oldest, w.newest, w.hasNewer)
    BY BottomFits
<1>2. v = [u EXCEPT !.rows = Append(@, Pending)]
    BY DEF renderPending
<1>3. rows \in Seq(Int)
    BY WindowFields DEF Pending
<1> HIDE DEF u, v
<1>4. v = [u EXCEPT !.rows = rows]
    BY <1>1, <1>2 DEF WindowIs, Window
<1> HIDE DEF rows
<1>5. WindowIs(v, c, rows, w.oldest, w.newest, w.hasNewer)
    BY <1>1, <1>3, <1>4 DEF WindowIs, Window
<1>. QED BY <1>5 DEF v, rows

\* Rows of any kind keep their type when the pending one goes or is replaced.
LEMMA RemovedRows == ASSUME NEW s \in Seq(Int) PROVE RemovePending(s) \in Seq(Int)
<1>1. CASE Pending \notin Entries(s)
    BY <1>1 DEF RemovePending
<1>2. CASE Pending \in Entries(s)
    <2> DEFINE k == CHOOSE k \in DOMAIN s : s[k] = Pending
               t == RemovePending(s)
               n == Len(s)
    <2>1. n \in Nat /\ DOMAIN s = 1 .. n /\ \A i \in 1 .. n : s[i] \in Int
        OBVIOUS
    <2>2. k \in 1 .. n
        BY <1>2, <2>1 DEF Entries
    <2>3. t = [i \in 1 .. n - 1 |-> IF i < k THEN s[i] ELSE s[i + 1]]
        BY <1>2 DEF RemovePending
    <2> HIDE DEF k, t, n
    <2>4. n - 1 \in Nat /\ \A i \in 1 .. n - 1 : i \in 1 .. n /\ i + 1 \in 1 .. n
        BY <2>1, <2>2
    <2>5. t \in [1 .. n - 1 -> Int]
        BY <2>1, <2>3, <2>4
    <2>6. t \in Seq(Int)
        BY <2>4, <2>5
    <2>. QED BY <2>6 DEF t
<1>. QED BY <1>1, <1>2

LEMMA ReplacedRows == ASSUME NEW s \in Seq(Int), NEW id \in Int PROVE Replaced(s, id) \in Seq(Int)
<1> DEFINE n == Len(s)
           t == Replaced(s, id)
<1>1. n \in Nat /\ DOMAIN s = 1 .. n /\ \A i \in 1 .. n : s[i] \in Int
    OBVIOUS
<1>2. t = [i \in 1 .. n |-> IF s[i] = Pending THEN id ELSE s[i]]
    BY <1>1 DEF Replaced
<1> HIDE DEF n, t
<1>3. t \in [1 .. n -> Int]
    BY <1>1, <1>2
<1>4. t \in Seq(Int)
    BY <1>1, <1>3
<1>. QED BY <1>4 DEF t

\* The rows after an answer.
Reconciled(w, id) ==
    IF id \in Shown(w) THEN RemovePending(w.rows)
    ELSE IF Pending \in Entries(w.rows) THEN Replaced(w.rows, id)
    ELSE Append(w.rows, id)

LEMMA ReconcileFits ==
    ASSUME NEW c \in Nat, NEW w \in Window(c), NEW id \in 0 .. c
    PROVE  WindowIs(reconcile(w, id), c, Reconciled(w, id), w.oldest,
                    IF id \in Shown(w) THEN w.newest ELSE id, w.hasNewer)
<1> DEFINE v == reconcile(w, id)
           rows == Reconciled(w, id)
<1>1. w.rows \in Seq(Int)
    BY WindowFields
<1>2. RemovePending(w.rows) \in Seq(Int) /\ Append(w.rows, id) \in Seq(Int)
    BY <1>1, RemovedRows
<1>3. Replaced(w.rows, id) \in Seq(Int)
    BY <1>1, ReplacedRows
<1>4. rows \in Seq(Int)
    BY <1>2, <1>3 DEF Reconciled
<1>5. CASE id \in Shown(w)
    <2>1. v = [w EXCEPT !.rows = rows]
        BY <1>5 DEF reconcile, hasRendered, Reconciled
    <2> HIDE DEF v, rows
    <2>2. WindowIs(v, c, rows, w.oldest, w.newest, w.hasNewer)
        BY <1>4, <2>1 DEF Window, WindowIs
    <2>. QED BY <1>5, <2>2 DEF v, rows
<1>6. CASE id \notin Shown(w)
    <2>1. v = [w EXCEPT !.rows = rows, !.newest = id]
        BY <1>6 DEF reconcile, hasRendered, Reconciled, Replaced
    <2> HIDE DEF v, rows
    <2>2. WindowIs(v, c, rows, w.oldest, id, w.hasNewer)
        BY <1>4, <2>1 DEF Window, WindowIs
    <2>. QED BY <1>6, <2>2 DEF v, rows
<1>. QED BY <1>5, <1>6

\* What is new of some arrivals is appended, unless the window stops short of the newest.
Received(v, w, c, lo, hi) ==
    /\ v \in Window(c)
    /\ v.oldest = w.oldest /\ v.hasNewer = w.hasNewer
    /\ w.hasNewer => v.rows = w.rows /\ v.newest = w.newest
    /\ ~w.hasNewer => \/ v = w /\ lo .. hi \subseteq Shown(w)
                      \/ /\ v.rows = w.rows \o Ascending(lo .. hi \ Shown(w))
                         /\ v.newest \in lo .. hi

LEMMA ReceiveFits ==
    ASSUME NEW c \in Nat, NEW w \in Window(c), NEW lo \in Nat \ {0}, NEW hi \in 0 .. c,
           NEW nodes \in Seq(Int), Entries(nodes) = lo .. hi, NEW near \in BOOLEAN
    PROVE  Received(receiveRemote(w, nodes, near), w, c, lo, hi)
<1> DEFINE T == lo .. hi \ Shown(w)
           fresh == Ascending(T)
           v == receiveRemote(w, nodes, near)
<1>1. IsFiniteSet(lo .. hi)
    BY FS_Interval
<1>2. T \in SUBSET Int /\ IsFiniteSet(T)
    BY <1>1, FS_Subset
<1>3. Lists(fresh, T, Int)
    BY <1>2, AscendingLists
<1>4. fresh \in Seq(Int) /\ (fresh = <<>> <=> T = {}) /\ (fresh # <<>> => fresh[Len(fresh)] \in T)
    BY <1>3, ListEnds DEF Lists
<1>5. Entries(nodes) \ Shown(w) = T
    OBVIOUS
<1>6. w.rows \o fresh \in Seq(Int)
    BY <1>4, WindowFields, ConcatProperties
<1>7. v = IF fresh = <<>> THEN w
          ELSE IF w.hasNewer THEN reportPending(w)
          ELSE [w EXCEPT !.rows = @ \o fresh, !.newest = fresh[Len(fresh)],
                         !.atBottom = near, !.indicator = ~near]
    BY <1>5 DEF receiveRemote
<1> DEFINE last == fresh[Len(fresh)]
           rows == w.rows \o fresh
<1>8. CASE fresh = <<>>
    <2>1. v = w /\ lo .. hi \subseteq Shown(w)
        BY <1>4, <1>7, <1>8
    <2> HIDE DEF v
    <2>2. Received(v, w, c, lo, hi)
        BY <2>1 DEF Received
    <2>. QED BY <2>2 DEF v
<1>9. CASE fresh # <<>> /\ w.hasNewer
    <2>1. v = [w EXCEPT !.atBottom = FALSE, !.indicator = TRUE]
        BY <1>7, <1>9 DEF reportPending
    <2> HIDE DEF v
    <2>2. Received(v, w, c, lo, hi)
        BY <1>9, <2>1 DEF Received, Window
    <2>. QED BY <2>2 DEF v
<1>10. CASE fresh # <<>> /\ ~w.hasNewer
    <2>1. last \in lo .. hi
        BY <1>4, <1>10
    <2>2. v = [w EXCEPT !.rows = rows, !.newest = last, !.atBottom = near, !.indicator = ~near]
        BY <1>7, <1>10
    <2>3. rows \in Seq(Int)
        BY <1>6
    <2> HIDE DEF last, rows, v
    <2>4. last \in 0 .. c
        BY <2>1
    <2>5. v \in Window(c) /\ v.oldest = w.oldest /\ v.hasNewer = w.hasNewer
        BY <2>2, <2>3, <2>4 DEF Window
    <2>6. v.rows = rows /\ v.newest = last
        BY <2>2 DEF Window
    <2>. QED BY <1>10, <2>1, <2>5, <2>6 DEF Received, rows, v
<1>. QED BY <1>8, <1>9, <1>10
---------------------------------------------------------------------------
(* What every field ranges over, and that the read position only moves     *)
(* forward.                                                                *)

Steps == {"idle", "subscribing", "asking", "answered", "merged", "ended"}
Promotion(c) == [step : Steps, after : 0 .. c, upTo : 0 .. c, over : BOOLEAN]
Kinds == {"none", "older", "newer", "latest", "ended"}
Request(c) == [kind : Kinds, cursor : 0 .. c, since : 0 .. c]

TypeInv ==
    /\ committed \in Nat
    /\ own \in {"none", "queued", "sending", "posted", "answered"}
    /\ phase \in {"loading", "joining", "ready"}
    /\ ownId \in 0 .. committed /\ marker \in 0 .. committed /\ highest \in 0 .. committed
    /\ since \in 0 .. committed
    /\ window \in Window(committed)
    /\ promotions \in [Generations -> Promotion(committed)]
    /\ pushes \subseteq 1 .. committed
    /\ asked \in [Requests -> Request(committed)]

LEMMA LatestPageIs ==
    ASSUME NEW upTo \in Nat
    PROVE  LET lo == Larger(upTo - PageSize + 1, 1)
           IN lo \in Nat \ {0} /\ Page(LatestPage(upTo, PageSize), lo, upTo)
<1> DEFINE lo == Larger(upTo - PageSize + 1, 1)
<1>1. lo \in Nat \ {0} /\ (lo > 1) \in BOOLEAN
    BY RoomAssumption DEF Larger
<1>2. Page(LatestPage(upTo, PageSize), lo, upTo)
    BY <1>1 DEF LatestPage, Page
<1>. QED BY <1>1, <1>2

LEMMA BeforePageIs ==
    ASSUME NEW id \in Nat \ {0}, NEW limit \in Nat \ {0}
    PROVE  /\ Larger(id - limit, 1) \in 1 .. id
           /\ id > 1 => Larger(id - limit, 1) <= id - 1
           /\ Page(BeforePage(id, limit), Larger(id - limit, 1), id - 1)
<1>1. Larger(id - limit, 1) \in 1 .. id /\ (id > 1 => Larger(id - limit, 1) <= id - 1)
    BY DEF Larger
<1>2. (Larger(id - limit, 1) > 1) \in BOOLEAN
    OBVIOUS
<1>3. Page(BeforePage(id, limit), Larger(id - limit, 1), id - 1)
    BY <1>2 DEF BeforePage, Page
<1>. QED BY <1>1, <1>3

LEMMA AfterPageIs ==
    ASSUME NEW upTo \in Nat, NEW id \in Nat
    PROVE  /\ Smaller(upTo, id + PageSize) \in 0 .. upTo
           /\ Page(AfterPage(id, upTo, PageSize), id + 1, Smaller(upTo, id + PageSize))
<1>1. Smaller(upTo, id + PageSize) \in 0 .. upTo
    BY RoomAssumption DEF Smaller
<1>2. (Smaller(upTo, id + PageSize) < upTo) \in BOOLEAN
    OBVIOUS
<1>3. Page(AfterPage(id, upTo, PageSize), id + 1, Smaller(upTo, id + PageSize))
    BY <1>2 DEF AfterPage, Page
<1>. QED BY <1>1, <1>3

\* An older page, with a cursor or without.
LEMMA OlderThanIs ==
    ASSUME NEW c \in Nat, NEW id \in 0 .. c, NEW upTo \in 0 .. c
    PROVE  \E lo \in Nat \ {0}, hi \in 0 .. c : Page(OlderThan(id, upTo), lo, hi)
<1>1. CASE id = NoId
    BY <1>1, LatestPageIs DEF OlderThan
<1>2. CASE id # NoId
    <2>1. id \in Nat \ {0}
        BY <1>2 DEF NoId
    <2> DEFINE lo == Larger(id - PageSize, 1)
               hi == id - 1
    <2>2. lo \in 1 .. id /\ Page(BeforePage(id, PageSize), lo, hi)
        BY <2>1, BeforePageIs, RoomAssumption
    <2>3. hi \in 0 .. c
        BY <2>1
    <2> HIDE DEF lo, hi
    <2>4. lo \in Nat \ {0} /\ Page(OlderThan(id, upTo), lo, hi)
        BY <1>2, <2>1, <2>2 DEF OlderThan
    <2>. QED BY <2>3, <2>4
<1>. QED BY <1>1, <1>2

\* The window is replaced by one stretch, or by two that follow each other.
Fresh(w, c) ==
    \E lo \in Nat \ {0}, mid \in 0 .. c, hi \in 0 .. c :
       /\ w \in Window(c)
       /\ \/ w.rows = Span(lo, hi)
          \/ mid < hi /\ w.rows = Span(lo, mid) \o Span(mid + 1, hi)

LEMMA LatestIs ==
    ASSUME NEW c \in Nat, NEW w \in Window(c), NEW upTo \in 0 .. c
    PROVE  Fresh(renderInitial(w, LatestPage(upTo, PageSize)), c)
<1>1. PICK lo \in Nat \ {0} : Page(LatestPage(upTo, PageSize), lo, upTo)
    BY LatestPageIs
<1> DEFINE v == renderInitial(w, LatestPage(upTo, PageSize))
<1>2. WindowIs(v, c, Span(lo, upTo), IF lo <= upTo THEN lo ELSE NoId,
               IF lo <= upTo THEN upTo ELSE NoId, FALSE)
    BY <1>1, InitialFits
<1> HIDE DEF v
<1>3. v \in Window(c) /\ v.rows = Span(lo, upTo)
    BY <1>2 DEF WindowIs
<1>4. Fresh(v, c)
    BY <1>3 DEF Fresh
<1>. QED BY <1>4 DEF v

LEMMA LoadIs ==
    ASSUME TypeInv, NEW near \in BOOLEAN, NEW read \in 0 .. committed, NEW upTo \in 0 .. committed
    PROVE  Fresh(loadInitial(read, upTo, near), committed)
<1> DEFINE c == committed
           unread == AfterPage(marker, read, PageSize)
           hi == Smaller(read, marker + PageSize)
           context == BeforePage(unread.nodes[1], ContextSize)
           lo == Larger(marker + 1 - ContextSize, 1)
           w == renderResumed(window, context, unread, near)
<1>1. committed \in Nat /\ marker \in 0 .. committed /\ window \in Window(committed)
    BY DEF TypeInv
<1>2. hi \in 0 .. read /\ Page(unread, marker + 1, hi)
    <2>1. read \in Nat /\ marker \in Nat
        BY <1>1
    <2>. QED BY <2>1, AfterPageIs
<1>3. CASE marker = NoId \/ unread.nodes = <<>>
    BY <1>1, <1>3, LatestIs DEF loadInitial
<1>4. CASE marker # NoId /\ unread.nodes # <<>>
    <2>1. loadInitial(read, upTo, near) = w
        BY <1>4 DEF loadInitial
    <2>2. unread.nodes = Span(marker + 1, hi)
        BY <1>2 DEF Page
    <2>3. marker + 1 <= hi /\ unread.nodes[1] = marker + 1
        <3>1. marker + 1 \in Int /\ hi \in Int
            BY <1>1, <1>2
        <3>2. Span(marker + 1, hi) # <<>>
            BY <1>4, <2>2
        <3> HIDE DEF hi
        <3>3. marker + 1 <= hi => Span(marker + 1, hi)[1] = marker + 1
            BY <3>1, SpanIs
        <3>4. ~(hi < marker + 1)
            BY <3>1, <3>2, SpanIs
        <3>. QED BY <2>2, <3>1, <3>3, <3>4
    <2>4. marker > 0 /\ marker + 1 \in Nat \ {0}
        BY <1>1, <1>4 DEF NoId
    <2>5. lo \in 1 .. marker + 1 /\ lo <= marker /\ Page(context, lo, marker)
        <3>1. context = BeforePage(marker + 1, ContextSize)
            BY <2>3
        <3>2. marker + 1 > 1 /\ (marker + 1) - 1 = marker
            BY <1>1, <2>4
        <3>3. PICK id \in Nat \ {0} : id = marker + 1
            BY <2>4
        <3>4. /\ Larger(id - ContextSize, 1) \in 1 .. id /\ Larger(id - ContextSize, 1) <= id - 1
              /\ Page(BeforePage(id, ContextSize), Larger(id - ContextSize, 1), id - 1)
            BY <3>2, <3>3, BeforePageIs, RoomAssumption
        <3>5. lo = Larger(id - ContextSize, 1) /\ id - 1 = marker
            BY <1>1, <3>3, RoomAssumption DEF Larger
        <3> HIDE DEF lo, context
        <3>6. lo \in 1 .. id /\ lo <= id - 1 /\ Page(context, lo, id - 1)
            BY <3>1, <3>3, <3>4, <3>5
        <3>. QED BY <3>3, <3>5, <3>6
    <2> HIDE DEF lo, hi, context, unread
    <2>6. lo \in Nat \ {0} /\ marker \in lo .. committed /\ hi \in marker + 1 .. committed
        BY <1>1, <1>2, <2>3, <2>4, <2>5
    <2>7. WindowIs(w, committed, Span(lo, marker) \o Span(marker + 1, hi), lo, hi, unread.hasNewer)
        BY <1>1, <1>2, <2>5, <2>6, ResumedFits
    <2> HIDE DEF w
    <2>8. w \in Window(committed) /\ w.rows = Span(lo, marker) \o Span(marker + 1, hi)
          /\ marker \in 0 .. committed /\ hi \in 0 .. committed /\ marker < hi
        BY <1>1, <2>6, <2>7 DEF WindowIs
    <2>9. Fresh(w, committed)
        BY <2>6, <2>8 DEF Fresh
    <2>. QED BY <2>1, <2>9
<1>. QED BY <1>3, <1>4

LEMMA FreshFits == ASSUME NEW c, NEW w, Fresh(w, c) PROVE w \in Window(c)
BY DEF Fresh

LEMMA ResumedPendingFits ==
    ASSUME TypeInv, NEW w \in Window(committed) PROVE renderResumedPending(w) \in Window(committed)
<1>1. committed \in Nat /\ ownId \in 0 .. committed
    BY DEF TypeInv
<1>2. reconcile(w, ownId) \in Window(committed)
    BY <1>1, ReconcileFits DEF WindowIs
<1>3. renderPending(w) \in Window(committed)
    BY <1>1, PendingFits DEF WindowIs
<1>. QED BY <1>2, <1>3 DEF renderResumedPending

LEMMA ArrivalMoves ==
    ASSUME TypeInv, NEW w \in Window(committed)
    PROVE  /\ noteArrival(w) \in 0 .. committed /\ noteArrival(w) >= marker
           /\ furthest(marker, w.newest) \in 0 .. committed /\ furthest(marker, w.newest) >= marker
<1>1. committed \in Nat /\ marker \in 0 .. committed
    BY DEF TypeInv
<1>2. w.newest \in 0 .. committed
    BY <1>1, WindowFields
<1>. QED BY <1>1, <1>2 DEF noteArrival, furthest, Larger

LEMMA TypeInit == ASSUME Init PROVE TypeInv
<1>1. committed \in Nat /\ marker \in 0 .. committed /\ 0 \in 0 .. committed
      /\ since \in 0 .. committed
    BY RoomAssumption DEF Init
<1>2. window \in Window(committed)
    BY <1>1, EmptyWindowFits DEF Init, WindowIs
<1>3. promotions \in [Generations -> Promotion(committed)]
    BY <1>1 DEF Init, NoPromotion, Promotion, Steps, NoId
<1>4. asked \in [Requests -> Request(committed)]
    BY <1>1 DEF Init, NoRequest, Request, Kinds, NoId
<1>. QED BY <1>1, <1>2, <1>3, <1>4 DEF Init, TypeInv, NoId

\* The room grows by a message.
LEMMA TypeGrows ==
    ASSUME TypeInv, committed' = committed + 1,
           UNCHANGED <<phase, since, window, marker, highest, promotions, asked>>,
           pushes' \subseteq pushes \cup {committed + 1},
           own' \in {"none", "queued", "sending", "posted", "answered"}, ownId' \in {ownId, committed + 1}
    PROVE  TypeInv'
<1>1. committed \in Nat /\ committed' \in Nat /\ 0 .. committed \subseteq 0 .. committed'
    BY DEF TypeInv
<1>2. window' \in Window(committed')
    BY <1>1, WindowGrows DEF TypeInv
<1>3. Promotion(committed) \subseteq Promotion(committed') /\ Request(committed) \subseteq Request(committed')
    BY <1>1 DEF Promotion, Request
<1>4. promotions' \in [Generations -> Promotion(committed')] /\ asked' \in [Requests -> Request(committed')]
    BY <1>3 DEF TypeInv
<1>5. pushes' \subseteq 1 .. committed'
    BY <1>1 DEF TypeInv
<1>6. ownId' \in 0 .. committed' /\ marker' \in 0 .. committed' /\ highest' \in 0 .. committed'
      /\ since' \in 0 .. committed'
    BY <1>1 DEF TypeInv
<1>. QED BY <1>1, <1>2, <1>4, <1>5, <1>6 DEF TypeInv

\* Any other step, by what it does to each field.
LEMMA TypeSame ==
    ASSUME TypeInv, UNCHANGED <<committed, ownId>>,
           own' \in {"none", "queued", "sending", "posted", "answered"},
           phase' \in {"loading", "joining", "ready"}, since' \in {since, NoId},
           window' \in Window(committed), marker' \in 0 .. committed, highest' \in 0 .. committed,
           promotions' \in [Generations -> Promotion(committed)], pushes' \subseteq pushes,
           asked' \in [Requests -> Request(committed)]
    PROVE  TypeInv'
<1>1. since' \in 0 .. committed
    BY DEF TypeInv, NoId
<1>. QED BY <1>1 DEF TypeInv

LEMMA PromotionTyped ==
    ASSUME TypeInv, NEW g \in Generations, NEW step \in Steps, NEW after \in 0 .. committed,
           NEW upTo \in 0 .. committed, NEW over \in BOOLEAN, SetPromotion(g, step, after, upTo, over)
    PROVE  promotions' \in [Generations -> Promotion(committed)]
BY DEF SetPromotion, TypeInv, Promotion

\* The messages a catch-up brings, by their first and last id.
MissedLow(p) == IF p.after = NoId THEN Larger(p.upTo - PageSize + 1, 1) ELSE p.after + 1

LEMMA MissedIs ==
    ASSUME NEW c \in Nat, NEW p \in Promotion(c)
    PROVE  /\ MissedLow(p) \in Nat \ {0} /\ p.upTo \in 0 .. c
           /\ missedMessages(p) = Span(MissedLow(p), p.upTo)
<1>1. p.after \in 0 .. c /\ p.upTo \in 0 .. c
    BY DEF Promotion
<1>2. MissedLow(p) \in Nat \ {0}
    BY <1>1, RoomAssumption DEF MissedLow, Larger, NoId
<1>3. missedMessages(p) = Span(MissedLow(p), p.upTo)
    BY DEF missedMessages, MissedLow, LatestPage
<1>. QED BY <1>1, <1>2, <1>3

LEMMA MergeIs ==
    ASSUME TypeInv, NEW g \in Generations, Merge(g)
    PROVE  LET lo == MissedLow(promotions[g])
               hi == promotions[g].upTo
           IN /\ lo \in Nat \ {0} /\ hi \in 0 .. committed
              /\ Entries(missedMessages(promotions[g])) = lo .. hi
              /\ highest' = IF lo <= hi THEN hi ELSE highest
              /\ Received(window', window, committed, lo, hi)
<1> DEFINE lo == MissedLow(promotions[g])
           hi == promotions[g].upTo
           missed == missedMessages(promotions[g])
<1>1. committed \in Nat /\ window \in Window(committed) /\ promotions[g] \in Promotion(committed)
    BY DEF TypeInv
<1>2. lo \in Nat \ {0} /\ hi \in 0 .. committed /\ missed = Span(lo, hi)
    BY <1>1, MissedIs
<1>3. /\ highest' = IF Len(missed) = 0 THEN highest ELSE missed[Len(missed)]
      /\ \E near \in BOOLEAN : window' = receiveRemote(window, missed, near)
    BY DEF Merge
<1> HIDE DEF missed, lo, hi
<1>4. lo \in Int /\ hi \in Int
    BY <1>2
<1>5. missed \in Seq(Int) /\ Entries(missed) = lo .. hi
    BY <1>2, <1>4, SpanIs
<1>6. Received(window', window, committed, lo, hi)
    BY <1>1, <1>2, <1>3, <1>5, ReceiveFits
<1>7. Len(missed) = Larger(hi - lo + 1, 0)
    BY <1>2, <1>4, SpanIs
<1>8. Len(missed) = 0 <=> ~(lo <= hi)
    BY <1>4, <1>7 DEF Larger
<1>9. lo <= hi => missed[Len(missed)] = hi
    BY <1>2, <1>4, SpanIs
<1>10. highest' = IF lo <= hi THEN hi ELSE highest
    BY <1>3, <1>8, <1>9
<1>. QED BY <1>2, <1>5, <1>6, <1>10 DEF lo, hi, missed

LEMMA PushIs ==
    ASSUME TypeInv, Push
    PROVE  \E id \in pushes :
              /\ id \in 1 .. committed /\ pushes' = pushes \ {id} /\ highest' = id
              /\ owed' = owed \ {id}
              /\ Received(window', window, committed, id, id)
              /\ marker' = IF hasRendered(window, id) THEN marker ELSE noteArrival(window')
<1>1. PICK id \in pushes, near \in BOOLEAN :
        /\ pushes' = pushes \ {id} /\ highest' = id /\ owed' = owed \ {id}
        /\ window' = receiveRemote(window, <<id>>, near)
        /\ marker' = IF hasRendered(window, id) THEN marker ELSE noteArrival(window')
    BY DEF Push
<1>2. committed \in Nat /\ window \in Window(committed) /\ id \in 1 .. committed
    BY DEF TypeInv
<1>3. <<id>> \in Seq(Int) /\ Entries(<<id>>) = id .. id
    <2>1. id .. id = {id} /\ id \in Int
        BY <1>2
    <2>. QED BY <2>1, OneEntry DEF Lists
<1>4. id \in Nat \ {0} /\ id \in 0 .. committed
    BY <1>2
<1>5. Received(window', window, committed, id, id)
    BY <1>1, <1>2, <1>3, <1>4, ReceiveFits
<1>. QED BY <1>1, <1>2, <1>5

LEMMA OpenTyped == ASSUME TypeInv, Open \/ OpenFails PROVE TypeInv' /\ marker' >= marker
<1>1. CASE Open
    <2>1. PICK read \in since .. committed, upTo \in since .. committed, near \in BOOLEAN :
            /\ window' = renderResumedPending(loadInitial(read, upTo, near))
            /\ marker' = noteArrival(loadInitial(read, upTo, near))
            /\ highest' = loadInitial(read, upTo, near).newest
        BY <1>1 DEF Open
    <2> DEFINE w == loadInitial(read, upTo, near)
    <2>2. read \in 0 .. committed /\ upTo \in 0 .. committed /\ committed \in Nat
        BY DEF TypeInv
    <2>3. w \in Window(committed)
        BY <2>2, LoadIs, FreshFits
    <2> HIDE DEF w
    <2>4. renderResumedPending(w) \in Window(committed) /\ w.newest \in 0 .. committed
        BY <2>2, <2>3, ResumedPendingFits, WindowFields
    <2>5. noteArrival(w) \in 0 .. committed /\ noteArrival(w) >= marker
        BY <2>3, ArrivalMoves
    <2>6. window' \in Window(committed) /\ marker' \in 0 .. committed /\ highest' \in 0 .. committed
          /\ marker' >= marker
        BY <2>1, <2>4, <2>5 DEF w
    <2>7. /\ UNCHANGED <<committed, own, ownId, promotions, pushes, asked>>
          /\ phase' \in {"loading", "joining", "ready"} /\ since' \in {since, NoId}
        BY <1>1 DEF Open, serverVars, socketVars
    <2>. QED BY <2>6, <2>7, TypeSame DEF TypeInv
<1>2. CASE OpenFails
    <2>1. window' \in Window(committed)
        BY <1>2, ResumedPendingFits DEF OpenFails, TypeInv
    <2>2. /\ UNCHANGED <<committed, own, ownId, marker, highest, promotions, pushes, asked>>
          /\ phase' \in {"loading", "joining", "ready"} /\ since' \in {since, NoId}
        BY <1>2 DEF OpenFails, serverVars, socketVars, catchUpVars
    <2>. QED BY <2>1, <2>2, TypeSame DEF TypeInv
<1>. QED BY <1>1, <1>2

LEMMA ServerTyped ==
    ASSUME TypeInv, Join \/ Commit \/ Drop \/ CommitOwn PROVE TypeInv' /\ marker' = marker
<1>1. CASE Commit \/ CommitOwn
    <2>1. /\ committed' = committed + 1
          /\ UNCHANGED <<phase, since, window, marker, highest, promotions, asked>>
          /\ own' \in {own, "posted"} /\ ownId' \in {ownId, committed + 1}
          /\ pushes' \subseteq pushes \cup {committed + 1}
        BY <1>1 DEF Commit, CommitOwn, Publish, catchUpVars, readingVars
    <2>2. own' \in {"none", "queued", "sending", "posted", "answered"}
        BY <2>1 DEF TypeInv
    <2>. QED BY <2>1, <2>2, TypeGrows
<1>2. CASE Join \/ Drop
    <2>1. /\ UNCHANGED <<committed, own, ownId, since, window, marker, highest, promotions, asked>>
          /\ phase' \in {phase, "ready"} /\ pushes' \subseteq pushes
        BY <1>2 DEF Join, Drop, serverVars, catchUpVars, readingVars
    <2>. QED BY <2>1, TypeSame DEF TypeInv
<1>. QED BY <1>1, <1>2

LEMMA PushTyped == ASSUME TypeInv, Push PROVE TypeInv' /\ marker' >= marker
<1>1. PICK id \in pushes :
        /\ id \in 1 .. committed /\ pushes' = pushes \ {id} /\ highest' = id
        /\ Received(window', window, committed, id, id)
        /\ marker' = IF hasRendered(window, id) THEN marker ELSE noteArrival(window')
    BY PushIs
<1>2. window' \in Window(committed)
    BY <1>1 DEF Received
<1>3. noteArrival(window') \in 0 .. committed /\ noteArrival(window') >= marker
    BY <1>2, ArrivalMoves
<1>4. /\ marker' \in 0 .. committed /\ highest' \in 0 .. committed /\ pushes' \subseteq pushes
      /\ marker' >= marker
    BY <1>1, <1>3 DEF TypeInv
<1>5. UNCHANGED <<committed, own, ownId, phase, since, promotions, asked>>
    BY DEF Push, serverVars
<1>. QED BY <1>2, <1>4, <1>5, TypeSame DEF TypeInv

LEMMA PromotionsTyped ==
    ASSUME TypeInv, PauseInv, Reconnect \/ \E g \in Generations : Promote(g)
    PROVE  TypeInv' /\ marker' = marker
<1>1. CASE Reconnect
    <2>1. generation + 1 \in Generations
        BY <1>1, RoomAssumption DEF PauseInv, Reconnect, Generations
    <2>2. promotions' \in [Generations -> Promotion(committed)]
        <3> DEFINE over == \E g \in Generations : CatchingUp(g)
        <3>1. SetPromotion(generation + 1, "subscribing", NoId, NoId, over)
            BY <1>1 DEF Reconnect
        <3>2. over \in BOOLEAN
            OBVIOUS
        <3> HIDE DEF over
        <3>3. NoId \in 0 .. committed /\ "subscribing" \in Steps
            BY DEF TypeInv, Steps, NoId
        <3>. QED BY <2>1, <3>1, <3>2, <3>3, PromotionTyped
    <2>3. UNCHANGED <<committed, own, ownId, phase, since, window, marker, pushes, highest, asked>>
        BY <1>1 DEF Reconnect, serverVars, socketVars, readingVars
    <2>. QED BY <2>2, <2>3, TypeSame DEF TypeInv
<1>2. ASSUME NEW g \in Generations, Merge(g) PROVE TypeInv' /\ marker' = marker
    <2>1. window' \in Window(committed) /\ highest' \in 0 .. committed
        BY <1>2, MergeIs DEF Received, TypeInv
    <2>2. promotions' \in [Generations -> Promotion(committed)]
        <3>1. SetPromotion(g, "merged", NoId, NoId, FALSE)
            BY <1>2 DEF Merge, End
        <3>2. NoId \in 0 .. committed /\ "merged" \in Steps /\ FALSE \in BOOLEAN
            BY DEF TypeInv, Steps, NoId
        <3>. QED BY <3>1, <3>2, PromotionTyped
    <2>3. UNCHANGED <<committed, own, ownId, phase, since, marker, pushes, asked>>
        BY <1>2 DEF Merge, serverVars, socketVars
    <2>. QED BY <2>1, <2>2, <2>3, TypeSame DEF TypeInv
<1>3. ASSUME NEW g \in Generations, Subscribe(g) \/ FetchMissed(g) \/ Overtaken(g) \/ GiveUp(g)
      PROVE  TypeInv' /\ marker' = marker
    <2>1. promotions[g].after \in 0 .. committed /\ promotions[g].over \in BOOLEAN
        BY DEF TypeInv, Promotion
    <2>2. promotions' \in [Generations -> Promotion(committed)]
        <3>1. /\ NoId \in 0 .. committed /\ committed \in 0 .. committed
              /\ highest \in 0 .. committed /\ FALSE \in BOOLEAN
              /\ "asking" \in Steps /\ "answered" \in Steps /\ "ended" \in Steps
            BY DEF TypeInv, Steps, NoId
        <3>2. \/ SetPromotion(g, "asking", highest, NoId, promotions[g].over)
              \/ SetPromotion(g, "answered", promotions[g].after, committed, promotions[g].over)
              \/ SetPromotion(g, "ended", NoId, NoId, FALSE)
            BY <1>3 DEF Subscribe, Subscribed, FetchMissed, Overtaken, GiveUp, Fails, End
        <3>. QED BY <2>1, <3>1, <3>2, PromotionTyped
    <2>3. UNCHANGED <<committed, own, ownId, phase, since, window, marker, pushes, highest, asked>>
        BY <1>3 DEF Subscribe, Subscribed, FetchMissed, Overtaken, GiveUp, Fails, serverVars, socketVars,
            readingVars
    <2>. QED BY <2>2, <2>3, TypeSame DEF TypeInv
<1>. QED BY <1>1, <1>2, <1>3 DEF Promote

LEMMA AnswerTyped == ASSUME TypeInv, Answer PROVE TypeInv' /\ marker' >= marker
<1>1. committed \in Nat /\ ownId \in 0 .. committed /\ window \in Window(committed)
      /\ marker \in 0 .. committed
    BY DEF TypeInv
<1>2. window' \in Window(committed) /\ marker' \in 0 .. committed /\ marker' >= marker
    <2>1. CASE phase = "loading"
        BY <1>1, <2>1 DEF Answer
    <2>2. CASE phase # "loading"
        <3>1. window' = reconcile(window, ownId) /\ marker' = noteArrival(window')
            BY <2>2 DEF Answer
        <3>2. window' \in Window(committed)
            BY <1>1, <3>1, ReconcileFits DEF WindowIs
        <3>. QED BY <3>1, <3>2, ArrivalMoves
    <2>. QED BY <2>1, <2>2
<1>3. /\ UNCHANGED <<committed, ownId, phase, since, pushes, highest, promotions, asked>>
      /\ own' \in {"none", "queued", "sending", "posted", "answered"}
    BY DEF Answer, socketVars, catchUpVars
<1>. QED BY <1>2, <1>3, TypeSame DEF TypeInv

LEMMA AskTyped ==
    ASSUME TypeInv, NEW kind \in Kinds, NEW cursor \in 0 .. committed, Ask(kind, cursor)
    PROVE  asked' \in [Requests -> Request(committed)]
<1>1. committed \in 0 .. committed
    BY DEF TypeInv
<1>. QED BY <1>1 DEF Ask, TypeInv, Request

LEMMA ReadingTyped ==
    ASSUME TypeInv, LoadOlder \/ ScrollToBottom \/ JumpToLatest \/ Send \/ Compose
    PROVE  TypeInv' /\ marker' >= marker
<1>1. committed \in Nat /\ window \in Window(committed) /\ marker \in 0 .. committed
      /\ asked \in [Requests -> Request(committed)]
    BY DEF TypeInv
<1>2. window.oldest \in 0 .. committed /\ window.newest \in 0 .. committed /\ NoId \in 0 .. committed
    BY <1>1, WindowFields DEF NoId
<1>3. asked' \in [Requests -> Request(committed)]
    <2>1. CASE LoadOlder \/ JumpToLatest
        BY <1>2, <2>1, AskTyped DEF LoadOlder, JumpToLatest, Kinds
    <2>2. CASE ScrollToBottom
        BY <1>1, <1>2, <2>2, AskTyped DEF ScrollToBottom, Kinds
    <2>3. CASE Send \/ Compose
        BY <1>1, <2>3 DEF Send, Compose, readingVars
    <2>. QED BY <2>1, <2>2, <2>3
<1>4. CASE LoadOlder \/ JumpToLatest
    <2>1. UNCHANGED <<committed, own, ownId, phase, since, window, marker, pushes, highest, promotions>>
        BY <1>4 DEF LoadOlder, JumpToLatest, serverVars, socketVars, catchUpVars
    <2>. QED BY <1>1, <1>3, <2>1, TypeSame DEF TypeInv
<1>5. CASE ScrollToBottom
    <2>1. window' \in Window(committed)
        BY <1>1, <1>5, BottomFits DEF ScrollToBottom, WindowIs
    <2>2. marker' \in {marker, furthest(marker, window.newest)}
        BY <1>5 DEF ScrollToBottom
    <2>3. marker' \in 0 .. committed /\ marker' >= marker
        BY <1>1, <2>2, ArrivalMoves
    <2>4. UNCHANGED <<committed, own, ownId, phase, since, pushes, highest, promotions>>
        BY <1>5 DEF ScrollToBottom, serverVars, socketVars, catchUpVars
    <2>. QED BY <1>1, <1>3, <2>1, <2>3, <2>4, TypeSame DEF TypeInv
<1>6. CASE Send \/ Compose
    <2>1. renderPending(window) \in Window(committed)
        BY <1>1, PendingFits DEF WindowIs
    <2>2. window' \in Window(committed)
        BY <1>1, <1>6, <2>1 DEF Send, Compose, readingVars
    <2>3. UNCHANGED <<committed, ownId, phase, since, marker, pushes, highest, promotions>>
          /\ own' \in {"none", "queued", "sending", "posted", "answered"}
        BY <1>6 DEF Send, Compose, socketVars, catchUpVars, readingVars
    <2>. QED BY <1>1, <1>3, <2>2, <2>3, TypeSame DEF TypeInv
<1>. QED BY <1>4, <1>5, <1>6

\* What an arriving page does to the rows, by its kind.
OlderRows(c) ==
    \E lo \in Nat \ {0}, hi \in 0 .. c : window'.rows = Span(lo, hi) \o window.rows
NewerRows(c) ==
    \E lo \in Nat \ {0}, hi \in 0 .. c : window'.rows = window.rows \o Span(lo, hi)

LEMMA PageIs ==
    ASSUME TypeInv, NEW r \in Requests, PageArrives(r)
    PROVE  /\ OlderArrives(r) => window' \in Window(committed) /\ OlderRows(committed)
           /\ NewerArrives(r) => window' \in Window(committed) /\ NewerRows(committed)
           /\ LatestArrives(r) => Fresh(window', committed)
<1> DEFINE c == committed
           cursor == asked[r].cursor
<1>1. committed \in Nat /\ window \in Window(committed) /\ asked[r] \in Request(committed)
    BY DEF TypeInv
<1>2. cursor \in 0 .. committed /\ asked[r].since \in 0 .. committed
    BY <1>1 DEF Request
<1> HIDE DEF cursor
<1>3. \A upTo \in asked[r].since .. committed : upTo \in 0 .. committed
    BY <1>1, <1>2
<1>4. ASSUME OlderArrives(r) PROVE window' \in Window(committed) /\ OlderRows(committed)
    <2>1. PICK upTo \in asked[r].since .. committed : window' = prependOlder(window, OlderThan(cursor, upTo))
        BY <1>4 DEF OlderArrives, cursor
    <2>2. PICK lo \in Nat \ {0}, hi \in 0 .. committed : Page(OlderThan(cursor, upTo), lo, hi)
        BY <1>1, <1>2, <1>3, OlderThanIs
    <2>3. WindowIs(window', committed, Span(lo, hi) \o window.rows,
                   IF lo <= hi THEN lo ELSE window.oldest, window.newest, window.hasNewer)
        BY <1>1, <2>1, <2>2, PrependFits
    <2>. QED BY <2>3 DEF WindowIs, OlderRows
<1>5. ASSUME NewerArrives(r) PROVE window' \in Window(committed) /\ NewerRows(committed)
    <2>1. PICK upTo \in asked[r].since .. committed :
            window' = appendNewer(window, AfterPage(cursor, upTo, PageSize))
        BY <1>5 DEF NewerArrives, cursor
    <2> DEFINE lo == cursor + 1
               hi == Smaller(upTo, cursor + PageSize)
               page == AfterPage(cursor, upTo, PageSize)
    <2>2. upTo \in Nat /\ cursor \in Nat /\ upTo \in 0 .. committed
        BY <1>1, <1>2, <1>3
    <2>3. lo \in Nat \ {0} /\ hi \in 0 .. upTo /\ Page(page, lo, hi)
        <3>1. lo \in Nat \ {0}
            BY <2>2
        <3>. QED BY <2>2, <3>1, AfterPageIs
    <2>4. hi \in 0 .. committed
        BY <1>1, <2>2, <2>3
    <2> HIDE DEF lo, hi, page
    <2>5. WindowIs(appendNewer(window, page), committed, window.rows \o Span(lo, hi),
                   IF lo <= hi /\ window.oldest = NoId THEN lo ELSE window.oldest,
                   IF lo <= hi THEN hi ELSE window.newest, page.hasNewer)
        BY <1>1, <2>3, <2>4, NewerFits
    <2>. QED BY <2>1, <2>3, <2>4, <2>5 DEF WindowIs, NewerRows, page
<1>6. ASSUME LatestArrives(r) PROVE Fresh(window', committed)
    <2>1. PICK upTo \in asked[r].since .. committed :
            window' = renderInitial(window, LatestPage(upTo, PageSize))
        BY <1>6 DEF LatestArrives
    <2>. QED BY <1>1, <1>3, <2>1, LatestIs
<1>. QED BY <1>4, <1>5, <1>6

LEMMA PageTyped ==
    ASSUME TypeInv, NEW r \in Requests, PageArrives(r) PROVE TypeInv' /\ marker' >= marker
<1>1. committed \in Nat /\ window \in Window(committed) /\ marker \in 0 .. committed
      /\ asked \in [Requests -> Request(committed)]
    BY DEF TypeInv
<1>2. window' \in Window(committed)
    BY <1>1, PageIs, FreshFits DEF PageArrives, RequestFails
<1>3. marker' \in {marker, furthest(marker, window'.newest)}
    BY DEF PageArrives, OlderArrives, NewerArrives, LatestArrives, RequestFails
<1>4. marker' \in 0 .. committed /\ marker' >= marker
    BY <1>1, <1>2, <1>3, ArrivalMoves
<1>5. \E kind \in Kinds : Taken(r, kind)
    BY DEF PageArrives, OlderArrives, NewerArrives, LatestArrives, RequestFails, Kinds
<1>6. /\ asked' = [asked EXCEPT ![r] = Ended]
      /\ UNCHANGED <<committed, own, ownId, phase, since, pushes, highest, promotions>>
    BY <1>5 DEF Taken, serverVars, socketVars, catchUpVars
<1>7. Ended \in Request(committed)
    BY <1>1 DEF Ended, NoRequest, Request, Kinds, NoId
<1>8. asked' \in [Requests -> Request(committed)]
    BY <1>1, <1>6, <1>7
<1>. QED BY <1>2, <1>4, <1>6, <1>8, TypeSame DEF TypeInv

LEMMA TypeStep == ASSUME TypeInv, PauseInv, [Next]_vars PROVE TypeInv' /\ marker' >= marker
<1>0. marker \in Int
    BY DEF TypeInv
<1>1. CASE UNCHANGED vars
    BY <1>0, <1>1 DEF TypeInv, vars, serverVars, socketVars, catchUpVars, readingVars
<1>2. CASE Open \/ OpenFails
    BY <1>2, OpenTyped
<1>3. CASE Join \/ Commit \/ Drop \/ CommitOwn
    BY <1>0, <1>3, ServerTyped
<1>4. CASE Push
    BY <1>4, PushTyped
<1>5. CASE Reconnect \/ \E g \in Generations : Promote(g)
    BY <1>0, <1>5, PromotionsTyped
<1>6. CASE Answer
    BY <1>6, AnswerTyped
<1>7. CASE Send \/ Member
    BY <1>7, ReadingTyped DEF Member
<1>8. CASE \E r \in Requests : PageArrives(r)
    BY <1>8, PageTyped
<1>. QED BY <1>1, <1>2, <1>3, <1>4, <1>5, <1>6, <1>7, <1>8 DEF Next, Network, Outbox

LEMMA TypeInvariant == Spec => [](TypeInv /\ PauseInv)
<1>1. Init => TypeInv /\ PauseInv
    BY TypeInit, PauseInit
<1>2. TypeInv /\ PauseInv /\ [Next]_vars => (TypeInv /\ PauseInv)'
    BY TypeStep, PauseStep
<1>. QED BY <1>1, <1>2, PTL DEF Spec

\* The read position never moves back, whatever order the page learns of messages in
\* (furthest, at every noteArrival and reportScrolledToBottom).
THEOREM ReadPosition == Spec => MarkerForward
<1>1. TypeInv /\ PauseInv /\ [Next]_vars => [marker' >= marker]_vars
    BY TypeStep
<1>. QED BY <1>1, TypeInvariant, PTL DEF Spec, MarkerForward

---------------------------------------------------------------------------
(* One row for each message: what every operation of the window does to    *)
(* messages that have at most one.                                         *)

\* The own message has one pending row, and none before it is composed.
PendingInv ==
    /\ Distinct(window.rows, {Pending})
    /\ own = "none" \/ phase = "loading" => Pending \notin Entries(window.rows)

\* Rows that show no message of O twice, and the pending one only if these rows did.
KeepsSingle(rows, before, O) ==
    /\ Distinct(rows, O)
    /\ Pending \in Entries(rows) => Pending \in Entries(before)

LEMMA Listed ==
    ASSUME NEW c \in Nat, NEW w \in Window(c), NEW O, Distinct(w.rows, O)
    PROVE  Lists(w.rows, Entries(w.rows), O)
BY WindowFields DEF Lists

LEMMA ReceivedSingle ==
    ASSUME NEW c \in Nat, NEW w \in Window(c), NEW O, Distinct(w.rows, O), NEW v,
           NEW lo \in Nat \ {0}, NEW hi \in 0 .. c, Received(v, w, c, lo, hi)
    PROVE  KeepsSingle(v.rows, w.rows, O)
<1> DEFINE T == lo .. hi \ Shown(w)
           S == Entries(w.rows)
<1>1. CASE v.rows = w.rows
    BY <1>1 DEF KeepsSingle
<1>2. CASE v.rows = w.rows \o Ascending(T)
    <2>1. IsFiniteSet(lo .. hi)
        BY FS_Interval
    <2>2. T \in SUBSET Int /\ IsFiniteSet(T)
        BY <2>1, FS_Subset
    <2>3. Lists(Ascending(T), T, O)
        BY <2>2, AscendingLists
    <2>4. Lists(w.rows, S, O)
        BY Listed
    <2>5. Pending \notin T /\ S \cap T \cap O = {}
        BY DEF Shown, Pending
    <2> HIDE DEF S, T
    <2>6. Lists(w.rows \o Ascending(T), S \cup T, O)
        BY <2>3, <2>4, <2>5, JoinedLists
    <2>. QED BY <1>2, <2>5, <2>6 DEF KeepsSingle, Lists, S
<1>. QED BY <1>1, <1>2 DEF Received

LEMMA ReconciledSingle ==
    ASSUME NEW c \in Nat, NEW w \in Window(c), NEW O, Pending \in O, Distinct(w.rows, O), NEW id \in 0 .. c
    PROVE  Distinct(reconcile(w, id).rows, O) /\ Pending \notin Entries(reconcile(w, id).rows)
<1> DEFINE S == Entries(w.rows)
           rows == Reconciled(w, id)
<1>1. reconcile(w, id).rows = rows
    BY ReconcileFits DEF WindowIs
<1>2. Lists(w.rows, S, O)
    BY Listed
<1>3. id \in Int /\ id # Pending
    BY DEF Pending
<1>4. id \in Shown(w) <=> id \in S
    BY <1>3 DEF Shown
<1> HIDE DEF S
<1>5. CASE id \in S
    <2>1. Lists(RemovePending(w.rows), S \ {Pending}, O)
        BY <1>2, RemovedList
    <2>2. rows = RemovePending(w.rows)
        BY <1>4, <1>5 DEF Reconciled
    <2>. QED BY <1>1, <2>1, <2>2 DEF Lists
<1>6. CASE id \notin S /\ Pending \in S
    <2>1. Lists(Replaced(w.rows, id), (S \ {Pending}) \cup {id}, O)
        BY <1>2, <1>3, <1>6, ReplacedList
    <2>2. rows = Replaced(w.rows, id)
        BY <1>4, <1>6 DEF Reconciled, S
    <2>. QED BY <1>1, <1>3, <2>1, <2>2 DEF Lists
<1>7. CASE id \notin S /\ Pending \notin S
    <2>1. Lists(Append(w.rows, id), S \cup {id}, O)
        BY <1>2, <1>3, <1>7, AppendedList
    <2>2. rows = Append(w.rows, id)
        BY <1>4, <1>7 DEF Reconciled, S
    <2>. QED BY <1>1, <1>3, <1>7, <2>1, <2>2 DEF Lists
<1>. QED BY <1>5, <1>6, <1>7

LEMMA PendingSingle ==
    ASSUME NEW c \in Nat, NEW w \in Window(c), NEW O, Distinct(w.rows, O), Pending \notin Entries(w.rows)
    PROVE  Distinct(renderPending(w).rows, O)
<1>1. renderPending(w).rows = Append(w.rows, Pending)
    BY PendingFits DEF WindowIs
<1>2. Lists(w.rows, Entries(w.rows), O)
    BY Listed
<1>3. Pending \in Int
    BY DEF Pending
<1>4. Lists(Append(w.rows, Pending), Entries(w.rows) \cup {Pending}, O)
    BY <1>2, <1>3, AppendedList
<1>. QED BY <1>1, <1>4 DEF Lists

LEMMA FreshSingle ==
    ASSUME NEW c \in Nat, NEW w, Fresh(w, c), NEW O
    PROVE  Distinct(w.rows, O) /\ Pending \notin Entries(w.rows)
<1>1. PICK lo \in Nat \ {0}, mid \in 0 .. c, hi \in 0 .. c :
        \/ w.rows = Span(lo, hi)
        \/ mid < hi /\ w.rows = Span(lo, mid) \o Span(mid + 1, hi)
    BY DEF Fresh
<1>2. lo \in Int /\ mid \in Int /\ hi \in Int /\ mid + 1 \in Int
    OBVIOUS
<1>3. CASE w.rows = Span(lo, hi)
    <2>1. Lists(Span(lo, hi), lo .. hi, O) /\ Pending \notin lo .. hi
        BY <1>2, SpanLists DEF Pending
    <2>. QED BY <1>3, <2>1 DEF Lists
<1>4. CASE w.rows = Span(lo, mid) \o Span(mid + 1, hi)
    <2> DEFINE S == lo .. mid
               T == mid + 1 .. hi
    <2>1. Lists(Span(lo, mid), S, O) /\ Lists(Span(mid + 1, hi), T, O)
        BY <1>2, SpanLists
    <2>2. S \cap T \cap O = {} /\ Pending \notin S \cup T
        BY <1>2 DEF Pending
    <2> HIDE DEF S, T
    <2>3. Lists(Span(lo, mid) \o Span(mid + 1, hi), S \cup T, O)
        BY <2>1, <2>2, JoinedLists
    <2>. QED BY <1>4, <2>2, <2>3 DEF Lists
<1>. QED BY <1>1, <1>3, <1>4

\* A page of history adds no pending row.
LEMMA HistorySingle ==
    ASSUME NEW c \in Nat, NEW w \in Window(c), Distinct(w.rows, {Pending}), NEW rows,
           NEW lo \in Nat \ {0}, NEW hi \in 0 .. c,
           rows = Span(lo, hi) \o w.rows \/ rows = w.rows \o Span(lo, hi)
    PROVE  KeepsSingle(rows, w.rows, {Pending})
<1> DEFINE S == Entries(w.rows)
           T == lo .. hi
<1>1. lo \in Int /\ hi \in Int
    OBVIOUS
<1>2. Lists(Span(lo, hi), T, {Pending}) /\ Lists(w.rows, S, {Pending})
    BY <1>1, SpanLists, Listed
<1>3. Pending \notin T
    BY DEF Pending
<1> HIDE DEF S, T
<1>4. S \cap T \cap {Pending} = {} /\ T \cap S \cap {Pending} = {}
    BY <1>3
<1>5. Lists(Span(lo, hi) \o w.rows, T \cup S, {Pending})
    BY <1>2, <1>4, JoinedLists
<1>6. Lists(w.rows \o Span(lo, hi), S \cup T, {Pending})
    BY <1>2, <1>4, JoinedLists
<1>. QED BY <1>3, <1>5, <1>6 DEF KeepsSingle, Lists, S

\* The page opens: what the outbox has is added to the first page, or to no page.
LEMMA OpenSingle ==
    ASSUME TypeInv, PendingInv, NEW O, Pending \in O, Distinct(window.rows, O), Open \/ OpenFails
    PROVE  Distinct(window'.rows, O) /\ (own' = "none" => Pending \notin Entries(window'.rows))
<1>1. committed \in Nat /\ ownId \in 0 .. committed /\ own' = own /\ phase = "loading"
    BY DEF TypeInv, Open, OpenFails, serverVars
<1>2. \E w \in Window(committed) :
        window' = renderResumedPending(w) /\ Distinct(w.rows, O) /\ Pending \notin Entries(w.rows)
    <2>1. CASE Open
        <3>1. PICK read \in since .. committed, upTo \in since .. committed, near \in BOOLEAN :
                window' = renderResumedPending(loadInitial(read, upTo, near))
            BY <2>1 DEF Open
        <3> DEFINE w == loadInitial(read, upTo, near)
        <3>2. read \in 0 .. committed /\ upTo \in 0 .. committed
            BY DEF TypeInv
        <3>3. Fresh(w, committed)
            BY <3>2, LoadIs
        <3> HIDE DEF w
        <3>4. w \in Window(committed) /\ Distinct(w.rows, O) /\ Pending \notin Entries(w.rows)
            BY <1>1, <3>3, FreshFits, FreshSingle
        <3>. QED BY <3>1, <3>4 DEF w
    <2>2. CASE OpenFails
        BY <1>1, <2>2 DEF OpenFails, TypeInv, PendingInv
    <2>. QED BY <2>1, <2>2
<1>3. PICK w \in Window(committed) :
        window' = renderResumedPending(w) /\ Distinct(w.rows, O) /\ Pending \notin Entries(w.rows)
    BY <1>2
<1>4. Distinct(reconcile(w, ownId).rows, O) /\ Distinct(renderPending(w).rows, O)
    BY <1>1, <1>3, ReconciledSingle, PendingSingle
<1>. QED BY <1>1, <1>3, <1>4 DEF renderResumedPending

\* No step shows a message of O twice, unless it adds a page of history.
LEMMA RowsStep ==
    ASSUME TypeInv, PendingInv, NEW O, Pending \in O, Distinct(window.rows, O), Next,
           HistoryAdded => O = {Pending}
    PROVE  /\ Distinct(window'.rows, O)
           /\ own' = "none" \/ phase' = "loading" => Pending \notin Entries(window'.rows)
<1> DEFINE Goal == /\ Distinct(window'.rows, O)
                   /\ own' = "none" \/ phase' = "loading" => Pending \notin Entries(window'.rows)
<1>1. committed \in Nat /\ window \in Window(committed) /\ ownId \in 0 .. committed
    BY DEF TypeInv
<1>2. own = "none" \/ phase = "loading" => Pending \notin Entries(window.rows)
    BY DEF PendingInv
<1>3. ASSUME window'.rows = window.rows, own' = "none" => own = "none", phase' = "loading" => phase = "loading"
      PROVE  Goal
    BY <1>2, <1>3
<1>4. ASSUME KeepsSingle(window'.rows, window.rows, O), UNCHANGED <<own, phase>> PROVE Goal
    BY <1>2, <1>4 DEF KeepsSingle
<1>5. CASE Open \/ OpenFails
    <2>1. phase' = "joining"
        BY <1>5 DEF Open, OpenFails
    <2>. QED BY <1>5, <2>1, OpenSingle
<1>6. CASE Join \/ Commit \/ Drop \/ Reconnect \/ Send \/ CommitOwn \/ LoadOlder \/ JumpToLatest
    <2>1. window' = window /\ own' \in {own, "posted", "sending"} /\ phase' \in {phase, "ready"}
        BY <1>6 DEF Join, Commit, Drop, Reconnect, Send, CommitOwn, LoadOlder, JumpToLatest,
            readingVars, serverVars
    <2>. QED BY <1>3, <2>1
<1>7. CASE ScrollToBottom
    <2>1. window'.rows = window.rows /\ UNCHANGED <<own, phase>>
        BY <1>1, <1>7, BottomFits DEF ScrollToBottom, WindowIs, serverVars
    <2>. QED BY <1>3, <2>1
<1>8. CASE Push
    <2>1. PICK id \in pushes : id \in 1 .. committed /\ Received(window', window, committed, id, id)
        BY <1>8, PushIs
    <2>2. id \in Nat \ {0} /\ id \in 0 .. committed
        BY <1>1, <2>1
    <2>3. KeepsSingle(window'.rows, window.rows, O)
        BY <1>1, <2>1, <2>2, ReceivedSingle
    <2>. QED BY <1>4, <1>8, <2>3 DEF Push, serverVars
<1>9. ASSUME NEW g \in Generations, Promote(g) PROVE Goal
    <2>1. CASE Merge(g)
        <3> DEFINE lo == MissedLow(promotions[g])
                   hi == promotions[g].upTo
        <3>1. lo \in Nat \ {0} /\ hi \in 0 .. committed /\ Received(window', window, committed, lo, hi)
            BY <2>1, MergeIs
        <3> HIDE DEF lo, hi
        <3>2. KeepsSingle(window'.rows, window.rows, O)
            BY <1>1, <3>1, ReceivedSingle
        <3>. QED BY <1>4, <2>1, <3>2 DEF Merge, serverVars
    <2>2. CASE Subscribe(g) \/ FetchMissed(g) \/ Overtaken(g) \/ GiveUp(g)
        <3>1. UNCHANGED <<window, own, phase>>
            BY <2>2 DEF Subscribe, Subscribed, FetchMissed, Overtaken, GiveUp, Fails, readingVars, serverVars
        <3>. QED BY <1>3, <3>1
    <2>. QED BY <1>9, <2>1, <2>2 DEF Promote
<1>10. CASE Answer
    <2>1. own' = "answered" /\ phase' = phase
        BY <1>10 DEF Answer
    <2>2. CASE phase = "loading"
        BY <1>2, <1>10, <2>1, <2>2 DEF Answer
    <2>3. CASE phase # "loading"
        <3>1. window' = reconcile(window, ownId)
            BY <1>10, <2>3 DEF Answer
        <3>2. Distinct(window'.rows, O)
            BY <1>1, <3>1, ReconciledSingle
        <3>. QED BY <2>1, <2>3, <3>2
    <2>. QED BY <2>2, <2>3
<1>11. CASE Compose
    <2>1. own = "none" /\ phase # "loading" /\ own' = "queued" /\ phase' = phase
          /\ window' = renderPending(window)
        BY <1>11 DEF Compose
    <2>2. Distinct(window'.rows, O)
        BY <1>1, <1>2, <2>1, PendingSingle
    <2>. QED BY <2>1, <2>2
<1>12. ASSUME NEW r \in Requests, PageArrives(r) PROVE Goal
    <2>1. UNCHANGED <<own, phase>> /\ asked' = [asked EXCEPT ![r] = Ended] /\ asked \in [Requests -> Request(committed)]
        BY <1>12 DEF PageArrives, OlderArrives, NewerArrives, LatestArrives, RequestFails, Taken, serverVars, TypeInv
    <2>2. CASE OlderArrives(r) \/ NewerArrives(r)
        <3>1. asked[r].kind \in {"older", "newer"} /\ asked'[r] = Ended
            BY <2>1, <2>2 DEF OlderArrives, NewerArrives, Taken
        <3>2. O = {Pending}
            BY <3>1 DEF HistoryAdded
        <3>3. PICK lo \in Nat \ {0}, hi \in 0 .. committed :
                window'.rows = Span(lo, hi) \o window.rows \/ window'.rows = window.rows \o Span(lo, hi)
            BY <1>12, <2>2, PageIs DEF OlderRows, NewerRows
        <3>4. KeepsSingle(window'.rows, window.rows, O)
            BY <1>1, <3>2, <3>3, HistorySingle
        <3>. QED BY <1>4, <2>1, <3>4
    <2>3. CASE LatestArrives(r)
        <3>1. Fresh(window', committed)
            BY <1>12, <2>3, PageIs
        <3>. QED BY <1>1, <3>1, FreshSingle
    <2>4. CASE RequestFails(r)
        <3>1. window' = window
            BY <2>4 DEF RequestFails
        <3>. QED BY <1>3, <2>1, <3>1
    <2>. QED BY <1>12, <2>2, <2>3, <2>4 DEF PageArrives
<1>. QED BY <1>5, <1>6, <1>7, <1>8, <1>9, <1>10, <1>11, <1>12 DEF Next, Network, Outbox, Member

LEMMA PendingInit == ASSUME Init PROVE PendingInv
<1>1. window.rows = <<>>
    BY DEF Init, EmptyWindow
<1>2. Lists(window.rows, {}, {Pending})
    BY <1>1, EmptyList
<1>. QED BY <1>2 DEF PendingInv, Lists

LEMMA PendingStep == ASSUME TypeInv, PendingInv, [Next]_vars PROVE PendingInv'
<1>1. CASE Next
    <2>1. Pending \in {Pending} /\ Distinct(window.rows, {Pending})
        BY DEF PendingInv
    <2>2. /\ Distinct(window'.rows, {Pending})
          /\ own' = "none" \/ phase' = "loading" => Pending \notin Entries(window'.rows)
        BY <1>1, <2>1, RowsStep
    <2>. QED BY <2>2 DEF PendingInv
<1>2. CASE UNCHANGED vars
    BY <1>2 DEF PendingInv, vars, serverVars, readingVars
<1>. QED BY <1>1, <1>2

LEMMA PendingInvariant == Spec => [](TypeInv /\ PauseInv /\ PendingInv)
<1>1. Init => PendingInv
    BY PendingInit
<1>2. (TypeInv /\ PauseInv) /\ PendingInv /\ [Next]_vars => PendingInv'
    BY PendingStep
<1>. QED BY <1>1, <1>2, TypeInvariant, PTL DEF Spec

\* No push, catch-up, own send, first page or jump gives a message a second row, whatever
\* tells the page of it first and however often it is told (hasRendered, reconcile,
\* receiveRemote); pages of history add no second pending row.
THEOREM OneRowEach == Spec => NoSecondRow
<1> DEFINE Fine == \A id \in Ids \cup {Pending} :
                     Twice(window', id) => Twice(window, id) \/ (id # Pending /\ HistoryAdded)
<1>1. TypeInv /\ PendingInv /\ [Next]_vars => [Fine]_vars
    <2>1. SUFFICES ASSUME TypeInv, PendingInv, Next, NEW id \in Ids \cup {Pending},
                          ~Twice(window, id), id = Pending \/ ~HistoryAdded
                   PROVE  ~Twice(window', id)
        OBVIOUS
    <2>2. PICK O : O = IF HistoryAdded THEN {Pending} ELSE {id, Pending}
        OBVIOUS
    <2>3. Pending \in O /\ id \in O
        BY <2>1, <2>2
    <2>4. Distinct(window.rows, O)
        BY <2>1, <2>2 DEF Distinct, Twice, PendingInv
    <2>5. Distinct(window'.rows, O)
        BY <2>1, <2>2, <2>3, <2>4, RowsStep
    <2>. QED BY <2>3, <2>5 DEF Distinct, Twice
<1>. QED BY <1>1, PendingInvariant, PTL DEF Spec, NoSecondRow
---------------------------------------------------------------------------
(* Nothing is lost between the subscription and the catch-up: what the     *)
(* page is owed is on its way, or in the pages the catch-up has read or    *)
(* will read.                                                              *)

\* What the catch-up from an id brings once the room has upTo messages; a catch-up from
\* no id brings the newest page, and is owed nothing.
Brings(after, upTo) == IF after = NoId THEN {} ELSE after + 1 .. upTo

OnItsWay(g) ==
    CASE promotions[g].step = "asking" -> Brings(promotions[g].after, committed)
      [] promotions[g].step = "answered" -> Brings(promotions[g].after, promotions[g].upTo)
      [] OTHER -> {}

OwedInv ==
    /\ live => \A g \in Generations :
                 Current(g) /\ promotions[g].step \in {"asking", "answered", "merged"} =>
                   owed \subseteq pushes \cup OnItsWay(g)
    /\ phase # "ready" => \A g \in Generations : promotions[g].step = "idle"

\* What is owed after a step is on its way by the push it was, or by a new one.
LEMMA OwedSame ==
    ASSUME OwedInv, UNCHANGED <<generation, promotions, committed>>, phase = phase' \/ phase' = "ready",
           live' => live, live' => owed' \ pushes' \subseteq owed \ pushes
    PROVE  OwedInv'
<1>1. \A g \in Generations : OnItsWay(g)' = OnItsWay(g) /\ (Current(g)' <=> Current(g))
    BY DEF OnItsWay, Current
<1>2. ASSUME live', NEW g \in Generations, Current(g)',
             promotions'[g].step \in {"asking", "answered", "merged"}
      PROVE  owed' \subseteq pushes' \cup OnItsWay(g)'
    <2>1. owed \subseteq pushes \cup OnItsWay(g)
        BY <1>1, <1>2 DEF OwedInv
    <2>. QED BY <1>1, <1>2, <2>1
<1>. QED BY <1>2 DEF OwedInv

\* A message is committed: the subscription publishes what it is owed.
LEMMA OwedGrows ==
    ASSUME TypeInv, OwedInv, UNCHANGED <<generation, promotions, phase, live>>, committed' = committed + 1,
           Publish(committed + 1)
    PROVE  OwedInv'
<1>1. committed \in Nat /\ promotions \in [Generations -> Promotion(committed)]
    BY DEF TypeInv
<1>2. \A g \in Generations : OnItsWay(g) \subseteq OnItsWay(g)' /\ (Current(g)' <=> Current(g))
    <2>1. SUFFICES ASSUME NEW g \in Generations PROVE OnItsWay(g) \subseteq OnItsWay(g)'
        BY DEF Current
    <2>2. promotions[g].after \in Nat
        BY <1>1 DEF Promotion
    <2>. QED BY <1>1, <2>2 DEF OnItsWay, Brings
<1>3. ASSUME live, NEW g \in Generations, Current(g),
             promotions[g].step \in {"asking", "answered", "merged"}
      PROVE  owed' \subseteq pushes' \cup OnItsWay(g)'
    <2>1. owed \subseteq pushes \cup OnItsWay(g)
        BY <1>3 DEF OwedInv
    <2>2. pushes' = pushes \cup {committed + 1} /\ owed' = owed \cup {committed + 1}
        BY <1>3 DEF Publish
    <2>. QED BY <1>2, <2>1, <2>2
<1>. QED BY <1>2, <1>3 DEF OwedInv

\* A promotion moves; the others, none of which is the newest, stay as they are.
LEMMA OwedMoves ==
    ASSUME OwedInv, NEW g \in Generations, NEW step, NEW after, NEW upTo, NEW over,
           promotions = [h \in Generations |-> promotions[h]],
           SetPromotion(g, step, after, upTo, over), UNCHANGED <<generation, committed, phase>>,
           phase = "ready",
           live' /\ Current(g) => owed' \subseteq pushes' \cup OnItsWay(g)',
           ~Current(g) => UNCHANGED <<live, owed, pushes>>
    PROVE  OwedInv'
<1>1. \A h \in Generations : h # g => promotions'[h] = promotions[h]
    BY PromotionSet
<1>2. \A h \in Generations : h # g => OnItsWay(h)' = OnItsWay(h)
    BY <1>1 DEF OnItsWay
<1>3. ASSUME live', NEW h \in Generations, Current(h)',
             promotions'[h].step \in {"asking", "answered", "merged"}
      PROVE  owed' \subseteq pushes' \cup OnItsWay(h)'
    <2>1. CASE h = g
        BY <1>3, <2>1 DEF Current
    <2>2. CASE h # g
        <3>1. ~Current(g) /\ Current(h)
            BY <1>3, <2>2 DEF Current
        <3>2. live /\ promotions[h].step \in {"asking", "answered", "merged"}
            BY <1>1, <1>3, <2>2, <3>1
        <3>3. owed \subseteq pushes \cup OnItsWay(h)
            BY <3>1, <3>2 DEF OwedInv
        <3>. QED BY <1>2, <2>2, <3>1, <3>3
    <2>. QED BY <2>1, <2>2
<1>. QED BY <1>3 DEF OwedInv

LEMMA OwedPromotes ==
    ASSUME TypeInv, PauseInv, OwedInv, NEW g \in Generations, Promote(g) PROVE OwedInv'
<1>1. /\ promotions = [h \in Generations |-> promotions[h]]
      /\ promotions[g] \in Promotion(committed) /\ highest \in Nat /\ committed \in Nat
    BY DEF TypeInv, PauseInv
<1>2. promotions[g].after \in Nat /\ promotions[g].upTo \in Nat
    BY <1>1 DEF Promotion
<1>3. phase = "ready"
    BY DEF OwedInv, Promote, Subscribe, Subscribed, FetchMissed, Merge, Overtaken, GiveUp, Fails
<1>4. CASE Subscribe(g)
    <2>1. /\ SetPromotion(g, "asking", highest, NoId, promotions[g].over)
          /\ Current(g) /\ owed' = Brings(highest, committed)
          /\ UNCHANGED <<generation, committed, phase, pushes>>
        BY <1>4 DEF Subscribe, Subscribed, Brings, serverVars
    <2>2. promotions'[g].step = "asking" /\ promotions'[g].after = highest
        BY <1>1, <2>1, PromotionSet
    <2>3. OnItsWay(g)' = Brings(highest, committed)
        BY <2>1, <2>2 DEF OnItsWay, Brings
    <2>. QED BY <1>1, <1>3, <2>1, <2>3, OwedMoves
<1>5. CASE FetchMissed(g)
    <2>1. /\ SetPromotion(g, "answered", promotions[g].after, committed, promotions[g].over)
          /\ promotions[g].step = "asking"
          /\ UNCHANGED <<generation, committed, phase, live, pushes, owed>>
        BY <1>5 DEF FetchMissed, serverVars, socketVars
    <2>2. /\ promotions'[g].step = "answered" /\ promotions'[g].after = promotions[g].after
          /\ promotions'[g].upTo = committed
        BY <1>1, <2>1, PromotionSet
    <2>3. OnItsWay(g)' = OnItsWay(g)
        BY <2>1, <2>2 DEF OnItsWay, Brings
    <2>4. live' /\ Current(g) => owed' \subseteq pushes' \cup OnItsWay(g)'
        BY <2>1, <2>3 DEF OwedInv
    <2>. QED BY <1>1, <1>3, <2>1, <2>4, OwedMoves
<1>6. CASE Merge(g)
    <2> DEFINE missed == missedMessages(promotions[g])
    <2>1. /\ SetPromotion(g, "merged", NoId, NoId, FALSE)
          /\ Current(g) /\ promotions[g].step = "answered" /\ owed' = owed \ Entries(missed)
          /\ UNCHANGED <<generation, committed, phase, live, pushes>>
        BY <1>6 DEF Merge, End, serverVars, socketVars
    <2>2. OnItsWay(g) \subseteq Entries(missed)
        <3>1. Entries(missed) = MissedLow(promotions[g]) .. promotions[g].upTo
            BY <1>6, MergeIs
        <3>. QED BY <2>1, <3>1 DEF OnItsWay, Brings, MissedLow
    <2> HIDE DEF missed
    <2>3. live' => owed' \subseteq pushes' \cup OnItsWay(g)'
        <3>1. live => owed \subseteq pushes \cup OnItsWay(g)
            BY <2>1 DEF OwedInv
        <3>. QED BY <2>1, <2>2, <3>1
    <2>. QED BY <1>1, <1>3, <2>1, <2>3, OwedMoves
<1>7. CASE Overtaken(g) \/ GiveUp(g)
    <2>1. /\ SetPromotion(g, "ended", NoId, NoId, FALSE)
          /\ UNCHANGED <<generation, committed, phase, live, pushes, owed>>
        BY <1>7 DEF Overtaken, GiveUp, Fails, End, serverVars, socketVars
    <2>2. PICK over \in BOOLEAN : SetPromotion(g, "ended", NoId, NoId, over)
        BY <2>1
    <2>3. \A h \in Generations : h # g => promotions'[h] = promotions[h]
        BY <1>1, <2>2, PromotionSet
    <2>4. promotions'[g].step = "ended"
        BY <1>1, <2>2, PromotionSet
    <2>5. ASSUME live', NEW h \in Generations, Current(h)',
                 promotions'[h].step \in {"asking", "answered", "merged"}
          PROVE  owed' \subseteq pushes' \cup OnItsWay(h)'
        <3>1. h # g /\ promotions'[h] = promotions[h] /\ Current(h)
            BY <2>1, <2>3, <2>5, <2>4 DEF Current
        <3>2. OnItsWay(h)' = OnItsWay(h)
            BY <2>1, <3>1 DEF OnItsWay
        <3>. QED BY <2>1, <2>5, <3>1, <3>2 DEF OwedInv
    <2>. QED BY <1>3, <2>1, <2>5 DEF OwedInv
<1>. QED BY <1>4, <1>5, <1>6, <1>7 DEF Promote

LEMMA OwedStep == ASSUME TypeInv, PauseInv, OwedInv, [Next]_vars PROVE OwedInv'
<1>1. CASE UNCHANGED vars
    BY <1>1, OwedSame DEF vars, serverVars, socketVars, catchUpVars
<1>2. CASE Join
    <2>1. phase # "ready" /\ UNCHANGED <<generation, promotions, committed>> /\ phase' = "ready"
        BY <1>2 DEF Join, serverVars, catchUpVars
    <2>2. \A g \in Generations : promotions'[g].step = "idle"
        BY <2>1 DEF OwedInv
    <2>. QED BY <2>1, <2>2 DEF OwedInv
<1>3. CASE Commit \/ CommitOwn
    BY <1>3, OwedGrows DEF Commit, CommitOwn, catchUpVars
<1>4. CASE Push
    <2>1. PICK id \in pushes : pushes' = pushes \ {id} /\ owed' = owed \ {id}
        BY <1>4 DEF Push
    <2>2. UNCHANGED <<generation, promotions, committed, phase, live>>
        BY <1>4 DEF Push, serverVars
    <2>. QED BY <2>1, <2>2, OwedSame
<1>5. CASE Drop
    BY <1>5, OwedSame DEF Drop, serverVars, catchUpVars
<1>6. CASE Reconnect
    <2>1. ~live /\ live' = live /\ phase = "ready" /\ phase' = phase
        BY <1>6 DEF Reconnect, socketVars
    <2>. QED BY <2>1 DEF OwedInv
<1>7. CASE Open \/ OpenFails
    <2>1. phase = "loading" /\ phase' = "joining"
          /\ UNCHANGED <<generation, promotions, committed, live, pushes, owed>>
        BY <1>7 DEF Open, OpenFails, serverVars, socketVars, catchUpVars
    <2>2. \A g \in Generations : promotions'[g].step = "idle"
        BY <2>1 DEF OwedInv
    <2>. QED BY <2>2 DEF OwedInv
<1>8. CASE Send \/ Answer \/ Member
    <2>1. UNCHANGED <<generation, promotions, committed, phase, live, pushes, owed>>
        BY <1>8 DEF Send, Answer, Member, Compose, LoadOlder, ScrollToBottom, JumpToLatest, serverVars,
            socketVars, catchUpVars
    <2>. QED BY <2>1, OwedSame
<1>9. ASSUME NEW r \in Requests, PageArrives(r) PROVE OwedInv'
    <2>1. UNCHANGED <<generation, promotions, committed, phase, live, pushes, owed>>
        BY <1>9 DEF PageArrives, OlderArrives, NewerArrives, LatestArrives, RequestFails, Taken,
            serverVars, socketVars, catchUpVars
    <2>. QED BY <2>1, OwedSame
<1>. QED BY <1>1, <1>2, <1>3, <1>4, <1>5, <1>6, <1>7, <1>8, <1>9, OwedPromotes DEF Next, Network, Outbox

LEMMA OwedInit == ASSUME Init PROVE OwedInv
BY DEF Init, OwedInv, NoPromotion

\* Once a promotion has merged, and while its subscription lives, every message after the
\* highest id it started from has reached the page or is on its way (promoteSlot subscribes
\* before it asks for what was missed, and asks until a page has nothing newer).
THEOREM NothingLost == Spec => []NothingMissed
<1>1. Init => OwedInv
    BY OwedInit
<1>2. (TypeInv /\ PauseInv) /\ OwedInv /\ [Next]_vars => OwedInv'
    BY OwedStep
<1>3. OwedInv => NothingMissed
    BY DEF OwedInv, NothingMissed, OnItsWay
<1>. QED BY <1>1, <1>2, <1>3, TypeInvariant, PTL DEF Spec
=============================================================================
