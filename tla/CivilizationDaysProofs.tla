------------------------ MODULE CivilizationDaysProofs ------------------------
(***************************************************************************)
(* What is proved of the days of the generated civilization on its stream, *)
(* for any number of jobs, operations, commands and days.                  *)
(***************************************************************************)
EXTENDS CivilizationDays, AuthorityRulesProofs, FiniteSetTheorems

-----------------------------------------------------------------------------
(* Least and largest numbers *)

\* A set of naturals has a least element: the sets of the elements below an
\* element are finite, and strict inclusion of finite sets is well-founded.
LEMMA LeastNumber ==
    ASSUME NEW S \in SUBSET Nat, S # {}
    PROVE  \E m \in S : \A k \in S : m <= k
<1>. DEFINE Below(m) == {k \in S : k < m}
            T == {Below(m) : m \in S}
            F == FiniteSubsetsOf(S)
            R == StrictSubsetOrdering(S)
<1>1. T \subseteq F /\ T # {}
  <2>1. ASSUME NEW m \in S
        PROVE  Below(m) \in F
    <3>1. IsFiniteSet(Below(m))
      BY FS_BoundedSetOfNaturals
    <3>. QED
      BY <3>1 DEF FiniteSubsetsOf
  <2>. QED
    BY <2>1
<1>2. IsWellFoundedOn(R, F)
  BY FS_StrictSubsetOrderingWellFounded
<1>3. PICK t \in T : \A y \in T : ~ (<<y, t>> \in R)
  <2>. HIDE DEF T, R, F
  <2>. QED
    BY <1>1, <1>2, WFMin
<1>4. PICK m \in S : t = Below(m)
  BY <1>3
<1>5. ASSUME NEW k \in S, k < m
      PROVE  FALSE
  <2>1. \A x \in S : x \in Nat
    OBVIOUS
  <2>2. (\A x \in S : x < k => x < m) /\ ~(k < k)
    BY <1>5, <2>1
  <2>3. Below(k) \subseteq Below(m) /\ k \in Below(m) /\ k \notin Below(k)
    BY <1>5, <2>2
  <2>4. <<Below(k), Below(m)>> \in R
    BY <2>3 DEF StrictSubsetOrdering
  <2>. QED
    BY <1>3, <1>4, <2>4
<1>. QED
  BY <1>5

\* A bounded set of naturals has a largest element.
LEMMA LargestNumber ==
    ASSUME NEW S \in SUBSET Nat, S # {}, NEW bound \in Nat, \A k \in S : k <= bound
    PROVE  \E m \in S : \A k \in S : k <= m
<1>. DEFINE Rest == {bound - k : k \in S}
<1>1. \A k \in S : k \in Nat /\ bound - k \in Nat
  OBVIOUS
<1>2. Rest \in SUBSET Nat /\ Rest # {}
  BY <1>1
<1>3. PICK r \in Rest : \A x \in Rest : r <= x
  <2>. HIDE DEF Rest
  <2>. QED
    BY <1>2, LeastNumber
<1>4. PICK m \in S : r = bound - m
  BY <1>3
<1>5. \A k \in S : bound - m <= bound - k
  BY <1>3, <1>4
<1>. QED
  BY <1>1, <1>5

-----------------------------------------------------------------------------
(* The inductive invariant *)

\* What is kept of a stream of days is a function of its events: the days that
\* are lived by its first n events, the last of them, and the hash of them.
DaysOf(s, n) ==
    {0} \cup {d \in 1..LastDay : \E m \in 1..n : LivesDay(s.events[m].eventId, d)}
IsLast(d, S) == d \in S /\ \A c \in S : c <= d
DayOf(s, n) == CHOOSE d \in DaysOf(s, n) : \A c \in DaysOf(s, n) : c <= d
LinksOf(s, n) == [m \in 1..n |-> <<s.events[m].eventId, s.events[m].appendId>>]

\* The boundaries that have been committed.
BoundariesLived(s) == {k \in DayCommands : <<"sponsor", k>> \in DOMAIN s.receipts}

\* A plan begins where the ledger had been through exactly the days before it,
\* and chains to a prefix of the ledger.
IsPlan(p) ==
    /\ p = [operation |-> p.operation, eventHash |-> p.eventHash,
            confirmation |-> p.confirmation]
    /\ p.operation \in Operations \cup {None}
    /\ p.eventHash \in Hash
    /\ p.confirmation \in [from : 0..MaxDay, to : 0..MaxDay, revision : Nat,
                           sequence : Nat, token : Nat]
    /\ p.confirmation.from <= p.confirmation.to
Grounded(s, p) ==
    LET c == p.confirmation
    IN  /\ c.sequence <= s.head.lastSequence
        /\ c.from = DayOf(s, c.sequence)
        /\ Len(p.eventHash) <= c.sequence
        /\ p.eventHash = LinksOf(s, Len(p.eventHash))

\* The first n chapters of a plan are stored, with the bytes of the plan.
Stored(s, p, n) == \A i \in 1..n : IsRetry(s, Chapter(p, i))

\* The rows of the stream of days.
StreamOfDays(s) ==
    /\ IsStream(s)
    /\ ~Known(s) => s = Unborn
    /\ Known(s) => DOMAIN s.snapshots # {}
    /\ DOMAIN s.events = 1..s.head.lastSequence
    /\ \A n \in DOMAIN s.events : /\ s.events[n].eventId \in EventIds
                                  /\ s.events[n].appendId \in AppendIds
    /\ s.head.lastEventHash = LinksOf(s, s.head.lastSequence)
    /\ \A id \in DOMAIN s.snapshots :
          /\ s.snapshots[id].baseSequence \in 0..s.head.lastSequence
          /\ s.snapshots[id].revision \in 0..s.head.revision
          /\ s.snapshots[id].lastEventHash = LinksOf(s, s.snapshots[id].baseSequence)

\* The markers of the operations: one plan for each, and no chapter too many.
IsMarker(s, m) ==
    /\ IsPlan(m.plan) /\ Grounded(s, m.plan)
    /\ m.nextChapter \in 0..TotalChapters(m.plan)
    /\ Stored(s, m.plan, m.nextChapter)
MarkerOf(s, a) == s.receipts[a].request.commandReceipt
MarkersOf(s) ==
    /\ \A a \in DOMAIN s.receipts : a[1] \in {"start", "progress"} => IsMarker(s, MarkerOf(s, a))
    /\ \A op \in Operations, n \in 0..MaxDay :
          Progress(op, n) \in DOMAIN s.receipts =>
             /\ Start(op) \in DOMAIN s.receipts
             /\ MarkerOf(s, Progress(op, n)).plan = MarkerOf(s, Start(op)).plan
             /\ MarkerOf(s, Progress(op, n)).nextChapter = n + 1

\* The days of the ledger, and what is stored under the name of a day.
DaysLived(s) ==
    /\ \A n \in DOMAIN s.events : \A d \in 1..LastDay :
          LivesDay(s.events[n].eventId, d) => DayOf(s, n - 1) = d - 1
    /\ DayOf(s, s.head.lastSequence) <= MaxDay + Cardinality(BoundariesLived(s))
    /\ IsRetry(s, Chapter(GenesisPlan, 1)) =>
          1 \in DOMAIN s.events /\ s.events[1].eventId = Day(1)
    /\ \A d \in 1..LastDay :
          Day(d) \in DOMAIN s.snapshots => DayOf(s, s.snapshots[Day(d)].baseSequence) = d

\* A job of a kind, in a phase, holds what the calls before it left.
Behind(s, h) ==
    /\ h \in AuthorityHead
    /\ h.lastSequence <= s.head.lastSequence
    /\ h.lastEventHash = LinksOf(s, h.lastSequence)
HasRecordedPlan(s, b) ==
    /\ Start(b.op) \in DOMAIN s.receipts
    /\ MarkerOf(s, Start(b.op)).plan = b.plan
CatchesUp(b) ==
    \/ b.kind = "refresh" /\ b.op = GenesisOperation /\ b.plan = GenesisPlan
    \/ b.kind = "return" /\ b.op \in Returns
IsJob(s, b) ==
    /\ b = [kind |-> b.kind, at |-> b.at, op |-> b.op, days |-> b.days, head |-> b.head,
            plan |-> b.plan, next |-> b.next, error |-> b.error]
    /\ b.at \in Ats
    /\ b.op \in Operations \cup Commands \cup {None}
    /\ Behind(s, b.head)
    /\ IsPlan(b.plan) /\ Grounded(s, b.plan)
    /\ b.next \in 0..TotalChapters(b.plan)
DayAfter(s, b) == DayOf(s, b.head.lastSequence) + 1
InPhase(s, b) ==
    /\ b.at \in {"load", "fence"} =>
          \/ b.kind = "day"
          \/ b.kind = "sponsor" /\ b.op \in Commands
          \/ b.kind = "return" /\ b.op \in Returns /\ b.days \in 1..MaxReturnDays
    /\ b.at \in {"load", "fence", "reopen"} => b.next = 0
    /\ b.at = "append" =>
          \/ b.kind = "day" /\ b.days \in 1..MaxDay /\ b.days = DayAfter(s, b)
          \/ /\ b.kind = "sponsor" /\ b.op \in Commands
             /\ b.days = IF b.op \in DayCommands THEN DayAfter(s, b)
                         ELSE DayOf(s, b.head.lastSequence)
    /\ b.at = "reopen" => b.kind = "return" /\ b.op \in Returns /\ Start(b.op) \in DOMAIN s.receipts
    /\ b.at \in {"begin", "start", "chapter", "mark"} => CatchesUp(b)
    /\ b.at \in {"chapter", "mark"} =>
          /\ HasRecordedPlan(s, b)
          /\ b.next < TotalChapters(b.plan)
          /\ Stored(s, b.plan, b.next)
    /\ b.at = "mark" => IsRetry(s, Chapter(b.plan, b.next + 1))
    /\ b.at = "readback" =>
          \/ b.kind = "day" /\ b.days = DayOf(s, b.head.lastSequence)
          \/ b.kind = "return"
    /\ b.at = "save" =>
          \/ b.kind = "refresh" /\ IsRetry(s, Chapter(GenesisPlan, 1))
          \/ b.kind \in {"day", "return"} /\ b.days = DayOf(s, b.head.lastSequence)

\* Between the calls of its jobs the stream is one of days, and every job holds
\* what it read of it.
PendingType == pending \in {None} \cup [op : Returns, to : 2..(LastDay + MaxReturnDays)]

DaysInv ==
    /\ StreamOfDays(stream) /\ MarkersOf(stream) /\ DaysLived(stream)
    /\ job = [j \in Jobs |-> job[j]]
    /\ \A j \in Jobs : IsJob(stream, job[j]) /\ InPhase(stream, job[j])
    /\ PendingType /\ crashes \in 0..MaxCrashes

-----------------------------------------------------------------------------
(* Days of a ledger *)

\* The bounds of the days are numbers.
LEMMA LastDayType ==
    /\ LastDay \in Nat \ {0} /\ MaxDay \in Nat \ {0} /\ MaxDay <= LastDay
    /\ LastDay = MaxDay + Cardinality(DayCommands) /\ Cardinality(DayCommands) \in Nat
BY FS_CardinalityType, DaysAssumption DEF DaysAssumption, LastDay

\* There is one last day among the days of a ledger.
LEMMA LastDayOfLedger ==
    ASSUME NEW s, NEW n
    PROVE  IsLast(DayOf(s, n), DaysOf(s, n)) /\ DayOf(s, n) \in 0..LastDay
<1>1. DaysOf(s, n) \in SUBSET (0..LastDay) /\ 0 \in DaysOf(s, n)
  BY LastDayType DEF DaysOf
<1>. HIDE DEF DaysOf
<1>2. DaysOf(s, n) \in SUBSET Nat /\ DaysOf(s, n) # {} /\ \A d \in DaysOf(s, n) : d <= LastDay
  BY <1>1, LastDayType
<1>3. \E d \in DaysOf(s, n) : \A c \in DaysOf(s, n) : c <= d
  BY <1>2, LastDayType, LargestNumber
<1>4. DayOf(s, n) \in DaysOf(s, n) /\ \A c \in DaysOf(s, n) : c <= DayOf(s, n)
  BY <1>3 DEF DayOf
<1>. QED
  BY <1>1, <1>4 DEF IsLast

\* Whatever is the last of the days is the day of the ledger.
LEMMA DayIsLast ==
    ASSUME NEW s, NEW n, NEW d, IsLast(d, DaysOf(s, n))
    PROVE  DayOf(s, n) = d
<1>1. d \in 0..LastDay
  BY LastDayType DEF IsLast, DaysOf
<1>2. IsLast(DayOf(s, n), DaysOf(s, n)) /\ DayOf(s, n) \in 0..LastDay
  BY LastDayOfLedger
<1>3. d <= DayOf(s, n) /\ DayOf(s, n) <= d
  BY <1>2 DEF IsLast
<1>. QED
  BY <1>1, <1>2, <1>3, LastDayType

\* CompletedDay is the day of the ledger of the stream.
LEMMA CompletedDayIsDay == \A n : CompletedDay(n) = DayOf(stream, n)
BY DEF CompletedDay, DayOf, DaysOf

\* What an id says: a day, a command on a day, or neither.
LEMMA Ids ==
    /\ \A d, e : LivesDay(Day(d), e) <=> e = d
    /\ \A k, d, e : LivesDay(Sponsor(k, d), e) <=> k \in DayCommands /\ e = d
    /\ \A d : Day(d)[1] \notin {"start", "progress"}
    /\ \A k : <<"sponsor", k>>[1] \notin {"start", "progress"}
    /\ \A op, n : Start(op)[1] = "start" /\ Progress(op, n)[1] = "progress"
    /\ \A op, o, n, m : Progress(op, n) = Progress(o, m) => op = o /\ n = m
    /\ \A op, o, n, m : Start(op) # Progress(o, m)
    /\ \A op, o : Start(op) = Start(o) => op = o
<1>1. \A d, e : Day(d) = Day(e) => d = e
  BY DEF Day
<1>2. \A d, k, e : Day(d) # Sponsor(k, e)
  <2>1. \A d, k, e : Day(d)[1] = "day" /\ Sponsor(k, e)[1] = "sponsor"
    BY DEF Day, Sponsor
  <2>. QED
    BY <2>1
<1>3. \A k, d, l, e : Sponsor(k, d) = Sponsor(l, e) => k = l /\ d = e
  BY DEF Sponsor
<1>4. \A d, e : LivesDay(Day(d), e) <=> e = d
  BY <1>1, <1>2 DEF LivesDay
<1>5. \A k, d, e : LivesDay(Sponsor(k, d), e) <=> k \in DayCommands /\ e = d
  BY <1>2, <1>3 DEF LivesDay
<1>6. /\ \A d : Day(d)[1] = "day"
      /\ \A k : <<"sponsor", k>>[1] = "sponsor"
      /\ \A op, n : Start(op)[1] = "start" /\ Progress(op, n)[1] = "progress"
  BY DEF Day, Start, Progress
<1>7. \A op, o, n, m : Progress(op, n) = Progress(o, m) => op = o /\ n = m
  BY DEF Progress
<1>8. \A op, o : Start(op) = Start(o) => op = o
  BY DEF Start
<1>. QED
  BY <1>4, <1>5, <1>6, <1>7, <1>8

\* The day of a ledger depends on the ids of its events.
LEMMA SameDay ==
    ASSUME NEW s, NEW t, NEW n,
           \A m \in 1..n : t.events[m].eventId = s.events[m].eventId
    PROVE  DaysOf(t, n) = DaysOf(s, n) /\ DayOf(t, n) = DayOf(s, n)
<1>1. DaysOf(t, n) = DaysOf(s, n)
  BY DEF DaysOf
<1>. QED
  BY <1>1 DEF DayOf

\* One event that lives the next day, or none, makes it the day of the ledger.
LEMMA NextDay ==
    ASSUME NEW s, NEW t, NEW n \in Nat, NEW id,
           \A m \in 1..n : t.events[m].eventId = s.events[m].eventId,
           t.events[n + 1].eventId = id,
           \A d \in 1..LastDay : LivesDay(id, d) => d = DayOf(s, n) + 1
    PROVE  /\ (\E d \in 1..LastDay : LivesDay(id, d)) => DayOf(t, n + 1) = DayOf(s, n) + 1
           /\ ~(\E d \in 1..LastDay : LivesDay(id, d)) => DayOf(t, n + 1) = DayOf(s, n)
<1>. DEFINE today == DayOf(s, n)
            new == {d \in 1..LastDay : LivesDay(id, d)}
<1>1. DaysOf(t, n + 1) = DaysOf(s, n) \cup new
  <2>1. \A m : m \in 1..(n + 1) <=> m \in 1..n \/ m = n + 1
    OBVIOUS
  <2>2. ASSUME NEW d
        PROVE  (\E m \in 1..(n + 1) : LivesDay(t.events[m].eventId, d))
                  <=> (\E m \in 1..n : LivesDay(s.events[m].eventId, d)) \/ LivesDay(id, d)
    BY <2>1
  <2>. QED
    BY <2>2 DEF DaysOf
<1>2. IsLast(today, DaysOf(s, n)) /\ today \in 0..LastDay
  BY LastDayOfLedger
<1>. HIDE DEF today
<1>3. CASE new = {}
  <2>1. IsLast(today, DaysOf(t, n + 1))
    BY <1>1, <1>2, <1>3
  <2>. QED
    BY <1>3, <2>1, DayIsLast DEF today
<1>4. CASE new # {}
  <2>1. today + 1 \in new /\ \A d \in new : d = today + 1
    BY <1>4 DEF today
  <2>2. \A d \in DaysOf(s, n) : d <= today + 1
    <3>1. \A d \in DaysOf(s, n) : d \in Int /\ d <= today
      BY <1>2, LastDayType DEF IsLast, DaysOf
    <3>. QED
      BY <1>2, <3>1, LastDayType
  <2>3. \A d \in DaysOf(t, n + 1) : d <= today + 1
    <3>. HIDE DEF new
    <3>. QED
      BY <1>1, <1>2, <2>1, <2>2, LastDayType
  <2>4. IsLast(today + 1, DaysOf(t, n + 1))
    BY <1>1, <2>1, <2>3 DEF IsLast
  <2>5. DayOf(t, n + 1) = today + 1
    BY <2>4, DayIsLast
  <2>. QED
    BY <1>4, <2>5 DEF today
<1>. QED
  BY <1>3, <1>4

\* The links of the first events are a hash as long as their number.
LEMMA LinksAreAHash ==
    ASSUME NEW s, NEW n \in Nat,
           \A m \in 1..n : s.events[m].eventId \in EventIds /\ s.events[m].appendId \in AppendIds
    PROVE  LinksOf(s, n) \in Hash /\ Len(LinksOf(s, n)) = n
<1>1. LinksOf(s, n) \in [1..n -> EventIds \X AppendIds]
  BY DEF LinksOf
<1>. QED
  BY <1>1, FunctionIsSeq DEF Hash

-----------------------------------------------------------------------------
(* What a job knows stays true while the stream grows *)

Grows(s, t) ==
    /\ s.head \in AuthorityHead /\ t.head \in AuthorityHead
    /\ s.head.lastSequence <= t.head.lastSequence
    /\ \A n \in 1..s.head.lastSequence : t.events[n] = s.events[n]
    /\ \A a \in DOMAIN s.receipts : a \in DOMAIN t.receipts /\ t.receipts[a] = s.receipts[a]

\* The part of the ledger that was there is what it was.
LEMMA GrownLedger ==
    ASSUME NEW s, NEW t, Grows(s, t), NEW n \in 0..s.head.lastSequence
    PROVE  DayOf(t, n) = DayOf(s, n) /\ LinksOf(t, n) = LinksOf(s, n)
<1>1. \A m \in 1..n : t.events[m] = s.events[m]
  BY DEF Grows, AuthorityHead
<1>2. LinksOf(t, n) = LinksOf(s, n)
  BY <1>1 DEF LinksOf
<1>. QED
  BY <1>1, <1>2, SameDay

\* So heads stay behind, plans grounded, and chapters stored.
LEMMA GrownFacts ==
    ASSUME NEW s, NEW t, Grows(s, t)
    PROVE  /\ \A h : Behind(s, h) => /\ Behind(t, h)
                                     /\ DayOf(t, h.lastSequence) = DayOf(s, h.lastSequence)
           /\ \A p : IsPlan(p) /\ Grounded(s, p) => Grounded(t, p)
           /\ \A r : IsRetry(s, r) => IsRetry(t, r)
           /\ \A p, n : Stored(s, p, n) => Stored(t, p, n)
           /\ \A a \in DOMAIN s.receipts : MarkerOf(t, a) = MarkerOf(s, a)
<1>. DEFINE last == s.head.lastSequence
<1>1. last \in Nat /\ t.head.lastSequence \in Nat /\ last <= t.head.lastSequence
  BY DEF Grows, AuthorityHead
<1>2. ASSUME NEW h, Behind(s, h)
      PROVE  Behind(t, h) /\ DayOf(t, h.lastSequence) = DayOf(s, h.lastSequence)
  <2>1. h.lastSequence \in 0..last
    BY <1>1, <1>2 DEF Behind, AuthorityHead
  <2>2. h.lastSequence <= t.head.lastSequence
    BY <1>1, <2>1
  <2>. QED
    BY <1>2, <2>1, <2>2, GrownLedger DEF Behind
<1>3. ASSUME NEW p, IsPlan(p), Grounded(s, p)
      PROVE  Grounded(t, p)
  <2>. DEFINE c == p.confirmation
              n == Len(p.eventHash)
  <2>1. c.sequence \in Nat /\ n \in Nat
    BY <1>3, LenProperties DEF IsPlan, Hash
  <2>2. c.sequence <= last /\ n <= c.sequence
    BY <1>3 DEF Grounded
  <2>3. c.sequence \in 0..last /\ n \in 0..last /\ c.sequence <= t.head.lastSequence
    BY <1>1, <2>1, <2>2
  <2>4. DayOf(t, c.sequence) = DayOf(s, c.sequence) /\ LinksOf(t, n) = LinksOf(s, n)
    BY <2>3, GrownLedger
  <2>. QED
    BY <1>3, <2>2, <2>3, <2>4 DEF Grounded
<1>4. \A r : IsRetry(s, r) => IsRetry(t, r)
  BY DEF IsRetry, Grows
<1>5. \A p, n : Stored(s, p, n) => Stored(t, p, n)
  BY <1>4 DEF Stored
<1>6. \A a \in DOMAIN s.receipts : MarkerOf(t, a) = MarkerOf(s, a)
  BY DEF MarkerOf, Grows
<1>. QED
  BY <1>2, <1>3, <1>4, <1>5, <1>6

\* A job that does nothing is where it was.
LEMMA JobKept ==
    ASSUME NEW s, NEW t, Grows(s, t), NEW b, IsJob(s, b), InPhase(s, b)
    PROVE  IsJob(t, b) /\ InPhase(t, b)
<1>1. /\ Behind(t, b.head)
      /\ DayOf(t, b.head.lastSequence) = DayOf(s, b.head.lastSequence)
      /\ Grounded(t, b.plan)
  BY GrownFacts DEF IsJob
<1>2. IsJob(t, b)
  BY <1>1 DEF IsJob
<1>3. HasRecordedPlan(s, b) => HasRecordedPlan(t, b)
  BY GrownFacts DEF HasRecordedPlan, Grows
<1>4. Start(b.op) \in DOMAIN s.receipts => Start(b.op) \in DOMAIN t.receipts
  BY DEF Grows
<1>5. DayAfter(t, b) = DayAfter(s, b)
  BY <1>1 DEF DayAfter
<1>6. /\ \A r : IsRetry(s, r) => IsRetry(t, r)
      /\ \A p, n : Stored(s, p, n) => Stored(t, p, n)
  BY GrownFacts
<1>. QED
  BY <1>1, <1>2, <1>3, <1>4, <1>5, <1>6 DEF InPhase

\* The markers that were there still tell the truth.
LEMMA MarkerKept ==
    ASSUME NEW s, NEW t, Grows(s, t), NEW a \in DOMAIN s.receipts, IsMarker(s, MarkerOf(s, a))
    PROVE  IsMarker(t, MarkerOf(t, a))
BY SMTT(40), GrownFacts DEF IsMarker

-----------------------------------------------------------------------------
(* What the calls of the jobs leave of the stream *)

\* An accepted batch of one event: the event behind the ledger, its receipt
\* under an id that was free, and a head that has moved by one.
LEMMA OneEvent ==
    ASSUME NEW s, StreamOfDays(s), NEW h \in AuthorityHead,
           NEW a \in AppendIds \cap BatchIds, NEW e \in EventIds,
           NEW r, r = BuildAppend(h, a, a, <<e>>), MayAppend(s, r),
           NEW t, t = Appended(s, r)
    PROVE  LET n == s.head.lastSequence
           IN  /\ n \in Nat /\ h.lastSequence = n /\ h.revision = s.head.revision
               /\ h.lastEventHash = s.head.lastEventHash
               /\ IsStream(t) /\ t.head.lastSequence = n + 1 /\ t.genesis = s.genesis
               /\ t.head.revision = s.head.revision + 1 /\ t.snapshots = s.snapshots
               /\ t.head.lastEventHash = Append(s.head.lastEventHash, <<e, a>>)
               /\ DOMAIN t.events = 1..(n + 1)
               /\ \A m \in 1..n : t.events[m] = s.events[m]
               /\ t.events[n + 1].eventId = e /\ t.events[n + 1].appendId = a
               /\ a \notin DOMAIN s.receipts
               /\ DOMAIN t.receipts = DOMAIN s.receipts \cup {a}
               /\ \A x \in DOMAIN s.receipts : t.receipts[x] = s.receipts[x]
               /\ t.receipts[a].request = r
<1>. DEFINE n == s.head.lastSequence
            ids == <<e>>
            ev == r.events[1]
<1>1. IsStream(s) /\ s.head \in AuthorityHead /\ n \in Nat
  BY DEF StreamOfDays, IsStream, AuthorityHead
<1>2. ids \in IdBatches /\ Len(ids) = 1 /\ ids[1] = e
  <2>1. ids \in [1..1 -> EventIds]
    OBVIOUS
  <2>2. 1 \in 1..MaxEventsPerBatch
    BY RulesAssumption DEF RulesAssumption
  <2>. QED
    BY <2>1, <2>2 DEF IdBatches
<1>. HIDE DEF ids
<1>3. r = BuildAppend(h, a, a, ids)
  BY DEF ids
<1>4. /\ Len(r.events) = 1 /\ ev \in Event
      /\ ev.sequence = h.lastSequence + 1 /\ ev.eventId = e /\ ev.appendId = a
  BY <1>2, <1>3, BuildEventsProperties DEF BuildAppend
<1>5. /\ h.lastSequence = n /\ h.revision = s.head.revision
      /\ h.lastEventHash = s.head.lastEventHash /\ h.fencingToken = s.head.fencingToken
      /\ r.appendId = a /\ r.expectedLastSequence = n
  BY <1>3 DEF MayAppend, AddressesHead, BuildAppend
<1>6. a \notin DOMAIN s.receipts /\ ev.previousEventHash = s.head.lastEventHash
  BY <1>4, <1>5 DEF MayAppend, Continues
<1>7. t = [genesis |-> s.genesis, head |-> HeadAfter(s, r), events |-> WithEvents(s.events, r),
           receipts |-> Put(s.receipts, a, AppendReceipt(s, r)), snapshots |-> s.snapshots]
  BY <1>5 DEF Appended
<1>8. HeadAfter(s, r) = [revision |-> s.head.revision + 1, lastSequence |-> n + 1,
                         simulationTime |-> TimeOf[e],
                         lastEventHash |-> Append(s.head.lastEventHash, <<e, a>>),
                         fencingToken |-> s.head.fencingToken]
  BY <1>4, <1>5, <1>6 DEF HeadAfter, EventHash
<1>9. HeadAfter(s, r) \in AuthorityHead
  BY <1>1, <1>2, <1>3, HeadAfterType
<1>10. IsStream(t)
  BY <1>1, <1>7, <1>8, <1>9 DEF IsStream
<1>11. /\ DOMAIN WithEvents(s.events, r) = 1..(n + 1)
       /\ \A m \in 1..n : WithEvents(s.events, r)[m] = s.events[m]
       /\ WithEvents(s.events, r)[n + 1] = ev
  <2>1. (n + 1)..(n + 1) = {n + 1} /\ 1..(n + 1) = 1..n \cup {n + 1} /\ n + 1 \notin 1..n
    BY <1>1
  <2>2. DOMAIN s.events = 1..n
    BY DEF StreamOfDays
  <2>3. WithEvents(s.events, r) = [m \in 1..(n + 1) |-> IF m \in {n + 1} THEN r.events[m - n]
                                                        ELSE s.events[m]]
    BY <1>4, <1>5, <2>1, <2>2 DEF WithEvents
  <2>4. (n + 1) - n = 1
    BY <1>1
  <2>. QED
    BY <2>1, <2>3, <2>4
<1>12. /\ DOMAIN t.receipts = DOMAIN s.receipts \cup {a}
       /\ \A x \in DOMAIN s.receipts : t.receipts[x] = s.receipts[x]
       /\ t.receipts[a].request = r
  BY <1>6, <1>7 DEF Put, AppendReceipt
<1>. QED
  BY SMTT(60), <1>1, <1>4, <1>5, <1>6, <1>7, <1>8, <1>10, <1>11, <1>12

\* It is the stream of days, one event longer.
LEMMA OneEventGrows ==
    ASSUME NEW s, StreamOfDays(s), NEW h \in AuthorityHead,
           NEW a \in AppendIds \cap BatchIds, NEW e \in EventIds,
           MayAppend(s, BuildAppend(h, a, a, <<e>>)),
           NEW t, t = Appended(s, BuildAppend(h, a, a, <<e>>))
    PROVE  StreamOfDays(t) /\ Grows(s, t)
<1>. DEFINE n == s.head.lastSequence
            r == BuildAppend(h, a, a, <<e>>)
<1>1. /\ n \in Nat
      /\ IsStream(t) /\ t.head.lastSequence = n + 1 /\ t.genesis = s.genesis
      /\ t.head.revision = s.head.revision + 1 /\ t.snapshots = s.snapshots
      /\ t.head.lastEventHash = Append(s.head.lastEventHash, <<e, a>>)
      /\ DOMAIN t.events = 1..(n + 1)
      /\ \A m \in 1..n : t.events[m] = s.events[m]
      /\ t.events[n + 1].eventId = e /\ t.events[n + 1].appendId = a
      /\ DOMAIN t.receipts = DOMAIN s.receipts \cup {a}
      /\ \A x \in DOMAIN s.receipts : t.receipts[x] = s.receipts[x]
  <2>. HIDE DEF r
  <2>1. r = BuildAppend(h, a, a, <<e>>) /\ MayAppend(s, r) /\ t = Appended(s, r)
    BY DEF r
  <2>. QED
    BY SMTT(60), <2>1, OneEvent
<1>2. s.head \in AuthorityHead /\ t.head \in AuthorityHead /\ s.head.revision \in Nat
  BY <1>1 DEF StreamOfDays, IsStream, AuthorityHead
<1>3. Grows(s, t)
  BY SMTT(40), <1>1, <1>2 DEF Grows
<1>4. \A m \in 1..n : s.events[m].eventId \in EventIds /\ s.events[m].appendId \in AppendIds
  BY DEF StreamOfDays
<1>5. Known(s) /\ Known(t) /\ DOMAIN t.snapshots # {}
  BY <1>1 DEF MayAppend, Known, StreamOfDays
<1>6. \A m \in 1..(n + 1) : t.events[m].eventId \in EventIds /\ t.events[m].appendId \in AppendIds
  <2>1. \A m \in 1..(n + 1) : m \in 1..n \/ m = n + 1
    BY <1>1
  <2>. QED
    BY <1>1, <1>4, <2>1
<1>7. t.head.lastEventHash = LinksOf(t, n + 1)
  <2>. DEFINE old == LinksOf(s, n)
              new == LinksOf(t, n + 1)
              longer == Append(old, <<e, a>>)
  <2>1. old \in Seq(EventIds \X AppendIds) /\ Len(old) = n
    BY <1>1, <1>4, LinksAreAHash DEF Hash
  <2>2. new \in Seq(EventIds \X AppendIds) /\ Len(new) = n + 1
    <3>1. n + 1 \in Nat
      BY <1>1
    <3>. QED
      BY <1>6, <3>1, LinksAreAHash DEF Hash
  <2>3. /\ \A m \in 1..n : old[m] = <<s.events[m].eventId, s.events[m].appendId>>
        /\ \A m \in 1..(n + 1) : new[m] = <<t.events[m].eventId, t.events[m].appendId>>
    BY DEF LinksOf
  <2>4. /\ longer \in Seq(EventIds \X AppendIds) /\ Len(longer) = n + 1
        /\ \A m \in 1..n : longer[m] = old[m]
        /\ longer[n + 1] = <<e, a>>
    <3>. HIDE DEF old
    <3>. QED
      BY <2>1, AppendProperties
  <2>. HIDE DEF old, new, longer
  <2>5. ASSUME NEW m \in 1..(n + 1)
        PROVE  longer[m] = new[m]
    <3>1. CASE m \in 1..n
      <4>1. longer[m] = <<s.events[m].eventId, s.events[m].appendId>>
        BY <2>3, <2>4, <3>1
      <4>2. t.events[m] = s.events[m]
        BY <1>1, <3>1
      <4>. QED
        BY <2>3, <4>1, <4>2
    <3>2. CASE m = n + 1
      BY <1>1, <2>3, <2>4, <3>2
    <3>. QED
      BY <1>1, <3>1, <3>2
  <2>6. longer = new
    BY <2>2, <2>4, <2>5, SeqEqual
  <2>. QED
    BY <1>1, <2>6 DEF longer, old, new, StreamOfDays
<1>8. ASSUME NEW id \in DOMAIN t.snapshots
      PROVE  /\ t.snapshots[id].baseSequence \in 0..t.head.lastSequence
             /\ t.snapshots[id].revision \in 0..t.head.revision
             /\ t.snapshots[id].lastEventHash = LinksOf(t, t.snapshots[id].baseSequence)
  <2>1. /\ s.snapshots[id].baseSequence \in 0..n
        /\ s.snapshots[id].revision \in 0..s.head.revision
        /\ s.snapshots[id].lastEventHash = LinksOf(s, s.snapshots[id].baseSequence)
    BY <1>1 DEF StreamOfDays
  <2>. QED
    BY SMTT(60), <1>1, <1>2, <1>3, <2>1, GrownLedger
<1>. QED
  BY <1>1, <1>3, <1>5, <1>6, <1>7, <1>8 DEF StreamOfDays

\* A batch that lives the next day, or no day, leaves a ledger whose days are
\* in order; and it is not a marker.
LEMMA OneEventDays ==
    ASSUME NEW s, StreamOfDays(s), MarkersOf(s), DaysLived(s), NEW h \in AuthorityHead,
           NEW a \in AppendIds \cap BatchIds, NEW e \in EventIds,
           MayAppend(s, BuildAppend(h, a, a, <<e>>)),
           NEW t, t = Appended(s, BuildAppend(h, a, a, <<e>>)),
           a[1] \notin {"start", "progress"},
           \A d \in 1..LastDay : LivesDay(e, d) => d = DayOf(s, s.head.lastSequence) + 1,
           (\E d \in 1..LastDay : LivesDay(e, d))
              => DayOf(s, s.head.lastSequence) + 1 <= MaxDay + Cardinality(BoundariesLived(t))
    PROVE  /\ MarkersOf(t) /\ DaysLived(t)
           /\ DayOf(t, t.head.lastSequence) = IF \E d \in 1..LastDay : LivesDay(e, d)
                                              THEN DayOf(s, s.head.lastSequence) + 1
                                              ELSE DayOf(s, s.head.lastSequence)
<1>. DEFINE n == s.head.lastSequence
            r == BuildAppend(h, a, a, <<e>>)
            today == DayOf(s, n)
            tomorrow == DayOf(t, n + 1)
<1>1. /\ n \in Nat /\ h.lastSequence = n
      /\ t.head.lastSequence = n + 1 /\ t.snapshots = s.snapshots
      /\ DOMAIN t.events = 1..(n + 1)
      /\ \A m \in 1..n : t.events[m] = s.events[m]
      /\ t.events[n + 1].eventId = e
      /\ a \notin DOMAIN s.receipts
      /\ DOMAIN t.receipts = DOMAIN s.receipts \cup {a}
      /\ t.receipts[a].request = r
      /\ \A x \in DOMAIN s.receipts : t.receipts[x] = s.receipts[x]
  <2>. HIDE DEF r
  <2>1. r = BuildAppend(h, a, a, <<e>>) /\ MayAppend(s, r) /\ t = Appended(s, r)
    BY DEF r
  <2>. QED
    BY <2>1, OneEvent
<1>2. Grows(s, t) /\ DOMAIN s.events = 1..n
  BY OneEventGrows DEF StreamOfDays
<1>3. tomorrow = IF \E d \in 1..LastDay : LivesDay(e, d) THEN today + 1 ELSE today
  <2>1. \A m \in 1..n : t.events[m].eventId = s.events[m].eventId
    BY <1>1
  <2>2. \A d \in 1..LastDay : LivesDay(e, d) => d = DayOf(s, n) + 1
    OBVIOUS
  <2>3. n \in Nat /\ t.events[n + 1].eventId = e
    BY <1>1
  <2>. HIDE DEF n
  <2>4. /\ (\E d \in 1..LastDay : LivesDay(e, d)) => DayOf(t, n + 1) = DayOf(s, n) + 1
        /\ ~(\E d \in 1..LastDay : LivesDay(e, d)) => DayOf(t, n + 1) = DayOf(s, n)
    BY <2>1, <2>2, <2>3, NextDay
  <2>. QED
    BY <2>4
<1>4. MarkersOf(t)
  <2>1. ASSUME NEW x \in DOMAIN t.receipts, x[1] \in {"start", "progress"}
        PROVE  x \in DOMAIN s.receipts
    BY <1>1, <2>1
  <2>2. \A x \in DOMAIN t.receipts : x[1] \in {"start", "progress"} => IsMarker(t, MarkerOf(t, x))
    BY <1>2, <2>1, MarkerKept DEF MarkersOf
  <2>3. ASSUME NEW op \in Operations, NEW i \in 0..MaxDay, Progress(op, i) \in DOMAIN t.receipts
        PROVE  /\ Start(op) \in DOMAIN t.receipts
               /\ MarkerOf(t, Progress(op, i)).plan = MarkerOf(t, Start(op)).plan
               /\ MarkerOf(t, Progress(op, i)).nextChapter = i + 1
    <3>1. Progress(op, i) \in DOMAIN s.receipts
      BY <2>1, <2>3, Ids
    <3>. QED
      BY <1>1, <1>2, <3>1, GrownFacts DEF MarkersOf
  <2>. QED
    BY <2>2, <2>3 DEF MarkersOf
<1>5. ASSUME NEW m \in DOMAIN t.events, NEW d \in 1..LastDay, LivesDay(t.events[m].eventId, d)
      PROVE  DayOf(t, m - 1) = d - 1
  <2>1. m \in 1..n \/ m = n + 1
    BY <1>1
  <2>2. DayOf(t, m - 1) = DayOf(s, m - 1)
    <3>1. m - 1 \in 0..n
      BY <1>1, <2>1
    <3>. QED
      BY <1>2, <3>1, GrownLedger
  <2>3. CASE m \in 1..n
    BY <1>1, <1>2, <1>5, <2>2, <2>3 DEF DaysLived
  <2>4. CASE m = n + 1
    <3>1. d = today + 1 /\ m - 1 = n
      BY <1>1, <1>5, <2>4
    <3>2. today \in 0..LastDay
      BY LastDayOfLedger
    <3>. QED
      BY <2>2, <3>1, <3>2, LastDayType
  <2>. QED
    BY <2>1, <2>3, <2>4
<1>6. tomorrow <= MaxDay + Cardinality(BoundariesLived(t))
  <2>1. BoundariesLived(s) \subseteq BoundariesLived(t)
    BY <1>1 DEF BoundariesLived
  <2>2. IsFiniteSet(BoundariesLived(t))
    BY FS_Subset, DaysAssumption DEF DaysAssumption, BoundariesLived
  <2>3. /\ Cardinality(BoundariesLived(s)) <= Cardinality(BoundariesLived(t))
        /\ Cardinality(BoundariesLived(s)) \in Nat /\ Cardinality(BoundariesLived(t)) \in Nat
    BY <2>1, <2>2, FS_Subset, FS_CardinalityType
  <2>4. today <= MaxDay + Cardinality(BoundariesLived(s)) /\ today \in Int
    BY LastDayOfLedger DEF DaysLived
  <2>. HIDE DEF tomorrow, today
  <2>. QED
    BY <1>3, <2>3, <2>4, LastDayType DEF today
<1>7. IsRetry(t, Chapter(GenesisPlan, 1)) => 1 \in DOMAIN t.events /\ t.events[1].eventId = Day(1)
  <2>. DEFINE c == Chapter(GenesisPlan, 1)
  <2>1. c = BuildAppend(PlanHead(GenesisPlan, 1), Day(1), Day(1), <<Day(1)>>)
        /\ c.appendId = Day(1) /\ PlanHead(GenesisPlan, 1).lastSequence = 0
    BY DEF Chapter, DayRequest, GenesisPlan, Plan, PlanHead, GenesisHead, BuildAppend
  <2>2. c.expectedLastSequence = 0 /\ r.expectedLastSequence = n
    BY <1>1, <2>1 DEF BuildAppend
  <2>3. c.events[1].eventId = Day(1) /\ r.events[1].eventId = e
    BY <2>1 DEF BuildAppend, BuildEvents
  <2>. SUFFICES ASSUME IsRetry(t, c)
                PROVE  1 \in DOMAIN t.events /\ t.events[1].eventId = Day(1)
    OBVIOUS
  <2>. HIDE DEF c, r
  <2>4. CASE c.appendId = a
    <3>1. c = r
      BY <1>1, <2>4 DEF IsRetry
    <3>. QED
      BY <1>1, <2>2, <2>3, <3>1
  <2>5. CASE c.appendId # a
    <3>1. IsRetry(s, c)
      BY <1>1, <2>5 DEF IsRetry
    <3>2. 1 \in 1..n /\ s.events[1].eventId = Day(1)
      BY <1>2, <3>1 DEF DaysLived, c
    <3>. QED
      BY <1>1, <3>2
  <2>. QED
    BY <2>4, <2>5
<1>8. ASSUME NEW d \in 1..LastDay, Day(d) \in DOMAIN t.snapshots
      PROVE  DayOf(t, t.snapshots[Day(d)].baseSequence) = d
  BY <1>1, <1>2, <1>8, GrownLedger DEF DaysLived, StreamOfDays
<1>. QED
  BY <1>1, <1>3, <1>4, <1>5, <1>6, <1>7, <1>8 DEF DaysLived

\* A stream with the same ledger has the same days.
LEMMA SameLedger ==
    ASSUME NEW s, StreamOfDays(s), NEW t, IsStream(t), t.genesis = s.genesis,
           t.events = s.events, t.snapshots = s.snapshots,
           t.head.lastSequence = s.head.lastSequence, t.head.revision = s.head.revision,
           t.head.lastEventHash = s.head.lastEventHash,
           \A a \in DOMAIN s.receipts : a \in DOMAIN t.receipts /\ t.receipts[a] = s.receipts[a],
           Known(s)
    PROVE  /\ StreamOfDays(t) /\ Grows(s, t)
           /\ \A n : DayOf(t, n) = DayOf(s, n)
<1>1. \A n : DayOf(t, n) = DayOf(s, n) /\ LinksOf(t, n) = LinksOf(s, n)
  BY SameDay DEF LinksOf
<1>2. s.head \in AuthorityHead /\ t.head \in AuthorityHead
  BY DEF StreamOfDays, IsStream
<1>3. Grows(s, t)
  BY <1>2 DEF Grows, AuthorityHead
<1>4. StreamOfDays(t)
  BY ZenonT(60), <1>1 DEF StreamOfDays, Known
<1>. QED
  BY <1>1, <1>3, <1>4

\* A recorded refusal leaves the ledger alone; when it is a marker, it is one
\* that tells the truth, and one that belongs to the plan of its operation.
LEMMA RejectionDays ==
    ASSUME NEW s, StreamOfDays(s), MarkersOf(s), DaysLived(s),
           NEW h \in AuthorityHead, NEW a \in AppendIds, NEW record,
           MayReject(s, BuildRejection(h, a, record)),
           NEW t, t = Rejected(s, BuildRejection(h, a, record)),
           a[1] \in {"start", "progress"} => IsMarker(s, record),
           \A op \in Operations, n \in 0..MaxDay : a = Progress(op, n) =>
              /\ Start(op) \in DOMAIN s.receipts
              /\ record.plan = MarkerOf(s, Start(op)).plan
              /\ record.nextChapter = n + 1
    PROVE  /\ StreamOfDays(t) /\ Grows(s, t) /\ MarkersOf(t) /\ DaysLived(t)
           /\ a \in DOMAIN t.receipts /\ MarkerOf(t, a) = record /\ t.head = s.head
<1>. DEFINE r == BuildRejection(h, a, record)
<1>1. r.appendId = a /\ r.commandReceipt = record /\ r.kind = "rejection"
  BY DEF BuildRejection
<1>. HIDE DEF r
<1>2. a \notin DOMAIN s.receipts /\ Known(s)
  BY <1>1 DEF MayReject, r
<1>3. t = [genesis |-> s.genesis, head |-> s.head, events |-> s.events,
           receipts |-> Put(s.receipts, a, RejectionReceipt(s, r)), snapshots |-> s.snapshots]
  BY <1>1 DEF Rejected, r, StreamOfDays, IsStream
<1>4. /\ DOMAIN t.receipts = DOMAIN s.receipts \cup {a}
      /\ \A x \in DOMAIN s.receipts : t.receipts[x] = s.receipts[x]
      /\ t.receipts[a].request = r
  BY <1>2, <1>3 DEF Put, RejectionReceipt
<1>5. IsStream(t)
  BY <1>3 DEF IsStream, StreamOfDays
<1>6. StreamOfDays(t) /\ Grows(s, t) /\ \A n : DayOf(t, n) = DayOf(s, n)
  BY <1>2, <1>3, <1>4, <1>5, SameLedger
<1>7. MarkerOf(t, a) = record /\ \A x \in DOMAIN s.receipts : MarkerOf(t, x) = MarkerOf(s, x)
  BY <1>1, <1>4 DEF MarkerOf
<1>8. MarkersOf(t)
  <2>1. ASSUME NEW x \in DOMAIN t.receipts, x[1] \in {"start", "progress"}
        PROVE  IsMarker(t, MarkerOf(t, x))
    <3>1. CASE x = a
      BY <1>6, <1>7, <2>1, <3>1, GrownFacts DEF IsMarker
    <3>2. CASE x # a
      BY <1>4, <1>6, <2>1, <3>2, MarkerKept DEF MarkersOf
    <3>. QED
      BY <3>1, <3>2
  <2>2. ASSUME NEW op \in Operations, NEW i \in 0..MaxDay, Progress(op, i) \in DOMAIN t.receipts
        PROVE  /\ Start(op) \in DOMAIN t.receipts
               /\ MarkerOf(t, Progress(op, i)).plan = MarkerOf(t, Start(op)).plan
               /\ MarkerOf(t, Progress(op, i)).nextChapter = i + 1
    <3>1. CASE Progress(op, i) = a
      BY <1>4, <1>7, <3>1
    <3>2. CASE Progress(op, i) \in DOMAIN s.receipts
      BY <1>4, <1>7, <3>2 DEF MarkersOf
    <3>. QED
      BY <1>4, <2>2, <3>1, <3>2
  <2>. QED
    BY <2>1, <2>2 DEF MarkersOf
<1>9. DaysLived(t)
  <2>1. BoundariesLived(s) \subseteq BoundariesLived(t)
    BY <1>4 DEF BoundariesLived
  <2>2. IsFiniteSet(BoundariesLived(t))
    BY FS_Subset, DaysAssumption DEF DaysAssumption, BoundariesLived
  <2>3. /\ Cardinality(BoundariesLived(s)) <= Cardinality(BoundariesLived(t))
        /\ Cardinality(BoundariesLived(s)) \in Nat /\ Cardinality(BoundariesLived(t)) \in Nat
    BY <2>1, <2>2, FS_Subset, FS_CardinalityType
  <2>4. DayOf(t, t.head.lastSequence) <= MaxDay + Cardinality(BoundariesLived(t))
    <3>1. DayOf(s, s.head.lastSequence) <= MaxDay + Cardinality(BoundariesLived(s))
          /\ DayOf(s, s.head.lastSequence) \in Int
      BY LastDayOfLedger DEF DaysLived
    <3>2. DayOf(t, t.head.lastSequence) = DayOf(s, s.head.lastSequence)
      BY <1>3, <1>6
    <3>. QED
      BY <2>3, <3>1, <3>2, LastDayType
  <2>5. IsRetry(t, Chapter(GenesisPlan, 1)) => IsRetry(s, Chapter(GenesisPlan, 1))
    <3>1. Chapter(GenesisPlan, 1).kind = "append"
      BY DEF Chapter, DayRequest, BuildAppend
    <3>. QED
      BY <1>1, <1>4, <3>1 DEF IsRetry
  <2>. QED
    BY <1>3, <1>6, <2>4, <2>5 DEF DaysLived
<1>. QED
  BY <1>3, <1>4, <1>6, <1>7, <1>8, <1>9

\* So does a new fence.
LEMMA FenceDays ==
    ASSUME NEW s, StreamOfDays(s), MarkersOf(s), DaysLived(s), NEW r, MayFence(s, r),
           NEW t, t = Fenced(s, r)
    PROVE  /\ StreamOfDays(t) /\ Grows(s, t) /\ MarkersOf(t) /\ DaysLived(t)
           /\ Behind(t, t.head) /\ t.receipts = s.receipts
<1>. DEFINE head == HeadFenced(s.head, s.head.fencingToken)
<1>1. t = [genesis |-> s.genesis, head |-> head, events |-> s.events,
           receipts |-> s.receipts, snapshots |-> s.snapshots]
  BY DEF Fenced, MayFence, StreamOfDays, IsStream
<1>2. /\ head.lastSequence = s.head.lastSequence /\ head.revision = s.head.revision
      /\ head.lastEventHash = s.head.lastEventHash
  BY FenceKeepsHead DEF StreamOfDays, IsStream
<1>3. IsStream(t)
  <2>. DEFINE f == [kind |-> "fence", expectedFencingToken |-> s.head.fencingToken]
  <2>1. MayFence(s, f) /\ t = Fenced(s, f)
    BY <1>1 DEF MayFence, Fenced
  <2>2. PortCall(s, f, t)
    BY <2>1 DEF PortCall
  <2>. HIDE DEF f
  <2>. QED
    BY <2>2, PortCallType DEF StreamOfDays
<1>. HIDE DEF head
<1>4. Known(s)
  BY DEF MayFence
<1>5. StreamOfDays(t) /\ Grows(s, t) /\ \A n : DayOf(t, n) = DayOf(s, n)
  BY <1>1, <1>2, <1>3, <1>4, SameLedger
<1>6. MarkersOf(t)
  BY <1>1, <1>5, MarkerKept, GrownFacts DEF MarkersOf
<1>7. DaysLived(t)
  <2>1. BoundariesLived(t) = BoundariesLived(s) /\ \A r0 : IsRetry(t, r0) <=> IsRetry(s, r0)
    BY <1>1 DEF BoundariesLived, IsRetry
  <2>. QED
    BY <1>1, <1>2, <1>5, <2>1 DEF DaysLived
<1>8. Behind(t, t.head)
  BY <1>1, <1>5 DEF Behind, StreamOfDays, IsStream, AuthorityHead
<1>. QED
  BY <1>1, <1>5, <1>6, <1>7, <1>8

\* So does a snapshot; one with the name of a day is of the day of the head.
LEMMA SnapshotDays ==
    ASSUME NEW s, StreamOfDays(s), MarkersOf(s), DaysLived(s), NEW h, NEW name,
           MaySave(s, BuildSnapshot(h, name)), NEW t, t = Saved(s, BuildSnapshot(h, name)),
           \A d \in 1..LastDay : name = Day(d) => DayOf(s, s.head.lastSequence) = d
    PROVE  /\ StreamOfDays(t) /\ Grows(s, t) /\ MarkersOf(t) /\ DaysLived(t)
           /\ t.head = s.head
<1>1. /\ t = [genesis |-> s.genesis, head |-> s.head, events |-> s.events,
              receipts |-> s.receipts, snapshots |-> Put(s.snapshots, name, SnapshotOf(s.head))]
      /\ Known(s)
  BY DEF Saved, MaySave, DescribesHead, BuildSnapshot, StreamOfDays, IsStream
<1>2. IsStream(t)
  BY <1>1 DEF StreamOfDays, IsStream
<1>3. /\ SnapshotOf(s.head).baseSequence = s.head.lastSequence
      /\ SnapshotOf(s.head).revision = s.head.revision
      /\ SnapshotOf(s.head).lastEventHash = s.head.lastEventHash
      /\ s.head.lastSequence \in Nat /\ s.head.revision \in Nat /\ s.head \in AuthorityHead
  BY DEF SnapshotOf, StreamOfDays, IsStream, AuthorityHead
<1>4. \A n : DayOf(t, n) = DayOf(s, n) /\ LinksOf(t, n) = LinksOf(s, n)
  BY <1>1, SameDay DEF LinksOf
<1>5. Grows(s, t)
  BY <1>1, <1>3 DEF Grows
<1>6. /\ DOMAIN t.snapshots = DOMAIN s.snapshots \cup {name}
      /\ \A id \in DOMAIN t.snapshots :
            t.snapshots[id] = IF id = name THEN SnapshotOf(s.head) ELSE s.snapshots[id]
  BY <1>1 DEF Put
<1>7. StreamOfDays(t)
  <2>1. ASSUME NEW id \in DOMAIN t.snapshots
        PROVE  /\ t.snapshots[id].baseSequence \in 0..t.head.lastSequence
               /\ t.snapshots[id].revision \in 0..t.head.revision
               /\ t.snapshots[id].lastEventHash = LinksOf(t, t.snapshots[id].baseSequence)
    <3>1. CASE id = name
      BY <1>1, <1>3, <1>4, <1>6, <3>1 DEF StreamOfDays
    <3>2. CASE id # name
      BY <1>1, <1>4, <1>6, <3>2 DEF StreamOfDays
    <3>. QED
      BY <3>1, <3>2
  <2>2. Known(t) /\ DOMAIN t.snapshots # {}
    BY <1>1, <1>6 DEF Known
  <2>3. /\ DOMAIN t.events = 1..t.head.lastSequence
        /\ \A n \in DOMAIN t.events : /\ t.events[n].eventId \in EventIds
                                      /\ t.events[n].appendId \in AppendIds
        /\ t.head.lastEventHash = LinksOf(t, t.head.lastSequence)
    <3>1. t.events = s.events /\ t.head = s.head
      BY <1>1
    <3>. QED
      BY <1>4, <3>1 DEF StreamOfDays
  <2>. QED
    BY <1>2, <2>1, <2>2, <2>3 DEF StreamOfDays
<1>8. MarkersOf(t)
  BY <1>1, <1>5, MarkerKept, GrownFacts DEF MarkersOf
<1>9. DaysLived(t)
  <2>1. BoundariesLived(t) = BoundariesLived(s) /\ \A r0 : IsRetry(t, r0) <=> IsRetry(s, r0)
    BY <1>1 DEF BoundariesLived, IsRetry
  <2>2. ASSUME NEW d \in 1..LastDay, Day(d) \in DOMAIN t.snapshots
        PROVE  DayOf(t, t.snapshots[Day(d)].baseSequence) = d
    BY <1>3, <1>4, <1>6, <2>2 DEF DaysLived
  <2>. QED
    BY <1>1, <1>4, <2>1, <2>2 DEF DaysLived
<1>. QED
  BY <1>1, <1>5, <1>7, <1>8, <1>9

\* A stream before and after it is initialized has no days.
LEMMA FirstStream ==
    /\ StreamOfDays(Unborn) /\ MarkersOf(Unborn) /\ DaysLived(Unborn)
    /\ \A g \in Geneses : /\ Known(Initialized(g))
                          /\ StreamOfDays(Initialized(g)) /\ MarkersOf(Initialized(g))
                          /\ DaysLived(Initialized(g)) /\ Grows(Unborn, Initialized(g))
<1>1. ASSUME NEW s, IsStream(s), s.head = GenesisHead, s.events = EmptyMap,
             s.receipts = EmptyMap,
             \/ s = Unborn
             \/ Known(s) /\ s.snapshots = Put(EmptyMap, GenesisSnapshot, SnapshotOf(GenesisHead))
      PROVE  StreamOfDays(s) /\ MarkersOf(s) /\ DaysLived(s)
  <2>1. /\ s.head.lastSequence = 0 /\ s.head.revision = 0 /\ s.head.lastEventHash = <<>>
        /\ DOMAIN s.events = {} /\ DOMAIN s.receipts = {}
    BY <1>1 DEF GenesisHead, EmptyMap, NoHash
  <2>2. LinksOf(s, 0) = <<>>
    BY DEF LinksOf
  <2>3. \/ DOMAIN s.snapshots = {} /\ s = Unborn /\ ~Known(s)
        \/ /\ Known(s) /\ DOMAIN s.snapshots = {GenesisSnapshot}
           /\ s.snapshots[GenesisSnapshot].baseSequence = 0
           /\ s.snapshots[GenesisSnapshot].revision = 0
           /\ s.snapshots[GenesisSnapshot].lastEventHash = <<>>
    <3>1. CASE s = Unborn
      BY <3>1 DEF Unborn, EmptyMap, Known
    <3>2. CASE s # Unborn
      BY <1>1, <3>2 DEF Put, EmptyMap, SnapshotOf, GenesisHead, NoHash
    <3>. QED
      BY <3>1, <3>2
  <2>4. StreamOfDays(s)
    BY <1>1, <2>1, <2>2, <2>3 DEF StreamOfDays
  <2>5. MarkersOf(s)
    BY <2>1 DEF MarkersOf
  <2>6. DayOf(s, 0) = 0
    <3>1. DaysOf(s, 0) = {0}
      BY DEF DaysOf
    <3>2. IsLast(0, DaysOf(s, 0))
      BY <3>1 DEF IsLast
    <3>. QED
      BY <3>2, DayIsLast
  <2>7. Cardinality(BoundariesLived(s)) \in Nat
    <3>1. BoundariesLived(s) = {}
      BY <2>1 DEF BoundariesLived
    <3>. QED
      BY <3>1, FS_EmptySet
  <2>8. \A d \in 1..LastDay : Day(d) \notin DOMAIN s.snapshots
    BY <2>3, IdsAssumption DEF IdsAssumption
  <2>9. DayOf(s, s.head.lastSequence) <= MaxDay + Cardinality(BoundariesLived(s))
    BY <2>1, <2>6, <2>7, LastDayType
  <2>. QED
    BY <2>1, <2>4, <2>5, <2>8, <2>9 DEF DaysLived, IsRetry
<1>2. 0 <= MaxToken /\ GenesisHead.fencingToken = 0
  BY RulesAssumption DEF RulesAssumption, GenesisHead
<1>3. IsStream(Unborn)
  BY <1>2, GenesisHeadType DEF IsStream, Unborn
<1>4. StreamOfDays(Unborn) /\ MarkersOf(Unborn) /\ DaysLived(Unborn)
  BY <1>1, <1>3 DEF Unborn
<1>5. ASSUME NEW g \in Geneses
      PROVE  /\ Known(Initialized(g))
             /\ StreamOfDays(Initialized(g)) /\ MarkersOf(Initialized(g))
             /\ DaysLived(Initialized(g)) /\ Grows(Unborn, Initialized(g))
  <2>. DEFINE t == Initialized(g)
  <2>1. /\ t.genesis = g /\ t.head = GenesisHead /\ t.events = EmptyMap /\ t.receipts = EmptyMap
        /\ t.snapshots = Put(EmptyMap, GenesisSnapshot, SnapshotOf(GenesisHead))
        /\ t = [genesis |-> t.genesis, head |-> t.head, events |-> t.events,
                receipts |-> t.receipts, snapshots |-> t.snapshots]
    BY DEF Initialized
  <2>. HIDE DEF t
  <2>2. Known(t)
    BY <2>1, RulesAssumption DEF RulesAssumption, Known
  <2>3. IsStream(t)
    BY <1>2, <2>1, GenesisHeadType DEF IsStream
  <2>4. Grows(Unborn, t)
    BY <2>1, GenesisHeadType DEF Grows, Unborn, EmptyMap, GenesisHead
  <2>. QED
    BY <1>1, <2>1, <2>2, <2>3, <2>4 DEF t
<1>. QED
  BY <1>4, <1>5

-----------------------------------------------------------------------------
(* The chapters of a plan *)

\* A chapter is a batch of one day that the plan has room for.
LEMMA ChapterType ==
    ASSUME NEW p, IsPlan(p), NEW i \in 1..TotalChapters(p)
    PROVE  LET d == p.confirmation.from + i
           IN  /\ Chapter(p, i) = BuildAppend(PlanHead(p, i), Day(d), Day(d), <<Day(d)>>)
               /\ d \in 1..MaxDay
               /\ PlanHead(p, i) \in AuthorityHead
<1>. DEFINE c == p.confirmation
            d == c.from + i
            links == [j \in 1..(i - 1) |-> <<Day(c.from + j), Day(c.from + j)>>]
<1>1. /\ c.from \in Nat /\ c.to \in Nat /\ c.to <= MaxDay /\ i \in 1..(c.to - c.from)
      /\ c.revision \in Nat /\ c.sequence \in Nat /\ c.token \in Nat
  BY LastDayType DEF IsPlan, TotalChapters
<1>2. d \in 1..MaxDay
  BY <1>1, LastDayType
<1>3. \A j \in 1..(i - 1) : <<Day(c.from + j), Day(c.from + j)>> \in EventIds \X AppendIds
  <2>1. \A j \in 1..(i - 1) : c.from + j \in 1..LastDay
    BY <1>1, LastDayType
  <2>. QED
    BY <2>1, IdsAssumption DEF IdsAssumption
<1>4. links \in Seq(EventIds \X AppendIds)
  <2>1. links \in [1..(i - 1) -> EventIds \X AppendIds] /\ i - 1 \in Nat
    BY <1>1, <1>3
  <2>. QED
    BY <2>1, FunctionIsSeq
<1>5. p.eventHash \o links \in Hash
  BY <1>4, ConcatProperties DEF IsPlan, Hash
<1>6. PlanHead(p, i) = [revision |-> c.revision + i - 1, lastSequence |-> c.sequence + i - 1,
                        simulationTime |-> c.from + i - 1, lastEventHash |-> p.eventHash \o links,
                        fencingToken |-> c.token]
  BY DEF PlanHead
<1>. HIDE DEF links
<1>7. PlanHead(p, i) \in AuthorityHead
  <2>1. c.revision + i - 1 \in Nat /\ c.sequence + i - 1 \in Nat /\ c.from + i - 1 \in Nat
    BY <1>1
  <2>. HIDE DEF c
  <2>. QED
    BY <1>1, <1>5, <1>6, <2>1 DEF AuthorityHead
<1>. QED
  BY <1>2, <1>7 DEF Chapter, DayRequest

\* A chapter is accepted only where the ledger has been through exactly the
\* days before it: the hash it chains to is the ledger the plan began at, and
\* the chapters in between.
LEMMA ChapterLivesNextDay ==
    ASSUME NEW s, StreamOfDays(s), NEW p, IsPlan(p), Grounded(s, p),
           NEW i \in 1..TotalChapters(p), MayAppend(s, Chapter(p, i))
    PROVE  DayOf(s, s.head.lastSequence) = p.confirmation.from + i - 1
<1>. DEFINE c == p.confirmation
            m == Len(p.eventHash)
            n == s.head.lastSequence
            links == [j \in 1..(i - 1) |-> <<Day(c.from + j), Day(c.from + j)>>]
            today == c.from + i - 1
<1>1. /\ c.from \in Nat /\ c.to \in Nat /\ c.to <= MaxDay /\ i \in 1..(c.to - c.from)
      /\ c.sequence \in Nat
  BY LastDayType DEF IsPlan, TotalChapters
<1>2. n \in Nat /\ m \in Nat /\ m <= c.sequence
  BY SMTT(40), LenProperties DEF StreamOfDays, IsStream, AuthorityHead, IsPlan, Hash, Grounded
<1>3. n = c.sequence + i - 1 /\ s.head.lastEventHash = p.eventHash \o links
  BY DEF MayAppend, AddressesHead, Chapter, DayRequest, BuildAppend, PlanHead
<1>4. LinksOf(s, n) = p.eventHash \o links
  BY <1>3 DEF StreamOfDays
<1>5. links \in Seq(EventIds \X AppendIds) /\ Len(links) = i - 1
  <2>1. \A j \in 1..(i - 1) : c.from + j \in 1..LastDay
    BY <1>1, LastDayType
  <2>2. links \in [1..(i - 1) -> EventIds \X AppendIds] /\ i - 1 \in Nat
    BY <1>1, <2>1, IdsAssumption DEF IdsAssumption
  <2>. QED
    BY <2>2, FunctionIsSeq
<1>6. LinksOf(s, n) \in Hash /\ Len(LinksOf(s, n)) = n
  BY <1>2, LinksAreAHash DEF StreamOfDays
<1>7. p.eventHash \in Seq(EventIds \X AppendIds)
  BY DEF IsPlan, Hash
<1>8. m = c.sequence /\ n = m + (i - 1)
  <2>1. Len(p.eventHash \o links) = m + Len(links)
    <3>. HIDE DEF links
    <3>. QED
      BY <1>5, <1>7, ConcatProperties
  <2>2. n = m + (i - 1)
    BY <1>4, <1>5, <1>6, <2>1
  <2>. QED
    BY SMTT(40), <1>1, <1>2, <1>3, <2>2
<1>9. ASSUME NEW j \in 1..(i - 1)
      PROVE  s.events[m + j].eventId = Day(c.from + j)
  <2>1. (p.eventHash \o links)[m + j] = links[j]
    <3>1. Len(p.eventHash) + j \in 1..(Len(p.eventHash) + Len(links))
          /\ Len(p.eventHash) + j > Len(p.eventHash) /\ (m + j) - m = j
      BY <1>1, <1>2, <1>5
    <3>. HIDE DEF links
    <3>. QED
      BY <1>5, <1>7, <3>1, ConcatProperties
  <2>2. m + j \in 1..n
    BY SMTT(40), <1>1, <1>2, <1>8
  <2>3. LinksOf(s, n)[m + j] = <<s.events[m + j].eventId, s.events[m + j].appendId>>
    BY <2>2 DEF LinksOf
  <2>4. links[j] = <<Day(c.from + j), Day(c.from + j)>>
    OBVIOUS
  <2>. QED
    BY <1>4, <2>1, <2>3, <2>4
<1>10. IsLast(c.from, DaysOf(s, m)) /\ c.from = DayOf(s, m)
  BY <1>8, LastDayOfLedger DEF Grounded
<1>. HIDE DEF m, n, links, c, today
<1>11. today \in Nat /\ today <= LastDay /\ c.from <= today
  BY <1>1, LastDayType DEF today
<1>12. ASSUME NEW d \in DaysOf(s, n)
       PROVE  d <= today
  <2>1. CASE d = 0
    BY <1>11, <2>1
  <2>2. CASE d # 0
    <3>1. PICK k \in 1..n : LivesDay(s.events[k].eventId, d)
      BY <2>2 DEF DaysOf
    <3>2. d \in 1..LastDay
      BY <2>2 DEF DaysOf
    <3>3. CASE k <= m
      <4>1. k \in 1..m
        BY <1>2, <3>3
      <4>2. d \in DaysOf(s, m)
        BY <3>1, <3>2, <4>1 DEF DaysOf
      <4>3. d <= c.from
        BY <1>10, <4>2 DEF IsLast
      <4>. QED
        BY <1>1, <1>11, <3>2, <4>3, LastDayType
    <3>4. CASE k > m
      <4>1. k - m \in 1..(i - 1) /\ m + (k - m) = k
        BY <1>1, <1>2, <1>8, <3>4
      <4>2. s.events[k].eventId = Day(c.from + (k - m))
        BY <1>9, <4>1
      <4>3. d = c.from + (k - m)
        BY <3>1, <4>2, Ids
      <4>. QED
        BY <1>1, <4>1, <4>3 DEF today
    <3>. QED
      BY <1>2, <3>3, <3>4
  <2>. QED
    BY <2>1, <2>2
<1>13. today \in DaysOf(s, n)
  <2>1. CASE i = 1
    <3>1. n = m /\ today = c.from
      BY <1>1, <1>2, <1>8, <2>1 DEF today
    <3>. QED
      BY <1>10, <3>1 DEF IsLast
  <2>2. CASE i # 1
    <3>1. i - 1 \in 1..(i - 1) /\ m + (i - 1) = n /\ n \in 1..n /\ c.from + (i - 1) = today
          /\ today \in 1..LastDay
      BY <1>1, <1>2, <1>8, <1>11, <2>2, LastDayType DEF today
    <3>2. s.events[n].eventId = Day(today)
      BY <1>9, <3>1
    <3>3. LivesDay(s.events[n].eventId, today)
      BY <3>2, Ids
    <3>. QED
      BY <3>1, <3>3 DEF DaysOf
  <2>. QED
    BY <2>1, <2>2
<1>14. DayOf(s, n) = today
  BY <1>12, <1>13, DayIsLast DEF IsLast
<1>. QED
  BY <1>14 DEF n, today, c

-----------------------------------------------------------------------------
(* What a job looks up *)

\* The committed prefix of a plan: the chapters before the first absent one.
LEMMA PrefixType ==
    ASSUME NEW p, IsPlan(p)
    PROVE  Prefix(p) \in 0..TotalChapters(p)
<1>. DEFINE n == TotalChapters(p)
            absent == {i \in 1..n : ~Present(p, i)} \cup {n + 1}
            IsPrefix(k) == /\ \A i \in 1..k : Present(p, i)
                           /\ k < n => ~Present(p, k + 1)
<1>1. n \in Nat
  BY LastDayType DEF IsPlan, TotalChapters
<1>2. PICK m \in absent : \A k \in absent : m <= k
  <2>1. absent \in SUBSET Nat /\ absent # {}
    BY <1>1
  <2>. HIDE DEF absent
  <2>. QED
    BY <2>1, LeastNumber
<1>3. m \in 1..(n + 1) /\ m - 1 \in 0..n
  BY <1>1, <1>2
<1>4. IsPrefix(m - 1)
  <2>1. ASSUME NEW i \in 1..(m - 1)
        PROVE  Present(p, i)
    <3>1. i \in 1..n /\ ~(m <= i)
      BY <1>1, <1>3
    <3>. QED
      BY <1>2, <3>1
  <2>2. ASSUME m - 1 < n
        PROVE  ~Present(p, (m - 1) + 1)
    <3>1. m # n + 1 /\ (m - 1) + 1 = m
      BY <1>1, <1>3, <2>2
    <3>. QED
      BY <1>2, <3>1
  <2>. QED
    BY <2>1, <2>2
<1>5. Prefix(p) = CHOOSE k \in 0..n : IsPrefix(k)
  BY DEF Prefix
<1>. HIDE DEF IsPrefix, n
<1>. QED
  BY <1>3, <1>4, <1>5 DEF n

\* The furthest marker of an operation is one that was written.
LEMMA FurthestIsTrue ==
    ASSUME MarkersOf(stream), NEW op \in Operations, Started(op)
    PROVE  LET p == MarkerAt(Start(op)).plan
           IN  /\ Furthest(op) \in 0..TotalChapters(p)
               /\ Stored(stream, p, Furthest(op))
<1>. DEFINE p == MarkerAt(Start(op)).plan
            done == {n \in 0..MaxDay : Progress(op, n) \in DOMAIN stream.receipts}
            marks == {MarkerAt(Start(op)).nextChapter} \cup {n + 1 : n \in done}
<1>1. \A a : MarkerAt(a) = MarkerOf(stream, a)
  BY DEF MarkerAt, MarkerOf
<1>2. \A k \in marks : k \in 0..TotalChapters(p) /\ Stored(stream, p, k)
  <2>1. IsMarker(stream, MarkerAt(Start(op)))
    BY <1>1, Ids DEF MarkersOf, Started
  <2>2. ASSUME NEW n \in done
        PROVE  n + 1 \in 0..TotalChapters(p) /\ Stored(stream, p, n + 1)
    <3>1. /\ IsMarker(stream, MarkerAt(Progress(op, n)))
          /\ MarkerAt(Progress(op, n)).plan = p
          /\ MarkerAt(Progress(op, n)).nextChapter = n + 1
      BY <1>1, Ids DEF MarkersOf
    <3>. QED
      BY <3>1 DEF IsMarker
  <2>. QED
    BY <2>1, <2>2 DEF IsMarker
<1>3. IsPlan(p) /\ TotalChapters(p) \in Nat
  <2>1. IsPlan(p)
    BY <1>1, Ids DEF MarkersOf, Started, IsMarker
  <2>. QED
    BY <2>1, LastDayType DEF IsPlan, TotalChapters
<1>4. marks \in SUBSET Nat /\ marks # {} /\ \A k \in marks : k <= TotalChapters(p)
  <2>. HIDE DEF p
  <2>. QED
    BY <1>2, <1>3
<1>5. \E n \in marks : \A m \in marks : m <= n
  <2>. HIDE DEF marks, p
  <2>. QED
    BY <1>3, <1>4, LargestNumber
<1>6. Furthest(op) \in marks
  BY <1>5 DEF Furthest
<1>. HIDE DEF marks
<1>. QED
  BY <1>2, <1>6

\* A stream that is known has a latest snapshot.
LEMMA LatestIsSaved ==
    ASSUME NEW s, StreamOfDays(s), Known(s)
    PROVE  (CHOOSE latest \in LatestSnapshots(s) : TRUE) \in DOMAIN s.snapshots
<1>. DEFINE base(id) == s.snapshots[id].baseSequence
            rev(id) == s.snapshots[id].revision
            bases == {base(id) : id \in DOMAIN s.snapshots}
<1>1. /\ s.head.lastSequence \in Nat /\ s.head.revision \in Nat
      /\ \A id \in DOMAIN s.snapshots : /\ base(id) \in 0..s.head.lastSequence
                                        /\ rev(id) \in 0..s.head.revision
      /\ DOMAIN s.snapshots # {}
  BY DEF StreamOfDays, IsStream, AuthorityHead
<1>. HIDE DEF base, rev
<1>2. PICK top \in bases : \A x \in bases : x <= top
  <2>1. bases \in SUBSET Nat /\ bases # {} /\ \A x \in bases : x <= s.head.lastSequence
    BY <1>1
  <2>. HIDE DEF bases
  <2>. QED
    BY <1>1, <2>1, LargestNumber
<1>. DEFINE revs == {rev(id) : id \in {x \in DOMAIN s.snapshots : base(x) = top}}
<1>3. PICK high \in revs : \A x \in revs : x <= high
  <2>1. revs \in SUBSET Nat /\ revs # {} /\ \A x \in revs : x <= s.head.revision
    BY <1>1, <1>2
  <2>. HIDE DEF revs
  <2>. QED
    BY <1>1, <2>1, LargestNumber
<1>4. PICK id \in DOMAIN s.snapshots : base(id) = top /\ rev(id) = high
  BY <1>3
<1>5. ASSUME NEW other \in DOMAIN s.snapshots
      PROVE  base(id) > base(other) \/ (base(id) = base(other) /\ rev(id) >= rev(other))
  <2>1. base(other) <= top /\ base(other) \in Nat /\ top \in Nat /\ rev(other) \in Nat
        /\ high \in Nat
    BY <1>1, <1>2, <1>4
  <2>2. CASE base(other) = top
    <3>1. rev(other) \in revs
      BY <2>2
    <3>. QED
      BY <1>3, <1>4, <2>1, <2>2, <3>1
  <2>3. CASE base(other) # top
    BY <1>4, <2>1, <2>3
  <2>. QED
    BY <2>2, <2>3
<1>6. id \in LatestSnapshots(s)
  BY <1>5 DEF LatestSnapshots, base, rev
<1>. QED
  BY <1>6 DEF LatestSnapshots

-----------------------------------------------------------------------------
(* A step of one job *)

\* Jobs at rest hold nothing of the stream.
LEMMA RestingJob ==
    ASSUME NEW s, StreamOfDays(s), NEW b,
           b = [kind |-> b.kind, at |-> b.at, op |-> b.op, days |-> b.days,
                head |-> GenesisHead, plan |-> b.plan, next |-> 0, error |-> b.error],
           b.plan \in {NoPlan, GenesisPlan}, b.at \in Ats,
           b.op \in Operations \cup Commands \cup {None}
    PROVE  IsJob(s, b)
<1>1. s.head.lastSequence \in Nat
  BY DEF StreamOfDays, IsStream, AuthorityHead
<1>2. LinksOf(s, 0) = <<>>
  BY DEF LinksOf
<1>3. DayOf(s, 0) = 0
  <2>1. DaysOf(s, 0) = {0}
    BY DEF DaysOf
  <2>2. IsLast(0, DaysOf(s, 0))
    BY <2>1 DEF IsLast
  <2>. QED
    BY <2>2, DayIsLast
<1>4. GenesisHead \in AuthorityHead /\ GenesisHead.lastSequence = 0
      /\ GenesisHead.lastEventHash = <<>>
  BY GenesisHeadType DEF GenesisHead, NoHash
<1>5. Behind(s, GenesisHead)
  BY <1>1, <1>2, <1>4 DEF Behind
<1>6. ASSUME NEW p, p \in {NoPlan, GenesisPlan}
      PROVE  IsPlan(p) /\ Grounded(s, p) /\ 0 \in 0..TotalChapters(p)
  <2>1. PICK op \in Operations \cup {None}, to \in {0, 1} : p = Plan(op, GenesisHead, 0, to)
    BY <1>6 DEF NoPlan, GenesisPlan, Operations
  <2>2. p = [operation |-> op, eventHash |-> <<>>,
             confirmation |-> [from |-> 0, to |-> to, revision |-> 0, sequence |-> 0,
                               token |-> 0]]
    BY <2>1 DEF Plan, GenesisHead, NoHash
  <2>3. <<>> \in Hash /\ Len(<<>>) = 0 /\ to \in 0..MaxDay
    BY <2>1, LastDayType, EmptySeq DEF Hash
  <2>. QED
    BY <1>1, <1>2, <1>3, <2>2, <2>3, LastDayType DEF IsPlan, Grounded, TotalChapters
<1>7. Behind(s, b.head) /\ b.next = 0
  BY <1>5
<1>. QED
  BY <1>6, <1>7 DEF IsJob

\* So do jobs that have ended, well or not.
LEMMA EndedJob ==
    ASSUME NEW s, StreamOfDays(s)
    PROVE  /\ IsJob(s, NoJob) /\ InPhase(s, NoJob)
           /\ \A code : LET b == [NoJob EXCEPT !.at = "failed", !.error = code]
                        IN  IsJob(s, b) /\ InPhase(s, b)
           /\ \A b : b.op \in Operations \cup Commands \cup {None}
                        => IsJob(s, Done(b)) /\ InPhase(s, Done(b))
<1>1. ASSUME NEW kind, NEW at \in {"idle", "done", "failed"},
             NEW op \in Operations \cup Commands \cup {None}, NEW error
      PROVE  LET b == [kind |-> kind, at |-> at, op |-> op, days |-> 0, head |-> GenesisHead,
                       plan |-> NoPlan, next |-> 0, error |-> error]
             IN  IsJob(s, b) /\ InPhase(s, b)
  <2>. DEFINE b == [kind |-> kind, at |-> at, op |-> op, days |-> 0, head |-> GenesisHead,
                    plan |-> NoPlan, next |-> 0, error |-> error]
  <2>1. b.at \in {"idle", "done", "failed"} /\ b.at \in Ats
    BY DEF Ats
  <2>2. IsJob(s, b)
    BY <2>1, RestingJob
  <2>3. InPhase(s, b)
    BY <2>1 DEF InPhase
  <2>. QED
    BY <2>2, <2>3
<1>2. NoJob = [kind |-> None, at |-> "idle", op |-> None, days |-> 0, head |-> GenesisHead,
               plan |-> NoPlan, next |-> 0, error |-> None]
  BY DEF NoJob
<1>3. ASSUME NEW code, NEW b, b = [NoJob EXCEPT !.at = "failed", !.error = code]
      PROVE  b = [kind |-> None, at |-> "failed", op |-> None, days |-> 0,
                  head |-> GenesisHead, plan |-> NoPlan, next |-> 0, error |-> code]
  BY <1>2, <1>3
<1>4. ASSUME NEW b
      PROVE  Done(b) = [kind |-> b.kind, at |-> "done", op |-> b.op, days |-> 0,
                        head |-> GenesisHead, plan |-> NoPlan, next |-> 0, error |-> None]
  <2>1. Done(b) = [NoJob EXCEPT !.kind = b.kind, !.op = b.op, !.at = "done"]
    BY DEF Done
  <2>. QED
    BY <1>2, <2>1
<1>5. None \in Operations \cup Commands \cup {None}
  OBVIOUS
<1>6. IsJob(s, NoJob) /\ InPhase(s, NoJob)
  BY <1>1, <1>2, <1>5
<1>7. ASSUME NEW code
      PROVE  LET b == [NoJob EXCEPT !.at = "failed", !.error = code]
             IN  IsJob(s, b) /\ InPhase(s, b)
  <2>. DEFINE c == [kind |-> None, at |-> "failed", op |-> None, days |-> 0,
                    head |-> GenesisHead, plan |-> NoPlan, next |-> 0, error |-> code]
  <2>1. IsJob(s, c) /\ InPhase(s, c)
    BY <1>1, <1>5
  <2>. QED
    BY <1>3, <2>1
<1>8. ASSUME NEW b, b.op \in Operations \cup Commands \cup {None}
      PROVE  IsJob(s, Done(b)) /\ InPhase(s, Done(b))
  <2>. DEFINE c == [kind |-> b.kind, at |-> "done", op |-> b.op, days |-> 0,
                    head |-> GenesisHead, plan |-> NoPlan, next |-> 0, error |-> None]
  <2>1. IsJob(s, c) /\ InPhase(s, c)
    BY <1>1, <1>8
  <2>. QED
    BY <1>4, <2>1
<1>. QED
  BY <1>6, <1>7, <1>8

\* A stream that stays has grown.
LEMMA GrowsIsReflexive ==
    ASSUME NEW s, StreamOfDays(s)
    PROVE  Grows(s, s)
BY DEF Grows, StreamOfDays, IsStream, AuthorityHead

\* When one job has taken a step on a stream of days, the others know as much
\* as before.
LEMMA JobStep ==
    ASSUME DaysInv, NEW j \in Jobs, NEW b, Become(j, b), Grows(stream, stream'),
           StreamOfDays(stream'), MarkersOf(stream'), DaysLived(stream'),
           IsJob(stream', b), InPhase(stream', b),
           PendingType', crashes' \in 0..MaxCrashes
    PROVE  DaysInv'
<1>1. job' = [job EXCEPT ![j] = b] /\ job = [k \in Jobs |-> job[k]]
  BY DEF Become, DaysInv
<1>2. job' = [k \in Jobs |-> job'[k]] /\ \A k \in Jobs : job'[k] = IF k = j THEN b ELSE job[k]
  BY <1>1
<1>3. ASSUME NEW k \in Jobs
      PROVE  IsJob(stream', job'[k]) /\ InPhase(stream', job'[k])
  <2>1. CASE k = j
    BY <1>2, <2>1
  <2>2. CASE k # j
    BY <1>2, <2>2, JobKept DEF DaysInv
  <2>. QED
    BY <2>1, <2>2
<1>. QED
  BY <1>2, <1>3 DEF DaysInv

\* The same for a step that leaves the stream alone.
LEMMA QuietStep ==
    ASSUME DaysInv, NEW j \in Jobs, NEW b, Become(j, b), stream' = stream,
           IsJob(stream, b), InPhase(stream, b), PendingType', crashes' \in 0..MaxCrashes
    PROVE  DaysInv'
BY JobStep, GrowsIsReflexive DEF DaysInv

\* The job that goes on after n chapters.
OnwardJob(b, n, h) ==
    [b EXCEPT !.next = n, !.head = h,
              !.at = CASE n < TotalChapters(b.plan) -> "chapter"
                       [] n = TotalChapters(b.plan) /\ b.kind = "refresh" -> "save"
                       [] n = TotalChapters(b.plan) /\ b.kind # "refresh" -> "readback"]

\* A job so moved on is a job in its phase.
LEMMA OnwardType ==
    ASSUME NEW s, NEW b, IsJob(s, b), CatchesUp(b), HasRecordedPlan(s, b),
           NEW n \in 0..TotalChapters(b.plan), Stored(s, b.plan, n), NEW h, Behind(s, h)
    PROVE  IsJob(s, OnwardJob(b, n, h)) /\ InPhase(s, OnwardJob(b, n, h))
<1>. DEFINE c == OnwardJob(b, n, h)
            total == TotalChapters(b.plan)
            at == CASE n < total -> "chapter"
                    [] n = total /\ b.kind = "refresh" -> "save"
                    [] n = total /\ b.kind # "refresh" -> "readback"
<1>1. c = [kind |-> b.kind, at |-> at, op |-> b.op, days |-> b.days, head |-> h,
           plan |-> b.plan, next |-> n, error |-> b.error]
  <2>1. b = [kind |-> b.kind, at |-> b.at, op |-> b.op, days |-> b.days, head |-> b.head,
             plan |-> b.plan, next |-> b.next, error |-> b.error]
    BY DEF IsJob
  <2>2. c = [b EXCEPT !.next = n, !.head = h, !.at = at]
    BY DEF OnwardJob
  <2>. HIDE DEF c, at
  <2>. QED
    BY <2>1, <2>2
<1>2. total \in Nat /\ n \in 0..total
  BY LastDayType DEF IsJob, IsPlan, TotalChapters
<1>. HIDE DEF total
<1>3. \/ (at = "chapter" /\ n < total)
      \/ (at = "save" /\ n = total /\ b.kind = "refresh")
      \/ (at = "readback" /\ n = total /\ b.kind # "refresh")
  <2>1. CASE n < total
    BY <1>2, <2>1
  <2>2. CASE n = total /\ b.kind = "refresh"
    <3>1. ~(n < total)
      BY <1>2, <2>2
    <3>. QED
      BY <2>2, <3>1
  <2>3. CASE n = total /\ b.kind # "refresh"
    <3>1. ~(n < total)
      BY <1>2, <2>3
    <3>. QED
      BY <2>3, <3>1
  <2>. QED
    BY <1>2, <2>1, <2>2, <2>3
<1>. HIDE DEF at, c
<1>4. /\ c.kind = b.kind /\ c.at = at /\ c.op = b.op /\ c.days = b.days /\ c.head = h
      /\ c.plan = b.plan /\ c.next = n /\ c.error = b.error
  BY <1>1
<1>5. IsJob(s, c)
  <2>1. at \in Ats
    BY <1>3 DEF Ats
  <2>2. n \in 0..TotalChapters(b.plan)
    OBVIOUS
  <2>3. c = [kind |-> c.kind, at |-> c.at, op |-> c.op, days |-> c.days, head |-> c.head,
             plan |-> c.plan, next |-> c.next, error |-> c.error]
    BY <1>1
  <2>. QED
    BY <1>4, <2>1, <2>2, <2>3 DEF IsJob
<1>6. ASSUME at = "chapter" /\ n < total
      PROVE  InPhase(s, c)
  <2>1. CatchesUp(c) /\ HasRecordedPlan(s, c) /\ c.next < TotalChapters(c.plan)
        /\ Stored(s, c.plan, c.next)
    BY <1>4, <1>6 DEF CatchesUp, HasRecordedPlan, total
  <2>2. c.at = "chapter"
    BY <1>4, <1>6
  <2>. HIDE DEF c
  <2>. QED
    BY <2>1, <2>2 DEF InPhase
<1>7. ASSUME at = "save" /\ n = total /\ b.kind = "refresh"
      PROVE  InPhase(s, c)
  <2>1. b.plan = GenesisPlan
    BY <1>7 DEF CatchesUp
  <2>2. total = 1
    BY <2>1 DEF total, TotalChapters, GenesisPlan, Plan
  <2>3. IsRetry(s, Chapter(GenesisPlan, 1))
    <3>1. 1 \in 1..n
      BY <1>7, <2>2
    <3>. QED
      BY <2>1, <3>1 DEF Stored
  <2>4. c.at = "save" /\ c.kind = "refresh"
    BY <1>4, <1>7
  <2>. QED
    BY <2>3, <2>4 DEF InPhase
<1>8. ASSUME at = "readback" /\ n = total /\ b.kind # "refresh"
      PROVE  InPhase(s, c)
  <2>1. c.at = "readback" /\ c.kind = "return"
    BY <1>4, <1>8 DEF CatchesUp
  <2>. QED
    BY <2>1 DEF InPhase
<1>. QED
  BY <1>3, <1>5, <1>6, <1>7, <1>8 DEF c
-----------------------------------------------------------------------------
(* What a step makes of a job *)

JobIn(b, at, days, h, p) ==
    [kind |-> b.kind, at |-> at, op |-> b.op, days |-> days, head |-> h, plan |-> p,
     next |-> b.next, error |-> b.error]

\* The job after a step, and what it holds.
LEMMA ChangedJob ==
    ASSUME NEW s, NEW b, IsJob(s, b), NEW at \in Ats, NEW days, NEW h, Behind(s, h),
           NEW p, IsPlan(p), Grounded(s, p), b.next \in 0..TotalChapters(p)
    PROVE  LET c == JobIn(b, at, days, h, p)
           IN  /\ IsJob(s, c)
               /\ c.kind = b.kind /\ c.at = at /\ c.op = b.op /\ c.days = days /\ c.head = h
               /\ c.plan = p /\ c.next = b.next
<1>. DEFINE c == JobIn(b, at, days, h, p)
<1>1. c = [kind |-> b.kind, at |-> at, op |-> b.op, days |-> days, head |-> h, plan |-> p,
           next |-> b.next, error |-> b.error]
  BY DEF JobIn
<1>. HIDE DEF c
<1>2. /\ c.kind = b.kind /\ c.at = at /\ c.op = b.op /\ c.days = days /\ c.head = h
      /\ c.plan = p /\ c.next = b.next /\ c.error = b.error
  BY <1>1
<1>3. c = [kind |-> c.kind, at |-> c.at, op |-> c.op, days |-> c.days, head |-> c.head,
           plan |-> c.plan, next |-> c.next, error |-> c.error]
  BY <1>1
<1>4. IsJob(s, c)
  BY <1>2, <1>3 DEF IsJob
<1>. QED
  BY <1>2, <1>4 DEF c

\* The head of the stream is one a job may hold.
LEMMA HeadIsBehind ==
    ASSUME NEW s, StreamOfDays(s)
    PROVE  Behind(s, s.head) /\ s.head \in AuthorityHead /\ s.head.lastSequence \in Nat
<1>1. s.head \in AuthorityHead
  BY DEF StreamOfDays, IsStream
<1>2. s.head.lastSequence \in Nat
  BY <1>1 DEF AuthorityHead
<1>. QED
  BY <1>1, <1>2 DEF StreamOfDays, Behind

\* The hash of a head that a job holds has one link for each event before it.
LEMMA HeldHash ==
    ASSUME NEW s, StreamOfDays(s), NEW n \in 0..s.head.lastSequence
    PROVE  LinksOf(s, n) \in Hash /\ Len(LinksOf(s, n)) = n
<1>. DEFINE last == s.head.lastSequence
<1>0. last \in Nat /\ DOMAIN s.events = 1..last
  BY HeadIsBehind DEF StreamOfDays
<1>1. n \in Nat /\ \A m \in 1..n : m \in DOMAIN s.events
  <2>1. n \in 0..last
    OBVIOUS
  <2>. HIDE DEF last
  <2>. QED
    BY <1>0, <2>1
<1>2. \A m \in 1..n : s.events[m].eventId \in EventIds /\ s.events[m].appendId \in AppendIds
  BY <1>1 DEF StreamOfDays
<1>. QED
  BY <1>1, <1>2, LinksAreAHash

\* A job fails on a stream of days.
LEMMA FailStep ==
    ASSUME DaysInv, NEW j \in Jobs, NEW code, Fail(j, code), Grows(stream, stream'),
           StreamOfDays(stream'), MarkersOf(stream'), DaysLived(stream'),
           PendingType', crashes' \in 0..MaxCrashes
    PROVE  DaysInv'
<1>. DEFINE b == [NoJob EXCEPT !.at = "failed", !.error = code]
<1>1. Become(j, b)
  BY DEF Fail
<1>2. IsJob(stream', b) /\ InPhase(stream', b)
  BY EndedJob
<1>. HIDE DEF b
<1>. QED
  BY <1>1, <1>2, JobStep

\* A job is done on a stream of days.
LEMMA SucceedStep ==
    ASSUME DaysInv, NEW j \in Jobs, Succeed(j), Grows(stream, stream'),
           StreamOfDays(stream'), MarkersOf(stream'), DaysLived(stream'),
           PendingType', crashes' \in 0..MaxCrashes
    PROVE  DaysInv'
<1>. DEFINE b == Done(job[j])
<1>1. Become(j, b)
  BY DEF Succeed
<1>2. job[j].op \in Operations \cup Commands \cup {None}
  BY DEF DaysInv, IsJob
<1>3. IsJob(stream', b) /\ InPhase(stream', b)
  BY <1>2, EndedJob
<1>. HIDE DEF b
<1>. QED
  BY <1>1, <1>3, JobStep

\* Nothing but a job changes.
LEMMA Quiet ==
    ASSUME DaysInv, UNCHANGED <<stream, pending, crashes>>
    PROVE  /\ Grows(stream, stream') /\ StreamOfDays(stream') /\ MarkersOf(stream')
           /\ DaysLived(stream') /\ PendingType' /\ crashes' \in 0..MaxCrashes
BY GrowsIsReflexive DEF DaysInv, PendingType

\* What the invariant says of one job.
LEMMA JobHeld ==
    ASSUME DaysInv, NEW j \in Jobs
    PROVE  /\ IsJob(stream, job[j]) /\ InPhase(stream, job[j])
           /\ StreamOfDays(stream) /\ MarkersOf(stream) /\ DaysLived(stream)
           /\ PendingType /\ crashes \in 0..MaxCrashes
BY DEF DaysInv

-----------------------------------------------------------------------------
(* The steps: jobs begin and end *)

NewJob(kind, at, op, days, plan) ==
    [kind |-> kind, at |-> at, op |-> op, days |-> days, head |-> GenesisHead,
     plan |-> plan, next |-> 0, error |-> None]

\* A job that begins holds nothing of the stream.
LEMMA NewJobType ==
    ASSUME NEW s, StreamOfDays(s), NEW kind, NEW at \in Ats,
           NEW op \in Operations \cup Commands \cup {None}, NEW days,
           NEW plan \in {NoPlan, GenesisPlan}
    PROVE  LET b == NewJob(kind, at, op, days, plan)
           IN  /\ IsJob(s, b)
               /\ b.kind = kind /\ b.at = at /\ b.op = op /\ b.days = days
               /\ b.plan = plan /\ b.next = 0
<1>. DEFINE b == NewJob(kind, at, op, days, plan)
<1>1. b = [kind |-> kind, at |-> at, op |-> op, days |-> days, head |-> GenesisHead,
           plan |-> plan, next |-> 0, error |-> None]
  BY DEF NewJob
<1>. HIDE DEF b
<1>2. /\ b.kind = kind /\ b.at = at /\ b.op = op /\ b.days = days
      /\ b.plan = plan /\ b.next = 0 /\ b.error = None
  BY <1>1
<1>3. b = [kind |-> b.kind, at |-> b.at, op |-> b.op, days |-> b.days,
           head |-> GenesisHead, plan |-> b.plan, next |-> 0, error |-> b.error]
  BY <1>1, <1>2
<1>4. IsJob(s, b)
  BY <1>2, <1>3, RestingJob
<1>. QED
  BY <1>2, <1>4 DEF b

\* StartRefresh: the first stream, or the one there is.
LEMMA StartRefreshKeepsInv ==
    ASSUME DaysInv, NEW j \in Jobs, StartRefresh(j)
    PROVE  DaysInv'
<1>. DEFINE b == NewJob("refresh", "begin", GenesisOperation, 0, GenesisPlan)
<1>1. Become(j, b)
  <2>1. NoJob = [kind |-> None, at |-> "idle", op |-> None, days |-> 0, head |-> GenesisHead,
                 plan |-> NoPlan, next |-> 0, error |-> None]
    BY DEF NoJob
  <2>2. ASSUME NEW c, c = [NoJob EXCEPT !.kind = "refresh", !.at = "begin",
                                        !.op = GenesisOperation, !.plan = GenesisPlan]
        PROVE  c = b
    BY <2>1, <2>2 DEF NewJob
  <2>. QED
    BY <2>2 DEF StartRefresh
<1>2. /\ StreamOfDays(stream') /\ MarkersOf(stream') /\ DaysLived(stream')
      /\ Grows(stream, stream')
  <2>1. CASE Known(stream)
    <3>1. stream' = stream
      BY <2>1 DEF StartRefresh, Write
    <3>. QED
      BY <3>1, JobHeld, GrowsIsReflexive
  <2>2. CASE ~Known(stream)
    <3>1. stream = Unborn
      BY <2>2 DEF DaysInv, StreamOfDays
    <3>2. PICK g \in Geneses : stream' = Initialized(g)
      BY <2>2, IdsAssumption DEF StartRefresh, Write
    <3>. QED
      BY <3>1, <3>2, FirstStream
  <2>. QED
    BY <2>1, <2>2
<1>3. "begin" \in Ats /\ GenesisOperation \in Operations \cup Commands \cup {None}
  BY DEF Ats, Operations
<1>4. /\ IsJob(stream', b) /\ b.kind = "refresh" /\ b.at = "begin"
      /\ b.op = GenesisOperation /\ b.plan = GenesisPlan
  BY <1>2, <1>3, NewJobType
<1>. HIDE DEF b
<1>5. InPhase(stream', b)
  BY <1>4 DEF InPhase, CatchesUp
<1>6. PendingType' /\ crashes' \in 0..MaxCrashes
  BY DEF StartRefresh, DaysInv, PendingType
<1>. QED
  BY <1>1, <1>2, <1>4, <1>5, <1>6, JobStep

\* StartLiveDay: what a page shows is not read.
LEMMA StartLiveDayKeepsInv ==
    ASSUME DaysInv, NEW j \in Jobs, StartLiveDay(j)
    PROVE  DaysInv'
<1>. DEFINE b == NewJob("day", "load", None, 0, NoPlan)
<1>1. Become(j, b)
  <2>1. NoJob = [kind |-> None, at |-> "idle", op |-> None, days |-> 0, head |-> GenesisHead,
                 plan |-> NoPlan, next |-> 0, error |-> None]
    BY DEF NoJob
  <2>2. ASSUME NEW c, c = [NoJob EXCEPT !.kind = "day", !.at = "load"]
        PROVE  c = b
    BY <2>1, <2>2 DEF NewJob
  <2>. QED
    BY <2>2 DEF StartLiveDay
<1>2. "load" \in Ats
  BY DEF Ats
<1>3. UNCHANGED <<stream, pending, crashes>>
  BY DEF StartLiveDay
<1>4. IsJob(stream', b) /\ b.kind = "day" /\ b.at = "load" /\ b.next = 0
  BY <1>2, <1>3, Quiet, NewJobType
<1>. HIDE DEF b
<1>5. InPhase(stream', b)
  BY <1>4 DEF InPhase
<1>. QED
  BY <1>1, <1>3, <1>4, <1>5, Quiet, JobStep

\* StartSponsor.
LEMMA StartSponsorKeepsInv ==
    ASSUME DaysInv, NEW j \in Jobs, NEW k \in Commands, StartSponsor(j, k)
    PROVE  DaysInv'
<1>. DEFINE b == NewJob("sponsor", "load", k, 0, NoPlan)
<1>1. Become(j, b)
  <2>1. NoJob = [kind |-> None, at |-> "idle", op |-> None, days |-> 0, head |-> GenesisHead,
                 plan |-> NoPlan, next |-> 0, error |-> None]
    BY DEF NoJob
  <2>2. ASSUME NEW c, c = [NoJob EXCEPT !.kind = "sponsor", !.at = "load", !.op = k]
        PROVE  c = b
    BY <2>1, <2>2 DEF NewJob
  <2>. QED
    BY <2>2 DEF StartSponsor
<1>2. "load" \in Ats /\ k \in Operations \cup Commands \cup {None}
  BY DEF Ats
<1>3. UNCHANGED <<stream, pending, crashes>>
  BY DEF StartSponsor
<1>4. IsJob(stream', b) /\ b.kind = "sponsor" /\ b.at = "load" /\ b.op = k /\ b.next = 0
  BY <1>2, <1>3, Quiet, NewJobType
<1>. HIDE DEF b
<1>5. InPhase(stream', b)
  BY <1>4 DEF InPhase
<1>. QED
  BY <1>1, <1>3, <1>4, <1>5, Quiet, JobStep

\* StartReturn: the pending return names a day that the plan may lead to.
LEMMA StartReturnKeepsInv ==
    ASSUME DaysInv, NEW j \in Jobs, NEW op \in Returns, NEW shown \in 1..LastDay,
           NEW days \in 1..MaxReturnDays, StartReturn(j, op, shown, days)
    PROVE  DaysInv'
<1>. DEFINE b == IF Started(op) THEN NewJob("return", "reopen", op, 0, NoPlan)
                 ELSE NewJob("return", "load", op, days, NoPlan)
<1>1. Become(j, b)
  <2>1. NoJob = [kind |-> None, at |-> "idle", op |-> None, days |-> 0, head |-> GenesisHead,
                 plan |-> NoPlan, next |-> 0, error |-> None]
    BY DEF NoJob
  <2>2. ASSUME NEW c, c = [NoJob EXCEPT !.kind = "return", !.op = op, !.at = "reopen"]
        PROVE  c = NewJob("return", "reopen", op, 0, NoPlan)
    BY <2>1, <2>2 DEF NewJob
  <2>3. ASSUME NEW c, c = [NoJob EXCEPT !.kind = "return", !.op = op, !.at = "load",
                                        !.days = days]
        PROVE  c = NewJob("return", "load", op, days, NoPlan)
    BY <2>1, <2>3 DEF NewJob
  <2>. QED
    BY <2>2, <2>3 DEF StartReturn
<1>2. /\ StreamOfDays(stream') /\ MarkersOf(stream') /\ DaysLived(stream')
      /\ Grows(stream, stream') /\ stream' = stream
  BY GrowsIsReflexive DEF StartReturn, DaysInv
<1>3. PendingType' /\ crashes' \in 0..MaxCrashes
  <2>1. crashes' \in 0..MaxCrashes
    BY DEF StartReturn, DaysInv
  <2>2. CASE pending' = pending
    BY <2>1, <2>2 DEF DaysInv, PendingType
  <2>3. CASE pending' = [op |-> op, to |-> shown + days]
    <3>1. shown + days \in 2..(LastDay + MaxReturnDays)
      BY LastDayType, DaysAssumption
    <3>. QED
      BY <2>1, <2>3, <3>1 DEF PendingType
  <2>. QED
    BY <2>2, <2>3 DEF StartReturn
<1>4. /\ "load" \in Ats /\ "reopen" \in Ats
      /\ op \in Operations \cup Commands \cup {None}
  BY DEF Ats, Operations
<1>5. CASE Started(op)
  <2>1. b = NewJob("return", "reopen", op, 0, NoPlan)
    BY <1>5
  <2>. HIDE DEF b
  <2>2. IsJob(stream', b) /\ b.kind = "return" /\ b.at = "reopen" /\ b.op = op /\ b.next = 0
    BY <1>2, <1>4, <2>1, NewJobType
  <2>3. InPhase(stream', b)
    BY <1>2, <1>5, <2>2 DEF InPhase, Started
  <2>. QED
    BY <1>1, <1>2, <1>3, <2>2, <2>3, JobStep
<1>6. CASE ~Started(op)
  <2>1. b = NewJob("return", "load", op, days, NoPlan)
    BY <1>6
  <2>. HIDE DEF b
  <2>2. /\ IsJob(stream', b) /\ b.kind = "return" /\ b.at = "load" /\ b.op = op
        /\ b.days = days /\ b.next = 0
    BY <1>2, <1>4, <2>1, NewJobType
  <2>3. InPhase(stream', b)
    BY <2>2 DEF InPhase
  <2>. QED
    BY <1>1, <1>2, <1>3, <2>2, <2>3, JobStep
<1>. QED
  BY <1>5, <1>6

\* Finish, Reject and Crash: a job forgets what it held.
LEMMA EndsKeepInv ==
    ASSUME DaysInv, NEW j \in Jobs, Finish(j) \/ Reject(j) \/ Crash(j)
    PROVE  DaysInv'
<1>1. Become(j, NoJob) /\ stream' = stream
  BY DEF Finish, Reject, Crash
<1>2. PendingType'
  BY DEF Finish, Reject, Crash, DaysInv, PendingType
<1>3. crashes' \in 0..MaxCrashes
  BY DaysAssumption DEF Finish, Reject, Crash, DaysInv
<1>4. IsJob(stream, NoJob) /\ InPhase(stream, NoJob)
  BY JobHeld, EndedJob
<1>. QED
  BY <1>1, <1>2, <1>3, <1>4, QuietStep

-----------------------------------------------------------------------------
(* The steps: the head is loaded, the fence taken, a plan reopened *)

\* Dismiss: only the pending return is given up.
LEMMA DismissKeepsInv ==
    ASSUME DaysInv, Dismiss
    PROVE  DaysInv'
<1>1. stream' = stream /\ job' = job /\ crashes' = crashes /\ pending' = None
  BY DEF Dismiss
<1>2. PendingType'
  BY <1>1 DEF PendingType
<1>3. \A j \in Jobs : IsJob(stream, job[j]) /\ InPhase(stream, job[j])
  BY DEF DaysInv
<1>. QED
  BY <1>1, <1>2, <1>3 DEF DaysInv

\* LoadHead.
LEMMA LoadHeadKeepsInv ==
    ASSUME DaysInv, NEW j \in Jobs, LoadHead(j)
    PROVE  DaysInv'
<1>. DEFINE b == job[j]
            c == JobIn(b, "fence", b.days, stream.head, b.plan)
<1>1. UNCHANGED <<stream, pending, crashes>> /\ b.at = "load"
  BY DEF LoadHead
<1>2. IsJob(stream, b) /\ InPhase(stream, b) /\ StreamOfDays(stream)
  BY JobHeld
<1>3. Become(j, c)
  <2>1. b = [kind |-> b.kind, at |-> b.at, op |-> b.op, days |-> b.days, head |-> b.head,
             plan |-> b.plan, next |-> b.next, error |-> b.error]
    BY <1>2 DEF IsJob
  <2>2. ASSUME NEW d, d = [b EXCEPT !.at = "fence", !.head = stream.head]
        PROVE  d = c
    <3>. HIDE DEF b
    <3>. QED
      BY <2>1, <2>2 DEF JobIn
  <2>. QED
    BY <2>2 DEF LoadHead
<1>. HIDE DEF b
<1>4. IsPlan(b.plan) /\ Grounded(stream, b.plan) /\ b.next \in 0..TotalChapters(b.plan)
  BY <1>2 DEF IsJob
<1>5. "fence" \in Ats
  BY DEF Ats
<1>6. /\ IsJob(stream, c) /\ c.kind = b.kind /\ c.at = "fence" /\ c.op = b.op
      /\ c.days = b.days /\ c.next = b.next
  BY <1>2, <1>4, <1>5, HeadIsBehind, ChangedJob
<1>. HIDE DEF c
<1>7. InPhase(stream, c)
  BY <1>1, <1>2, <1>6 DEF InPhase
<1>. QED
  BY <1>1, <1>3, <1>6, <1>7, Quiet, QuietStep

\* The plan of a head, from the day of the head on.
LEMMA PlanOfHead ==
    ASSUME NEW s, StreamOfDays(s), NEW n \in 0..s.head.lastSequence,
           NEW m \in 0..n, NEW h, h.lastSequence = n, h.lastEventHash = LinksOf(s, m),
           h.revision \in Nat, h.fencingToken \in Nat,
           NEW op \in Operations, NEW from \in 0..MaxDay, from = DayOf(s, n),
           NEW to \in from..MaxDay
    PROVE  LET p == Plan(op, h, from, to)
           IN  IsPlan(p) /\ Grounded(s, p) /\ TotalChapters(p) \in Nat
<1>. DEFINE p == Plan(op, h, from, to)
            conf == [from |-> from, to |-> to, revision |-> h.revision,
                     sequence |-> h.lastSequence, token |-> h.fencingToken]
<1>1. p = [operation |-> op, eventHash |-> h.lastEventHash, confirmation |-> conf]
  BY DEF Plan
<1>2. p.operation = op /\ p.eventHash = h.lastEventHash /\ p.confirmation = conf
  BY <1>1
<1>3. /\ conf.from = from /\ conf.to = to /\ conf.revision = h.revision
      /\ conf.sequence = n /\ conf.token = h.fencingToken
  OBVIOUS
<1>4. s.head.lastSequence \in Nat /\ n \in Nat /\ m \in 0..s.head.lastSequence /\ m <= n
  BY HeadIsBehind
<1>5. h.lastEventHash \in Hash /\ Len(h.lastEventHash) = m
  BY <1>4, HeldHash
<1>6. from <= to /\ to \in 0..MaxDay /\ from \in Nat /\ to - from \in Nat
  BY LastDayType
<1>7. conf \in [from : 0..MaxDay, to : 0..MaxDay, revision : Nat, sequence : Nat, token : Nat]
  BY <1>4, <1>6
<1>. HIDE DEF p, conf
<1>8. IsPlan(p)
  BY <1>1, <1>2, <1>3, <1>5, <1>6, <1>7 DEF IsPlan
<1>9. Grounded(s, p)
  BY <1>2, <1>3, <1>4, <1>5 DEF Grounded
<1>10. TotalChapters(p) \in Nat
  BY <1>2, <1>3, <1>6 DEF TotalChapters
<1>. QED
  BY <1>8, <1>9, <1>10 DEF p

\* Prepared: a job goes on from the head its fence returned.
LEMMA PreparedType ==
    ASSUME NEW s, StreamOfDays(s), NEW b, IsJob(s, b), InPhase(s, b), b.at = "fence",
           NEW h, Behind(s, h), CompletedDay(h.lastSequence) = DayOf(s, h.lastSequence)
    PROVE  IsJob(s, Prepared(b, h)) /\ InPhase(s, Prepared(b, h))
<1>. DEFINE from == CompletedDay(h.lastSequence)
            to == IF from + b.days < MaxDay THEN from + b.days ELSE MaxDay
            own == IF b.op \in DayCommands THEN from + 1 ELSE from
            open == [b EXCEPT !.head = h]
            at(c) == /\ IsJob(s, c) /\ c.kind = b.kind /\ c.op = b.op /\ c.head = h
                     /\ c.next = b.next
<1>1. from \in Nat /\ from = DayOf(s, h.lastSequence)
  BY LastDayOfLedger, LastDayType
<1>2. b.next = 0 /\ 0 \in 0..TotalChapters(b.plan) /\ IsPlan(b.plan) /\ Grounded(s, b.plan)
  BY DEF InPhase, IsJob
<1>3. b = [kind |-> b.kind, at |-> b.at, op |-> b.op, days |-> b.days, head |-> b.head,
           plan |-> b.plan, next |-> b.next, error |-> b.error]
  BY DEF IsJob
<1>4. open = [kind |-> b.kind, at |-> b.at, op |-> b.op, days |-> b.days, head |-> h,
              plan |-> b.plan, next |-> b.next, error |-> b.error]
  BY <1>3
<1>5. \/ b.kind = "day"
      \/ b.kind = "sponsor" /\ b.op \in Commands
      \/ b.kind = "return" /\ b.op \in Returns /\ b.days \in 1..MaxReturnDays
  BY DEF InPhase
<1>6. "append" \in Ats /\ "begin" \in Ats
  BY DEF Ats
<1>. HIDE DEF open
<1>7. ASSUME b.kind = "sponsor", b.op \in Commands
      PROVE  IsJob(s, Prepared(b, h)) /\ InPhase(s, Prepared(b, h))
  <2>. DEFINE c == JobIn(b, "append", own, h, b.plan)
  <2>1. Prepared(b, h) = [open EXCEPT !.at = "append", !.days = own]
    BY <1>7 DEF Prepared, open
  <2>2. ASSUME NEW d, d = [open EXCEPT !.at = "append", !.days = own]
        PROVE  d = c
    <3>. HIDE DEF own
    <3>. QED
      BY <1>4, <2>2 DEF JobIn
  <2>3. /\ IsJob(s, c) /\ c.kind = b.kind /\ c.at = "append" /\ c.op = b.op
        /\ c.days = own /\ c.head = h
    <3>. HIDE DEF own
    <3>. QED
      BY <1>2, <1>6, ChangedJob
  <2>. HIDE DEF c
  <2>4. InPhase(s, c)
    BY <1>1, <1>7, <2>3 DEF InPhase, DayAfter
  <2>. QED
    BY <2>1, <2>2, <2>3, <2>4
<1>8. ASSUME b.kind # "sponsor", from >= MaxDay
      PROVE  IsJob(s, Prepared(b, h)) /\ InPhase(s, Prepared(b, h))
  <2>1. ~(from < MaxDay)
    BY <1>1, <1>8, LastDayType
  <2>2. Prepared(b, h) = Done(b)
    BY <1>8, <2>1 DEF Prepared
  <2>3. b.op \in Operations \cup Commands \cup {None}
    BY DEF IsJob
  <2>. QED
    BY <2>2, <2>3, EndedJob
<1>9. ASSUME b.kind = "day", from < MaxDay
      PROVE  IsJob(s, Prepared(b, h)) /\ InPhase(s, Prepared(b, h))
  <2>. DEFINE c == JobIn(b, "append", from + 1, h, b.plan)
  <2>0. ~(from >= MaxDay) /\ from + 1 \in 1..MaxDay
    BY <1>1, <1>9, LastDayType
  <2>1. Prepared(b, h) = [open EXCEPT !.at = "append", !.days = from + 1]
    BY <1>9, <2>0 DEF Prepared, open
  <2>2. ASSUME NEW d, d = [open EXCEPT !.at = "append", !.days = from + 1]
        PROVE  d = c
    <3>. HIDE DEF from
    <3>. QED
      BY <1>4, <2>2 DEF JobIn
  <2>3. /\ IsJob(s, c) /\ c.kind = b.kind /\ c.at = "append" /\ c.op = b.op
        /\ c.days = from + 1 /\ c.head = h
    <3>. HIDE DEF from
    <3>. QED
      BY <1>2, <1>6, ChangedJob
  <2>. HIDE DEF c
  <2>4. InPhase(s, c)
    BY <1>1, <1>9, <2>0, <2>3 DEF InPhase, DayAfter
  <2>. QED
    BY <2>1, <2>2, <2>3, <2>4
<1>10. ASSUME b.kind = "return", b.op \in Returns, b.days \in 1..MaxReturnDays, from < MaxDay
       PROVE  IsJob(s, Prepared(b, h)) /\ InPhase(s, Prepared(b, h))
  <2>. DEFINE p == Plan(b.op, h, from, to)
              c == JobIn(b, "begin", 0, h, p)
  <2>0. ~(from >= MaxDay) /\ from \in 0..MaxDay /\ to \in from..MaxDay
    BY <1>1, <1>10, LastDayType, DaysAssumption
  <2>1. Prepared(b, h) = [open EXCEPT !.at = "begin", !.days = 0, !.plan = p]
    BY <1>10, <2>0 DEF Prepared, open
  <2>2. ASSUME NEW d, d = [open EXCEPT !.at = "begin", !.days = 0, !.plan = p]
        PROVE  d = c
    <3>. HIDE DEF p
    <3>. QED
      BY <1>4, <2>2 DEF JobIn
  <2>3. IsPlan(p) /\ Grounded(s, p) /\ TotalChapters(p) \in Nat
    <3>1. /\ h.lastSequence \in 0..s.head.lastSequence
          /\ h.lastSequence \in 0..h.lastSequence
          /\ h.revision \in Nat /\ h.fencingToken \in Nat
          /\ h.lastEventHash = LinksOf(s, h.lastSequence)
      BY HeadIsBehind DEF Behind, AuthorityHead
    <3>2. b.op \in Operations
      BY <1>10 DEF Operations
    <3>. HIDE DEF from, to
    <3>. QED
      BY <1>1, <2>0, <3>1, <3>2, PlanOfHead
  <2>. HIDE DEF p
  <2>4. IsJob(s, c) /\ c.kind = b.kind /\ c.at = "begin" /\ c.op = b.op
    <3>1. b.next \in 0..TotalChapters(p)
      BY <1>2, <2>3
    <3>. QED
      BY <1>6, <2>3, <3>1, ChangedJob
  <2>. HIDE DEF c
  <2>5. InPhase(s, c)
    BY <1>10, <2>4 DEF InPhase, CatchesUp
  <2>. QED
    BY <2>1, <2>2, <2>4, <2>5
<1>. QED
  <2>1. from < MaxDay \/ from >= MaxDay
    BY <1>1, LastDayType
  <2>. HIDE DEF from
  <2>. QED
    BY <1>5, <1>7, <1>8, <1>9, <1>10, <2>1

\* TakeFence: no event is added, so the day of the head is the same.
LEMMA TakeFenceKeepsInv ==
    ASSUME DaysInv, NEW j \in Jobs, TakeFence(j)
    PROVE  DaysInv'
<1>. DEFINE b == job[j]
            r == [kind |-> "fence", expectedFencingToken |-> job[j].head.fencingToken]
            t == Fenced(stream, r)
<1>1. UNCHANGED <<pending, crashes>> /\ b.at = "fence"
  BY DEF TakeFence
<1>2. PendingType' /\ crashes' \in 0..MaxCrashes
  BY <1>1 DEF DaysInv, PendingType
<1>3. CASE MayFence(stream, r) /\ Write(t) /\ Become(j, Prepared(b, t.head))
  <2>1. /\ StreamOfDays(t) /\ Grows(stream, t) /\ MarkersOf(t) /\ DaysLived(t)
        /\ Behind(t, t.head)
    <3>. HIDE DEF r
    <3>. QED
      BY <1>3, JobHeld, FenceDays
  <2>2. t.head.lastSequence = stream.head.lastSequence /\ t.head = HeadFenced(stream.head, b.head.fencingToken)
    <3>1. t.head = HeadFenced(stream.head, b.head.fencingToken)
      BY JobHeld DEF Fenced, StreamOfDays, IsStream
    <3>. QED
      BY <3>1, JobHeld, HeadIsBehind, FenceKeepsHead
  <2>3. CompletedDay(t.head.lastSequence) = DayOf(t, t.head.lastSequence)
    <3>1. t.head.lastSequence \in 0..stream.head.lastSequence
      BY <2>2, JobHeld, HeadIsBehind
    <3>. HIDE DEF t
    <3>. QED
      BY <2>1, <3>1, CompletedDayIsDay, GrownLedger
  <2>4. IsJob(t, b) /\ InPhase(t, b)
    <3>. HIDE DEF t
    <3>. QED
      BY <2>1, JobHeld, JobKept
  <2>5. stream' = t
    BY <1>3 DEF Write
  <2>. HIDE DEF t, b
  <2>6. IsJob(t, Prepared(b, t.head)) /\ InPhase(t, Prepared(b, t.head))
    BY <1>1, <2>1, <2>3, <2>4, PreparedType
  <2>. QED
    BY <1>2, <1>3, <2>1, <2>5, <2>6, JobStep
<1>4. CASE Fail(j, "STALE_FENCE") /\ UNCHANGED stream
  BY SMTT(40), <1>1, <1>4, Quiet, FailStep
<1>. QED
  BY <1>3, <1>4 DEF TakeFence

\* Reopen: the rebuilt plan begins where the confirmed one did; its hash is a
\* prefix of the ledger, if not the one of the confirmed plan.
LEMMA ReopenKeepsInv ==
    ASSUME DaysInv, NEW j \in Jobs, Reopen(j)
    PROVE  DaysInv'
<1>. DEFINE b == job[j]
            marker == MarkerAt(Start(b.op))
            conf == marker.plan.confirmation
            id == IF Day(conf.from) \in DOMAIN stream.snapshots THEN Day(conf.from)
                  ELSE CHOOSE latest \in LatestSnapshots(stream) : TRUE
            origin == stream.snapshots[id]
            base == BaseOf(conf, origin)
            p == Plan(b.op, base, conf.from, conf.to)
            c == JobIn(b, "begin", b.days, b.head, p)
<1>1. UNCHANGED <<stream, pending, crashes>> /\ b.at = "reopen"
  BY DEF Reopen
<1>2. IsJob(stream, b) /\ InPhase(stream, b) /\ StreamOfDays(stream) /\ MarkersOf(stream)
  BY JobHeld
<1>3. b.kind = "return" /\ b.op \in Returns /\ Start(b.op) \in DOMAIN stream.receipts /\ b.next = 0
  BY <1>1, <1>2 DEF InPhase
<1>4. IsMarker(stream, marker)
  BY <1>2, <1>3, Ids DEF MarkersOf, MarkerOf, MarkerAt
<1>5. Known(stream)
  <2>1. CASE stream = Unborn
    BY <1>3, <2>1 DEF Unborn, EmptyMap
  <2>. QED
    BY <1>2, <2>1 DEF StreamOfDays
<1>6. id \in DOMAIN stream.snapshots
  BY <1>2, <1>5, LatestIsSaved
<1>7. CASE Fail(j, "INVALID_INPUT")
  BY <1>1, <1>7, Quiet, FailStep
<1>8. ASSUME ~(origin.baseSequence > conf.sequence), Become(j, [b EXCEPT !.at = "begin", !.plan = p])
      PROVE  DaysInv'
  <2>1. Become(j, c)
    <3>1. b = [kind |-> b.kind, at |-> b.at, op |-> b.op, days |-> b.days, head |-> b.head,
               plan |-> b.plan, next |-> b.next, error |-> b.error]
      BY <1>2 DEF IsJob
    <3>2. ASSUME NEW d, d = [b EXCEPT !.at = "begin", !.plan = p]
          PROVE  d = c
      <4>. HIDE DEF b, p
      <4>. QED
        BY <3>1, <3>2 DEF JobIn
    <3>. HIDE DEF b, p, c
    <3>. QED
      BY <1>8, <3>2
  <2>2. /\ origin.baseSequence \in 0..stream.head.lastSequence
        /\ origin.lastEventHash = LinksOf(stream, origin.baseSequence)
    <3>. HIDE DEF id
    <3>. QED
      BY <1>2, <1>6 DEF StreamOfDays
  <2>3. /\ conf.sequence \in 0..stream.head.lastSequence
        /\ conf.from = DayOf(stream, conf.sequence)
        /\ conf.from \in 0..MaxDay /\ conf.to \in conf.from..MaxDay
        /\ conf.revision \in Nat /\ conf.token \in Nat
    <3>1. IsPlan(marker.plan) /\ Grounded(stream, marker.plan)
      BY <1>4 DEF IsMarker
    <3>. HIDE DEF marker
    <3>2. /\ conf \in [from : 0..MaxDay, to : 0..MaxDay, revision : Nat, sequence : Nat,
                       token : Nat]
          /\ conf.from <= conf.to
      BY <3>1 DEF IsPlan
    <3>3. conf.sequence <= stream.head.lastSequence /\ conf.from = DayOf(stream, conf.sequence)
      BY <3>1 DEF Grounded
    <3>. HIDE DEF conf
    <3>. QED
      BY <1>2, <3>2, <3>3, HeadIsBehind, LastDayType
  <2>4. base = [revision |-> conf.revision, lastSequence |-> conf.sequence,
                fencingToken |-> conf.token, lastEventHash |-> origin.lastEventHash]
    BY DEF BaseOf
  <2>. HIDE DEF origin, conf, base
  <2>5. IsPlan(p) /\ Grounded(stream, p) /\ TotalChapters(p) \in Nat
    <3>1. origin.baseSequence \in 0..conf.sequence
      BY <1>2, <1>8, <2>2, <2>3, HeadIsBehind
    <3>2. /\ base.lastSequence = conf.sequence /\ base.revision \in Nat
          /\ base.fencingToken \in Nat
          /\ base.lastEventHash = LinksOf(stream, origin.baseSequence)
      BY <2>2, <2>3, <2>4
    <3>3. b.op \in Operations
      BY <1>3 DEF Operations
    <3>. QED
      BY <1>2, <2>3, <3>1, <3>2, <3>3, PlanOfHead
  <2>6. "begin" \in Ats /\ Behind(stream, b.head) /\ b.next \in 0..TotalChapters(p)
    BY <1>2, <1>3, <2>5 DEF Ats, IsJob
  <2>. HIDE DEF p, b
  <2>7. IsJob(stream, c) /\ c.kind = b.kind /\ c.at = "begin" /\ c.op = b.op
    BY <1>2, <2>5, <2>6, ChangedJob
  <2>. HIDE DEF c
  <2>8. InPhase(stream, c)
    BY <1>3, <2>7 DEF InPhase, CatchesUp
  <2>. QED
    BY <1>1, <2>1, <2>7, <2>8, Quiet, QuietStep
<1>. QED
  BY <1>7, <1>8 DEF Reopen

-----------------------------------------------------------------------------
(* The steps: one event, and the chapters of an operation *)

\* The step of a job that has added an event or a receipt, or read the head.
LEMMA MoveStep ==
    ASSUME DaysInv, NEW j \in Jobs, NEW b, Become(j, b), NEW t, stream' = t,
           Grows(stream, t), StreamOfDays(t), MarkersOf(t), DaysLived(t),
           IsJob(t, b), InPhase(t, b), UNCHANGED <<pending, crashes>>
    PROVE  DaysInv'
<1>1. PendingType' /\ crashes' \in 0..MaxCrashes
  BY DEF DaysInv, PendingType
<1>. QED
  BY <1>1, JobStep

\* The live day's event: the day after the head it was prepared on.
LEMMA AppendDay ==
    ASSUME DaysInv, NEW j \in Jobs, job[j].at = "append", job[j].kind = "day",
           MayAppend(stream, DayRequest(job[j].head, job[j].days)),
           NEW t, t = Appended(stream, DayRequest(job[j].head, job[j].days)),
           stream' = t, Become(j, [job[j] EXCEPT !.head = t.head, !.at = "readback"]),
           UNCHANGED <<pending, crashes>>
    PROVE  DaysInv'
<1>. DEFINE b == job[j]
            h == b.head
            d == b.days
            c == JobIn(b, "readback", d, t.head, b.plan)
<1>1. /\ IsJob(stream, b) /\ InPhase(stream, b) /\ StreamOfDays(stream)
      /\ MarkersOf(stream) /\ DaysLived(stream)
  BY JobHeld
<1>2. d \in 1..MaxDay /\ d = DayOf(stream, h.lastSequence) + 1 /\ h \in AuthorityHead
  BY <1>1 DEF InPhase, DayAfter, IsJob, Behind
<1>3. Become(j, c)
  <2>1. b = [kind |-> b.kind, at |-> b.at, op |-> b.op, days |-> b.days, head |-> b.head,
             plan |-> b.plan, next |-> b.next, error |-> b.error]
    BY <1>1 DEF IsJob
  <2>2. ASSUME NEW e, e = [b EXCEPT !.head = t.head, !.at = "readback"]
        PROVE  e = c
    <3>. HIDE DEF b
    <3>. QED
      BY <2>1, <2>2 DEF JobIn
  <2>. HIDE DEF c, b
  <2>. QED
    BY <2>2 DEF b
<1>. HIDE DEF b, d, h, c
<1>4. Day(d) \in AppendIds \cap BatchIds /\ Day(d) \in EventIds /\ d \in 1..LastDay
  BY <1>2, LastDayType, IdsAssumption
<1>5. /\ MayAppend(stream, BuildAppend(h, Day(d), Day(d), <<Day(d)>>))
      /\ t = Appended(stream, BuildAppend(h, Day(d), Day(d), <<Day(d)>>))
  BY DEF DayRequest, h, d, b
<1>6. h.lastSequence = stream.head.lastSequence
  BY SMTT(60), <1>1, <1>2, <1>4, <1>5, OneEvent
<1>7. /\ Day(d)[1] \notin {"start", "progress"}
      /\ \A e \in 1..LastDay : LivesDay(Day(d), e) => e = DayOf(stream, stream.head.lastSequence) + 1
      /\ \E e \in 1..LastDay : LivesDay(Day(d), e)
  BY <1>2, <1>4, <1>6, Ids
<1>8. DayOf(stream, stream.head.lastSequence) + 1 <= MaxDay + Cardinality(BoundariesLived(t))
  <2>1. BoundariesLived(t) \subseteq DayCommands
    BY DEF BoundariesLived
  <2>2. Cardinality(BoundariesLived(t)) \in Nat
    BY <2>1, DaysAssumption, FS_Subset, FS_CardinalityType
  <2>. QED
    BY <1>2, <1>6, <2>2, LastDayType
<1>9. StreamOfDays(t) /\ Grows(stream, t)
  BY <1>1, <1>2, <1>4, <1>5, OneEventGrows
<1>10. /\ MarkersOf(t) /\ DaysLived(t)
       /\ DayOf(t, t.head.lastSequence) = DayOf(stream, stream.head.lastSequence) + 1
  BY <1>1, <1>2, <1>4, <1>5, <1>7, <1>8, OneEventDays
<1>11. IsJob(t, b)
  BY <1>1, <1>9, JobKept
<1>12. /\ IsJob(t, c) /\ c.kind = b.kind /\ c.at = "readback" /\ c.days = d
       /\ c.head = t.head
  <2>1. "readback" \in Ats /\ IsPlan(b.plan) /\ Grounded(t, b.plan)
        /\ b.next \in 0..TotalChapters(b.plan)
    BY <1>11 DEF IsJob, Ats
  <2>. QED
    BY <1>9, <1>11, <2>1, HeadIsBehind, ChangedJob DEF c
<1>13. InPhase(t, c)
  <2>1. c.days = DayOf(t, c.head.lastSequence)
    BY <1>2, <1>6, <1>10, <1>12
  <2>2. c.kind = "day"
    BY <1>12 DEF b
  <2>. QED
    BY <1>12, <2>1, <2>2 DEF InPhase
<1>. QED
  BY <1>3, <1>9, <1>10, <1>12, <1>13, MoveStep

\* The sponsor's event: a boundary is one more day, of those that are left.
LEMMA AppendSponsor ==
    ASSUME DaysInv, NEW j \in Jobs, job[j].at = "append", job[j].kind # "day",
           NEW a, a = <<"sponsor", job[j].op>>, NEW e, e = Sponsor(job[j].op, job[j].days),
           MayAppend(stream, BuildAppend(job[j].head, a, a, <<e>>)),
           NEW t, t = Appended(stream, BuildAppend(job[j].head, a, a, <<e>>))
    PROVE  /\ StreamOfDays(t) /\ Grows(stream, t) /\ MarkersOf(t) /\ DaysLived(t)
           /\ e \in EventIds /\ a \in AppendIds \cap BatchIds
<1>. DEFINE b == job[j]
            h == b.head
            k == b.op
            d == b.days
            today == DayOf(stream, stream.head.lastSequence)
<1>1. /\ IsJob(stream, b) /\ InPhase(stream, b) /\ StreamOfDays(stream)
      /\ MarkersOf(stream) /\ DaysLived(stream)
  BY JobHeld
<1>2. /\ k \in Commands /\ h \in AuthorityHead
      /\ d = IF k \in DayCommands THEN DayOf(stream, h.lastSequence) + 1
             ELSE DayOf(stream, h.lastSequence)
  BY <1>1 DEF InPhase, DayAfter, IsJob, Behind
<1>3. /\ h.lastSequence = stream.head.lastSequence
      /\ a \notin DOMAIN stream.receipts
  BY DEF MayAppend, AddressesHead, BuildAppend
<1>4. today \in Nat /\ today \in 0..LastDay
  BY LastDayOfLedger, LastDayType
<1>5. a \in AppendIds \cap BatchIds
  BY <1>2, IdsAssumption
<1>. HIDE DEF b, k, h, d, today
<1>6. a = <<"sponsor", k>> /\ e = Sponsor(k, d)
  BY DEF b, k, d
<1>7. ASSUME k \in DayCommands
      PROVE  /\ k \notin BoundariesLived(stream)
             /\ IsFiniteSet(BoundariesLived(stream))
             /\ Cardinality(BoundariesLived(stream)) \in Nat
             /\ Cardinality(BoundariesLived(stream) \cup {k})
                  = Cardinality(BoundariesLived(stream)) + 1
             /\ Cardinality(BoundariesLived(stream) \cup {k}) <= Cardinality(DayCommands)
             /\ today + 1 <= MaxDay + Cardinality(BoundariesLived(stream) \cup {k})
             /\ today + 1 \in 0..LastDay
  <2>1. k \notin BoundariesLived(stream)
    BY <1>3, <1>6 DEF BoundariesLived
  <2>2. BoundariesLived(stream) \cup {k} \subseteq DayCommands
    BY <1>7 DEF BoundariesLived
  <2>3. /\ IsFiniteSet(BoundariesLived(stream)) /\ IsFiniteSet(DayCommands)
        /\ Cardinality(BoundariesLived(stream)) \in Nat
    BY <2>2, DaysAssumption, FS_Subset, FS_CardinalityType
  <2>4. Cardinality(BoundariesLived(stream) \cup {k}) = Cardinality(BoundariesLived(stream)) + 1
    BY <2>1, <2>3, FS_AddElement
  <2>5. Cardinality(BoundariesLived(stream) \cup {k}) <= Cardinality(DayCommands)
    BY <2>2, <2>3, FS_Subset
  <2>6. today <= MaxDay + Cardinality(BoundariesLived(stream))
    BY <1>1 DEF DaysLived, today
  <2>7. /\ today + 1 <= MaxDay + Cardinality(BoundariesLived(stream) \cup {k})
        /\ today + 1 \in 0..LastDay
    BY <1>4, <2>3, <2>4, <2>5, <2>6, LastDayType
  <2>. QED
    BY <2>1, <2>3, <2>4, <2>5, <2>7
<1>8. d = IF k \in DayCommands THEN today + 1 ELSE today
  BY <1>2, <1>3 DEF today
<1>9. d \in 0..LastDay
  BY <1>4, <1>7, <1>8
<1>10. e \in EventIds
  BY <1>2, <1>6, <1>9, IdsAssumption
<1>11. /\ MayAppend(stream, BuildAppend(h, a, a, <<e>>))
       /\ t = Appended(stream, BuildAppend(h, a, a, <<e>>))
  BY DEF h, b
<1>12. StreamOfDays(t) /\ Grows(stream, t)
  BY SMTT(40), <1>1, <1>2, <1>5, <1>10, <1>11, OneEventGrows
<1>13. DOMAIN t.receipts = DOMAIN stream.receipts \cup {a}
  BY SMTT(60), <1>1, <1>2, <1>5, <1>10, <1>11, OneEvent
<1>14. \A f \in 1..LastDay : LivesDay(e, f) => k \in DayCommands /\ f = today + 1
  BY <1>6, <1>8, Ids
<1>15. (\E f \in 1..LastDay : LivesDay(e, f))
          => today + 1 <= MaxDay + Cardinality(BoundariesLived(t))
  <2>1. SUFFICES ASSUME k \in DayCommands
                 PROVE  today + 1 <= MaxDay + Cardinality(BoundariesLived(t))
    BY <1>14
  <2>2. BoundariesLived(t) = BoundariesLived(stream) \cup {k}
    <3>1. \A x : <<"sponsor", x>> = <<"sponsor", k>> <=> x = k
      OBVIOUS
    <3>. QED
      BY <1>6, <1>13, <2>1, <3>1 DEF BoundariesLived
  <2>. QED
    BY <1>7, <2>1, <2>2
<1>16. a[1] \notin {"start", "progress"}
  BY <1>6, Ids
<1>17. /\ \A f \in 1..LastDay :
             LivesDay(e, f) => f = DayOf(stream, stream.head.lastSequence) + 1
       /\ (\E f \in 1..LastDay : LivesDay(e, f))
             => DayOf(stream, stream.head.lastSequence) + 1
                  <= MaxDay + Cardinality(BoundariesLived(t))
  BY <1>14, <1>15 DEF today
<1>18. MarkersOf(t) /\ DaysLived(t)
  BY <1>1, <1>2, <1>5, <1>10, <1>11, <1>16, <1>17, OneEventDays
<1>. QED
  BY <1>5, <1>10, <1>12, <1>18

\* Append1.
LEMMA Append1KeepsInv ==
    ASSUME DaysInv, NEW j \in Jobs, Append1(j)
    PROVE  DaysInv'
<1>. DEFINE b == job[j]
            a == <<"sponsor", b.op>>
            e == Sponsor(b.op, b.days)
            r == IF b.kind = "day" THEN DayRequest(b.head, b.days)
                 ELSE BuildAppend(b.head, a, a, <<e>>)
            t == Appended(stream, r)
<1>1. UNCHANGED <<pending, crashes>> /\ b.at = "append"
  BY DEF Append1
<1>2. CASE b.kind = "day" /\ MayAppend(stream, r)
  <2>1. r = DayRequest(b.head, b.days)
    BY <1>2
  <2>2. stream' = t /\ Become(j, [b EXCEPT !.head = t.head, !.at = "readback"])
    BY <1>2 DEF Append1, Write
  <2>. HIDE DEF r
  <2>3. t = Appended(stream, DayRequest(b.head, b.days)) /\ MayAppend(stream, DayRequest(b.head, b.days))
    BY <1>2, <2>1
  <2>. HIDE DEF t
  <2>. QED
    BY <1>1, <1>2, <2>2, <2>3, AppendDay
<1>3. CASE b.kind # "day" /\ MayAppend(stream, r)
  <2>1. r = BuildAppend(b.head, a, a, <<e>>)
    BY <1>3
  <2>2. stream' = t /\ Succeed(j)
    BY <1>3 DEF Append1, Write
  <2>. HIDE DEF r
  <2>3. /\ t = Appended(stream, BuildAppend(b.head, a, a, <<e>>))
        /\ MayAppend(stream, BuildAppend(b.head, a, a, <<e>>))
    BY <1>3, <2>1
  <2>. HIDE DEF t
  <2>4. StreamOfDays(t) /\ Grows(stream, t) /\ MarkersOf(t) /\ DaysLived(t)
    <3>1. a = <<"sponsor", job[j].op>> /\ e = Sponsor(job[j].op, job[j].days)
      OBVIOUS
    <3>2. job[j].at = "append" /\ job[j].kind # "day"
      BY <1>1, <1>3
    <3>. HIDE DEF a, e
    <3>. QED
      BY <2>3, <3>1, <3>2, AppendSponsor
  <2>5. PendingType' /\ crashes' \in 0..MaxCrashes
    BY <1>1 DEF DaysInv, PendingType
  <2>. QED
    BY <2>2, <2>4, <2>5, SucceedStep
<1>4. CASE ~MayAppend(stream, r)
  <2>1. Fail(j, "STALE") /\ UNCHANGED stream
    BY <1>4 DEF Append1
  <2>. QED
    BY <1>1, <2>1, Quiet, FailStep
<1>. QED
  BY <1>2, <1>3, <1>4

\* RefuseSponsor: the refusal is a receipt of the command, and no marker.
LEMMA RefuseSponsorKeepsInv ==
    ASSUME DaysInv, NEW j \in Jobs, RefuseSponsor(j)
    PROVE  DaysInv'
<1>. DEFINE b == job[j]
            a == <<"sponsor", b.op>>
            t == Rejected(stream, BuildRejection(b.head, a, None))
<1>1. /\ UNCHANGED <<pending, crashes>> /\ b.at = "append" /\ b.kind = "sponsor"
      /\ MayReject(stream, BuildRejection(b.head, a, None))
      /\ stream' = t /\ Fail(j, "COMMAND_REJECTED")
  BY DEF RefuseSponsor, Write
<1>2. IsJob(stream, b) /\ InPhase(stream, b)
  BY JobHeld
<1>3. b.op \in Commands /\ b.head \in AuthorityHead
  BY <1>1, <1>2 DEF InPhase, IsJob, Behind
<1>4. a \in AppendIds /\ a[1] \notin {"start", "progress"}
  BY <1>3, IdsAssumption, Ids
<1>5. \A op, n : a # Progress(op, n)
  BY <1>4, Ids
<1>. HIDE DEF a, b
<1>6. StreamOfDays(t) /\ Grows(stream, t) /\ MarkersOf(t) /\ DaysLived(t)
  BY <1>1, <1>3, <1>4, <1>5, JobHeld, RejectionDays
<1>7. PendingType' /\ crashes' \in 0..MaxCrashes
  BY <1>1 DEF DaysInv, PendingType
<1>. QED
  BY <1>1, <1>6, <1>7, FailStep

-----------------------------------------------------------------------------
(* The steps of persistAuthorityCatchUp *)

\* OpenOperation: the head is read before the plan's prefix is looked for.
LEMMA OpenOperationKeepsInv ==
    ASSUME DaysInv, NEW j \in Jobs, OpenOperation(j)
    PROVE  DaysInv'
<1>. DEFINE b == job[j]
            c == JobIn(b, "start", b.days, stream.head, b.plan)
<1>1. UNCHANGED <<stream, pending, crashes>> /\ b.at = "begin"
  BY DEF OpenOperation
<1>2. IsJob(stream, b) /\ InPhase(stream, b) /\ StreamOfDays(stream)
  BY JobHeld
<1>3. Become(j, c)
  <2>1. b = [kind |-> b.kind, at |-> b.at, op |-> b.op, days |-> b.days, head |-> b.head,
             plan |-> b.plan, next |-> b.next, error |-> b.error]
    BY <1>2 DEF IsJob
  <2>2. ASSUME NEW d, d = [b EXCEPT !.at = "start", !.head = stream.head]
        PROVE  d = c
    <3>. HIDE DEF b
    <3>. QED
      BY <2>1, <2>2 DEF JobIn
  <2>. QED
    BY <2>2 DEF OpenOperation
<1>. HIDE DEF b
<1>4. /\ IsPlan(b.plan) /\ Grounded(stream, b.plan) /\ b.next \in 0..TotalChapters(b.plan)
      /\ "start" \in Ats
  BY <1>2 DEF IsJob, Ats
<1>5. /\ IsJob(stream, c) /\ c.kind = b.kind /\ c.at = "start" /\ c.op = b.op
      /\ c.plan = b.plan
  BY <1>2, <1>4, HeadIsBehind, ChangedJob
<1>. HIDE DEF c
<1>6. InPhase(stream, c)
  BY <1>1, <1>2, <1>5 DEF InPhase, CatchesUp
<1>. QED
  BY <1>1, <1>3, <1>5, <1>6, Quiet, QuietStep

\* A marker that a job writes: its plan, and chapters that are stored.
LEMMA MarkerOfJob ==
    ASSUME NEW s, NEW b, IsJob(s, b), NEW n \in 0..TotalChapters(b.plan),
           Stored(s, b.plan, n)
    PROVE  /\ IsMarker(s, Marker(b.plan, n))
           /\ Marker(b.plan, n).plan = b.plan /\ Marker(b.plan, n).nextChapter = n
<1>1. Marker(b.plan, n).plan = b.plan /\ Marker(b.plan, n).nextChapter = n
  BY DEF Marker
<1>2. IsPlan(b.plan) /\ Grounded(s, b.plan)
  BY DEF IsJob
<1>. QED
  BY <1>1, <1>2 DEF IsMarker

\* A job records a marker, or finds it recorded, and goes on after its chapters.
LEMMA RecordStep ==
    ASSUME DaysInv, NEW j \in Jobs, NEW b, b = job[j], CatchesUp(b),
           NEW n \in 0..TotalChapters(b.plan), Stored(stream, b.plan, n),
           NEW a \in AppendIds, NEW r, r = Record(a, b.head, Marker(b.plan, n)),
           \/ a = Start(b.op)
           \/ /\ HasRecordedPlan(stream, b)
              /\ \E m \in 0..MaxDay : a = Progress(b.op, m) /\ n = m + 1,
           \/ MayReject(stream, r) /\ stream' = Rejected(stream, r)
           \/ IsRetry(stream, r) /\ stream' = stream,
           Onward(j, n, b.head), UNCHANGED <<pending, crashes>>
    PROVE  DaysInv'
<1>. DEFINE m == Marker(b.plan, n)
            t == stream'
            c == OnwardJob(b, n, b.head)
<1>1. IsJob(stream, b) /\ InPhase(stream, b) /\ b.head \in AuthorityHead
  BY JobHeld DEF IsJob, Behind
<1>2. IsMarker(stream, m) /\ m.plan = b.plan /\ m.nextChapter = n
  BY <1>1, MarkerOfJob
<1>. HIDE DEF m
<1>3. r = BuildRejection(b.head, a, m)
  BY DEF Record, m
<1>4. /\ StreamOfDays(t) /\ Grows(stream, t) /\ MarkersOf(t) /\ DaysLived(t)
      /\ a \in DOMAIN t.receipts /\ MarkerOf(t, a) = m
  <2>1. CASE MayReject(stream, r) /\ stream' = Rejected(stream, r)
    <3>1. \A op \in Operations, i \in 0..MaxDay : a = Progress(op, i) =>
             /\ Start(op) \in DOMAIN stream.receipts
             /\ m.plan = MarkerOf(stream, Start(op)).plan
             /\ m.nextChapter = i + 1
      <4>1. SUFFICES ASSUME NEW op \in Operations, NEW i \in 0..MaxDay, a = Progress(op, i)
                     PROVE  /\ Start(op) \in DOMAIN stream.receipts
                            /\ m.plan = MarkerOf(stream, Start(op)).plan
                            /\ m.nextChapter = i + 1
        OBVIOUS
      <4>2. a # Start(b.op)
        BY <4>1, Ids
      <4>3. HasRecordedPlan(stream, b) /\ a = Progress(b.op, i) /\ n = i + 1 /\ op = b.op
        BY <4>1, <4>2, Ids
      <4>. QED
        BY <1>2, <4>3 DEF HasRecordedPlan
    <3>2. a[1] \in {"start", "progress"} => IsMarker(stream, m)
      BY <1>2
    <3>3. t = Rejected(stream, BuildRejection(b.head, a, m))
          /\ MayReject(stream, BuildRejection(b.head, a, m))
      BY <1>3, <2>1
    <3>. HIDE DEF t
    <3>. QED
      BY <1>1, <3>1, <3>2, <3>3, JobHeld, RejectionDays
  <2>2. CASE IsRetry(stream, r) /\ stream' = stream
    <3>1. r.appendId = a /\ r.commandReceipt = m
      BY <1>3 DEF BuildRejection
    <3>2. a \in DOMAIN stream.receipts /\ MarkerOf(stream, a) = m
      BY <2>2, <3>1 DEF IsRetry, MarkerOf
    <3>. QED
      BY <2>2, <3>2, JobHeld, GrowsIsReflexive
  <2>. QED
    BY <2>1, <2>2
<1>5. IsJob(t, b) /\ InPhase(t, b)
  BY <1>1, <1>4, JobKept
<1>6. HasRecordedPlan(t, b)
  <2>1. CASE a = Start(b.op)
    BY <1>2, <1>4, <2>1 DEF HasRecordedPlan
  <2>2. CASE HasRecordedPlan(stream, b)
    <3>1. Start(b.op) \in DOMAIN stream.receipts
      BY <2>2 DEF HasRecordedPlan
    <3>2. Start(b.op) \in DOMAIN t.receipts
      BY <1>4, <3>1 DEF Grows
    <3>3. MarkerOf(t, Start(b.op)) = MarkerOf(stream, Start(b.op))
      BY <1>4, <3>1, GrownFacts
    <3>. QED
      BY <2>2, <3>2, <3>3 DEF HasRecordedPlan
  <2>. QED
    BY <2>1, <2>2
<1>7. Stored(t, b.plan, n) /\ Behind(t, b.head)
  BY <1>4, <1>5, GrownFacts DEF IsJob
<1>8. IsJob(t, c) /\ InPhase(t, c)
  <2>. HIDE DEF t
  <2>. QED
    BY <1>5, <1>6, <1>7, OnwardType
<1>9. Become(j, c)
  BY DEF Onward, OnwardJob
<1>. HIDE DEF c
<1>. QED
  BY <1>4, <1>8, <1>9, MoveStep

\* BeginOperation: the chapters before the marker are stored with the bytes of
\* the plan.
LEMMA BeginOperationKeepsInv ==
    ASSUME DaysInv, NEW j \in Jobs, BeginOperation(j)
    PROVE  DaysInv'
<1>. DEFINE b == job[j]
            n == Prefix(b.plan)
            r == Record(Start(b.op), b.head, Marker(b.plan, n))
<1>1. UNCHANGED <<pending, crashes>> /\ b.at = "start"
  BY DEF BeginOperation
<1>2. IsJob(stream, b) /\ InPhase(stream, b) /\ IsPlan(b.plan)
  BY JobHeld DEF IsJob
<1>3. CatchesUp(b)
  BY <1>1, <1>2 DEF InPhase
<1>4. b.op \in Operations
  BY <1>3 DEF CatchesUp, Operations
<1>5. Start(b.op) \in AppendIds
  BY <1>4, IdsAssumption
<1>6. n \in 0..TotalChapters(b.plan)
  BY <1>2, PrefixType
<1>7. CASE Fail(j, "STALE") /\ UNCHANGED stream
  BY <1>1, <1>7, Quiet, FailStep
<1>8. CASE Fail(j, "CATCH_UP_ID_COLLISION") /\ UNCHANGED stream
  BY <1>1, <1>8, Quiet, FailStep
<1>9. ASSUME Committed(b.plan, n), Onward(j, n, b.head),
             \/ MayReject(stream, r) /\ stream' = Rejected(stream, r)
             \/ IsRetry(stream, r) /\ stream' = stream
      PROVE  DaysInv'
  <2>1. Stored(stream, b.plan, n)
    BY <1>9 DEF Committed, Stored
  <2>2. r = Record(Start(b.op), b.head, Marker(b.plan, n)) /\ b = job[j]
    OBVIOUS
  <2>. HIDE DEF b, n, r
  <2>. QED
    BY <1>1, <1>3, <1>5, <1>6, <1>9, <2>1, <2>2, RecordStep
<1>. QED
  BY <1>7, <1>8, <1>9 DEF BeginOperation, Write

\* ContinueOperation: the markers say what is stored.
LEMMA ContinueOperationKeepsInv ==
    ASSUME DaysInv, NEW j \in Jobs, ContinueOperation(j)
    PROVE  DaysInv'
<1>. DEFINE b == job[j]
            n == Furthest(b.op)
            c == OnwardJob(b, n, stream.head)
<1>1. UNCHANGED <<stream, pending, crashes>> /\ b.at = "begin" /\ Started(b.op)
  BY DEF ContinueOperation
<1>2. IsJob(stream, b) /\ InPhase(stream, b) /\ StreamOfDays(stream) /\ MarkersOf(stream)
  BY JobHeld
<1>3. CatchesUp(b)
  BY <1>1, <1>2 DEF InPhase
<1>4. b.op \in Operations
  BY <1>3 DEF CatchesUp, Operations
<1>5. CASE ~RecordedPlan(b)
  <2>1. Fail(j, "CATCH_UP_ID_COLLISION")
    BY <1>5 DEF ContinueOperation
  <2>. QED
    BY <1>1, <2>1, Quiet, FailStep
<1>6. CASE RecordedPlan(b)
  <2>1. Become(j, c)
    BY <1>6 DEF ContinueOperation, Onward, OnwardJob
  <2>2. HasRecordedPlan(stream, b) /\ MarkerAt(Start(b.op)).plan = b.plan
    BY <1>1, <1>6 DEF RecordedPlan, HasRecordedPlan, Started, MarkerAt, MarkerOf
  <2>3. n \in 0..TotalChapters(b.plan) /\ Stored(stream, b.plan, n)
    <3>. HIDE DEF b
    <3>. QED
      BY <1>1, <1>2, <1>4, <2>2, FurthestIsTrue
  <2>. HIDE DEF b, n
  <2>4. IsJob(stream, c) /\ InPhase(stream, c)
    BY <1>2, <1>3, <2>2, <2>3, HeadIsBehind, OnwardType
  <2>. HIDE DEF c
  <2>. QED
    BY <1>1, <2>1, <2>4, Quiet, QuietStep
<1>. QED
  BY <1>5, <1>6

\* A chapter is there: the job marks it at the head it knows.
LEMMA ChapterStep ==
    ASSUME DaysInv, NEW j \in Jobs, NEW b, b = job[j], b.at = "chapter",
           NEW t, stream' = t, StreamOfDays(t), Grows(stream, t), MarkersOf(t), DaysLived(t),
           IsRetry(t, Chapter(b.plan, b.next + 1)),
           Become(j, [b EXCEPT !.at = "mark", !.head = t.head]), UNCHANGED <<pending, crashes>>
    PROVE  DaysInv'
<1>. DEFINE c == JobIn(b, "mark", b.days, t.head, b.plan)
<1>1. IsJob(stream, b) /\ InPhase(stream, b)
  BY JobHeld
<1>2. IsJob(t, b) /\ InPhase(t, b)
  BY <1>1, JobKept
<1>3. Become(j, c)
  <2>1. b = [kind |-> b.kind, at |-> b.at, op |-> b.op, days |-> b.days, head |-> b.head,
             plan |-> b.plan, next |-> b.next, error |-> b.error]
    BY <1>1 DEF IsJob
  <2>2. ASSUME NEW d, d = [b EXCEPT !.at = "mark", !.head = t.head]
        PROVE  d = c
    BY <2>1, <2>2 DEF JobIn
  <2>. HIDE DEF c
  <2>. QED
    BY <2>2
<1>4. /\ IsPlan(b.plan) /\ Grounded(t, b.plan) /\ b.next \in 0..TotalChapters(b.plan)
      /\ "mark" \in Ats
  BY <1>2 DEF IsJob, Ats
<1>5. /\ IsJob(t, c) /\ c.kind = b.kind /\ c.at = "mark" /\ c.op = b.op /\ c.plan = b.plan
      /\ c.next = b.next
  BY <1>2, <1>4, HeadIsBehind, ChangedJob
<1>. HIDE DEF c
<1>6. CatchesUp(b) /\ HasRecordedPlan(t, b) /\ b.next < TotalChapters(b.plan)
      /\ Stored(t, b.plan, b.next)
  BY <1>2 DEF InPhase
<1>7. CatchesUp(c) /\ HasRecordedPlan(t, c) /\ c.next < TotalChapters(c.plan)
      /\ Stored(t, c.plan, c.next) /\ IsRetry(t, Chapter(c.plan, c.next + 1))
  BY <1>5, <1>6 DEF CatchesUp, HasRecordedPlan
<1>8. InPhase(t, c)
  BY <1>5, <1>7 DEF InPhase
<1>. QED
  BY <1>3, <1>5, <1>8, MoveStep

\* AppendChapter: the next day, or a chapter that was there already.
LEMMA AppendChapterKeepsInv ==
    ASSUME DaysInv, NEW j \in Jobs, AppendChapter(j)
    PROVE  DaysInv'
<1>. DEFINE b == job[j]
            i == b.next + 1
            r == Chapter(b.plan, i)
            t == Appended(stream, r)
            d == b.plan.confirmation.from + i
<1>1. UNCHANGED <<pending, crashes>> /\ b.at = "chapter"
  BY DEF AppendChapter
<1>2. /\ IsJob(stream, b) /\ InPhase(stream, b) /\ StreamOfDays(stream)
      /\ MarkersOf(stream) /\ DaysLived(stream)
  BY JobHeld
<1>3. CASE Fail(j, "STALE") /\ UNCHANGED stream
  BY <1>1, <1>3, Quiet, FailStep
<1>4. CASE IsRetry(stream, r) /\ Become(j, [b EXCEPT !.at = "mark", !.head = stream.head])
           /\ UNCHANGED stream
  <2>1. b = job[j] /\ Grows(stream, stream) /\ IsRetry(stream, Chapter(b.plan, b.next + 1))
    BY <1>2, <1>4, GrowsIsReflexive
  <2>. HIDE DEF b, r
  <2>. QED
    BY <1>1, <1>2, <1>4, <2>1, ChapterStep
<1>5. CASE MayAppend(stream, r) /\ stream' = t
           /\ Become(j, [b EXCEPT !.at = "mark", !.head = t.head])
  <2>1. /\ IsPlan(b.plan) /\ Grounded(stream, b.plan) /\ b.next < TotalChapters(b.plan)
        /\ b.next \in 0..TotalChapters(b.plan)
    BY <1>1, <1>2 DEF IsJob, InPhase
  <2>2. TotalChapters(b.plan) \in Nat
    BY <2>1, LastDayType DEF IsPlan, TotalChapters
  <2>3. i \in 1..TotalChapters(b.plan)
    BY <2>1, <2>2
  <2>4. b = job[j]
    OBVIOUS
  <2>5. r = Chapter(b.plan, i) /\ t = Appended(stream, r)
    OBVIOUS
  <2>. HIDE DEF b, i, r, t
  <2>6. /\ r = BuildAppend(PlanHead(b.plan, i), Day(d), Day(d), <<Day(d)>>)
        /\ d \in 1..MaxDay /\ PlanHead(b.plan, i) \in AuthorityHead
    BY <2>1, <2>3, <2>5, ChapterType
  <2>7. DayOf(stream, stream.head.lastSequence) = b.plan.confirmation.from + i - 1
    BY <1>2, <1>5, <2>1, <2>3, <2>5, ChapterLivesNextDay
  <2>8. DayOf(stream, stream.head.lastSequence) + 1 = d
    <3>1. b.plan.confirmation.from \in Nat
      BY <2>1, LastDayType DEF IsPlan
    <3>2. i \in Nat
      BY <2>3
    <3>. QED
      BY <2>7, <3>1, <3>2
  <2>. HIDE DEF d
  <2>9. Day(d) \in AppendIds \cap BatchIds /\ Day(d) \in EventIds /\ d \in 1..LastDay
    BY <2>6, LastDayType, IdsAssumption
  <2>10. /\ MayAppend(stream, BuildAppend(PlanHead(b.plan, i), Day(d), Day(d), <<Day(d)>>))
         /\ t = Appended(stream, BuildAppend(PlanHead(b.plan, i), Day(d), Day(d), <<Day(d)>>))
    BY <1>5, <2>5, <2>6
  <2>11. StreamOfDays(t) /\ Grows(stream, t)
    BY <1>2, <2>6, <2>9, <2>10, OneEventGrows
  <2>12. MarkersOf(t) /\ DaysLived(t)
    <3>1. Day(d)[1] \notin {"start", "progress"}
      BY Ids
    <3>2. \A e \in 1..LastDay : LivesDay(Day(d), e)
                                   => e = DayOf(stream, stream.head.lastSequence) + 1
      BY <2>8, Ids
    <3>3. DayOf(stream, stream.head.lastSequence) + 1
             <= MaxDay + Cardinality(BoundariesLived(t))
      <4>1. BoundariesLived(t) \subseteq DayCommands
        BY DEF BoundariesLived
      <4>2. Cardinality(BoundariesLived(t)) \in Nat
        BY <4>1, DaysAssumption, FS_Subset, FS_CardinalityType
      <4>. QED
        BY <2>6, <2>8, <4>2, LastDayType
    <3>. QED
      BY <1>2, <2>6, <2>9, <2>10, <3>1, <3>2, <3>3, OneEventDays
  <2>13. IsRetry(t, r)
    <3>1. DOMAIN t.receipts = DOMAIN stream.receipts \cup {Day(d)} /\ t.receipts[Day(d)].request = r
      BY <1>2, <2>6, <2>9, <2>10, OneEvent
    <3>2. r.appendId = Day(d)
      BY <2>6 DEF BuildAppend
    <3>. QED
      BY <3>1, <3>2 DEF IsRetry
  <2>14. IsRetry(t, Chapter(b.plan, b.next + 1))
    BY <2>5, <2>13 DEF i
  <2>. QED
    BY <1>1, <1>5, <2>4, <2>11, <2>12, <2>14, ChapterStep
<1>. QED
  BY <1>3, <1>4, <1>5 DEF AppendChapter, Write

\* MarkChapter: one chapter more than before.
LEMMA MarkChapterKeepsInv ==
    ASSUME DaysInv, NEW j \in Jobs, MarkChapter(j)
    PROVE  DaysInv'
<1>. DEFINE b == job[j]
            n == b.next + 1
            r == Record(Progress(b.op, b.next), b.head, Marker(b.plan, n))
<1>1. UNCHANGED <<pending, crashes>> /\ b.at = "mark"
  BY DEF MarkChapter
<1>2. IsJob(stream, b) /\ InPhase(stream, b) /\ IsPlan(b.plan)
  BY JobHeld DEF IsJob
<1>3. /\ CatchesUp(b) /\ HasRecordedPlan(stream, b) /\ b.next < TotalChapters(b.plan)
      /\ Stored(stream, b.plan, b.next) /\ IsRetry(stream, Chapter(b.plan, n))
  BY <1>1, <1>2 DEF InPhase
<1>4. CASE Fail(j, "STALE") /\ UNCHANGED stream
  BY <1>1, <1>4, Quiet, FailStep
<1>5. ASSUME Onward(j, n, b.head),
             \/ MayReject(stream, r) /\ stream' = Rejected(stream, r)
             \/ IsRetry(stream, r) /\ stream' = stream
      PROVE  DaysInv'
  <2>1. TotalChapters(b.plan) \in Nat /\ TotalChapters(b.plan) <= MaxDay
    BY <1>2, LastDayType DEF IsPlan, TotalChapters
  <2>2. b.next \in 0..MaxDay /\ n \in 0..TotalChapters(b.plan) /\ b.next \in Nat
    BY <1>2, <1>3, <2>1, LastDayType DEF IsJob
  <2>3. Stored(stream, b.plan, n)
    <3>1. \A i \in 1..n : i \in 1..b.next \/ i = n
      BY <2>2
    <3>. QED
      BY <1>3, <3>1 DEF Stored
  <2>4. b.op \in Operations
    BY <1>3 DEF CatchesUp, Operations
  <2>5. Progress(b.op, b.next) \in AppendIds
    BY <2>2, <2>4, IdsAssumption
  <2>6. /\ b = job[j] /\ r = Record(Progress(b.op, b.next), b.head, Marker(b.plan, n))
        /\ \E m \in 0..MaxDay : Progress(b.op, b.next) = Progress(b.op, m) /\ n = m + 1
    BY <2>2
  <2>. HIDE DEF b, n, r
  <2>. QED
    BY <1>1, <1>3, <1>5, <2>2, <2>3, <2>5, <2>6, RecordStep
<1>. QED
  BY <1>4, <1>5 DEF MarkChapter, Write

-----------------------------------------------------------------------------
(* The steps: the head is read back, and its snapshot saved *)

\* ReadBack: a head with the same hash has the same days.
LEMMA ReadBackKeepsInv ==
    ASSUME DaysInv, NEW j \in Jobs, ReadBack(j)
    PROVE  DaysInv'
<1>. DEFINE b == job[j]
            day == IF b.kind = "day" THEN b.days ELSE CompletedDay(stream.head.lastSequence)
            c == JobIn(b, "save", day, stream.head, b.plan)
<1>1. UNCHANGED <<stream, pending, crashes>> /\ b.at = "readback"
  BY DEF ReadBack
<1>2. IsJob(stream, b) /\ InPhase(stream, b) /\ StreamOfDays(stream)
  BY JobHeld
<1>3. CASE ~SameState(j)
  <2>1. Fail(j, "STALE")
    BY <1>3 DEF ReadBack
  <2>. QED
    BY <1>1, <2>1, Quiet, FailStep
<1>4. CASE SameState(j)
  <2>1. Become(j, c)
    <3>1. b = [kind |-> b.kind, at |-> b.at, op |-> b.op, days |-> b.days, head |-> b.head,
               plan |-> b.plan, next |-> b.next, error |-> b.error]
      BY <1>2 DEF IsJob
    <3>2. ASSUME NEW d, d = [b EXCEPT !.at = "save", !.head = stream.head, !.days = day]
          PROVE  d = c
      <4>. HIDE DEF b, day
      <4>. QED
        BY <3>1, <3>2 DEF JobIn
    <3>. HIDE DEF c
    <3>. QED
      BY <1>4, <3>2 DEF ReadBack
  <2>2. b.kind \in {"day", "return"} /\ day = DayOf(stream, stream.head.lastSequence)
    <3>1. CASE b.kind = "day"
      <4>1. b.days = DayOf(stream, b.head.lastSequence)
        BY <1>1, <1>2, <3>1 DEF InPhase
      <4>2. stream.head.lastEventHash = b.head.lastEventHash
        BY <1>4, <3>1 DEF SameState
      <4>3. /\ Behind(stream, b.head) /\ Behind(stream, stream.head)
            /\ stream.head.lastSequence \in Nat /\ b.head.lastSequence \in Nat
            /\ b.head.lastSequence <= stream.head.lastSequence
        BY <1>2, HeadIsBehind DEF IsJob, Behind, AuthorityHead
      <4>4. /\ Len(stream.head.lastEventHash) = stream.head.lastSequence
            /\ Len(b.head.lastEventHash) = b.head.lastSequence
        BY <1>2, <4>3, HeldHash DEF Behind
      <4>. QED
        BY <3>1, <4>1, <4>2, <4>4
    <3>2. CASE b.kind # "day"
      <4>1. b.kind = "return"
        BY <1>1, <1>2, <3>2 DEF InPhase
      <4>. QED
        BY <3>2, <4>1, CompletedDayIsDay
    <3>. QED
      BY <3>1, <3>2
  <2>. HIDE DEF b, day
  <2>3. /\ IsPlan(b.plan) /\ Grounded(stream, b.plan) /\ b.next \in 0..TotalChapters(b.plan)
        /\ "save" \in Ats
    BY <1>2 DEF IsJob, Ats
  <2>4. /\ IsJob(stream, c) /\ c.kind = b.kind /\ c.at = "save" /\ c.days = day
        /\ c.head = stream.head
    BY <1>2, <2>3, HeadIsBehind, ChangedJob
  <2>. HIDE DEF c
  <2>5. InPhase(stream, c)
    BY <2>2, <2>4 DEF InPhase
  <2>. QED
    BY <1>1, <2>1, <2>4, <2>5, Quiet, QuietStep
<1>. QED
  BY <1>3, <1>4

\* A job that saves names the day of the head it holds.
LEMMA NameOfTheDay ==
    ASSUME NEW s, StreamOfDays(s), DaysLived(s), NEW b, IsJob(s, b), InPhase(s, b),
           b.at = "save", b.head.lastSequence = s.head.lastSequence,
           NEW d \in 1..LastDay, SnapshotName(b) = Day(d)
    PROVE  DayOf(s, s.head.lastSequence) = d
<1>1. Authority(b.head.revision) # Day(d) /\ \A e : Day(e) = Day(d) <=> e = d
  BY DEF Authority, Day
<1>2. CASE b.kind # "refresh"
  <2>1. SnapshotName(b) = Day(b.days)
    BY <1>2 DEF SnapshotName
  <2>2. b.days = DayOf(s, b.head.lastSequence)
    BY <1>2 DEF InPhase
  <2>. QED
    BY <1>1, <2>1, <2>2
<1>3. CASE b.kind = "refresh"
  <2>1. b.head.lastSequence = 1
    BY <1>1, <1>3 DEF SnapshotName
  <2>2. SnapshotName(b) = Day(1)
    BY <1>3, <2>1 DEF SnapshotName
  <2>3. d = 1
    BY <1>1, <2>2
  <2>4. IsRetry(s, Chapter(GenesisPlan, 1))
    BY <1>3 DEF InPhase
  <2>5. 1 \in DOMAIN s.events /\ s.events[1].eventId = Day(1)
    BY <2>4 DEF DaysLived
  <2>6. LivesDay(s.events[1].eventId, 1)
    BY <2>5, Ids
  <2>7. DayOf(s, 0) = 0
    <3>1. DaysOf(s, 0) = {0}
      BY DEF DaysOf
    <3>2. IsLast(0, DaysOf(s, 0))
      BY <3>1 DEF IsLast
    <3>. QED
      BY <3>2, DayIsLast
  <2>8. 1 \in 1..LastDay
    BY LastDayType
  <2>9. DayOf(s, 0 + 1) = DayOf(s, 0) + 1
    <3>1. \A m \in 1..0 : s.events[m].eventId = s.events[m].eventId
      OBVIOUS
    <3>2. s.events[0 + 1].eventId = Day(1)
      BY <2>5
    <3>3. \A e \in 1..LastDay : LivesDay(Day(1), e) => e = DayOf(s, 0) + 1
      BY <2>7, Ids
    <3>4. \E e \in 1..LastDay : LivesDay(Day(1), e)
      BY <2>5, <2>6, <2>8
    <3>. QED
      BY <3>1, <3>2, <3>3, <3>4, NextDay
  <2>. QED
    BY <2>1, <2>3, <2>7, <2>9
<1>. QED
  BY <1>2, <1>3

\* SaveSnapshot: the head has not moved since the job held it.
LEMMA SaveSnapshotKeepsInv ==
    ASSUME DaysInv, NEW j \in Jobs, SaveSnapshot(j)
    PROVE  DaysInv'
<1>. DEFINE b == job[j]
            name == SnapshotName(b)
            r == BuildSnapshot(b.head, name)
            t == Saved(stream, r)
<1>1. UNCHANGED <<pending, crashes>> /\ b.at = "save"
  BY DEF SaveSnapshot
<1>2. /\ IsJob(stream, b) /\ InPhase(stream, b) /\ StreamOfDays(stream)
      /\ MarkersOf(stream) /\ DaysLived(stream)
  BY JobHeld
<1>3. PendingType' /\ crashes' \in 0..MaxCrashes
  BY <1>1 DEF DaysInv, PendingType
<1>4. CASE MaySave(stream, r) /\ stream' = t /\ Succeed(j)
  <2>1. b.head.lastSequence = stream.head.lastSequence
    <3>1. SnapshotOf(b.head) = SnapshotOf(stream.head)
      BY <1>4 DEF MaySave, DescribesHead, BuildSnapshot
    <3>2. SnapshotOf(b.head).baseSequence = SnapshotOf(stream.head).baseSequence
      BY <3>1
    <3>. QED
      BY <3>2 DEF SnapshotOf
  <2>2. \A d \in 1..LastDay : name = Day(d) => DayOf(stream, stream.head.lastSequence) = d
    <3>. HIDE DEF b
    <3>. QED
      BY <1>1, <1>2, <2>1, NameOfTheDay
  <2>3. r = BuildSnapshot(b.head, name) /\ t = Saved(stream, BuildSnapshot(b.head, name))
    OBVIOUS
  <2>. HIDE DEF b, name, r, t
  <2>4. StreamOfDays(t) /\ Grows(stream, t) /\ MarkersOf(t) /\ DaysLived(t)
    BY <1>2, <1>4, <2>2, <2>3, SnapshotDays
  <2>. QED
    BY <1>3, <1>4, <2>4, SucceedStep
<1>5. CASE Succeed(j) /\ UNCHANGED stream
  BY <1>1, <1>5, Quiet, SucceedStep
<1>6. CASE Fail(j, "SNAPSHOT_ID_COLLISION") /\ UNCHANGED stream
  BY <1>1, <1>6, Quiet, FailStep
<1>7. CASE Fail(j, "STORAGE_LIMIT") /\ UNCHANGED stream
  BY <1>1, <1>7, Quiet, FailStep
<1>8. CASE Fail(j, "STALE") /\ UNCHANGED stream
  BY <1>1, <1>8, Quiet, FailStep
<1>. QED
  BY <1>4, <1>5, <1>6, <1>7, <1>8 DEF SaveSnapshot, Write

-----------------------------------------------------------------------------
(* The theorems *)

\* The first state satisfies the invariant.
LEMMA InitEstablishesInv == Init => DaysInv
<1>. SUFFICES ASSUME Init
              PROVE  DaysInv
  OBVIOUS
<1>1. stream = Unborn /\ job = [j \in Jobs |-> NoJob] /\ pending = None /\ crashes = 0
  BY DEF Init
<1>2. StreamOfDays(stream) /\ MarkersOf(stream) /\ DaysLived(stream)
  BY <1>1, FirstStream
<1>3. \A j \in Jobs : job[j] = NoJob
  BY <1>1
<1>4. \A j \in Jobs : IsJob(stream, job[j]) /\ InPhase(stream, job[j])
  BY <1>2, <1>3, EndedJob
<1>5. job = [j \in Jobs |-> job[j]]
  BY <1>1
<1>6. PendingType /\ crashes \in 0..MaxCrashes
  BY <1>1, DaysAssumption DEF PendingType
<1>. QED
  BY <1>2, <1>4, <1>5, <1>6 DEF DaysInv

\* Every step keeps the invariant.
LEMMA NextKeepsInv == DaysInv /\ [Next]_vars => DaysInv'
<1>. SUFFICES ASSUME DaysInv, [Next]_vars
              PROVE  DaysInv'
  OBVIOUS
<1>1. CASE UNCHANGED vars
  <2>1. stream' = stream /\ job' = job /\ pending' = pending /\ crashes' = crashes
    BY <1>1 DEF vars
  <2>. QED
    BY <2>1 DEF DaysInv, PendingType
<1>2. CASE Dismiss
  BY <1>2, DismissKeepsInv
<1>3. ASSUME NEW j \in Jobs, StepOf(j)
      PROVE  DaysInv'
  <2>1. CASE LoadHead(j)
    BY <2>1, LoadHeadKeepsInv
  <2>2. CASE TakeFence(j)
    BY <2>2, TakeFenceKeepsInv
  <2>3. CASE Reopen(j)
    BY <2>3, ReopenKeepsInv
  <2>4. CASE Append1(j)
    BY <2>4, Append1KeepsInv
  <2>5. CASE RefuseSponsor(j)
    BY <2>5, RefuseSponsorKeepsInv
  <2>6. CASE OpenOperation(j)
    BY <2>6, OpenOperationKeepsInv
  <2>7. CASE BeginOperation(j)
    BY <2>7, BeginOperationKeepsInv
  <2>8. CASE ContinueOperation(j)
    BY <2>8, ContinueOperationKeepsInv
  <2>9. CASE AppendChapter(j)
    BY <2>9, AppendChapterKeepsInv
  <2>10. CASE MarkChapter(j)
    BY <2>10, MarkChapterKeepsInv
  <2>11. CASE ReadBack(j)
    BY <2>11, ReadBackKeepsInv
  <2>12. CASE SaveSnapshot(j)
    BY <2>12, SaveSnapshotKeepsInv
  <2>13. CASE Finish(j)
    BY <2>13, EndsKeepInv
  <2>14. CASE Reject(j)
    BY <2>14, EndsKeepInv
  <2>. QED
    BY <1>3, <2>1, <2>2, <2>3, <2>4, <2>5, <2>6, <2>7, <2>8, <2>9, <2>10, <2>11, <2>12,
       <2>13, <2>14 DEF StepOf
<1>4. ASSUME NEW j \in Jobs, StartRefresh(j)
      PROVE  DaysInv'
  BY <1>4, StartRefreshKeepsInv
<1>5. ASSUME NEW j \in Jobs, StartLiveDay(j)
      PROVE  DaysInv'
  BY <1>5, StartLiveDayKeepsInv
<1>6. ASSUME NEW j \in Jobs, NEW k \in Commands, StartSponsor(j, k)
      PROVE  DaysInv'
  BY <1>6, StartSponsorKeepsInv
<1>7. ASSUME NEW j \in Jobs, NEW op \in Returns, NEW shown \in 1..LastDay,
             NEW days \in 1..MaxReturnDays, StartReturn(j, op, shown, days)
      PROVE  DaysInv'
  BY <1>7, StartReturnKeepsInv
<1>8. ASSUME NEW j \in Jobs, Crash(j)
      PROVE  DaysInv'
  BY <1>8, EndsKeepInv
<1>. QED
  BY <1>1, <1>2, <1>3, <1>4, <1>5, <1>6, <1>7, <1>8 DEF Next

\* The stream of days, its markers and what every job holds of them are as
\* DaysInv says, whatever jobs run, fail, die and resume.
THEOREM DaysCorrectness == Spec => []DaysInv
<1>1. Init => DaysInv
  BY InitEstablishesInv
<1>2. DaysInv /\ [Next]_vars => DaysInv'
  BY NextKeepsInv
<1>. QED
  BY <1>1, <1>2, PTL DEF Spec

\* The variables keep their types: a catch-up stays within its chapters, and the
\* pending return within the days a return may lead to.
THEOREM DaysTypeCorrectness == Spec => []TypeOK
<1>1. DaysInv => TypeOK
  BY DEF DaysInv, PendingType, StreamOfDays, IsStream, IsJob, Behind, TypeOK
<1>. QED
  BY <1>1, DaysCorrectness, PTL

\* The civilization lives every day once and in order, whoever commits it.
THEOREM DaysInOrderCorrectness == Spec => []DaysInOrder
<1>1. DaysInv => DaysInOrder
  BY CompletedDayIsDay DEF DaysInv, DaysLived, DaysInOrder
<1>. QED
  BY <1>1, DaysCorrectness, PTL

\* A marker never runs ahead of the ledger: the chapters it counts are stored
\* with the bytes of the plan it records.
THEOREM MarkersCorrectness == Spec => []MarkersAreTrue
<1>1. DaysInv => MarkersAreTrue
  BY DEF DaysInv, MarkersOf, IsMarker, MarkerOf, MarkerAt, Stored, MarkersAreTrue
<1>. QED
  BY <1>1, DaysCorrectness, PTL

\* An operation has one plan for life: a job commits a chapter only from the plan
\* that the start marker of its operation records.
THEOREM OnePlanCorrectness == Spec => []OnePlanPerOperation
<1>1. DaysInv => OnePlanPerOperation
  BY DEF DaysInv, InPhase, HasRecordedPlan, MarkerOf, MarkerAt, Started, OnePlanPerOperation
<1>. QED
  BY <1>1, DaysCorrectness, PTL

\* The snapshot named after a day is the civilization at the end of that day.
THEOREM SnapshotDayCorrectness == Spec => []SnapshotsAreOfTheirDay
<1>1. DaysInv => SnapshotsAreOfTheirDay
  BY CompletedDayIsDay DEF DaysInv, DaysLived, SnapshotsAreOfTheirDay
<1>. QED
  BY <1>1, DaysCorrectness, PTL

-----------------------------------------------------------------------------
(* The jobs are callers of the port *)

\* The names of the snapshots that the jobs save, and what their receipts without
\* a batch record: a marker, or nothing for a command that reality refused.
DayNames == {Day(d) : d \in Nat} \cup {Authority(n) : n \in Nat}
Plans == [operation : Operations \cup {None}, eventHash : Hash,
          confirmation : [from : 0..MaxDay, to : 0..MaxDay, revision : Nat,
                          sequence : Nat, token : Nat]]
DayRecords ==
    [plan : Plans, nextChapter : Nat, status : {"in-progress", "complete"}] \cup {None}

\* The port and its theorems, on the stream of the jobs.
Port == INSTANCE AuthorityStoreProofs
            WITH SnapshotIds <- DayNames, CommandReceipts <- DayRecords

\* The rules of the port are those the jobs call.
LEMMA PortRules ==
    /\ Port!Unborn = Unborn
    /\ \A g : Port!Initialized(g) = Initialized(g)
    /\ \A s : Port!Known(s) <=> Known(s)
    /\ \A h, a, b, ids : Port!BuildAppend(h, a, b, ids) = BuildAppend(h, a, b, ids)
    /\ \A h, a, record : Port!BuildRejection(h, a, record) = BuildRejection(h, a, record)
    /\ \A h, id : Port!BuildSnapshot(h, id) = BuildSnapshot(h, id)
    /\ \A s, r : /\ Port!MayFence(s, r) <=> MayFence(s, r)
                 /\ Port!MayReject(s, r) <=> MayReject(s, r)
                 /\ Port!MaySave(s, r) <=> MaySave(s, r)
    /\ \A s, r : Port!MayAppend(s, r) <=> MayAppend(s, r)
    /\ \A s, r : /\ Port!Fenced(s, r) = Fenced(s, r)
                 /\ Port!Rejected(s, r) = Rejected(s, r)
                 /\ Port!Saved(s, r) = Saved(s, r)
    /\ \A s, r : Port!Appended(s, r) = Appended(s, r)
    /\ Port!IdBatches = IdBatches
<1>1. Port!GenesisHead = GenesisHead /\ Port!EmptyMap = EmptyMap /\ Port!NoHash = NoHash
  BY DEF Port!GenesisHead, GenesisHead, Port!EmptyMap, EmptyMap, Port!NoHash, NoHash
<1>2. /\ \A h : Port!SnapshotOf(h) = SnapshotOf(h)
      /\ \A f, k, v : Port!Put(f, k, v) = Put(f, k, v)
      /\ \A e : Port!EventHash(e) = EventHash(e)
      /\ \A h, token : Port!HeadFenced(h, token) = HeadFenced(h, token)
      /\ \A s : Port!Known(s) <=> Known(s)
      /\ \A s, r : Port!AddressesHead(s, r) <=> AddressesHead(s, r)
  BY DEF Port!SnapshotOf, SnapshotOf, Port!Put, Put, Port!EventHash, EventHash,
         Port!HeadFenced, HeadFenced, Port!Known, Known, Port!AddressesHead, AddressesHead
<1>3. Port!Unborn = Unborn /\ \A g : Port!Initialized(g) = Initialized(g)
  BY <1>1, <1>2 DEF Port!Unborn, Unborn, Port!Initialized, Initialized
<1>4. \A h, a, ids : Port!BuildEvents(h, a, ids) = BuildEvents(h, a, ids)
  BY DEF Port!BuildEvents, BuildEvents
<1>5. /\ \A h, a, b, ids : Port!BuildAppend(h, a, b, ids) = BuildAppend(h, a, b, ids)
      /\ \A h, a, record : Port!BuildRejection(h, a, record) = BuildRejection(h, a, record)
      /\ \A h, id : Port!BuildSnapshot(h, id) = BuildSnapshot(h, id)
  BY <1>2, <1>4 DEF Port!BuildAppend, BuildAppend, Port!BuildRejection, BuildRejection,
                    Port!BuildSnapshot, BuildSnapshot
<1>6. \A s, r : /\ Port!MayFence(s, r) <=> MayFence(s, r)
                /\ Port!MayReject(s, r) <=> MayReject(s, r)
                /\ Port!MaySave(s, r) <=> MaySave(s, r)
  <2>1. \A S : Port!Cardinality(S) = Cardinality(S)
    BY DEF Port!Cardinality, Cardinality
  <2>. QED
    BY <1>2, <2>1 DEF Port!MayFence, MayFence, Port!MayReject, MayReject, Port!MaySave, MaySave,
                      Port!DescribesHead, DescribesHead
<1>7. \A s, r : Port!MayAppend(s, r) <=> MayAppend(s, r)
  <2>1. \A s, r, i : Port!Continues(s, r, i) <=> Continues(s, r, i)
    BY DEF Port!Continues, Continues, Port!EventHash, EventHash, Port!StoredEventIds,
           StoredEventIds, Port!BatchIdsBefore, BatchIdsBefore
  <2>. QED
    BY <1>2, <2>1 DEF Port!MayAppend, MayAppend, Port!BatchIdTaken, BatchIdTaken
<1>8. \A s, r : /\ Port!Fenced(s, r) = Fenced(s, r)
                /\ Port!Rejected(s, r) = Rejected(s, r)
                /\ Port!Saved(s, r) = Saved(s, r)
  BY <1>2 DEF Port!Fenced, Fenced, Port!Rejected, Rejected, Port!Saved, Saved,
              Port!RejectionReceipt, RejectionReceipt
<1>9. \A s, r : Port!Appended(s, r) = Appended(s, r)
  BY <1>2 DEF Port!Appended, Appended, Port!HeadAfter, HeadAfter, Port!WithEvents, WithEvents,
              Port!AppendReceipt, AppendReceipt
<1>10. Port!IdBatches = IdBatches
  BY DEF Port!IdBatches, IdBatches
<1>. QED
  BY <1>2, <1>3, <1>5, <1>6, <1>7, <1>8, <1>9, <1>10

\* A request that describes the head is the one that is built from it, whatever
\* head the job built it from.
LEMMA BuiltFromHead ==
    ASSUME NEW h
    PROVE  /\ \A a, b, ids : AddressesHead(stream, BuildAppend(h, a, b, ids))
                                => BuildAppend(h, a, b, ids) = BuildAppend(stream.head, a, b, ids)
           /\ \A a, m : AddressesHead(stream, BuildRejection(h, a, m))
                           => BuildRejection(h, a, m) = BuildRejection(stream.head, a, m)
           /\ \A id : DescribesHead(stream, BuildSnapshot(h, id))
                         => BuildSnapshot(h, id) = BuildSnapshot(stream.head, id)
<1>1. ASSUME NEW a, NEW b, NEW ids, AddressesHead(stream, BuildAppend(h, a, b, ids))
      PROVE  BuildAppend(h, a, b, ids) = BuildAppend(stream.head, a, b, ids)
  <2>1. /\ h.revision = stream.head.revision /\ h.lastSequence = stream.head.lastSequence
        /\ h.lastEventHash = stream.head.lastEventHash
        /\ h.fencingToken = stream.head.fencingToken
    BY <1>1 DEF AddressesHead, BuildAppend
  <2>2. BuildEvents(h, a, ids) = BuildEvents(stream.head, a, ids)
    BY <2>1 DEF BuildEvents
  <2>. QED
    BY <2>1, <2>2 DEF BuildAppend
<1>2. ASSUME NEW a, NEW m, AddressesHead(stream, BuildRejection(h, a, m))
      PROVE  BuildRejection(h, a, m) = BuildRejection(stream.head, a, m)
  BY <1>2 DEF AddressesHead, BuildRejection
<1>3. ASSUME NEW id, DescribesHead(stream, BuildSnapshot(h, id))
      PROVE  BuildSnapshot(h, id) = BuildSnapshot(stream.head, id)
  BY <1>3 DEF DescribesHead, BuildSnapshot
<1>. QED
  BY <1>1, <1>2, <1>3

\* A batch of one event that the port accepts.
LEMMA AppendIsPortCall ==
    ASSUME NEW h, NEW a \in AppendIds, NEW b \in BatchIds, NEW id \in EventIds,
           NEW r, r = BuildAppend(h, a, b, <<id>>),
           MayAppend(stream, r), stream' = Appended(stream, r)
    PROVE  Port!Next
<1>1. r = BuildAppend(stream.head, a, b, <<id>>)
  BY BuiltFromHead DEF MayAppend
<1>2. <<id>> \in IdBatches
  <2>1. <<id>> \in [1..1 -> EventIds] /\ 1 \in 1..MaxEventsPerBatch
    BY RulesAssumption DEF RulesAssumption
  <2>. QED
    BY <2>1 DEF IdBatches
<1>3. Port!AppendEventBatch(a, b, <<id>>)
  BY <1>1, PortRules DEF Port!AppendEventBatch
<1>. QED
  BY <1>2, <1>3, PortRules DEF Port!Next

\* A receipt without a batch.
LEMMA RejectionIsPortCall ==
    ASSUME NEW h, NEW a \in AppendIds, NEW m \in DayRecords, NEW r, r = BuildRejection(h, a, m),
           MayReject(stream, r), stream' = Rejected(stream, r)
    PROVE  Port!Next
<1>1. r = BuildRejection(stream.head, a, m)
  BY BuiltFromHead DEF MayReject
<1>2. Port!RecordRejectedCommand(a, m)
  BY <1>1, PortRules DEF Port!RecordRejectedCommand
<1>. QED
  BY <1>2 DEF Port!Next

\* A snapshot of the head.
LEMMA SnapshotIsPortCall ==
    ASSUME NEW h, NEW id \in DayNames, NEW r, r = BuildSnapshot(h, id),
           MaySave(stream, r), stream' = Saved(stream, r)
    PROVE  Port!Next
<1>1. r = BuildSnapshot(stream.head, id)
  BY BuiltFromHead DEF MaySave
<1>2. Port!SaveSnapshot(id)
  BY <1>1, PortRules DEF Port!SaveSnapshot
<1>. QED
  BY <1>2 DEF Port!Next

\* A marker is a record that the port keeps.
LEMMA MarkerIsRecord ==
    ASSUME NEW p, IsPlan(p), NEW n \in 0..TotalChapters(p)
    PROVE  Marker(p, n) \in DayRecords
<1>1. p \in Plans
  BY DEF IsPlan, Plans
<1>2. n \in Nat
  <2>1. TotalChapters(p) \in Nat
    BY LastDayType DEF IsPlan, TotalChapters
  <2>. QED
    BY <2>1
<1>. QED
  BY <1>1, <1>2 DEF Marker, DayRecords

\* What starts a job, takes its fence, or reads.
LEMMA FenceIsPortCall ==
    ASSUME NEW j \in Jobs, StartRefresh(j) \/ TakeFence(j)
    PROVE  Port!Next \/ UNCHANGED stream
<1>1. ASSUME StartRefresh(j), ~Known(stream)
      PROVE  Port!Next
  <2>1. (CHOOSE g \in Geneses : TRUE) \in Geneses
    BY IdsAssumption
  <2>2. stream' = Initialized(CHOOSE g \in Geneses : TRUE)
    BY <1>1 DEF StartRefresh, Write
  <2>3. Port!Initialize(CHOOSE g \in Geneses : TRUE)
    BY <1>1, <2>2, PortRules DEF Port!Initialize
  <2>. QED
    BY <2>1, <2>3 DEF Port!Next
<1>2. ASSUME StartRefresh(j), Known(stream)
      PROVE  UNCHANGED stream
  BY <1>2 DEF StartRefresh, Write
<1>3. ASSUME TakeFence(j), stream' # stream
      PROVE  Port!Next
  <2>. DEFINE r == [kind |-> "fence", expectedFencingToken |-> job[j].head.fencingToken]
  <2>1. MayFence(stream, r) /\ stream' = Fenced(stream, r)
    BY <1>3 DEF TakeFence, Write
  <2>2. r = [kind |-> "fence", expectedFencingToken |-> stream.head.fencingToken]
    BY <2>1 DEF MayFence
  <2>. HIDE DEF r
  <2>3. Port!AcquireWriterFence
    BY <2>1, <2>2, PortRules DEF Port!AcquireWriterFence
  <2>. QED
    BY <2>3 DEF Port!Next
<1>. QED
  BY <1>1, <1>2, <1>3

\* What appends an event.
LEMMA EventIsPortCall ==
    ASSUME DaysInv, NEW j \in Jobs, Append1(j) \/ AppendChapter(j), stream' # stream
    PROVE  Port!Next
<1>. DEFINE b == job[j]
<1>1. IsJob(stream, b) /\ InPhase(stream, b)
  BY JobHeld
<1>2. CASE Append1(j) /\ b.kind = "day"
  <2>. DEFINE r == DayRequest(b.head, b.days)
  <2>1. b.at = "append" /\ MayAppend(stream, r) /\ stream' = Appended(stream, r)
    BY <1>2 DEF Append1, Write
  <2>2. b.days \in 1..LastDay
    BY <1>1, <1>2, <2>1, LastDayType DEF InPhase
  <2>3. Day(b.days) \in AppendIds \cap BatchIds \cap EventIds
    BY <2>2, IdsAssumption
  <2>4. r = BuildAppend(b.head, Day(b.days), Day(b.days), <<Day(b.days)>>)
    BY DEF DayRequest
  <2>. HIDE DEF r, b
  <2>. QED
    BY <2>1, <2>3, <2>4, AppendIsPortCall
<1>3. CASE Append1(j) /\ b.kind # "day"
  <2>. DEFINE a == <<"sponsor", b.op>>
              e == Sponsor(b.op, b.days)
              r == BuildAppend(b.head, a, a, <<e>>)
              t == Appended(stream, r)
  <2>1. b.at = "append" /\ MayAppend(stream, r) /\ stream' = t
    BY <1>3 DEF Append1, Write
  <2>2. a = <<"sponsor", job[j].op>> /\ e = Sponsor(job[j].op, job[j].days)
        /\ r = BuildAppend(job[j].head, a, a, <<e>>) /\ t = Appended(stream, r)
        /\ job[j].at = "append" /\ job[j].kind # "day"
    BY <1>3, <2>1
  <2>. HIDE DEF a, e, r, t, b
  <2>3. e \in EventIds /\ a \in AppendIds \cap BatchIds
    BY <2>1, <2>2, AppendSponsor
  <2>. QED
    BY <2>1, <2>2, <2>3, AppendIsPortCall
<1>4. CASE AppendChapter(j)
  <2>. DEFINE i == b.next + 1
              r == Chapter(b.plan, i)
              d == b.plan.confirmation.from + i
  <2>1. b.at = "chapter" /\ MayAppend(stream, r) /\ stream' = Appended(stream, r)
    BY <1>4 DEF AppendChapter, Write
  <2>2. IsPlan(b.plan) /\ b.next < TotalChapters(b.plan) /\ b.next \in 0..TotalChapters(b.plan)
    BY <1>1, <2>1 DEF IsJob, InPhase
  <2>3. TotalChapters(b.plan) \in Nat
    BY <2>2, LastDayType DEF IsPlan, TotalChapters
  <2>4. i \in 1..TotalChapters(b.plan)
    BY <2>2, <2>3
  <2>. HIDE DEF b, i
  <2>5. r = BuildAppend(PlanHead(b.plan, i), Day(d), Day(d), <<Day(d)>>) /\ d \in 1..MaxDay
    BY <2>2, <2>4, ChapterType
  <2>. HIDE DEF d, r
  <2>6. Day(d) \in AppendIds \cap BatchIds \cap EventIds
    BY <2>5, LastDayType, IdsAssumption
  <2>. QED
    BY <2>1, <2>5, <2>6, AppendIsPortCall
<1>. QED
  BY <1>2, <1>3, <1>4

\* What records a receipt without a batch.
LEMMA ReceiptIsPortCall ==
    ASSUME DaysInv, NEW j \in Jobs, RefuseSponsor(j) \/ BeginOperation(j) \/ MarkChapter(j),
           stream' # stream
    PROVE  Port!Next
<1>. DEFINE b == job[j]
<1>1. IsJob(stream, b) /\ InPhase(stream, b) /\ IsPlan(b.plan)
  BY JobHeld DEF IsJob
<1>2. CASE RefuseSponsor(j)
  <2>. DEFINE a == <<"sponsor", b.op>>
  <2>1. /\ b.at = "append" /\ b.kind = "sponsor"
        /\ MayReject(stream, BuildRejection(b.head, a, None))
        /\ stream' = Rejected(stream, BuildRejection(b.head, a, None))
    BY <1>2 DEF RefuseSponsor, Write
  <2>2. a \in AppendIds /\ None \in DayRecords
    BY <1>1, <2>1, IdsAssumption DEF InPhase, DayRecords
  <2>. HIDE DEF a, b
  <2>. QED
    BY <2>1, <2>2, RejectionIsPortCall
<1>3. CASE BeginOperation(j)
  <2>. DEFINE n == Prefix(b.plan)
              r == Record(Start(b.op), b.head, Marker(b.plan, n))
  <2>1. b.at = "start" /\ MayReject(stream, r) /\ stream' = Rejected(stream, r)
    BY <1>3 DEF BeginOperation, Write
  <2>2. b.op \in Operations
    BY <1>1, <2>1 DEF InPhase, CatchesUp, Operations
  <2>3. Start(b.op) \in AppendIds
    BY <2>2, IdsAssumption
  <2>4. Marker(b.plan, n) \in DayRecords
    BY <1>1, PrefixType, MarkerIsRecord
  <2>5. r = BuildRejection(b.head, Start(b.op), Marker(b.plan, n))
    BY DEF Record
  <2>. HIDE DEF b, n, r
  <2>. QED
    BY <2>1, <2>3, <2>4, <2>5, RejectionIsPortCall
<1>4. CASE MarkChapter(j)
  <2>. DEFINE n == b.next + 1
              r == Record(Progress(b.op, b.next), b.head, Marker(b.plan, n))
  <2>1. b.at = "mark" /\ MayReject(stream, r) /\ stream' = Rejected(stream, r)
    BY <1>4 DEF MarkChapter, Write
  <2>2. CatchesUp(b) /\ b.next < TotalChapters(b.plan) /\ b.next \in 0..TotalChapters(b.plan)
    BY <1>1, <2>1 DEF IsJob, InPhase
  <2>3. TotalChapters(b.plan) \in Nat /\ TotalChapters(b.plan) <= MaxDay
    BY <1>1, LastDayType DEF IsPlan, TotalChapters
  <2>4. b.next \in 0..MaxDay /\ n \in 0..TotalChapters(b.plan)
    BY <2>2, <2>3, LastDayType
  <2>5. b.op \in Operations
    BY <2>2 DEF CatchesUp, Operations
  <2>6. Progress(b.op, b.next) \in AppendIds
    BY <2>4, <2>5, IdsAssumption
  <2>7. Marker(b.plan, n) \in DayRecords
    BY <1>1, <2>4, MarkerIsRecord
  <2>8. r = BuildRejection(b.head, Progress(b.op, b.next), Marker(b.plan, n))
    BY DEF Record
  <2>. HIDE DEF b, n, r
  <2>. QED
    BY <2>1, <2>6, <2>7, <2>8, RejectionIsPortCall
<1>. QED
  BY <1>2, <1>3, <1>4

\* What saves a snapshot.
LEMMA SavingIsPortCall ==
    ASSUME DaysInv, NEW j \in Jobs, SaveSnapshot(j), stream' # stream
    PROVE  Port!Next
<1>. DEFINE b == job[j]
            name == SnapshotName(b)
            r == BuildSnapshot(b.head, name)
<1>1. b.at = "save" /\ MaySave(stream, r) /\ stream' = Saved(stream, r)
  BY DEF SaveSnapshot, Write
<1>2. IsJob(stream, b) /\ InPhase(stream, b)
  BY JobHeld
<1>3. b.kind # "refresh" => b.days \in Nat
  BY <1>1, <1>2, LastDayOfLedger, LastDayType DEF InPhase
<1>4. b.head.revision \in Nat
  BY <1>2 DEF IsJob, Behind, AuthorityHead
<1>5. name \in DayNames
  <2>. HIDE DEF b
  <2>1. \/ name = Day(b.days) /\ b.kind # "refresh"
        \/ name = Day(1) \/ name = Authority(b.head.revision)
    BY DEF SnapshotName
  <2>. HIDE DEF name
  <2>. QED
    BY <1>3, <1>4, <2>1 DEF DayNames
<1>. HIDE DEF b, name
<1>. QED
  BY <1>1, <1>5, SnapshotIsPortCall

\* Every step of the jobs is a call of the port, or leaves the stream alone.
LEMMA StepIsPortCall == DaysInv /\ [Next]_vars => [Port!Next]_stream
<1>. SUFFICES ASSUME DaysInv, Next, stream' # stream
              PROVE  Port!Next
  BY DEF vars
<1>1. PICK j \in Jobs :
         \/ StartRefresh(j) \/ TakeFence(j) \/ Append1(j) \/ AppendChapter(j)
         \/ RefuseSponsor(j) \/ BeginOperation(j) \/ MarkChapter(j) \/ SaveSnapshot(j)
  <2>1. ~Dismiss
    BY SMTT(40) DEF Dismiss
  <2>2. ASSUME NEW j \in Jobs, StepOf(j)
        PROVE  \/ TakeFence(j) \/ Append1(j) \/ AppendChapter(j) \/ RefuseSponsor(j)
               \/ BeginOperation(j) \/ MarkChapter(j) \/ SaveSnapshot(j)
    BY <2>2, SMTT(40)
    DEF StepOf, LoadHead, Reopen, OpenOperation, ContinueOperation, ReadBack, Finish, Reject
  <2>3. \A j \in Jobs : ~StartLiveDay(j) /\ ~Crash(j)
    BY DEF StartLiveDay, Crash
  <2>4. \A j \in Jobs : /\ \A k \in Commands : ~StartSponsor(j, k)
                        /\ \A op \in Returns, shown \in 1..LastDay, days \in 1..MaxReturnDays :
                              ~StartReturn(j, op, shown, days)
    BY DEF StartSponsor, StartReturn
  <2>. QED
    BY <2>1, <2>2, <2>3, <2>4 DEF Next
<1>. QED
  BY <1>1, FenceIsPortCall, EventIsPortCall, ReceiptIsPortCall, SavingIsPortCall

\* A refresh, live days, returns, sponsors and their crashes are callers of the
\* atomic port: they make their ids, markers and snapshot names as it takes them.
THEOREM DaysUseThePort == Spec => Port!Spec
<1>1. Init => Port!Init
  BY PortRules DEF Init, Port!Init
<1>. QED
  BY <1>1, StepIsPortCall, DaysCorrectness, PTL DEF Spec, Port!Spec

\* So whatever the jobs do, what they share is a ledger without gap or fork, with
\* receipts and fences that follow it and snapshots that can be replayed.
THEOREM DaysStreamCorrectness ==
    Spec => [](/\ Port!TypeOK /\ Port!Ledger /\ Port!CausesPrecede /\ Port!Receipts
               /\ Port!Revisions /\ Port!Fences /\ Port!Snapshots)
BY DaysUseThePort, RulesAssumption, Port!TypeCorrectness, Port!LedgerCorrectness,
   Port!CausesCorrectness, Port!ReceiptsCorrectness, Port!RevisionsCorrectness,
   Port!FencesCorrectness, Port!SnapshotsCorrectness, PTL

\* No job ever changes or loses what another job committed.
THEOREM DaysHistoryCorrectness == Spec => Port!History
BY DaysUseThePort, RulesAssumption, Port!HistoryCorrectness, PTL
=============================================================================
