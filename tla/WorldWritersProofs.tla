-------------------------- MODULE WorldWritersProofs --------------------------
(***************************************************************************)
(* The stream under pages that write it: no operation is in it twice, what *)
(* one page writes takes turns, and what a page calls saved is in it.      *)
(*                                                                         *)
(* All three rest on one fact about a request at work: what it has read is *)
(* a prefix of the stream, which a deletion waits for, and the rows since  *)
(* then are of a refresh or of another tab, because the request is at the  *)
(* head of the writer chain of its page.                                   *)
(***************************************************************************)
EXTENDS WorldWriters, SequenceTheorems, FiniteSetTheorems, TLAPS

-----------------------------------------------------------------------------
(* The inductive invariant *)

Places == {"queued", "posted", "opening", "reading", "working", "building", "persisting",
           "showing", "done"}
States == (SUBSET Identities) \cup {None}
RequestRecords ==
    [tab : Tabs, kind : Kinds, at : Places, expected : States, bundle : Seq(StreamRows),
     todo : Seq(Identities), fenced : BOOLEAN,
     error : {None, "mismatch", "refused", "race"},
     told : {None, "rejected", "quarantined", "shown", "saved", "notSaved", "open"}]

Types ==
    /\ rows \in Seq(StreamRows)
    /\ req \in Seq(RequestRecords)
    /\ chain \in [Tabs -> Seq(Nat)]
    /\ shown \in [Tabs -> States]

Begins(s, t) == Len(s) =< Len(t) /\ \A i \in 1..Len(s) : t[i] = s[i]

\* Whom the request r need not wait for: a refresh, and other tabs.
Outsider(q, r) == q \in Requests /\ (req[q].kind = "refresh" \/ req[q].tab # req[r].tab)
AddedByOutsiders(s, r) == \A i \in (Len(s) + 1)..Len(rows) : Outsider(rows[i].by, r)

AtWork(r) == req[r].kind # "refresh" /\ req[r].at \notin {"queued", "done"}

\* What holds of a request, at each place it may be.
Connected(r) == req[r].at \in {"reading", "working", "persisting", "showing"} => r \in conns
Writes(r) == req[r].at \in {"queued", "opening", "reading", "working"} => req[r].kind # "refresh"
TakesTurns(r) == AtWork(r) => IsNext(r)
ReadsPrefix(r) ==
    req[r].at = "working" =>
        Begins(req[r].bundle, rows) /\ AddedByOutsiders(req[r].bundle, r)
KnowsSteps(r) ==
    req[r].at = "working" /\ IsSponsor(r) =>
        \/ req[r].todo = StepIds(req[r].kind, req[r].bundle)
        \/ req[r].todo = <<>> /\ req[r].error # None
RequestOK(r) ==
    Connected(r) /\ Writes(r) /\ TakesTurns(r) /\ ReadsPrefix(r) /\ KnowsSteps(r)

RaceOK(race) ==
    race.victim \in Requests /\ race.by # {} /\ \A q \in race.by : Outsider(q, race.victim)

StreamOK == Once(rows) /\ DaysAreCounted(rows)

WritersInv ==
    /\ Types /\ StreamOK
    /\ \A r \in Requests : RequestOK(r)
    /\ \A race \in raced : RaceOK(race)

-----------------------------------------------------------------------------
(* Counting rows *)

Of(s, kinds) == {i \in DOMAIN s : s[i].id[1] \in kinds}

\* The rows of some kinds are at most all rows.
LEMMA CountIsNat ==
    ASSUME NEW s \in Seq(StreamRows), NEW K
    PROVE  /\ IsFiniteSet(Of(s, K)) /\ Count(s, K) = Cardinality(Of(s, K))
           /\ Count(s, K) \in Nat /\ Len(s) - Count(s, K) \in Nat
<1>1. /\ DOMAIN s = 1..Len(s) /\ Len(s) \in Nat
  OBVIOUS
<1>2. IsFiniteSet(1..Len(s)) /\ Cardinality(1..Len(s)) = Len(s)
  BY <1>1, FS_Interval, SMTT(40)
<1>3. Of(s, K) \subseteq 1..Len(s)
  BY <1>1 DEF Of
<1>4. IsFiniteSet(Of(s, K)) /\ Cardinality(Of(s, K)) =< Len(s)
  BY <1>2, <1>3, FS_Subset
<1>5. Cardinality(Of(s, K)) \in Nat
  BY <1>4, FS_CardinalityType
<1>6. Count(s, K) = Cardinality(Of(s, K))
  BY DEF Count, Of
<1>. QED
  BY <1>1, <1>4, <1>5, <1>6

\* One more row counts where it belongs.
LEMMA CountOfAppend ==
    ASSUME NEW s \in Seq(StreamRows), NEW x \in StreamRows, NEW K
    PROVE  Count(Append(s, x), K) = IF x.id[1] \in K THEN Count(s, K) + 1 ELSE Count(s, K)
<1>. DEFINE t == Append(s, x)
<1>1. /\ t \in Seq(StreamRows) /\ DOMAIN t = 1..(Len(s) + 1) /\ DOMAIN s = 1..Len(s)
      /\ Len(s) \in Nat
      /\ t[Len(s) + 1] = x /\ \A i \in 1..Len(s) : t[i] = s[i]
  BY AppendProperties
<1>. HIDE DEF t
<1>2. Of(t, K) = IF x.id[1] \in K THEN Of(s, K) \cup {Len(s) + 1} ELSE Of(s, K)
  BY <1>1 DEF Of
<1>3. Len(s) + 1 \notin Of(s, K)
  BY <1>1 DEF Of
<1>4. Cardinality(Of(s, K) \cup {Len(s) + 1}) = Cardinality(Of(s, K)) + 1
  BY <1>3, CountIsNat, FS_AddElement
<1>5. Count(t, K) = Cardinality(Of(t, K)) /\ Count(s, K) = Cardinality(Of(s, K))
  BY <1>1, CountIsNat
<1>. QED
  BY <1>2, <1>4, <1>5 DEF t

\* When a stream has grown and its revision has not, no day was lived.
LEMMA SameRevisionSameDay ==
    ASSUME NEW s \in Seq(StreamRows), NEW t \in Seq(StreamRows), Begins(s, t),
           Revision(t) = Revision(s)
    PROVE  CompletedDay(t) = CompletedDay(s)
<1>. DEFINE F == {"fence", "snapshot"}
            D == {"day", "boundary"}
            Facts1(u) == (1..Len(u)) \ Of(u, F)
<1>1. /\ DOMAIN s = 1..Len(s) /\ Len(s) \in Nat /\ DOMAIN t = 1..Len(t) /\ Len(t) \in Nat
  OBVIOUS
<1>2. ASSUME NEW u \in Seq(StreamRows)
      PROVE  IsFiniteSet(Facts1(u)) /\ Cardinality(Facts1(u)) = Revision(u)
  <2>1. IsFiniteSet(1..Len(u)) /\ Cardinality(1..Len(u)) = Len(u)
    <3>. DEFINE n == Len(u)
    <3>1. n \in Nat
      OBVIOUS
    <3>. HIDE DEF n
    <3>2. IsFiniteSet(1..n) /\ Cardinality(1..n) = n
      BY <3>1, FS_Interval
    <3>. QED
      BY <3>2 DEF n
  <2>2. (1..Len(u)) \cap Of(u, F) = Of(u, F)
    BY DEF Of
  <2>3. /\ IsFiniteSet(Facts1(u))
        /\ Cardinality(Facts1(u)) = Cardinality(1..Len(u)) - Cardinality((1..Len(u)) \cap Of(u, F))
    BY <2>1, FS_Difference
  <2>4. Revision(u) = Len(u) - Count(u, F)
    BY DEF Revision
  <2>. QED
    BY <2>1, <2>2, <2>3, <2>4, CountIsNat
<1>3. Facts1(s) \subseteq Facts1(t)
  BY <1>1 DEF Of, Begins
<1>4. /\ IsFiniteSet(Facts1(t)) /\ Cardinality(Facts1(s)) = Cardinality(Facts1(t))
  BY <1>2
<1>5. Facts1(s) = Facts1(t)
  <2>. HIDE DEF Facts1
  <2>. QED
    BY <1>3, <1>4, FS_Subset
<1>6. Of(s, D) = Of(t, D)
  <2>1. ASSUME NEW i \in Of(t, D)
        PROVE  i \in Of(s, D)
    <3>1. i \in 1..Len(t) /\ t[i].id[1] \in D
      BY <1>1, <2>1 DEF Of
    <3>2. i \in Facts1(t)
      BY <3>1 DEF Of
    <3>3. i \in 1..Len(s)
      BY <1>5, <3>2
    <3>. QED
      BY <1>1, <3>1, <3>3 DEF Of, Begins
  <2>2. Of(s, D) \subseteq Of(t, D)
    BY <1>1 DEF Of, Begins
  <2>. QED
    BY <2>1, <2>2
<1>. QED
  BY <1>6, CountIsNat DEF CompletedDay

\* A row may be added when its operation is new, and its day is the next.
LEMMA RowFits ==
    ASSUME NEW s \in Seq(StreamRows), Once(s), DaysAreCounted(s), NEW x \in StreamRows,
           x.id = Fence \/ x.id \notin Ids(s),
           x.id[1] = "day" => x.id[2] =< CompletedDay(s) + 1
    PROVE  /\ Append(s, x) \in Seq(StreamRows) /\ Begins(s, Append(s, x))
           /\ Len(Append(s, x)) = Len(s) + 1 /\ Append(s, x)[Len(s) + 1] = x
           /\ Once(Append(s, x)) /\ DaysAreCounted(Append(s, x))
<1>. DEFINE t == Append(s, x)
<1>1. /\ t \in Seq(StreamRows) /\ DOMAIN t = 1..(Len(s) + 1) /\ DOMAIN s = 1..Len(s)
      /\ Len(t) = Len(s) + 1 /\ Len(s) \in Nat
      /\ t[Len(s) + 1] = x /\ \A i \in 1..Len(s) : t[i] = s[i]
  BY AppendProperties
<1>2. CompletedDay(t) = IF x.id[1] \in {"day", "boundary"} THEN CompletedDay(s) + 1
                        ELSE CompletedDay(s)
  BY CountOfAppend DEF CompletedDay
<1>3. CompletedDay(s) \in Nat
  BY CountIsNat DEF CompletedDay
<1>. HIDE DEF t
<1>4. Begins(s, t)
  BY <1>1 DEF Begins
<1>5. Once(t)
  <2>. SUFFICES ASSUME NEW i \in 1..(Len(s) + 1), NEW j \in 1..(Len(s) + 1),
                       t[i].id = t[j].id, i # j
                PROVE  t[i].id = Fence
    BY <1>1 DEF Once
  <2>1. CASE i \in 1..Len(s) /\ j \in 1..Len(s)
    BY <1>1, <2>1 DEF Once
  <2>2. ASSUME NEW k \in 1..Len(s), s[k].id = x.id
        PROVE  x.id = Fence
    BY <1>1, <2>2 DEF Ids
  <2>3. CASE i = Len(s) + 1
    <3>1. j \in 1..Len(s)
      BY <1>1, <2>3
    <3>. QED
      BY <1>1, <2>2, <2>3, <3>1
  <2>4. CASE j = Len(s) + 1
    <3>1. i \in 1..Len(s)
      BY <1>1, <2>4
    <3>. QED
      BY <1>1, <2>2, <2>4, <3>1
  <2>. QED
    BY <1>1, <2>1, <2>3, <2>4
<1>6. DaysAreCounted(t)
  <2>. SUFFICES ASSUME NEW i \in 1..(Len(s) + 1), t[i].id[1] = "day"
                PROVE  t[i].id[2] =< CompletedDay(t)
    BY <1>1 DEF DaysAreCounted
  <2>1. CASE i = Len(s) + 1
    <3>1. x.id[1] = "day" /\ t[i] = x
      BY <1>1, <2>1
    <3>. QED
      BY <1>2, <3>1
  <2>2. CASE i \in 1..Len(s)
    <3>1. t[i] = s[i] /\ s[i].id[2] =< CompletedDay(s)
      BY <1>1, <2>2 DEF DaysAreCounted
    <3>2. s[i].id[1] = "day" /\ s[i].id \in Identities
      <4>1. s[i] \in StreamRows
        BY <2>2
      <4>. QED
        BY <3>1, <4>1 DEF StreamRows
    <3>3. s[i].id[2] \in Nat
      BY <3>2 DEF Identities, Genesis, Fence, Establish, Counsel, Resolve, Boundary
    <3>. QED
      BY <1>2, <1>3, <3>1, <3>3
  <2>. QED
    BY <1>1, <2>1, <2>2
<1>. QED
  BY <1>1, <1>4, <1>5, <1>6 DEF t

-----------------------------------------------------------------------------
(* The steps of a sponsor command *)

SponsorKinds == Kinds \ {"refresh", "day"}

\* The steps are operations of the sponsor: none is a day, and an abstention
\* lives none.
LEMMA StepIdsType ==
    ASSUME NEW s \in Seq(StreamRows), NEW kind \in SponsorKinds
    PROVE  /\ StepIds(kind, s) \in Seq(Identities)
           /\ \A i \in DOMAIN StepIds(kind, s) :
                 /\ StepIds(kind, s)[i][1] # "day"
                 /\ kind = "abstain" => StepIds(kind, s)[i][1] \notin {"day", "boundary"}
<1>. DEFINE S == {Establish, Abstain(CompletedDay(s)), Counsel, Resolve}
            B == {Boundary("abstain"), Boundary("counsel")}
            T == IF kind = "abstain" THEN S ELSE S \cup B
            more == CASE kind = "establish" -> <<>>
                      [] kind = "abstain" -> <<Abstain(CompletedDay(s))>>
                      [] kind = "advance-abstention" -> <<Boundary("abstain")>>
                      [] kind = "counsel" -> <<Counsel>>
                      [] kind = "resolve" -> <<Counsel, Resolve, Boundary("counsel")>>
<1>1. CompletedDay(s) \in Nat
  BY CountIsNat DEF CompletedDay
<1>2. S \cup B \subseteq Identities
  BY <1>1 DEF Identities, Abstain
<1>3. \A id \in T : id[1] # "day" /\ (kind = "abstain" => id[1] # "boundary")
  BY DEF Establish, Abstain, Counsel, Resolve, Boundary
<1>4. kind \in {"establish", "abstain", "advance-abstention", "counsel", "resolve"}
  BY WritersAssumption DEF WritersAssumption, SponsorKinds
<1>5. /\ Establish \in T /\ Abstain(CompletedDay(s)) \in T /\ Counsel \in T /\ Resolve \in T
      /\ kind # "abstain" => Boundary("abstain") \in T /\ Boundary("counsel") \in T
  OBVIOUS
<1>. HIDE DEF T, S, B
<1>6. more \in Seq(T)
  <2>1. CASE kind = "establish"
    BY <2>1
  <2>2. CASE kind = "abstain"
    BY <1>5, <2>2
  <2>3. CASE kind = "advance-abstention"
    BY <1>5, <2>3
  <2>4. CASE kind = "counsel"
    BY <1>5, <2>4
  <2>5. CASE kind = "resolve"
    BY <1>5, <2>5
  <2>. QED
    BY <1>4, <2>1, <2>2, <2>3, <2>4, <2>5
<1>7. StepIds(kind, s) = <<Establish>> \o more
  BY DEF StepIds
<1>8. <<Establish>> \in Seq(T)
  BY <1>5
<1>. HIDE DEF more
<1>9. StepIds(kind, s) \in Seq(T)
  BY <1>6, <1>7, <1>8, ConcatProperties
<1>10. T \subseteq Identities
  BY <1>2 DEF T
<1>11. \A i \in DOMAIN StepIds(kind, s) : StepIds(kind, s)[i] \in T
  BY <1>9
<1>12. \A u : u \in Seq(T) => u \in Seq(Identities)
  BY <1>10
<1>. QED
  BY <1>3, <1>9, <1>11, <1>12

\* A command has the same steps before and after one of them.
LEMMA StepIdsStay ==
    ASSUME NEW s \in Seq(StreamRows), NEW x \in StreamRows, NEW kind \in SponsorKinds,
           kind = "abstain" => x.id[1] \notin {"day", "boundary"}
    PROVE  StepIds(kind, Append(s, x)) = StepIds(kind, s)
<1>1. kind \in {"establish", "abstain", "advance-abstention", "counsel", "resolve"}
  BY WritersAssumption DEF WritersAssumption, SponsorKinds
<1>2. CASE kind = "abstain"
  <2>1. CompletedDay(Append(s, x)) = CompletedDay(s)
    BY <1>2, CountOfAppend DEF CompletedDay
  <2>. QED
    BY <1>2, <2>1 DEF StepIds
<1>3. CASE kind # "abstain"
  BY <1>1, <1>3 DEF StepIds
<1>. QED
  BY <1>2, <1>3

\* A stream that begins another of its length is it.
LEMMA SameLength ==
    ASSUME NEW s \in Seq(StreamRows), NEW t \in Seq(StreamRows), Begins(s, t), s # t
    PROVE  Len(s) < Len(t)
<1>1. ASSUME Len(s) = Len(t)
      PROVE  s = t
  <2>1. \A i \in 1..Len(s) : s[i] = t[i]
    BY DEF Begins
  <2>. QED
    BY <1>1, <2>1, SeqEqual
<1>. QED
  BY <1>1 DEF Begins

-----------------------------------------------------------------------------
(* What a step of one request leaves to the others *)

Acts(r) ==
    /\ req' \in Seq(RequestRecords) /\ Len(req') = Len(req)
    /\ \A q \in Requests \ {r} : req'[q] = req[q]
    /\ req'[r].tab = req[r].tab /\ req'[r].kind = req[r].kind
    /\ conns \ {r} \subseteq conns'
    /\ chain' \in [Tabs -> Seq(Nat)]
    /\ \A q \in Requests \ {r} : IsNext(q) => IsNext(q)'
    /\ shown' \in [Tabs -> States]

\* The rows a step of r adds are its own, and it adds some only in its turn.
Grow(r) ==
    /\ rows' \in Seq(StreamRows) /\ Begins(rows, rows')
    /\ \A i \in (Len(rows) + 1)..Len(rows') : rows'[i].by = r
    /\ rows' # rows => req[r].kind = "refresh" \/ IsNext(r)

KeepsWho ==
    \A q \in Requests : /\ q \in DOMAIN req'
                        /\ req'[q].tab = req[q].tab /\ req'[q].kind = req[q].kind

OutsiderThen(q, r) ==
    q \in DOMAIN req' /\ (req'[q].kind = "refresh" \/ req'[q].tab # req'[r].tab)

\* Who was an outsider stays one, since a request keeps its page and its kind.
LEMMA OutsidersStay ==
    ASSUME KeepsWho, NEW r \in Requests
    PROVE  \A q : Outsider(q, r) => OutsiderThen(q, r)
BY DEF KeepsWho, Outsider, OutsiderThen, Requests

\* A race that was between outsiders stays so.
LEMMA RacesStay ==
    ASSUME KeepsWho, NEW race, RaceOK(race)
    PROVE  RaceOK(race)'
BY OutsidersStay DEF KeepsWho, RaceOK, Outsider, OutsiderThen, Requests

\* A request that did not step is as it was.
LEMMA OthersStay ==
    ASSUME WritersInv, KeepsWho, NEW q \in Requests, req'[q] = req[q],
           q \in conns => q \in conns', IsNext(q) => IsNext(q)',
           req[q].at = "working" =>
               /\ rows' \in Seq(StreamRows) /\ Begins(rows, rows')
               /\ \A i \in (Len(rows) + 1)..Len(rows') : Outsider(rows'[i].by, q)
    PROVE  RequestOK(q)'
<1>1. RequestOK(q) /\ req[q] \in RequestRecords /\ rows \in Seq(StreamRows)
  BY DEF WritersInv, Types, Requests
<1>2. Connected(q)' /\ Writes(q)' /\ KnowsSteps(q)'
  BY <1>1 DEF RequestOK, Connected, Writes, KnowsSteps, IsSponsor
<1>3. TakesTurns(q)'
  BY <1>1 DEF RequestOK, TakesTurns, AtWork
<1>4. ReadsPrefix(q)'
  <2>. SUFFICES ASSUME req[q].at = "working"
                PROVE  /\ Begins(req[q].bundle, rows')
                       /\ \A i \in (Len(req[q].bundle) + 1)..Len(rows') :
                             OutsiderThen(rows'[i].by, q)
    BY <1>1 DEF ReadsPrefix, AddedByOutsiders, Outsider, OutsiderThen, Requests
  <2>. DEFINE b == req[q].bundle
  <2>1. Begins(b, rows) /\ AddedByOutsiders(b, q)
    BY <1>1 DEF RequestOK, ReadsPrefix
  <2>2. b \in Seq(StreamRows)
    BY <1>1 DEF RequestRecords
  <2>3. Len(b) \in Nat /\ Len(rows) \in Nat /\ Len(rows') \in Nat
    BY <1>1, <2>2
  <2>. HIDE DEF b
  <2>4. Begins(b, rows')
    BY <2>1, <2>3 DEF Begins
  <2>5. ASSUME NEW i \in (Len(b) + 1)..Len(rows')
        PROVE  Outsider(rows'[i].by, q)
    <3>1. CASE i \in 1..Len(rows)
      <4>1. rows'[i] = rows[i] /\ i \in (Len(b) + 1)..Len(rows)
        BY <2>3, <2>5, <3>1 DEF Begins
      <4>. QED
        BY <2>1, <4>1 DEF AddedByOutsiders
    <3>2. CASE i > Len(rows)
      BY <2>3, <2>5, <3>2
    <3>. QED
      BY <2>3, <2>5, <3>1, <3>2
  <2>6. \A i \in (Len(b) + 1)..Len(rows') : OutsiderThen(rows'[i].by, q)
    BY <2>5, OutsidersStay
  <2>. QED
    BY <2>4, <2>6 DEF b
<1>. QED
  BY <1>2, <1>3, <1>4 DEF RequestOK

\* So a step of r keeps the invariant when it keeps what concerns r.
LEMMA StepKeeps ==
    ASSUME WritersInv, NEW r \in Requests, Acts(r), Grow(r), StreamOK', RequestOK(r)',
           \A race \in raced' : race \in raced \/ RaceOK(race)
    PROVE  WritersInv'
<1>1. Requests' = Requests /\ KeepsWho
  <2>1. DOMAIN req' = 1..Len(req') /\ DOMAIN req = 1..Len(req)
    BY DEF Acts, WritersInv, Types
  <2>. QED
    BY <2>1 DEF Acts, KeepsWho, Requests
<1>2. Types'
  BY DEF Acts, Grow, Types
<1>3. \A race \in raced' : RaceOK(race)'
  BY <1>1, RacesStay DEF WritersInv
<1>4. ASSUME NEW q \in Requests, q # r
      PROVE  RequestOK(q)'
  <2>1. req'[q] = req[q] /\ (q \in conns => q \in conns') /\ (IsNext(q) => IsNext(q)')
    BY <1>4 DEF Acts
  <2>2. ASSUME req[q].at = "working", NEW i \in (Len(rows) + 1)..Len(rows')
        PROVE  Outsider(rows'[i].by, q)
    <3>1. RequestOK(q) /\ RequestOK(r)
      BY DEF WritersInv
    <3>2. req[q].kind # "refresh" /\ IsNext(q)
      BY <2>2, <3>1 DEF RequestOK, Writes, TakesTurns, AtWork
    <3>3. rows'[i].by = r
      BY <2>2 DEF Grow
    <3>4. rows' # rows
      <4>1. rows \in Seq(StreamRows)
        BY DEF WritersInv, Types
      <4>2. Len(rows) \in Nat
        BY <4>1
      <4>. QED
        BY <2>2, <4>2
    <3>5. req[r].kind = "refresh" \/ IsNext(r)
      BY <3>4 DEF Grow
    <3>6. req[r].kind = "refresh" \/ req[r].tab # req[q].tab
      BY <1>4, <3>2, <3>5 DEF IsNext
    <3>. QED
      BY <3>3, <3>6 DEF Outsider
  <2>3. rows' \in Seq(StreamRows) /\ Begins(rows, rows')
    BY DEF Grow
  <2>. QED
    BY <1>1, <2>1, <2>2, <2>3, OthersStay
<1>. QED
  BY <1>1, <1>2, <1>3, <1>4 DEF WritersInv

\* What the invariant says of a request.
LEMMA RequestFacts ==
    ASSUME WritersInv, NEW r \in Requests
    PROVE  /\ req[r] \in RequestRecords /\ req[r].tab \in Tabs
           /\ req[r].bundle \in Seq(StreamRows) /\ rows \in Seq(StreamRows)
           /\ r \in 1..Len(req) /\ DOMAIN req = 1..Len(req) /\ Len(req) \in Nat
           /\ req \in Seq(RequestRecords)
           /\ StreamOK /\ RequestOK(r)
<1>1. req \in Seq(RequestRecords) /\ rows \in Seq(StreamRows)
  BY DEF WritersInv, Types
<1>2. r \in 1..Len(req) /\ DOMAIN req = 1..Len(req) /\ Len(req) \in Nat
  BY <1>1 DEF Requests
<1>3. req[r] \in RequestRecords
  BY <1>1, <1>2
<1>4. req[r].tab \in Tabs /\ req[r].bundle \in Seq(StreamRows)
  BY <1>3 DEF RequestRecords
<1>. QED
  BY <1>1, <1>2, <1>3, <1>4 DEF WritersInv

Tolds == {"rejected", "quarantined", "shown", "saved", "notSaved", "open"}
Blank(t, kind, at, expected, told) ==
    [tab |-> t, kind |-> kind, at |-> at, expected |-> expected, bundle |-> <<>>,
     todo |-> <<>>, fenced |-> FALSE, error |-> None, told |-> told]

\* NoRequest as Settles uses it.
LEMMA BlankDone ==
    ASSUME NEW t, NEW kind, NEW told, NEW e,
           e = [NoRequest EXCEPT !.tab = t, !.kind = kind, !.told = told]
    PROVE  e = Blank(t, kind, "done", None, told)
<1>1. NoRequest = Blank(None, None, "done", None, None)
  BY DEF NoRequest, Blank
<1>. QED
  BY <1>1 DEF Blank

\* NoRequest as a failure uses it.
LEMMA BlankAt ==
    ASSUME NEW t, NEW kind, NEW at, NEW told, NEW e,
           e = [NoRequest EXCEPT !.tab = t, !.kind = kind, !.at = at, !.told = told]
    PROVE  e = Blank(t, kind, at, None, told)
<1>1. NoRequest = Blank(None, None, "done", None, None)
  BY DEF NoRequest, Blank
<1>. QED
  BY <1>1 DEF Blank

\* NoRequest as Ask uses it.
LEMMA BlankAsked ==
    ASSUME NEW t, NEW kind, NEW at, NEW expected, NEW e,
           e = [NoRequest EXCEPT !.tab = t, !.kind = kind, !.expected = expected, !.at = at]
    PROVE  e = Blank(t, kind, at, expected, None)
<1>1. NoRequest = Blank(None, None, "done", None, None)
  BY DEF NoRequest, Blank
<1>. QED
  BY <1>1 DEF Blank

\* They are request records.
LEMMA BlankType ==
    ASSUME NEW t \in Tabs, NEW kind \in Kinds, NEW at \in Places, NEW expected \in States,
           NEW told \in Tolds \cup {None}
    PROVE  Blank(t, kind, at, expected, told) \in RequestRecords
<1>1. <<>> \in Seq(StreamRows) /\ <<>> \in Seq(Identities) /\ FALSE \in BOOLEAN
  OBVIOUS
<1>2. told \in {None, "rejected", "quarantined", "shown", "saved", "notSaved", "open"}
  BY DEF Tolds
<1>. QED
  BY <1>1, <1>2 DEF Blank, RequestRecords

\* A step of r that replaces r's record only.
LEMMA MoveActs ==
    ASSUME WritersInv, NEW r \in Requests, NEW e \in RequestRecords,
           e.tab = req[r].tab, e.kind = req[r].kind,
           req' = [req EXCEPT ![r] = e],
           conns \ {r} \subseteq conns', chain' = chain, shown' = shown
    PROVE  Acts(r) /\ req'[r] = e /\ (IsNext(r) => IsNext(r)')
<1>1. /\ req \in Seq(RequestRecords) /\ r \in 1..Len(req) /\ DOMAIN req = 1..Len(req)
  BY RequestFacts
<1>2. req' \in Seq(RequestRecords) /\ Len(req') = Len(req)
  BY <1>1, ExceptSeq
<1>3. req'[r] = e /\ \A q \in Requests \ {r} : req'[q] = req[q]
  BY <1>1 DEF Requests
<1>4. chain' \in [Tabs -> Seq(Nat)] /\ shown' \in [Tabs -> States]
  BY DEF WritersInv, Types
<1>. QED
  BY <1>2, <1>3, <1>4 DEF Acts, IsNext

\* A step that settles r.
LEMMA SettlesActs ==
    ASSUME WritersInv, NEW r \in Requests,
           NEW told \in Tolds, Settles(r, told), shown' \in [Tabs -> States]
    PROVE  Acts(r) /\ RequestOK(r)'
<1>. DEFINE e == [NoRequest EXCEPT !.tab = req[r].tab, !.kind = req[r].kind, !.told = told]
            u == req[r].tab
<1>1. /\ req \in Seq(RequestRecords) /\ r \in 1..Len(req) /\ DOMAIN req = 1..Len(req)
      /\ req[r] \in RequestRecords /\ u \in Tabs
  BY RequestFacts
<1>2. e = Blank(req[r].tab, req[r].kind, "done", None, told)
  <2>1. e = [NoRequest EXCEPT !.tab = req[r].tab, !.kind = req[r].kind, !.told = told]
    OBVIOUS
  <2>. HIDE DEF e
  <2>. QED
    BY <2>1, BlankDone
<1>. HIDE DEF e
<1>3. e \in RequestRecords /\ e.tab = req[r].tab /\ e.kind = req[r].kind /\ e.at = "done"
  <2>1. "done" \in Places
    BY DEF Places
  <2>2. req[r].kind \in Kinds
    BY <1>1 DEF RequestRecords
  <2>3. None \in States
    BY DEF States
  <2>. QED
    BY <1>1, <1>2, <2>1, <2>2, <2>3, BlankType DEF Blank
<1>4. req' = [req EXCEPT ![r] = e]
  BY DEF Settles, e
<1>5. req' \in Seq(RequestRecords) /\ Len(req') = Len(req)
  BY <1>1, <1>3, <1>4, ExceptSeq
<1>6. req'[r] = e /\ \A q \in Requests \ {r} : req'[q] = req[q]
  BY <1>1, <1>4 DEF Requests
<1>7. conns \ {r} \subseteq conns'
  BY DEF Settles, Closed
<1>8. /\ chain \in [Tabs -> Seq(Nat)]
      /\ chain' = [chain EXCEPT ![u] = IF @ # <<>> /\ Head(@) = r THEN Tail(@) ELSE @]
  BY DEF WritersInv, Types, Settles
<1>9. chain' \in [Tabs -> Seq(Nat)]
  BY <1>1, <1>8
<1>10. ASSUME NEW q \in Requests, q # r, IsNext(q)
       PROVE  IsNext(q)'
  <2>1. chain[req[q].tab] # <<>> /\ Head(chain[req[q].tab]) = q /\ req[q].tab \in Tabs
    BY <1>10, RequestFacts DEF IsNext
  <2>2. chain'[req[q].tab] = chain[req[q].tab]
    BY <1>8, <1>10, <2>1
  <2>. QED
    BY <1>6, <1>10, <2>1, <2>2 DEF IsNext
<1>11. Acts(r)
  BY <1>3, <1>5, <1>6, <1>7, <1>9, <1>10 DEF Acts
<1>12. RequestOK(r)'
  BY <1>3, <1>6 DEF RequestOK, Connected, Writes, TakesTurns, AtWork, ReadsPrefix, KnowsSteps
<1>. QED
  BY <1>11, <1>12

\* A step that leaves the stream alone.
LEMMA StreamStays ==
    ASSUME WritersInv, rows' = rows
    PROVE  StreamOK' /\ \A r \in Requests : Grow(r)
<1>1. rows \in Seq(StreamRows) /\ StreamOK
  BY DEF WritersInv, Types
<1>2. StreamOK'
  BY <1>1 DEF StreamOK, Once, DaysAreCounted, CompletedDay, Count
<1>3. Begins(rows, rows') /\ (Len(rows) + 1)..Len(rows') = {}
  <2>1. Len(rows) \in Nat
    BY <1>1
  <2>. QED
    BY <2>1 DEF Begins
<1>. QED
  BY <1>1, <1>2, <1>3 DEF Grow

\* A request that moves on to a place where it has not read.
LEMMA GoesKeeps ==
    ASSUME WritersInv, NEW r \in Requests, NEW at \in Places \ {"working"},
           Goes(r, at), conns \ {r} \subseteq conns', chain' = chain, shown' = shown,
           Grow(r), StreamOK', raced' = raced,
           at \in {"reading", "persisting", "showing"} => r \in conns',
           at \in {"queued", "opening", "reading"} => req[r].kind # "refresh",
           at \in {"queued", "done"} \/ AtWork(r) \/ IsNext(r) \/ req[r].kind = "refresh"
    PROVE  WritersInv'
<1>. DEFINE e == [req[r] EXCEPT !.at = at]
<1>1. req[r] \in RequestRecords /\ RequestOK(r)
  BY RequestFacts
<1>2. e \in RequestRecords /\ e.tab = req[r].tab /\ e.kind = req[r].kind /\ e.at = at
  BY <1>1 DEF RequestRecords
<1>3. req' = [req EXCEPT ![r] = e]
  BY DEF Goes
<1>. HIDE DEF e
<1>4. Acts(r) /\ req'[r] = e /\ (IsNext(r) => IsNext(r)')
  BY <1>2, <1>3, MoveActs
<1>5. AtWork(r) => IsNext(r)
  BY <1>1 DEF RequestOK, TakesTurns
<1>6. RequestOK(r)'
  BY <1>2, <1>4, <1>5
  DEF RequestOK, Connected, Writes, TakesTurns, AtWork, ReadsPrefix, KnowsSteps
<1>. QED
  BY <1>4, <1>6, StepKeeps

-----------------------------------------------------------------------------
(* The steps of a request *)

\* The steps that neither read nor write the stream.
LEMMA MovesKeep ==
    ASSUME WritersInv, NEW r \in Requests,
           Begin(r) \/ Receive(r) \/ Open(r) \/ OpenView(r) \/ Rebuild(r)
    PROVE  WritersInv'
<1>1. /\ RequestOK(r) /\ (AtWork(r) => IsNext(r))
      /\ req[r].at \in {"queued", "opening", "reading", "working"} => req[r].kind # "refresh"
  BY RequestFacts DEF RequestOK, TakesTurns, Writes
<1>2. ASSUME rows' = rows PROVE StreamOK' /\ Grow(r)
  BY <1>2, StreamStays
<1>3. CASE Begin(r)
  <2>. DEFINE at == IF req[r].kind = "day" THEN "posted" ELSE "opening"
  <2>1. /\ Goes(r, at) /\ req[r].at = "queued" /\ IsNext(r) /\ rows' = rows /\ raced' = raced
        /\ conns' = conns /\ chain' = chain /\ shown' = shown
    BY <1>3 DEF Begin
  <2>2. at \in Places \ {"working"} /\ at \in {"posted", "opening"}
    BY DEF Places
  <2>. HIDE DEF at
  <2>. QED
    BY <1>1, <1>2, <2>1, <2>2, GoesKeeps
<1>4. CASE Receive(r)
  <2>. DEFINE at == IF req[r].kind = "day" THEN "opening" ELSE "building"
  <2>1. /\ Goes(r, at) /\ req[r].at = "posted" /\ rows' = rows /\ raced' = raced
        /\ conns' = conns /\ chain' = chain /\ shown' = shown
    BY <1>4 DEF Receive
  <2>2. /\ at \in Places \ {"working"} /\ at \in {"building", "opening"}
        /\ at = "opening" => req[r].kind # "refresh"
    BY DEF Places
  <2>3. AtWork(r) \/ req[r].kind = "refresh"
    BY <2>1 DEF AtWork
  <2>. HIDE DEF at
  <2>. QED
    BY <1>2, <2>1, <2>2, <2>3, GoesKeeps
<1>5. CASE Open(r)
  <2>1. /\ Goes(r, "reading") /\ req[r].at = "opening" /\ rows' = rows /\ raced' = raced
        /\ conns' = conns \cup {r} /\ chain' = chain /\ shown' = shown
    BY <1>5 DEF Open, Opens
  <2>2. AtWork(r) /\ "reading" \in Places \ {"working"}
    BY <1>1, <2>1 DEF AtWork, Places
  <2>. QED
    BY <1>1, <1>2, <2>1, <2>2, GoesKeeps
<1>6. CASE OpenView(r)
  <2>1. /\ Goes(r, "persisting") /\ req[r].at = "building" /\ rows' = rows /\ raced' = raced
        /\ conns' = conns \cup {r} /\ chain' = chain /\ shown' = shown
    BY <1>6 DEF OpenView, Opens
  <2>2. (AtWork(r) \/ req[r].kind = "refresh") /\ "persisting" \in Places \ {"working"}
    BY <2>1 DEF AtWork, Places
  <2>. QED
    BY <1>2, <2>1, <2>2, GoesKeeps
<1>7. CASE Rebuild(r)
  <2>1. /\ Goes(r, "building") /\ req[r].at = "persisting" /\ rows' = rows /\ raced' = raced
        /\ conns' = conns \ {r} /\ chain' = chain /\ shown' = shown
    BY <1>7 DEF Rebuild
  <2>2. (AtWork(r) \/ req[r].kind = "refresh") /\ "building" \in Places \ {"working"}
    BY <2>1 DEF AtWork, Places
  <2>. QED
    BY <1>2, <2>1, <2>2, GoesKeeps
<1>. QED
  BY <1>3, <1>4, <1>5, <1>6, <1>7

\* What a page shows are facts of a stream.
LEMMA ShownType ==
    ASSUME NEW s \in Seq(StreamRows)
    PROVE  Facts(s) \in States /\ Admitted \in States
<1>1. \A i \in DOMAIN s : s[i].id \in Identities
  <2>1. \A i \in DOMAIN s : s[i] \in StreamRows
    OBVIOUS
  <2>. QED
    BY <2>1 DEF StreamRows
<1>2. Facts(s) \subseteq Identities
  BY <1>1 DEF Facts, Ids
<1>3. Admitted \subseteq Identities
  BY DEF Admitted, Identities, Day
<1>. QED
  BY <1>2, <1>3 DEF States

\* A page that shows something else.
LEMMA ShowsType ==
    ASSUME WritersInv, NEW t \in Tabs, NEW x \in States, shown' = [shown EXCEPT ![t] = x]
    PROVE  shown' \in [Tabs -> States]
BY DEF WritersInv, Types

\* The race a request notes is with outsiders, since only they have written.
LEMMA NotesOutsiders ==
    ASSUME WritersInv, NEW r \in Requests, req[r].at = "working", rows # req[r].bundle,
           Notes(r)
    PROVE  \A race \in raced' : race \in raced \/ RaceOK(race)
<1>. DEFINE b == req[r].bundle
            new == [victim |-> r, by |-> Culprits(r)]
<1>1. /\ Begins(b, rows) /\ AddedByOutsiders(b, r) /\ b \in Seq(StreamRows)
      /\ rows \in Seq(StreamRows)
  BY RequestFacts DEF RequestOK, ReadsPrefix
<1>2. Len(b) < Len(rows) /\ Len(b) \in Nat /\ Len(rows) \in Nat
  BY <1>1, SameLength
<1>3. Culprits(r) = {rows[i].by : i \in (Len(b) + 1)..Len(rows)}
  BY DEF Culprits
<1>4. Len(rows) \in (Len(b) + 1)..Len(rows)
  BY <1>2
<1>. HIDE DEF b
<1>5. Culprits(r) # {} /\ \A q \in Culprits(r) : Outsider(q, r)
  BY <1>1, <1>3, <1>4 DEF AddedByOutsiders
<1>6. RaceOK(new)
  BY <1>5 DEF RaceOK
<1>. QED
  BY <1>6 DEF Notes

\* The steps that settle a request, with nothing written.
LEMMA SettlingKeeps ==
    ASSUME WritersInv, NEW r \in Requests, NEW told \in Tolds, Settles(r, told), rows' = rows,
           shown' \in [Tabs -> States],
           \A race \in raced' : race \in raced \/ RaceOK(race)
    PROVE  WritersInv'
<1>1. Acts(r) /\ RequestOK(r)'
  BY SettlesActs
<1>2. Grow(r) /\ StreamOK'
  BY StreamStays
<1>. QED
  BY <1>1, <1>2, StepKeeps

\* The steps with which a request ends: it leaves the head of the chain.
LEMMA EndsKeep ==
    ASSUME WritersInv, NEW r \in Requests,
           LoseDay(r) \/ Quarantine(r) \/ Show(r) \/ Finalize(r)
    PROVE  WritersInv'
<1>1. /\ req[r].tab \in Tabs /\ req[r].bundle \in Seq(StreamRows) /\ rows \in Seq(StreamRows)
      /\ shown \in [Tabs -> States]
  BY RequestFacts DEF WritersInv, Types
<1>2. CASE LoseDay(r)
  <2>1. /\ req[r].at = "working" /\ ~ StillAt(r, req[r].bundle) /\ Settles(r, "rejected")
        /\ Notes(r) /\ rows' = rows /\ shown' = shown
    BY <1>2 DEF LoseDay
  <2>2. rows # req[r].bundle
    BY <2>1 DEF StillAt
  <2>3. "rejected" \in Tolds
    BY DEF Tolds
  <2>4. \A race \in raced' : race \in raced \/ RaceOK(race)
    BY <2>1, <2>2, NotesOutsiders
  <2>. QED
    BY <1>1, <2>1, <2>3, <2>4, SettlingKeeps
<1>3. CASE Quarantine(r)
  <2>1. /\ Settles(r, "quarantined") /\ rows' = rows /\ raced' = raced
        /\ shown' = [shown EXCEPT ![req[r].tab] = Admitted]
    BY <1>3 DEF Quarantine
  <2>2. shown' \in [Tabs -> States]
    BY <1>1, <2>1, ShownType, ShowsType
  <2>3. "quarantined" \in Tolds
    BY DEF Tolds
  <2>. QED
    BY <2>1, <2>2, <2>3, SettlingKeeps
<1>4. CASE Show(r)
  <2>1. /\ Settles(r, "shown") /\ rows' = rows /\ raced' = raced
        /\ shown' = [shown EXCEPT ![req[r].tab] = Facts(rows)]
    BY <1>4 DEF Show
  <2>2. shown' \in [Tabs -> States]
    BY <1>1, <2>1, ShownType, ShowsType
  <2>3. "shown" \in Tolds
    BY DEF Tolds
  <2>. QED
    BY <2>1, <2>2, <2>3, SettlingKeeps
<1>5. CASE Finalize(r)
  <2>. DEFINE told == Told(req[r].error, rows # req[r].bundle)
  <2>1. /\ req[r].at = "working" /\ Settles(r, told) /\ rows' = rows
        /\ shown' = IF told = "saved"
                    THEN [shown EXCEPT ![req[r].tab] = Facts(req[r].bundle)] ELSE shown
        /\ rows # req[r].bundle => Notes(r)
        /\ rows = req[r].bundle => raced' = raced
    BY <1>5 DEF Finalize
  <2>2. told \in Tolds
    BY DEF Told, Tolds
  <2>. HIDE DEF told
  <2>3. shown' \in [Tabs -> States]
    <3>1. Facts(req[r].bundle) \in States
      BY <1>1, ShownType
    <3>. QED
      BY <1>1, <2>1, <3>1, ShowsType
  <2>4. \A race \in raced' : race \in raced \/ RaceOK(race)
    BY <2>1, NotesOutsiders
  <2>. QED
    BY <2>1, <2>2, <2>3, <2>4, SettlingKeeps
<1>. QED
  BY <1>2, <1>3, <1>4, <1>5

\* A row of r's own, added in its turn.
LEMMA GrowBy ==
    ASSUME WritersInv, NEW r \in Requests, NEW x \in StreamRows, x.by = r,
           rows' = Append(rows, x), x.id = Fence \/ x.id \notin Ids(rows),
           x.id[1] = "day" => x.id[2] =< CompletedDay(rows) + 1,
           req[r].kind = "refresh" \/ IsNext(r)
    PROVE  Grow(r) /\ StreamOK'
<1>. DEFINE t == Append(rows, x)
<1>1. rows \in Seq(StreamRows) /\ Once(rows) /\ DaysAreCounted(rows) /\ Len(rows) \in Nat
  BY RequestFacts DEF StreamOK
<1>2. /\ t \in Seq(StreamRows) /\ Begins(rows, t) /\ Len(t) = Len(rows) + 1
      /\ t[Len(rows) + 1] = x /\ Once(t) /\ DaysAreCounted(t)
  BY <1>1, RowFits
<1>3. \A i \in (Len(rows) + 1)..Len(t) : i = Len(rows) + 1
  BY <1>1, <1>2
<1>. HIDE DEF t
<1>4. rows' = t
  BY DEF t
<1>5. StreamOK'
  BY <1>2, <1>4 DEF StreamOK, Once, DaysAreCounted, CompletedDay, Count
<1>. QED
  BY <1>2, <1>3, <1>4, <1>5 DEF Grow

\* A request that has just read the stream, or written the last row of what it
\* knows.
LEMMA ReadKeeps ==
    ASSUME WritersInv, NEW r \in Requests, NEW e \in RequestRecords,
           e.tab = req[r].tab, e.kind = req[r].kind, e.at = "working", e.bundle = rows',
           req' = [req EXCEPT ![r] = e], r \in conns, conns' = conns, chain' = chain,
           shown' = shown, raced' = raced, Grow(r), StreamOK', AtWork(r),
           IsSponsor(r) => \/ e.todo = StepIds(e.kind, e.bundle)
                           \/ e.todo = <<>> /\ e.error # None
    PROVE  WritersInv'
<1>1. Acts(r) /\ req'[r] = e /\ (IsNext(r) => IsNext(r)')
  BY MoveActs
<1>2. IsNext(r) /\ e.kind # "refresh"
  BY RequestFacts DEF RequestOK, TakesTurns, AtWork
<1>3. Begins(rows', rows') /\ (Len(rows') + 1)..Len(rows') = {}
  <2>1. rows' \in Seq(StreamRows)
    BY DEF Grow
  <2>2. Len(rows') \in Nat
    BY <2>1
  <2>. QED
    BY <2>2 DEF Begins
<1>4. Connected(r)' /\ Writes(r)' /\ TakesTurns(r)'
  BY <1>1, <1>2 DEF Connected, Writes, TakesTurns, AtWork
<1>5. ReadsPrefix(r)'
  BY <1>1, <1>3 DEF ReadsPrefix, AddedByOutsiders
<1>6. KnowsSteps(r)'
  BY <1>1 DEF KnowsSteps, IsSponsor
<1>7. RequestOK(r)'
  BY <1>4, <1>5, <1>6 DEF RequestOK
<1>. QED
  BY <1>1, <1>7, StepKeeps

\* A day and a command read the stream, or end when there is none.
LEMMA ReadsKeep ==
    ASSUME WritersInv, NEW r \in Requests, ReadDay(r) \/ ReadBundle(r)
    PROVE  WritersInv'
<1>1. /\ req[r] \in RequestRecords /\ rows \in Seq(StreamRows) /\ RequestOK(r)
      /\ shown \in [Tabs -> States]
  BY RequestFacts DEF WritersInv, Types
<1>2. rows' = rows /\ shown' = shown /\ raced' = raced /\ req[r].at = "reading"
  BY DEF ReadDay, ReadBundle
<1>3. AtWork(r) /\ r \in conns
  BY <1>1, <1>2 DEF AtWork, RequestOK, Connected, Writes
<1>4. Grow(r) /\ StreamOK'
  BY <1>2, StreamStays
<1>5. ASSUME NEW told \in Tolds, Settles(r, told)
      PROVE  WritersInv'
  BY <1>1, <1>2, <1>5, SettlingKeeps
<1>6. "rejected" \in Tolds /\ "notSaved" \in Tolds
  BY DEF Tolds
<1>7. CASE ReadDay(r)
  <2>1. CASE sound /\ rows # <<>>
    <3>. DEFINE e == [req[r] EXCEPT !.at = "working", !.bundle = rows]
    <3>1. /\ req' = [req EXCEPT ![r] = e] /\ conns' = conns /\ chain' = chain
          /\ req[r].kind = "day"
      BY <1>7, <2>1 DEF ReadDay
    <3>2. /\ e \in RequestRecords /\ e.tab = req[r].tab /\ e.kind = req[r].kind
          /\ e.at = "working" /\ e.bundle = rows
      BY <1>1 DEF RequestRecords, Places
    <3>3. ~ IsSponsor(r)
      BY <3>1 DEF IsSponsor
    <3>. HIDE DEF e
    <3>. QED
      BY <1>2, <1>3, <1>4, <3>1, <3>2, <3>3, ReadKeeps
  <2>2. CASE ~ (sound /\ rows # <<>>)
    <3>1. Settles(r, "rejected")
      BY <1>7, <2>2 DEF ReadDay
    <3>. QED
      BY <1>5, <1>6, <3>1
  <2>. QED
    BY <2>1, <2>2
<1>8. CASE ReadBundle(r)
  <2>. DEFINE refusal == Refusal(req[r].kind, req[r].expected, rows)
              steps == StepIds(req[r].kind, rows)
              todo == IF refusal = None THEN steps ELSE <<>>
  <2>1. CASE sound /\ rows # <<>>
    <3>. DEFINE e == [req[r] EXCEPT !.bundle = rows, !.error = refusal, !.todo = todo,
                                    !.at = "working"]
    <3>1. /\ req' = [req EXCEPT ![r] = e] /\ conns' = conns /\ chain' = chain
          /\ IsSponsor(r)
      BY <1>8, <2>1 DEF ReadBundle
    <3>2. refusal \in {None, "mismatch", "refused", "race"}
      BY DEF Refusal
    <3>3. req[r].kind \in SponsorKinds
      <4>1. req[r].kind \in Kinds
        BY <1>1 DEF RequestRecords
      <4>. QED
        BY <3>1, <4>1 DEF SponsorKinds, IsSponsor
    <3>4. steps \in Seq(Identities)
      BY <1>1, <3>3, StepIdsType
    <3>. HIDE DEF refusal, steps, e
    <3>5. todo \in Seq(Identities) /\ (todo = steps \/ (todo = <<>> /\ refusal # None))
      BY <3>4
    <3>. HIDE DEF todo
    <3>6. /\ e \in RequestRecords /\ e.tab = req[r].tab /\ e.kind = req[r].kind
          /\ e.at = "working" /\ e.bundle = rows /\ e.todo = todo /\ e.error = refusal
      BY <1>1, <3>2, <3>5 DEF RequestRecords, Places, e
    <3>7. \/ e.todo = StepIds(e.kind, e.bundle)
          \/ e.todo = <<>> /\ e.error # None
      BY <3>5, <3>6 DEF steps
    <3>. QED
      BY <1>2, <1>3, <1>4, <3>1, <3>6, <3>7, ReadKeeps
  <2>2. CASE ~ (sound /\ rows # <<>>)
    <3>1. Settles(r, "notSaved")
      BY <1>8, <2>2 DEF ReadBundle
    <3>. QED
      BY <1>5, <1>6, <3>1
  <2>. QED
    BY <2>1, <2>2
<1>. QED
  BY <1>7, <1>8

\* A command that finds the stream changed gives up.
LEMMA HeadRaceKeeps ==
    ASSUME WritersInv, NEW r \in Requests, HeadRace(r)
    PROVE  WritersInv'
<1>. DEFINE e == [req[r] EXCEPT !.todo = <<>>, !.error = "race"]
<1>1. req[r] \in RequestRecords /\ RequestOK(r) /\ rows \in Seq(StreamRows)
  BY RequestFacts
<1>2. /\ req' = [req EXCEPT ![r] = e] /\ req[r].at = "working" /\ rows # req[r].bundle
      /\ Notes(r) /\ rows' = rows /\ conns' = conns /\ chain' = chain /\ shown' = shown
  BY DEF HeadRace, SameAsRead
<1>3. <<>> \in Seq(Identities)
  OBVIOUS
<1>4. /\ e \in RequestRecords /\ e.tab = req[r].tab /\ e.kind = req[r].kind
      /\ e.at = req[r].at /\ e.bundle = req[r].bundle /\ e.todo = <<>> /\ e.error = "race"
  BY <1>1, <1>3 DEF RequestRecords
<1>. HIDE DEF e
<1>5. Acts(r) /\ req'[r] = e /\ (IsNext(r) => IsNext(r)')
  BY <1>2, <1>4, MoveActs
<1>6. Grow(r) /\ StreamOK'
  BY <1>2, StreamStays
<1>7. Connected(r)' /\ Writes(r)' /\ TakesTurns(r)'
  BY <1>1, <1>2, <1>4, <1>5 DEF RequestOK, Connected, Writes, TakesTurns, AtWork
<1>8. ReadsPrefix(r)'
  <2>1. Begins(e.bundle, rows) /\ AddedByOutsiders(e.bundle, r)
    BY <1>1, <1>2, <1>4 DEF RequestOK, ReadsPrefix
  <2>2. Requests' = Requests /\ \A q \in Requests : /\ req'[q].kind = req[q].kind
                                                    /\ req'[q].tab = req[q].tab
    <3>1. DOMAIN req' = DOMAIN req
      BY <1>2
    <3>. QED
      BY <1>5, <3>1 DEF Acts, Requests
  <2>. QED
    BY <1>2, <1>5, <2>1, <2>2 DEF ReadsPrefix, AddedByOutsiders, Outsider
<1>9. KnowsSteps(r)'
  BY <1>4, <1>5, WritersAssumption DEF KnowsSteps, WritersAssumption
<1>10. RequestOK(r)'
  BY <1>7, <1>8, <1>9 DEF RequestOK
<1>11. \A race \in raced' : race \in raced \/ RaceOK(race)
  BY <1>2, NotesOutsiders
<1>. QED
  BY <1>5, <1>6, <1>10, <1>11, StepKeeps

\* A live day takes the fence, and then appends the day after those it has read.
LEMMA AdvanceDayKeeps ==
    ASSUME WritersInv, NEW r \in Requests, AdvanceDay(r)
    PROVE  WritersInv'
<1>. DEFINE b == req[r].bundle
<1>1. /\ req[r] \in RequestRecords /\ rows \in Seq(StreamRows) /\ b \in Seq(StreamRows)
      /\ RequestOK(r) /\ r \in Nat
  BY RequestFacts
<1>2. req[r].at = "working" /\ req[r].kind = "day" /\ StillAt(r, b)
  BY DEF AdvanceDay
<1>3. r \in conns /\ AtWork(r) /\ IsNext(r) /\ Begins(b, rows)
  BY <1>1, <1>2 DEF RequestOK, Connected, AtWork, TakesTurns, ReadsPrefix
<1>4. CASE req[r].fenced
  <2>. DEFINE n == CompletedDay(b) + 1
              x == Row(Day(n), r)
  <2>1. /\ rows' = Append(rows, x) /\ Goes(r, "building") /\ conns' = conns \ {r}
        /\ chain' = chain /\ shown' = shown /\ raced' = raced
    BY <1>4 DEF AdvanceDay
  <2>2. CompletedDay(rows) = CompletedDay(b) /\ CompletedDay(rows) \in Nat
    <3>1. Revision(rows) = Revision(b)
      BY <1>2, <1>4 DEF StillAt
    <3>. QED
      BY <1>1, <1>3, <3>1, SameRevisionSameDay, CountIsNat DEF CompletedDay
  <2>3. n \in Nat /\ n = CompletedDay(rows) + 1
    BY <2>2
  <2>. HIDE DEF n
  <2>4. x \in StreamRows /\ x.by = r /\ x.id = <<"day", n>>
    BY <1>1, <2>3 DEF Row, Day, StreamRows, Identities
  <2>5. <<"day", n>> \notin Ids(rows)
    <3>1. DaysAreCounted(rows)
      BY RequestFacts DEF StreamOK
    <3>2. ASSUME NEW i \in DOMAIN rows, rows[i].id = <<"day", n>>
          PROVE  FALSE
      <4>1. rows[i].id[1] = "day" /\ rows[i].id[2] = n
        BY <3>2
      <4>2. n =< CompletedDay(rows)
        BY <3>1, <4>1 DEF DaysAreCounted
      <4>. QED
        BY <2>2, <2>3, <4>2
    <3>. QED
      BY <3>2 DEF Ids
  <2>6. n =< CompletedDay(rows) + 1
    BY <2>2, <2>3
  <2>7. <<"day", n>>[2] = n
    OBVIOUS
  <2>. HIDE DEF x
  <2>8. Grow(r) /\ StreamOK'
    BY <1>3, <2>1, <2>4, <2>5, <2>6, <2>7, GrowBy
  <2>9. "building" \in Places \ {"working"} /\ conns \ {r} \subseteq conns'
    BY <2>1 DEF Places
  <2>. QED
    BY <1>3, <2>1, <2>8, <2>9, GoesKeeps
<1>5. CASE ~ req[r].fenced
  <2>. DEFINE x == Row(Fence, r)
              e == [req[r] EXCEPT !.fenced = TRUE, !.bundle = rows']
  <2>1. /\ rows' = Append(rows, x) /\ req' = [req EXCEPT ![r] = e] /\ conns' = conns
        /\ chain' = chain /\ shown' = shown /\ raced' = raced
    BY <1>5 DEF AdvanceDay
  <2>2. x \in StreamRows /\ x.by = r /\ x.id = Fence /\ x.id[1] # "day"
    BY <1>1 DEF Row, StreamRows, Identities, Fence
  <2>. HIDE DEF x
  <2>3. Grow(r) /\ StreamOK'
    BY <1>3, <2>1, <2>2, GrowBy
  <2>4. rows' \in Seq(StreamRows)
    BY <2>3 DEF Grow
  <2>5. /\ e \in RequestRecords /\ e.tab = req[r].tab /\ e.kind = req[r].kind
        /\ e.at = "working" /\ e.bundle = rows'
    BY <1>1, <1>2, <2>4 DEF RequestRecords
  <2>6. ~ IsSponsor(r)
    BY <1>2 DEF IsSponsor
  <2>. HIDE DEF e
  <2>. QED
    BY <1>3, <2>1, <2>3, <2>5, <2>6, ReadKeeps
<1>. QED
  BY <1>4, <1>5

\* Short sequences, built from their ends.
LEMMA ShortSeqs ==
    ASSUME NEW x \in StreamRows, NEW y \in StreamRows
    PROVE  Append(<<>>, x) = <<x>> /\ Append(<<x>>, y) = <<x, y>>
<1>1. Append(<<>>, x) = <<x>>
  <2>1. <<x>> \in Seq(StreamRows) /\ Append(<<>>, x) \in Seq(StreamRows)
    OBVIOUS
  <2>2. Len(<<x>>) = 1 /\ Len(Append(<<>>, x)) = 1 /\ Append(<<>>, x)[1] = x
    OBVIOUS
  <2>. QED
    BY <2>1, <2>2, SeqEqual
<1>2. Append(<<x>>, y) = <<x, y>>
  <2>. DEFINE s == Append(<<x>>, y)
              t == <<x, y>>
  <2>1. s \in Seq(StreamRows) /\ t \in Seq(StreamRows)
    OBVIOUS
  <2>2. Len(s) = 2 /\ s[1] = x /\ s[2] = y
    OBVIOUS
  <2>3. Len(t) = 2 /\ t[1] = x /\ t[2] = y
    OBVIOUS
  <2>4. \A i \in 1..2 : i = 1 \/ i = 2
    OBVIOUS
  <2>. HIDE DEF s, t
  <2>5. \A i \in 1..Len(s) : s[i] = t[i]
    BY <2>2, <2>3, <2>4
  <2>6. s = t
    BY <2>1, <2>2, <2>3, <2>5, SeqEqual
  <2>. QED
    BY <2>6 DEF s, t
<1>. QED
  BY <1>1, <1>2

\* A view writes a new world, or a snapshot of a revision that has none.
LEMMA PersistKeeps ==
    ASSUME WritersInv, NEW r \in Requests, Persist(r)
    PROVE  WritersInv'
<1>1. /\ rows \in Seq(StreamRows) /\ RequestOK(r) /\ r \in Nat /\ StreamOK
  BY RequestFacts
<1>2. /\ req[r].at = "persisting" /\ Goes(r, "showing") /\ conns' = conns /\ chain' = chain
      /\ shown' = shown /\ raced' = raced
  BY DEF Persist
<1>3. /\ r \in conns
      /\ req[r].kind = "refresh" \/ IsNext(r)
      /\ AtWork(r) \/ req[r].kind = "refresh"
  BY <1>1, <1>2 DEF RequestOK, Connected, AtWork, TakesTurns
<1>4. Grow(r) /\ StreamOK'
  <2>1. CASE rows = <<>>
    <3>. DEFINE x == Row(Genesis, r)
                y == Row(Day(1), r)
    <3>1. rows' = <<x, y>>
      BY <2>1 DEF Persist
    <3>2. /\ x \in StreamRows /\ x.by = r /\ x.id = Genesis /\ Genesis[1] = "genesis"
          /\ y \in StreamRows /\ y.by = r /\ y.id = <<"day", 1>>
      BY <1>1 DEF Row, StreamRows, Identities, Genesis, Day
    <3>. HIDE DEF x, y
    <3>3. /\ Append(<<>>, x) = <<x>> /\ Append(<<x>>, y) = <<x, y>>
          /\ <<x>>[1] = x /\ DOMAIN <<x>> = {1} /\ DOMAIN rows = {}
      <4>1. Append(<<>>, x) = <<x>> /\ Append(<<x>>, y) = <<x, y>>
        BY <3>2, ShortSeqs
      <4>2. <<x>>[1] = x /\ DOMAIN <<x>> = 1..1
        OBVIOUS
      <4>3. DOMAIN rows = 1..0
        BY <2>1
      <4>4. 1..1 = {1} /\ 1..0 = {}
        OBVIOUS
      <4>. QED
        BY <4>1, <4>2, <4>3, <4>4
    <3>4. /\ <<x>> \in Seq(StreamRows) /\ Once(<<x>>) /\ DaysAreCounted(<<x>>)
      <4>1. Ids(rows) = {}
        BY <3>3 DEF Ids
      <4>2. Once(rows) /\ DaysAreCounted(rows)
        BY <1>1 DEF StreamOK
      <4>3. /\ Append(rows, x) \in Seq(StreamRows) /\ Once(Append(rows, x))
            /\ DaysAreCounted(Append(rows, x))
        BY <1>1, <3>2, <4>1, <4>2, RowFits
      <4>. QED
        BY <2>1, <3>3, <4>3
    <3>5. y.id \notin Ids(<<x>>)
      BY <3>2, <3>3 DEF Ids, Genesis
    <3>6. y.id[2] =< CompletedDay(<<x>>) + 1
      <4>1. CompletedDay(<<x>>) \in Nat
        BY <3>4, CountIsNat DEF CompletedDay
      <4>2. y.id[2] = 1
        BY <3>2
      <4>. QED
        BY <4>1, <4>2
    <3>7. /\ <<x, y>> \in Seq(StreamRows) /\ Once(<<x, y>>) /\ DaysAreCounted(<<x, y>>)
      BY <3>2, <3>3, <3>4, <3>5, <3>6, RowFits
    <3>8. \A i \in 1..2 : <<x, y>>[i].by = r
      BY <3>2
    <3>9. Grow(r)
      BY <1>3, <2>1, <3>1, <3>7, <3>8 DEF Grow, Begins
    <3>. QED
      BY <3>1, <3>7, <3>9 DEF StreamOK, Once, DaysAreCounted, CompletedDay, Count
  <2>2. CASE rows # <<>> /\ Snapshot(Revision(rows)) \in Ids(rows)
    BY <2>2, StreamStays DEF Persist
  <2>3. CASE rows # <<>> /\ Snapshot(Revision(rows)) \notin Ids(rows)
    <3>. DEFINE n == Revision(rows)
                x == Row(Snapshot(n), r)
    <3>1. rows' = Append(rows, x)
      BY <2>3 DEF Persist
    <3>2. n \in Nat
      BY <1>1, CountIsNat DEF Revision
    <3>. HIDE DEF n
    <3>3. x \in StreamRows /\ x.by = r /\ x.id = Snapshot(n) /\ x.id[1] # "day"
      BY <1>1, <3>2 DEF Row, StreamRows, Identities, Snapshot
    <3>. HIDE DEF x
    <3>4. x.id \notin Ids(rows)
      BY <2>3, <3>3 DEF n
    <3>. QED
      BY <1>3, <3>1, <3>3, <3>4, GrowBy
  <2>. QED
    BY <2>1, <2>2, <2>3
<1>5. "showing" \in Places \ {"working"} /\ conns \ {r} \subseteq conns'
  BY <1>2 DEF Places
<1>. QED
  BY <1>2, <1>3, <1>4, <1>5, GoesKeeps

\* A command commits a fence, or the first of its steps that is missing.
LEMMA CommitKeeps ==
    ASSUME WritersInv, NEW r \in Requests, Commit(r)
    PROVE  WritersInv'
<1>. DEFINE b == req[r].bundle
            todo == req[r].todo
            kind == req[r].kind
<1>1. /\ req[r] \in RequestRecords /\ rows \in Seq(StreamRows) /\ RequestOK(r) /\ r \in Nat
      /\ StreamOK
  BY RequestFacts
<1>2. /\ req[r].at = "working" /\ IsSponsor(r) /\ rows = b
      /\ conns' = conns /\ chain' = chain /\ shown' = shown /\ raced' = raced
  BY DEF Commit, SameAsRead
<1>3. PICK i \in Due(r) :
          LET id == IF req[r].fenced THEN todo[i] ELSE Fence IN
          /\ rows' = Append(rows, Row(id, r))
          /\ req' = [req EXCEPT ![r].bundle = Append(@, Row(id, r)), ![r].fenced = ~ @]
  BY DEF Commit
<1>4. i \in DOMAIN todo /\ todo[i] \notin Ids(rows)
  BY <1>2 DEF Due, Missing
<1>5. kind \in SponsorKinds
  <2>1. kind \in Kinds
    BY <1>1 DEF RequestRecords
  <2>. QED
    BY <1>2, <2>1 DEF SponsorKinds, IsSponsor
<1>6. todo = StepIds(kind, rows)
  BY <1>1, <1>2, <1>4 DEF RequestOK, KnowsSteps
<1>7. /\ todo[i] \in Identities /\ todo[i][1] # "day"
      /\ kind = "abstain" => todo[i][1] \notin {"day", "boundary"}
  BY <1>1, <1>4, <1>5, <1>6, StepIdsType
<1>. DEFINE id == IF req[r].fenced THEN todo[i] ELSE Fence
            x == Row(id, r)
            e == [req[r] EXCEPT !.bundle = Append(rows, x), !.fenced = ~ req[r].fenced]
<1>8. /\ id \in Identities /\ id[1] # "day" /\ (id = Fence \/ id \notin Ids(rows))
      /\ kind = "abstain" => id[1] \notin {"day", "boundary"}
  BY <1>4, <1>7 DEF Fence, Identities
<1>9. rows' = Append(rows, x) /\ req' = [req EXCEPT ![r] = e]
  BY <1>2, <1>3
<1>. HIDE DEF id, todo, kind
<1>10. x \in StreamRows /\ x.by = r /\ x.id = id
  BY <1>1, <1>8 DEF Row, StreamRows
<1>. HIDE DEF x
<1>11. r \in conns /\ AtWork(r) /\ IsNext(r)
  BY <1>1, <1>2 DEF RequestOK, Connected, Writes, AtWork, TakesTurns
<1>12. Grow(r) /\ StreamOK'
  BY <1>8, <1>9, <1>10, <1>11, GrowBy
<1>13. Append(rows, x) \in Seq(StreamRows)
  BY <1>1, <1>10
<1>14. /\ e \in RequestRecords /\ e.tab = req[r].tab /\ e.kind = req[r].kind
       /\ e.at = "working" /\ e.bundle = Append(rows, x) /\ e.todo = req[r].todo
  BY <1>1, <1>2, <1>13 DEF RequestRecords
<1>. HIDE DEF e
<1>15. e.todo = StepIds(e.kind, e.bundle)
  BY <1>1, <1>5, <1>6, <1>8, <1>10, <1>14, StepIdsStay DEF todo, kind
<1>. QED
  BY <1>2, <1>9, <1>11, <1>12, <1>14, <1>15, ReadKeeps

-----------------------------------------------------------------------------
(* Requests that are asked and pages that fail *)

\* A new request has read nothing; who is at work stays at the head.
LEMMA AskKeeps ==
    ASSUME WritersInv, NEW t \in Tabs, NEW kind \in Kinds, Ask(t, kind)
    PROVE  WritersInv'
<1>. DEFINE at == IF kind = "refresh" THEN "posted" ELSE "queued"
            e == [NoRequest EXCEPT !.tab = t, !.kind = kind, !.expected = shown[t], !.at = at]
            n == Len(req)
<1>1. /\ req \in Seq(RequestRecords) /\ n \in Nat /\ DOMAIN req = 1..n
      /\ chain \in [Tabs -> Seq(Nat)] /\ shown \in [Tabs -> States]
  BY DEF WritersInv, Types
<1>2. /\ req' = Append(req, e) /\ rows' = rows /\ conns' = conns /\ shown' = shown
      /\ raced' = raced
      /\ chain' = IF kind = "refresh" THEN chain ELSE [chain EXCEPT ![t] = Append(@, n + 1)]
  BY DEF Ask
<1>3. e = Blank(t, kind, at, shown[t], None)
  <2>1. e = [NoRequest EXCEPT !.tab = t, !.kind = kind, !.expected = shown[t], !.at = at]
    OBVIOUS
  <2>. HIDE DEF e, at
  <2>. QED
    BY <2>1, BlankAsked
<1>4. at \in Places /\ shown[t] \in States
  BY <1>1 DEF Places
<1>5. at = "posted" \/ at = "queued"
  OBVIOUS
<1>6. (at = "queued" => kind # "refresh") /\ (at = "posted" => kind = "refresh")
  OBVIOUS
<1>. HIDE DEF e, at
<1>7. e \in RequestRecords /\ e.at = at /\ e.kind = kind /\ e.tab = t
  BY <1>3, <1>4, BlankType DEF Blank
<1>8. /\ req' \in Seq(RequestRecords) /\ DOMAIN req' = 1..(n + 1)
      /\ req'[n + 1] = e /\ \A q \in 1..n : req'[q] = req[q]
  BY <1>1, <1>2, <1>7, AppendProperties
<1>9. chain' \in [Tabs -> Seq(Nat)]
  BY <1>1, <1>2
<1>10. Types'
  BY <1>2, <1>8, <1>9 DEF WritersInv, Types
<1>11. KeepsWho
  BY <1>1, <1>8 DEF KeepsWho, Requests
<1>12. ASSUME NEW q \in Requests, IsNext(q)
       PROVE  IsNext(q)'
  <2>. DEFINE u == req[q].tab
              c == chain[u]
  <2>1. q \in 1..n /\ u \in Tabs /\ c \in Seq(Nat) /\ c # <<>> /\ Head(c) = q
    BY <1>1, <1>12, RequestFacts DEF IsNext
  <2>2. chain'[u] = c \/ chain'[u] = Append(c, n + 1)
    BY <1>1, <1>2, <2>1
  <2>3. req'[q].tab = u
    BY <1>8, <2>1
  <2>. HIDE DEF c, u
  <2>4. Append(c, n + 1) # <<>> /\ Head(Append(c, n + 1)) = q
    <3>. DEFINE m == n + 1
    <3>1. m \in Nat
      BY <1>1
    <3>. HIDE DEF m
    <3>2. Len(Append(c, m)) = Len(c) + 1 /\ Len(c) \in Nat
      BY <2>1, <3>1, AppendProperties
    <3>3. Append(c, m) \in Seq(Nat)
      BY <2>1, <3>1, AppendProperties
    <3>4. Append(c, m) # <<>>
      BY <3>2, <3>3, EmptySeq
    <3>5. Head(Append(c, m)) = IF c = <<>> THEN m ELSE Head(c)
      BY <2>1, <3>1, HeadTailAppend
    <3>. QED
      BY <2>1, <3>4, <3>5 DEF m
  <2>. QED
    BY <2>1, <2>2, <2>3, <2>4 DEF IsNext
<1>13. ASSUME NEW q \in Requests
       PROVE  RequestOK(q)'
  <2>1. req'[q] = req[q] /\ conns' = conns
    BY <1>1, <1>2, <1>8 DEF Requests
  <2>2. /\ rows' \in Seq(StreamRows) /\ Begins(rows, rows')
        /\ \A i \in (Len(rows) + 1)..Len(rows') : Outsider(rows'[i].by, q)
    <3>1. rows \in Seq(StreamRows)
      BY DEF WritersInv, Types
    <3>2. Len(rows) \in Nat
      BY <3>1
    <3>. QED
      BY <1>2, <3>1, <3>2 DEF Begins
  <2>. QED
    BY <1>11, <1>12, <2>1, <2>2, OthersStay
<1>14. ASSUME NEW q, q = n + 1
       PROVE  RequestOK(q)'
  <2>1. req'[q] = e
    BY <1>8, <1>14
  <2>2. req'[q].at = at /\ req'[q].kind = kind
    BY <1>7, <2>1
  <2>3. Connected(q)' /\ ReadsPrefix(q)' /\ KnowsSteps(q)'
    BY <1>5, <2>2 DEF Connected, ReadsPrefix, KnowsSteps
  <2>4. Writes(q)' /\ TakesTurns(q)'
    BY <1>5, <1>6, <2>2 DEF Writes, TakesTurns, AtWork
  <2>. QED
    BY <2>3, <2>4 DEF RequestOK
<1>15. \A race \in raced' : RaceOK(race)'
  BY <1>2, <1>11, RacesStay DEF WritersInv
<1>16. StreamOK'
  BY <1>2, StreamStays
<1>17. \A q \in Requests' : q \in Requests \/ q = n + 1
  <2>1. Requests' = 1..(n + 1) /\ Requests = 1..n
    BY <1>1, <1>8 DEF Requests
  <2>. HIDE DEF n
  <2>. QED
    BY <1>1, <2>1
<1>. HIDE DEF n
<1>18. \A q \in Requests' : RequestOK(q)'
  <2>. SUFFICES ASSUME NEW q \in Requests'
                PROVE  RequestOK(q)'
    OBVIOUS
  <2>. QED
    BY <1>13, <1>14, <1>17
<1>. QED
  BY <1>10, <1>15, <1>16, <1>18 DEF WritersInv

\* A deletion has waited for whoever had read the stream.
LEMMA DeleteKeeps ==
    ASSUME WritersInv, Delete
    PROVE  WritersInv'
<1>1. /\ conns = {} /\ conns' = conns /\ rows' = <<>> /\ req' = req /\ chain' = chain
      /\ shown' = shown /\ raced' = raced
  BY DEF Delete
<1>2. ASSUME NEW r \in Requests
      PROVE  RequestOK(r)'
  <2>1. RequestOK(r)
    BY DEF WritersInv
  <2>2. req[r].at # "working"
    BY <1>1, <2>1 DEF RequestOK, Connected
  <2>. QED
    BY <1>1, <2>1, <2>2 DEF RequestOK, Connected, Writes, TakesTurns, AtWork, IsNext,
                            ReadsPrefix, KnowsSteps
<1>3. StreamOK'
  BY <1>1 DEF StreamOK, Once, DaysAreCounted
<1>4. Types'
  BY <1>1 DEF WritersInv, Types
<1>5. Requests' = Requests /\ \A race \in raced' : RaceOK(race)'
  BY <1>1 DEF WritersInv, RaceOK, Outsider, Requests
<1>. QED
  BY <1>2, <1>3, <1>4, <1>5 DEF WritersInv

\* Requests that a failure puts back or ends.
LEMMA FailureKeeps ==
    ASSUME WritersInv, NEW rs, NEW at \in {"posted", "done"}, NEW told \in {None, "rejected"},
           Becomes(rs, at, told), rows' = rows, raced' = raced, shown' \in [Tabs -> States],
           conns \ rs \subseteq conns', chain' \in [Tabs -> Seq(Nat)],
           \A q \in Requests : /\ q \notin rs /\ AtWork(q) => chain'[req[q].tab] = chain[req[q].tab]
                               /\ q \in rs /\ at = "posted" /\ req[q].kind # "refresh"
                                  => /\ AtWork(q)
                                     /\ chain'[req[q].tab] = chain[req[q].tab]
    PROVE  WritersInv'
<1>. DEFINE Put(q) == [NoRequest EXCEPT !.tab = req[q].tab, !.kind = req[q].kind,
                                        !.at = at, !.told = told]
            e(q) == Blank(req[q].tab, req[q].kind, at, None, told)
<1>1. req \in Seq(RequestRecords) /\ DOMAIN req = 1..Len(req) /\ Len(req) \in Nat
  BY DEF WritersInv, Types
<1>2. \A q \in Requests : Put(q) = e(q)
  <2>. SUFFICES ASSUME NEW q \in Requests PROVE Put(q) = e(q)
    OBVIOUS
  <2>. DEFINE p == Put(q)
              u == req[q].tab
              k == req[q].kind
  <2>1. p = [NoRequest EXCEPT !.tab = u, !.kind = k, !.at = at, !.told = told]
    OBVIOUS
  <2>. HIDE DEF p, u, k
  <2>2. p = Blank(u, k, at, None, told)
    BY <2>1, BlankAt
  <2>. QED
    BY <2>2 DEF p, u, k
<1>3. req' = [q \in Requests |-> IF q \in rs THEN Put(q) ELSE req[q]]
  BY DEF Becomes
<1>. HIDE DEF Put
<1>4. \A q \in Requests : e(q) \in RequestRecords
  <2>1. at \in Places /\ told \in Tolds \cup {None}
    BY DEF Places, Tolds
  <2>2. None \in States
    BY DEF States
  <2>3. \A q \in Requests : req[q].tab \in Tabs /\ req[q].kind \in Kinds
    BY RequestFacts DEF RequestRecords
  <2>. QED
    BY <2>1, <2>2, <2>3, BlankType
<1>5. \A q \in Requests : /\ q \in rs => req'[q] = e(q)
                          /\ q \notin rs => req'[q] = req[q]
  BY <1>2, <1>3
<1>6. \A q \in Requests : e(q).tab = req[q].tab /\ e(q).kind = req[q].kind /\ e(q).at = at
  BY DEF Blank
<1>7. req' \in Seq(RequestRecords) /\ DOMAIN req' = Requests
  <2>1. \A q \in Requests : req'[q] \in RequestRecords
    BY <1>4, <1>5, RequestFacts
  <2>2. req' = [q \in 1..Len(req) |-> req'[q]]
    BY <1>1, <1>3 DEF Requests
  <2>3. \A q \in 1..Len(req) : req'[q] \in RequestRecords
    BY <1>1, <2>1 DEF Requests
  <2>4. DOMAIN req' = Requests
    BY <1>3
  <2>. QED
    BY <1>1, <2>2, <2>3, <2>4, SMTT(40)
<1>. HIDE DEF e
<1>8. Requests' = Requests /\ KeepsWho
  BY <1>5, <1>6, <1>7 DEF KeepsWho, Requests
<1>9. ASSUME NEW q \in Requests, q \notin rs
      PROVE  RequestOK(q)'
  <2>1. req'[q] = req[q] /\ (q \in conns => q \in conns') /\ RequestOK(q)
    BY <1>5, <1>9 DEF WritersInv
  <2>2. AtWork(q) /\ IsNext(q) => IsNext(q)'
    BY <1>9, <2>1 DEF IsNext
  <2>3. Connected(q)' /\ Writes(q)' /\ KnowsSteps(q)' /\ TakesTurns(q)'
    BY <2>1, <2>2 DEF RequestOK, Connected, Writes, KnowsSteps, TakesTurns, AtWork, IsSponsor
  <2>4. ReadsPrefix(q)'
    BY <1>8, <2>1, OutsidersStay
    DEF RequestOK, ReadsPrefix, AddedByOutsiders, Outsider, OutsiderThen, Requests
  <2>. QED
    BY <2>3, <2>4 DEF RequestOK
<1>10. ASSUME NEW q \in Requests, q \in rs
       PROVE  RequestOK(q)'
  <2>1. req'[q] = e(q) /\ e(q).at = at /\ e(q).kind = req[q].kind /\ e(q).tab = req[q].tab
    BY <1>5, <1>6, <1>10
  <2>2. ASSUME at = "posted", req[q].kind # "refresh"
        PROVE  IsNext(q)'
    <3>1. AtWork(q) /\ chain'[req[q].tab] = chain[req[q].tab]
      BY <1>10, <2>2
    <3>2. IsNext(q)
      BY <3>1 DEF WritersInv, RequestOK, TakesTurns
    <3>. QED
      BY <2>1, <3>1, <3>2 DEF IsNext
  <2>. QED
    BY <2>1, <2>2
    DEF RequestOK, Connected, Writes, TakesTurns, AtWork, ReadsPrefix, KnowsSteps
<1>11. \A race \in raced' : RaceOK(race)'
  BY <1>8, RacesStay DEF WritersInv
<1>12. StreamOK'
  BY StreamStays
<1>13. Types'
  BY <1>7 DEF WritersInv, Types
<1>. QED
  BY <1>8, <1>9, <1>10, <1>11, <1>12, <1>13 DEF WritersInv

\* The failures of the browser.
LEMMA FailuresKeep ==
    ASSUME WritersInv, NEW t \in Tabs, WorkerFails(t) \/ WorkerDies(t) \/ ClosePage(t)
    PROVE  WritersInv'
<1>1. chain \in [Tabs -> Seq(Nat)] /\ shown \in [Tabs -> States] /\ None \in States
  BY DEF WritersInv, Types, States
<1>2. CASE WorkerFails(t)
  <2>. DEFINE rs == {r \in OfTab(t) : req[r].at = "posted"}
  <2>1. /\ Becomes(rs, "done", "rejected") /\ rows' = rows /\ raced' = raced
        /\ shown' = shown /\ conns' = conns /\ chain' = chain
    BY <1>2 DEF WorkerFails
  <2>. HIDE DEF rs
  <2>. QED
    BY <1>1, <2>1, FailureKeeps
<1>3. CASE WorkerDies(t)
  <2>. DEFINE rs == {r \in OfTab(t) : OnWorker(req[r].kind) /\ req[r].at # "queued"}
  <2>1. /\ Becomes(rs, "posted", None) /\ rows' = rows /\ raced' = raced
        /\ shown' = shown /\ conns' = conns \ rs /\ chain' = chain
    BY <1>3 DEF WorkerDies
  <2>2. \A q \in rs : req[q].kind # "refresh" => AtWork(q)
    BY DEF AtWork, OfTab
  <2>. HIDE DEF rs
  <2>. QED
    BY <1>1, <2>1, <2>2, FailureKeeps
<1>4. CASE ClosePage(t)
  <2>. DEFINE rs == OfTab(t)
  <2>1. /\ Becomes(rs, "done", None) /\ rows' = rows /\ raced' = raced
        /\ shown' = [shown EXCEPT ![t] = None] /\ conns' = conns \ rs
        /\ chain' = [chain EXCEPT ![t] = <<>>]
    BY <1>4 DEF ClosePage
  <2>2. \A q \in Requests : q \notin rs /\ AtWork(q) => req[q].tab # t
    BY DEF AtWork, OfTab
  <2>. HIDE DEF rs
  <2>3. shown' \in [Tabs -> States] /\ chain' \in [Tabs -> Seq(Nat)]
    BY <1>1, <2>1
  <2>4. \A q \in Requests : q \notin rs /\ AtWork(q) => chain'[req[q].tab] = chain[req[q].tab]
    BY <1>1, <2>1, <2>2, RequestFacts
  <2>. QED
    BY <1>1, <2>1, <2>3, <2>4, FailureKeeps
<1>. QED
  BY <1>2, <1>3, <1>4


-----------------------------------------------------------------------------
(* The theorems *)

\* A stream that an earlier visit left, and no request yet.
LEMMA InitKeeps ==
    ASSUME Init
    PROVE  WritersInv
<1>1. /\ rows \in Histories /\ req = <<>> /\ raced = {} /\ chain = [t \in Tabs |-> <<>>]
      /\ \/ shown = [t \in Tabs |-> None]
         \/ shown = [t \in Tabs |-> Facts(rows)]
  BY DEF Init
<1>2. rows \in Seq(StreamRows) /\ Once(rows) /\ DaysAreCounted(rows)
  BY <1>1, WritersAssumption
<1>3. None \in States /\ Facts(rows) \in States
  BY <1>2, ShownType DEF States
<1>4. shown \in [Tabs -> States]
  BY <1>1, <1>3
<1>5. <<>> \in Seq(Nat) /\ <<>> \in Seq(RequestRecords)
  OBVIOUS
<1>6. chain \in [Tabs -> Seq(Nat)]
  BY <1>1, <1>5
<1>7. Types
  BY <1>1, <1>2, <1>4, <1>5, <1>6 DEF Types
<1>8. Requests = {}
  <2>1. DOMAIN req = 1..Len(req) /\ Len(req) = 0
    BY <1>1
  <2>. QED
    BY <2>1 DEF Requests
<1>. QED
  BY <1>1, <1>2, <1>7, <1>8 DEF WritersInv, StreamOK

\* Every step of the pages, their workers and the browser keeps the invariant.
LEMMA NextKeeps ==
    ASSUME WritersInv, [Next]_vars
    PROVE  WritersInv'
<1>1. ASSUME NEW t \in Tabs, NEW kind \in Kinds, Ask(t, kind)
      PROVE  WritersInv'
  BY <1>1, AskKeeps
<1>2. ASSUME NEW r \in Requests, Step(r)
      PROVE  WritersInv'
  <2>1. CASE Begin(r) \/ Receive(r) \/ Open(r) \/ OpenView(r) \/ Rebuild(r)
    BY <2>1, MovesKeep
  <2>2. CASE ReadDay(r) \/ ReadBundle(r)
    BY <2>2, ReadsKeep
  <2>3. CASE AdvanceDay(r)
    BY <2>3, AdvanceDayKeeps
  <2>4. CASE LoseDay(r) \/ Quarantine(r) \/ Show(r) \/ Finalize(r)
    BY <2>4, EndsKeep
  <2>5. CASE Persist(r)
    BY <2>5, PersistKeeps
  <2>6. CASE Commit(r)
    BY <2>6, CommitKeeps
  <2>7. CASE HeadRace(r)
    BY <2>7, HeadRaceKeeps
  <2>. QED
    BY <1>2, <2>1, <2>2, <2>3, <2>4, <2>5, <2>6, <2>7 DEF Step
<1>3. CASE Delete
  BY <1>3, DeleteKeeps
<1>4. ASSUME NEW t \in Tabs, WorkerFails(t) \/ WorkerDies(t) \/ ClosePage(t)
      PROVE  WritersInv'
  BY <1>4, FailuresKeep
<1>5. CASE UNCHANGED vars
  <2>1. /\ rows' = rows /\ conns' = conns /\ req' = req /\ chain' = chain /\ shown' = shown
        /\ raced' = raced
    BY <1>5 DEF vars
  <2>2. Types'
    BY <2>1 DEF WritersInv, Types
  <2>3. StreamOK'
    BY <2>1, StreamStays
  <2>4. Requests' = Requests /\ \A r \in Requests : RequestOK(r)'
    BY <2>1 DEF WritersInv, RequestOK, Connected, Writes, TakesTurns, AtWork, IsNext,
                ReadsPrefix, AddedByOutsiders, Outsider, KnowsSteps, IsSponsor, Requests
  <2>5. \A race \in raced' : RaceOK(race)'
    BY <2>1 DEF WritersInv, RaceOK, Outsider, Requests
  <2>. QED
    BY <2>2, <2>3, <2>4, <2>5 DEF WritersInv
<1>. QED
  BY <1>1, <1>2, <1>3, <1>4, <1>5 DEF Next

\* The invariant of pages that write one stream, whatever tabs there are, what
\* they ask, and however often they fail.
THEOREM WritersCorrectness == Spec => []WritersInv
<1>1. Init => WritersInv
  BY InitKeeps
<1>2. WritersInv /\ [Next]_vars => WritersInv'
  BY NextKeeps
<1>. QED
  BY <1>1, <1>2, PTL DEF Spec

\* A day or a sponsor command is in the stream once, whoever sends it and
\* however often (appendEventBatch, the receipts of the commands).
THEOREM OnceCorrectness == Spec => []EachOnce
<1>1. WritersInv => EachOnce
  BY DEF WritersInv, StreamOK, EachOnce
<1>. QED
  BY <1>1, WritersCorrectness, PTL

\* What one page writes on its chain never races itself (withAuthorityWriter).
THEOREM TurnsCorrectness == Spec => []OnePageTakesTurns
<1>1. WritersInv => OnePageTakesTurns
  BY DEF WritersInv, RaceOK, Outsider, OnePageTakesTurns
<1>. QED
  BY <1>1, WritersCorrectness, PTL

\* Only the end of a sponsor command calls anything saved.
LEMMA OnlyFinalizeSaves ==
    ASSUME WritersInv, [Next]_vars, NEW r \in Requests,
           req[r].told # "saved", req'[r].told = "saved"
    PROVE  Finalize(r) /\ Told(req[r].error, rows # req[r].bundle) = "saved"
<1>1. /\ req \in Seq(RequestRecords) /\ DOMAIN req = 1..Len(req) /\ Len(req) \in Nat
      /\ Requests = 1..Len(req)
  BY DEF WritersInv, Types, Requests
<1>2. None # "saved"
  BY WritersAssumption
<1>3. ASSUME NEW q \in Requests, NEW e, req' = [req EXCEPT ![q] = e],
             q = r => e.told = req[r].told
      PROVE  FALSE
  BY <1>1, <1>3
<1>4. ASSUME NEW q \in Requests, NEW told \in Tolds, Settles(q, told)
      PROVE  q = r /\ told = "saved"
  <2>. DEFINE u == req[q].tab
              k == req[q].kind
              e == [NoRequest EXCEPT !.tab = u, !.kind = k, !.told = told]
  <2>1. req' = [req EXCEPT ![q] = e]
    BY <1>4 DEF Settles
  <2>2. e = [NoRequest EXCEPT !.tab = u, !.kind = k, !.told = told]
    OBVIOUS
  <2>. HIDE DEF e, u, k
  <2>3. e = Blank(u, k, "done", None, told)
    BY <2>2, BlankDone
  <2>4. e.told = told
    BY <2>3 DEF Blank
  <2>5. q = r
    BY <1>1, <2>1
  <2>6. req'[r] = e
    BY <1>1, <2>1, <2>5
  <2>. QED
    BY <2>4, <2>5, <2>6
<1>5. ASSUME NEW q \in Requests, Step(q)
      PROVE  Finalize(r) /\ Told(req[r].error, rows # req[r].bundle) = "saved"
  <2>. DEFINE x == req[q]
  <2>1. x \in RequestRecords
    BY RequestFacts
  <2>2. ASSUME NEW at, Goes(q, at)
        PROVE  FALSE
    <3>. DEFINE e == [x EXCEPT !.at = at]
    <3>1. req' = [req EXCEPT ![q] = e] /\ e.told = x.told
      BY <2>1, <2>2 DEF Goes, RequestRecords
    <3>. QED
      BY <1>3, <3>1
  <2>3. ASSUME Begin(q) \/ Receive(q) \/ Open(q) \/ OpenView(q) \/ Persist(q) \/ Rebuild(q)
        PROVE  FALSE
    BY <2>2, <2>3 DEF Begin, Receive, Open, OpenView, Persist, Rebuild
  <2>4. ASSUME LoseDay(q) \/ Quarantine(q) \/ Show(q)
        PROVE  FALSE
    <3>1. {"rejected", "quarantined", "shown"} \subseteq Tolds \ {"saved"}
      BY DEF Tolds
    <3>. QED
      BY <1>4, <2>4, <3>1 DEF LoseDay, Quarantine, Show
  <2>5. ASSUME ReadDay(q)
        PROVE  FALSE
    <3>1. CASE Settles(q, "rejected")
      <4>1. "rejected" \in Tolds
        BY DEF Tolds
      <4>. QED
        BY <1>4, <3>1, <4>1
    <3>2. CASE req' = [req EXCEPT ![q].at = "working", ![q].bundle = rows]
      <4>. DEFINE e == [x EXCEPT !.at = "working", !.bundle = rows]
      <4>1. req' = [req EXCEPT ![q] = e] /\ e.told = x.told
        BY <1>1, <2>1, <3>2 DEF RequestRecords
      <4>. QED
        BY <1>3, <4>1
    <3>. QED
      BY <2>5, <3>1, <3>2 DEF ReadDay
  <2>6. ASSUME ReadBundle(q)
        PROVE  FALSE
    <3>. DEFINE refusal == Refusal(x.kind, x.expected, rows)
                todo == IF refusal = None THEN StepIds(x.kind, rows) ELSE <<>>
    <3>1. CASE Settles(q, "notSaved")
      <4>1. "notSaved" \in Tolds
        BY DEF Tolds
      <4>. QED
        BY <1>4, <3>1, <4>1
    <3>2. CASE req' = [req EXCEPT ![q].bundle = rows, ![q].error = refusal,
                                  ![q].todo = todo, ![q].at = "working"]
      <4>. HIDE DEF refusal, todo
      <4>. DEFINE e == [x EXCEPT !.bundle = rows, !.error = refusal, !.todo = todo,
                                 !.at = "working"]
      <4>1. req' = [req EXCEPT ![q] = e] /\ e.told = x.told
        BY <1>1, <2>1, <3>2 DEF RequestRecords
      <4>. QED
        BY <1>3, <4>1
    <3>. QED
      BY <2>6, <3>1, <3>2 DEF ReadBundle
  <2>7. ASSUME AdvanceDay(q)
        PROVE  FALSE
    <3>1. CASE Goes(q, "building")
      BY <2>2, <3>1
    <3>2. CASE req' = [req EXCEPT ![q].fenced = TRUE, ![q].bundle = rows']
      <4>. DEFINE e == [x EXCEPT !.fenced = TRUE, !.bundle = rows']
      <4>1. req' = [req EXCEPT ![q] = e] /\ e.told = x.told
        BY <1>1, <2>1, <3>2 DEF RequestRecords
      <4>. QED
        BY <1>3, <4>1
    <3>. QED
      BY <2>7, <3>1, <3>2 DEF AdvanceDay
  <2>8. ASSUME Commit(q)
        PROVE  FALSE
    <3>1. PICK id : req' = [req EXCEPT ![q].bundle = Append(@, Row(id, q)), ![q].fenced = ~ @]
      BY <2>8 DEF Commit
    <3>. DEFINE e == [x EXCEPT !.bundle = Append(@, Row(id, q)), !.fenced = ~ @]
    <3>2. req' = [req EXCEPT ![q] = e] /\ e.told = x.told
      BY <1>1, <2>1, <3>1 DEF RequestRecords
    <3>. QED
      BY <1>3, <3>2
  <2>9. ASSUME HeadRace(q)
        PROVE  FALSE
    <3>. DEFINE e == [x EXCEPT !.todo = <<>>, !.error = "race"]
    <3>1. req' = [req EXCEPT ![q] = e] /\ e.told = x.told
      BY <1>1, <2>1, <2>9 DEF HeadRace, RequestRecords
    <3>. QED
      BY <1>3, <3>1
  <2>10. CASE Finalize(q)
    <3>. DEFINE told == Told(req[q].error, rows # req[q].bundle)
    <3>1. Settles(q, told) /\ told \in Tolds
      BY <2>10 DEF Finalize, Told, Tolds
    <3>. HIDE DEF told
    <3>2. q = r /\ told = "saved"
      BY <1>4, <3>1
    <3>. QED
      BY <2>10, <3>2 DEF told
  <2>. QED
    BY <1>5, <2>3, <2>4, <2>5, <2>6, <2>7, <2>8, <2>9, <2>10 DEF Step
<1>6. ASSUME NEW t \in Tabs, NEW kind \in Kinds, Ask(t, kind)
      PROVE  FALSE
  <2>1. PICK e : req' = Append(req, e)
    BY <1>6 DEF Ask
  <2>2. req'[r] = req[r]
    BY <1>1, <2>1
  <2>. QED
    BY <2>2
<1>7. ASSUME NEW t \in Tabs, WorkerFails(t) \/ WorkerDies(t) \/ ClosePage(t)
      PROVE  FALSE
  <2>1. \E rs, at : Becomes(rs, at, None) \/ Becomes(rs, at, "rejected")
    BY <1>7 DEF WorkerFails, WorkerDies, ClosePage
  <2>. PICK rs, at, told : told \in {None, "rejected"} /\ Becomes(rs, at, told)
    BY <2>1
  <2>. DEFINE u == req[r].tab
              k == req[r].kind
              e == [NoRequest EXCEPT !.tab = u, !.kind = k, !.at = at, !.told = told]
  <2>2. req'[r] = IF r \in rs THEN e ELSE req[r]
    BY DEF Becomes
  <2>3. e = [NoRequest EXCEPT !.tab = u, !.kind = k, !.at = at, !.told = told]
    OBVIOUS
  <2>. HIDE DEF e, u, k
  <2>4. e = Blank(u, k, at, None, told)
    BY <2>3, BlankAt
  <2>5. e.told = told
    BY <2>4 DEF Blank
  <2>. QED
    BY <1>2, <2>2, <2>5
<1>8. ASSUME Delete \/ UNCHANGED vars
      PROVE  FALSE
  BY <1>8 DEF Delete, vars
<1>. QED
  BY <1>5, <1>6, <1>7, <1>8 DEF Next

\* What a page calls saved is in the stream, whole, and is what it shows
\* (playerFacingSponsorFailure, the comparison at the end of a session).
THEOREM SavedCorrectness == Spec => SavedIsWhole
<1>. DEFINE Saved == \A r \in Requests :
                        req[r].told # "saved" /\ req'[r].told = "saved" =>
                           /\ Missing(StepIds(req[r].kind, rows), rows) = {}
                           /\ shown'[req[r].tab] = Facts(rows)
<1>1. WritersInv /\ [Next]_vars => Saved
  <2>. SUFFICES ASSUME WritersInv, [Next]_vars, NEW r \in Requests,
                       req[r].told # "saved", req'[r].told = "saved"
                PROVE  /\ Missing(StepIds(req[r].kind, rows), rows) = {}
                       /\ shown'[req[r].tab] = Facts(rows)
    OBVIOUS
  <2>1. Finalize(r) /\ Told(req[r].error, rows # req[r].bundle) = "saved"
    BY OnlyFinalizeSaves
  <2>2. req[r].error = None /\ rows = req[r].bundle
    BY <2>1 DEF Told
  <2>3. /\ req[r].at = "working" /\ IsSponsor(r) /\ Due(r) = {}
        /\ shown' = [shown EXCEPT ![req[r].tab] = Facts(rows)]
    BY <2>1, <2>2 DEF Finalize
  <2>4. KnowsSteps(r) /\ req[r].tab \in Tabs /\ shown \in [Tabs -> States]
    BY RequestFacts DEF RequestOK, WritersInv, Types
  <2>5. req[r].todo = StepIds(req[r].kind, rows)
    BY <2>2, <2>3, <2>4 DEF KnowsSteps
  <2>6. Missing(StepIds(req[r].kind, rows), rows) = {}
    BY <2>2, <2>3, <2>5 DEF Due
  <2>. QED
    BY <2>3, <2>4, <2>6
<1>. QED
  BY <1>1, WritersCorrectness, PTL DEF Spec, SavedIsWhole
=============================================================================
