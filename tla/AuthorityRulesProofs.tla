------------------------- MODULE AuthorityRulesProofs -------------------------
(***************************************************************************)
(* Facts about the rules of a stream that the proofs of the port and of    *)
(* its adapters share: what the requests that callers build look like, and *)
(* what an accepted request leaves.                                        *)
(***************************************************************************)
EXTENDS AuthorityRules, SequenceTheorems, TLAPS

-----------------------------------------------------------------------------
(* Sequences and maps *)

\* A function on 1..n is a sequence of length n.
LEMMA FunctionIsSeq ==
    ASSUME NEW S, NEW n \in Nat, NEW f \in [1..n -> S]
    PROVE  f \in Seq(S) /\ Len(f) = n
<1>1. f \in Seq(S)
  BY SeqDef
<1>2. DOMAIN f = 1..Len(f) /\ Len(f) \in Nat
  BY <1>1, LenProperties
<1>. QED
  BY <1>1, <1>2

\* Put stores one value under its key and keeps the other keys.
LEMMA PutProperties ==
    ASSUME NEW f, NEW k, NEW v
    PROVE  /\ DOMAIN Put(f, k, v) = DOMAIN f \cup {k}
           /\ Put(f, k, v)[k] = v
           /\ \A x \in DOMAIN f : x # k => Put(f, k, v)[x] = f[x]
           /\ Put(f, k, v) = [x \in DOMAIN Put(f, k, v) |-> Put(f, k, v)[x]]
BY DEF Put

-----------------------------------------------------------------------------
(* What the requests built from a head look like *)

\* A batch of ids has a length within the bound of the port.
LEMMA IdBatchLength ==
    ASSUME NEW ids \in IdBatches
    PROVE  /\ Len(ids) \in 1..MaxEventsPerBatch
           /\ ids \in [1..Len(ids) -> EventIds]
<1>1. PICK n \in 1..MaxEventsPerBatch : ids \in [1..n -> EventIds]
  BY DEF IdBatches
<1>2. n \in Nat
  BY <1>1, RulesAssumption DEF RulesAssumption
<1>3. Len(ids) = n
  BY <1>1, <1>2, FunctionIsSeq
<1>. QED
  BY <1>1, <1>3

\* The links of a batch are a hash.
LEMMA LinksAreHash ==
    ASSUME NEW a \in AppendIds, NEW ids \in IdBatches, NEW m \in 0..Len(ids)
    PROVE  /\ [j \in 1..m |-> <<ids[j], a>>] \in Hash
           /\ Len([j \in 1..m |-> <<ids[j], a>>]) = m
<1>1. [j \in 1..m |-> <<ids[j], a>>] \in [1..m -> EventIds \X AppendIds]
  BY IdBatchLength
<1>2. m \in Nat
  BY IdBatchLength
<1>. QED
  BY <1>1, <1>2, FunctionIsSeq DEF Hash

\* BuildEvents makes one well-formed event per id.
LEMMA BuildEventsProperties ==
    ASSUME NEW h \in AuthorityHead, NEW a \in AppendIds, NEW ids \in IdBatches
    PROVE  /\ BuildEvents(h, a, ids) \in Seq(Event)
           /\ Len(BuildEvents(h, a, ids)) = Len(ids)
           /\ \A i \in 1..Len(ids) :
                 /\ BuildEvents(h, a, ids)[i] \in Event
                 /\ BuildEvents(h, a, ids)[i].sequence = h.lastSequence + i
                 /\ BuildEvents(h, a, ids)[i].eventId = ids[i]
                 /\ BuildEvents(h, a, ids)[i].appendId = a
<1>. DEFINE es == BuildEvents(h, a, ids)
<1>1. Len(ids) \in Nat /\ ids \in [1..Len(ids) -> EventIds]
  BY IdBatchLength
<1>2. ASSUME NEW i \in 1..Len(ids)
      PROVE  /\ es[i] \in Event
             /\ es[i].sequence = h.lastSequence + i
             /\ es[i].eventId = ids[i]
             /\ es[i].appendId = a
  <2>1. es[i] = [sequence |-> h.lastSequence + i, eventId |-> ids[i], appendId |-> a,
                 previousEventHash |->
                    h.lastEventHash \o [j \in 1..(i - 1) |-> <<ids[j], a>>]]
    BY <1>1 DEF BuildEvents
  <2>2. i - 1 \in 0..Len(ids)
    BY <1>1
  <2>3. [j \in 1..(i - 1) |-> <<ids[j], a>>] \in Hash
    BY <2>2, LinksAreHash
  <2>4. h.lastEventHash \in Hash /\ h.lastSequence \in Nat
    BY DEF AuthorityHead
  <2>5. h.lastEventHash \o [j \in 1..(i - 1) |-> <<ids[j], a>>] \in Hash
    BY <2>3, <2>4, ConcatProperties DEF Hash
  <2>6. ids[i] \in EventIds
    BY <1>1
  <2>. QED
    BY <2>1, <2>4, <2>5, <2>6 DEF Event
<1>3. DOMAIN es = 1..Len(ids)
  BY DEF BuildEvents
<1>4. es \in [1..Len(ids) -> Event]
  <2>1. es = [i \in 1..Len(ids) |-> es[i]]
    BY DEF BuildEvents
  <2>. QED
    BY <2>1, <1>2
<1>5. es \in Seq(Event) /\ Len(es) = Len(ids)
  BY <1>1, <1>4, FunctionIsSeq
<1>. QED
  BY <1>2, <1>5

\* BuildAppend makes a well-formed request.
LEMMA BuildAppendType ==
    ASSUME NEW h \in AuthorityHead, NEW a \in AppendIds, NEW b \in BatchIds,
           NEW ids \in IdBatches
    PROVE  BuildAppend(h, a, b, ids) \in AppendRequest
BY BuildEventsProperties DEF BuildAppend, AppendRequest, AuthorityHead

\* So does BuildRejection.
LEMMA BuildRejectionType ==
    ASSUME NEW h \in AuthorityHead, NEW a \in AppendIds, NEW record \in CommandReceipts
    PROVE  BuildRejection(h, a, record) \in RejectionRequest
BY DEF BuildRejection, RejectionRequest, AuthorityHead

\* The hash of an event is a hash.
LEMMA EventHashType ==
    ASSUME NEW e \in Event
    PROVE  EventHash(e) \in Hash
<1>1. e.previousEventHash \in Seq(EventIds \X AppendIds)
  BY DEF Event, Hash
<1>2. <<e.eventId, e.appendId>> \in EventIds \X AppendIds
  BY DEF Event
<1>. QED
  BY <1>1, <1>2 DEF EventHash, Hash

\* BuildSnapshot describes the head it is built from.
LEMMA BuildSnapshotType ==
    ASSUME NEW h \in AuthorityHead, NEW id \in SnapshotIds
    PROVE  /\ SnapshotOf(h) \in Snapshot
           /\ BuildSnapshot(h, id) \in SnapshotRequest
BY DEF BuildSnapshot, SnapshotOf, Snapshot, SnapshotRequest, AuthorityHead

-----------------------------------------------------------------------------
(* What the head becomes *)

\* A new fence changes nothing of the head but its token.
LEMMA FenceKeepsHead ==
    ASSUME NEW h \in AuthorityHead, NEW token
    PROVE  /\ HeadFenced(h, token).revision = h.revision
           /\ HeadFenced(h, token).lastSequence = h.lastSequence
           /\ HeadFenced(h, token).lastEventHash = h.lastEventHash
           /\ HeadFenced(h, token).simulationTime = h.simulationTime
           /\ HeadFenced(h, token).fencingToken = token + 1
BY DEF HeadFenced, AuthorityHead

\* The head of a new stream is a head.
LEMMA GenesisHeadType == GenesisHead \in AuthorityHead
<1>1. NoHash \in Hash
  BY EmptySeq DEF NoHash, Hash
<1>. QED
  BY <1>1 DEF GenesisHead, AuthorityHead

\* The head after a batch that a caller built from any head is a head.
LEMMA HeadAfterType ==
    ASSUME NEW s, s.head \in AuthorityHead,
           NEW h \in AuthorityHead, NEW a \in AppendIds, NEW b \in BatchIds,
           NEW ids \in IdBatches
    PROVE  HeadAfter(s, BuildAppend(h, a, b, ids)) \in AuthorityHead
<1>. DEFINE r == BuildAppend(h, a, b, ids)
            es == r.events
<1>1. Len(ids) \in 1..Len(ids)
  BY IdBatchLength
<1>2. Len(es) = Len(ids) /\ es[Len(ids)] \in Event
  BY <1>1, BuildEventsProperties DEF BuildAppend
<1>. DEFINE last == es[Len(ids)]
<1>3. EventHash(last) \in Hash
  BY <1>2, EventHashType
<1>4. TimeOf[last.eventId] \in Nat /\ last.sequence \in Nat
  BY <1>2, RulesAssumption DEF RulesAssumption, Event
<1>5. HeadAfter(s, r) = [revision |-> s.head.revision + 1, lastSequence |-> last.sequence,
                         simulationTime |-> TimeOf[last.eventId],
                         lastEventHash |-> EventHash(last),
                         fencingToken |-> s.head.fencingToken]
  BY <1>2 DEF HeadAfter
<1>. HIDE DEF r, es, last
<1>. QED
  BY <1>3, <1>4, <1>5 DEF AuthorityHead, r

-----------------------------------------------------------------------------
(* What callers send *)

\* The requests that callers build from a head.
BuiltFrom(h) ==
    {[kind |-> "fence", expectedFencingToken |-> h.fencingToken]}
    \cup {BuildAppend(h, a, b, ids) : a \in AppendIds, b \in BatchIds, ids \in IdBatches}
    \cup {BuildRejection(h, a, record) : a \in AppendIds, record \in CommandReceipts}
    \cup {BuildSnapshot(h, id) : id \in SnapshotIds}

Built == UNION {BuiltFrom(h) : h \in AuthorityHead}

\* By its kind, the head and the ids a request was built from.
LEMMA BuiltByKind ==
    ASSUME NEW r \in Built
    PROVE  \/ /\ r.kind = "fence"
              /\ \E h \in AuthorityHead :
                    r = [kind |-> "fence", expectedFencingToken |-> h.fencingToken]
           \/ /\ r.kind = "append"
              /\ \E h \in AuthorityHead, a \in AppendIds, b \in BatchIds, ids \in IdBatches :
                    r = BuildAppend(h, a, b, ids)
           \/ /\ r.kind = "rejection"
              /\ \E h \in AuthorityHead, a \in AppendIds, record \in CommandReceipts :
                    r = BuildRejection(h, a, record)
           \/ /\ r.kind = "snapshot"
              /\ \E h \in AuthorityHead, id \in SnapshotIds : r = BuildSnapshot(h, id)
<1>1. PICK h \in AuthorityHead : r \in BuiltFrom(h)
  BY DEF Built
<1>2. \/ r = [kind |-> "fence", expectedFencingToken |-> h.fencingToken]
      \/ \E a \in AppendIds, b \in BatchIds, ids \in IdBatches : r = BuildAppend(h, a, b, ids)
      \/ \E a \in AppendIds, record \in CommandReceipts : r = BuildRejection(h, a, record)
      \/ \E id \in SnapshotIds : r = BuildSnapshot(h, id)
  BY <1>1 DEF BuiltFrom
<1>3. \A a, b, ids, record, id :
         /\ BuildAppend(h, a, b, ids).kind = "append"
         /\ BuildRejection(h, a, record).kind = "rejection"
         /\ BuildSnapshot(h, id).kind = "snapshot"
  BY DEF BuildAppend, BuildRejection, BuildSnapshot
<1>. QED
  BY <1>2, <1>3

\* It is a request of the port.
LEMMA BuiltIsRequest == Built \subseteq Request
<1>. SUFFICES ASSUME NEW r \in Built
              PROVE  r \in Request
  OBVIOUS
<1>1. CASE r.kind = "fence"
  BY <1>1, BuiltByKind DEF Request, FenceRequest, AuthorityHead
<1>2. CASE r.kind = "append"
  BY <1>2, BuiltByKind, BuildAppendType DEF Request
<1>3. CASE r.kind = "rejection"
  BY <1>3, BuiltByKind, BuildRejectionType DEF Request
<1>4. CASE r.kind = "snapshot"
  BY <1>4, BuiltByKind, BuildSnapshotType DEF Request
<1>. QED
  BY <1>1, <1>2, <1>3, <1>4, BuiltByKind

-----------------------------------------------------------------------------
(* What an accepted request leaves *)

\* A stream, as far as an adapter looks at it: its rows and a head.
IsStream(s) ==
    /\ s = [genesis |-> s.genesis, head |-> s.head, events |-> s.events,
            receipts |-> s.receipts, snapshots |-> s.snapshots]
    /\ s.genesis \in Geneses \cup {NoGenesis}
    /\ s.head \in AuthorityHead
    /\ s.head.fencingToken <= MaxToken

\* A call of the atomic port on the stream s that leaves the stream t.
PortCall(s, r, t) ==
    \/ /\ r.kind = "genesis" /\ r.genesis \in Geneses
       /\ ~Known(s) /\ t = Initialized(r.genesis)
    \/ /\ r = [kind |-> "fence", expectedFencingToken |-> s.head.fencingToken]
       /\ MayFence(s, r) /\ t = Fenced(s, r)
    \/ \E a \in AppendIds, b \in BatchIds, ids \in IdBatches :
          /\ r = BuildAppend(s.head, a, b, ids)
          /\ MayAppend(s, r) /\ t = Appended(s, r)
    \/ \E a \in AppendIds, record \in CommandReceipts :
          /\ r = BuildRejection(s.head, a, record)
          /\ MayReject(s, r) /\ t = Rejected(s, r)
    \/ \E id \in SnapshotIds :
          /\ r = BuildSnapshot(s.head, id)
          /\ MaySave(s, r) /\ t = Saved(s, r)

\* A request that a stream accepts says of its head everything it has: it is
\* the request built from that head, and the commit is a call of the port.
LEMMA AcceptedIsPortCall ==
    ASSUME NEW s, NEW r \in Built, May(s, r)
    PROVE  PortCall(s, r, Apply(s, r))
<1>1. CASE r.kind = "fence"
  <2>1. PICK h \in AuthorityHead : r = [kind |-> "fence", expectedFencingToken |-> h.fencingToken]
    BY <1>1, BuiltByKind
  <2>2. MayFence(s, r) /\ Apply(s, r) = Fenced(s, r)
    BY <1>1 DEF May, Apply
  <2>3. r = [kind |-> "fence", expectedFencingToken |-> s.head.fencingToken]
    BY <2>1, <2>2 DEF MayFence
  <2>. QED
    BY <2>2, <2>3 DEF PortCall
<1>2. CASE r.kind = "append"
  <2>1. PICK h \in AuthorityHead, a \in AppendIds, b \in BatchIds, ids \in IdBatches :
           r = BuildAppend(h, a, b, ids)
    BY <1>2, BuiltByKind
  <2>2. MayAppend(s, r) /\ Apply(s, r) = Appended(s, r)
    BY <1>2 DEF May, Apply
  <2>3. /\ s.head.fencingToken = h.fencingToken
        /\ s.head.revision = h.revision
        /\ s.head.lastSequence = h.lastSequence
        /\ s.head.lastEventHash = h.lastEventHash
    BY <2>1, <2>2 DEF MayAppend, AddressesHead, BuildAppend
  <2>4. r = BuildAppend(s.head, a, b, ids)
    BY <2>1, <2>3 DEF BuildAppend, BuildEvents
  <2>. QED
    BY <2>2, <2>4 DEF PortCall
<1>3. CASE r.kind = "rejection"
  <2>1. PICK h \in AuthorityHead, a \in AppendIds, record \in CommandReceipts :
           r = BuildRejection(h, a, record)
    BY <1>3, BuiltByKind
  <2>2. MayReject(s, r) /\ Apply(s, r) = Rejected(s, r)
    BY <1>3 DEF May, Apply
  <2>3. /\ s.head.fencingToken = h.fencingToken
        /\ s.head.revision = h.revision
        /\ s.head.lastSequence = h.lastSequence
        /\ s.head.lastEventHash = h.lastEventHash
    BY <2>1, <2>2 DEF MayReject, AddressesHead, BuildRejection
  <2>4. r = BuildRejection(s.head, a, record)
    BY <2>1, <2>3 DEF BuildRejection
  <2>. QED
    BY <2>2, <2>4 DEF PortCall
<1>4. CASE r.kind = "snapshot"
  <2>1. PICK h \in AuthorityHead, id \in SnapshotIds : r = BuildSnapshot(h, id)
    BY <1>4, BuiltByKind
  <2>2. MaySave(s, r) /\ Apply(s, r) = Saved(s, r)
    BY <1>4 DEF May, Apply
  <2>3. r.fencingToken = s.head.fencingToken /\ r.snapshot = SnapshotOf(s.head)
    BY <2>2 DEF MaySave, DescribesHead
  <2>4. r = BuildSnapshot(s.head, id)
    BY <2>1, <2>3 DEF BuildSnapshot
  <2>. QED
    BY <2>2, <2>4 DEF PortCall
<1>. QED
  BY <1>1, <1>2, <1>3, <1>4, BuiltByKind

\* A call of the port leaves a stream.
LEMMA PortCallType ==
    ASSUME NEW s, IsStream(s), NEW r, NEW t, PortCall(s, r, t)
    PROVE  IsStream(t)
<1>1. CASE r.kind = "genesis" /\ r.genesis \in Geneses /\ t = Initialized(r.genesis)
  <2>1. MaxToken \in Nat
    BY RulesAssumption DEF RulesAssumption
  <2>. QED
    BY <1>1, <2>1, GenesisHeadType DEF IsStream, Initialized, GenesisHead
<1>2. CASE MayFence(s, r) /\ t = Fenced(s, r)
  <2>1. t = [genesis |-> s.genesis, head |-> HeadFenced(s.head, s.head.fencingToken),
             events |-> s.events, receipts |-> s.receipts, snapshots |-> s.snapshots]
    BY <1>2 DEF Fenced, IsStream, MayFence
  <2>2. HeadFenced(s.head, s.head.fencingToken) \in AuthorityHead
    BY DEF HeadFenced, AuthorityHead, IsStream
  <2>3. s.head.fencingToken \in Nat /\ s.head.fencingToken # MaxToken /\ MaxToken \in Nat
    BY <1>2, RulesAssumption DEF RulesAssumption, MayFence, IsStream, AuthorityHead
  <2>4. HeadFenced(s.head, s.head.fencingToken).fencingToken <= MaxToken
    BY <2>3, FenceKeepsHead DEF IsStream
  <2>. QED
    BY <2>1, <2>2, <2>4 DEF IsStream
<1>3. ASSUME NEW a \in AppendIds, NEW b \in BatchIds, NEW ids \in IdBatches,
             r = BuildAppend(s.head, a, b, ids), t = Appended(s, r)
      PROVE  IsStream(t)
  <2>1. HeadAfter(s, r) \in AuthorityHead
    BY <1>3, HeadAfterType DEF IsStream
  <2>2. HeadAfter(s, r).fencingToken = s.head.fencingToken
    BY DEF HeadAfter
  <2>. QED
    BY <1>3, <2>1, <2>2 DEF Appended, IsStream
<1>4. CASE t = Rejected(s, r)
  BY <1>4 DEF Rejected, IsStream
<1>5. CASE t = Saved(s, r)
  BY <1>5 DEF Saved, IsStream
<1>. QED
  BY <1>1, <1>2, <1>3, <1>4, <1>5 DEF PortCall

=============================================================================
