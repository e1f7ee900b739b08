------------------------- MODULE AuthorityStoreProofs -------------------------
(***************************************************************************)
(* What is proved of the atomic port for every value of the constants: its *)
(* type correctness, the continuity of the ledger and the permanence of    *)
(* what was committed; then that receipts cut the ledger into the batches  *)
(* it was committed by, that revisions and writer fences follow the order  *)
(* of the batches, and that every snapshot is the stream after a whole     *)
(* number of batches.                                                      *)
(***************************************************************************)
EXTENDS AuthorityStore, AuthorityRulesProofs

-----------------------------------------------------------------------------
(* Maps *)

\* Put keeps a map a map.
LEMMA PutIsMap ==
    ASSUME NEW K, NEW V, NEW f, IsMap(f, K, V), NEW k \in K, NEW v \in V
    PROVE  IsMap(Put(f, k, v), K, V)
<1>. DEFINE g == Put(f, k, v)
<1>1. /\ DOMAIN f \subseteq K
      /\ \A x \in DOMAIN f : f[x] \in V
  BY DEF IsMap
<1>2. /\ DOMAIN g = DOMAIN f \cup {k}
      /\ g[k] = v
      /\ \A x \in DOMAIN f : x # k => g[x] = f[x]
      /\ g = [x \in DOMAIN g |-> g[x]]
  BY DEF Put
<1>3. DOMAIN g \subseteq K
  BY <1>1, <1>2
<1>4. \A x \in DOMAIN g : g[x] \in V
  BY <1>1, <1>2
<1>. HIDE DEF g
<1>5. IsMap(g, K, V)
  BY <1>2, <1>3, <1>4 DEF IsMap
<1>. QED
  BY <1>5 DEF g

\* The map without keys is a map, whatever its keys and values should be.
LEMMA EmptyIsMap ==
    ASSUME NEW K, NEW V
    PROVE  IsMap(EmptyMap, K, V) /\ DOMAIN EmptyMap = {}
BY DEF IsMap, EmptyMap

-----------------------------------------------------------------------------
(* Type correctness *)

\* What an accepted append adds and leaves, for a stream of the right shape.
LEMMA AppendType ==
    ASSUME StreamType(stream),
           NEW a \in AppendIds, NEW b \in BatchIds, NEW ids \in IdBatches
    PROVE  StreamType(Appended(stream, BuildAppend(stream.head, a, b, ids)))
<1>. DEFINE h == stream.head
            r == BuildAppend(h, a, b, ids)
            n == Len(ids)
            base == h.lastSequence
            fresh == (base + 1)..(base + n)
            es == r.events
<1>1. h \in AuthorityHead /\ h.lastSequence \in Nat /\ h.revision \in Nat
      /\ h.fencingToken \in Nat
  BY DEF StreamType, AuthorityHead
<1>2. n \in Nat \ {0} /\ n \in 1..n
  <2>1. n \in 1..MaxEventsPerBatch
    BY IdBatchLength
  <2>. QED
    BY <2>1, RulesAssumption DEF RulesAssumption
<1>3. /\ Len(es) = n
      /\ es[n] \in Event
      /\ \A i \in 1..n : /\ es[i] \in Event
                         /\ es[i].sequence = base + i
  BY <1>1, <1>2, BuildEventsProperties DEF BuildAppend
<1>4. r.appendId = a /\ r.expectedLastSequence = base
  BY DEF BuildAppend
<1>5. EventHash(es[n]) \in Hash
  BY <1>3, EventHashType
<1>. HIDE DEF r
<1>6. HeadAfter(stream, r) \in AuthorityHead
  <2>1. TimeOf[es[n].eventId] \in Nat
    BY <1>3, RulesAssumption DEF RulesAssumption, Event
  <2>2. es[n].sequence \in Nat
    BY <1>3 DEF Event
  <2>. QED
    BY <1>1, <1>3, <1>5, <2>1, <2>2 DEF HeadAfter, AuthorityHead
<1>7. IsMap(WithEvents(stream.events, r), Nat \ {0}, Event)
  <2>. DEFINE w == WithEvents(stream.events, r)
  <2>1. IsMap(stream.events, Nat \ {0}, Event)
    BY DEF StreamType
  <2>2. w = [m \in DOMAIN stream.events \cup fresh |->
                IF m \in fresh THEN es[m - base] ELSE stream.events[m]]
    BY <1>3, <1>4 DEF WithEvents
  <2>3. DOMAIN w \subseteq Nat \ {0}
    BY <1>1, <1>2, <2>1, <2>2 DEF IsMap
  <2>4. ASSUME NEW m \in DOMAIN w
        PROVE  w[m] \in Event
    <3>1. CASE m \in fresh
      <4>1. m - base \in 1..n
        BY <1>1, <1>2, <3>1
      <4>. QED
        BY <1>3, <2>2, <3>1, <4>1
    <3>2. CASE m \notin fresh
      BY <2>1, <2>2, <3>2 DEF IsMap
    <3>. QED
      BY <3>1, <3>2
  <2>5. w = [m \in DOMAIN w |-> w[m]]
    BY <2>2
  <2>. HIDE DEF w
  <2>6. IsMap(w, Nat \ {0}, Event)
    BY <2>3, <2>4, <2>5 DEF IsMap
  <2>. QED
    BY <2>6 DEF w
<1>8. AppendReceipt(stream, r) \in Receipt
  <2>1. r \in AppendRequest
    BY <1>1, BuildAppendType DEF r
  <2>2. 1 \in 1..n
    BY <1>2
  <2>3. es[1].sequence = base + 1 /\ es[n].sequence = base + n
    BY <1>2, <1>3, <2>2
  <2>4. es[1].sequence \in Nat /\ es[n].sequence + 1 \in Nat
    BY <1>1, <1>2, <2>3
  <2>. QED
    BY <1>1, <1>3, <1>5, <2>1, <2>4 DEF AppendReceipt, Receipt
<1>9. IsMap(Put(stream.receipts, r.appendId, AppendReceipt(stream, r)), AppendIds, Receipt)
  BY <1>4, <1>8, PutIsMap DEF StreamType
<1>10. stream.genesis \in Geneses \cup {NoGenesis}
       /\ IsMap(stream.snapshots, SnapshotIds \cup {GenesisSnapshot}, Snapshot)
  BY DEF StreamType
<1>. QED
  BY <1>6, <1>7, <1>9, <1>10 DEF StreamType, Appended, r

\* A stream with the receipts of one rejected command more.
LEMMA RejectType ==
    ASSUME StreamType(stream), NEW a \in AppendIds, NEW record \in CommandReceipts
    PROVE  StreamType(Rejected(stream, BuildRejection(stream.head, a, record)))
<1>. DEFINE r == BuildRejection(stream.head, a, record)
            receipts == Put(stream.receipts, a, RejectionReceipt(stream, r))
<1>1. stream.head \in AuthorityHead
  BY DEF StreamType
<1>2. r \in RejectionRequest /\ r.appendId = a
  BY <1>1, BuildRejectionType DEF BuildRejection
<1>3. RejectionReceipt(stream, r) \in Receipt
  BY <1>1, <1>2 DEF RejectionReceipt, Receipt, AuthorityHead
<1>4. IsMap(receipts, AppendIds, Receipt)
  BY <1>3, PutIsMap DEF StreamType
<1>5. Rejected(stream, r) =
        [genesis |-> stream.genesis, head |-> stream.head, events |-> stream.events,
         receipts |-> receipts, snapshots |-> stream.snapshots]
  BY <1>2 DEF Rejected, StreamType
<1>. HIDE DEF r, receipts
<1>6. StreamType(Rejected(stream, r))
  BY <1>4, <1>5 DEF StreamType
<1>. QED
  BY <1>6 DEF r

\* A stream with the next fencing token.
LEMMA FenceType ==
    ASSUME StreamType(stream), NEW r, r.expectedFencingToken = stream.head.fencingToken
    PROVE  /\ StreamType(Fenced(stream, r))
           /\ Fenced(stream, r) =
                [genesis |-> stream.genesis,
                 head |-> HeadFenced(stream.head, stream.head.fencingToken),
                 events |-> stream.events, receipts |-> stream.receipts,
                 snapshots |-> stream.snapshots]
<1>1. Fenced(stream, r) =
        [genesis |-> stream.genesis,
         head |-> HeadFenced(stream.head, stream.head.fencingToken),
         events |-> stream.events, receipts |-> stream.receipts,
         snapshots |-> stream.snapshots]
  BY DEF Fenced, StreamType
<1>2. HeadFenced(stream.head, stream.head.fencingToken) \in AuthorityHead
  BY DEF HeadFenced, AuthorityHead, StreamType
<1>. QED
  BY <1>1, <1>2 DEF StreamType

\* A stream with one snapshot more.
LEMMA SaveType ==
    ASSUME StreamType(stream), NEW id \in SnapshotIds
    PROVE  StreamType(Saved(stream, BuildSnapshot(stream.head, id)))
<1>. DEFINE snapshots == Put(stream.snapshots, id, SnapshotOf(stream.head))
<1>1. SnapshotOf(stream.head) \in Snapshot
  BY DEF SnapshotOf, Snapshot, AuthorityHead, StreamType
<1>2. IsMap(snapshots, SnapshotIds \cup {GenesisSnapshot}, Snapshot)
  BY <1>1, PutIsMap DEF StreamType
<1>3. Saved(stream, BuildSnapshot(stream.head, id)) =
        [genesis |-> stream.genesis, head |-> stream.head, events |-> stream.events,
         receipts |-> stream.receipts, snapshots |-> snapshots]
  BY DEF Saved, StreamType, BuildSnapshot
<1>. HIDE DEF snapshots
<1>. QED
  BY <1>2, <1>3 DEF StreamType

\* The empty stream, and the one that initialize makes of it.
LEMMA InitializeType ==
    /\ StreamType(Unborn)
    /\ \A g \in Geneses : StreamType(Initialized(g))
<1>. DEFINE snapshots == Put(EmptyMap, GenesisSnapshot, SnapshotOf(GenesisHead))
<1>1. NoHash \in Hash
  BY EmptySeq DEF NoHash, Hash
<1>2. GenesisHead \in AuthorityHead /\ SnapshotOf(GenesisHead) \in Snapshot
  BY <1>1 DEF GenesisHead, AuthorityHead, SnapshotOf, Snapshot
<1>3. StreamType(Unborn)
  BY <1>2, EmptyIsMap DEF Unborn, StreamType
<1>4. IsMap(snapshots, SnapshotIds \cup {GenesisSnapshot}, Snapshot)
  BY <1>2, EmptyIsMap, PutIsMap
<1>5. ASSUME NEW g \in Geneses
      PROVE  StreamType(Initialized(g))
  <2>1. Initialized(g) = [genesis |-> g, head |-> GenesisHead, events |-> EmptyMap,
                          receipts |-> EmptyMap, snapshots |-> snapshots]
    BY DEF Initialized
  <2>. HIDE DEF snapshots
  <2>. QED
    BY <1>2, <1>4, <2>1, EmptyIsMap DEF StreamType
<1>. QED
  BY <1>3, <1>5

\* The stream always has the shape of the stores, whatever is initialized,
\* fenced, appended, rejected or saved, and in whatever order.
THEOREM TypeCorrectness == Spec => []TypeOK
<1>1. Init => TypeOK
  BY InitializeType DEF Init, TypeOK
<1>2. TypeOK /\ [Next]_stream => TypeOK'
  <2>. SUFFICES ASSUME TypeOK, [Next]_stream
                PROVE  TypeOK'
    OBVIOUS
  <2>. USE DEF TypeOK
  <2>1. ASSUME NEW g \in Geneses, Initialize(g)
        PROVE  TypeOK'
    BY <2>1, InitializeType DEF Initialize
  <2>2. CASE AcquireWriterFence
    <3>. DEFINE r == [kind |-> "fence", expectedFencingToken |-> stream.head.fencingToken]
    <3>1. StreamType(Fenced(stream, r))
      BY FenceType
    <3>. QED
      BY <2>2, <3>1 DEF AcquireWriterFence
  <2>3. ASSUME NEW a \in AppendIds, NEW b \in BatchIds, NEW ids \in IdBatches,
               AppendEventBatch(a, b, ids)
        PROVE  TypeOK'
    BY <2>3, AppendType DEF AppendEventBatch
  <2>4. ASSUME NEW a \in AppendIds, NEW record \in CommandReceipts,
               RecordRejectedCommand(a, record)
        PROVE  TypeOK'
    BY <2>4, RejectType DEF RecordRejectedCommand
  <2>5. ASSUME NEW id \in SnapshotIds, SaveSnapshot(id)
        PROVE  TypeOK'
    BY <2>5, SaveType DEF SaveSnapshot
  <2>6. CASE UNCHANGED stream
    BY <2>6
  <2>. QED
    BY <2>1, <2>2, <2>3, <2>4, <2>5, <2>6 DEF Next
<1>. QED
  BY <1>1, <1>2, PTL DEF Spec

-----------------------------------------------------------------------------
(* The ledger *)

\* The events of a stream after an accepted append: the old ones where they
\* were, and the batch right behind them.
LEMMA AppendedEvents ==
    ASSUME StreamType(stream), LedgerContinuous(stream),
           NEW a \in AppendIds, NEW b \in BatchIds, NEW ids \in IdBatches,
           NEW t, t = Appended(stream, BuildAppend(stream.head, a, b, ids))
    PROVE  LET es == BuildEvents(stream.head, a, ids)
               base == stream.head.lastSequence
           IN  /\ base \in Nat /\ Len(ids) \in Nat \ {0}
               /\ t.head.lastSequence = base + Len(ids)
               /\ t.head.lastEventHash = EventHash(es[Len(ids)])
               /\ t.head.simulationTime = TimeOf[es[Len(ids)].eventId]
               /\ DOMAIN t.events = 1..(base + Len(ids))
               /\ \A m \in 1..base : t.events[m] = stream.events[m]
               /\ \A i \in 1..Len(ids) : t.events[base + i] = es[i]
<1>. DEFINE h == stream.head
            r == BuildAppend(h, a, b, ids)
            es == BuildEvents(h, a, ids)
            base == h.lastSequence
            n == Len(ids)
            fresh == (base + 1)..(base + n)
<1>1. h \in AuthorityHead /\ base \in Nat
  BY DEF StreamType, AuthorityHead
<1>2. n \in Nat \ {0}
  <2>1. n \in 1..MaxEventsPerBatch
    BY IdBatchLength
  <2>. QED
    BY <2>1, RulesAssumption DEF RulesAssumption
<1>3. Len(es) = n /\ es[n].sequence = base + n
  BY <1>1, <1>2, BuildEventsProperties
<1>4. r.events = es /\ r.expectedLastSequence = base
  BY DEF BuildAppend
<1>5. t.events = [m \in DOMAIN stream.events \cup fresh |->
                    IF m \in fresh THEN es[m - base] ELSE stream.events[m]]
  BY <1>3, <1>4 DEF Appended, WithEvents
<1>6. t.head = HeadAfter(stream, r)
  BY DEF Appended
<1>7. /\ t.head.lastSequence = base + n
      /\ t.head.lastEventHash = EventHash(es[n])
      /\ t.head.simulationTime = TimeOf[es[n].eventId]
  BY <1>3, <1>4, <1>6 DEF HeadAfter
<1>8. DOMAIN stream.events = 1..base
  BY DEF LedgerContinuous
<1>. HIDE DEF es, base, n
<1>9. DOMAIN t.events = 1..(base + n)
  BY <1>1, <1>2, <1>5, <1>8
<1>10. \A m \in 1..base : t.events[m] = stream.events[m]
  BY <1>1, <1>2, <1>5, <1>8
<1>11. ASSUME NEW i \in 1..n
       PROVE  t.events[base + i] = es[i]
  <2>1. base + i \in fresh /\ (base + i) - base = i
    BY <1>1, <1>2
  <2>. QED
    BY <1>5, <2>1
<1>. QED
  BY <1>1, <1>2, <1>7, <1>9, <1>10, <1>11 DEF es, base, n

\* An accepted append continues the ledger.
LEMMA AppendLedger ==
    ASSUME StreamType(stream), LedgerContinuous(stream),
           NEW a \in AppendIds, NEW b \in BatchIds, NEW ids \in IdBatches,
           MayAppend(stream, BuildAppend(stream.head, a, b, ids))
    PROVE  LedgerContinuous(Appended(stream, BuildAppend(stream.head, a, b, ids)))
<1>. DEFINE h == stream.head
            r == BuildAppend(h, a, b, ids)
            t == Appended(stream, r)
            es == BuildEvents(h, a, ids)
            base == h.lastSequence
            n == Len(ids)
<1>1. /\ base \in Nat /\ n \in Nat \ {0}
      /\ t.head.lastSequence = base + n
      /\ t.head.lastEventHash = EventHash(es[n])
      /\ t.head.simulationTime = TimeOf[es[n].eventId]
      /\ DOMAIN t.events = 1..(base + n)
      /\ \A m \in 1..base : t.events[m] = stream.events[m]
      /\ \A i \in 1..n : t.events[base + i] = es[i]
  BY AppendedEvents
<1>2. Len(r.events) = n /\ r.events = es
  BY BuildEventsProperties DEF BuildAppend, StreamType
<1>3. \A i \in 1..n : es[i].sequence = base + i
  BY BuildEventsProperties DEF StreamType
<1>4. \A i \in 1..n : Continues(stream, r, i)
  BY <1>2 DEF MayAppend
<1>5. /\ DOMAIN stream.events = 1..base
      /\ h.lastEventHash = HashAt(stream, base)
      /\ h.simulationTime = TimeAt(stream, base)
      /\ \A m \in 1..base :
            /\ stream.events[m].sequence = m
            /\ stream.events[m].previousEventHash = HashAt(stream, m - 1)
            /\ TimeOf[stream.events[m].eventId] >= TimeAt(stream, m - 1)
  BY DEF LedgerContinuous
<1>6. ASSUME NEW i \in 1..n
      PROVE  /\ es[i].previousEventHash =
                    IF i = 1 THEN h.lastEventHash ELSE EventHash(es[i - 1])
             /\ TimeOf[es[i].eventId] >=
                    IF i = 1 THEN h.simulationTime ELSE TimeOf[es[i - 1].eventId]
  BY <1>2, <1>4 DEF Continues
<1>. HIDE DEF r, t, es, base, n, h
<1>7. \A m \in 0..base : HashAt(t, m) = HashAt(stream, m) /\ TimeAt(t, m) = TimeAt(stream, m)
  BY <1>1 DEF HashAt, TimeAt
<1>8. ASSUME NEW i \in 1..n
      PROVE  HashAt(t, base + i) = EventHash(es[i]) /\ TimeAt(t, base + i) = TimeOf[es[i].eventId]
  <2>1. base + i # 0
    BY <1>1
  <2>. QED
    BY <1>1, <2>1 DEF HashAt, TimeAt
<1>9. ASSUME NEW m \in 1..(base + n)
      PROVE  /\ t.events[m].sequence = m
             /\ t.events[m].previousEventHash = HashAt(t, m - 1)
             /\ TimeOf[t.events[m].eventId] >= TimeAt(t, m - 1)
  <2>1. CASE m \in 1..base
    <3>1. m - 1 \in 0..base
      BY <1>1, <2>1
    <3>2. HashAt(t, m - 1) = HashAt(stream, m - 1) /\ TimeAt(t, m - 1) = TimeAt(stream, m - 1)
      BY <1>7, <3>1
    <3>. QED
      BY <1>1, <1>5, <2>1, <3>2
  <2>2. CASE m = base + 1
    <3>1. 1 \in 1..n /\ t.events[m] = es[1] /\ m - 1 = base /\ base \in 0..base
      BY <1>1, <2>2
    <3>2. HashAt(t, m - 1) = h.lastEventHash /\ TimeAt(t, m - 1) = h.simulationTime
      BY <1>5, <1>7, <3>1
    <3>3. /\ es[1].previousEventHash = h.lastEventHash
          /\ TimeOf[es[1].eventId] >= h.simulationTime
      BY <1>6, <3>1
    <3>4. es[1].sequence = m
      BY <1>3, <2>2, <3>1
    <3>. QED
      BY <3>1, <3>2, <3>3, <3>4
  <2>3. CASE m \in (base + 2)..(base + n)
    <3>. DEFINE i == m - base
    <3>1. i \in 1..n /\ i - 1 \in 1..n /\ i # 1 /\ m = base + i /\ m - 1 = base + (i - 1)
      BY <1>1, <2>3
    <3>. HIDE DEF i
    <3>2. t.events[m] = es[i] /\ es[i].sequence = m
      BY <1>1, <1>3, <3>1
    <3>3. /\ HashAt(t, m - 1) = EventHash(es[i - 1])
          /\ TimeAt(t, m - 1) = TimeOf[es[i - 1].eventId]
      BY <1>8, <3>1
    <3>4. /\ es[i].previousEventHash = EventHash(es[i - 1])
          /\ TimeOf[es[i].eventId] >= TimeOf[es[i - 1].eventId]
      BY <1>6, <3>1
    <3>. QED
      BY <3>2, <3>3, <3>4
  <2>. QED
    BY <1>1, <2>1, <2>2, <2>3
<1>10. n \in 1..n
  BY <1>1
<1>11. /\ t.head.lastEventHash = HashAt(t, t.head.lastSequence)
       /\ t.head.simulationTime = TimeAt(t, t.head.lastSequence)
  BY <1>1, <1>8, <1>10
<1>12. LedgerContinuous(t)
  BY <1>1, <1>9, <1>11 DEF LedgerContinuous
<1>. QED
  BY <1>12 DEF t, r, h

\* A step that keeps the events and what the head says of the last one keeps
\* the ledger continuous.
LEMMA LedgerFramed ==
    ASSUME NEW s, NEW t, LedgerContinuous(s), t.events = s.events,
           t.head.lastSequence = s.head.lastSequence,
           t.head.lastEventHash = s.head.lastEventHash,
           t.head.simulationTime = s.head.simulationTime
    PROVE  LedgerContinuous(t)
BY DEF LedgerContinuous, HashAt, TimeAt

\* The events and the head of a stream that gained only a receipt, a snapshot
\* or a fence.
LEMMA OtherStepsKeepEvents ==
    ASSUME StreamType(stream)
    PROVE  /\ \A r : /\ Rejected(stream, r).events = stream.events
                     /\ Rejected(stream, r).head = stream.head
                     /\ Rejected(stream, r).snapshots = stream.snapshots
                     /\ Rejected(stream, r).receipts =
                           Put(stream.receipts, r.appendId, RejectionReceipt(stream, r))
           /\ \A r : /\ Saved(stream, r).events = stream.events
                     /\ Saved(stream, r).head = stream.head
                     /\ Saved(stream, r).receipts = stream.receipts
                     /\ Saved(stream, r).snapshots =
                           Put(stream.snapshots, r.snapshotId, r.snapshot)
           /\ \A r : /\ Fenced(stream, r).events = stream.events
                     /\ Fenced(stream, r).receipts = stream.receipts
                     /\ Fenced(stream, r).snapshots = stream.snapshots
                     /\ Fenced(stream, r).head = HeadFenced(stream.head, r.expectedFencingToken)
BY DEF StreamType, Rejected, Saved, Fenced

\* A new stream has an empty, continuous ledger.
LEMMA InitialLedger ==
    LedgerContinuous(Unborn) /\ \A g : LedgerContinuous(Initialized(g))
BY DEF LedgerContinuous, Unborn, Initialized, GenesisHead, HashAt, TimeAt, EmptyMap, NoHash

\* The ledger has no gap and no fork: sequence numbers, hash chain, times and
\* head agree after any calls.  It is inductive together with TypeOK.
THEOREM LedgerCorrectness == Spec => []Ledger
<1>1. Init => Ledger
  BY InitialLedger DEF Init, Ledger
<1>2. TypeOK /\ Ledger /\ [Next]_stream => Ledger'
  <2>. SUFFICES ASSUME TypeOK, Ledger, [Next]_stream
                PROVE  Ledger'
    OBVIOUS
  <2>. USE DEF TypeOK, Ledger
  <2>1. ASSUME NEW g \in Geneses, Initialize(g)
        PROVE  Ledger'
    BY <2>1, InitialLedger DEF Initialize
  <2>2. CASE AcquireWriterFence
    <3>. DEFINE r == [kind |-> "fence", expectedFencingToken |-> stream.head.fencingToken]
                t == Fenced(stream, r)
    <3>1. stream.head \in AuthorityHead
      BY DEF StreamType
    <3>2. t.events = stream.events /\ t.head = HeadFenced(stream.head, stream.head.fencingToken)
      BY OtherStepsKeepEvents
    <3>3. stream' = t
      BY <2>2 DEF AcquireWriterFence
    <3>. HIDE DEF t
    <3>4. LedgerContinuous(t)
      BY <3>1, <3>2, FenceKeepsHead, LedgerFramed
    <3>. QED
      BY <3>3, <3>4
  <2>3. ASSUME NEW a \in AppendIds, NEW b \in BatchIds, NEW ids \in IdBatches,
               AppendEventBatch(a, b, ids)
        PROVE  Ledger'
    BY <2>3, AppendLedger DEF AppendEventBatch
  <2>4. ASSUME NEW a \in AppendIds, NEW record \in CommandReceipts,
               RecordRejectedCommand(a, record)
        PROVE  Ledger'
    BY ZenonT(60), <2>4, OtherStepsKeepEvents, LedgerFramed DEF RecordRejectedCommand
  <2>5. ASSUME NEW id \in SnapshotIds, SaveSnapshot(id)
        PROVE  Ledger'
    BY <2>5, OtherStepsKeepEvents, LedgerFramed DEF SaveSnapshot
  <2>6. CASE UNCHANGED stream
    BY <2>6
  <2>. QED
    BY <2>1, <2>2, <2>3, <2>4, <2>5, <2>6 DEF Next
<1>. QED
  BY <1>1, <1>2, TypeCorrectness, PTL DEF Spec

-----------------------------------------------------------------------------
(* Causes *)

\* What CausesPrecede says of any stream.
Causal(s) ==
    \A n \in DOMAIN s.events :
        /\ \A m \in DOMAIN s.events : s.events[m].eventId = s.events[n].eventId => m = n
        /\ \A ref \in RefsOf[s.events[n].eventId] :
              \E m \in 1..(n - 1) : s.events[m].eventId = ref

\* An accepted append adds new events only, and each of them refers only to
\* events that are stored or earlier in its batch.
LEMMA AppendCausal ==
    ASSUME StreamType(stream), LedgerContinuous(stream), Causal(stream),
           NEW a \in AppendIds, NEW b \in BatchIds, NEW ids \in IdBatches,
           MayAppend(stream, BuildAppend(stream.head, a, b, ids))
    PROVE  Causal(Appended(stream, BuildAppend(stream.head, a, b, ids)))
<1>. DEFINE r == BuildAppend(stream.head, a, b, ids)
            t == Appended(stream, r)
            es == BuildEvents(stream.head, a, ids)
            base == stream.head.lastSequence
            n == Len(ids)
<1>1. /\ base \in Nat /\ n \in Nat \ {0}
      /\ DOMAIN t.events = 1..(base + n)
      /\ \A m \in 1..base : t.events[m] = stream.events[m]
      /\ \A i \in 1..n : t.events[base + i] = es[i]
  BY AppendedEvents
<1>2. Len(r.events) = n /\ r.events = es
  BY BuildEventsProperties DEF BuildAppend, StreamType
<1>3. \A i \in 1..n : Continues(stream, r, i)
  BY <1>2 DEF MayAppend
<1>4. DOMAIN stream.events = 1..base
  BY DEF LedgerContinuous
<1>5. ASSUME NEW i \in 1..n
      PROVE  /\ \A m \in 1..base : stream.events[m].eventId # es[i].eventId
             /\ \A j \in 1..(i - 1) : es[j].eventId # es[i].eventId
             /\ \A ref \in RefsOf[es[i].eventId] :
                   \/ \E m \in 1..base : stream.events[m].eventId = ref
                   \/ \E j \in 1..(i - 1) : es[j].eventId = ref
  <2>. DEFINE stored == StoredEventIds(stream)
              before == BatchIdsBefore(r, i)
  <2>1. /\ es[i].eventId \notin stored \cup before
        /\ RefsOf[es[i].eventId] \subseteq stored \cup before
    BY <1>2, <1>3 DEF Continues
  <2>2. \A id : id \in stored <=> \E m \in 1..base : stream.events[m].eventId = id
    BY <1>4 DEF StoredEventIds
  <2>3. \A id : id \in before <=> \E j \in 1..(i - 1) : es[j].eventId = id
    BY <1>2 DEF BatchIdsBefore
  <2>. HIDE DEF r, es, base, n, stored, before
  <2>. QED
    BY <2>1, <2>2, <2>3
<1>. HIDE DEF r, t, es, base, n
<1>6. ASSUME NEW m \in 1..(base + n), m \notin 1..base
      PROVE  /\ m - base \in 1..n
             /\ t.events[m] = es[m - base]
  <2>. DEFINE i == m - base
  <2>1. i \in 1..n /\ m = base + i
    BY <1>1, <1>6
  <2>. HIDE DEF i
  <2>2. t.events[m] = es[i]
    BY <1>1, <2>1
  <2>. QED
    BY <2>1, <2>2 DEF i
<1>7. ASSUME NEW k \in 1..(base + n), NEW m \in 1..(base + n), m < k
      PROVE  t.events[m].eventId # t.events[k].eventId
  <2>1. CASE k \in 1..base
    <3>1. m \in 1..base /\ m # k
      BY <1>1, <1>7, <2>1
    <3>2. stream.events[m].eventId # stream.events[k].eventId
      BY <1>4, <2>1, <3>1 DEF Causal
    <3>. QED
      BY <1>1, <2>1, <3>1, <3>2
  <2>2. CASE k \notin 1..base /\ m \in 1..base
    <3>1. k - base \in 1..n /\ t.events[k] = es[k - base]
      BY <1>6, <2>2
    <3>2. stream.events[m].eventId # es[k - base].eventId
      BY <1>5, <2>2, <3>1
    <3>. QED
      BY <1>1, <2>2, <3>1, <3>2
  <2>3. CASE k \notin 1..base /\ m \notin 1..base
    <3>1. m - base \in 1..((k - base) - 1)
      BY <1>1, <1>6, <1>7, <2>3
    <3>. QED
      BY <1>5, <1>6, <2>3, <3>1
  <2>. QED
    BY <2>1, <2>2, <2>3
<1>8. ASSUME NEW k \in 1..(base + n), NEW ref \in RefsOf[t.events[k].eventId]
      PROVE  \E m \in 1..(k - 1) : t.events[m].eventId = ref
  <2>1. CASE k \in 1..base
    <3>1. PICK m \in 1..(k - 1) : stream.events[m].eventId = ref
      BY <1>1, <1>4, <1>8, <2>1 DEF Causal
    <3>2. m \in 1..base
      BY <1>1, <2>1
    <3>. QED
      BY <1>1, <3>1, <3>2
  <2>2. CASE k \notin 1..base
    <3>. DEFINE i == k - base
    <3>1. i \in 1..n /\ t.events[k] = es[i] /\ k = base + i
      BY <1>1, <1>6, <2>2
    <3>. HIDE DEF i
    <3>2. CASE \E m \in 1..base : stream.events[m].eventId = ref
      <4>1. PICK m \in 1..base : stream.events[m].eventId = ref
        BY <3>2
      <4>2. m \in 1..(k - 1)
        BY <1>1, <3>1
      <4>. QED
        BY <1>1, <4>1, <4>2
    <3>3. CASE \E j \in 1..(i - 1) : es[j].eventId = ref
      <4>1. PICK j \in 1..(i - 1) : es[j].eventId = ref
        BY <3>3
      <4>2. j \in 1..n /\ base + j \in 1..(k - 1)
        BY <1>1, <3>1
      <4>3. t.events[base + j] = es[j]
        BY <1>1, <4>2
      <4>. QED
        BY <4>1, <4>2, <4>3
    <3>. QED
      BY <1>5, <1>8, <3>1, <3>2, <3>3
  <2>. QED
    BY <2>1, <2>2
<1>9. \A k, m \in 1..(base + n) : t.events[m].eventId = t.events[k].eventId => m = k
  BY <1>1, <1>7
<1>10. Causal(t)
  BY <1>1, <1>8, <1>9 DEF Causal
<1>. QED
  BY <1>10 DEF t, r

\* No event is recorded twice and every cause is recorded before its effect,
\* across batches and writers.  The ledger invariant places a batch behind the
\* events that are there.
THEOREM CausesCorrectness == Spec => []CausesPrecede
<1>1. Init => Causal(stream)
  BY DEF Init, Unborn, EmptyMap, Causal
<1>2. TypeOK /\ Ledger /\ Causal(stream) /\ [Next]_stream => Causal(stream)'
  <2>. SUFFICES ASSUME TypeOK, Ledger, Causal(stream), [Next]_stream
                PROVE  Causal(stream)'
    OBVIOUS
  <2>. USE DEF TypeOK, Ledger
  <2>1. ASSUME stream'.events = stream.events
        PROVE  Causal(stream)'
    BY <2>1 DEF Causal
  <2>2. ASSUME NEW g \in Geneses, Initialize(g)
        PROVE  Causal(stream)'
    BY <2>2 DEF Initialize, Initialized, EmptyMap, Causal
  <2>3. CASE AcquireWriterFence
    BY <2>1, <2>3, OtherStepsKeepEvents DEF AcquireWriterFence
  <2>4. ASSUME NEW a \in AppendIds, NEW b \in BatchIds, NEW ids \in IdBatches,
               AppendEventBatch(a, b, ids)
        PROVE  Causal(stream)'
    <3>. DEFINE t == Appended(stream, BuildAppend(stream.head, a, b, ids))
    <3>1. stream' = t /\ Causal(t)
      BY <2>4, AppendCausal DEF AppendEventBatch
    <3>. QED
      BY <3>1 DEF Causal
  <2>5. ASSUME NEW a \in AppendIds, NEW record \in CommandReceipts,
               RecordRejectedCommand(a, record)
        PROVE  Causal(stream)'
    BY <2>1, <2>5, OtherStepsKeepEvents DEF RecordRejectedCommand
  <2>6. ASSUME NEW id \in SnapshotIds, SaveSnapshot(id)
        PROVE  Causal(stream)'
    BY <2>1, <2>6, OtherStepsKeepEvents DEF SaveSnapshot
  <2>7. CASE UNCHANGED stream
    BY <2>1, <2>7
  <2>. QED
    BY <2>2, <2>3, <2>4, <2>5, <2>6, <2>7 DEF Next
<1>3. Causal(stream) => CausesPrecede
  BY DEF Causal, CausesPrecede
<1>. QED
  BY <1>1, <1>2, <1>3, TypeCorrectness, LedgerCorrectness, PTL DEF Spec

-----------------------------------------------------------------------------
(* What was committed stays *)

\* Put loses no other key.
LEMMA PutKeeps ==
    ASSUME NEW f, NEW k, NEW v, k \notin DOMAIN f
    PROVE  Keeps(f, Put(f, k, v))
BY DEF Keeps, Put

\* Nothing is stored for a stream before it is initialized.
EmptyBeforeGenesis == ~Known(stream) => stream = Unborn

\* Every call but initialize is refused for a stream that is not known.
LEMMA NothingBeforeGenesis == Spec => []EmptyBeforeGenesis
<1>1. Init => EmptyBeforeGenesis
  BY DEF Init, EmptyBeforeGenesis
<1>2. TypeOK /\ EmptyBeforeGenesis /\ [Next]_stream => EmptyBeforeGenesis'
  <2>. SUFFICES ASSUME TypeOK, EmptyBeforeGenesis, [Next]_stream
                PROVE  EmptyBeforeGenesis'
    OBVIOUS
  <2>1. ASSUME NEW g \in Geneses, Initialize(g)
        PROVE  EmptyBeforeGenesis'
    BY <2>1, RulesAssumption
    DEF Initialize, Initialized, Known, EmptyBeforeGenesis, RulesAssumption
  <2>2. ASSUME Known(stream), stream'.genesis = stream.genesis
        PROVE  EmptyBeforeGenesis'
    BY <2>2 DEF Known, EmptyBeforeGenesis
  <2>3. CASE AcquireWriterFence
    BY <2>2, <2>3 DEF AcquireWriterFence, MayFence, Fenced, TypeOK, StreamType
  <2>4. ASSUME NEW a \in AppendIds, NEW b \in BatchIds, NEW ids \in IdBatches,
               AppendEventBatch(a, b, ids)
        PROVE  EmptyBeforeGenesis'
    BY <2>2, <2>4 DEF AppendEventBatch, MayAppend, Appended
  <2>5. ASSUME NEW a \in AppendIds, NEW record \in CommandReceipts,
               RecordRejectedCommand(a, record)
        PROVE  EmptyBeforeGenesis'
    BY <2>2, <2>5 DEF RecordRejectedCommand, MayReject, Rejected, TypeOK, StreamType
  <2>6. ASSUME NEW id \in SnapshotIds, SaveSnapshot(id)
        PROVE  EmptyBeforeGenesis'
    BY <2>2, <2>6 DEF SaveSnapshot, MaySave, DescribesHead, Saved, TypeOK, StreamType
  <2>7. CASE UNCHANGED stream
    BY <2>7 DEF EmptyBeforeGenesis, Known
  <2>. QED
    BY <2>1, <2>3, <2>4, <2>5, <2>6, <2>7 DEF Next
<1>. QED
  BY <1>1, <1>2, TypeCorrectness, PTL DEF Spec

\* No call replaces or loses an event, a receipt or a snapshot, takes the
\* revision back or grants a token twice.
THEOREM HistoryCorrectness == Spec => History
<1>1. TypeOK /\ Ledger /\ EmptyBeforeGenesis /\ [Next]_stream
         => [KeepsHistory(stream, stream')]_stream
  <2>. SUFFICES ASSUME TypeOK, Ledger, EmptyBeforeGenesis, Next
                PROVE  KeepsHistory(stream, stream')
    OBVIOUS
  <2>. USE DEF TypeOK, Ledger
  <2>1. /\ stream.head \in AuthorityHead
        /\ stream.head.revision \in Nat /\ stream.head.fencingToken \in Nat
    BY DEF StreamType, AuthorityHead
  <2>2. ASSUME NEW g \in Geneses, Initialize(g)
        PROVE  KeepsHistory(stream, stream')
    <3>1. stream = Unborn /\ stream' = Initialized(g)
      BY <2>2 DEF Initialize, EmptyBeforeGenesis
    <3>. QED
      BY <3>1 DEF Unborn, Initialized, EmptyMap, GenesisHead, KeepsHistory, Keeps
  <2>3. CASE AcquireWriterFence
    <3>. DEFINE h == stream.head
                r == [kind |-> "fence", expectedFencingToken |-> h.fencingToken]
    <3>1. stream' = Fenced(stream, r)
      BY <2>3 DEF AcquireWriterFence
    <3>2. /\ stream'.events = stream.events /\ stream'.receipts = stream.receipts
          /\ stream'.snapshots = stream.snapshots
          /\ stream'.head = HeadFenced(h, h.fencingToken)
      BY <3>1, OtherStepsKeepEvents
    <3>3. /\ stream'.head.revision = h.revision
          /\ stream'.head.fencingToken = h.fencingToken + 1
      BY <2>1, <3>2, FenceKeepsHead
    <3>. QED
      BY <2>1, <3>2, <3>3 DEF KeepsHistory, Keeps
  <2>4. ASSUME NEW a \in AppendIds, NEW b \in BatchIds, NEW ids \in IdBatches,
               AppendEventBatch(a, b, ids)
        PROVE  KeepsHistory(stream, stream')
    <3>. DEFINE r == BuildAppend(stream.head, a, b, ids)
                t == Appended(stream, r)
    <3>1. stream' = t /\ MayAppend(stream, r)
      BY <2>4 DEF AppendEventBatch
    <3>2. Keeps(stream.events, t.events)
      <4>1. DOMAIN stream.events = 1..stream.head.lastSequence
        BY DEF LedgerContinuous
      <4>2. /\ stream.head.lastSequence \in Nat /\ Len(ids) \in Nat \ {0}
            /\ DOMAIN t.events = 1..(stream.head.lastSequence + Len(ids))
            /\ \A m \in 1..stream.head.lastSequence : t.events[m] = stream.events[m]
        BY AppendedEvents
      <4>. HIDE DEF t
      <4>. QED
        BY <4>1, <4>2 DEF Keeps
    <3>3. Keeps(stream.receipts, t.receipts)
      BY <3>1, PutKeeps DEF Appended, MayAppend
    <3>4. t.snapshots = stream.snapshots /\ t.head = HeadAfter(stream, r)
      BY DEF Appended
    <3>5. /\ t.head.revision = stream.head.revision + 1
          /\ t.head.fencingToken = stream.head.fencingToken
      BY <3>4 DEF HeadAfter
    <3>. HIDE DEF t, r
    <3>. QED
      BY <2>1, <3>1, <3>2, <3>3, <3>4, <3>5 DEF KeepsHistory, Keeps
  <2>5. ASSUME NEW a \in AppendIds, NEW record \in CommandReceipts,
               RecordRejectedCommand(a, record)
        PROVE  KeepsHistory(stream, stream')
    <3>. DEFINE r == BuildRejection(stream.head, a, record)
    <3>1. stream' = Rejected(stream, r) /\ r.appendId \notin DOMAIN stream.receipts
      BY <2>5 DEF RecordRejectedCommand, MayReject
    <3>. HIDE DEF r
    <3>2. /\ stream'.events = stream.events /\ stream'.head = stream.head
          /\ stream'.snapshots = stream.snapshots
          /\ Keeps(stream.receipts, stream'.receipts)
      BY <3>1, OtherStepsKeepEvents, PutKeeps
    <3>. QED
      BY <2>1, <3>2 DEF KeepsHistory, Keeps
  <2>6. ASSUME NEW id \in SnapshotIds, SaveSnapshot(id)
        PROVE  KeepsHistory(stream, stream')
    <3>. DEFINE r == BuildSnapshot(stream.head, id)
    <3>1. stream' = Saved(stream, r) /\ r.snapshotId \notin DOMAIN stream.snapshots
      BY <2>6 DEF SaveSnapshot, MaySave
    <3>. HIDE DEF r
    <3>2. /\ stream'.events = stream.events /\ stream'.head = stream.head
          /\ stream'.receipts = stream.receipts
          /\ Keeps(stream.snapshots, stream'.snapshots)
      BY <3>1, OtherStepsKeepEvents, PutKeeps
    <3>. QED
      BY <2>1, <3>2 DEF KeepsHistory, Keeps
  <2>. QED
    BY <2>2, <2>3, <2>4, <2>5, <2>6 DEF Next
<1>. QED
  BY <1>1, TypeCorrectness, LedgerCorrectness, NothingBeforeGenesis, PTL DEF Spec, History

-----------------------------------------------------------------------------
(* What a step adds to the receipts *)

\* An accepted append adds the receipt of its interval, right behind the ledger.
LEMMA AppendedReceipts ==
    ASSUME StreamType(stream), LedgerContinuous(stream),
           NEW a \in AppendIds, NEW b \in BatchIds, NEW ids \in IdBatches,
           MayAppend(stream, BuildAppend(stream.head, a, b, ids)),
           NEW t, t = Appended(stream, BuildAppend(stream.head, a, b, ids))
    PROVE  LET base == stream.head.lastSequence
           IN  /\ a \notin DOMAIN stream.receipts
               /\ DOMAIN t.receipts = DOMAIN stream.receipts \cup {a}
               /\ \A x \in DOMAIN stream.receipts : t.receipts[x] = stream.receipts[x]
               /\ t.receipts[a].request.kind = "append"
               /\ t.receipts[a].request.fencingToken = stream.head.fencingToken
               /\ t.receipts[a].revision = stream.head.revision + 1
               /\ t.receipts[a].fromSequence = base + 1
               /\ t.receipts[a].toSequence = base + Len(ids) + 1
               /\ t.receipts[a].resultingLastEventHash = t.head.lastEventHash
               /\ t.head.revision = stream.head.revision + 1
               /\ t.head.fencingToken = stream.head.fencingToken
               /\ t.snapshots = stream.snapshots
               /\ \A m \in (base + 1)..(base + Len(ids)) : t.events[m].appendId = a
<1>. DEFINE h == stream.head
            r == BuildAppend(h, a, b, ids)
            es == BuildEvents(h, a, ids)
            base == h.lastSequence
            n == Len(ids)
<1>1. h \in AuthorityHead /\ base \in Nat
  BY DEF StreamType, AuthorityHead
<1>2. /\ n \in Nat \ {0}
      /\ t.head.lastEventHash = EventHash(es[n])
      /\ \A i \in 1..n : t.events[base + i] = es[i]
  BY AppendedEvents
<1>3. /\ Len(es) = n
      /\ \A i \in 1..n : es[i].sequence = base + i /\ es[i].appendId = a
  BY <1>1, BuildEventsProperties
<1>4. /\ r.appendId = a /\ r.kind = "append" /\ r.events = es
      /\ r.fencingToken = h.fencingToken
  BY DEF BuildAppend
<1>5. a \notin DOMAIN stream.receipts
  BY <1>4 DEF MayAppend
<1>6. /\ t.receipts = Put(stream.receipts, a, AppendReceipt(stream, r))
      /\ t.head = HeadAfter(stream, r)
      /\ t.snapshots = stream.snapshots
  BY <1>4 DEF Appended
<1>7. t.head.revision = h.revision + 1 /\ t.head.fencingToken = h.fencingToken
  BY <1>6 DEF HeadAfter
<1>. HIDE DEF r, es, base, n
<1>8. /\ AppendReceipt(stream, r).request = r
      /\ AppendReceipt(stream, r).revision = h.revision + 1
      /\ AppendReceipt(stream, r).fromSequence = base + 1
      /\ AppendReceipt(stream, r).toSequence = base + n + 1
      /\ AppendReceipt(stream, r).resultingLastEventHash = EventHash(es[n])
  BY <1>2, <1>3, <1>4 DEF AppendReceipt
<1>9. /\ DOMAIN t.receipts = DOMAIN stream.receipts \cup {a}
      /\ t.receipts[a] = AppendReceipt(stream, r)
      /\ \A x \in DOMAIN stream.receipts : t.receipts[x] = stream.receipts[x]
  BY <1>5, <1>6 DEF Put
<1>10. ASSUME NEW m \in (base + 1)..(base + n)
       PROVE  t.events[m].appendId = a
  <2>1. m - base \in 1..n /\ base + (m - base) = m
    BY <1>1, <1>2
  <2>2. t.events[base + (m - base)] = es[m - base]
    BY <1>2, <2>1
  <2>. QED
    BY <1>3, <2>1, <2>2
<1>. QED
  BY <1>2, <1>4, <1>5, <1>6, <1>7, <1>8, <1>9, <1>10 DEF base, n

\* A rejected command adds a receipt with an empty interval at the head.
LEMMA RejectedReceipts ==
    ASSUME StreamType(stream),
           NEW a \in AppendIds, NEW record \in CommandReceipts,
           MayReject(stream, BuildRejection(stream.head, a, record)),
           NEW t, t = Rejected(stream, BuildRejection(stream.head, a, record))
    PROVE  /\ a \notin DOMAIN stream.receipts
           /\ DOMAIN t.receipts = DOMAIN stream.receipts \cup {a}
           /\ \A x \in DOMAIN stream.receipts : t.receipts[x] = stream.receipts[x]
           /\ t.receipts[a].request.kind = "rejection"
           /\ t.receipts[a].request.fencingToken = stream.head.fencingToken
           /\ t.receipts[a].revision = stream.head.revision
           /\ t.receipts[a].fromSequence = stream.head.lastSequence + 1
           /\ t.receipts[a].toSequence = stream.head.lastSequence + 1
           /\ t.receipts[a].resultingLastEventHash = stream.head.lastEventHash
           /\ t.events = stream.events /\ t.head = stream.head
           /\ t.snapshots = stream.snapshots
<1>. DEFINE r == BuildRejection(stream.head, a, record)
<1>1. /\ r.appendId = a /\ r.kind = "rejection"
      /\ r.fencingToken = stream.head.fencingToken
  BY DEF BuildRejection
<1>2. a \notin DOMAIN stream.receipts
  BY <1>1 DEF MayReject
<1>. HIDE DEF r
<1>3. /\ t.receipts = Put(stream.receipts, a, RejectionReceipt(stream, r))
      /\ t.events = stream.events /\ t.head = stream.head
      /\ t.snapshots = stream.snapshots
  BY <1>1, OtherStepsKeepEvents DEF r
<1>4. /\ DOMAIN t.receipts = DOMAIN stream.receipts \cup {a}
      /\ t.receipts[a] = RejectionReceipt(stream, r)
      /\ \A x \in DOMAIN stream.receipts : t.receipts[x] = stream.receipts[x]
  BY <1>2, <1>3 DEF Put
<1>. QED
  BY <1>1, <1>2, <1>3, <1>4 DEF RejectionReceipt

\* The types of what a receipt says, for the arithmetic on intervals.
LEMMA ReceiptType ==
    ASSUME StreamType(stream), NEW a \in DOMAIN stream.receipts
    PROVE  /\ a \in AppendIds
           /\ stream.receipts[a].revision \in Nat
           /\ stream.receipts[a].fromSequence \in Nat
           /\ stream.receipts[a].toSequence \in Nat
           /\ stream.receipts[a].request.fencingToken \in Nat
<1>1. a \in AppendIds /\ stream.receipts[a] \in Receipt
  BY DEF StreamType, IsMap
<1>2. stream.receipts[a].request \in AppendRequest \cup RejectionRequest
  BY <1>1 DEF Receipt
<1>. QED
  BY <1>1, <1>2 DEF Receipt, AppendRequest, RejectionRequest

-----------------------------------------------------------------------------
(* Intervals *)

\* A batch takes the interval behind the ledger; the intervals that were there
\* end before it.
LEMMA AppendTiles ==
    ASSUME StreamType(stream), LedgerContinuous(stream), ReceiptsTileLedger(stream),
           NEW a \in AppendIds, NEW b \in BatchIds, NEW ids \in IdBatches,
           MayAppend(stream, BuildAppend(stream.head, a, b, ids))
    PROVE  ReceiptsTileLedger(Appended(stream, BuildAppend(stream.head, a, b, ids)))
<1>. DEFINE s == stream
            t == Appended(s, BuildAppend(s.head, a, b, ids))
            base == s.head.lastSequence
            n == Len(ids)
<1>1. /\ base \in Nat /\ n \in Nat \ {0}
      /\ t.head.lastSequence = base + n
      /\ DOMAIN t.events = 1..(base + n)
      /\ \A m \in 1..base : t.events[m] = s.events[m]
  BY AppendedEvents
<1>2. /\ a \notin DOMAIN s.receipts
      /\ DOMAIN t.receipts = DOMAIN s.receipts \cup {a}
      /\ \A x \in DOMAIN s.receipts : t.receipts[x] = s.receipts[x]
      /\ t.receipts[a].request.kind = "append"
      /\ t.receipts[a].fromSequence = base + 1
      /\ t.receipts[a].toSequence = base + n + 1
      /\ t.receipts[a].resultingLastEventHash = t.head.lastEventHash
      /\ \A m \in (base + 1)..(base + n) : t.events[m].appendId = a
  BY AppendedReceipts
<1>3. t.head.lastEventHash = HashAt(t, base + n)
  BY <1>1, AppendLedger DEF LedgerContinuous
<1>4. DOMAIN s.events = 1..base
  BY DEF LedgerContinuous
<1>5. \A x \in DOMAIN s.receipts : s.receipts[x].fromSequence \in Nat
                                   /\ s.receipts[x].toSequence \in Nat
  BY ReceiptType
<1>. HIDE DEF t, base, n
<1>6. \A m \in 0..base : HashAt(t, m) = HashAt(s, m)
  BY <1>1 DEF HashAt
<1>7. Accepted(t) = Accepted(s) \cup {a}
  BY <1>2 DEF Accepted
<1>8. \A m \in 1..(base + n) : m \in 1..base \/ m \in (base + 1)..(base + n)
  BY <1>1
<1>9. \A m \in 1..base : s.events[m].appendId \in Accepted(s)
  BY <1>4 DEF ReceiptsTileLedger
<1>10. \A m \in DOMAIN t.events : t.events[m].appendId \in Accepted(t)
  BY <1>1, <1>2, <1>7, <1>8, <1>9
<1>11. ASSUME NEW x \in DOMAIN s.receipts
       PROVE  LET c == t.receipts[x]
              IN  /\ c.fromSequence \in 1..(t.head.lastSequence + 1)
                  /\ c.toSequence \in 1..(t.head.lastSequence + 1)
                  /\ c.resultingLastEventHash = HashAt(t, c.toSequence - 1)
                  /\ x \in Accepted(t) <=> c.fromSequence < c.toSequence
                  /\ c.fromSequence <= c.toSequence
                  /\ \A m \in DOMAIN t.events :
                        t.events[m].appendId = x <=> m \in c.fromSequence..(c.toSequence - 1)
  <2>. DEFINE c == s.receipts[x]
  <2>1. /\ c.fromSequence \in 1..(base + 1)
        /\ c.toSequence \in 1..(base + 1)
        /\ c.resultingLastEventHash = HashAt(s, c.toSequence - 1)
        /\ x \in Accepted(s) <=> c.fromSequence < c.toSequence
        /\ c.fromSequence <= c.toSequence
        /\ \A m \in 1..base :
              s.events[m].appendId = x <=> m \in c.fromSequence..(c.toSequence - 1)
    BY <1>4 DEF ReceiptsTileLedger, base
  <2>2. t.receipts[x] = c /\ x # a
    BY <1>2
  <2>. HIDE DEF c
  <2>3. c.toSequence - 1 \in 0..base
    BY <1>1, <2>1
  <2>4. ASSUME NEW m \in (base + 1)..(base + n)
        PROVE  t.events[m].appendId # x /\ m \notin c.fromSequence..(c.toSequence - 1)
    BY <1>1, <1>2, <2>1, <2>2
  <2>5. \A m \in 1..(base + n) :
           t.events[m].appendId = x <=> m \in c.fromSequence..(c.toSequence - 1)
    BY <1>1, <1>8, <2>1, <2>4
  <2>6. c.fromSequence \in 1..(base + n + 1) /\ c.toSequence \in 1..(base + n + 1)
    BY <1>1, <2>1
  <2>. QED
    BY <1>1, <1>6, <1>7, <2>1, <2>2, <2>3, <2>5, <2>6
<1>12. LET c == t.receipts[a]
       IN  /\ c.fromSequence \in 1..(t.head.lastSequence + 1)
           /\ c.toSequence \in 1..(t.head.lastSequence + 1)
           /\ c.resultingLastEventHash = HashAt(t, c.toSequence - 1)
           /\ a \in Accepted(t) <=> c.fromSequence < c.toSequence
           /\ c.fromSequence <= c.toSequence
           /\ \A m \in DOMAIN t.events :
                 t.events[m].appendId = a <=> m \in c.fromSequence..(c.toSequence - 1)
  <2>1. base + 1 \in 1..(base + n + 1) /\ base + n + 1 \in 1..(base + n + 1)
        /\ base + 1 < base + n + 1 /\ (base + n + 1) - 1 = base + n
    BY <1>1
  <2>2. ASSUME NEW m \in 1..base
        PROVE  t.events[m].appendId # a /\ m \notin (base + 1)..(base + n)
    <3>1. s.events[m].appendId \in DOMAIN s.receipts
      BY <1>9 DEF Accepted
    <3>. QED
      BY <1>1, <1>2, <3>1
  <2>3. \A m \in 1..(base + n) : t.events[m].appendId = a <=> m \in (base + 1)..(base + n)
    BY <1>2, <1>8, <2>2
  <2>. QED
    BY <1>1, <1>2, <1>3, <1>7, <2>1, <2>3
<1>13. ReceiptsTileLedger(t)
  BY <1>2, <1>10, <1>11, <1>12 DEF ReceiptsTileLedger
<1>. QED
  BY <1>13 DEF t

\* A rejected command is charged no event.
LEMMA RejectTiles ==
    ASSUME StreamType(stream), LedgerContinuous(stream), ReceiptsTileLedger(stream),
           NEW a \in AppendIds, NEW record \in CommandReceipts,
           MayReject(stream, BuildRejection(stream.head, a, record))
    PROVE  ReceiptsTileLedger(Rejected(stream, BuildRejection(stream.head, a, record)))
<1>. DEFINE s == stream
            t == Rejected(s, BuildRejection(s.head, a, record))
            base == s.head.lastSequence
<1>1. base \in Nat /\ DOMAIN s.events = 1..base
      /\ s.head.lastEventHash = HashAt(s, base)
  BY DEF StreamType, AuthorityHead, LedgerContinuous
<1>2. /\ a \notin DOMAIN s.receipts
      /\ DOMAIN t.receipts = DOMAIN s.receipts \cup {a}
      /\ \A x \in DOMAIN s.receipts : t.receipts[x] = s.receipts[x]
      /\ t.receipts[a].request.kind = "rejection"
      /\ t.receipts[a].fromSequence = base + 1
      /\ t.receipts[a].toSequence = base + 1
      /\ t.receipts[a].resultingLastEventHash = s.head.lastEventHash
      /\ t.events = s.events /\ t.head = s.head
  BY RejectedReceipts
<1>. HIDE DEF t
<1>3. Accepted(t) = Accepted(s)
  BY <1>2 DEF Accepted
<1>4. \A m : HashAt(t, m) = HashAt(s, m)
  BY <1>2 DEF HashAt
<1>5. \A m \in 1..base : s.events[m].appendId # a
  BY <1>1, <1>2 DEF ReceiptsTileLedger, Accepted
<1>6. a \notin Accepted(s)
  BY <1>2 DEF Accepted
<1>7. \A m \in 1..base : m \notin (base + 1)..((base + 1) - 1)
  BY <1>1
<1>8. base + 1 \in 1..(base + 1) /\ (base + 1) - 1 = base
  BY <1>1
<1>9. t.head.lastSequence = base /\ DOMAIN t.events = 1..base
  BY <1>1, <1>2
<1>. HIDE DEF base
<1>10. ASSUME NEW x \in DOMAIN t.receipts
       PROVE  LET c == t.receipts[x]
              IN  /\ c.fromSequence \in 1..(t.head.lastSequence + 1)
                  /\ c.toSequence \in 1..(t.head.lastSequence + 1)
                  /\ c.resultingLastEventHash = HashAt(t, c.toSequence - 1)
                  /\ x \in Accepted(t) <=> c.fromSequence < c.toSequence
                  /\ c.fromSequence <= c.toSequence
                  /\ \A m \in DOMAIN t.events :
                        t.events[m].appendId = x <=> m \in c.fromSequence..(c.toSequence - 1)
  <2>. DEFINE c == t.receipts[x]
  <2>1. CASE x = a
    <3>1. c.fromSequence = base + 1 /\ c.toSequence = base + 1
      BY <1>2, <2>1
    <3>2. c.toSequence - 1 = base /\ ~(c.fromSequence < c.toSequence)
          /\ c.fromSequence <= c.toSequence
      BY <1>1, <3>1
    <3>3. c.resultingLastEventHash = HashAt(t, c.toSequence - 1)
      BY <1>1, <1>2, <1>4, <2>1, <3>2
    <3>4. \A m \in 1..base : t.events[m].appendId # x /\ m \notin c.fromSequence..(c.toSequence - 1)
      BY <1>1, <1>2, <1>5, <2>1, <3>1, <3>2
    <3>. QED
      BY <1>3, <1>6, <1>8, <1>9, <2>1, <3>1, <3>2, <3>3, <3>4
  <2>2. CASE x # a
    <3>1. x \in DOMAIN s.receipts /\ t.receipts[x] = s.receipts[x]
      BY <1>2, <2>2
    <3>. QED
      BY <1>2, <1>3, <1>4, <3>1 DEF ReceiptsTileLedger
  <2>. QED
    BY <2>1, <2>2
<1>11. \A m \in DOMAIN t.events : t.events[m].appendId \in Accepted(t)
  BY <1>2, <1>3 DEF ReceiptsTileLedger
<1>12. ReceiptsTileLedger(t)
  BY <1>10, <1>11 DEF ReceiptsTileLedger
<1>. QED
  BY <1>12 DEF t

\* A step that keeps events, receipts and the end of the ledger keeps the
\* intervals.
LEMMA TilesFramed ==
    ASSUME NEW s, NEW t, ReceiptsTileLedger(s), t.events = s.events,
           t.receipts = s.receipts, t.head.lastSequence = s.head.lastSequence
    PROVE  ReceiptsTileLedger(t)
BY SMTT(40) DEF ReceiptsTileLedger, Accepted, HashAt

\* A stream without receipts and events is tiled.
LEMMA InitialTiles ==
    /\ ReceiptsTileLedger(Unborn) /\ \A g : ReceiptsTileLedger(Initialized(g))
    /\ RevisionsOrderBatches(Unborn) /\ \A g : RevisionsOrderBatches(Initialized(g))
    /\ FencesOrderBatches(Unborn) /\ \A g : FencesOrderBatches(Initialized(g))
BY SMTT(60) DEF ReceiptsTileLedger, RevisionsOrderBatches, FencesOrderBatches, Accepted, Unborn,
       Initialized, GenesisHead, EmptyMap

\* What AcquireWriterFence and SaveSnapshot leave alone.
LEMMA FenceOrSave ==
    ASSUME StreamType(stream),
           AcquireWriterFence \/ \E id \in SnapshotIds : SaveSnapshot(id)
    PROVE  /\ stream'.events = stream.events /\ stream'.receipts = stream.receipts
           /\ stream'.head.revision = stream.head.revision
           /\ stream'.head.lastSequence = stream.head.lastSequence
           /\ stream'.head.fencingToken \in Nat
           /\ stream'.head.fencingToken >= stream.head.fencingToken
<1>1. stream.head \in AuthorityHead /\ stream.head.fencingToken \in Nat
  BY DEF StreamType, AuthorityHead
<1>2. CASE AcquireWriterFence
  <2>. DEFINE h == stream.head
              r == [kind |-> "fence", expectedFencingToken |-> h.fencingToken]
  <2>1. stream' = Fenced(stream, r)
    BY <1>2 DEF AcquireWriterFence
  <2>2. /\ stream'.events = stream.events /\ stream'.receipts = stream.receipts
        /\ stream'.head = HeadFenced(h, h.fencingToken)
    BY <2>1, OtherStepsKeepEvents
  <2>. QED
    BY <1>1, <2>2, FenceKeepsHead
<1>3. ASSUME NEW id \in SnapshotIds, SaveSnapshot(id)
      PROVE  /\ stream'.events = stream.events /\ stream'.receipts = stream.receipts
             /\ stream'.head = stream.head
  BY <1>3, OtherStepsKeepEvents DEF SaveSnapshot
<1>. QED
  BY <1>1, <1>2, <1>3

\* Accepted receipts cut the ledger into the batches it was committed by, so a
\* receipt answers a retry with the interval that request was given, and with
\* no event of another request.
THEOREM ReceiptsCorrectness == Spec => []Receipts
<1>1. Init => Receipts
  BY InitialTiles DEF Init, Receipts
<1>2. TypeOK /\ Ledger /\ Receipts /\ [Next]_stream => Receipts'
  <2>. SUFFICES ASSUME TypeOK, Ledger, Receipts, [Next]_stream
                PROVE  Receipts'
    OBVIOUS
  <2>. USE DEF TypeOK, Ledger, Receipts
  <2>1. ASSUME NEW g \in Geneses, Initialize(g)
        PROVE  Receipts'
    BY <2>1, InitialTiles DEF Initialize
  <2>2. ASSUME NEW a \in AppendIds, NEW b \in BatchIds, NEW ids \in IdBatches,
               AppendEventBatch(a, b, ids)
        PROVE  Receipts'
    BY <2>2, AppendTiles DEF AppendEventBatch
  <2>3. ASSUME NEW a \in AppendIds, NEW record \in CommandReceipts,
               RecordRejectedCommand(a, record)
        PROVE  Receipts'
    BY <2>3, RejectTiles DEF RecordRejectedCommand
  <2>4. CASE AcquireWriterFence \/ \E id \in SnapshotIds : SaveSnapshot(id)
    BY <2>4, FenceOrSave, TilesFramed
  <2>5. CASE UNCHANGED stream
    BY <2>5
  <2>. QED
    BY <2>1, <2>2, <2>3, <2>4, <2>5 DEF Next
<1>. QED
  BY <1>1, <1>2, TypeCorrectness, LedgerCorrectness, PTL DEF Spec

-----------------------------------------------------------------------------
(* The order of the batches *)

\* The receipt of an append comes behind every accepted one: it ends after
\* their intervals, and begins where the ledger ended.
LEMMA AppendIsLast ==
    ASSUME StreamType(stream), LedgerContinuous(stream), ReceiptsTileLedger(stream),
           NEW a \in AppendIds, NEW b \in BatchIds, NEW ids \in IdBatches,
           MayAppend(stream, BuildAppend(stream.head, a, b, ids)),
           NEW t, t = Appended(stream, BuildAppend(stream.head, a, b, ids))
    PROVE  /\ Accepted(t) = Accepted(stream) \cup {a}
           /\ a \notin Accepted(stream)
           /\ \A c \in Accepted(stream) :
                 /\ t.receipts[c] = stream.receipts[c]
                 /\ t.receipts[c].toSequence <= t.receipts[a].fromSequence
                 /\ ~(t.receipts[a].toSequence <= t.receipts[c].fromSequence)
           /\ ~(t.receipts[a].toSequence <= t.receipts[a].fromSequence)
<1>. DEFINE s == stream
            base == s.head.lastSequence
            n == Len(ids)
<1>1. base \in Nat /\ n \in Nat \ {0}
  BY AppendedEvents
<1>2. /\ a \notin DOMAIN s.receipts
      /\ DOMAIN t.receipts = DOMAIN s.receipts \cup {a}
      /\ \A x \in DOMAIN s.receipts : t.receipts[x] = s.receipts[x]
      /\ t.receipts[a].request.kind = "append"
      /\ t.receipts[a].fromSequence = base + 1
      /\ t.receipts[a].toSequence = base + n + 1
  BY AppendedReceipts
<1>. HIDE DEF n
<1>3. Accepted(t) = Accepted(s) \cup {a} /\ a \notin Accepted(s)
  BY <1>2 DEF Accepted
<1>4. ASSUME NEW c \in Accepted(s)
      PROVE  /\ t.receipts[c] = s.receipts[c]
             /\ s.receipts[c].fromSequence \in 1..(base + 1)
             /\ s.receipts[c].toSequence \in 1..(base + 1)
  BY <1>2 DEF Accepted, ReceiptsTileLedger
<1>. HIDE DEF base
<1>. QED
  BY <1>1, <1>2, <1>3, <1>4

\* Revisions count the accepted batches in ledger order, so a receipt's
\* revision says how many batches had been committed when it was given.
THEOREM RevisionsCorrectness == Spec => []Revisions
<1>1. Init => Revisions
  BY InitialTiles DEF Init, Revisions
<1>2. TypeOK /\ Ledger /\ Receipts /\ Revisions /\ [Next]_stream => Revisions'
  <2>. SUFFICES ASSUME TypeOK, Ledger, Receipts, Revisions, [Next]_stream
                PROVE  Revisions'
    OBVIOUS
  <2>. USE DEF TypeOK, Ledger, Receipts, Revisions
  <2>1. ASSUME NEW g \in Geneses, Initialize(g)
        PROVE  Revisions'
    BY <2>1, InitialTiles DEF Initialize
  <2>2. ASSUME NEW a \in AppendIds, NEW b \in BatchIds, NEW ids \in IdBatches,
               AppendEventBatch(a, b, ids)
        PROVE  Revisions'
    <3>. DEFINE s == stream
                t == Appended(s, BuildAppend(s.head, a, b, ids))
                rev == s.head.revision
    <3>1. stream' = t /\ MayAppend(s, BuildAppend(s.head, a, b, ids))
      BY <2>2 DEF AppendEventBatch
    <3>2. rev \in Nat
      BY DEF StreamType, AuthorityHead
    <3>3. /\ DOMAIN t.receipts = DOMAIN s.receipts \cup {a}
          /\ \A x \in DOMAIN s.receipts : t.receipts[x] = s.receipts[x]
          /\ t.receipts[a].revision = rev + 1
          /\ t.head.revision = rev + 1
      BY <3>1, AppendedReceipts
    <3>4. /\ Accepted(t) = Accepted(s) \cup {a}
          /\ a \notin Accepted(s)
          /\ \A c \in Accepted(s) :
                /\ t.receipts[c] = s.receipts[c]
                /\ t.receipts[c].toSequence <= t.receipts[a].fromSequence
                /\ ~(t.receipts[a].toSequence <= t.receipts[c].fromSequence)
          /\ ~(t.receipts[a].toSequence <= t.receipts[a].fromSequence)
      BY <3>1, AppendIsLast
    <3>5. /\ \A v \in 1..rev : \E c \in Accepted(s) : s.receipts[c].revision = v
          /\ \A c \in DOMAIN s.receipts : s.receipts[c].revision \in 0..rev
          /\ \A c, d \in Accepted(s) :
                s.receipts[c].revision < s.receipts[d].revision
                   <=> s.receipts[c].toSequence <= s.receipts[d].fromSequence
      BY DEF RevisionsOrderBatches
    <3>6. \A c \in Accepted(s) : c \in DOMAIN s.receipts
      BY DEF Accepted
    <3>. HIDE DEF t, rev
    <3>7. ASSUME NEW v \in 1..(rev + 1)
          PROVE  \E c \in Accepted(t) : t.receipts[c].revision = v
      <4>1. CASE v \in 1..rev
        BY <3>4, <3>5, <4>1
      <4>2. CASE v = rev + 1
        BY <3>3, <3>4, <4>2
      <4>. QED
        BY <3>2, <4>1, <4>2
    <3>8. \A c \in DOMAIN t.receipts : t.receipts[c].revision \in 0..(rev + 1)
      BY <3>2, <3>3, <3>5
    <3>9. ASSUME NEW c \in Accepted(t), NEW d \in Accepted(t)
          PROVE  t.receipts[c].revision < t.receipts[d].revision
                    <=> t.receipts[c].toSequence <= t.receipts[d].fromSequence
      <4>1. \A x \in Accepted(s) : t.receipts[x].revision \in 0..rev
        BY <3>3, <3>5, <3>6
      <4>2. CASE c = a /\ d = a
        BY <3>2, <3>3, <3>4, <4>2
      <4>3. CASE c = a /\ d \in Accepted(s)
        BY <3>2, <3>3, <3>4, <4>1, <4>3
      <4>4. CASE c \in Accepted(s) /\ d = a
        BY <3>2, <3>3, <3>4, <4>1, <4>4
      <4>5. CASE c \in Accepted(s) /\ d \in Accepted(s)
        BY <3>4, <3>5, <4>5
      <4>. QED
        BY <3>4, <4>2, <4>3, <4>4, <4>5
    <3>10. RevisionsOrderBatches(t)
      BY <3>3, <3>7, <3>8, <3>9 DEF RevisionsOrderBatches
    <3>. QED
      BY <3>1, <3>10
  <2>3. ASSUME NEW a \in AppendIds, NEW record \in CommandReceipts,
               RecordRejectedCommand(a, record)
        PROVE  Revisions'
    <3>. DEFINE s == stream
                t == Rejected(s, BuildRejection(s.head, a, record))
    <3>1. stream' = t /\ MayReject(s, BuildRejection(s.head, a, record))
      BY <2>3 DEF RecordRejectedCommand
    <3>2. s.head.revision \in Nat
      BY DEF StreamType, AuthorityHead
    <3>3. /\ a \notin DOMAIN s.receipts
          /\ DOMAIN t.receipts = DOMAIN s.receipts \cup {a}
          /\ \A x \in DOMAIN s.receipts : t.receipts[x] = s.receipts[x]
          /\ t.receipts[a].request.kind = "rejection"
          /\ t.receipts[a].revision = s.head.revision
          /\ t.head = s.head
      BY <3>1, RejectedReceipts
    <3>. HIDE DEF t
    <3>4. Accepted(t) = Accepted(s) /\ \A c \in Accepted(s) : t.receipts[c] = s.receipts[c]
      BY <3>3 DEF Accepted
    <3>5. RevisionsOrderBatches(t)
      BY <3>2, <3>3, <3>4 DEF RevisionsOrderBatches
    <3>. QED
      BY <3>1, <3>5
  <2>4. CASE AcquireWriterFence \/ \E id \in SnapshotIds : SaveSnapshot(id)
    BY <2>4, FenceOrSave DEF RevisionsOrderBatches, Accepted
  <2>5. CASE UNCHANGED stream
    BY <2>5
  <2>. QED
    BY <2>1, <2>2, <2>3, <2>4, <2>5 DEF Next
<1>. QED
  BY <1>1, <1>2, TypeCorrectness, LedgerCorrectness, ReceiptsCorrectness, PTL DEF Spec

\* Writers take turns: along the ledger the fencing tokens never go back, so a
\* batch of a writer that was fenced off is never behind one of its successor.
THEOREM FencesCorrectness == Spec => []Fences
<1>1. Init => Fences
  BY InitialTiles DEF Init, Fences
<1>2. TypeOK /\ Ledger /\ Receipts /\ Fences /\ [Next]_stream => Fences'
  <2>. SUFFICES ASSUME TypeOK, Ledger, Receipts, Fences, [Next]_stream
                PROVE  Fences'
    OBVIOUS
  <2>. USE DEF TypeOK, Ledger, Receipts, Fences
  <2>1. /\ stream.head.fencingToken \in Nat
        /\ \A c \in DOMAIN stream.receipts :
              /\ stream.receipts[c].request.fencingToken \in Nat
              /\ stream.receipts[c].request.fencingToken <= stream.head.fencingToken
        /\ \A c \in Accepted(stream) : c \in DOMAIN stream.receipts
    BY ReceiptType DEF StreamType, AuthorityHead, FencesOrderBatches, Accepted
  <2>2. ASSUME NEW g \in Geneses, Initialize(g)
        PROVE  Fences'
    BY <2>2, InitialTiles DEF Initialize
  <2>3. ASSUME NEW a \in AppendIds, NEW b \in BatchIds, NEW ids \in IdBatches,
               AppendEventBatch(a, b, ids)
        PROVE  Fences'
    <3>. DEFINE s == stream
                t == Appended(s, BuildAppend(s.head, a, b, ids))
                token == s.head.fencingToken
    <3>1. stream' = t /\ MayAppend(s, BuildAppend(s.head, a, b, ids))
      BY <2>3 DEF AppendEventBatch
    <3>2. /\ DOMAIN t.receipts = DOMAIN s.receipts \cup {a}
          /\ \A x \in DOMAIN s.receipts : t.receipts[x] = s.receipts[x]
          /\ t.receipts[a].request.fencingToken = token
          /\ t.head.fencingToken = token
      BY <3>1, AppendedReceipts
    <3>3. /\ Accepted(t) = Accepted(s) \cup {a}
          /\ \A c \in Accepted(s) :
                /\ t.receipts[c] = s.receipts[c]
                /\ ~(t.receipts[a].toSequence <= t.receipts[c].fromSequence)
      BY <3>1, AppendIsLast
    <3>. HIDE DEF t
    <3>4. \A c \in DOMAIN t.receipts : t.receipts[c].request.fencingToken <= token
      BY <2>1, <3>2
    <3>5. ASSUME NEW c \in Accepted(t), NEW d \in Accepted(t),
                 t.receipts[c].toSequence <= t.receipts[d].fromSequence
          PROVE  t.receipts[c].request.fencingToken <= t.receipts[d].request.fencingToken
      <4>1. CASE d = a
        BY <2>1, <3>2, <3>3, <4>1
      <4>2. CASE d \in Accepted(s)
        BY <3>3, <3>5, <4>2 DEF FencesOrderBatches
      <4>. QED
        BY <3>3, <4>1, <4>2
    <3>6. FencesOrderBatches(t)
      BY <3>2, <3>4, <3>5 DEF FencesOrderBatches
    <3>. QED
      BY <3>1, <3>6
  <2>4. ASSUME NEW a \in AppendIds, NEW record \in CommandReceipts,
               RecordRejectedCommand(a, record)
        PROVE  Fences'
    <3>. DEFINE s == stream
                t == Rejected(s, BuildRejection(s.head, a, record))
    <3>1. stream' = t /\ MayReject(s, BuildRejection(s.head, a, record))
      BY <2>4 DEF RecordRejectedCommand
    <3>2. /\ a \notin DOMAIN s.receipts
          /\ DOMAIN t.receipts = DOMAIN s.receipts \cup {a}
          /\ \A x \in DOMAIN s.receipts : t.receipts[x] = s.receipts[x]
          /\ t.receipts[a].request.kind = "rejection"
          /\ t.receipts[a].request.fencingToken = s.head.fencingToken
          /\ t.head = s.head
      BY <3>1, RejectedReceipts
    <3>. HIDE DEF t
    <3>3. Accepted(t) = Accepted(s) /\ \A c \in Accepted(s) : t.receipts[c] = s.receipts[c]
      BY <3>2 DEF Accepted
    <3>4. FencesOrderBatches(t)
      BY <2>1, <3>2, <3>3 DEF FencesOrderBatches
    <3>. QED
      BY <3>1, <3>4
  <2>5. CASE AcquireWriterFence \/ \E id \in SnapshotIds : SaveSnapshot(id)
    <3>1. /\ stream'.receipts = stream.receipts
          /\ stream'.head.fencingToken \in Nat
          /\ stream'.head.fencingToken >= stream.head.fencingToken
      BY <2>5, FenceOrSave
    <3>. QED
      BY <2>1, <3>1 DEF FencesOrderBatches, Accepted
  <2>6. CASE UNCHANGED stream
    BY <2>6
  <2>. QED
    BY <2>2, <2>3, <2>4, <2>5, <2>6 DEF Next
<1>. QED
  BY <1>1, <1>2, TypeCorrectness, LedgerCorrectness, ReceiptsCorrectness, PTL DEF Spec

-----------------------------------------------------------------------------
(* Snapshots *)

\* A sequence and a revision at which a whole number of batches is committed.
AfterBatch(s, sequence, revision) ==
    \/ sequence = 0 /\ revision = 0
    \/ \E a \in Accepted(s) : /\ s.receipts[a].revision = revision
                              /\ s.receipts[a].toSequence = sequence + 1

\* What Snapshots needs to be inductive: the head, of which a snapshot is taken,
\* always stands after a whole batch.
HeadAfterBatch(s) == AfterBatch(s, s.head.lastSequence, s.head.revision)

SnapshotInv == SnapshotsReplay(stream) /\ HeadAfterBatch(stream)

\* A head that has not moved is where it was.
LEMMA HeadStays ==
    ASSUME NEW s, NEW t, HeadAfterBatch(s), Keeps(s.receipts, t.receipts),
           t.head.lastSequence = s.head.lastSequence, t.head.revision = s.head.revision
    PROVE  HeadAfterBatch(t)
<1>1. \A a \in Accepted(s) : a \in Accepted(t) /\ t.receipts[a] = s.receipts[a]
  BY DEF Accepted, Keeps
<1>. QED
  BY <1>1 DEF HeadAfterBatch, AfterBatch

\* What can be replayed from stays so when the ledger and the receipts grow.
LEMMA ReplayIsStable ==
    ASSUME NEW s, NEW t, SnapshotsReplay(s), t.snapshots = s.snapshots,
           s.head.lastSequence \in Nat, t.head.lastSequence \in Nat,
           t.head.lastSequence >= s.head.lastSequence,
           \A m \in 1..s.head.lastSequence : t.events[m] = s.events[m],
           Keeps(s.receipts, t.receipts)
    PROVE  SnapshotsReplay(t)
<1>1. Accepted(s) \subseteq Accepted(t)
      /\ \A a \in Accepted(s) : t.receipts[a] = s.receipts[a]
  BY DEF Accepted, Keeps
<1>2. \A m \in 0..s.head.lastSequence : HashAt(t, m) = HashAt(s, m) /\ TimeAt(t, m) = TimeAt(s, m)
  BY DEF HashAt, TimeAt
<1>3. ASSUME NEW id \in DOMAIN t.snapshots
      PROVE  LET p == t.snapshots[id]
             IN  /\ p.baseSequence \in 0..t.head.lastSequence
                 /\ p.lastEventHash = HashAt(t, p.baseSequence)
                 /\ p.simulationTime = TimeAt(t, p.baseSequence)
                 /\ AfterBatch(t, p.baseSequence, p.revision)
  <2>. DEFINE p == s.snapshots[id]
  <2>1. /\ p.baseSequence \in 0..s.head.lastSequence
        /\ p.lastEventHash = HashAt(s, p.baseSequence)
        /\ p.simulationTime = TimeAt(s, p.baseSequence)
        /\ AfterBatch(s, p.baseSequence, p.revision)
    BY DEF SnapshotsReplay, AfterBatch
  <2>2. AfterBatch(t, p.baseSequence, p.revision)
    BY <1>1, <2>1 DEF AfterBatch
  <2>3. p.baseSequence \in 0..t.head.lastSequence
    BY <2>1
  <2>. QED
    BY <1>2, <2>1, <2>2, <2>3
<1>. QED
  BY <1>3 DEF SnapshotsReplay, AfterBatch

\* Every snapshot is the stream as it was after a whole number of batches, so a
\* replay can start from any of them, whatever was committed since.
THEOREM SnapshotsCorrectness == Spec => []Snapshots
<1>1. Init => SnapshotInv
  BY DEF Init, Unborn, SnapshotInv, SnapshotsReplay, HeadAfterBatch, AfterBatch, GenesisHead,
         EmptyMap
<1>2. TypeOK /\ Ledger /\ SnapshotInv /\ [Next]_stream => SnapshotInv'
  <2>. SUFFICES ASSUME TypeOK, Ledger, SnapshotInv, [Next]_stream
                PROVE  SnapshotInv'
    OBVIOUS
  <2>. USE DEF TypeOK, Ledger
  <2>1. stream.head \in AuthorityHead /\ stream.head.lastSequence \in Nat
        /\ SnapshotsReplay(stream) /\ HeadAfterBatch(stream)
    BY DEF StreamType, AuthorityHead, SnapshotInv
  <2>2. ASSUME NEW g \in Geneses, Initialize(g)
        PROVE  SnapshotInv'
    <3>. DEFINE t == Initialized(g)
    <3>1. /\ t.head = GenesisHead /\ DOMAIN t.snapshots = {GenesisSnapshot}
          /\ t.snapshots[GenesisSnapshot] = SnapshotOf(GenesisHead)
      BY DEF Initialized, Put, EmptyMap
    <3>. HIDE DEF t
    <3>2. SnapshotsReplay(t) /\ HeadAfterBatch(t)
      BY <3>1 DEF SnapshotsReplay, HeadAfterBatch, AfterBatch, GenesisHead, SnapshotOf, HashAt, TimeAt
    <3>. QED
      BY <2>2, <3>2 DEF Initialize, SnapshotInv, t
  <2>3. ASSUME NEW a \in AppendIds, NEW b \in BatchIds, NEW ids \in IdBatches,
               AppendEventBatch(a, b, ids)
        PROVE  SnapshotInv'
    <3>. DEFINE s == stream
                t == Appended(s, BuildAppend(s.head, a, b, ids))
                base == s.head.lastSequence
                n == Len(ids)
    <3>1. stream' = t /\ MayAppend(s, BuildAppend(s.head, a, b, ids))
      BY <2>3 DEF AppendEventBatch
    <3>2. /\ n \in Nat \ {0}
          /\ t.head.lastSequence = base + n
          /\ \A m \in 1..base : t.events[m] = s.events[m]
      BY <3>1, AppendedEvents
    <3>3. /\ DOMAIN t.receipts = DOMAIN s.receipts \cup {a}
          /\ \A x \in DOMAIN s.receipts : t.receipts[x] = s.receipts[x]
          /\ t.receipts[a].request.kind = "append"
          /\ t.receipts[a].revision = s.head.revision + 1
          /\ t.receipts[a].toSequence = base + n + 1
          /\ t.head.revision = s.head.revision + 1
          /\ t.snapshots = s.snapshots
      BY <3>1, AppendedReceipts
    <3>. HIDE DEF t, n
    <3>4. Keeps(s.receipts, t.receipts)
      BY <3>3 DEF Keeps
    <3>5. SnapshotsReplay(t)
      BY <2>1, <3>2, <3>3, <3>4, ReplayIsStable
    <3>6. HeadAfterBatch(t)
      BY <3>2, <3>3 DEF HeadAfterBatch, AfterBatch, Accepted
    <3>. QED
      BY <3>1, <3>5, <3>6 DEF SnapshotInv
  <2>4. ASSUME NEW a \in AppendIds, NEW record \in CommandReceipts,
               RecordRejectedCommand(a, record)
        PROVE  SnapshotInv'
    <3>. DEFINE s == stream
                t == Rejected(s, BuildRejection(s.head, a, record))
    <3>1. stream' = t /\ MayReject(s, BuildRejection(s.head, a, record))
      BY <2>4 DEF RecordRejectedCommand
    <3>2. /\ a \notin DOMAIN s.receipts
          /\ DOMAIN t.receipts = DOMAIN s.receipts \cup {a}
          /\ \A x \in DOMAIN s.receipts : t.receipts[x] = s.receipts[x]
          /\ t.events = s.events /\ t.head = s.head /\ t.snapshots = s.snapshots
      BY <3>1, RejectedReceipts
    <3>. HIDE DEF t
    <3>3. Keeps(s.receipts, t.receipts)
      BY <3>2 DEF Keeps
    <3>. HIDE DEF s, TypeOK, Ledger
    <3>4. /\ t.head.lastSequence = s.head.lastSequence
          /\ t.head.lastSequence >= s.head.lastSequence
          /\ t.head.revision = s.head.revision
      BY <2>1, <3>2 DEF s
    <3>5. SnapshotsReplay(t)
      <4>1. /\ SnapshotsReplay(s) /\ t.snapshots = s.snapshots
            /\ s.head.lastSequence \in Nat /\ t.head.lastSequence \in Nat
            /\ \A m \in 1..s.head.lastSequence : t.events[m] = s.events[m]
        BY <2>1, <3>2, <3>4 DEF s
      <4>. QED
        BY <3>3, <3>4, <4>1, ReplayIsStable
    <3>6. HeadAfterBatch(t)
      <4>1. HeadAfterBatch(s)
        BY SMTT(60), <2>1 DEF s
      <4>. QED
        BY <3>3, <3>4, <4>1, HeadStays
    <3>. QED
      BY <3>1, <3>5, <3>6 DEF SnapshotInv
  <2>5. CASE AcquireWriterFence
    <3>1. /\ stream'.events = stream.events /\ stream'.receipts = stream.receipts
          /\ stream'.head.revision = stream.head.revision
          /\ stream'.head.lastSequence = stream.head.lastSequence
      BY <2>5, FenceOrSave
    <3>2. stream'.snapshots = stream.snapshots
      BY <2>5, OtherStepsKeepEvents DEF AcquireWriterFence
    <3>3. Keeps(stream.receipts, stream'.receipts)
      BY <3>1 DEF Keeps
    <3>4. HeadAfterBatch(stream')
      BY <2>1, <3>1, <3>3, HeadStays
    <3>5. SnapshotsReplay(stream')
      BY <2>1, <3>1, <3>2, <3>3, ReplayIsStable
    <3>. QED
      BY <3>4, <3>5 DEF SnapshotInv, SnapshotsReplay, HeadAfterBatch, AfterBatch, Accepted,
                        HashAt, TimeAt
  <2>6. ASSUME NEW id \in SnapshotIds, SaveSnapshot(id)
        PROVE  SnapshotInv'
    <3>. DEFINE s == stream
                t == Saved(s, BuildSnapshot(s.head, id))
    <3>1. stream' = t
      BY <2>6 DEF SaveSnapshot
    <3>2. /\ t.events = s.events /\ t.receipts = s.receipts /\ t.head = s.head
          /\ t.snapshots = Put(s.snapshots, id, SnapshotOf(s.head))
      BY OtherStepsKeepEvents DEF BuildSnapshot
    <3>. HIDE DEF t
    <3>3. /\ DOMAIN t.snapshots = DOMAIN s.snapshots \cup {id}
          /\ t.snapshots[id] = SnapshotOf(s.head)
          /\ \A x \in DOMAIN s.snapshots : x # id => t.snapshots[x] = s.snapshots[x]
      BY <3>2 DEF Put
    <3>4. /\ Accepted(t) = Accepted(s)
          /\ \A m : HashAt(t, m) = HashAt(s, m) /\ TimeAt(t, m) = TimeAt(s, m)
      BY <3>2 DEF Accepted, HashAt, TimeAt
    <3>5. ASSUME NEW x \in DOMAIN t.snapshots
          PROVE  LET p == t.snapshots[x]
                 IN  /\ p.baseSequence \in 0..t.head.lastSequence
                     /\ p.lastEventHash = HashAt(t, p.baseSequence)
                     /\ p.simulationTime = TimeAt(t, p.baseSequence)
                     /\ AfterBatch(t, p.baseSequence, p.revision)
      <4>1. CASE x = id
        <5>1. /\ s.head.lastEventHash = HashAt(s, s.head.lastSequence)
              /\ s.head.simulationTime = TimeAt(s, s.head.lastSequence)
          BY DEF LedgerContinuous
        <5>. QED
          BY <2>1, <3>2, <3>3, <3>4, <4>1, <5>1 DEF SnapshotOf, HeadAfterBatch, AfterBatch
      <4>2. CASE x # id
        <5>1. x \in DOMAIN s.snapshots /\ t.snapshots[x] = s.snapshots[x]
          BY <3>3, <4>2
        <5>. QED
          BY <2>1, <3>2, <3>4, <5>1 DEF SnapshotsReplay, AfterBatch
      <4>. QED
        BY <4>1, <4>2
    <3>6. SnapshotsReplay(t)
      BY <3>5 DEF SnapshotsReplay, AfterBatch
    <3>7. HeadAfterBatch(t)
      BY <2>1, <3>2, <3>4 DEF HeadAfterBatch, AfterBatch
    <3>. QED
      BY <3>1, <3>6, <3>7 DEF SnapshotInv
  <2>7. CASE UNCHANGED stream
    BY <2>7 DEF SnapshotInv
  <2>. QED
    BY <2>2, <2>3, <2>4, <2>5, <2>6, <2>7 DEF Next
<1>3. SnapshotInv => Snapshots
  BY DEF SnapshotInv, Snapshots
<1>. QED
  BY <1>1, <1>2, <1>3, TypeCorrectness, LedgerCorrectness, PTL DEF Spec

=============================================================================
