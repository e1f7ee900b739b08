---------------------------- MODULE AuthorityRules ----------------------------
(***************************************************************************)
(* The rules of one authority stream: what a genesis, a writer fence, an   *)
(* event batch, a rejected command and a snapshot must satisfy to be       *)
(* committed, and the stream each of them leaves                           *)
(* (packages/persistence/src/versioned.ts, MemoryVersionedPersistence).    *)
(* The operators are pure: the modules that use them say when a check is   *)
(* made and when its result is stored, which is where the adapters differ. *)
(*                                                                         *)
(* One stream is modelled (every store of the code is keyed by the stream; *)
(* two streams share nothing).  A hash covers everything before it, so the *)
(* hash of an event is the sequence of links up to it, and the post-state  *)
(* hash, which the code chains in the same loop, is that sequence too.  A  *)
(* request fingerprint is the request.  The simulation time of an event    *)
(* and the earlier events it refers to belong to its id.                   *)
(***************************************************************************)
EXTENDS Integers, FiniteSets, Sequences

CONSTANTS
    Geneses,            \* the genesis requests callers may send for the stream
    NoGenesis,          \* the stream was never initialized
    GenesisSnapshot,    \* the id of the genesis snapshot
    AppendIds,          \* ids of batches and of rejected commands
    BatchIds,           \* batch ids
    EventIds,           \* event ids
    SnapshotIds,        \* ids of the snapshots that callers save
    CommandReceipts,    \* what a rejected command records
    TimeOf,             \* the simulation time of an event
    RefsOf,             \* causalParents and relatedEvents of an event
    MaxEventsPerBatch,  \* bounds.maximumEventsPerBatch (32)
    MaxSnapshots,       \* bounds.maximumSnapshots (64)
    MaxToken            \* Number.MAX_SAFE_INTEGER

ASSUME RulesAssumption ==
    /\ NoGenesis \notin Geneses
    /\ TimeOf \in [EventIds -> Nat]
    /\ RefsOf \in [EventIds -> SUBSET EventIds]
    /\ MaxEventsPerBatch \in Nat \ {0}
    /\ MaxSnapshots \in Nat \ {0}
    /\ MaxToken \in Nat \ {0}

-----------------------------------------------------------------------------
(* Records *)

Hash == Seq(EventIds \X AppendIds)
NoHash == <<>>                                  \* EMPTY_EVENT_HASH

Event == [sequence : Nat \ {0}, eventId : EventIds, appendId : AppendIds,
          previousEventHash : Hash]

EventHash(e) == Append(e.previousEventHash, <<e.eventId, e.appendId>>)

AuthorityHead == [revision : Nat, lastSequence : Nat, simulationTime : Nat,
                  lastEventHash : Hash, fencingToken : Nat]

GenesisHead == [revision |-> 0, lastSequence |-> 0, simulationTime |-> 0,
                lastEventHash |-> NoHash, fencingToken |-> 0]

\* What a snapshot says of the head it was taken at; the snapshot of a head.
Snapshot == [revision : Nat, baseSequence : Nat, simulationTime : Nat,
             lastEventHash : Hash]

\* Mutant: the base sequence is taken for the next one.
SnapshotOfNext(h) == [revision |-> h.revision, baseSequence |-> h.lastSequence + 1,
                      simulationTime |-> h.simulationTime,
                      lastEventHash |-> h.lastEventHash]
SnapshotOf(h) == [revision |-> h.revision, baseSequence |-> h.lastSequence,
                  simulationTime |-> h.simulationTime,
                  lastEventHash |-> h.lastEventHash]

AppendRequest ==
    [kind : {"append"}, appendId : AppendIds, batchId : BatchIds,
     expectedRevision : Nat, expectedLastSequence : Nat,
     expectedLastEventHash : Hash, fencingToken : Nat, events : Seq(Event)]
RejectionRequest ==
    [kind : {"rejection"}, appendId : AppendIds, expectedRevision : Nat,
     expectedLastSequence : Nat, expectedLastEventHash : Hash,
     fencingToken : Nat, commandReceipt : CommandReceipts]
SnapshotRequest ==
    [kind : {"snapshot"}, snapshotId : SnapshotIds \cup {GenesisSnapshot},
     snapshot : Snapshot, fencingToken : Nat]
FenceRequest == [kind : {"fence"}, expectedFencingToken : Nat]
Request == AppendRequest \cup RejectionRequest \cup SnapshotRequest \cup FenceRequest

Receipt == [request : AppendRequest \cup RejectionRequest, revision : Nat,
            fromSequence : Nat, toSequence : Nat, resultingLastEventHash : Hash]

-----------------------------------------------------------------------------
(* How callers build a request from the head they loaded. *)

\* The event ids of a batch, first to last.
IdBatches == UNION {[1..n -> EventIds] : n \in 1..MaxEventsPerBatch}

BuildEvents(h, a, ids) ==
    [i \in 1..Len(ids) |->
        [sequence |-> h.lastSequence + i, eventId |-> ids[i], appendId |-> a,
         previousEventHash |->
            h.lastEventHash \o [j \in 1..(i - 1) |-> <<ids[j], a>>]]]

BuildAppend(h, a, b, ids) ==
    [kind |-> "append", appendId |-> a, batchId |-> b,
     expectedRevision |-> h.revision, expectedLastSequence |-> h.lastSequence,
     expectedLastEventHash |-> h.lastEventHash, fencingToken |-> h.fencingToken,
     events |-> BuildEvents(h, a, ids)]

BuildRejection(h, a, record) ==
    [kind |-> "rejection", appendId |-> a, expectedRevision |-> h.revision,
     expectedLastSequence |-> h.lastSequence,
     expectedLastEventHash |-> h.lastEventHash, fencingToken |-> h.fencingToken,
     commandReceipt |-> record]

BuildSnapshot(h, id) ==
    [kind |-> "snapshot", snapshotId |-> id, snapshot |-> SnapshotOf(h),
     fencingToken |-> h.fencingToken]

-----------------------------------------------------------------------------
(* The stream *)

EmptyMap == [x \in {} |-> x]
Put(f, k, v) == [x \in DOMAIN f \cup {k} |-> IF x = k THEN v ELSE f[x]]

Unborn == [genesis |-> NoGenesis, head |-> GenesisHead, events |-> EmptyMap,
           receipts |-> EmptyMap, snapshots |-> EmptyMap]

Known(s) == s.genesis # NoGenesis

\* initialize: the head and the genesis snapshot of an empty stream.
Initialized(g) ==
    [genesis |-> g, head |-> GenesisHead, events |-> EmptyMap, receipts |-> EmptyMap,
     snapshots |-> Put(EmptyMap, GenesisSnapshot, SnapshotOf(GenesisHead))]

\* The same appendId with the same bytes is answered from the stored receipt.
IsRetry(s, r) ==
    /\ r.appendId \in DOMAIN s.receipts
    /\ s.receipts[r.appendId].request = r

AddressesHead(s, r) ==
    /\ r.fencingToken = s.head.fencingToken
    /\ r.expectedRevision = s.head.revision
    /\ r.expectedLastSequence = s.head.lastSequence
    /\ r.expectedLastEventHash = s.head.lastEventHash

StoredEventIds(s) == {s.events[n].eventId : n \in DOMAIN s.events}
BatchIdsBefore(r, i) == {r.events[j].eventId : j \in 1..(i - 1)}

\* Mutant: an event may refer to any event of its batch, also to a later one.
ContinuesUnordered(s, r, i) ==
    LET e == r.events[i]
        batch == BatchIdsBefore(r, Len(r.events) + 1)
    IN  /\ e.eventId \notin StoredEventIds(s) \cup BatchIdsBefore(r, i)
        /\ TimeOf[e.eventId] >= IF i = 1 THEN s.head.simulationTime
                                ELSE TimeOf[r.events[i - 1].eventId]
        /\ RefsOf[e.eventId] \subseteq StoredEventIds(s) \cup batch

\* The continuity loop over the events of a batch.
Continues(s, r, i) ==
    LET e == r.events[i]
        first == i = 1
        before == r.events[i - 1]
    IN  /\ e.appendId = r.appendId
        /\ e.sequence = s.head.lastSequence + i
        /\ e.previousEventHash = IF first THEN s.head.lastEventHash ELSE EventHash(before)
        /\ TimeOf[e.eventId] >= IF first THEN s.head.simulationTime
                                ELSE TimeOf[before.eventId]
        /\ e.sequence \notin DOMAIN s.events
        /\ e.eventId \notin StoredEventIds(s) \cup BatchIdsBefore(r, i)
        /\ RefsOf[e.eventId] \subseteq StoredEventIds(s) \cup BatchIdsBefore(r, i)

BatchIdTaken(s, r) ==
    \E a \in DOMAIN s.receipts : /\ s.receipts[a].request.kind = "append"
                                 /\ s.receipts[a].request.batchId = r.batchId

MayAppend(s, r) ==
    /\ Known(s)
    /\ Len(r.events) \in 1..MaxEventsPerBatch
    /\ r.appendId \notin DOMAIN s.receipts
    /\ ~BatchIdTaken(s, r)
    /\ AddressesHead(s, r)
    /\ \A i \in 1..Len(r.events) : Continues(s, r, i)

\* Mutants: the head counts one event per batch; it is rebuilt without its token.
HeadOneFurther(s, r) ==
    LET last == r.events[Len(r.events)]
    IN  [revision |-> s.head.revision + 1, lastSequence |-> s.head.lastSequence + 1,
         simulationTime |-> TimeOf[last.eventId],
         lastEventHash |-> EventHash(last), fencingToken |-> s.head.fencingToken]
HeadUnfenced(s, r) ==
    LET last == r.events[Len(r.events)]
    IN  [revision |-> s.head.revision + 1, lastSequence |-> last.sequence,
         simulationTime |-> TimeOf[last.eventId],
         lastEventHash |-> EventHash(last), fencingToken |-> 0]

\* The head an accepted batch leaves, computed from the head it was checked
\* against; the same for its receipt and for the events it adds.
HeadAfter(s, r) ==
    LET last == r.events[Len(r.events)]
    IN  [revision |-> s.head.revision + 1, lastSequence |-> last.sequence,
         simulationTime |-> TimeOf[last.eventId],
         lastEventHash |-> EventHash(last), fencingToken |-> s.head.fencingToken]

\* Mutant: the end of the interval is inclusive.
AppendReceiptInclusive(s, r) ==
    [request |-> r, revision |-> s.head.revision + 1,
     fromSequence |-> r.events[1].sequence,
     toSequence |-> r.events[Len(r.events)].sequence,
     resultingLastEventHash |-> EventHash(r.events[Len(r.events)])]

AppendReceipt(s, r) ==
    [request |-> r, revision |-> s.head.revision + 1,
     fromSequence |-> r.events[1].sequence,
     toSequence |-> r.events[Len(r.events)].sequence + 1,
     resultingLastEventHash |-> EventHash(r.events[Len(r.events)])]

WithEvents(events, r) ==
    LET base == r.expectedLastSequence
        fresh == (base + 1)..(base + Len(r.events))
    IN  [n \in DOMAIN events \cup fresh |->
            IF n \in fresh THEN r.events[n - base] ELSE events[n]]

Appended(s, r) ==
    [genesis |-> s.genesis, head |-> HeadAfter(s, r),
     events |-> WithEvents(s.events, r),
     receipts |-> Put(s.receipts, r.appendId, AppendReceipt(s, r)),
     snapshots |-> s.snapshots]

MayReject(s, r) ==
    /\ Known(s)
    /\ r.appendId \notin DOMAIN s.receipts
    /\ AddressesHead(s, r)

\* Mutant: the receipt holds the revision before the head's.
RejectionReceiptBefore(s, r) ==
    [request |-> r, revision |-> s.head.revision - 1,
     fromSequence |-> s.head.lastSequence + 1,
     toSequence |-> s.head.lastSequence + 1,
     resultingLastEventHash |-> s.head.lastEventHash]

RejectionReceipt(s, r) ==
    [request |-> r, revision |-> s.head.revision,
     fromSequence |-> s.head.lastSequence + 1,
     toSequence |-> s.head.lastSequence + 1,
     resultingLastEventHash |-> s.head.lastEventHash]

\* Mutant: a rejected command advances the revision.
RejectedAsRevision(s, r) ==
    [s EXCEPT !.receipts = Put(s.receipts, r.appendId, RejectionReceipt(s, r)),
              !.head.revision = @ + 1]

Rejected(s, r) ==
    [s EXCEPT !.receipts = Put(s.receipts, r.appendId, RejectionReceipt(s, r))]

MayFence(s, r) ==
    /\ Known(s)
    /\ r.expectedFencingToken = s.head.fencingToken
    /\ r.expectedFencingToken # MaxToken

HeadFenced(h, token) == [h EXCEPT !.fencingToken = token + 1]
Fenced(s, r) == [s EXCEPT !.head = HeadFenced(s.head, r.expectedFencingToken)]

\* A snapshot must describe the exact head; a saved id is answered again.
DescribesHead(s, r) ==
    /\ Known(s)
    /\ r.fencingToken = s.head.fencingToken
    /\ r.snapshot = SnapshotOf(s.head)
IsSavedSnapshot(s, r) ==
    /\ r.snapshotId \in DOMAIN s.snapshots
    /\ s.snapshots[r.snapshotId] = r.snapshot
\* Mutant: a snapshot id may be used again.
MaySaveAgain(s, r) ==
    /\ DescribesHead(s, r)
    /\ r.snapshotId \in DOMAIN s.snapshots \/ Cardinality(DOMAIN s.snapshots) < MaxSnapshots

MaySave(s, r) ==
    /\ DescribesHead(s, r)
    /\ r.snapshotId \notin DOMAIN s.snapshots
    /\ Cardinality(DOMAIN s.snapshots) < MaxSnapshots
Saved(s, r) ==
    [s EXCEPT !.snapshots = Put(s.snapshots, r.snapshotId, r.snapshot)]

-----------------------------------------------------------------------------
(* A call by its kind: refused, answered from what is stored, or committed. *)

May(s, r) == \/ r.kind = "append" /\ MayAppend(s, r)
             \/ r.kind = "rejection" /\ MayReject(s, r)
             \/ r.kind = "fence" /\ MayFence(s, r)
             \/ r.kind = "snapshot" /\ MaySave(s, r)

\* Mutant: a known appendId answers, whatever the bytes of the request.
AlreadyDoneById(s, r) ==
    /\ Known(s)
    /\ \/ r.kind \in {"append", "rejection"} /\ r.appendId \in DOMAIN s.receipts
       \/ r.kind = "snapshot" /\ DescribesHead(s, r) /\ IsSavedSnapshot(s, r)

AlreadyDone(s, r) ==
    /\ Known(s)
    /\ \/ r.kind \in {"append", "rejection"} /\ IsRetry(s, r)
       \/ r.kind = "snapshot" /\ DescribesHead(s, r) /\ IsSavedSnapshot(s, r)

Apply(s, r) == CASE r.kind = "append" -> Appended(s, r)
                 [] r.kind = "rejection" -> Rejected(s, r)
                 [] r.kind = "fence" -> Fenced(s, r)
                 [] r.kind = "snapshot" -> Saved(s, r)

-----------------------------------------------------------------------------
(* loadLatestSnapshot and getEventRange, which replay starts from. *)

LatestSnapshots(s) ==
    {id \in DOMAIN s.snapshots :
        \A other \in DOMAIN s.snapshots :
            \/ s.snapshots[id].baseSequence > s.snapshots[other].baseSequence
            \/ /\ s.snapshots[id].baseSequence = s.snapshots[other].baseSequence
               /\ s.snapshots[id].revision >= s.snapshots[other].revision}

=============================================================================
