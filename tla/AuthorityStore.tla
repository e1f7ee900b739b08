---------------------------- MODULE AuthorityStore ----------------------------
(***************************************************************************)
(* What the versioned persistence port promises: one authority stream on   *)
(* which every call takes effect at one instant, or not at all.  The       *)
(* adapters are judged against this module: BrowserAuthority implements it *)
(* and MemoryAuthority, when its calls overlap, does not.                  *)
(*                                                                         *)
(* A committed request describes the head it was checked against exactly,  *)
(* so the request of a commit is the one BuildAppend, BuildRejection or    *)
(* BuildSnapshot makes from that head.                                     *)
(***************************************************************************)
EXTENDS AuthorityRules

VARIABLE stream     \* the durable stream: genesis, head, events, receipts, snapshots

Init == stream = Unborn

Initialize(g) ==
    /\ ~Known(stream)
    /\ stream' = Initialized(g)

AcquireWriterFence ==
    LET r == [kind |-> "fence", expectedFencingToken |-> stream.head.fencingToken]
    IN  /\ MayFence(stream, r)
        /\ stream' = Fenced(stream, r)

AppendEventBatch(a, b, ids) ==
    LET r == BuildAppend(stream.head, a, b, ids)
    IN  /\ MayAppend(stream, r)
        /\ stream' = Appended(stream, r)

RecordRejectedCommand(a, record) ==
    LET r == BuildRejection(stream.head, a, record)
    IN  /\ MayReject(stream, r)
        /\ stream' = Rejected(stream, r)

SaveSnapshot(id) ==
    LET r == BuildSnapshot(stream.head, id)
    IN  /\ MaySave(stream, r)
        /\ stream' = Saved(stream, r)

Next ==
    \/ \E g \in Geneses : Initialize(g)
    \/ AcquireWriterFence
    \/ \E a \in AppendIds, b \in BatchIds, ids \in IdBatches : AppendEventBatch(a, b, ids)
    \/ \E a \in AppendIds, record \in CommandReceipts : RecordRejectedCommand(a, record)
    \/ \E id \in SnapshotIds : SaveSnapshot(id)

Spec == Init /\ [][Next]_stream

-----------------------------------------------------------------------------
(* Invariants *)

IsMap(f, keys, values) ==
    /\ f = [k \in DOMAIN f |-> f[k]]
    /\ DOMAIN f \subseteq keys
    /\ \A k \in DOMAIN f : f[k] \in values

\* The stream has the shape of the stores of the port: a head, events by
\* sequence, receipts by appendId and snapshots by id.
StreamType(s) ==
    /\ s = [genesis |-> s.genesis, head |-> s.head, events |-> s.events,
            receipts |-> s.receipts, snapshots |-> s.snapshots]
    /\ s.genesis \in Geneses \cup {NoGenesis}
    /\ s.head \in AuthorityHead
    /\ IsMap(s.events, Nat \ {0}, Event)
    /\ IsMap(s.receipts, AppendIds, Receipt)
    /\ IsMap(s.snapshots, SnapshotIds \cup {GenesisSnapshot}, Snapshot)

\* The stream is always one the stores can hold (initialize, append, reject,
\* fence and save keep the shape of their rows).
TypeOK == StreamType(stream)

\* The event hash and the simulation time of the stream after n events.
HashAt(s, n) == IF n = 0 THEN NoHash ELSE EventHash(s.events[n])
TimeAt(s, n) == IF n = 0 THEN 0 ELSE TimeOf[s.events[n].eventId]

Accepted(s) == {a \in DOMAIN s.receipts : s.receipts[a].request.kind = "append"}

\* The events are numbered 1..lastSequence without a gap, each one chains to
\* the event before it and is not earlier than it, and the head is the hash,
\* time and number of the last one.
LedgerContinuous(s) ==
    /\ DOMAIN s.events = 1..s.head.lastSequence
    /\ \A n \in DOMAIN s.events :
          /\ s.events[n].sequence = n
          /\ s.events[n].previousEventHash = HashAt(s, n - 1)
          /\ TimeOf[s.events[n].eventId] >= TimeAt(s, n - 1)
    /\ s.head.lastEventHash = HashAt(s, s.head.lastSequence)
    /\ s.head.simulationTime = TimeAt(s, s.head.lastSequence)

Ledger == LedgerContinuous(stream)

\* No event is recorded twice, and an event refers only to events before it.
CausesPrecede ==
    \A n \in DOMAIN stream.events :
        /\ \A m \in DOMAIN stream.events :
              stream.events[m].eventId = stream.events[n].eventId => m = n
        /\ \A ref \in RefsOf[stream.events[n].eventId] :
              \E m \in 1..(n - 1) : stream.events[m].eventId = ref

\* The accepted receipts cut the ledger into intervals: each event lies in the
\* interval of the one append it was committed by, the receipt holds the hash
\* its interval ends at, and a rejected receipt covers nothing.
ReceiptsTileLedger(s) ==
    /\ \A n \in DOMAIN s.events : s.events[n].appendId \in Accepted(s)
    /\ \A a \in DOMAIN s.receipts :
          LET c == s.receipts[a]
          IN  /\ c.fromSequence \in 1..(s.head.lastSequence + 1)
              /\ c.toSequence \in 1..(s.head.lastSequence + 1)
              /\ c.resultingLastEventHash = HashAt(s, c.toSequence - 1)
              /\ a \in Accepted(s) <=> c.fromSequence < c.toSequence
              /\ c.fromSequence <= c.toSequence
              /\ \A n \in DOMAIN s.events :
                    s.events[n].appendId = a <=> n \in c.fromSequence..(c.toSequence - 1)

Receipts == ReceiptsTileLedger(stream)

\* Revisions count the accepted batches one by one, in ledger order.
RevisionsOrderBatches(s) ==
    /\ \A v \in 1..s.head.revision : \E a \in Accepted(s) : s.receipts[a].revision = v
    /\ \A a \in DOMAIN s.receipts : s.receipts[a].revision \in 0..s.head.revision
    /\ \A a, c \in Accepted(s) :
          s.receipts[a].revision < s.receipts[c].revision
             <=> s.receipts[a].toSequence <= s.receipts[c].fromSequence

Revisions == RevisionsOrderBatches(stream)

\* Writers take turns: a batch that comes later in the ledger was never
\* committed under an earlier fencing token, and none under a future one.
FencesOrderBatches(s) ==
    /\ \A a \in DOMAIN s.receipts : s.receipts[a].request.fencingToken <= s.head.fencingToken
    /\ \A a, c \in Accepted(s) :
          s.receipts[a].toSequence <= s.receipts[c].fromSequence
             => s.receipts[a].request.fencingToken <= s.receipts[c].request.fencingToken

Fences == FencesOrderBatches(stream)

\* Every snapshot can be replayed from: it is the stream as it was after a
\* prefix of the ledger that ends with a whole batch.
SnapshotsReplay(s) ==
    \A id \in DOMAIN s.snapshots :
        LET p == s.snapshots[id]
        IN  /\ p.baseSequence \in 0..s.head.lastSequence
            /\ p.lastEventHash = HashAt(s, p.baseSequence)
            /\ p.simulationTime = TimeAt(s, p.baseSequence)
            /\ \/ p.baseSequence = 0 /\ p.revision = 0
               \/ \E a \in Accepted(s) : /\ s.receipts[a].revision = p.revision
                                         /\ s.receipts[a].toSequence = p.baseSequence + 1

Snapshots == SnapshotsReplay(stream)

-----------------------------------------------------------------------------
(* Action properties *)

Keeps(f, g) == \A k \in DOMAIN f : k \in DOMAIN g /\ g[k] = f[k]

\* What was committed stays as it was: no event, receipt or snapshot is ever
\* replaced or lost, the head never goes back and no token is granted twice.
KeepsHistory(s, t) ==
    /\ Keeps(s.events, t.events)
    /\ Keeps(s.receipts, t.receipts)
    /\ Keeps(s.snapshots, t.snapshots)
    /\ t.head.revision >= s.head.revision
    /\ t.head.fencingToken >= s.head.fencingToken

History == [][KeepsHistory(stream, stream')]_stream

=============================================================================
