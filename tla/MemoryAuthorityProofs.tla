------------------------- MODULE MemoryAuthorityProofs -------------------------
(***************************************************************************)
(* What is proved of the in-memory adapter: its types for any number of    *)
(* overlapping calls, and that it is the atomic port as long as one call   *)
(* ends before the next one begins.                                        *)
(***************************************************************************)
EXTENDS MemoryAuthority, AuthorityRulesProofs

-----------------------------------------------------------------------------
(* Type correctness *)

\* The requests of the callers are those that are built from a head.
LEMMA CallersBuild == \A h : RequestsFrom(h) = BuiltFrom(h)
BY DEF RequestsFrom, BuiltFrom

IsCall(c) ==
    /\ c = [at |-> c.at, request |-> c.request, head |-> c.head]
    /\ c.at \in {"idle", "deciding", "committing"}
    /\ c.at = "idle" => c.request = NoRequest
    /\ c.at # "idle" => c.request \in Built
    /\ c.at = "committing" => c.request.kind # "snapshot"
    /\ c.head \in AuthorityHead

\* What TypeOK needs to be inductive: a request in hand was built from a head.
Calls ==
    /\ stores = [genesis |-> stores.genesis, head |-> stores.head, events |-> stores.events,
                 receipts |-> stores.receipts, snapshots |-> stores.snapshots]
    /\ stores.genesis \in Geneses \cup {NoGenesis}
    /\ stores.head \in AuthorityHead
    /\ commits \in 0..MaxCommits
    /\ call = [c \in Callers |-> call[c]] /\ \A c \in Callers : IsCall(call[c])
    /\ known \in [Callers -> AuthorityHead \cup {NoHead}]

\* The rows of the stores with the head a call copied.
LEMMA SeenRows ==
    ASSUME Calls, NEW c \in Callers
    PROVE  Seen(c) = [genesis |-> stores.genesis, head |-> call[c].head,
                      events |-> stores.events, receipts |-> stores.receipts,
                      snapshots |-> stores.snapshots]
BY DEF Seen, Calls

\* What a request leaves when it is applied to a copied head, whether or not
\* the head is still the one of the stores.
LEMMA ApplyType ==
    ASSUME NEW s, s.head \in AuthorityHead, NEW r \in Built, r.kind # "snapshot",
           s = [genesis |-> s.genesis, head |-> s.head, events |-> s.events,
                receipts |-> s.receipts, snapshots |-> s.snapshots]
    PROVE  LET t == Apply(s, r)
           IN  /\ t = [genesis |-> t.genesis, head |-> t.head, events |-> t.events,
                       receipts |-> t.receipts, snapshots |-> t.snapshots]
               /\ t.genesis = s.genesis
               /\ t.head \in AuthorityHead
<1>1. CASE r.kind = "fence"
  <2>1. PICK h \in AuthorityHead : r = [kind |-> "fence", expectedFencingToken |-> h.fencingToken]
    BY <1>1, BuiltByKind
  <2>2. HeadFenced(s.head, r.expectedFencingToken) \in AuthorityHead
    BY <2>1 DEF HeadFenced, AuthorityHead
  <2>. QED
    BY <1>1, <2>2 DEF Apply, Fenced
<1>2. CASE r.kind = "append"
  <2>1. PICK h \in AuthorityHead, a \in AppendIds, b \in BatchIds, ids \in IdBatches :
           r = BuildAppend(h, a, b, ids)
    BY <1>2, BuiltByKind
  <2>2. HeadAfter(s, r) \in AuthorityHead
    BY <2>1, HeadAfterType
  <2>. QED
    BY <1>2, <2>2 DEF Apply, Appended
<1>3. CASE r.kind = "rejection"
  BY <1>3 DEF Apply, Rejected
<1>. QED
  BY <1>1, <1>2, <1>3, BuiltByKind

\* In every reachable state the calls under way are well formed.
LEMMA CallsCorrectness == Spec => []Calls
<1>1. Init => Calls
  BY GenesisHeadType, MemoryAssumption DEF MemoryAssumption, Init, Calls, Unborn, NoCall, IsCall
<1>2. Calls /\ [Next]_vars => Calls'
  <2>. SUFFICES ASSUME Calls, [Next]_vars
                PROVE  Calls'
    OBVIOUS
  <2>1. CASE UNCHANGED vars
    BY <2>1 DEF vars, Calls
  <2>. SUFFICES ASSUME NEW c \in Callers,
                       \/ \E g \in Geneses : Initialize(c, g)
                       \/ LoadHead(c) \/ CopyHead(c) \/ AnswerFromReceipt(c) \/ Decide(c)
                       \/ Commit(c) \/ DecideSnapshot(c)
                PROVE  Calls'
    BY <2>1 DEF Next
  <2>2. IsCall(call[c]) /\ IsCall(NoCall) /\ MaxCommits \in Nat
    BY GenesisHeadType, MemoryAssumption DEF MemoryAssumption, Calls, IsCall, NoCall
  <2>3. ASSUME NEW d, IsCall(d), call' = [call EXCEPT ![c] = d]
        PROVE  call' = [u \in Callers |-> call'[u]] /\ \A u \in Callers : IsCall(call'[u])
    BY <2>3 DEF Calls, IsCall
  <2>4. ASSUME NEW t, Swap(t)
        PROVE  stores' = t /\ commits' \in 0..MaxCommits
    BY <2>2, <2>4 DEF Swap, Calls
  <2>5. ASSUME NEW g \in Geneses, Initialize(c, g)
        PROVE  Calls'
    BY <2>4, <2>5, GenesisHeadType DEF Initialize, Learn, Initialized, Calls
  <2>6. CASE LoadHead(c) \/ AnswerFromReceipt(c)
    BY <2>6 DEF LoadHead, AnswerFromReceipt, Learn, Calls
  <2>7. CASE CopyHead(c)
    <3>1. PICK r \in RequestsFrom(known[c]) :
             call' = [call EXCEPT ![c] = [at |-> "deciding", request |-> r, head |-> stores.head]]
      BY <2>7 DEF CopyHead
    <3>2. known[c] \in AuthorityHead
      BY <2>7 DEF CopyHead, Calls
    <3>3. r \in Built
      BY <3>1, <3>2, CallersBuild DEF Built
    <3>4. IsCall([at |-> "deciding", request |-> r, head |-> stores.head])
      BY <3>3 DEF IsCall, Calls
    <3>. QED
      BY <2>3, <2>7, <3>1, <3>4 DEF CopyHead, Calls
  <2>8. CASE Decide(c)
    <3>1. CASE Finish(c)
      BY <2>2, <2>3, <2>8, <3>1 DEF Decide, Finish, Calls
    <3>2. CASE call' = [call EXCEPT ![c].at = "committing"]
      <4>. DEFINE d == [at |-> "committing", request |-> call[c].request, head |-> call[c].head]
      <4>1. IsCall(d)
        BY <2>2, <2>8 DEF Decide, IsCall
      <4>2. call' = [call EXCEPT ![c] = [call[c] EXCEPT !.at = "committing"]]
        BY <3>2
      <4>3. [call[c] EXCEPT !.at = "committing"] = d
        BY <2>2 DEF IsCall
      <4>4. call' = [call EXCEPT ![c] = d]
        BY <4>2, <4>3
      <4>. QED
        BY <2>3, <2>8, <4>1, <4>4 DEF Decide, Calls
    <3>. QED
      BY <2>8, <3>1, <3>2 DEF Decide
  <2>9. CASE Commit(c)
    <3>. DEFINE r == call[c].request
                next == Apply(Seen(c), r)
                t == IF r.kind = "rejection" THEN [next EXCEPT !.head = stores.head] ELSE next
    <3>1. /\ r \in Built /\ r.kind # "snapshot"
          /\ Swap(t) /\ Finish(c) /\ (Learn(c, next.head) \/ UNCHANGED known)
      BY <2>2, <2>9 DEF Commit, IsCall
    <3>2. Seen(c).head \in AuthorityHead /\ Seen(c).genesis = stores.genesis
      BY <2>2, SeenRows DEF IsCall
    <3>3. /\ next = [genesis |-> next.genesis, head |-> next.head, events |-> next.events,
                     receipts |-> next.receipts, snapshots |-> next.snapshots]
          /\ next.genesis = stores.genesis
          /\ next.head \in AuthorityHead
      BY <3>1, <3>2, SeenRows, ApplyType
    <3>. HIDE DEF r, next
    <3>4. /\ t = [genesis |-> t.genesis, head |-> t.head, events |-> t.events,
                  receipts |-> t.receipts, snapshots |-> t.snapshots]
          /\ t.genesis = stores.genesis
          /\ t.head \in AuthorityHead
      BY <3>3 DEF Calls
    <3>. HIDE DEF t
    <3>5. known' \in [Callers -> AuthorityHead \cup {NoHead}]
      BY <3>1, <3>3 DEF Learn, Calls
    <3>6. stores' = t /\ commits' \in 0..MaxCommits
      BY <2>4, <3>1
    <3>7. call' = [u \in Callers |-> call'[u]] /\ \A u \in Callers : IsCall(call'[u])
      BY <2>2, <2>3, <3>1 DEF Finish
    <3>. QED
      BY <3>4, <3>5, <3>6, <3>7 DEF Calls
  <2>10. CASE DecideSnapshot(c)
    BY <2>2, <2>3, <2>4, <2>10 DEF DecideSnapshot, Finish, Saved, Calls
  <2>. QED
    BY <2>5, <2>6, <2>7, <2>8, <2>9, <2>10
<1>. QED
  BY <1>1, <1>2, PTL DEF Spec

\* The variables keep their types, however many calls overlap.
THEOREM MemoryTypeCorrectness == Spec => []TypeOK
<1>1. Calls => TypeOK
  BY BuiltIsRequest, MemoryAssumption DEF MemoryAssumption, Calls, IsCall, TypeOK
<1>. QED
  BY <1>1, CallsCorrectness, PTL

-----------------------------------------------------------------------------
(* Calls that do not overlap *)

\* At most one call is in progress.
Serial == \A c, d \in Callers : call[c].at # "idle" /\ call[d].at # "idle" => c = d

\* What a call knows while it is alone: its copied head is the head of the
\* stores, its receipt is not there, and what it decided is still accepted.
Alone ==
    \A c \in Callers :
        LET r == call[c].request
        IN  /\ known[c] # NoHead => Known(stores)
            /\ call[c].at # "idle" =>
                  /\ Known(stores)
                  /\ call[c].head = stores.head
                  /\ r.kind \in {"append", "rejection"} => r.appendId \notin DOMAIN stores.receipts
            /\ call[c].at = "committing" => May(stores, r)

\* A call that is alone decides by the rules of the port.
LEMMA DecidesAlone ==
    ASSUME Calls, Alone, NEW c \in Callers, call[c].at = "deciding",
           call[c].request.kind # "snapshot", ChecksOut(c)
    PROVE  May(stores, call[c].request)
<1>. DEFINE r == call[c].request
<1>1. r \in Built /\ Known(stores) /\ call[c].head = stores.head
      /\ (r.kind \in {"append", "rejection"} => r.appendId \notin DOMAIN stores.receipts)
  BY DEF Calls, IsCall, Alone
<1>2. Seen(c) = stores
  BY <1>1, SeenRows DEF Calls
<1>3. CASE r.kind = "append"
  <2>1. PICK h \in AuthorityHead, a \in AppendIds, b \in BatchIds, ids \in IdBatches :
           r = BuildAppend(h, a, b, ids)
    BY <1>1, <1>3, BuiltByKind
  <2>2. Len(r.events) \in 1..MaxEventsPerBatch
    BY <2>1, BuildEventsProperties, IdBatchLength DEF BuildAppend
  <2>. QED
    BY <1>1, <1>2, <1>3, <2>2 DEF ChecksOut, May, MayAppend
<1>4. CASE r.kind = "rejection"
  BY <1>1, <1>2, <1>4 DEF ChecksOut, May, MayReject
<1>5. CASE r.kind = "fence"
  BY <1>1, <1>2, <1>5 DEF ChecksOut, May
<1>. QED
  BY <1>1, <1>3, <1>4, <1>5, BuiltByKind

\* What a call that is alone swaps in is a call of the port on the stores.
LEMMA SwapsAlone ==
    ASSUME Calls, Alone, NEW c \in Callers,
           \/ \E g \in Geneses : Initialize(c, g)
           \/ Commit(c)
           \/ DecideSnapshot(c) /\ stores' # stores
    PROVE  \E r : PortCall(stores, r, stores')
<1>1. ASSUME NEW g \in Geneses, Initialize(c, g)
      PROVE  \E r : PortCall(stores, r, stores')
  <2>. DEFINE r == [kind |-> "genesis", genesis |-> g]
  <2>1. PortCall(stores, r, stores')
    BY <1>1 DEF Initialize, Swap, PortCall
  <2>. QED
    BY <2>1
<1>2. CASE Commit(c)
  <2>. DEFINE r == call[c].request
              next == Apply(Seen(c), r)
  <2>1. r \in Built /\ May(stores, r) /\ call[c].head = stores.head
    BY <1>2 DEF Commit, Calls, IsCall, Alone
  <2>2. Seen(c) = stores
    BY <2>1, SeenRows DEF Calls
  <2>3. stores' = IF r.kind = "rejection" THEN [next EXCEPT !.head = stores.head] ELSE next
    BY <1>2 DEF Commit, Swap
  <2>4. stores' = Apply(stores, r)
    <3>1. CASE r.kind = "rejection"
      BY <2>2, <2>3, <3>1 DEF Apply, Rejected, Calls
    <3>. QED
      BY SMTT(40), <2>2, <2>3, <3>1
  <2>. QED
    BY <2>1, <2>4, AcceptedIsPortCall
<1>3. CASE DecideSnapshot(c) /\ stores' # stores
  <2>. DEFINE r == call[c].request
  <2>1. r \in Built /\ call[c].head = stores.head /\ r.kind = "snapshot"
    BY <1>3 DEF DecideSnapshot, Calls, IsCall, Alone
  <2>2. Seen(c) = stores
    BY <2>1, SeenRows DEF Calls
  <2>3. MaySave(stores, r) /\ stores' = Saved(stores, r)
    BY <1>3, <2>2 DEF DecideSnapshot, Swap
  <2>4. May(stores, r) /\ Apply(stores, r) = stores'
    BY <2>1, <2>3 DEF May, Apply
  <2>. QED
    BY <2>1, <2>4, AcceptedIsPortCall
<1>. QED
  BY <1>1, <1>2, <1>3

\* As long as no two calls overlap, no call finds the head changed under it.
LEMMA AloneCorrectness == Spec /\ []Serial => []Alone
<1>1. Init => Alone
  BY DEF Init, Alone, NoCall
<1>2. Calls /\ Alone /\ Serial /\ [Next]_vars => Alone'
  <2>. SUFFICES ASSUME Calls, Alone, Serial, [Next]_vars
                PROVE  Alone'
    OBVIOUS
  <2>1. CASE UNCHANGED vars
    BY <2>1 DEF vars, Alone
  <2>. SUFFICES ASSUME NEW c \in Callers,
                       \/ \E g \in Geneses : Initialize(c, g)
                       \/ LoadHead(c) \/ CopyHead(c) \/ AnswerFromReceipt(c) \/ Decide(c)
                       \/ Commit(c) \/ DecideSnapshot(c)
                PROVE  Alone'
    BY <2>1 DEF Next
  <2>2. c \in DOMAIN call /\ c \in DOMAIN known /\ IsCall(call[c])
    BY DEF Calls
  <2>3. ASSUME stores' = stores, known' = known, Finish(c)
        PROVE  Alone'
    BY <2>2, <2>3 DEF Finish, NoCall, Alone, Calls
  <2>4. ASSUME Finish(c), call[c].at # "idle", Known(stores')
        PROVE  Alone'
    BY <2>2, <2>4 DEF Finish, NoCall, Alone, Serial, Calls
  <2>5. CASE \E g \in Geneses : Initialize(c, g)
    <3>1. /\ ~Known(stores) /\ Known(stores') /\ call' = call
      BY <2>5, RulesAssumption
      DEF RulesAssumption, Initialize, Swap, Initialized, Known
    <3>2. \A d \in Callers : call[d].at = "idle"
      BY <3>1 DEF Alone
    <3>. QED
      BY <3>1, <3>2 DEF Alone
  <2>6. CASE LoadHead(c)
    BY <2>6 DEF LoadHead, Alone
  <2>7. CASE CopyHead(c)
    <3>1. PICK r \in RequestsFrom(known[c]) :
             /\ r.kind \in {"append", "rejection"} => r.appendId \notin DOMAIN stores.receipts
             /\ call' = [call EXCEPT ![c] = [at |-> "deciding", request |-> r,
                                             head |-> stores.head]]
      BY <2>7 DEF CopyHead
    <3>. QED
      BY <2>2, <2>7, <3>1 DEF CopyHead, Alone, Calls
  <2>8. CASE AnswerFromReceipt(c)
    <3>1. Known(stores) /\ stores' = stores /\ call' = call
      BY <2>8 DEF AnswerFromReceipt, Alone
    <3>. QED
      BY <3>1 DEF Alone
  <2>9. CASE Decide(c)
    <3>1. CASE ChecksOut(c)
      <4>1. May(stores, call[c].request)
        BY <2>9, <3>1, DecidesAlone DEF Decide
      <4>2. /\ call' = [call EXCEPT ![c].at = "committing"]
            /\ stores' = stores /\ known' = known /\ call[c].at # "idle"
        BY <2>9, <3>1 DEF Decide
      <4>3. \A d \in Callers : /\ call'[d].request = call[d].request
                               /\ call'[d].head = call[d].head
                               /\ call'[d].at = IF d = c THEN "committing" ELSE call[d].at
        BY <2>2, <4>2 DEF IsCall, Calls
      <4>. QED
        BY <4>1, <4>2, <4>3 DEF Alone
    <3>2. CASE ~ChecksOut(c)
      BY <2>3, <2>9, <3>2 DEF Decide
    <3>. QED
      BY <3>1, <3>2
  <2>10. CASE Commit(c)
    <3>1. Known(stores) /\ call[c].request \in Built /\ call[c].request.kind # "snapshot"
      BY <2>2, <2>10 DEF Commit, Alone, IsCall
    <3>2. Seen(c).head \in AuthorityHead /\ Seen(c).genesis = stores.genesis
      BY <2>2, SeenRows DEF IsCall
    <3>. DEFINE next == Apply(Seen(c), call[c].request)
    <3>3. /\ next.genesis = stores.genesis
          /\ next = [genesis |-> next.genesis, head |-> next.head, events |-> next.events,
                     receipts |-> next.receipts, snapshots |-> next.snapshots]
      BY <3>1, <3>2, SeenRows, ApplyType
    <3>4. stores' = next \/ stores' = [next EXCEPT !.head = stores.head]
      BY <2>10 DEF Commit, Swap
    <3>. HIDE DEF next
    <3>5. stores'.genesis = stores.genesis
      BY <3>3, <3>4
    <3>. QED
      BY <2>4, <2>10, <3>1, <3>5 DEF Commit, Known
  <2>11. CASE DecideSnapshot(c)
    <3>1. Known(stores) /\ Known(stores')
      BY <2>11 DEF DecideSnapshot, Swap, Saved, Known, Alone, Calls
    <3>. QED
      BY <2>4, <2>11, <3>1 DEF DecideSnapshot
  <2>. QED
    BY <2>5, <2>6, <2>7, <2>8, <2>9, <2>10, <2>11
<1>. QED
  BY <1>1, <1>2, CallsCorrectness, PTL DEF Spec

-----------------------------------------------------------------------------
(* Without overlap the adapter is the atomic port *)

\* The rules of the port are those the adapter calls.
LEMMA PortRules ==
    /\ Port!Unborn = Unborn
    /\ \A g : Port!Initialized(g) = Initialized(g)
    /\ \A s : Port!Known(s) <=> Known(s)
    /\ \A h, a, b, ids : Port!BuildAppend(h, a, b, ids) = BuildAppend(h, a, b, ids)
    /\ \A h, a, record : Port!BuildRejection(h, a, record) = BuildRejection(h, a, record)
    /\ \A h, id : Port!BuildSnapshot(h, id) = BuildSnapshot(h, id)
    /\ \A s, r : /\ Port!MayFence(s, r) <=> MayFence(s, r)
                 /\ Port!MayReject(s, r) <=> MayReject(s, r)
                 /\ Port!MaySave(s, r) <=> MaySave(s, r)
    /\ \A s, r : Port!MayAppend(s, r) <=> MayAppend(s, r)
    /\ \A s, r : /\ Port!Fenced(s, r) = Fenced(s, r)
                 /\ Port!Rejected(s, r) = Rejected(s, r)
                 /\ Port!Saved(s, r) = Saved(s, r)
    /\ \A s, r : Port!Appended(s, r) = Appended(s, r)
    /\ Port!IdBatches = IdBatches
<1>1. Port!GenesisHead = GenesisHead /\ Port!EmptyMap = EmptyMap /\ Port!NoHash = NoHash
  BY DEF Port!GenesisHead, GenesisHead, Port!EmptyMap, EmptyMap, Port!NoHash, NoHash
<1>2. /\ \A h : Port!SnapshotOf(h) = SnapshotOf(h)
      /\ \A f, k, v : Port!Put(f, k, v) = Put(f, k, v)
      /\ \A e : Port!EventHash(e) = EventHash(e)
      /\ \A h, token : Port!HeadFenced(h, token) = HeadFenced(h, token)
      /\ \A s : Port!Known(s) <=> Known(s)
      /\ \A s, r : Port!AddressesHead(s, r) <=> AddressesHead(s, r)
  BY DEF Port!SnapshotOf, SnapshotOf, Port!Put, Put, Port!EventHash, EventHash,
         Port!HeadFenced, HeadFenced, Port!Known, Known, Port!AddressesHead, AddressesHead
<1>3. Port!Unborn = Unborn /\ \A g : Port!Initialized(g) = Initialized(g)
  BY <1>1, <1>2 DEF Port!Unborn, Unborn, Port!Initialized, Initialized
<1>4. \A h, a, ids : Port!BuildEvents(h, a, ids) = BuildEvents(h, a, ids)
  BY DEF Port!BuildEvents, BuildEvents
<1>5. /\ \A h, a, b, ids : Port!BuildAppend(h, a, b, ids) = BuildAppend(h, a, b, ids)
      /\ \A h, a, record : Port!BuildRejection(h, a, record) = BuildRejection(h, a, record)
      /\ \A h, id : Port!BuildSnapshot(h, id) = BuildSnapshot(h, id)
  BY <1>2, <1>4 DEF Port!BuildAppend, BuildAppend, Port!BuildRejection, BuildRejection,
                    Port!BuildSnapshot, BuildSnapshot
<1>6. \A s, r : /\ Port!MayFence(s, r) <=> MayFence(s, r)
                /\ Port!MayReject(s, r) <=> MayReject(s, r)
                /\ Port!MaySave(s, r) <=> MaySave(s, r)
  <2>1. \A S : Port!Cardinality(S) = Cardinality(S)
    BY DEF Port!Cardinality, Cardinality
  <2>. QED
    BY <1>2, <2>1 DEF Port!MayFence, MayFence, Port!MayReject, MayReject, Port!MaySave, MaySave,
                      Port!DescribesHead, DescribesHead
<1>7. \A s, r : Port!MayAppend(s, r) <=> MayAppend(s, r)
  <2>1. \A s, r, i : Port!Continues(s, r, i) <=> Continues(s, r, i)
    BY DEF Port!Continues, Continues, Port!EventHash, EventHash, Port!StoredEventIds,
           StoredEventIds, Port!BatchIdsBefore, BatchIdsBefore
  <2>. QED
    BY <1>2, <2>1 DEF Port!MayAppend, MayAppend, Port!BatchIdTaken, BatchIdTaken
<1>8. \A s, r : /\ Port!Fenced(s, r) = Fenced(s, r)
                /\ Port!Rejected(s, r) = Rejected(s, r)
                /\ Port!Saved(s, r) = Saved(s, r)
  BY <1>2 DEF Port!Fenced, Fenced, Port!Rejected, Rejected, Port!Saved, Saved,
              Port!RejectionReceipt, RejectionReceipt
<1>9. \A s, r : Port!Appended(s, r) = Appended(s, r)
  BY <1>2 DEF Port!Appended, Appended, Port!HeadAfter, HeadAfter, Port!WithEvents, WithEvents,
              Port!AppendReceipt, AppendReceipt
<1>10. Port!IdBatches = IdBatches
  BY DEF Port!IdBatches, IdBatches
<1>. QED
  BY <1>2, <1>3, <1>5, <1>6, <1>7, <1>8, <1>9, <1>10

\* A call of the port on the stores is a step of it.
LEMMA PortCallIsStep ==
    ASSUME NEW r, PortCall(stores, r, stores')
    PROVE  Port!Next
<1>. DEFINE s == stores
            t == stores'
<1>1. CASE r.kind = "genesis" /\ r.genesis \in Geneses /\ ~Known(s) /\ t = Initialized(r.genesis)
  <2>1. Port!Initialize(r.genesis)
    BY <1>1, PortRules DEF Port!Initialize
  <2>. QED
    BY <1>1, <2>1 DEF Port!Next
<1>2. CASE /\ r = [kind |-> "fence", expectedFencingToken |-> s.head.fencingToken]
           /\ MayFence(s, r) /\ t = Fenced(s, r)
  <2>1. Port!AcquireWriterFence
    BY <1>2, PortRules DEF Port!AcquireWriterFence
  <2>. QED
    BY <2>1 DEF Port!Next
<1>3. ASSUME NEW a \in AppendIds, NEW b \in BatchIds, NEW ids \in IdBatches,
             r = BuildAppend(s.head, a, b, ids), MayAppend(s, r), t = Appended(s, r)
      PROVE  Port!Next
  <2>1. Port!AppendEventBatch(a, b, ids)
    BY <1>3, PortRules DEF Port!AppendEventBatch
  <2>. QED
    BY <2>1, PortRules DEF Port!Next
<1>4. ASSUME NEW a \in AppendIds, NEW record \in CommandReceipts,
             r = BuildRejection(s.head, a, record), MayReject(s, r), t = Rejected(s, r)
      PROVE  Port!Next
  <2>1. Port!RecordRejectedCommand(a, record)
    BY <1>4, PortRules DEF Port!RecordRejectedCommand
  <2>. QED
    BY <2>1 DEF Port!Next
<1>5. ASSUME NEW id \in SnapshotIds,
             r = BuildSnapshot(s.head, id), MaySave(s, r), t = Saved(s, r)
      PROVE  Port!Next
  <2>1. Port!SaveSnapshot(id)
    BY <1>5, PortRules DEF Port!SaveSnapshot
  <2>. QED
    BY <2>1 DEF Port!Next
<1>. QED
  BY <1>1, <1>2, <1>3, <1>4, <1>5 DEF PortCall

\* Whatever the callers do, and whatever answers a fault hides from them: as
\* long as no two of their calls overlap, the in-memory adapter is the atomic
\* port.  (When two overlap it is not: the head a call copied may be stale
\* when it commits.)
THEOREM MemoryImplementsPort == Spec /\ []Serial => ImplementsPort
<1>1. Init => Port!Init
  BY PortRules DEF Init, Port!Init
<1>2. Calls /\ Alone /\ [Next]_vars => [Port!Next]_stores
  <2>. SUFFICES ASSUME Calls, Alone, [Next]_vars, stores' # stores
                PROVE  Port!Next
    OBVIOUS
  <2>1. PICK c \in Callers : \/ \E g \in Geneses : Initialize(c, g)
                             \/ Commit(c)
                             \/ DecideSnapshot(c) /\ stores' # stores
    BY DEF Next, vars, LoadHead, CopyHead, AnswerFromReceipt, Decide
  <2>. QED
    BY <2>1, SwapsAlone, PortCallIsStep
<1>. QED
  BY <1>1, <1>2, CallsCorrectness, AloneCorrectness, PTL DEF Spec, ImplementsPort, Port!Spec

\* With one caller no two calls overlap.
THEOREM OneCallerImplementsPort ==
    ASSUME \A c, d \in Callers : c = d
    PROVE  Spec => ImplementsPort
<1>1. Serial
  BY DEF Serial
<1>. QED
  BY <1>1, MemoryImplementsPort, PTL

=============================================================================
