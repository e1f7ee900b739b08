------------------------ MODULE BrowserAuthorityProofs ------------------------
(***************************************************************************)
(* What is proved of the IndexedDB adapter for any number of tabs, any     *)
(* ids and any bounds.                                                     *)
(***************************************************************************)
EXTENDS BrowserAuthority, AuthorityRulesProofs

-----------------------------------------------------------------------------
(* What a tab sends *)

\* The requests that some tab may make, from whatever head it was given.
Sent == GenesisRequests \cup UNION {RequestsFrom(h) : h \in AuthorityHead}

\* Any request that is not a genesis was built from a head.
LEMMA SentAreBuilt ==
    /\ Sent \subseteq Built \cup GenesisRequests
    /\ \A r \in Built : r.kind # "genesis"
    /\ \A r \in GenesisRequests : r.kind = "genesis" /\ r.genesis \in Geneses
<1>1. \A h : RequestsFrom(h) \subseteq BuiltFrom(h)
  BY BrowserAssumption DEF BrowserAssumption, RequestsFrom, BuiltFrom
<1>2. Sent \subseteq Built \cup GenesisRequests
  BY <1>1 DEF Sent, Built
<1>3. \A r \in Built : r.kind # "genesis"
  BY BuiltByKind
<1>. QED
  BY <1>2, <1>3 DEF GenesisRequests

\* What a tab sends is a request of the port.
LEMMA SentIsRequest == Sent \subseteq Request \cup GenesisRequests
BY SentAreBuilt, BuiltIsRequest

\* A tab that holds a head, or a request that was never answered, sends one of
\* these requests.
LEMMA RequestsAreSent ==
    ASSUME NEW t \in Tabs, view[t] \in AuthorityHead \cup {NoHead},
           lost[t] \in Sent \cup {NoRequest}
    PROVE  Requests(t) \subseteq Sent /\ GenesisRequests \subseteq Sent
BY BrowserAssumption DEF Requests, Sent, BrowserAssumption

\* A request that the in-memory port accepts on the stream that was read is a
\* call of the atomic port on that stream.
LEMMA CommitIsPortCall ==
    ASSUME NEW s, NEW r \in Sent, Commits(s, r)
    PROVE  PortCall(s, r, After(s, r))
<1>1. CASE r.kind = "genesis"
  BY <1>1, SentAreBuilt DEF Commits, After, PortCall
<1>2. CASE r.kind # "genesis"
  BY <1>2, SentAreBuilt, AcceptedIsPortCall DEF Commits, After
<1>. QED
  BY <1>1, <1>2

-----------------------------------------------------------------------------
(* Type correctness *)

\* Rows that some commit stored: a log within the bound and a stream.
IsRows(rows) ==
    /\ rows = [ops |-> rows.ops, stream |-> rows.stream]
    /\ rows.ops \in Seq(Request)
    /\ IsStream(rows.stream)

\* A call holds rows that it read, and past the validation a request that they
\* accept.
IsCall(c) ==
    /\ c = [phase |-> c.phase, request |-> c.request, bundle |-> c.bundle]
    /\ c.phase \in {"idle", "validating", "committed"}
    /\ IsRows(c.bundle)
    /\ c.phase = "idle" => c.request = NoRequest
    /\ c.phase # "idle" => c.request \in Sent
    /\ c.phase = "validating" => Len(c.bundle.ops) < MaxOps
    /\ c.phase = "committed" => Commits(c.bundle.stream, c.request)

\* What TypeOK needs to be inductive: every request in hand, or to be sent
\* again, was built from a head, and every bundle holds rows that were stored.
Calls ==
    /\ IsRows(db) /\ Len(db.ops) <= MaxOps
    /\ call = [t \in Tabs |-> call[t]] /\ \A t \in Tabs : IsCall(call[t])
    /\ view \in [Tabs -> AuthorityHead \cup {NoHead}]
    /\ lost \in [Tabs -> Sent \cup {NoRequest}]
    /\ granted \in [Tabs -> SUBSET (1..MaxToken)]

\* The rows of a new database, and the call of an idle tab.
LEMMA InitialRows == IsRows(EmptyRows) /\ Len(EmptyRows.ops) = 0 /\ IsCall(NoCall)
<1>1. IsStream(Unborn)
  BY GenesisHeadType, RulesAssumption DEF IsStream, Unborn, GenesisHead, RulesAssumption
<1>2. <<>> \in Seq(Request) /\ Len(<<>>) = 0
  BY EmptySeq
<1>3. IsRows(EmptyRows)
  BY <1>1, <1>2 DEF IsRows, EmptyRows
<1>. QED
  BY <1>2, <1>3 DEF IsCall, NoCall, EmptyRows

\* The rows that a commit stores.
Committed(rows, r) ==
    [ops |-> IF r.kind = "genesis" THEN <<>> ELSE Append(rows.ops, r),
     stream |-> After(rows.stream, r)]

\* They are a stream again, and their log is at most one operation longer.
LEMMA CommittedRows ==
    ASSUME NEW rows, IsRows(rows), Len(rows.ops) < MaxOps,
           NEW r \in Sent, Commits(rows.stream, r)
    PROVE  IsRows(Committed(rows, r)) /\ Len(Committed(rows, r).ops) <= MaxOps
<1>. DEFINE t == After(rows.stream, r)
            ops == IF r.kind = "genesis" THEN <<>> ELSE Append(rows.ops, r)
<1>1. IsStream(t)
  BY CommitIsPortCall, PortCallType DEF IsRows
<1>2. MaxOps \in Nat
  BY BrowserAssumption DEF BrowserAssumption
<1>3. ops \in Seq(Request) /\ Len(ops) <= MaxOps
  <2>1. CASE r.kind = "genesis"
    BY <1>2, <2>1, EmptySeq
  <2>2. CASE r.kind # "genesis"
    <3>1. r \in Request
      BY <2>2, SentIsRequest DEF GenesisRequests
    <3>2. rows.ops \in Seq(Request) /\ Len(rows.ops) \in Nat
      BY LenProperties DEF IsRows
    <3>3. Append(rows.ops, r) \in Seq(Request) /\ Len(Append(rows.ops, r)) = Len(rows.ops) + 1
      BY <3>1, <3>2, AppendProperties
    <3>. QED
      BY <1>2, <2>2, <3>2, <3>3
  <2>. QED
    BY <2>1, <2>2
<1>. HIDE DEF t, ops
<1>4. Committed(rows, r) = [ops |-> ops, stream |-> t]
  BY DEF Committed, t, ops
<1>. QED
  BY <1>1, <1>3, <1>4 DEF IsRows

\* The head a call returns, and the token of a fence.
LEMMA AnswerType ==
    ASSUME NEW c, IsCall(c), c.phase = "committed"
    PROVE  LET head == After(c.bundle.stream, c.request).head
           IN  /\ head \in AuthorityHead
               /\ c.request.kind = "fence" => head.fencingToken \in 1..MaxToken
<1>. DEFINE s == c.bundle.stream
            t == After(s, c.request)
<1>1. c.request \in Sent /\ IsStream(s) /\ Commits(s, c.request)
  BY DEF IsCall, IsRows
<1>2. IsStream(t)
  BY <1>1, CommitIsPortCall, PortCallType
<1>3. CASE c.request.kind = "fence"
  <2>1. t = Fenced(s, c.request) /\ MayFence(s, c.request)
    BY <1>1, <1>3 DEF Commits, May, After, Apply
  <2>2. t.head = HeadFenced(s.head, s.head.fencingToken)
    BY <1>1, <2>1 DEF Fenced, MayFence, IsStream
  <2>3. t.head.fencingToken = s.head.fencingToken + 1
    BY <1>1, <2>2, FenceKeepsHead DEF IsStream
  <2>4. s.head.fencingToken \in Nat /\ MaxToken \in Nat
    BY <1>1, RulesAssumption DEF RulesAssumption, IsStream, AuthorityHead
  <2>5. t.head.fencingToken <= MaxToken
    BY <1>2 DEF IsStream
  <2>. HIDE DEF t, s
  <2>. QED
    BY <1>2, <2>3, <2>4, <2>5 DEF IsStream, t, s
<1>. QED
  BY <1>2, <1>3 DEF IsStream

\* A step that gives one tab another call keeps the calls of the others.
LEMMA OneCall ==
    ASSUME call = [t \in Tabs |-> call[t]], \A t \in Tabs : IsCall(call[t]),
           NEW t \in Tabs, NEW c, IsCall(c), call' = [call EXCEPT ![t] = c]
    PROVE  call' = [u \in Tabs |-> call'[u]] /\ \A u \in Tabs : IsCall(call'[u])
BY DEF IsCall

\* It holds whatever the tabs interleave, where they stop and what they send again.
LEMMA CallsCorrectness == Spec => []Calls
<1>1. Init => Calls
  BY InitialRows, BrowserAssumption DEF Init, Calls, BrowserAssumption
<1>2. Calls /\ [Next]_vars => Calls'
  <2>. SUFFICES ASSUME Calls, [Next]_vars
                PROVE  Calls'
    OBVIOUS
  <2>1. CASE UNCHANGED vars
    BY <2>1 DEF vars, Calls
  <2>. SUFFICES ASSUME NEW t \in Tabs,
                       \/ LoadHead(t) \/ ReadBundle(t) \/ AnswerFromBundle(t) \/ Refuse(t)
                       \/ Commit(t) \/ HeadRace(t) \/ AbortTransaction(t) \/ Resolve(t)
                       \/ CrashTab(t)
                PROVE  Calls'
    BY <2>1 DEF Next
  <2>2. /\ IsRows(db) /\ IsCall(call[t]) /\ IsCall(NoCall)
        /\ db.stream.head \in AuthorityHead
    BY InitialRows DEF Calls, IsRows, IsStream
  <2>3. ASSUME Finish(t), db' = db, lost' = lost, granted' = granted,
               view' = view \/ \E h \in AuthorityHead : view' = [view EXCEPT ![t] = h]
        PROVE  Calls'
    BY <2>2, <2>3, OneCall DEF Finish, Calls
  <2>4. CASE LoadHead(t)
    BY <2>2, <2>4 DEF LoadHead, Calls
  <2>5. CASE ReadBundle(t)
    <3>1. PICK r \in Requests(t) \cup GenesisRequests :
             call' = [call EXCEPT ![t] = [phase |-> "validating", request |-> r, bundle |-> db]]
      BY <2>5 DEF ReadBundle
    <3>2. r \in Sent
      BY RequestsAreSent DEF Calls
    <3>3. IsCall([phase |-> "validating", request |-> r, bundle |-> db])
      BY <2>2, <2>5, <3>2 DEF ReadBundle, IsCall
    <3>. QED
      BY <2>5, <3>1, <3>3, OneCall DEF ReadBundle, Calls
  <2>6. CASE AnswerFromBundle(t)
    <3>1. call[t].bundle.stream.head \in AuthorityHead
      BY <2>2 DEF IsCall, IsRows, IsStream
    <3>. QED
      BY <2>3, <2>6, <3>1 DEF AnswerFromBundle
  <2>7. CASE Refuse(t) \/ HeadRace(t) \/ AbortTransaction(t)
    BY <2>3, <2>7 DEF Refuse, HeadRace, AbortTransaction
  <2>8. CASE Commit(t)
    <3>. DEFINE c == call[t]
    <3>1. /\ c.phase = "validating" /\ c.request \in Sent
          /\ Commits(c.bundle.stream, c.request)
          /\ db' = Committed(c.bundle, c.request)
          /\ call' = [call EXCEPT ![t].phase = "committed"]
      BY <2>2, <2>8 DEF Commit, Validated, IsCall, Committed
    <3>2. IsRows(c.bundle) /\ Len(c.bundle.ops) < MaxOps
      BY <2>2, <3>1 DEF IsCall
    <3>3. IsRows(db') /\ Len(db'.ops) <= MaxOps
      BY <3>1, <3>2, CommittedRows
    <3>. DEFINE d == [phase |-> "committed", request |-> c.request, bundle |-> c.bundle]
    <3>4. IsCall(d)
      BY <3>1, <3>2 DEF IsCall
    <3>5. call' = [call EXCEPT ![t] = d]
      <4>1. call' = [call EXCEPT ![t] = [c EXCEPT !.phase = "committed"]]
        BY <3>1
      <4>2. c = [phase |-> c.phase, request |-> c.request, bundle |-> c.bundle]
        BY <2>2 DEF IsCall
      <4>3. [c EXCEPT !.phase = "committed"] = d
        BY <4>2
      <4>. QED
        BY <4>1, <4>3
    <3>6. call' = [u \in Tabs |-> call'[u]] /\ \A u \in Tabs : IsCall(call'[u])
      BY <3>4, <3>5, OneCall DEF Calls
    <3>. QED
      BY <2>8, <3>3, <3>6 DEF Commit, Calls
  <2>9. CASE Resolve(t)
    <3>. DEFINE head == After(call[t].bundle.stream, call[t].request).head
    <3>1. /\ head \in AuthorityHead
          /\ call[t].request.kind = "fence" => head.fencingToken \in 1..MaxToken
      BY <2>2, <2>9, AnswerType DEF Resolve
    <3>. HIDE DEF head
    <3>2. /\ Finish(t) /\ view' = [view EXCEPT ![t] = head] /\ db' = db /\ lost' = lost
          /\ granted' = IF call[t].request.kind = "fence"
                        THEN [granted EXCEPT ![t] = @ \cup {head.fencingToken}] ELSE granted
      BY <2>9 DEF Resolve, head
    <3>3. call' = [u \in Tabs |-> call'[u]] /\ \A u \in Tabs : IsCall(call'[u])
      BY <2>2, <3>2, OneCall DEF Finish, Calls
    <3>. QED
      BY <3>1, <3>2, <3>3 DEF Calls
  <2>10. CASE CrashTab(t)
    <3>1. call' = [u \in Tabs |-> call'[u]] /\ \A u \in Tabs : IsCall(call'[u])
      BY <2>2, <2>10, OneCall DEF CrashTab, Finish, Calls
    <3>2. call[t].request \in Sent
      BY <2>2, <2>10 DEF CrashTab, IsCall
    <3>. QED
      BY <2>10, <3>1, <3>2 DEF CrashTab, Calls
  <2>. QED
    BY <2>4, <2>5, <2>6, <2>7, <2>8, <2>9, <2>10
<1>. QED
  BY <1>1, <1>2, PTL DEF Spec

\* The variables keep their types, and no token beyond MaxToken is granted.
THEOREM BrowserTypeCorrectness == Spec => []TypeOK
<1>1. Calls => TypeOK
  BY ZenonT(60), SentIsRequest, BrowserAssumption
  DEF Calls, TypeOK, IsCall, IsRows, IsStream, BrowserAssumption
<1>. QED
  BY <1>1, CallsCorrectness, PTL

-----------------------------------------------------------------------------
(* The adapter implements the atomic port *)

\* The rules of the port are those the adapter calls.
LEMMA PortRules ==
    /\ Port!Unborn = Unborn
    /\ \A g : Port!Initialized(g) = Initialized(g)
    /\ \A s : Port!Known(s) <=> Known(s)
    /\ \A h, a, b, ids : Port!BuildAppend(h, a, b, ids) = BuildAppend(h, a, b, ids)
    /\ \A h, a, record : Port!BuildRejection(h, a, record) = BuildRejection(h, a, record)
    /\ \A h, id : Port!BuildSnapshot(h, id) = BuildSnapshot(h, id)
    /\ \A s, r : /\ Port!MayFence(s, r) <=> MayFence(s, r)
                 /\ Port!MayReject(s, r) <=> MayReject(s, r)
                 /\ Port!MaySave(s, r) <=> MaySave(s, r)
    /\ \A s, r : Port!MayAppend(s, r) <=> MayAppend(s, r)
    /\ \A s, r : /\ Port!Fenced(s, r) = Fenced(s, r)
                 /\ Port!Rejected(s, r) = Rejected(s, r)
                 /\ Port!Saved(s, r) = Saved(s, r)
    /\ \A s, r : Port!Appended(s, r) = Appended(s, r)
    /\ Port!IdBatches = IdBatches
<1>1. Port!GenesisHead = GenesisHead /\ Port!EmptyMap = EmptyMap /\ Port!NoHash = NoHash
  BY DEF Port!GenesisHead, GenesisHead, Port!EmptyMap, EmptyMap, Port!NoHash, NoHash
<1>2. /\ \A h : Port!SnapshotOf(h) = SnapshotOf(h)
      /\ \A f, k, v : Port!Put(f, k, v) = Put(f, k, v)
      /\ \A e : Port!EventHash(e) = EventHash(e)
      /\ \A h, token : Port!HeadFenced(h, token) = HeadFenced(h, token)
      /\ \A s : Port!Known(s) <=> Known(s)
      /\ \A s, r : Port!AddressesHead(s, r) <=> AddressesHead(s, r)
  BY DEF Port!SnapshotOf, SnapshotOf, Port!Put, Put, Port!EventHash, EventHash,
         Port!HeadFenced, HeadFenced, Port!Known, Known, Port!AddressesHead, AddressesHead
<1>3. Port!Unborn = Unborn /\ \A g : Port!Initialized(g) = Initialized(g)
  BY <1>1, <1>2 DEF Port!Unborn, Unborn, Port!Initialized, Initialized
<1>4. \A h, a, ids : Port!BuildEvents(h, a, ids) = BuildEvents(h, a, ids)
  BY DEF Port!BuildEvents, BuildEvents
<1>5. /\ \A h, a, b, ids : Port!BuildAppend(h, a, b, ids) = BuildAppend(h, a, b, ids)
      /\ \A h, a, record : Port!BuildRejection(h, a, record) = BuildRejection(h, a, record)
      /\ \A h, id : Port!BuildSnapshot(h, id) = BuildSnapshot(h, id)
  BY <1>2, <1>4 DEF Port!BuildAppend, BuildAppend, Port!BuildRejection, BuildRejection,
                    Port!BuildSnapshot, BuildSnapshot
<1>6. \A s, r : /\ Port!MayFence(s, r) <=> MayFence(s, r)
                /\ Port!MayReject(s, r) <=> MayReject(s, r)
                /\ Port!MaySave(s, r) <=> MaySave(s, r)
  <2>1. \A S : Port!Cardinality(S) = Cardinality(S)
    BY DEF Port!Cardinality, Cardinality
  <2>. QED
    BY <1>2, <2>1 DEF Port!MayFence, MayFence, Port!MayReject, MayReject, Port!MaySave, MaySave,
                      Port!DescribesHead, DescribesHead
<1>7. \A s, r : Port!MayAppend(s, r) <=> MayAppend(s, r)
  <2>1. \A s, r, i : Port!Continues(s, r, i) <=> Continues(s, r, i)
    BY DEF Port!Continues, Continues, Port!EventHash, EventHash, Port!StoredEventIds,
           StoredEventIds, Port!BatchIdsBefore, BatchIdsBefore
  <2>. QED
    BY <1>2, <2>1 DEF Port!MayAppend, MayAppend, Port!BatchIdTaken, BatchIdTaken
<1>8. \A s, r : /\ Port!Fenced(s, r) = Fenced(s, r)
                /\ Port!Rejected(s, r) = Rejected(s, r)
                /\ Port!Saved(s, r) = Saved(s, r)
  BY <1>2 DEF Port!Fenced, Fenced, Port!Rejected, Rejected, Port!Saved, Saved,
              Port!RejectionReceipt, RejectionReceipt
<1>9. \A s, r : Port!Appended(s, r) = Appended(s, r)
  BY <1>2 DEF Port!Appended, Appended, Port!HeadAfter, HeadAfter, Port!WithEvents, WithEvents,
              Port!AppendReceipt, AppendReceipt
<1>10. Port!IdBatches = IdBatches
  BY DEF Port!IdBatches, IdBatches
<1>. QED
  BY <1>2, <1>3, <1>5, <1>6, <1>7, <1>8, <1>9, <1>10

\* A call of the port on the stored stream is a step of it.
LEMMA PortCallIsStep ==
    ASSUME NEW r, PortCall(db.stream, r, db'.stream)
    PROVE  Port!Next
<1>. DEFINE s == db.stream
            t == db'.stream
<1>1. CASE r.kind = "genesis" /\ r.genesis \in Geneses /\ ~Known(s) /\ t = Initialized(r.genesis)
  <2>1. Port!Initialize(r.genesis)
    BY <1>1, PortRules DEF Port!Initialize
  <2>. QED
    BY <1>1, <2>1 DEF Port!Next
<1>2. CASE /\ r = [kind |-> "fence", expectedFencingToken |-> s.head.fencingToken]
           /\ MayFence(s, r) /\ t = Fenced(s, r)
  <2>1. Port!AcquireWriterFence
    BY <1>2, PortRules DEF Port!AcquireWriterFence
  <2>. QED
    BY <2>1 DEF Port!Next
<1>3. ASSUME NEW a \in AppendIds, NEW b \in BatchIds, NEW ids \in IdBatches,
             r = BuildAppend(s.head, a, b, ids), MayAppend(s, r), t = Appended(s, r)
      PROVE  Port!Next
  <2>1. Port!AppendEventBatch(a, b, ids)
    BY <1>3, PortRules DEF Port!AppendEventBatch
  <2>. QED
    BY <2>1, PortRules DEF Port!Next
<1>4. ASSUME NEW a \in AppendIds, NEW record \in CommandReceipts,
             r = BuildRejection(s.head, a, record), MayReject(s, r), t = Rejected(s, r)
      PROVE  Port!Next
  <2>1. Port!RecordRejectedCommand(a, record)
    BY <1>4, PortRules DEF Port!RecordRejectedCommand
  <2>. QED
    BY <2>1 DEF Port!Next
<1>5. ASSUME NEW id \in SnapshotIds,
             r = BuildSnapshot(s.head, id), MaySave(s, r), t = Saved(s, r)
      PROVE  Port!Next
  <2>1. Port!SaveSnapshot(id)
    BY <1>5, PortRules DEF Port!SaveSnapshot
  <2>. QED
    BY <2>1 DEF Port!Next
<1>. QED
  BY <1>1, <1>2, <1>3, <1>4, <1>5 DEF PortCall

\* The only step that changes the stored stream is a commit, and it calls the port.
LEMMA StreamChangesByPortCalls ==
    ASSUME Calls, [Next]_vars, db' # db
    PROVE  \E t \in Tabs :
              LET r == call[t].request
              IN  /\ Commit(t) /\ r \in Sent
                  /\ Commits(db.stream, r) /\ db'.stream = After(db.stream, r)
                  /\ PortCall(db.stream, r, db'.stream)
<1>1. PICK t \in Tabs : Commit(t)
  BY DEF Next, vars, LoadHead, ReadBundle, AnswerFromBundle, Refuse, HeadRace, AbortTransaction,
         Resolve, CrashTab
<1>. DEFINE r == call[t].request
<1>2. call[t].bundle = db /\ Commits(db.stream, r) /\ call[t].phase = "validating"
  BY <1>1 DEF Commit, Validated, SameAsRead
<1>3. r \in Sent
  BY <1>2 DEF Calls, IsCall
<1>4. db'.stream = After(db.stream, r)
  BY <1>1, <1>2 DEF Commit
<1>. QED
  BY <1>1, <1>2, <1>3, <1>4, CommitIsPortCall

\* Seen through the stored stream, the calls of any number of tabs, whatever
\* they interleave, where they crash and what they send again, are calls of
\* the atomic port: the comparison at the start of the readwrite transaction
\* turns the validated request into one call at the instant of the commit.
THEOREM BrowserImplementsPort == Spec => ImplementsPort
<1>1. Init => Port!Init
  BY PortRules DEF Init, Port!Init, EmptyRows
<1>2. Calls /\ [Next]_vars => [Port!Next]_(db.stream)
  BY StreamChangesByPortCalls, PortCallIsStep
<1>. QED
  BY <1>1, <1>2, CallsCorrectness, PTL DEF Spec, ImplementsPort, Port!Spec

-----------------------------------------------------------------------------
(* What the port promises holds of the adapter *)

\* The theorems about the atomic port, for the stored stream.
P == INSTANCE AuthorityStoreProofs WITH stream <- db.stream

\* The port they are about is the one the adapter implements.
LEMMA SamePort == Port!Init = P!Init /\ (Port!Next => P!Next)
<1>1. /\ P!GenesisHead = Port!GenesisHead /\ P!EmptyMap = Port!EmptyMap
      /\ P!IdBatches = Port!IdBatches
      /\ \A h : P!SnapshotOf(h) = Port!SnapshotOf(h)
      /\ \A f, k, v : P!Put(f, k, v) = Port!Put(f, k, v)
      /\ \A e : P!EventHash(e) = Port!EventHash(e)
      /\ \A h, token : P!HeadFenced(h, token) = Port!HeadFenced(h, token)
      /\ \A s : P!Known(s) = Port!Known(s)
      /\ \A s, r : P!AddressesHead(s, r) = Port!AddressesHead(s, r)
      /\ \A S : P!Cardinality(S) = Port!Cardinality(S)
  BY DEF P!GenesisHead, Port!GenesisHead, P!NoHash, Port!NoHash, P!EmptyMap, Port!EmptyMap,
         P!IdBatches, Port!IdBatches, P!SnapshotOf, Port!SnapshotOf, P!Put, Port!Put,
         P!EventHash, Port!EventHash, P!HeadFenced, Port!HeadFenced, P!Known, Port!Known,
         P!AddressesHead, Port!AddressesHead, P!Cardinality, Port!Cardinality
<1>2. Port!Init = P!Init /\ \A g : Port!Initialize(g) = P!Initialize(g)
  BY <1>1 DEF Port!Init, P!Init, Port!Unborn, P!Unborn, Port!Initialize, P!Initialize,
              Port!Initialized, P!Initialized
<1>3. Port!AcquireWriterFence = P!AcquireWriterFence
  BY <1>1 DEF Port!AcquireWriterFence, P!AcquireWriterFence, Port!MayFence, P!MayFence,
              Port!Fenced, P!Fenced
<1>4. ASSUME NEW a, NEW b, NEW ids
      PROVE  Port!AppendEventBatch(a, b, ids) = P!AppendEventBatch(a, b, ids)
  <2>1. \A h : Port!BuildAppend(h, a, b, ids) = P!BuildAppend(h, a, b, ids)
    BY DEF Port!BuildAppend, P!BuildAppend, Port!BuildEvents, P!BuildEvents
  <2>2. \A s, r, i : Port!Continues(s, r, i) = P!Continues(s, r, i)
    BY <1>1 DEF Port!Continues, P!Continues, Port!StoredEventIds, P!StoredEventIds,
                Port!BatchIdsBefore, P!BatchIdsBefore
  <2>3. \A s, r : Port!MayAppend(s, r) = P!MayAppend(s, r)
    BY <1>1, <2>2 DEF Port!MayAppend, P!MayAppend, Port!BatchIdTaken, P!BatchIdTaken
  <2>4. \A s, r : Port!Appended(s, r) = P!Appended(s, r)
    BY <1>1 DEF Port!Appended, P!Appended, Port!HeadAfter, P!HeadAfter, Port!WithEvents,
                P!WithEvents, Port!AppendReceipt, P!AppendReceipt
  <2>. QED
    BY <2>1, <2>3, <2>4 DEF Port!AppendEventBatch, P!AppendEventBatch
<1>5. \A a, record : Port!RecordRejectedCommand(a, record) = P!RecordRejectedCommand(a, record)
  BY <1>1 DEF Port!RecordRejectedCommand, P!RecordRejectedCommand, Port!BuildRejection,
              P!BuildRejection, Port!MayReject, P!MayReject, Port!Rejected, P!Rejected,
              Port!RejectionReceipt, P!RejectionReceipt
<1>6. \A id : Port!SaveSnapshot(id) = P!SaveSnapshot(id)
  BY <1>1 DEF Port!SaveSnapshot, P!SaveSnapshot, Port!BuildSnapshot, P!BuildSnapshot,
              Port!MaySave, P!MaySave, Port!DescribesHead, P!DescribesHead, Port!Saved, P!Saved
<1>7. Port!Next => P!Next
  BY <1>1, <1>2, <1>3, <1>4, <1>5, <1>6 DEF Port!Next, P!Next
<1>. QED
  BY <1>2, <1>7

\* Hence everything that is proved of the port is true of the stored stream.
LEMMA BrowserRefinesTheorems == Spec => P!Spec
<1>1. (Port!Init => P!Init) /\ ([Port!Next]_(db.stream) => [P!Next]_(db.stream))
  BY SamePort
<1>. QED
  BY <1>1, BrowserImplementsPort, PTL DEF ImplementsPort, Port!Spec, P!Spec

\* What several tabs store is always a stream without gap or fork, whose
\* receipts and fences follow the ledger and whose snapshots can be replayed.
THEOREM BrowserStreamCorrectness ==
    Spec => [](/\ P!TypeOK /\ P!Ledger /\ P!CausesPrecede /\ P!Receipts
               /\ P!Revisions /\ P!Fences /\ P!Snapshots)
BY BrowserRefinesTheorems, RulesAssumption, P!TypeCorrectness, P!LedgerCorrectness,
   P!CausesCorrectness, P!ReceiptsCorrectness, P!RevisionsCorrectness, P!FencesCorrectness,
   P!SnapshotsCorrectness, PTL

\* No tab ever changes or loses what another tab committed.
THEOREM BrowserHistoryCorrectness == Spec => P!History
BY BrowserRefinesTheorems, RulesAssumption, P!HistoryCorrectness, PTL

-----------------------------------------------------------------------------
(* Answers *)

\* What a stream stored, a later one still has.
Extends(s, t) ==
    /\ P!Keeps(s.receipts, t.receipts)
    /\ P!Keeps(s.snapshots, t.snapshots)
    /\ Known(s) => t.genesis = s.genesis

\* A stored request stays stored.
LEMMA StoredIsKept ==
    ASSUME NEW s, NEW t, Extends(s, t), NEW r, IsStored(s, r),
           r.kind = "genesis" => r.genesis \in Geneses
    PROVE  IsStored(t, r)
BY RulesAssumption
DEF RulesAssumption, IsStored, IsRetry, IsSavedSnapshot, Extends, Known, P!Keeps

\* Later than later is later.
LEMMA ExtendsIsTransitive ==
    ASSUME NEW s, NEW t, NEW u, Extends(s, t), Extends(t, u)
    PROVE  Extends(s, u)
BY DEF Extends, Known, P!Keeps

\* A request that is answered from a stream is stored in it, and one that is
\* committed is stored in what the commit leaves.
LEMMA AnswerIsStored ==
    ASSUME NEW s, IsStream(s), NEW r \in Sent
    PROVE  /\ Answered(s, r) => IsStored(s, r)
           /\ Commits(s, r) => IsStored(After(s, r), r)
<1>1. Answered(s, r) => IsStored(s, r)
  BY DEF Answered, AlreadyDone, IsStored
<1>2. ASSUME Commits(s, r)
      PROVE  IsStored(After(s, r), r)
  <2>1. CASE r.kind = "genesis"
    BY <2>1 DEF IsStored, After, Initialized
  <2>2. CASE r.kind = "fence"
    BY <2>2 DEF IsStored
  <2>3. CASE r.kind = "append"
    <3>1. After(s, r).receipts = Put(s.receipts, r.appendId, AppendReceipt(s, r))
      BY <2>3 DEF After, Apply, Appended
    <3>. QED
      BY <2>3, <3>1 DEF IsStored, IsRetry, Put, AppendReceipt
  <2>4. CASE r.kind = "rejection"
    <3>1. After(s, r).receipts = Put(s.receipts, r.appendId, RejectionReceipt(s, r))
      BY <2>4 DEF After, Apply, Rejected, IsStream
    <3>. QED
      BY <2>4, <3>1 DEF IsStored, IsRetry, Put, RejectionReceipt
  <2>5. CASE r.kind = "snapshot"
    <3>1. After(s, r).snapshots = Put(s.snapshots, r.snapshotId, r.snapshot)
      BY <2>5 DEF After, Apply, Saved, IsStream
    <3>. QED
      BY <2>5, <3>1 DEF IsStored, IsSavedSnapshot, Put
  <2>. QED
    BY <2>1, <2>2, <2>3, <2>4, <2>5, SentAreBuilt, BuiltByKind
<1>. QED
  BY <1>1, <1>2

\* A commit keeps what is stored.
LEMMA CommitExtends ==
    ASSUME Calls, [Next]_vars, [P!KeepsHistory(db.stream, db.stream')]_(db.stream)
    PROVE  Extends(db.stream, db'.stream)
<1>1. CASE db'.stream = db.stream
  BY <1>1 DEF Extends, P!Keeps
<1>2. CASE db'.stream # db.stream
  <2>1. PICK r : PortCall(db.stream, r, db'.stream)
    BY <1>2, StreamChangesByPortCalls
  <2>2. Known(db.stream) => db'.stream.genesis = db.stream.genesis
    BY <2>1 DEF PortCall, Fenced, Appended, Rejected, Saved, Calls, IsRows, IsStream
  <2>. QED
    BY <1>2, <2>2 DEF Extends, P!KeepsHistory
<1>. QED
  BY <1>1, <1>2

\* What AnsweredIsStored rests on: what a call read is still stored when it
\* decides, and a committed request stays stored until it is answered.
Kept ==
    \A t \in Tabs :
        /\ Extends(call[t].bundle.stream, db.stream)
        /\ call[t].phase = "committed" => IsStored(db.stream, call[t].request)

\* In every reachable state what a tab has read is still in the database.
LEMMA KeptCorrectness == Spec => []Kept
<1>1. Init => Kept
  BY DEF Init, Kept, NoCall, EmptyRows, Unborn, EmptyMap, Extends, Known, P!Keeps
<1>2. Calls /\ Kept /\ [Next]_vars /\ [P!KeepsHistory(db.stream, db.stream')]_(db.stream) => Kept'
  <2>. SUFFICES ASSUME Calls, Kept, [Next]_vars,
                       [P!KeepsHistory(db.stream, db.stream')]_(db.stream),
                       NEW t \in Tabs
                PROVE  /\ Extends(call'[t].bundle.stream, db'.stream)
                       /\ call'[t].phase = "committed" => IsStored(db'.stream, call'[t].request)
    BY DEF Kept
  <2>1. Extends(db.stream, db'.stream) /\ IsCall(call[t]) /\ t \in DOMAIN call
    BY CommitExtends DEF Calls
  <2>2. ASSUME call'[t].phase = call[t].phase, call'[t].request = call[t].request,
               call'[t].bundle = call[t].bundle
        PROVE  /\ Extends(call'[t].bundle.stream, db'.stream)
               /\ call'[t].phase = "committed" => IsStored(db'.stream, call'[t].request)
    <3>1. call[t].request.kind = "genesis" /\ call[t].phase = "committed"
             => call[t].request.genesis \in Geneses
      BY <2>1, SentAreBuilt DEF IsCall
    <3>. QED
      BY <2>1, <2>2, <3>1, ExtendsIsTransitive, StoredIsKept DEF Kept
  <2>3. ASSUME call'[t] = NoCall
        PROVE  /\ Extends(call'[t].bundle.stream, db'.stream)
               /\ call'[t].phase = "committed" => IsStored(db'.stream, call'[t].request)
    BY <2>3 DEF NoCall, EmptyRows, Unborn, EmptyMap, Extends, Known, P!Keeps
  <2>4. CASE UNCHANGED vars
    BY SMTT(40), <2>2, <2>4 DEF vars
  <2>5. ASSUME NEW u \in Tabs, u # t,
               \/ LoadHead(u) \/ ReadBundle(u) \/ AnswerFromBundle(u) \/ Refuse(u)
               \/ Commit(u) \/ HeadRace(u) \/ AbortTransaction(u) \/ Resolve(u) \/ CrashTab(u)
        PROVE  call'[t] = call[t]
    BY <2>1, <2>5 DEF LoadHead, ReadBundle, AnswerFromBundle, Refuse, Commit, HeadRace,
                      AbortTransaction, Resolve, CrashTab, Finish
  <2>6. CASE LoadHead(t)
    BY <2>2, <2>6 DEF LoadHead
  <2>7. CASE ReadBundle(t)
    <3>1. call'[t].bundle = db /\ call'[t].phase = "validating" /\ db' = db
      BY <2>1, <2>7 DEF ReadBundle
    <3>. QED
      BY <2>1, <3>1
  <2>8. CASE \/ AnswerFromBundle(t) \/ Refuse(t) \/ HeadRace(t) \/ AbortTransaction(t)
             \/ Resolve(t) \/ CrashTab(t)
    <3>1. call'[t] = NoCall
      BY <2>1, <2>8 DEF AnswerFromBundle, Refuse, HeadRace, AbortTransaction, Resolve, CrashTab,
                        Finish
    <3>. QED
      BY <2>3, <3>1
  <2>9. CASE Commit(t)
    <3>. DEFINE c == call[t]
    <3>1. /\ c.request \in Sent /\ c.bundle = db
          /\ Commits(db.stream, c.request)
          /\ db'.stream = After(db.stream, c.request)
          /\ call'[t] = [c EXCEPT !.phase = "committed"]
      BY <2>1, <2>9 DEF Commit, Validated, SameAsRead, IsCall
    <3>2. c = [phase |-> c.phase, request |-> c.request, bundle |-> c.bundle]
      BY <2>1 DEF IsCall
    <3>3. call'[t].bundle = db /\ call'[t].request = c.request
      BY <3>1, <3>2
    <3>4. IsStored(db'.stream, c.request)
      BY <3>1, AnswerIsStored DEF Calls, IsRows
    <3>. QED
      BY <2>1, <3>3, <3>4
  <2>. QED
    BY <2>2, <2>4, <2>5, <2>6, <2>7, <2>8, <2>9 DEF Next
<1>. QED
  BY <1>1, <1>2, CallsCorrectness, BrowserHistoryCorrectness, PTL DEF Spec, P!History

\* A tab is told that its request is done only when it is stored, in the bytes
\* it sent: by the commit that just happened, or by an earlier one whose answer
\* was lost.
THEOREM AnswersCorrectness == Spec => AnsweredIsStored
<1>1. Calls /\ Kept
         => [\A t \in Tabs : (AnswerFromBundle(t) \/ Resolve(t))
                                => IsStored(db.stream, call[t].request)]_vars
  <2>. SUFFICES ASSUME Calls, Kept, NEW t \in Tabs, AnswerFromBundle(t) \/ Resolve(t)
                PROVE  IsStored(db.stream, call[t].request)
    OBVIOUS
  <2>1. Extends(call[t].bundle.stream, db.stream) /\ IsCall(call[t])
    BY DEF Calls, Kept
  <2>2. CASE AnswerFromBundle(t)
    <3>1. call[t].request \in Sent /\ Answered(call[t].bundle.stream, call[t].request)
      BY <2>1, <2>2 DEF AnswerFromBundle, IsCall
    <3>. QED
      BY <2>1, <3>1, AnswerIsStored, SentAreBuilt, StoredIsKept DEF IsCall, IsRows
  <2>3. CASE Resolve(t)
    BY <2>3 DEF Resolve, Kept
  <2>. QED
    BY <2>2, <2>3
<1>. QED
  BY <1>1, CallsCorrectness, KeptCorrectness, PTL DEF AnsweredIsStored

-----------------------------------------------------------------------------
(* Writer fences *)

\* A call that committed a fence and was not answered yet, and its token.
Fencing(c) == c.phase = "committed" /\ c.request.kind = "fence"
Token(c) == c.bundle.stream.head.fencingToken + 1

\* What FenceHasOneOwner needs to be inductive: a token that was committed and
\* not given out yet is nobody else's either, and none is beyond the head's.
Tokens ==
    /\ \A t \in Tabs : \A token \in granted[t] : token <= db.stream.head.fencingToken
    /\ \A t \in Tabs : Fencing(call[t]) =>
          /\ Token(call[t]) <= db.stream.head.fencingToken
          /\ \A u \in Tabs : Token(call[t]) \notin granted[u]
    /\ \A t, u \in Tabs :
          t # u /\ Fencing(call[t]) /\ Fencing(call[u]) => Token(call[t]) # Token(call[u])
    /\ FenceHasOneOwner

\* The fence a commit makes is the token after that of the rows that were read.
LEMMA FenceToken ==
    ASSUME NEW s, IsStream(s), NEW r, r.kind = "fence", Commits(s, r)
    PROVE  /\ s.head.fencingToken \in Nat
           /\ After(s, r).head.fencingToken = s.head.fencingToken + 1
<1>1. After(s, r) = Fenced(s, r) /\ MayFence(s, r)
  BY DEF Commits, May, After, Apply
<1>2. After(s, r).head = HeadFenced(s.head, s.head.fencingToken)
  BY <1>1 DEF Fenced, MayFence, IsStream
<1>. QED
  BY <1>2, FenceKeepsHead DEF IsStream, AuthorityHead

\* What a step of one tab makes of the call of a tab, its own or another.
LEMMA CallSteps ==
    ASSUME Calls, NEW t \in Tabs, NEW u \in Tabs,
           \/ LoadHead(u) \/ ReadBundle(u) \/ AnswerFromBundle(u) \/ Refuse(u)
           \/ Commit(u) \/ HeadRace(u) \/ AbortTransaction(u) \/ Resolve(u) \/ CrashTab(u)
    PROVE  \/ call'[t] = call[t]
           \/ t = u /\ call'[t].phase \in {"idle", "validating"}
           \/ /\ t = u /\ Commit(t) /\ call[t].bundle = db
              /\ call'[t].phase = "committed" /\ call'[t].request = call[t].request
              /\ call'[t].bundle = call[t].bundle
<1>1. IsCall(call[t]) /\ t \in DOMAIN call
  BY SMTT(40) DEF Calls
<1>2. CASE t # u
  BY <1>1, <1>2 DEF LoadHead, ReadBundle, AnswerFromBundle, Refuse, Commit, HeadRace,
                    AbortTransaction, Resolve, CrashTab, Finish
<1>3. CASE t = u /\ Commit(t)
  <2>1. call'[t] = [call[t] EXCEPT !.phase = "committed"] /\ call[t].bundle = db
    BY <1>1, <1>3 DEF Commit, SameAsRead
  <2>2. call[t] = [phase |-> call[t].phase, request |-> call[t].request,
                   bundle |-> call[t].bundle]
    BY <1>1 DEF IsCall
  <2>. QED
    BY <1>3, <2>1, <2>2
<1>4. CASE t = u /\ ~Commit(t)
  BY <1>1, <1>4 DEF LoadHead, ReadBundle, AnswerFromBundle, Refuse, HeadRace,
                    AbortTransaction, Resolve, CrashTab, Finish, NoCall
<1>. QED
  BY <1>2, <1>3, <1>4

\* In every reachable state the tokens of the tabs are in order.
LEMMA TokensCorrectness == Spec => []Tokens
<1>1. Init => Tokens
  BY DEF Init, Tokens, NoCall, Fencing, FenceHasOneOwner
<1>2. Calls /\ Tokens /\ [Next]_vars /\ [P!KeepsHistory(db.stream, db.stream')]_(db.stream)
         => Tokens'
  <2>. SUFFICES ASSUME Calls, Tokens, [Next]_vars,
                       [P!KeepsHistory(db.stream, db.stream')]_(db.stream)
                PROVE  Tokens'
    OBVIOUS
  <2>. DEFINE now == db.stream.head.fencingToken
              after == db'.stream.head.fencingToken
  <2>1. CASE UNCHANGED vars
    BY <2>1 DEF vars, Tokens, FenceHasOneOwner
  <2>2. CASE ~UNCHANGED vars
    <3>1. PICK u \in Tabs :
             \/ LoadHead(u) \/ ReadBundle(u) \/ AnswerFromBundle(u) \/ Refuse(u)
             \/ Commit(u) \/ HeadRace(u) \/ AbortTransaction(u) \/ Resolve(u) \/ CrashTab(u)
      BY <2>2 DEF Next
    <3>2. now \in Nat /\ after \in Nat /\ now <= after
      <4>1. IsStream(db.stream) /\ IsStream(db'.stream)
        <5>1. CASE db' = db
          BY <5>1 DEF Calls, IsRows
        <5>2. CASE db' # db
          <6>1. PICK r : PortCall(db.stream, r, db'.stream)
            BY <5>2, StreamChangesByPortCalls
          <6>. QED
            BY <6>1, PortCallType DEF Calls, IsRows
        <5>. QED
          BY <5>1, <5>2
      <4>. QED
        BY <4>1 DEF IsStream, AuthorityHead, P!KeepsHistory
    <3>. HIDE DEF now, after
    <3>3. /\ \A t \in Tabs : granted[t] \subseteq Nat
          /\ \A t \in Tabs : \A token \in granted[t] : token <= now
          /\ \A t \in Tabs : Fencing(call[t]) =>
                /\ Token(call[t]) \in Nat /\ Token(call[t]) <= now
                /\ \A v \in Tabs : Token(call[t]) \notin granted[v]
      <4>1. \A t \in Tabs : call[t].bundle.stream.head.fencingToken \in Nat
        BY DEF Calls, IsCall, IsRows, IsStream, AuthorityHead
      <4>. QED
        BY SMTT(40), <4>1, RulesAssumption DEF RulesAssumption, Tokens, Calls, Token, now
    <3>4. CASE Commit(u) /\ call[u].request.kind = "fence"
      <4>1. /\ Commits(db.stream, call[u].request) /\ call[u].bundle = db
            /\ db'.stream = After(db.stream, call[u].request)
            /\ granted' = granted
        BY <3>4 DEF Commit, Validated, SameAsRead
      <4>2. after = now + 1
        BY <3>4, <4>1, FenceToken DEF Calls, IsRows, now, after
      <4>3. \A t \in Tabs : Fencing(call'[t]) =>
                \/ t = u /\ Token(call'[t]) = now + 1
                \/ t # u /\ Fencing(call[t]) /\ Token(call'[t]) = Token(call[t])
        <5>. SUFFICES ASSUME NEW t \in Tabs, Fencing(call'[t])
                      PROVE  \/ t = u /\ Token(call'[t]) = now + 1
                             \/ t # u /\ Fencing(call[t]) /\ Token(call'[t]) = Token(call[t])
          OBVIOUS
        <5>1. CASE t = u
          <6>1. call[t].phase = "validating"
            BY <3>4, <5>1 DEF Commit, Validated
          <6>2. call'[t].bundle = db
            BY <3>4, <4>1, <5>1, <6>1, CallSteps DEF Fencing
          <6>. QED
            BY <5>1, <6>2 DEF Token, now
        <5>2. CASE t # u
          BY <3>4, <5>2, CallSteps DEF Fencing, Token
        <5>. QED
          BY <5>1, <5>2
      <4>. QED
        BY <3>2, <3>3, <4>1, <4>2, <4>3 DEF Tokens, after, FenceHasOneOwner
    <3>5. CASE ~(Commit(u) /\ call[u].request.kind = "fence")
      <4>1. \A t \in Tabs : Fencing(call'[t]) => Fencing(call[t]) /\ call'[t] = call[t]
        BY <3>1, <3>5, CallSteps DEF Fencing
      <4>2. CASE granted' = granted
        BY <3>2, <3>3, <4>1, <4>2 DEF Tokens, after, FenceHasOneOwner
      <4>3. CASE granted' # granted
        <5>1. Resolve(u) /\ call[u].request.kind = "fence" /\ call[u].phase = "committed"
          BY <3>1, <4>3 DEF LoadHead, ReadBundle, AnswerFromBundle, Refuse, Commit, HeadRace,
                            AbortTransaction, Resolve, CrashTab
        <5>2. After(call[u].bundle.stream, call[u].request).head.fencingToken = Token(call[u])
          <6>1. IsCall(call[u])
            BY DEF Calls
          <6>. QED
            BY <5>1, <6>1, FenceToken DEF IsCall, IsRows, Token
        <5>3. /\ Fencing(call[u]) /\ ~Fencing(call'[u])
              /\ \A t \in Tabs : granted'[t] = IF t = u THEN granted[t] \cup {Token(call[u])}
                                               ELSE granted[t]
          BY <5>1, <5>2 DEF Resolve, Finish, NoCall, Fencing, Calls
        <5>. DEFINE k == Token(call[u])
        <5>4. k \in Nat /\ k <= now /\ \A v \in Tabs : k \notin granted[v]
          BY <3>3, <5>3
        <5>5. \A t \in Tabs : Fencing(call'[t]) =>
                 t # u /\ Fencing(call[t]) /\ call'[t] = call[t] /\ Token(call[t]) # k
          BY <4>1, <5>3 DEF Tokens
        <5>. HIDE DEF k
        <5>6. \A t \in Tabs : granted'[t] = IF t = u THEN granted[t] \cup {k} ELSE granted[t]
          BY <5>3 DEF k
        <5>7. \A t \in Tabs : \A token \in granted'[t] : token <= after
          <6>1. k <= after
            BY <3>2, <5>4
          <6>2. \A t \in Tabs : \A token \in granted[t] : token <= after
            BY <3>2, <3>3
          <6>. QED
            BY <5>6, <6>1, <6>2
        <5>8. \A t \in Tabs : Fencing(call'[t]) =>
                 /\ Token(call'[t]) <= after
                 /\ \A v \in Tabs : Token(call'[t]) \notin granted'[v]
          <6>. SUFFICES ASSUME NEW t \in Tabs, Fencing(call'[t])
                        PROVE  /\ Token(call'[t]) <= after
                               /\ \A v \in Tabs : Token(call'[t]) \notin granted'[v]
            OBVIOUS
          <6>. DEFINE j == Token(call[t])
          <6>1. Token(call'[t]) = j /\ j # k /\ Fencing(call[t])
            BY <5>5
          <6>2. j \in Nat /\ j <= now /\ \A v \in Tabs : j \notin granted[v]
            BY <3>3, <6>1
          <6>. HIDE DEF j
          <6>3. j <= after
            BY <3>2, <6>2
          <6>4. \A v \in Tabs : j \notin granted'[v]
            BY <5>6, <6>1, <6>2
          <6>. QED
            BY <6>1, <6>3, <6>4
        <5>9. \A t, v \in Tabs : t # v => granted'[t] \cap granted'[v] = {}
          BY ZenonT(60), <5>4, <5>6 DEF Tokens, FenceHasOneOwner
        <5>10. \A t, v \in Tabs : t # v /\ Fencing(call'[t]) /\ Fencing(call'[v])
                  => Token(call'[t]) # Token(call'[v])
          BY <4>1 DEF Tokens
        <5>. QED
          BY SMTT(40), <5>7, <5>8, <5>9, <5>10 DEF Tokens, after, FenceHasOneOwner
      <4>. QED
        BY <4>2, <4>3
    <3>. QED
      BY <3>4, <3>5
  <2>. QED
    BY <2>1, <2>2
<1>. QED
  BY <1>1, <1>2, CallsCorrectness, BrowserHistoryCorrectness, PTL DEF Spec, P!History

\* Two tabs never hold the same writer fence, however their calls overlap.
THEOREM FenceOwnerCorrectness == Spec => []FenceHasOneOwner
<1>1. Tokens => FenceHasOneOwner
  BY DEF Tokens
<1>. QED
  BY <1>1, TokensCorrectness, PTL

\* Whatever a tab commits carries the newest token anybody was granted, so a
\* tab that was fenced off writes nothing any more.
THEOREM NewestFenceCorrectness == Spec => NewestFenceWrites
<1>1. Calls /\ Tokens /\ [Next]_vars
         => [\A t \in Tabs :
                (db' # db /\ call[t].phase = "validating" /\ call'[t].phase = "committed")
                   => LET r == call[t].request
                      IN  r.kind \in {"append", "rejection", "snapshot"}
                             => \A u \in Tabs : \A token \in granted[u] :
                                   token <= r.fencingToken]_vars
  <2>. SUFFICES ASSUME Calls, Tokens, Next, NEW t \in Tabs,
                       call[t].phase = "validating", call'[t].phase = "committed",
                       call[t].request.kind \in {"append", "rejection", "snapshot"}
                PROVE  \A u \in Tabs : \A token \in granted[u] : token <= call[t].request.fencingToken
    OBVIOUS
  <2>. DEFINE r == call[t].request
  <2>1. Commit(t)
    BY CallSteps DEF Next
  <2>2. Commits(db.stream, r)
    BY <2>1 DEF Commit, Validated, SameAsRead
  <2>3. r.fencingToken = db.stream.head.fencingToken
    BY <2>2 DEF Commits, May, MayAppend, MayReject, MaySave, DescribesHead, AddressesHead
  <2>. QED
    BY <2>3 DEF Tokens
<1>. QED
  BY <1>1, CallsCorrectness, TokensCorrectness, PTL DEF Spec, NewestFenceWrites

-----------------------------------------------------------------------------
(* The stored log can be replayed *)

\* A function that replays the log of some rows.
IsReplay(f, rows) ==
    f = [n \in 0..Len(rows.ops) |->
            IF n = 0 THEN Initialized(rows.stream.genesis) ELSE Apply(f[n - 1], rows.ops[n])]

\* Every operation is accepted where it stands, and the last one gives the stream.
Accepts(f, rows) ==
    /\ \A n \in 1..Len(rows.ops) : May(f[n - 1], rows.ops[n])
    /\ f[Len(rows.ops)] = rows.stream

\* What StoredStreamHydrates needs to be inductive.  The replay is defined by
\* recursion on the log; that it exists and is accepted, whichever function
\* solves its equation, is carried from commit to commit.
Replays(rows) ==
    /\ \E f : IsReplay(f, rows)
    /\ \A f : IsReplay(f, rows) => Accepts(f, rows)

\* Then the log hydrates.
LEMMA ReplayHydrates ==
    ASSUME NEW rows, Replays(rows)
    PROVE  Hydrates(rows)
<1>1. Replayed(rows) = CHOOSE f : IsReplay(f, rows)
  BY DEF Replayed, IsReplay
<1>2. IsReplay(Replayed(rows), rows)
  BY <1>1 DEF Replays
<1>. QED
  BY <1>2 DEF Replays, Accepts, Hydrates

\* A log without operations replays to the stream that initialize made.
LEMMA EmptyLogReplays ==
    ASSUME NEW g, g \in Geneses
    PROVE  Replays([ops |-> <<>>, stream |-> Initialized(g)])
<1>. DEFINE rows == [ops |-> <<>>, stream |-> Initialized(g)]
            f0 == [n \in 0..0 |-> Initialized(g)]
<1>1. Len(rows.ops) = 0 /\ rows.stream = Initialized(g) /\ rows.stream.genesis = g
  BY EmptySeq DEF Initialized
<1>. HIDE DEF rows
<1>2. IsReplay(f0, rows)
  BY <1>1 DEF IsReplay
<1>3. ASSUME NEW f, IsReplay(f, rows)
      PROVE  Accepts(f, rows)
  <2>1. 0 \in 0..Len(rows.ops)
    BY <1>1
  <2>2. f[0] = Initialized(g)
    BY <1>1, <1>3, <2>1 DEF IsReplay
  <2>. QED
    BY <1>1, <2>2 DEF Accepts
<1>4. Replays(rows)
  BY <1>2, <1>3 DEF Replays
<1>. QED
  BY <1>4 DEF rows

\* An operation that is accepted on the stream extends the replay by one step.
LEMMA LongerLogReplays ==
    ASSUME NEW rows, rows.ops \in Seq(Request), Replays(rows),
           NEW r \in Request, May(rows.stream, r),
           Apply(rows.stream, r).genesis = rows.stream.genesis
    PROVE  Replays([ops |-> Append(rows.ops, r), stream |-> Apply(rows.stream, r)])
<1>. DEFINE next == [ops |-> Append(rows.ops, r), stream |-> Apply(rows.stream, r)]
            m == Len(rows.ops)
            g == rows.stream.genesis
<1>1. /\ m \in Nat /\ Len(next.ops) = m + 1
      /\ \A n \in 1..m : next.ops[n] = rows.ops[n]
      /\ next.ops[m + 1] = r
      /\ next.stream = Apply(rows.stream, r) /\ next.stream.genesis = g
  BY LenProperties, AppendProperties
<1>. HIDE DEF next, m, g
<1>2. \E f : IsReplay(f, next)
  <2>1. PICK f : IsReplay(f, rows)
    BY DEF Replays
  <2>. DEFINE h == [n \in 0..(m + 1) |-> IF n = m + 1 THEN Apply(f[m], r) ELSE f[n]]
  <2>2. f = [n \in 0..m |-> IF n = 0 THEN Initialized(g) ELSE Apply(f[n - 1], rows.ops[n])]
    BY <2>1 DEF IsReplay, m, g
  <2>3. ASSUME NEW n \in 0..(m + 1)
        PROVE  h[n] = IF n = 0 THEN Initialized(g) ELSE Apply(h[n - 1], next.ops[n])
    <3>1. CASE n = 0
      BY <1>1, <2>2, <3>1
    <3>2. CASE n \in 1..m
      <4>1. n \in 0..m /\ n - 1 \in 0..m /\ n # 0 /\ n # m + 1 /\ n - 1 # m + 1
        BY <1>1, <3>2
      <4>2. h[n] = f[n] /\ h[n - 1] = f[n - 1]
        BY <1>1, <4>1
      <4>3. f[n] = Apply(f[n - 1], rows.ops[n])
        BY <2>2, <4>1
      <4>. QED
        BY <1>1, <3>2, <4>1, <4>2, <4>3
    <3>3. CASE n = m + 1
      <4>1. n # 0 /\ n - 1 = m /\ m \in 0..(m + 1) /\ m # m + 1
        BY <1>1, <3>3
      <4>2. h[n] = Apply(f[m], r) /\ h[n - 1] = f[m]
        BY <3>3, <4>1
      <4>. QED
        BY <1>1, <3>3, <4>1, <4>2
    <3>. QED
      BY <1>1, <3>1, <3>2, <3>3
  <2>4. h = [n \in 0..(m + 1) |-> h[n]]
    OBVIOUS
  <2>. HIDE DEF h
  <2>5. h = [n \in 0..(m + 1) |-> IF n = 0 THEN Initialized(g) ELSE Apply(h[n - 1], next.ops[n])]
    BY <2>3, <2>4
  <2>6. IsReplay(h, next)
    BY <1>1, <2>5 DEF IsReplay
  <2>. QED
    BY <2>6
<1>3. ASSUME NEW h, IsReplay(h, next)
      PROVE  Accepts(h, next)
  <2>. DEFINE f == [n \in 0..m |-> h[n]]
  <2>1. h = [n \in 0..(m + 1) |-> IF n = 0 THEN Initialized(g) ELSE Apply(h[n - 1], next.ops[n])]
    BY <1>1, <1>3 DEF IsReplay
  <2>2. ASSUME NEW n \in 0..m
        PROVE  f[n] = IF n = 0 THEN Initialized(g) ELSE Apply(f[n - 1], rows.ops[n])
    <3>1. CASE n = 0
      BY <1>1, <2>1, <3>1
    <3>2. CASE n # 0
      <4>1. n \in 1..m /\ n \in 0..(m + 1) /\ n - 1 \in 0..m
        BY <1>1, <3>2
      <4>2. f[n] = h[n] /\ f[n - 1] = h[n - 1]
        BY <4>1
      <4>3. h[n] = Apply(h[n - 1], next.ops[n])
        BY <2>1, <3>2, <4>1
      <4>. QED
        BY <1>1, <3>2, <4>1, <4>2, <4>3
    <3>. QED
      BY <3>1, <3>2
  <2>3. f = [n \in 0..m |-> f[n]]
    OBVIOUS
  <2>4. \A n \in 0..m : h[n] = f[n]
    OBVIOUS
  <2>. HIDE DEF f
  <2>5. f = [n \in 0..m |-> IF n = 0 THEN Initialized(g) ELSE Apply(f[n - 1], rows.ops[n])]
    BY <2>2, <2>3
  <2>6. Accepts(f, rows)
    BY <2>5 DEF Replays, IsReplay, m, g
  <2>7. f[m] = rows.stream /\ \A n \in 1..m : May(f[n - 1], rows.ops[n])
    BY <2>6 DEF Accepts, m
  <2>8. h[m] = rows.stream
    BY <1>1, <2>4, <2>7
  <2>9. h[m + 1] = Apply(h[m], r)
    <3>1. m + 1 \in 0..(m + 1) /\ m + 1 # 0 /\ (m + 1) - 1 = m
      BY <1>1
    <3>. QED
      BY <1>1, <2>1, <3>1
  <2>10. ASSUME NEW n \in 1..(m + 1)
         PROVE  May(h[n - 1], next.ops[n])
    <3>1. CASE n = m + 1
      <4>1. n - 1 = m
        BY <1>1, <3>1
      <4>. QED
        BY <1>1, <2>8, <3>1, <4>1
    <3>2. CASE n # m + 1
      <4>1. n \in 1..m /\ n - 1 \in 0..m
        BY <1>1, <3>2
      <4>. QED
        BY <1>1, <2>4, <2>7, <4>1
    <3>. QED
      BY <3>1, <3>2
  <2>. QED
    BY <1>1, <2>8, <2>9, <2>10 DEF Accepts
<1>4. Replays(next)
  BY <1>2, <1>3 DEF Replays
<1>. QED
  BY <1>4 DEF next

\* A stream that any tab stored, any tab can read: the log of a stored stream
\* is accepted operation by operation and replays to the stored rows, so no
\* later load is refused for them.
THEOREM HydrationCorrectness == Spec => []StoredStreamHydrates
<1>. DEFINE Replayable == Known(db.stream) => Replays(db)
<1>1. Init => Replayable
  BY DEF Init, EmptyRows, Unborn, Known
<1>2. Calls /\ Replayable /\ [Next]_vars => Replayable'
  <2>. SUFFICES ASSUME Calls, Replayable, [Next]_vars, db' # db
                PROVE  Replays(db')
    OBVIOUS
  <2>1. PICK t \in Tabs : LET r == call[t].request
                          IN  /\ Commit(t) /\ r \in Sent
                              /\ Commits(db.stream, r) /\ db'.stream = After(db.stream, r)
                              /\ PortCall(db.stream, r, db'.stream)
    BY StreamChangesByPortCalls
  <2>. DEFINE r == call[t].request
  <2>2. db' = Committed(db, r)
    BY <2>1 DEF Commit, SameAsRead, Committed
  <2>3. CASE r.kind = "genesis"
    <3>1. r.genesis \in Geneses
      BY <2>1, <2>3, SentAreBuilt
    <3>2. db' = [ops |-> <<>>, stream |-> Initialized(r.genesis)]
      BY <2>2, <2>3 DEF Committed, After
    <3>. QED
      BY <3>1, <3>2, EmptyLogReplays
  <2>4. CASE r.kind # "genesis"
    <3>1. r \in Request
      BY <2>1, <2>4, SentIsRequest DEF GenesisRequests
    <3>2. May(db.stream, r) /\ Known(db.stream)
      BY <2>1, <2>4 DEF Commits, May, MayAppend, MayReject, MayFence, MaySave, DescribesHead
    <3>3. db' = [ops |-> Append(db.ops, r), stream |-> Apply(db.stream, r)]
      BY <2>2, <2>4 DEF Committed, After
    <3>4. db'.stream.genesis = db.stream.genesis
      BY <2>1, <3>2 DEF PortCall, Fenced, Appended, Rejected, Saved, Calls, IsRows, IsStream
    <3>. HIDE DEF r
    <3>5. Apply(db.stream, r).genesis = db.stream.genesis
      BY <3>3, <3>4
    <3>. QED
      BY <3>1, <3>2, <3>3, <3>5, LongerLogReplays DEF Calls, IsRows
  <2>. QED
    BY <2>3, <2>4
<1>3. Replayable => StoredStreamHydrates
  BY ReplayHydrates DEF StoredStreamHydrates
<1>. QED
  BY <1>1, <1>2, <1>3, CallsCorrectness, PTL DEF Spec

=============================================================================
