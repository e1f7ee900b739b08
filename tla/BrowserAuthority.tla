--------------------------- MODULE BrowserAuthority ---------------------------
(***************************************************************************)
(* The IndexedDB adapter of the versioned port, used by several tabs at    *)
(* once (apps/web/src/persistence/browser-versioned.ts, outside session()).*)
(*                                                                         *)
(* A call first reads the whole stream in a readonly transaction and       *)
(* replays its operation log in memory (#readBundle, #hydrate), then       *)
(* decides there what the request comes to, and commits in a second,       *)
(* readwrite transaction that starts by comparing everything stored with   *)
(* what was read (#commitOperation).  Between the two the other tabs run.  *)
(* A tab may be closed at any point, a transaction may abort, and a        *)
(* request whose answer was lost may be sent again.                        *)
(***************************************************************************)
EXTENDS AuthorityRules

CONSTANTS
    Tabs,       \* the open pages, each with a connection of its own
    BatchOf,    \* the batch id that callers send with an append id
    NoHead,     \* the tab has loaded no head
    NoRequest,  \* no request
    MaxOps      \* bounds the operation log, for model checking

VARIABLES
    db,         \* the stored rows: the operation log and what it materializes
    call,       \* per tab, the call in progress: its phase, request and bundle
    view,       \* per tab, the head it was last given
    lost,       \* per tab, the request it was never answered, to be sent again
    granted     \* history: per tab, the fencing tokens it was given

vars == <<db, call, view, lost, granted>>

GenesisRequests == [kind : {"genesis"}, genesis : Geneses]

ASSUME BrowserAssumption ==
    /\ BatchOf \in [AppendIds -> BatchIds]
    /\ MaxOps \in Nat
    /\ NoHead \notin AuthorityHead
    /\ NoRequest \notin Request \cup GenesisRequests

\* What a bundle or the stored rows hold: the log and the materialized stream.
EmptyRows == [ops |-> <<>>, stream |-> Unborn]
NoCall == [phase |-> "idle", request |-> NoRequest, bundle |-> EmptyRows]

Init ==
    /\ db = EmptyRows
    /\ call = [t \in Tabs |-> NoCall]
    /\ view = [t \in Tabs |-> NoHead]
    /\ lost = [t \in Tabs |-> NoRequest]
    /\ granted = [t \in Tabs |-> {}]

-----------------------------------------------------------------------------
(* Reading *)

\* #hydrate replays the log through the in-memory port, every operation must
\* be accepted again, and the result must be what the stores hold.
Replayed(rows) ==
    LET after[n \in 0..Len(rows.ops)] ==
            IF n = 0 THEN Initialized(rows.stream.genesis)
            ELSE Apply(after[n - 1], rows.ops[n])
    IN  after

Hydrates(rows) ==
    LET after == Replayed(rows)
    IN  /\ \A n \in 1..Len(rows.ops) : May(after[n - 1], rows.ops[n])
        /\ after[Len(rows.ops)] = rows.stream

\* loadHead
LoadHead(t) ==
    /\ call[t].phase = "idle"
    /\ Known(db.stream) /\ Hydrates(db)
    /\ view' = [view EXCEPT ![t] = db.stream.head]
    /\ UNCHANGED <<db, call, lost, granted>>

-----------------------------------------------------------------------------
(* Calls *)

\* The requests a tab makes from the head it holds.
RequestsFrom(h) ==
    {[kind |-> "fence", expectedFencingToken |-> h.fencingToken]}
    \cup {BuildAppend(h, a, BatchOf[a], ids) : a \in AppendIds, ids \in IdBatches}
    \cup {BuildRejection(h, a, record) : a \in AppendIds, record \in CommandReceipts}
    \cup {BuildSnapshot(h, id) : id \in SnapshotIds}

Requests(t) ==
    GenesisRequests
    \cup (IF view[t] = NoHead THEN {} ELSE RequestsFrom(view[t]))
    \cup ({lost[t]} \ {NoRequest})

\* What the in-memory port makes of a request on the stream that was read.
\* Mutant: a fence is not validated against the stream.
CommitsAnyFence(s, r) == IF r.kind = "genesis" THEN ~Known(s)
                         ELSE Known(s) /\ (r.kind = "fence" \/ May(s, r))
Commits(s, r) == IF r.kind = "genesis" THEN ~Known(s) ELSE May(s, r)
Answered(s, r) == IF r.kind = "genesis" THEN s.genesis = r.genesis ELSE AlreadyDone(s, r)
After(s, r) == IF r.kind = "genesis" THEN Initialized(r.genesis) ELSE Apply(s, r)

\* The port is called and #readBundle takes its picture of the stream.  An
\* initialize may find none; any other call needs one that hydrates.
ReadBundle(t) ==
    /\ call[t].phase = "idle"
    /\ Len(db.ops) < MaxOps
    /\ Known(db.stream) => Hydrates(db)
    /\ \E r \in IF Known(db.stream) THEN Requests(t) ELSE GenesisRequests :
          call' = [call EXCEPT ![t] = [phase |-> "validating", request |-> r, bundle |-> db]]
    /\ lost' = [lost EXCEPT ![t] = NoRequest]
    /\ UNCHANGED <<db, view, granted>>

\* Mutant: a call that ends leaves its request behind.
FinishUncleared(t) == call' = [call EXCEPT ![t].phase = "idle"]
Finish(t) == call' = [call EXCEPT ![t] = NoCall]

\* The request was committed before: the stored receipt, or snapshot, answers
\* it, with the head of the bundle, and nothing is written.
AnswerFromBundle(t) ==
    LET c == call[t]
    IN  /\ c.phase = "validating"
        /\ Answered(c.bundle.stream, c.request)
        /\ Finish(t)
        /\ view' = [view EXCEPT ![t] = c.bundle.stream.head]
        /\ UNCHANGED <<db, lost, granted>>

\* The in-memory port throws a typed error.
Refuse(t) ==
    LET c == call[t]
    IN  /\ c.phase = "validating"
        /\ ~Answered(c.bundle.stream, c.request)
        /\ ~Commits(c.bundle.stream, c.request)
        /\ Finish(t)
        /\ UNCHANGED <<db, view, lost, granted>>

Validated(t) ==
    LET c == call[t]
    IN  /\ c.phase = "validating"
        /\ ~Answered(c.bundle.stream, c.request)
        /\ Commits(c.bundle.stream, c.request)

\* Mutants: no comparison; revision and sequence only; the head only.
NotCompared(t) == TRUE
SameRevision(t) ==
    /\ db.stream.head.revision = call[t].bundle.stream.head.revision
    /\ Len(db.ops) >= Len(call[t].bundle.ops)
SameHead(t) == db.stream.head = call[t].bundle.stream.head

\* The comparison the readwrite transaction begins with.
SameAsRead(t) == db = call[t].bundle

\* The readwrite transaction of #commitOperation, or of initialize.
Commit(t) ==
    LET c == call[t]
    IN  /\ Validated(t)
        /\ SameAsRead(t)
        /\ db' = [ops |-> IF c.request.kind = "genesis" THEN <<>>
                          ELSE Append(c.bundle.ops, c.request),
                  stream |-> After(c.bundle.stream, c.request)]
        /\ call' = [call EXCEPT ![t].phase = "committed"]
        /\ UNCHANGED <<view, lost, granted>>

\* "head race", "genesis race": somebody else has written since the read.
HeadRace(t) ==
    /\ Validated(t)
    /\ ~SameAsRead(t)
    /\ Finish(t)
    /\ UNCHANGED <<db, view, lost, granted>>

\* The transaction is aborted: a fault before the commit, or the quota.
AbortTransaction(t) ==
    /\ Validated(t)
    /\ Finish(t)
    /\ UNCHANGED <<db, view, lost, granted>>

\* The committed call resolves.
Resolve(t) ==
    LET c == call[t]
        next == After(c.bundle.stream, c.request)
    IN  /\ c.phase = "committed"
        /\ Finish(t)
        /\ view' = [view EXCEPT ![t] = next.head]
        /\ granted' = IF c.request.kind = "fence"
                      THEN [granted EXCEPT ![t] = @ \cup {next.head.fencingToken}]
                      ELSE granted
        /\ UNCHANGED <<db, lost>>

\* The tab dies, before or after its commit, and the answer is never given.
\* A batch or rejection it sent can be sent again: callers rebuild the same
\* bytes when they resume.
CrashTab(t) ==
    /\ call[t].phase # "idle"
    /\ Finish(t)
    /\ view' = [view EXCEPT ![t] = NoHead]
    /\ lost' = IF call[t].request.kind \in {"append", "rejection"}
               THEN [lost EXCEPT ![t] = call[t].request] ELSE lost
    /\ UNCHANGED <<db, granted>>

Next ==
    \E t \in Tabs :
        \/ LoadHead(t)
        \/ ReadBundle(t)
        \/ AnswerFromBundle(t)
        \/ Refuse(t)
        \/ Commit(t)
        \/ HeadRace(t)
        \/ AbortTransaction(t)
        \/ Resolve(t)
        \/ CrashTab(t)

Spec == Init /\ [][Next]_vars

-----------------------------------------------------------------------------
(* Properties *)

\* The variables keep their types, an idle page has no request in hand, and no
\* page is granted a token beyond the largest safe integer.
TypeOK ==
    /\ \A t \in Tabs :
          /\ call[t].phase \in {"idle", "validating", "committed"}
          /\ call[t].phase = "idle" <=> call[t].request = NoRequest
          /\ view[t] = NoHead \/ view[t] \in AuthorityHead
          /\ granted[t] \subseteq 1..MaxToken
    /\ Len(db.ops) <= MaxOps
    /\ db.stream.head \in AuthorityHead

\* A stream that one page stored, any page can read: replaying the log accepts
\* every operation once more and gives the stored head, events, receipts and
\* snapshots.  A stream that fails this is refused at every later load.
StoredStreamHydrates == Known(db.stream) => Hydrates(db)

\* A page is told that its request is done only when it is stored, with the
\* same bytes: an append or a rejection has its receipt, a snapshot its row.
IsStored(s, r) ==
    /\ r.kind \in {"append", "rejection"} => IsRetry(s, r)
    /\ r.kind = "snapshot" => IsSavedSnapshot(s, r)
    /\ r.kind = "genesis" => s.genesis = r.genesis

AnsweredIsStored ==
    [][\A t \in Tabs :
          (AnswerFromBundle(t) \/ Resolve(t)) => IsStored(db.stream, call[t].request)]_vars

\* Two pages never hold the same writer fence.
FenceHasOneOwner ==
    \A t, u \in Tabs : t # u => granted[t] \cap granted[u] = {}

\* The page that was granted the latest fence is the only one that can still
\* write: whatever is committed carries the newest token anybody was granted.
NewestFenceWrites ==
    [][\A t \in Tabs :
          (db' # db /\ call[t].phase = "validating" /\ call'[t].phase = "committed")
             => LET r == call[t].request
                IN  r.kind \in {"append", "rejection", "snapshot"}
                       => \A u \in Tabs : \A token \in granted[u] : token <= r.fencingToken]_vars

\* Seen through the stored stream alone, overlapping calls of several pages
\* are calls of the atomic port.
Port == INSTANCE AuthorityStore WITH stream <- db.stream
ImplementsPort == Port!Spec

=============================================================================
