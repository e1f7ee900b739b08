---------------------------- MODULE MemoryAuthority ----------------------------
(***************************************************************************)
(* The in-memory adapter of the versioned port, one segment of code between*)
(* two awaits at a time (packages/persistence/src/versioned.ts,            *)
(* MemoryVersionedPersistence).                                            *)
(*                                                                         *)
(* Every method copies the head, awaits a digest of it, decides from that  *)
(* copy, awaits more digests, and only then clones the stores as they are  *)
(* at that moment, adds its own rows and swaps the clone in.  Calls whose  *)
(* promises overlap interleave at these awaits.  Callers is the set of     *)
(* calls that may be in progress at once: with one, the adapter is the     *)
(* atomic port; with two it is not.  The awaits inside one decision, which *)
(* validate its events one after the other, are taken as one segment.      *)
(***************************************************************************)
EXTENDS AuthorityRules

CONSTANTS
    Callers,    \* the calls that may overlap
    NoHead,     \* the caller has loaded no head
    NoRequest,  \* no call in progress
    MaxCommits  \* bounds the commits, for model checking

ASSUME MemoryAssumption ==
    /\ NoHead \notin AuthorityHead
    /\ NoRequest \notin Request
    /\ MaxCommits \in Nat

VARIABLES
    stores,     \* this.#stores, for one stream
    commits,    \* the number of times it was swapped
    call,       \* per caller: the segment reached, the request, the copied head
    known       \* per caller, the head it was last given

vars == <<stores, commits, call, known>>

NoCall == [at |-> "idle", request |-> NoRequest, head |-> GenesisHead]

Init ==
    /\ stores = Unborn
    /\ commits = 0
    /\ call = [c \in Callers |-> NoCall]
    /\ known = [c \in Callers |-> NoHead]

\* The stores as a call sees them after it copied the head: its own copy of
\* the head, and everything else as it is now.
Seen(c) == [stores EXCEPT !.head = call[c].head]

RequestsFrom(h) ==
    {[kind |-> "fence", expectedFencingToken |-> h.fencingToken]}
    \cup {BuildAppend(h, a, b, ids) : a \in AppendIds, b \in BatchIds, ids \in IdBatches}
    \cup {BuildRejection(h, a, record) : a \in AppendIds, record \in CommandReceipts}
    \cup {BuildSnapshot(h, id) : id \in SnapshotIds}

\* Mutant: a call that ends leaves its request behind.
Finish(c) == call' = [call EXCEPT ![c] = NoCall]
Learn(c, h) == known' = [known EXCEPT ![c] = h]

Swap(next) == /\ commits < MaxCommits
              /\ stores' = next
              /\ commits' = commits + 1

-----------------------------------------------------------------------------

\* initialize decides and commits in one segment, after its awaits.
Initialize(c, g) ==
    /\ call[c].at = "idle"
    /\ ~Known(stores)
    /\ Swap(Initialized(g))
    /\ Learn(c, GenesisHead)
    /\ UNCHANGED call

LoadHead(c) ==
    /\ call[c].at = "idle"
    /\ Known(stores)
    /\ Learn(c, stores.head)
    /\ UNCHANGED <<stores, commits, call>>

\* The segment of a call that ends with the copy of the head.  An append or a
\* rejection first looks for its receipt, and goes on when there is none.
CopyHead(c) ==
    /\ call[c].at = "idle"
    /\ known[c] # NoHead
    /\ \E r \in RequestsFrom(known[c]) :
          /\ r.kind \in {"append", "rejection"} => r.appendId \notin DOMAIN stores.receipts
          /\ call' = [call EXCEPT ![c] = [at |-> "deciding", request |-> r, head |-> stores.head]]
    /\ UNCHANGED <<stores, commits, known>>

\* The same, when the receipt is there and its bytes are those of the request:
\* the receipt answers, with the head of this moment, and nothing is written.
AnswerFromReceipt(c) ==
    /\ call[c].at = "idle"
    /\ known[c] # NoHead
    /\ \E r \in RequestsFrom(known[c]) :
          r.kind \in {"append", "rejection"} /\ IsRetry(stores, r)
    /\ Learn(c, stores.head)
    /\ UNCHANGED <<stores, commits, call>>

\* Mutant: a batch id may be used by two appends.
ChecksOutByHead(c) ==
    LET r == call[c].request
    IN  CASE r.kind = "append" -> /\ AddressesHead(Seen(c), r)
                                  /\ \A i \in 1..Len(r.events) : Continues(Seen(c), r, i)
          [] r.kind = "rejection" -> AddressesHead(Seen(c), r)
          [] r.kind = "fence" -> MayFence(Seen(c), r)

\* The checks compare the request with the copied head, and look ids up in the
\* stores of this moment; the receipt is not looked for again.
ChecksOut(c) ==
    LET r == call[c].request
    IN  CASE r.kind = "append" -> /\ AddressesHead(Seen(c), r)
                                  /\ ~BatchIdTaken(stores, r)
                                  /\ \A i \in 1..Len(r.events) : Continues(Seen(c), r, i)
          [] r.kind = "rejection" -> AddressesHead(Seen(c), r)
          [] r.kind = "fence" -> MayFence(Seen(c), r)

\* After the head was digested.
Decide(c) ==
    /\ call[c].at = "deciding"
    /\ call[c].request.kind # "snapshot"
    /\ IF ChecksOut(c) THEN call' = [call EXCEPT ![c].at = "committing"] ELSE Finish(c)
    /\ UNCHANGED <<stores, commits, known>>

\* After the digests of the new head and receipt: the swap.  The new head was
\* computed from the copied one.  A fault after the commit hides the answer.
Commit(c) ==
    LET next == Apply(Seen(c), call[c].request)
    IN  /\ call[c].at = "committing"
        /\ Swap(IF call[c].request.kind = "rejection"
                THEN [next EXCEPT !.head = stores.head] ELSE next)
        /\ Finish(c)
        /\ Learn(c, next.head) \/ UNCHANGED known

\* saveSnapshot decides and commits in the segment after it copied the head.
DecideSnapshot(c) ==
    LET r == call[c].request
    IN  /\ call[c].at = "deciding"
        /\ r.kind = "snapshot"
        /\ IF MaySave(Seen(c), r) THEN Swap(Saved(stores, r)) ELSE UNCHANGED <<stores, commits>>
        /\ Finish(c)
        /\ UNCHANGED known

Next ==
    \E c \in Callers :
        \/ \E g \in Geneses : Initialize(c, g)
        \/ LoadHead(c)
        \/ CopyHead(c)
        \/ AnswerFromReceipt(c)
        \/ Decide(c)
        \/ Commit(c)
        \/ DecideSnapshot(c)

Spec == Init /\ [][Next]_vars

-----------------------------------------------------------------------------
(* Properties *)

\* The variables keep their types, and an idle caller has no request in hand.
TypeOK ==
    /\ stores.head \in AuthorityHead
    /\ commits \in 0..MaxCommits
    /\ \A c \in Callers : /\ call[c].at \in {"idle", "deciding", "committing"}
                          /\ call[c].at = "idle" <=> call[c].request = NoRequest
                          /\ call[c].head \in AuthorityHead
                          /\ known[c] = NoHead \/ known[c] \in AuthorityHead

\* As long as the calls on one adapter do not overlap, it is the atomic port.
Port == INSTANCE AuthorityStore WITH stream <- stores
ImplementsPort == Port!Spec

\* "monotonically increasing writer fencing": no call takes the stream back to
\* an earlier fencing token, which would let the fenced-off writer in again.
FencingIncreases == [][stores'.head.fencingToken >= stores.head.fencingToken]_vars

=============================================================================
