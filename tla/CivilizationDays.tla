--------------------------- MODULE CivilizationDays ---------------------------
(***************************************************************************)
(* The jobs that move the generated civilization forward on its authority  *)
(* stream, and what they do to each other and after a crash                *)
(* (apps/web/src/persistence/generated-civilization.ts, the catch-up of    *)
(* packages/persistence/src/versioned-catchup.ts, and the commits of       *)
(* apps/web/src/generated-sponsor-runtime.ts).                             *)
(*                                                                         *)
(*   a refresh   initializes the stream, carries it to day 1 if it is not  *)
(*               there, and saves a snapshot of the head it found;         *)
(*   a live day  takes the fence and commits one more day;                 *)
(*   a return    takes the fence, plans 1..7 days and commits them as the  *)
(*               chapters of a catch-up operation, or resumes one;         *)
(*   a sponsor   command takes the fence and commits an event of its own,  *)
(*               which for the boundary of a counsel or of an abstention   *)
(*               is one more day.                                          *)
(*                                                                         *)
(* Every call to the port is one step, as BrowserAuthority implements it;  *)
(* between two calls of a job the other jobs run, and a job can die.  The  *)
(* state of the civilization is a function of the events, so a replay is   *)
(* the ledger up to the sequence it was asked for.                         *)
(***************************************************************************)
EXTENDS AuthorityRules

CONSTANTS
    Jobs,               \* jobs that may run at once (tabs; a refresh beside a writer)
    Returns,            \* operation ids of return catch-ups
    Commands,           \* sponsor commands
    DayCommands,        \* those that live a day, the boundaries
    MaxDay,             \* maximumHorizonDays (365)
    MaxReturnDays,      \* days one return may ask for (7)
    MaxCrashes,         \* bounds the crashes, for model checking
    None

ASSUME DaysAssumption ==
    /\ MaxDay \in Nat \ {0}
    /\ MaxReturnDays \in Nat \ {0}
    /\ MaxCrashes \in Nat
    /\ None \notin Returns \cup Commands
    /\ DayCommands \subseteq Commands
    /\ IsFiniteSet(DayCommands)

VARIABLES
    stream,     \* the durable stream, through the atomic port
    job,        \* per job, what it is doing
    pending,    \* the return kept in localStorage, and the day it leads to
    crashes     \* how many jobs have died

vars == <<stream, job, pending, crashes>>

-----------------------------------------------------------------------------
(* Identifiers *)

Day(d) == <<"day", d>>              \* the checkpoint event of day d, its append and snapshot
Sponsor(k, d) == <<"sponsor", k, d>>    \* the event of a command, on day d
Start(op) == <<"start", op>>        \* the marker receipts of an operation
Progress(op, n) == <<"progress", op, n>>
Authority(rev) == <<"authority", rev>>

GenesisOperation == "generated-day-1"
Operations == Returns \cup {GenesisOperation}

-----------------------------------------------------------------------------
(* The civilization on the stream *)

\* A live day and a return stop at MaxDay, a boundary does not look.
LastDay == MaxDay + Cardinality(DayCommands)
LivesDay(id, d) == id = Day(d) \/ \E k \in DayCommands : id = Sponsor(k, d)

\* The port knows the ids that the jobs make, and none of them is that of the
\* snapshot a stream is initialized with.
ASSUME IdsAssumption ==
    /\ Geneses # {}
    /\ \A d \in 1..LastDay :
          /\ Day(d) \in AppendIds \cap BatchIds \cap EventIds
          /\ Day(d) # GenesisSnapshot
    /\ \A k \in Commands :
          /\ <<"sponsor", k>> \in AppendIds \cap BatchIds
          /\ \A d \in 0..LastDay : Sponsor(k, d) \in EventIds
    /\ \A op \in Operations :
          /\ Start(op) \in AppendIds
          /\ \A n \in 0..MaxDay : Progress(op, n) \in AppendIds

\* scheduler.completedDay after the first n events.
CompletedDay(n) ==
    LET days == {0} \cup {d \in 1..LastDay :
                            \E m \in 1..n : LivesDay(stream.events[m].eventId, d)}
    IN  CHOOSE d \in days : \A c \in days : c <= d

DayRequest(h, d) == BuildAppend(h, Day(d), Day(d), <<Day(d)>>)

\* The plan an operation records in its start marker: its confirmation id, and
\* the hash of its chapters.  A day is a function of the days before it, so the
\* chapters follow from the confirmation and the event hash they chain to.
Plan(op, base, from, to) ==
    [operation |-> op, eventHash |-> base.lastEventHash,
     confirmation |-> [from |-> from, to |-> to, revision |-> base.revision,
                       sequence |-> base.lastSequence, token |-> base.fencingToken]]

TotalChapters(plan) == plan.confirmation.to - plan.confirmation.from

\* The head a plan expects before its i-th chapter.
PlanHead(plan, i) ==
    LET c == plan.confirmation
    IN  [revision |-> c.revision + i - 1, lastSequence |-> c.sequence + i - 1,
         simulationTime |-> c.from + i - 1,
         lastEventHash |-> plan.eventHash
                           \o [j \in 1..(i - 1) |-> <<Day(c.from + j), Day(c.from + j)>>],
         fencingToken |-> c.token]

\* Mutant: the chapters begin one day late.
LateChapter(plan, i) == DayRequest(PlanHead(plan, i), plan.confirmation.from + i + 1)
Chapter(plan, i) == DayRequest(PlanHead(plan, i), plan.confirmation.from + i)

NoPlan == Plan(None, GenesisHead, 0, 0)
GenesisPlan == Plan(GenesisOperation, GenesisHead, 0, 1)

\* Mutant: a marker counts the chapter that is about to be appended.
MarkerAhead(plan, next) ==
    [plan |-> plan, nextChapter |-> next + 1,
     status |-> IF next = TotalChapters(plan) THEN "complete" ELSE "in-progress"]

Marker(plan, next) ==
    [plan |-> plan, nextChapter |-> next,
     status |-> IF next = TotalChapters(plan) THEN "complete" ELSE "in-progress"]

Started(op) == Start(op) \in DOMAIN stream.receipts
MarkerAt(a) == stream.receipts[a].request.commandReceipt

\* Where the markers of an operation say it stands.
Furthest(op) ==
    LET marks == {MarkerAt(Start(op)).nextChapter}
                 \cup {n + 1 : n \in {n \in 0..MaxDay : Progress(op, n) \in DOMAIN stream.receipts}}
    IN  CHOOSE n \in marks : \A m \in marks : m <= n

-----------------------------------------------------------------------------
(* Jobs *)

NoJob == [kind |-> None, at |-> "idle", op |-> None, days |-> 0,
          head |-> GenesisHead, plan |-> NoPlan, next |-> 0, error |-> None]

Init ==
    /\ stream = Unborn
    /\ job = [j \in Jobs |-> NoJob]
    /\ pending = None
    /\ crashes = 0

Become(j, next) == job' = [job EXCEPT ![j] = next]

\* A job that has ended keeps what it was, or how it failed.
Done(b) == [NoJob EXCEPT !.kind = b.kind, !.op = b.op, !.at = "done"]
Succeed(j) == Become(j, Done(job[j]))
Fail(j, code) == Become(j, [NoJob EXCEPT !.at = "failed", !.error = code])
Write(next) == stream' = next

Idle(j) == job[j].at = "idle"

\* A refresh, and the first load: initialize, then persistAuthorityCatchUp with
\* the plan for day 1, which is the same every time.
StartRefresh(j) ==
    /\ Idle(j)
    /\ Write(IF Known(stream) THEN stream
             ELSE Initialized(CHOOSE g \in Geneses : TRUE))
    /\ Become(j, [NoJob EXCEPT !.kind = "refresh", !.at = "begin",
                               !.op = GenesisOperation, !.plan = GenesisPlan])
    /\ UNCHANGED <<pending, crashes>>

\* The other jobs start from a world that a refresh has shown.
Playable == Known(stream) /\ CompletedDay(stream.head.lastSequence) >= 1

StartLiveDay(j) ==
    /\ Idle(j)
    /\ Playable
    /\ Become(j, [NoJob EXCEPT !.kind = "day", !.at = "load"])
    /\ UNCHANGED <<stream, pending, crashes>>

StartSponsor(j, k) ==
    /\ Idle(j)
    /\ Playable
    /\ <<"sponsor", k>> \notin DOMAIN stream.receipts
    /\ Become(j, [NoJob EXCEPT !.kind = "sponsor", !.at = "load", !.op = k])
    /\ UNCHANGED <<stream, pending, crashes>>

\* A page shows the civilization as it is, or as it was when it was loaded.
Today == CompletedDay(stream.head.lastSequence)
ShownDays == 1..Today

\* The days a page that shows this day offers for the pending return.
Remaining(shown) ==
    IF pending.to - shown < MaxReturnDays THEN pending.to - shown ELSE MaxReturnDays

\* The player confirms a return: what is left of the pending one, or a new one.
\* catchUpLiveGeneratedCivilizationDays first looks for its start marker.
StartReturn(j, op, shown, days) ==
    /\ Idle(j)
    /\ Playable
    /\ shown \in ShownDays
    /\ \/ /\ pending = None
          /\ ~Started(op)
          /\ pending' = [op |-> op, to |-> shown + days]
       \/ /\ pending # None
          /\ pending.op = op
          /\ shown < pending.to
          /\ days = Remaining(shown)
          /\ pending' = pending
    /\ Become(j, IF Started(op)
                 THEN [NoJob EXCEPT !.kind = "return", !.op = op, !.at = "reopen"]
                 ELSE [NoJob EXCEPT !.kind = "return", !.op = op, !.at = "load", !.days = days])
    /\ UNCHANGED <<stream, crashes>>

LoadHead(j) ==
    /\ job[j].at = "load"
    /\ Become(j, [job[j] EXCEPT !.at = "fence", !.head = stream.head])
    /\ UNCHANGED <<stream, pending, crashes>>

\* What a job does with the head its fence returned: the latest snapshot is
\* replayed to it, and the next day, days or command is prepared.
Prepared(b, h) ==
    LET from == CompletedDay(h.lastSequence)
        to == IF from + b.days < MaxDay THEN from + b.days ELSE MaxDay
        open == [b EXCEPT !.head = h]
        own == IF b.op \in DayCommands THEN from + 1 ELSE from
    IN  CASE b.kind = "sponsor" -> [open EXCEPT !.at = "append", !.days = own]
          [] b.kind # "sponsor" /\ from >= MaxDay -> Done(b)
          [] b.kind = "day" /\ from < MaxDay -> [open EXCEPT !.at = "append", !.days = from + 1]
          [] b.kind = "return" /\ from < MaxDay ->
               [open EXCEPT !.at = "begin", !.days = 0, !.plan = Plan(b.op, h, from, to)]

\* acquireWriterFence, which fails when somebody else took the fence since the
\* head was loaded, and when the tokens are used up.
TakeFence(j) ==
    LET r == [kind |-> "fence", expectedFencingToken |-> job[j].head.fencingToken]
        next == Fenced(stream, r)
    IN  /\ job[j].at = "fence"
        /\ \/ /\ MayFence(stream, r)
              /\ Write(next)
              /\ Become(j, Prepared(job[j], next.head))
           \/ /\ ~MayFence(stream, r)
              /\ Fail(j, "STALE_FENCE")
              /\ UNCHANGED stream
        /\ UNCHANGED <<pending, crashes>>

\* Mutant: the plan is rebuilt on the head of today.
BaseOfToday(c, origin) == stream.head

\* The head a confirmed plan began at, as a resume rebuilds it: the state is
\* replayed up to the sequence in the confirmation, and the event hash is taken
\* from the snapshot the replay began at.
BaseOf(c, origin) ==
    [revision |-> c.revision, lastSequence |-> c.sequence,
     fencingToken |-> c.token, lastEventHash |-> origin.lastEventHash]

\* A resumed return rebuilds its plan from the confirmation in its start marker.
Reopen(j) ==
    LET b == job[j]
        c == MarkerAt(Start(b.op)).plan.confirmation
        id == IF Day(c.from) \in DOMAIN stream.snapshots THEN Day(c.from)
              ELSE CHOOSE latest \in LatestSnapshots(stream) : TRUE
        origin == stream.snapshots[id]
    IN  /\ b.at = "reopen"
        /\ IF origin.baseSequence > c.sequence
           THEN Fail(j, "INVALID_INPUT")
           ELSE Become(j, [b EXCEPT !.at = "begin",
                                    !.plan = Plan(b.op, BaseOf(c, origin), c.from, c.to)])
        /\ UNCHANGED <<stream, pending, crashes>>

\* The live day's, or the sponsor's, one event.
Append1(j) ==
    LET b == job[j]
        r == IF b.kind = "day" THEN DayRequest(b.head, b.days)
             ELSE BuildAppend(b.head, <<"sponsor", b.op>>, <<"sponsor", b.op>>,
                              <<Sponsor(b.op, b.days)>>)
        next == Appended(stream, r)
    IN  /\ b.at = "append"
        /\ IF MayAppend(stream, r)
           THEN /\ Write(next)
                /\ IF b.kind = "day" THEN Become(j, [b EXCEPT !.head = next.head, !.at = "readback"])
                                     ELSE Succeed(j)
           ELSE Fail(j, "STALE") /\ UNCHANGED stream
        /\ UNCHANGED <<pending, crashes>>

\* Reality refuses the sponsor's command: the refusal is recorded under its id.
\* A boundary has no such record.
RefuseSponsor(j) ==
    LET b == job[j]
        r == BuildRejection(b.head, <<"sponsor", b.op>>, None)
    IN  /\ b.at = "append"
        /\ b.kind = "sponsor" /\ b.op \notin DayCommands
        /\ MayReject(stream, r)
        /\ Write(Rejected(stream, r))
        /\ Fail(j, "COMMAND_REJECTED")
        /\ UNCHANGED <<pending, crashes>>

-----------------------------------------------------------------------------
(* persistAuthorityCatchUp *)

\* Mutant: a chapter is taken as committed by its id.
CommittedById(plan, n) == TRUE

\* Chapters that are there already, with the same bytes, from the first on.
Committed(plan, n) ==
    \A i \in 1..n : IsRetry(stream, Chapter(plan, i))
Present(plan, i) == Chapter(plan, i).appendId \in DOMAIN stream.receipts
Prefix(plan) == CHOOSE n \in 0..TotalChapters(plan) :
                    /\ \A i \in 1..n : Present(plan, i)
                    /\ n < TotalChapters(plan) => ~Present(plan, n + 1)

\* The receipt-only command that carries a marker.
Record(id, h, marker) == BuildRejection(h, id, marker)

\* Mutant: the loop runs one chapter past the plan.
OnwardPastTheEnd(j, n, h) ==
    LET b == job[j]
    IN  Become(j, [b EXCEPT !.next = n, !.head = h,
                            !.at = IF n <= TotalChapters(b.plan) THEN "chapter" ELSE "save"])

\* Continue at the chapter after n, or, when that was the last one, with the
\* snapshot: a refresh saves it of this head, a return reads the head back.
Onward(j, n, h) ==
    LET b == job[j]
    IN  Become(j, [b EXCEPT !.next = n, !.head = h,
                            !.at = CASE n < TotalChapters(b.plan) -> "chapter"
                                     [] n = TotalChapters(b.plan) /\ b.kind = "refresh" -> "save"
                                     [] n = TotalChapters(b.plan) /\ b.kind # "refresh" -> "readback"])

\* No start marker yet: the head is loaded ...
OpenOperation(j) ==
    LET b == job[j]
    IN  /\ b.at = "begin"
        /\ ~Started(b.op)
        /\ Become(j, [b EXCEPT !.at = "start", !.head = stream.head])
        /\ UNCHANGED <<stream, pending, crashes>>

\* ... the prefix of the plan that is committed is found, and the marker that
\* starts the operation there is recorded at that head.
BeginOperation(j) ==
    LET b == job[j]
        n == Prefix(b.plan)
        r == Record(Start(b.op), b.head, Marker(b.plan, n))
        sound == /\ Committed(b.plan, n)
                 /\ \A i \in (n + 1)..TotalChapters(b.plan) : ~Present(b.plan, i)
    IN  /\ b.at = "start"
        /\ \/ /\ sound
              /\ MayReject(stream, r)
              /\ Write(Rejected(stream, r))
              /\ Onward(j, n, b.head)
           \/ /\ sound
              /\ IsRetry(stream, r)
              /\ Onward(j, n, b.head)
              /\ UNCHANGED stream
           \/ /\ sound
              /\ ~MayReject(stream, r) /\ ~IsRetry(stream, r)
              /\ Fail(j, "STALE")
              /\ UNCHANGED stream
           \/ /\ ~sound
              /\ Fail(j, "CATCH_UP_ID_COLLISION")
              /\ UNCHANGED stream
        /\ UNCHANGED <<pending, crashes>>

\* Mutant: the plans are compared by their confirmation, not by their hash.
SameConfirmation(b) == MarkerAt(Start(b.op)).plan.confirmation = b.plan.confirmation
RecordedPlan(b) == MarkerAt(Start(b.op)).plan = b.plan

\* There is one: it must record the same plan, and its progress is resumed.
ContinueOperation(j) ==
    LET b == job[j]
    IN  /\ b.at = "begin"
        /\ Started(b.op)
        /\ IF RecordedPlan(b)
           THEN Onward(j, Furthest(b.op), stream.head)
           ELSE Fail(j, "CATCH_UP_ID_COLLISION")
        /\ UNCHANGED <<stream, pending, crashes>>

AppendChapter(j) ==
    LET b == job[j]
        r == Chapter(b.plan, b.next + 1)
        next == Appended(stream, r)
    IN  /\ b.at = "chapter"
        /\ \/ /\ MayAppend(stream, r)
              /\ Write(next)
              /\ Become(j, [b EXCEPT !.at = "mark", !.head = next.head])
           \/ /\ IsRetry(stream, r)
              /\ Become(j, [b EXCEPT !.at = "mark", !.head = stream.head])
              /\ UNCHANGED stream
           \/ /\ ~MayAppend(stream, r) /\ ~IsRetry(stream, r)
              /\ Fail(j, "STALE")
              /\ UNCHANGED stream
        /\ UNCHANGED <<pending, crashes>>

\* The progress marker is written at the head the append returned.
MarkChapter(j) ==
    LET b == job[j]
        r == Record(Progress(b.op, b.next), b.head, Marker(b.plan, b.next + 1))
    IN  /\ b.at = "mark"
        /\ \/ /\ MayReject(stream, r)
              /\ Write(Rejected(stream, r))
              /\ Onward(j, b.next + 1, b.head)
           \/ /\ IsRetry(stream, r)
              /\ Onward(j, b.next + 1, b.head)
              /\ UNCHANGED stream
           \/ /\ ~MayReject(stream, r) /\ ~IsRetry(stream, r)
              /\ Fail(j, "STALE")
              /\ UNCHANGED stream
        /\ UNCHANGED <<pending, crashes>>

-----------------------------------------------------------------------------
(* Snapshots *)

\* Mutant: the state is saved under the name of the day without a comparison.
AnyState(j) == TRUE

\* A live day saves the state it computed, and a snapshot must hold the state
\* of the head; a return replays whatever head it reads back.
SameState(j) == job[j].kind = "day" => stream.head.lastEventHash = job[j].head.lastEventHash

\* loadHead after the append of a live day and after the chapters of a return.
ReadBack(j) ==
    LET b == job[j]
        day == IF b.kind = "day" THEN b.days ELSE CompletedDay(stream.head.lastSequence)
    IN  /\ b.at = "readback"
        /\ IF SameState(j)
           THEN Become(j, [b EXCEPT !.at = "save", !.head = stream.head, !.days = day])
           ELSE Fail(j, "STALE")
        /\ UNCHANGED <<stream, pending, crashes>>

\* Mutant: a refresh does not tell an extended authority from day 1.
NameOfDayOne(b) == IF b.kind # "refresh" THEN Day(b.days) ELSE Day(1)

\* The name of the snapshot a job saves of the head it holds.
SnapshotName(b) ==
    CASE b.kind # "refresh" -> Day(b.days)
      [] b.kind = "refresh" /\ b.head.lastSequence = 1 -> Day(1)
      [] b.kind = "refresh" /\ b.head.lastSequence # 1 -> Authority(b.head.revision)

SaveSnapshot(j) ==
    LET b == job[j]
        r == BuildSnapshot(b.head, SnapshotName(b))
        ok == DescribesHead(stream, r)
        taken == r.snapshotId \in DOMAIN stream.snapshots
    IN  /\ b.at = "save"
        /\ \/ /\ MaySave(stream, r)
              /\ Write(Saved(stream, r))
              /\ Succeed(j)
           \/ /\ ok /\ IsSavedSnapshot(stream, r)
              /\ Succeed(j)
              /\ UNCHANGED stream
           \/ /\ ok /\ taken /\ ~IsSavedSnapshot(stream, r)
              /\ Fail(j, "SNAPSHOT_ID_COLLISION")
              /\ UNCHANGED stream
           \/ /\ ok /\ ~taken /\ ~MaySave(stream, r)
              /\ Fail(j, "STORAGE_LIMIT")
              /\ UNCHANGED stream
           \/ /\ ~ok
              /\ Fail(j, "STALE")
              /\ UNCHANGED stream
        /\ UNCHANGED <<pending, crashes>>

-----------------------------------------------------------------------------
(* Ends *)

\* A job that is done resolves; a return that succeeded is no longer pending,
\* unless the browser denies its removal.
Finish(j) ==
    /\ job[j].at = "done"
    /\ pending' \in {pending} \cup (IF job[j].kind = "return" THEN {None} ELSE {})
    /\ Become(j, NoJob)
    /\ UNCHANGED <<stream, crashes>>

\* A job that failed rejects, and nothing it committed is taken back.
Reject(j) ==
    /\ job[j].at = "failed"
    /\ Become(j, NoJob)
    /\ UNCHANGED <<stream, pending, crashes>>

\* The player gives the pending return up, on a page that still offers it.
Dismiss ==
    /\ pending # None
    /\ \E shown \in ShownDays : shown < pending.to
    /\ pending' = None
    /\ UNCHANGED <<stream, job, crashes>>

\* A tab is closed, or a call fails, between any two steps.
Crash(j) ==
    /\ ~Idle(j)
    /\ crashes < MaxCrashes
    /\ crashes' = crashes + 1
    /\ Become(j, NoJob)
    /\ UNCHANGED <<stream, pending>>

StepOf(j) ==
    \/ LoadHead(j)
    \/ TakeFence(j)
    \/ Reopen(j)
    \/ Append1(j)
    \/ RefuseSponsor(j)
    \/ OpenOperation(j)
    \/ BeginOperation(j)
    \/ ContinueOperation(j)
    \/ AppendChapter(j)
    \/ MarkChapter(j)
    \/ ReadBack(j)
    \/ SaveSnapshot(j)
    \/ Finish(j)
    \/ Reject(j)

Next ==
    \/ \E j \in Jobs :
          \/ StartRefresh(j)
          \/ StartLiveDay(j)
          \/ \E k \in Commands : StartSponsor(j, k)
          \/ \E op \in Returns, shown \in 1..LastDay, days \in 1..MaxReturnDays :
                StartReturn(j, op, shown, days)
          \/ StepOf(j)
          \/ Crash(j)
    \/ Dismiss

Spec == Init /\ [][Next]_vars

\* A running job is driven by its promises, and a player whose return is pending
\* and offered again by a page that shows today confirms it.
Resumes(op) ==
    \E j \in Jobs, days \in 1..MaxReturnDays :
        pending # None /\ StartReturn(j, op, Today, days)

FairSpec ==
    /\ Spec
    /\ \A j \in Jobs : WF_vars(StepOf(j))
    /\ \A op \in Returns : SF_vars(Resumes(op))

-----------------------------------------------------------------------------
(* Properties *)

Ats == {"idle", "load", "fence", "reopen", "append", "begin", "start", "chapter",
        "mark", "readback", "save", "done", "failed"}

\* The variables keep their types; a catch-up stays within its chapters.
TypeOK ==
    /\ pending \in {None} \cup [op : Returns, to : 2..(LastDay + MaxReturnDays)]
    /\ crashes \in 0..MaxCrashes
    /\ stream.head \in AuthorityHead
    /\ \A j \in Jobs : /\ job[j].at \in Ats
                       /\ job[j].op \in Operations \cup Commands \cup {None}
                       /\ job[j].head \in AuthorityHead
                       /\ job[j].next \in 0..TotalChapters(job[j].plan)

\* The civilization lives every day once and in order: whoever commits day d, a
\* refresh, a live day, a return or a boundary, the ledger before it has been
\* through exactly the days before d.
DaysInOrder ==
    \A n \in DOMAIN stream.events : \A d \in 1..LastDay :
        LivesDay(stream.events[n].eventId, d) => CompletedDay(n - 1) = d - 1

\* A marker never runs ahead of the ledger: when it says that n chapters are
\* done, these n batches are stored with the bytes of the plan.
MarkersAreTrue ==
    \A a \in DOMAIN stream.receipts :
        a[1] \in {"start", "progress"}
            => \A i \in 1..MarkerAt(a).nextChapter : IsRetry(stream, Chapter(MarkerAt(a).plan, i))

\* An operation has one plan for life: whichever job commits a chapter for it,
\* in whatever tab and after whatever crash, takes it from the recorded plan,
\* so that no resume adds days the player did not confirm.
OnePlanPerOperation ==
    \A j \in Jobs :
        job[j].at \in {"chapter", "mark"}
            => Started(job[j].op) /\ MarkerAt(Start(job[j].op)).plan = job[j].plan

\* The snapshot named after a day is the civilization at the end of that day.
SnapshotsAreOfTheirDay ==
    \A d \in 1..LastDay :
        Day(d) \in DOMAIN stream.snapshots
            => CompletedDay(stream.snapshots[Day(d)].baseSequence) = d

\* Nobody else has written since the operation was started.
Undisturbed(op) ==
    LET c == MarkerAt(Start(op)).plan.confirmation
    IN  \E n \in 0..(c.to - c.from) :
            /\ stream.head.revision = c.revision + n
            /\ stream.head.lastSequence = c.sequence + n
            /\ stream.head.fencingToken = c.token

\* "a crash after 3 of 7 committed days resumes the remainder": a resume that
\* finds the stream as its operation left it rebuilds the recorded plan.
ResumeRebuildsThePlan ==
    \A j \in Jobs :
        (job[j].kind = "return" /\ job[j].at = "begin" /\ Started(job[j].op)
            /\ Undisturbed(job[j].op))
           => job[j].plan = MarkerAt(Start(job[j].op)).plan

\* "Durable batch/event/receipt/head commit never depends on later snapshot
\* success": no refresh, day or return is turned away for the snapshots saved.
SnapshotsNeverBlock == \A j \in Jobs : job[j].error # "STORAGE_LIMIT"

\* The snapshot a resume starts from is the one the plan began at.
OriginSaved(op) ==
    LET c == MarkerAt(Start(op)).plan.confirmation
    IN  /\ Day(c.from) \in DOMAIN stream.snapshots
        /\ stream.snapshots[Day(c.from)].baseSequence = c.sequence

\* The days of an operation have all been lived.
Lived(op) == Today >= MarkerAt(Start(op)).plan.confirmation.to

\* A return that began right at the snapshot of its day, that was confirmed on a
\* page that showed today, and that nobody has disturbed, has its days lived in
\* the end, whatever crashes.
Resumable(op) ==
    /\ pending # None /\ pending.op = op
    /\ Started(op) /\ pending.to >= MarkerAt(Start(op)).plan.confirmation.to
    /\ Undisturbed(op) /\ OriginSaved(op)
ReturnCompletes ==
    \A op \in Returns : Resumable(op) ~> (Started(op) /\ Lived(op)) \/ ~Resumable(op)

\* "Ignoring storage denial leaves a stale banner at worst": when nothing runs, a
\* return that is kept as pending is one that the player is still offered.
PendingIsOffered ==
    (pending # None /\ \A j \in Jobs : Idle(j)) => Today < pending.to

=============================================================================
