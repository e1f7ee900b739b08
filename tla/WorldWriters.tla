----------------------------- MODULE WorldWriters -----------------------------
(***************************************************************************)
(* What a page asks of its durable world, and who writes it                *)
(* (apps/web/src/generated-world-client.ts, authority-writer.ts,           *)
(* generated-world-runtime.ts, generated-sponsor-runtime.ts and session()  *)
(* of persistence/browser-versioned.ts).                                   *)
(*                                                                         *)
(* A page sends loads, refreshes and live days to its worker, which works  *)
(* on all it has received at once; sponsor commands run on the page, in a  *)
(* session that reads the stream once and compares it again at the end.    *)
(* Live days and sponsor commands of a page take turns on its writer       *)
(* chain, a refresh does not, and other tabs know nothing of either.  A    *)
(* refresh that finds a stream of an older release deletes the database    *)
(* and builds a new one, once the connections to the old one are closed.   *)
(*                                                                         *)
(* A call to the port is one step (BrowserAuthority), the catch-up of a    *)
(* new world is one step (CivilizationDays).                               *)
(***************************************************************************)
EXTENDS Naturals, Sequences, FiniteSets

CONSTANTS
    Tabs,
    Kinds,          \* what may be asked: "refresh", "day" and the sponsor steps
    Histories,      \* the streams earlier visits have left, sequences of rows
    MaxRequests,    \* bounds the requests
    MaxFailures,    \* bounds closed pages and dead workers
    None

VARIABLES
    rows,       \* the operations of the stream; <<>> when there is no database
    sound,      \* the rows are of this release, and hydrate
    deleting,   \* a deleteDatabase waits for the connections to close
    conns,      \* the requests that hold a connection
    req,        \* the requests asked so far
    chain,      \* per tab, the writer chain: the request at work, then those that wait
    worker,     \* per tab: "starting", "alive", "failed" or "dead"
    shown,      \* per tab, the state of the civilization on the page, or None
    failures,
    raced       \* history: who found the stream changed, and by whom

vars == <<rows, sound, deleting, conns, req, chain, worker, shown, failures, raced>>

-----------------------------------------------------------------------------
(* The stream *)

Genesis == <<"genesis">>
Day(n) == <<"day", n>>
Fence == <<"fence">>
Snapshot(n) == <<"snapshot", n>>
Row(id, r) == [id |-> id, by |-> r]

Ids(s) == {s[i].id : i \in DOMAIN s}
Count(s, kinds) == Cardinality({i \in DOMAIN s : s[i].id[1] \in kinds})

\* The civilization is a function of the events; fences and snapshots are none.
Facts(s) == {id \in Ids(s) : id[1] \notin {"fence", "snapshot"}}
\* A boundary of a sponsor lives a day too.
CompletedDay(s) == Count(s, {"day", "boundary"})
Revision(s) == Len(s) - Count(s, {"fence", "snapshot"})
Token(s) == Count(s, {"fence"})
Admitted == {Genesis, Day(1)}

-----------------------------------------------------------------------------
(* Asking *)

Writers == Kinds \ {"refresh"}
OnWorker(kind) == kind \in {"refresh", "day"}
Requests == DOMAIN req

NoRequest == [tab |-> None, kind |-> None, at |-> "done", expected |-> None, bundle |-> <<>>,
              todo |-> <<>>, fenced |-> FALSE, error |-> None, told |-> None]

\* A refresh is posted at once; what writes is queued (withAuthorityWriter).
Ask(t, kind) ==
    /\ Len(req) < MaxRequests
    /\ kind \in Writers => shown[t] # None
    /\ req' = Append(req, [NoRequest EXCEPT !.tab = t, !.kind = kind, !.expected = shown[t],
                                            !.at = IF kind = "refresh" THEN "posted" ELSE "queued"])
    /\ chain' = IF kind = "refresh" THEN chain ELSE [chain EXCEPT ![t] = Append(@, Len(req) + 1)]
    /\ UNCHANGED <<rows, sound, deleting, conns, worker, shown, failures, raced>>

\* A promise chain runs one at a time.  Mutant: it starts them all.
IsNext_Any(r) == TRUE

IsNext(r) == chain[req[r].tab] # <<>> /\ Head(chain[req[r].tab]) = r

Goes(r, at) == req' = [req EXCEPT ![r].at = at]

Begin(r) ==
    /\ req[r].at = "queued" /\ IsNext(r)
    /\ Goes(r, IF req[r].kind = "day" THEN "posted" ELSE "opening")
    /\ UNCHANGED <<rows, sound, deleting, conns, chain, worker, shown, failures, raced>>

\* The worker's message handler.
Receive(r) ==
    /\ req[r].at = "posted" /\ worker[req[r].tab] \in {"starting", "alive"}
    /\ Goes(r, IF req[r].kind = "day" THEN "opening" ELSE "building")
    /\ worker' = [worker EXCEPT ![req[r].tab] = "alive"]
    /\ UNCHANGED <<rows, sound, deleting, conns, chain, shown, failures, raced>>

-----------------------------------------------------------------------------
(* Connections and answers *)

\* An open waits for a deletion that was asked for before it.
Opens(r) == ~ deleting /\ conns' = conns \cup {r}

\* port.close() in a finally.  Mutant: only of what went well.
Closed_OnSuccess(r, told) == IF told \in {"saved", "shown"} THEN conns \ {r} ELSE conns

Closed(r, told) == conns \ {r}

\* The promise of the request settles, and the chain moves on.
Settles(r, told) ==
    /\ conns' = Closed(r, told)
    /\ req' = [req EXCEPT ![r] = [NoRequest EXCEPT !.tab = req[r].tab, !.kind = req[r].kind,
                                                   !.told = told]]
    /\ chain' = [chain EXCEPT ![req[r].tab] = IF @ # <<>> /\ Head(@) = r THEN Tail(@) ELSE @]

Open(r) ==
    /\ req[r].at = "opening" /\ Opens(r)
    /\ Goes(r, "reading")
    /\ UNCHANGED <<rows, sound, deleting, chain, worker, shown, failures, raced>>

\* Who has written since the request read the stream.
Culprits(r) == {rows[i].by : i \in (Len(req[r].bundle) + 1)..Len(rows)}
Notes(r) == raced' = raced \cup {[victim |-> r, by |-> Culprits(r)]}

-----------------------------------------------------------------------------
(* A live day: appendLiveGeneratedCivilizationDay, and a refresh *)

ReadDay(r) ==
    /\ req[r].at = "reading" /\ req[r].kind = "day"
    /\ IF sound /\ rows # <<>>
       THEN /\ req' = [req EXCEPT ![r].at = "working", ![r].bundle = rows]
            /\ UNCHANGED <<conns, chain>>
       ELSE Settles(r, "rejected")
    /\ UNCHANGED <<rows, sound, deleting, worker, shown, failures, raced>>

\* acquireWriterFence compares the token, appendEventBatch the revision as well.
StillAt(r, s) == Token(rows) = Token(s) /\ (req[r].fenced => Revision(rows) = Revision(s))

AdvanceDay(r) ==
    LET b == req[r].bundle IN
    /\ req[r].at = "working" /\ req[r].kind = "day" /\ StillAt(r, b)
    /\ IF req[r].fenced
       THEN /\ rows' = Append(rows, Row(Day(CompletedDay(b) + 1), r))
            /\ Goes(r, "building") /\ conns' = conns \ {r}
       ELSE /\ rows' = Append(rows, Row(Fence, r))
            /\ req' = [req EXCEPT ![r].fenced = TRUE, ![r].bundle = rows']
            /\ UNCHANGED conns
    /\ UNCHANGED <<sound, deleting, chain, worker, shown, failures, raced>>

LoseDay(r) ==
    /\ req[r].at = "working" /\ req[r].kind = "day" /\ ~ StillAt(r, req[r].bundle)
    /\ Settles(r, "rejected") /\ Notes(r)
    /\ UNCHANGED <<rows, sound, deleting, worker, shown, failures>>

-----------------------------------------------------------------------------
(* The view: buildGeneratedWorldExperienceInternal *)

OpenView(r) ==
    /\ req[r].at = "building" /\ Opens(r)
    /\ Goes(r, "persisting")
    /\ UNCHANGED <<rows, sound, deleting, chain, worker, shown, failures, raced>>

\* persistPreparedGeneratedCivilization: a new world, or a snapshot of the head.
Persist(r) ==
    /\ req[r].at = "persisting" /\ sound
    /\ rows' = IF rows = <<>> THEN <<Row(Genesis, r), Row(Day(1), r)>>
               ELSE IF Snapshot(Revision(rows)) \in Ids(rows) THEN rows
               ELSE Append(rows, Row(Snapshot(Revision(rows)), r))
    /\ Goes(r, "showing")
    /\ UNCHANGED <<sound, deleting, conns, chain, worker, shown, failures, raced>>

\* The silent rebuild: close, delete, build once more.  A deletion that is
\* blocked counts as done, and the next open waits for it.
Rebuild(r) ==
    /\ req[r].at = "persisting" /\ ~ sound
    /\ deleting' = TRUE /\ conns' = conns \ {r} /\ Goes(r, "building")
    /\ UNCHANGED <<rows, sound, chain, worker, shown, failures, raced>>

Delete ==
    /\ deleting /\ conns = {}
    /\ deleting' = FALSE /\ rows' = <<>> /\ sound' = TRUE
    /\ UNCHANGED <<conns, req, chain, worker, shown, failures, raced>>

\* The deletion fails, or the failure is none that is rebuilt silently: the page
\* gets the world as released, and nothing is durable.
Quarantine(r) ==
    /\ req[r].at = "persisting" /\ ~ sound
    /\ Settles(r, "quarantined") /\ shown' = [shown EXCEPT ![req[r].tab] = Admitted]
    /\ UNCHANGED <<rows, sound, deleting, worker, failures, raced>>

Show(r) ==
    /\ req[r].at = "showing"
    /\ Settles(r, "shown") /\ shown' = [shown EXCEPT ![req[r].tab] = Facts(rows)]
    /\ UNCHANGED <<rows, sound, deleting, worker, failures, raced>>

-----------------------------------------------------------------------------
(* A sponsor command: sponsorGeneratedCitizen in session() *)

Establish == <<"sponsor">>
Abstain(day) == <<"abstain", day>>
Counsel == <<"counsel">>
Resolve == <<"resolve">>
Boundary(of) == <<"boundary", of>>

HasAbstained(s) == Count(s, {"abstain"}) > 0
HasOpenCounsel(s) == Counsel \in Ids(s) /\ Resolve \notin Ids(s)

\* What a step commits, in order; what has its receipt is not committed again.
StepIds(kind, s) ==
    <<Establish>> \o
    (CASE kind = "establish" -> <<>>
       [] kind = "abstain" -> <<Abstain(CompletedDay(s))>>
       [] kind = "advance-abstention" -> <<Boundary("abstain")>>
       [] kind = "counsel" -> <<Counsel>>
       [] kind = "resolve" -> <<Counsel, Resolve, Boundary("counsel")>>)
Missing(steps, s) == {i \in DOMAIN steps : steps[i] \notin Ids(s)}

\* assertGeneratedSponsorBoundaryAdmission, and the open counsel of a resolution.
Refusal(kind, expected, s) ==
    IF kind \notin {"establish", "resolve"} /\ expected # Facts(s) THEN "mismatch"
    ELSE IF \/ HasAbstained(s) /\ kind \in {"counsel", "resolve"}
            \/ (~ HasAbstained(s)) /\ kind = "advance-abstention"
            \/ kind = "resolve" /\ (~ HasOpenCounsel(s))
    THEN "refused" ELSE None

IsSponsor(r) == req[r].kind \notin {"refresh", "day"}

ReadBundle(r) ==
    LET refusal == Refusal(req[r].kind, req[r].expected, rows) IN
    /\ req[r].at = "reading" /\ IsSponsor(r)
    /\ IF sound /\ rows # <<>>
       THEN /\ req' = [req EXCEPT ![r].bundle = rows, ![r].error = refusal,
                                  ![r].todo = IF refusal = None THEN StepIds(req[r].kind, rows)
                                              ELSE <<>>,
                                  ![r].at = "working"]
            /\ UNCHANGED <<conns, chain>>
       ELSE Settles(r, "notSaved")
    /\ UNCHANGED <<rows, sound, deleting, worker, shown, failures, raced>>

\* #commitOperation: everything stored against the bundle.  Mutant: unchecked.
SameAsRead_Unchecked(r) == TRUE

SameAsRead(r) == rows = req[r].bundle

Due(r) == Missing(req[r].todo, req[r].bundle)

\* The fence of a command, and then its append.
Commit(r) ==
    /\ req[r].at = "working" /\ IsSponsor(r) /\ SameAsRead(r)
    /\ \E i \in Due(r) :
          LET id == IF req[r].fenced THEN req[r].todo[i] ELSE Fence IN
          /\ \A j \in Due(r) : i =< j
          /\ rows' = Append(rows, Row(id, r))
          /\ req' = [req EXCEPT ![r].bundle = Append(@, Row(id, r)), ![r].fenced = ~ @]
    /\ UNCHANGED <<sound, deleting, conns, chain, worker, shown, failures, raced>>

HeadRace(r) ==
    /\ req[r].at = "working" /\ IsSponsor(r) /\ Due(r) # {} /\ ~ SameAsRead(r)
    /\ req' = [req EXCEPT ![r].todo = <<>>, ![r].error = "race"]
    /\ Notes(r)
    /\ UNCHANGED <<rows, sound, deleting, conns, chain, worker, shown, failures>>

\* playerFacingSponsorFailure: two errors at once are one it does not know.
\* Mutant: only the last comparison is told.
Told_Last(error, changed) == IF changed THEN "open" ELSE "saved"

Told(error, changed) ==
    IF error = None /\ ~ changed THEN "saved"
    ELSE IF error = "refused" \/ (error # None /\ changed) THEN "notSaved"
    ELSE "open"

Finalize(r) ==
    LET told == Told(req[r].error, rows # req[r].bundle) IN
    /\ req[r].at = "working" /\ IsSponsor(r) /\ Due(r) = {}
    /\ Settles(r, told)
    /\ shown' = IF told = "saved" THEN [shown EXCEPT ![req[r].tab] = Facts(req[r].bundle)]
                ELSE shown
    /\ IF rows # req[r].bundle THEN Notes(r) ELSE UNCHANGED raced
    /\ UNCHANGED <<rows, sound, deleting, worker, failures>>

-----------------------------------------------------------------------------
(* Failures *)

OfTab(t) == {r \in Requests : req[r].tab = t /\ req[r].at # "done"}
Becomes(rs, at, told) ==
    req' = [r \in Requests |-> IF r \in rs
                               THEN [NoRequest EXCEPT !.tab = req[r].tab, !.kind = req[r].kind,
                                                      !.at = at, !.told = told]
                               ELSE req[r]]

\* worker.onerror: the script does not load; what was posted is rejected.
WorkerFails(t) ==
    /\ worker[t] = "starting" /\ failures < MaxFailures
    /\ failures' = failures + 1
    /\ worker' = [worker EXCEPT ![t] = "failed"]
    /\ Becomes({r \in OfTab(t) : req[r].at = "posted"}, "done", "rejected")
    /\ UNCHANGED <<rows, sound, deleting, conns, chain, shown, raced>>

\* The worker is killed: its requests are never answered, and nobody is told.
WorkerDies(t) ==
    LET its == {r \in OfTab(t) : OnWorker(req[r].kind) /\ req[r].at # "queued"} IN
    /\ worker[t] = "alive" /\ failures < MaxFailures
    /\ failures' = failures + 1
    /\ worker' = [worker EXCEPT ![t] = "dead"]
    /\ Becomes(its, "posted", None) /\ conns' = conns \ its
    /\ UNCHANGED <<rows, sound, deleting, chain, shown, raced>>

\* The page is closed with its worker, and opened again.
ClosePage(t) ==
    /\ failures < MaxFailures
    /\ failures' = failures + 1
    /\ worker' = [worker EXCEPT ![t] = "starting"] /\ shown' = [shown EXCEPT ![t] = None]
    /\ Becomes(OfTab(t), "done", None) /\ conns' = conns \ OfTab(t)
    /\ chain' = [chain EXCEPT ![t] = <<>>]
    /\ UNCHANGED <<rows, sound, deleting, raced>>

-----------------------------------------------------------------------------
(* What earlier visits may have left *)

Identities ==
    {Genesis, Fence, Establish, Counsel, Resolve, Boundary("abstain"), Boundary("counsel")}
    \cup ({"day", "abstain", "snapshot"} \X Nat)
StreamRows == [id : Identities, by : Nat]

\* The port refuses a second row for an operation; fences have no identity.
Once(s) == \A i, j \in DOMAIN s : s[i].id = s[j].id /\ i # j => s[i].id = Fence
\* The day in a row is none beyond the days that were lived.
DaysAreCounted(s) == \A i \in DOMAIN s : s[i].id[1] = "day" => s[i].id[2] =< CompletedDay(s)

ASSUME WritersAssumption ==
    /\ Kinds \subseteq {"refresh", "day", "establish", "abstain", "advance-abstention",
                        "counsel", "resolve"}
    /\ MaxRequests \in Nat /\ MaxFailures \in Nat
    /\ \A s \in Histories : s \in Seq(StreamRows) /\ Once(s) /\ DaysAreCounted(s)
    /\ None \notin {"saved", "mismatch", "refused", "race"}

-----------------------------------------------------------------------------
Init ==
    /\ rows \in Histories /\ sound \in BOOLEAN /\ (rows = <<>> => sound)
    /\ deleting = FALSE /\ conns = {} /\ req = <<>> /\ failures = 0 /\ raced = {}
    /\ chain = [t \in Tabs |-> <<>>]
    /\ \/ worker = [t \in Tabs |-> "starting"] /\ shown = [t \in Tabs |-> None]
       \/ /\ sound /\ rows # <<>>
          /\ worker = [t \in Tabs |-> "alive"] /\ shown = [t \in Tabs |-> Facts(rows)]

Step(r) ==
    \/ Begin(r) \/ Receive(r) \/ Open(r)
    \/ ReadDay(r) \/ AdvanceDay(r) \/ LoseDay(r)
    \/ OpenView(r) \/ Persist(r) \/ Rebuild(r) \/ Quarantine(r) \/ Show(r)
    \/ ReadBundle(r) \/ Commit(r) \/ HeadRace(r) \/ Finalize(r)

Next ==
    \/ \E t \in Tabs, kind \in Kinds : Ask(t, kind)
    \/ \E r \in Requests : Step(r)
    \/ Delete
    \/ \E t \in Tabs : WorkerFails(t) \/ WorkerDies(t) \/ ClosePage(t)

\* Promises settle and transactions end; the browser deletes what it can.
Fairness ==
    /\ \A r \in 1..MaxRequests : WF_vars(r \in Requests /\ Step(r))
    /\ WF_vars(Delete)

Spec == Init /\ [][Next]_vars /\ Fairness

-----------------------------------------------------------------------------
(* Properties *)

\* Whoever sends it, from whatever page and however often, a day or a sponsor
\* command is in the stream once.
EachOnce == Once(rows)

\* Live days and sponsor commands of one page never find the stream changed by
\* each other: only a refresh or another tab comes between.
OnePageTakesTurns ==
    \A race \in raced :
        /\ race.by # {}
        /\ \A r \in race.by : req[r].kind = "refresh" \/ req[r].tab # req[race.victim].tab

\* A page that says a sponsor step is saved has all of it in the stream, as the
\* page shows it, with nothing of anybody else's in between.
SavedIsWhole ==
    [][\A r \in Requests :
          req[r].told # "saved" /\ req'[r].told = "saved" =>
             /\ Missing(StepIds(req[r].kind, rows), rows) = {}
             /\ shown'[req[r].tab] = Facts(rows)]_vars

\* Every request is answered, however the others fail and whoever rebuilds the
\* database, unless its page has lost its worker.
EveryRequestEnds ==
    \A r \in 1..MaxRequests :
        r \in Requests ~> (r \in Requests /\ (\/ req[r].at = "done"
                                              \/ worker[req[r].tab] \in {"failed", "dead"}))
=============================================================================
