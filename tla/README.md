# eonfolk: the authority stream and the days that are lived on it

A TLA+ development for the parts of eonfolk that decide whether a civilization
survives: the versioned authority persistence, its in-memory and IndexedDB
adapters, the jobs that move the generated civilization forward on it, the pages
and workers that start those jobs, the accounts of the civilization itself, the
live day with its decisions and its scheduler, and the days lived for a sponsor. The
modules are written from the source; each definition is tied to its lines in
`PROJECT.json` ("map"). The repository's own sketch, `src/formal/Persistence.tla`,
is an independent and more abstract model; nothing here rests on it.

All paths below are relative to `src/`.

## 1. The system

eonfolk runs a small civilization in the browser. Everything that happens is an
event on one *authority stream*; the state is a fold over the events.

| part | state | operations | talks to |
|---|---|---|---|
| versioned port and its rules (`packages/persistence/src/versioned*.ts`, `bounds.ts`) | per stream: head, events, receipts, snapshots | initialize, acquireWriterFence, appendEventBatch, recordRejectedCommand, saveSnapshot, reads, replay | implemented by the adapters |
| in-memory adapter (`versioned.ts`) | maps in one object, swapped whole | the port | tests; the browser adapter replays its log through it |
| IndexedDB adapter (`apps/web/src/persistence/browser-versioned.ts`) | stores of rows and an operation log | the port, `session()` | IndexedDB transactions, other tabs |
| catch-up (`packages/persistence/src/versioned-catchup.ts`) | marker receipts on the stream | persistAuthorityCatchUp | the port |
| generated civilization (`apps/web/src/persistence/generated-civilization.ts`) | none of its own | persistPlan, live day, return | the port, catch-up, kernel |
| sponsor runtime (`apps/web/src/generated-sponsor-runtime.ts`) | a session | establish, abstain, counsel, resolve, live a boundary | the port, the writer chain |
| world runtime (`generated-world-runtime.ts`) | last built experience | load, refresh, advance, catch up, fence choice, silent rebuild | adapter, civilization |
| world client, worker, writer chain (`generated-world-client.ts`, `generated-world-runtime.worker.ts`, `authority-writer.ts`) | pending requests, writer chain | post, answer, fail | UI, runtime |
| play clock and UI (`play-clock.ts`, `V1GenesisApp.tsx`) | pending return and last active time in localStorage | propose, confirm, dismiss, live-day interval | client |
| civilization kernel and audit (`packages/civilization/src/kernel.ts`, `population.ts`, `audit.ts`) | stocks, ledger of transfers, processes, projects, households, migrations, foundings | pure transition functions, each throws or returns a new state | scheduler, day |
| scheduler and live day (`scheduler.ts`, `pressures.ts`, `experiment.ts`) | plans, sites and talks of the citizens between the days | decide, originate, advance one day, expedition, renew plans | kernel, cognition |
| sponsor domain (`packages/civilization/src/sponsor.ts`, `packages/persistence/src/civilization-sponsor.ts`) | covenant, abstentions, counsels | commands, and the boundary day of an abstention or a resolved counsel | kernel, scheduler |
| persisted civilization (`packages/persistence/src/civilization*.ts`) | none | plan, reduce, replay | port, kernel |
| cognition (`packages/cognition/src`) | memories, standing plans, a gateway | decide with a timeout, fall back | model provider |
| simulation (`packages/sim/src`) | world state | transition, reduce, replay | protocol |
| legacy persistence (`memory.ts`, `v1-indexeddb.ts`) | snapshot and journal | save, load | older pages |
| protocol, worldgen, presentation, diagnostics | none, or a ring buffer | pure functions, best-effort records | everything |

What is hard here is not in any one function. Hashing is asynchronous
(`crypto.subtle`), so every method of every adapter is cut into segments by its
awaits. Several tabs share one database. A job is five to twenty port calls, a tab can
close between any two of them, and its caller then starts it again. Snapshots,
markers and the pending return are copies of what the ledger already says, and
each can go stale. What makes each part correct:

- *port*: a gapless hash-chained ledger, causes before effects, receipts that
  describe exactly what was committed, one writer at a time, snapshots that can
  be replayed from, nothing committed ever changed;
- *adapters*: overlapping calls look like single steps of the port; what one
  page wrote, every page can read;
- *catch-up and days*: each day lived once and in order, whoever lives it; a
  marker is true; an operation is one plan for life and can be finished;
- *play clock*: a return that is pending can be offered;
- *client, worker and session*: what a page does is recorded once and in turn, what
  it tells the player is saved is saved, and no request waits for ever;
- *kernel*: in whatever order it is called, its accounts pass its own audit, and its homes and
  journeys do unless a call unlinked them;
- *scheduler and day*: no more labour is given out in a day than there is, an
  expedition is never left half made, a day does not fail, a late answer changes nothing;
- *sponsor*: what the player does to a citizen is lived, but in the cases of section 4.

## 2. Modules

```
AuthorityRules        pure rules of one stream (what may be committed, and the result)
  |-- AuthorityRulesProofs        lemmas on the rules, for every proof module below
  |-- AuthorityStore        the atomic port: each call one step      <-- abstract specification
  |     |-- AuthorityStoreProofs     (theorems)
  |     '-- MCAuthorityStore
  |-- MemoryAuthority       the in-memory adapter, await by await    -- implements AuthorityStore
  |     |-- MemoryAuthorityProofs    (theorems)
  |     '-- MCMemoryAuthority        (serial: holds; overlapping: refuted)
  |-- BrowserAuthority      the IndexedDB adapter, several tabs      -- implements AuthorityStore
  |     |-- BrowserAuthorityProofs   (theorems)
  |     '-- MCBrowserAuthority
  |-- CivilizationDays      refresh, live day, return, sponsor jobs on the atomic port
  |     |-- CivilizationDaysProofs   (theorems)
  |     '-- MCCivilizationDays
  '...  WorldWriters        pages, writer chain, workers, one database with its connections
        |-- WorldWritersProofs       (theorems)
        '-- MCWorldWriters         (stands alone; names its facts after the same stream)

CivilizationRules     pure rules of the kernel, and its audit
  |-- CivilizationKernel    every call of the kernel in any order    -- implements ResourceLedger
  |     |-- CivilizationKernelProofs   (theorems)
  |     '-- MCCivilizationKernel
  '-- CivilizationScheduler one scheduler day as a function of state, policy and decisions
        '-- CivilizationDayRunner   live days: decisions, gateway, scheduler, expedition
              '-- CivilizationSponsor     the player's commands and boundaries between the days
                    |-- CivilizationDayProofs     (theorems on the days and the boundaries; uses those of the kernel)
                    '-- MCCivilizationDayRunner
ResourceLedger        what a step may do to the stocks               <-- abstract specification
```

**AuthorityRules.** `MayAppend`, `MayReject`, `MayFence`, `MaySave` are the guards of the port
in the order of the code, `Appended`, `Rejected`, `Fenced`, `Saved` the stream each leaves.
They are pure because the adapters differ only in *when* they check and when
they store. The hash of an event is the sequence of links up to it: two hashes
are equal exactly when everything before them is. The post-state hash is chained
in the same loop and is that sequence too. A request fingerprint is the
request. One stream is modelled; streams share nothing.

**AuthorityStore.** One variable, `stream`; one action per mutating call. A committed
request must describe the head exactly, so the request of a commit is the one
built from the head. Refusals and repeated requests leave the stream alone and
are stutters here; the adapters have them as actions.

**MemoryAuthority.** `stores` is `this.#stores`; a call goes idle, deciding (it holds a copied head),
committing (its checks passed, it awaits the digests of the new head and receipt), idle. The
awaits *within* one decision, which validate the call's own events, are one
segment. `Callers` is the set of calls in progress.

**BrowserAuthority.** `db` is what IndexedDB holds, operation log and materialized rows. A call
reads a bundle and hydrates it (`ReadBundle`; hydration replays the log through
the rules and compares), decides on the bundle, and commits in a transaction
that compares first (`Commit`, `HeadRace`, `AbortTransaction`, `Resolve`). `CrashTab`
closes a page at any point and keeps its request to be sent again. `granted` is a
history variable that only properties read. `session()` is not in this module.

**CivilizationDays.** A job is a record with a program counter; each port call is one step
(justified by `ImplementsPort` of BrowserAuthority), and any other job runs in between. `pending` is the
localStorage entry: the operation and the day it leads to. The content of a day
is a function of the days before it, so a day's event is `Day(d)`, and a plan is
its confirmation id and the hash it chains to. Merged steps: the reads after a
fence are part of the fence step (if the head moves in between, the append that
follows is refused in the code and in the model); the reads of a resume are one step.
Dropped data: the causal parents of day events, template names, sponsor order
contents. A sponsor command of `DayCommands` is a boundary: its event lives the
next day, as a live day does. The plan of the first load is one chapter, day 1. A live day that a
page of another tab runs is a job like any other; in one page the writer
chain lets only one writer run at a time, the model also lets two, since tabs do.

**WorldWriters.** What starts the jobs: each page has a writer chain
(`authority-writer.ts`; a refresh does not take it), a worker that is started, fails or is
killed, and a table of pending requests. A request is a record with the step
it is at; it opens a connection, reads, fences, appends, closes and answers. Loads that
fail in certain ways delete the database and rebuild it: a deletion waits for
open connections and an open waits for a deletion. A sponsor's request runs in `session()`: one
bundle, commits compared against it, and a finalization that reports one or
two errors; `told` is what the page then says to the player. Facts on the stream are abstracted to their
ids (days, commands, fences, snapshots). Merged: the reads after a load, and each
port call (`ImplementsPort`).

**CivilizationRules and CivilizationKernel.** For an exported function X of the kernel or of `population.ts`
there is a predicate `CanX`, its checks, and an operator `X`, its result, on the
record of the civilization (`now` in CivilizationKernel, `civ` in the day). A call that throws changes nothing and is a stutter. The functions
that are not there: `registerResourceDefinition`, `registerRecipe` and `registerStorage` are the catalogue (constants), and
`registerInstitution`, `registerAgreement`, `registerRelationship`, `recordSocialContact` and `recordConversationKnowledge` are left
out (section 6). `registerCitizen` is part of the initial states only (`Registered`). `Audit` is
`assertCivilizationInvariants`, part by part; it replays the ledger from the last
checkpoint as the code does. The kernel lets its callers call anything at any
time, so `CivilizationKernel` does too. Some of its calls take people whom nothing links to their homes or journeys: `registerHousehold`
(`kernel.ts:838`: any members, or none), `registerCitizen` (`population.ts:133`: of a household that does not list them, or on the way)
and `recordFoundingMaterialization` without a site (`kernel.ts:2100`: settled, and its migrants stay on the way). A caller
makes "any" call, these three included, or keeps people "linked", as the scheduler and the
experiment do, which form households and settle at a site. What is claimed of homes and journeys (the households of `AuditPasses`, the
citizens of `PeopleAreSomewhere`) is claimed of linked callers and false of the others; all else is claimed of both. `MatterIsConserved` is the refinement of
`ResourceLedger`: every change of the stocks is a transfer within a resource, a
registered recipe, a need that was eaten, or project material used.

**CivilizationScheduler.** `advanceGeneralizedScheduler` as a function: complete what is due,
run the jobs by scarcity, the lanes, feed everyone, work on the collective projects, and assign
routines with the pairing of neighbours, in that order and each on the state the
one before left. What the calls of the kernel refuse, the scheduler skips or throws on, as the code does
(`Try`, `ok`). What the code sorts is kept in sorted lists (`CitizenOrder`, `LaneOrder`, ...): a loop over the sorted members of
a set is `Chain` over `Among`, and jobs are placed by scarcity one after another (`Placed`).

**CivilizationDayRunner.** A live day: the waiting citizens are asked one after another, each through
the decision gateway, whose race has the states open, accepted, rejected and
expired; then the day is one step (it has no await that another actor could
use): decisions, originations of projects, scheduler, expedition, talks, audit, checkpoint,
renewed plans. A day that throws keeps nothing. `provider`
says whether there is a model. A page that closes loses the day (`LoseDay`).

**CivilizationSponsor.** Composes the player with the days: commands and boundaries
happen between them. The sponsored citizen is the one the product always
picks (`generated-world-runtime.ts:273`), who leads the works and has no job or
lane. Her plan's step, retries and expiry are state here because only boundaries
look at them. `refused` says why the code threw a boundary away, or that the page was gone
between the resolution of a counsel and its boundary (`LoseBoundary`).

## 3. Runs

| run | configuration | shows |
|---|---|---|
| `authority_store` | 3 events (one refers to another), 3 append ids, batches of 1 or 2, 2 snapshots beside the limit of 2, tokens to 2 | `TypeOK Ledger CausesPrecede Receipts Revisions Fences Snapshots History` hold |
| `browser_authority` | 2 tabs, 2 geneses, 2 append ids, log of 3 operations | `StoredStreamHydrates FenceHasOneOwner AnsweredIsStored NewestFenceWrites ImplementsPort` hold |
| `memory_serial` | 1 caller, 4 commits | `ImplementsPort` holds: the in-memory adapter implements the port |
| `memory_overlap` | 2 callers | **violated**: `FencingIncreases` |
| `civilization_days` | 2 jobs at once, one of them perhaps a boundary, 3 days, returns of up to 2 days, no crash | `DaysInOrder MarkersAreTrue OnePlanPerOperation SnapshotsAreOfTheirDay` hold |
| `civilization_live` | 1 job at a time, a sponsor command, 2 crashes, fairness | `MarkersAreTrue SnapshotsAreOfTheirDay ReturnCompletes` hold |
| `civilization_resume` | 1 job, a sponsor command, 1 crash | **violated**: `ResumeRebuildsThePlan` |
| `civilization_snapshots` | 1 job, no crash, 5 snapshots | **violated**: `SnapshotsNeverBlock` |
| `civilization_banner` | 1 job, 1 crash | **violated**: `PendingIsOffered` |
| `civilization_kernel` | 1 settlement, 2 citizens, a mill, 3 projects (one waits for another), a migration, a colony; 2 units, 2 days, 2 ledger entries between checkpoints; 5 callers, one of which makes any call, over a household, a leaver, the migration and the colony, from 153 registrations of its people | `KernelTypeOK AuditPasses ProjectBooks PeopleAreSomewhere MatterIsConserved` hold |
| `civilization_day` | 3 citizens (one leads the works, one carries water, one draws it and moves away), the world's project, a project of a citizen, an expedition; 2 counsels; 5 days and boundaries | `LaborWithinCapacity OnlyHeedsFail ExpeditionIsWhole AnswersInTime DayEnds InfluenceIsLived` hold |
| `world_writers` | 2 pages, 2 requests, 1 failure of a worker or page | `EachOnce OnePageTakesTurns SavedIsWhole EveryRequestEnds` hold |

All runs set `CHECK_DEADLOCK FALSE`: the ids, tokens, days and operations of a
configuration run out, and the program then really is at rest.

**Why the bounds are enough.** The store's rules relate at most two
batches and a snapshot (order of fences, tiling, revisions), so three append ids
give two batches and a refusal in every order, and batches of two events reach
the first, the later and the last event of the continuity loop. In the browser
run the races are between one read and one write of two tabs; three operations
let a fence be taken over, a batch be written under it, and a lost request be
repeated after that. Limits (`MaxSnapshots`, `MaxToken`) are small enough to be
hit. The kernel's run reaches every call at least once after every call that makes it possible; its numbers are
small because a rule that books wrongly is wrong with one unit: two units let a stock be split and a second claim be refused,
two entries make a checkpoint throw something away and the next one start from its baseline. Five days
let a citizen's project be originated, led and worked on, the expedition
be planned, leave, arrive and settle, a plan be renewed after a departure, and two
boundaries follow each other or fall between two live days; a project may be originated after
one day where the code waits for five (`experiment.ts:132`). In `world_writers` the races are between
two requests of one page or of two; a third adds no new pair.
Days 1 to 3 with returns of two days give a return of two chapters, one cut
short by the horizon, and a return that ends where a live day began. In
`civilization_days` a job may stop for ever at any step while the other runs on, which
is all a crash does to the other job; crashes followed by a new job of the same
page are in `civilization_live`, where two crashes let a resume be interrupted again.
The action bounds that exist only for model checking are `MaxOps`, `MaxCommits`, `MaxCrashes`, `MaxUnits`, `MaxTime`,
`MaxEntries`, `Horizon`, `MaxRequests` and `MaxFailures`.
Symmetry is used over tabs, append ids, geneses and jobs, never in a run with a liveness property.

**Fairness** (`FairSpec`). Weak fairness of each running job's next step: the
browser settles the promises of a page that stays open, and a page that does
not is a `Crash`. Strong fairness of the player confirming a pending return that a page
showing today offers: the proposal effect offers it on every load
(`V1GenesisApp.tsx:1788`), and the property is about a player who keeps accepting. There is
no fairness for starting anything else, nor against `Dismiss`. `ReturnCompletes` is
stated for a return nobody disturbed, that began at the snapshot of its day and whose
pending day reaches the end of its plan; without these conditions it
fails, and findings 2 and 4 below are two of the reasons.

`DayEnds` assumes weak fairness of a day's own steps, timer included, and of starting the next day, which the
page's interval does; none of the provider or of the player's commands: a model that never answers must not hold a day up.
A boundary that is due holds the next day back only until it is lived or its page is gone. `EveryRequestEnds` assumes that the
steps of a request whose worker lives are taken and that a deletion nobody
blocks takes place; a worker that dies without an event is its stated exception.

Every property of a passing run is broken by a mutant of a mapped definition
(`PROJECT.json`, "mutants"): for instance comparing only the head in the browser transaction
breaks `ImplementsPort`, and comparing recorded plans by their confirmation
alone breaks `OnePlanPerOperation`.

## 4. What the violated runs show

1. `memory_overlap`: two overlapping calls on the in-memory adapter take the
   stream back to an earlier fencing token (`versioned.ts:783`), against "monotonically
   increasing writer fencing" (`packages/persistence/README.md:12`). The browser adapter is not affected: it
   uses a fresh in-memory port per call.
2. `civilization_resume`: a sponsor event between a day's snapshot and a return makes the
   interrupted return impossible to resume (`generated-civilization.ts:615`).
3. `civilization_snapshots`: snapshots are never removed, and when the 64 are used up, committed
   days are reported as failed and the world cannot be refreshed, against
   `docs/engineering/PERSISTENCE.md:89`.
4. `civilization_banner`: a pending return that outlives its days silences every later
   proposal (`play-clock.ts:159`), against the comment at line 144 that a stale banner is the worst case.

Five more disagreements are exceptions written into properties that hold, so
that each property says that there is no other case:

5. `OnlyHeedsFail`: a citizen on the road who has heard a claim and decides to heed it is given a
   routine that the scheduler refuses for anyone who is not resident
   (`experiment.ts:2323`, `scheduler.ts:405`). The day throws, and so does every later
   attempt that decides the same.
6. `InfluenceIsLived`: `docs/engineering/FRONTIER_V1.md:15` says "Influence is re-validated against
   the current head; it is never silently discarded". The code discards it, and the property names the
   four ways, for a resolved counsel (`CounselIsLived`) and for an abstention (`AbstentionIsLived`):
   - *gone*: the resolution and its boundary are two appends (`generated-sponsor-runtime.ts:750`). When the page
     goes between them, or the second one fails, the retry stops at `NO_UNRESOLVED_COUNSEL` (line 489), before it reaches
     the boundary: the counsel is recorded as resolved and has no effect.
   - *project*: boundaries use the policy of the world as it began
     (`civilization-sponsor.ts:635`), live days one that also has the citizens' own
     projects (`experiment.ts:1848`). Once she leads one of those, every boundary that
     follows her plan is refused.
   - *expired*: any boundary is refused when
     her plan was renewed for one day only and another boundary has used that day.
   - *met* (an abstention only): refused when the scheduler
     pairs her with an idle neighbour or finds no work on her project
     (`civilization-sponsor.ts:947`), though `docs/product/HUMAN_LOOP.md:51` says that she
     "follows her existing day's work".

   An abstention can be advanced after a later day; a counsel that was resolved is lost for good in each case. The property is
   therefore weaker than the documents: it says that nothing else, neither scheduler, audit, budget of replans nor missing reserves,
   ever stands between a counsel and its day.
7. `AuditPasses`, households: `registerHousehold` (`kernel.ts:838`) accepts members that do not link back, or none, and
   `audit.ts:63` refuses such a state, so the next checkpoint throws. Only a test makes the call (`economy.test.ts:128`). The property
   says that no other part of the audit is ever broken by it.
8. `PeopleAreSomewhere`, travellers: a founding that is settled without a site leaves its migrants travelling (`kernel.ts:2100`);
   again only a test does that (`projects.test.ts:214`).
9. `EveryRequestEnds`: a worker that dies without an error event leaves its
   request, and every later writer of that page, waiting for ever.
   `SavedIsWhole` is about what is told as saved; the converse fails: an error of a command
   together with one of the finalization is told as "could not be saved" though
   earlier commands of the request are stored.

## 5. Proofs

The theorems hold for all values of the constants: any ids, tabs, callers, jobs, operations, commands,
days and bounds. They rest on named assumptions only. `RulesAssumption` says
that times are naturals, references are events and bounds are positive; `BrowserAssumption` and
`MemoryAssumption` that the "nothing" values are no requests or heads and that a bound is a natural;
`DaysAssumption` that boundaries are finitely many commands; `WritersAssumption` that the streams of earlier
visits are sequences of rows with no operation twice and no day beyond the days lived (what `OnePlanPerOperation`,
`DaysInOrder` and the port's receipts say of them);
`IdsAssumption` that the port accepts the ids that the jobs make and that none of them is the id of the
genesis snapshot. `CatalogueAssumption` says what the registrations of the kernel check of recipes, projects, migrations
and foundings (amounts, daily needs and legs are naturals, there are finitely many resources, and the stocks have an order,
that of their ids), `KernelAssumption` that bootstrap and callers name what is in the catalogue. Of the days, `SchedulerAssumption` says what `validatePolicy` checks of jobs, lanes and
projects, and that the sorted lists are lists of what they are named for; `DayAssumption` that the world begins with what the kernel accepts (homes that share
nobody, stocks within their capacity whose owners exist), that jobs draw on stocks of that world, and that the party does not live where it will settle;
`SponsorAssumption` that the player's citizen has a relationship, and no job or lane. TLC evaluates all of them in the runs. CivilizationDayProofs uses the kernel's lemmas, so it
also extends CivilizationKernel; `KernelAssumption`, which comes with it, is about constants the days do not mention.

| module | theorem | states |
|---|---|---|
| AuthorityStoreProofs | `TypeCorrectness`, `LedgerCorrectness`, `CausesCorrectness` | `Spec => []TypeOK`, `[]Ledger`, `[]CausesPrecede` |
| | `HistoryCorrectness` | `Spec => History` (action property) |
| | `ReceiptsCorrectness`, `RevisionsCorrectness`, `FencesCorrectness`, `SnapshotsCorrectness` | `Spec => []Receipts`, `[]Revisions`, `[]Fences`, `[]Snapshots` |
| BrowserAuthorityProofs | `BrowserTypeCorrectness` | `Spec => []TypeOK` |
| | `BrowserImplementsPort` | `Spec => ImplementsPort`: the adapter refines AuthorityStore |
| | `BrowserStreamCorrectness`, `BrowserHistoryCorrectness` | so every theorem of the port holds of what several tabs store |
| | `AnswersCorrectness`, `NewestFenceCorrectness` | `Spec => AnsweredIsStored`, `NewestFenceWrites` (action properties) |
| | `FenceOwnerCorrectness`, `HydrationCorrectness` | `Spec => []FenceHasOneOwner`, `[]StoredStreamHydrates` |
| MemoryAuthorityProofs | `MemoryImplementsPort` | `Spec /\ []Serial => ImplementsPort` |
| | `OneCallerImplementsPort` | with one caller, `Spec => ImplementsPort` |
| CivilizationDaysProofs | `DaysCorrectness` | `Spec => []DaysInv`, the inductive invariant |
| | `DaysTypeCorrectness`, `DaysInOrderCorrectness`, `MarkersCorrectness`, `OnePlanCorrectness`, `SnapshotDayCorrectness` | `Spec => []TypeOK`, `[]DaysInOrder`, `[]MarkersAreTrue`, `[]OnePlanPerOperation`, `[]SnapshotsAreOfTheirDay` |
| | `DaysUseThePort` | `Spec => Port!Spec`: the jobs are callers of AuthorityStore |
| | `DaysStreamCorrectness`, `DaysHistoryCorrectness` | so every theorem of the port holds of the stream of days |
| WorldWritersProofs | `WritersCorrectness` | `Spec => []WritersInv`, the inductive invariant |
| | `OnceCorrectness`, `TurnsCorrectness` | `Spec => []EachOnce`, `[]OnePageTakesTurns` |
| | `SavedCorrectness` | `Spec => SavedIsWhole` (action property) |
| CivilizationKernelProofs | `KernelCorrectness` | `KernelSpec => []KernelInv`, the inductive invariant |
| | `ProjectBooksCorrectness`, `PeopleCorrectness` | `KernelSpec => []ProjectBooks`, `[]PeopleAreSomewhere` |
| | `SocietyAuditCorrectness` | buildings and foundings always pass the audit, households under linked callers |
| | `AccountsCorrectness` | `KernelSpec => []AccountsInv`, the inductive invariant of the accounts |
| | `KernelTypeCorrectness`, `AuditCorrectness` | `KernelSpec => []KernelTypeOK`, `[]AuditPasses` |
| | `MatterCorrectness` | `KernelSpec => MatterIsConserved`: the kernel refines ResourceLedger |
| CivilizationDayProofs | `DayCorrectness` | `SponsoredSpec => []DayInv`, the inductive invariant |
| | `LaborCorrectness`, `ExpeditionCorrectness` | `SponsoredSpec => []LaborWithinCapacity`, `[]ExpeditionIsWhole` |
| | `AnswersCorrectness`, `DayTypeCorrectness` | `SponsoredSpec => []AnswersInTime`, `[]TypeOK` |
| | `DayAuditCorrectness` | `SponsoredSpec => []AuditStands`: no day or boundary is ever lost to the audit |

**The port.** `TypeOK` is inductive by itself: each rule keeps the rows of the stores
maps. `Ledger` needs the type, since the length of a batch must be a natural to place its events right after
`lastSequence`; and an `Initialize` replaces the whole stream, so the
invariant also says that a stream without genesis is empty. `AppendedEvents` describes the ledger
after a batch once: old events keep their place, new ones sit at `lastSequence + i`, each
chained to the one before. From it follow the ledger, the order of causes
and the permanence of history. `AppendedReceipts` and `RejectedReceipts` do the same for the receipts; a
new accepted receipt begins where the head stands, which is behind every earlier one (`AppendIsLast`),
so intervals tile, and revisions and fences follow them. `Snapshots` is not inductive: a snapshot is taken
of the head, so the invariant adds that the head stands after a whole batch (`HeadAfterBatch`).

**The IndexedDB adapter.** `Calls`, the inductive form of `TypeOK`, says where each request came from (built from some head) and
that a bundle is a stream that was stored. The refinement then has one interesting
step, `Commit`: the transaction compares the stored rows with the bundle, so the checks made on the bundle
were made on the stored stream (`CommitIsPortCall`), and every other step is a stutter. Through the
refinement the theorems of the port hold of `db.stream` (an INSTANCE of their module). `AnsweredIsStored`
needs that what a bundle said stays true while other tabs commit (`Kept`, from `History`); `FenceHasOneOwner`
that a token that was committed but not yet given out belongs to nobody else (`Tokens`).
`StoredStreamHydrates` speaks of a replay that is defined by recursion over the log; no induction over the
log is needed, since the invariant carries, from commit to commit, that the recursion has a solution and
that every solution accepts the log (`Replays`).

**The in-memory adapter.** It refines the port only as long as calls do not overlap: `Alone` says that a call in progress holds
the head of the stores, and it is inductive only under `Serial`. The run `memory_overlap` shows what happens without.

**The days.** `DaysInv` describes the stream and the jobs together. Of the stream (`StreamOfDays`, `MarkersOf`, `DaysLived`): the head's
hash lists the events, the markers of an operation agree on one plan and count stored chapters, each day
is lived right after the days before it, snapshots are named by their day, and the last day is within
`MaxDay` plus the boundaries committed so far (a boundary does not look at `MaxDay`). Of a job (`IsJob`, `InPhase`):
the head it holds is a prefix of the ledger, its plan begins at the day that this prefix had reached
(`Grounded`), and in each phase what its last call left it. These facts about other jobs
survive a step since the ledger only grows (`Grows`, `JobKept`); it is why a marker stays true and why a
plan made before a crash can be trusted after it. The step that matters is the append of a day: the port accepts
it only at the head the plan expects, the hash of that head has as many links as the ledger has
events, so the ledger is the one the plan was made on, and the day is the next one (`ChapterLivesNextDay`).
A resumed plan may carry the hash of an older snapshot: then its hash is only a prefix of the ledger, and
the invariant takes the plan's first day from the confirmation instead of from the head.
The jobs are callers of the port (`DaysUseThePort`): what a job commits was built from a head it loaded, or from one that its plan
expects, but the port accepts only a request that describes the head, and then it is the
request built from that head (`BuiltFromHead`); what `DaysInv` says of a job gives that its ids, markers and snapshot names are
those the port is instantiated with. So BrowserAuthority refines the port, and the days use no more than the port.
TLC checked `DaysInv` on an instance before it was proved. The library's induction theorems take an operator
as parameter and cannot be used; `LeastNumber` derives what is needed, a least counterexample, from the
well-foundedness of inclusion between finite sets.

**The pages.** None of the three properties of `WorldWriters` is inductive. `WritersInv` says of every request what it has
read (`RequestOK`): while it is at work the stream begins with what it read, it holds its connection, so no deletion can take
place below it, and unless it is a refresh it is the head of the writer chain of its page. So the rows
that were added since are of a refresh or of another tab (`Outsider`), which is `OnePageTakesTurns` as soon
as it notices them. A row may be added when its operation is new and its day is the next (`RowFits`).
A sponsor compares the whole stream and commits what is missing; a live day compares a token and a revision only, and needs that
a stream which has grown but kept its revision has lived no day (`SameRevisionSameDay`), and that days are counted
(`DaysAreCounted`), so that the day after the last is new. The steps of a command stay the same while it commits
them (`StepIdsStay`), and only the end of a session says "saved" (`OnlyFinalizeSaves`): `SavedIsWhole`.

**The kernel.** `KernelInv` is stated of the record `now` table by table (`Books`, `Homes`, `Journeys`, `Colonies`,
`Buildings`), each part of the tables it is about, so that a call is proved to keep the parts it writes and the others follow
because nothing they read has changed. The accounting calls (stocks, transfers, production, needs, checkpoints) write nothing
that the parts read (`AccountingKeeps`); their loops are functions, and what `consumeCitizensDailyNeeds` does after
the first *n* draws follows from a least counterexample (`LeastOf`). Four facts make the rest inductive. A completed milestone and a completed project
stay so, hence work that began after what it waited for stays justified (`MilestonesStep`, `ProjectKeeps`). A milestone at
`ready` or `active` has what it depends on completed, which `ProjectBooks` does not say of `ready`. A migration leaves only when planned,
with citizens who are residents without a household, so nobody is sent away from a household or twice at once. A founding
is viable only after its migration arrived, which is the last state a migration has, so a settled founding
never loses its expedition. What depends on homes and journeys being linked carries the kind of the caller as a parameter (`KernelOK`, `HomesOK`,
`Journeys`): a linked caller starts from people without households and makes no call that unlinks them, and of a caller that makes any call only the rest is
claimed and proved. The days are linked (`CivilizationDayProofs` uses `KernelOK("linked", ...)`). The attempt found an error of the model's own property: it used to say that a settler is never travelling, and the
instance with one migration could not refute it; but settlers may join a second migration, so the
property now names a migration that has left and that no founding has settled.

**The accounts.** `AccountsInv` adds to `KernelInv` what the audit adds up, again part by part: `Shelves` (a stock is between
what is reserved and what it can hold), `Running` (the outputs of a process go to stocks of their resources), `Ledger` (from the checkpoint
on, the entries add up to the stocks, and after none of them was a stock overdrawn), `Uses` (the books of the checkpoint and the ledger say of a project what
its milestones say; of a project that does not exist yet they say nothing), `Meals` (an outcome is what the one entry of
that citizen and time says, or there is none and nothing was eaten) and `Walks` (what a journey has done is the legs behind it and its progress). The audit itself
is not inductive: it looks at the products of a recipe only when the run ends, so `Running` must say from the start where they
go; and a meal could be entered twice if an outcome could exist without its entry.
The sums are folds of the library, defined by a CHOOSE; a least set on which a fact would fail (`LeastSet`, from the well-foundedness
of inclusion) stands in for the induction that is out of reach: a sum can be taken apart at any element (`TotalWithout`), over two
sets or by a key (`TotalOfUnion`, `TotalByKey`). Loops over sequences are functions, and `Induct` carries a fact from one
turn to the next. Then `MovedKeeps` says once what one more entry does to all accounts, given that the stocks it moves fit and that what
the resources gain is what its kind promises; the calls that enter something are shown to make such entries. The greedy loop of a
citizen's meal keeps that what is taken is what is no longer left to take (`TakenDraws`), so no draw goes below what is reserved.
`MatterCorrectness` reads the same lemmas as steps of `ResourceLedger`: what the resources gain (`MovedByGains`) and how many runs there are
(`OneRunMore`, `OneRunLess`). Two assumptions were found missing by the attempt: that the catalogue's amounts and legs are naturals, and that callers start
recipes that are registered, both of which the code checks.

**The days.** A live day is one step that calls the kernel some dozens of times, and the scheduler it runs is written as chains over sorted lists.
Each loop is first shown to be a run (`DueRuns`, `HaulRuns`, `ReserveRuns`, ...): there is a function of its turns, the first is where the
loop begins, each is one turn of the loop after the one before, and the last is its result. So what a loop keeps is a fact about one turn and a least
counterexample over the run, and the invariants of KernelInv and AccountsInv do the rest: they are stated of a record, each call keeps them, and a
day is calls. `DayOK` says of a day in the making that began in *c*: its civilization is `Sound` (the two invariants, and a building for
every completed project), nobody has been moved and nothing done is undone (`Onward`), and of each citizen what was taken and what is left make
what they had (`LaborOK`); or a call has thrown, and then nothing is said, since a day that throws is dropped. Every phase of the scheduler keeps it, from the
completions to the collective projects: a reservation takes of each no more than they have left (`ReserveOneGoes`), a carrier walks only with
the labor of the whole lane, and a contribution is bounded by what is left (`LaborNextGoes`).

`LaborWithinCapacity` follows from `LaborOK` at the end of the day, but is not inductive alone: the labor left must be a natural at every turn.
`ExpeditionIsWhole` needs `Trekked`: the expedition is not begun, on the road, or there, and each of the three says where the migration, the journey, the founding,
the settlers and their site stand. One day may take several steps of it; each call is followed from one state to the next (`PrepareMoves`, `DepartMoves`, `WalkMoves`,
`SettleMoves`), and a day in which one of them throws keeps none. That the settlers stand at their site exactly when they have settled (`SettledAt`)
is about a variable outside the civilization, and is kept because no day moves a site otherwise. The audit that closes a day cannot fail, nor can
a boundary's (`DayAuditCorrectness`), because what `Sound` says of the kernel is what `AuditCorrectness` rests on (`SoundPasses`); that every completed project has a building, which the kernel's
callers could put off and the days do not, is what `ExpeditionIsWhole` asks of the kit's. The bootstrap is `Sound` (`BootstrapIsSound`) since each of its stocks is a call the kernel accepts.
A boundary is a scheduler day with other decisions, so the same lemmas serve (`BoundaryGoes`). `AnswersInTime` is proved apart from all this: an
expired question is decided or about to be (`Gateway`).

The attempt changed the model where it could not be reasoned about, not in what it says: lists that were filtered by `SelectSeq` are now filtered by `Among`
(`SelectSeq` and `SetToSortSeq` are recursive or arbitrary choices), completions follow the ids of the processes, and
the constants of the day got the assumptions that the code checks of them.

Not proved, only model-checked: `OnlyHeedsFail`, which says that no call within a day throws and so depends on the policy of one world (a lane that fills the stock
into which a process of another job is yet to put its output makes the completion throw, in the code too: `scheduler.ts:1088` looks at the room of now), and `InfluenceIsLived` of the sponsor, which rests on it. Liveness under fairness
(`ReturnCompletes`, `EveryRequestEnds`, `DayEnds`) and `ENABLED` are outside what TLAPS handles.

## 6. Not modelled, and why

- kernel: institutions, agreements, relationships, social contacts and knowledge records. They are
  registered, validated by one check each and never move matter or people. A citizen who is registered while other calls
  are made, after the bootstrap (the product does not; a departure and a settling skip citizens who are not registered yet,
  `kernel.ts:1929` and `2119`), whether somebody is a member or a dependant of a household, and the rest of what a record of a person says (roles, values).
- scheduler and day: demographic rules (the generated world has none, `experiment.ts:1367`), prior outcomes and transition retries
  (only the batch experiment has them), memory scores and the words of a talk. The brain may take any option it
  was given. A delivery draws on one stock while the affordance sums several (`scheduler.ts:797`,
  `pressures.ts:395`); instances here have one stock per resource and owner.
- limits that throw: a decision context of more than 16,384 bytes (`cognition/src/context.ts:126`) and the 1,025th
  memory of a citizen (`cognition/src/memory.ts:190`) fail the day. Both count words and days far beyond the
  instances here, so "a day fails in one case only" (`OnlyHeedsFail`) is said of days below them.
- sponsor: the texts and evidence of claims, trust and strain, decision records, the facts told to the
  player and their counterfactual. A boundary on the last day of the year is not checked against the
  horizon in the code; the bound here is `Horizon`.
- client: the fence choice, chronicle reads, returns (they take the way of a live day), refusals inside a session, the
  non-atomic calls of the browser adapter (BrowserAuthority has them). The separate reads of
  `readDurableAuthority` are one step: a read torn by another tab fails or shows an older state, and writes nothing.
- browser adapter: upgrades of the database, row codecs.
- reducer and replay of the persisted civilization: a fold over the events that
  repeats the checks made when the events were made.
- local process transport, simulation (`packages/sim`), legacy persistence: not
  used by the generated world in the browser, or sequential with replay tests of their own.
- hashing, encoding, byte limits of payloads: data that the properties do not tell apart.
- rendering, world generation, presentation, diagnostics: pure functions or best effort.

## 7. Plan

Done: the port, the two adapters, the jobs on the stream, pages and
workers (WorldWriters), the kernel with its ledger, the scheduler, the live day with its gateway, the sponsor; the
theorems of section 5.

What is left: the two invariants named at the end of section 5, the parts listed in section 6, and among those first the separate reads of
`readDurableAuthority` and the transport of the local model.
