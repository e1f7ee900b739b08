------------------------- MODULE CivilizationDayRunner -------------------------
(***************************************************************************)
(* A live day of the civilization (packages/civilization/src/experiment.ts,*)
(* continueCivilizationExperimentDay): every citizen decides, one after    *)
(* the other, through the decision gateway when there is one               *)
(* (packages/cognition/src/decision-gateway.ts); then the scheduler runs,  *)
(* plans are renewed, the expedition moves on, the accounts are audited    *)
(* and closed, and neighbours talk.  Nothing of it is kept until all of it *)
(* is done: a day that throws, or whose page or worker goes away, leaves   *)
(* the civilization as it was, and is computed again from there.           *)
(*                                                                         *)
(* What a brain prefers is left open: the model and the standard brain may *)
(* choose any option the citizen is offered.  Routines are <<kind,         *)
(* subject>>.  A time unit is a day.                                       *)
(***************************************************************************)
EXTENDS CivilizationScheduler

CONSTANTS
    Origin,         \* the first settlement
    GenesisStocks,  \* what the registered stocks hold at first
    GenesisKinds,   \* per site, the kinds of building there
    Homes,          \* the households formed at first: id and members
    SiteOf,         \* per citizen, the site they live at
    SettlersSite,   \* the site of the second founding
    TalkSites,      \* the sites with a free slot for two to meet
    Kit, Trek, Colony,  \* the expedition's project, migration and founding
    Eligible,       \* conditions.expansionEligible
    OriginatedBy,   \* per citizen, the project their lane lets them originate
    WaterLaneOf,    \* per citizen, the lane of spring water they carry
    OriginationDay, \* CITIZEN_PROJECT_ORIGIN_MIN_SIMULATION_TIME
    Cooldown,       \* SOCIAL_CONTACT_COOLDOWN_SECONDS
    Traversal,      \* MIGRATION_DAILY_TRAVERSAL_UNITS
    Horizon         \* bounds the days

\* What the world begins with is what the kernel accepts: one home each, stocks
\* whose owners are there, the kit's project of the first settlement.
GenesisAccepted ==
    /\ Origin \in Settlements /\ GenesisKinds \in [Sites -> SUBSET Kinds]
    /\ None \notin Households /\ DOMAIN Homes \subseteq Households
    /\ \A h \in DOMAIN Homes : Homes[h] # {} /\ Homes[h] \subseteq Citizens
    /\ \A h, k \in DOMAIN Homes : h # k => Homes[h] \cap Homes[k] = {}
    /\ Kit \in Projects
    /\ Eligible => ProjectInfo[Kit].settlement = Origin /\ ProjectInfo[Kit].deps = {}
    /\ DOMAIN GenesisStocks \subseteq Stocks
    /\ \A s \in DOMAIN GenesisStocks : LET o == StockInfo[s].owner IN
          /\ GenesisStocks[s] \in StockInfo[s].reserved..StockInfo[s].capacity
          /\ o[1] = "settlement" => o[2] = Origin
          /\ o[1] = "household" => o[2] \in DOMAIN Homes
          /\ o[1] = "project" => Eligible /\ o[2] = Kit

\* The policy's jobs are of stocks there are from the first, a project a citizen
\* originates has a stock, and the party lives elsewhere than where it will settle.
\* None is no outcome of a question, nor a reason to lose a day or a boundary.
DaysAccepted ==
    /\ None \notin {"open", "accepted", "rejected", "expired"}
    /\ None \notin {"project", "decision", "scheduler", "expedition", "audit", "replan", "gone"}
    /\ Eligible \in BOOLEAN /\ Horizon \in Nat /\ Traversal \in Nat
    /\ Jobs \X (1..Horizon) \subseteq Processes
    /\ \A j \in Jobs : LET recipe == RecipeInfo[JobInfo[j].recipe] IN
          /\ JobInfo[j].in \in [{g \in Resources : recipe.in[g] > 0} -> DOMAIN GenesisStocks]
          /\ JobInfo[j].out \in [{g \in Resources : recipe.out[g] > 0} -> DOMAIN GenesisStocks]
    /\ OriginatedBy \in [Citizens -> Projects \cup {None}]
    /\ \A p \in Citizens : OriginatedBy[p] # None =>
          \E s \in Stocks : StockInfo[s].owner = Owner("project", OriginatedBy[p])
    /\ Trek \in Migrations /\ Colony \in Foundings /\ FoundingInfo[Colony].migration = Trek
    /\ MigrationInfo[Trek].citizens \subseteq Citizens
    /\ \A p \in MigrationInfo[Trek].citizens : SiteOf[p] # SettlersSite

ASSUME DayAssumption == GenesisAccepted /\ DaysAccepted

VARIABLES
    civ,        \* CivilizationState, less what follows
    minds,      \* per citizen: plan, replans left, the first claim they heard
    site, last, \* per citizen: siteId, lastSocialSimulationTime
    provider,   \* a primary brain is configured
    phase,      \* "idle" or "deciding"
    decided,    \* the decisions of the day so far: [action, routine, source, mind]
    race,       \* how the gateway's race of the citizen's question stands
    open,       \* the questions that are waited for and not answered yet
    \* history
    expired,    \* the questions of this day that ran out of time
    failure,    \* why the last day computed was not kept, or None
    worked      \* what the last kept day took of each citizen: [given, taken]

vars == <<civ, minds, site, last, provider, phase, decided, race, open, expired,
          failure, worked>>

-----------------------------------------------------------------------------
(* Plans and options *)

\* withCitizenOriginatedCollectiveProjects.
Policy(c) ==
    (IF Eligible THEN {Kit} ELSE {})
    \cup {p \in Range(ProjectOrder) : WorkInfo[p].sponsor[1] = "citizen" /\ IsOpen(c, p)}

PlannedRoutine(c, policy, p) ==
    LET projects == {q \in policy : WorkInfo[q].actor = p /\ IsOpen(c, q)}
        jobs == {j \in Jobs : p \in JobInfo[j].participants}
        lanes == {l \in Lanes : LaneInfo[l].carrier = p}
        residence == c.citizens[p].residence
    IN  IF projects # {} THEN <<"construct", FirstOf(<<Kit>> \o ProjectOrder, projects)>>
        ELSE IF jobs # {} THEN <<"produce", FirstOf(JobOrder, jobs)>>
        ELSE IF lanes # {} THEN <<"transport", FirstOf(LaneOrder, lanes)>>
        ELSE IF residence = "travelling" /\ Trek \in DOMAIN c.migrations
                /\ p \in MigrationInfo[Trek].citizens THEN <<"travel", Trek>>
        ELSE IF residence = "departed" THEN <<"away", p>>
        ELSE <<"social-maintenance", p>>

\* standingPlanFromRoutine.  Mutants: what is left of the budget is kept; a new
\* plan's budget comes on top of it.
Renewed_Kept(mind, routine) == [mind EXCEPT !.plan = routine]
Renewed_OnTop(mind, routine) == [mind EXCEPT !.plan = routine, !.replans = @ + 2]

Renewed(mind, routine) == [mind EXCEPT !.plan = routine, !.replans = 2]

\* citizenProjectOrigination, on the plan the citizen has.
Originates(c, p, mind) ==
    /\ c.time >= OriginationDay /\ OriginatedBy[p] # None
    /\ ~ \E q \in DOMAIN c.projects : WorkInfo[q].sponsor = Owner("citizen", p)
    /\ mind.plan[1] = "transport"

\* cognitionOptions: <<action, routine>>.
Options(c, p, mind) ==
    LET lane == WaterLaneOf[p] IN
    {<<"follow", mind.plan>>}
    \cup (IF lane # None THEN {<<"transport", <<"transport", lane>>>>} ELSE {})
    \cup (IF Originates(c, p, mind)
          THEN {<<"propose", IF lane = None THEN mind.plan ELSE <<"transport", lane>>>>}
          ELSE {})
    \cup (IF mind.heard # None
          THEN {<<"heed", <<"social-maintenance", mind.heard>>>>} ELSE {})

\* A choice other than the plan replaces it, and uses up one replan.
Chosen(mind, option) ==
    IF option[1] = "follow" THEN mind
    ELSE [mind EXCEPT !.plan = option[2], !.replans = @ - 1]
HasBudget(mind, option) == option[1] = "follow" \/ mind.replans > 0

-----------------------------------------------------------------------------
(* The gateway *)

Waiting == Citizens \ DOMAIN decided
Asked == FirstOf(CitizenOrder, Waiting)
Undecided == phase = "deciding" /\ Waiting # {}

\* Promise.race: the first to settle is the result.  Mutants: the last is; the
\* timer is not one of the racers.
Settled_LastWins(r, outcome) == outcome
Settled_NoTimer(r, outcome) ==
    IF r = "open" /\ outcome # "expired" THEN outcome ELSE r

Settled(r, outcome) == IF r = "open" THEN outcome ELSE r

Ask ==
    /\ Undecided /\ provider /\ race = None
    /\ race' = "open" /\ open' = open \cup {Asked}
    /\ UNCHANGED <<civ, minds, site, last, provider, phase, decided, expired, failure, worked>>

\* The provider answers, or answers badly or not at all but with an error, be it
\* after the race.
Answer == \E p \in open, outcome \in {"accepted", "rejected"} :
    /\ open' = open \ {p}
    /\ race' = Settled(race, outcome)
    /\ UNCHANGED <<civ, minds, site, last, provider, phase, decided, expired, failure, worked>>

\* setTimeout's callback, or the abort of an external signal: cleared with the race.
Expire ==
    /\ Undecided /\ race = "open"
    /\ race' = Settled(race, "expired") /\ expired' = expired \cup {Asked}
    /\ UNCHANGED <<civ, minds, site, last, provider, phase, decided, open, failure, worked>>

\* The day is over: its questions are forgotten, and answers to them come to nothing.
Over == phase' = "idle" /\ decided' = <<>> /\ open' = {} /\ expired' = {}

\* decideCivilizationSchedulerRoutine, once the race is over: nobody listens to
\* the question any more.
Decision(p, option) ==
    LET source == IF race = "accepted" THEN "primary" ELSE "deterministic-fallback"
    IN  /\ race' = None
        /\ IF HasBudget(minds[p], option)
           THEN /\ decided' = With(decided, p, [action |-> option[1], routine |-> option[2],
                                                source |-> source,
                                                mind |-> Chosen(minds[p], option)])
                /\ open' = open \ {p} /\ UNCHANGED <<phase, expired, failure>>
           ELSE Over /\ failure' = "replan"
        /\ UNCHANGED <<civ, minds, site, last, provider, worked>>

Decide ==
    /\ Undecided /\ race # "open" /\ (provider => race # None)
    /\ \E option \in Options(civ, Asked, minds[Asked]) : Decision(Asked, option)

-----------------------------------------------------------------------------
(* The rest of the day *)

\* registerCitizenOriginatedProject and its empty stock.
Drafted(d, q) == Try(d, CanRegisterProject(d.civ, q), RegisterProject(d.civ, q))
Stocked(d, s) ==
    Try(d, CanRegisterStock(d.civ, s, 0, d.civ.time), RegisterStock(d.civ, s, 0, d.civ.time))
Originate(d, q) ==
    IF q \in DOMAIN d.civ.projects THEN d
    ELSE Stocked(Drafted(d, q), CHOOSE s \in Stocks : StockInfo[s].owner = Owner("project", q))

OriginateOne(d, p) ==
    IF Originates(d.civ, p, decided[p].mind) THEN Originate(d, OriginatedBy[p]) ELSE d
Originations(d) ==
    Chain(LAMBDA e, p : OriginateOne(e, p), d,
          Among(CitizenOrder, {p \in Citizens : decided[p].action = "propose"}))

Advance(d, state, at) ==
    IF d.ok /\ Colony \in DOMAIN d.civ.foundings
       /\ d.civ.foundings[Colony] \in DOMAIN NextFounding
       /\ NextFounding[d.civ.foundings[Colony]] = state
    THEN Try(d, CanAdvanceFounding(d.civ, Colony, at), AdvanceFounding(d.civ, Colony, at))
    ELSE [d EXCEPT !.ok = FALSE]

IsTrek(d, states) == d.ok /\ Trek \in DOMAIN d.civ.migrations /\ d.civ.migrations[Trek] \in states

\* registerMigration, registerMigrationJourney, registerFounding, preparing.
March(d, at) == Try(d, CanRegisterMigration(d.civ, Trek), RegisterMigration(d.civ, Trek, at))
Route(d) == Try(d, CanRegisterJourney(d.civ, Trek), RegisterJourney(d.civ, Trek))
Found(d) == Try(d, CanRegisterFounding(d.civ, Colony), RegisterFounding(d.civ, Colony))
Prepare(d, at) ==
    IF d.ok /\ Eligible /\ Is(d.civ, Kit, {"completed"}) /\ Trek \notin DOMAIN d.civ.migrations
    THEN Advance(Found(Route(March(d, at))), "preparing", at) ELSE d

Depart(d, at) ==
    IF IsTrek(d, {"planned"})
    THEN Advance(Try(d, CanDepartMigration(d.civ, Trek, at), DepartMigration(d.civ, Trek, at)),
                 "travelling", at)
    ELSE d

Arrive(d, at) == IF IsTrek(d, {"arrived"}) THEN Advance(d, "establishing", at) ELSE d
WalkOn(d, at) ==
    Arrive(Try(d, CanWalk(d.civ, Trek, Traversal, at), Walk(d.civ, Trek, Traversal, at)), at)

IsEstablishing(d) ==
    d.ok /\ Colony \in DOMAIN d.civ.foundings /\ d.civ.foundings[Colony] = "establishing"
Materialized(d, at) == Try(d, CanSettle(d.civ, Colony, at), Settle(d.civ, Colony, at))
SettleDown(d, at) ==
    IF IsEstablishing(d) THEN Materialized(Advance(d, "viable", at), at) ELSE d

\* The party does not walk on the day it departs, and settles when it arrives.
\* Mutant: it settles a day after it has arrived.
Expedition_SettlesLater(d, at) ==
    LET walks == IsTrek(d, {"travelling"}) IN
    IF walks THEN WalkOn(d, at) ELSE SettleDown(Depart(Prepare(d, at), at), at)

Expedition(d, at) ==
    LET walks == IsTrek(d, {"travelling"}) IN
    SettleDown(IF walks THEN WalkOn(d, at) ELSE Depart(Prepare(d, at), at), at)

Residence(c, p) == c.citizens[p].residence

\* scheduleActivities: on odd days, those who chose each other talk, pair by pair.
Talks(c, where, does) ==
    Chain(LAMBDA pairs, pair :
                IF /\ c.time % 2 = 1
                   /\ LegalSocialPartner(c, where, pair[1], pair[2])
                   /\ where[pair[1]] \in TalkSites
                   /\ does[pair[1]] = <<"social-maintenance", pair[2]>>
                   /\ does[pair[2]] = <<"social-maintenance", pair[1]>>
                   /\ \A p \in Range(pair) : /\ ~ Recent(last, p, c.time, Cooldown)
                                             /\ \A other \in pairs : p \notin other
                THEN pairs \cup {Range(pair)} ELSE pairs,
             {}, RelationOrder)

\* The first of the two by id talks; the other hears, and keeps the claim.
Hears(mind, p, pairs) ==
    LET Place(q) == CHOOSE i \in DOMAIN CitizenOrder : CitizenOrder[i] = q
        speakers == {q \in Citizens : {p, q} \in pairs /\ Place(q) < Place(p)}
    IN  IF speakers # {} /\ mind.heard = None
        THEN [mind EXCEPT !.heard = CHOOSE q \in speakers : TRUE] ELSE mind

Unworked == [given |-> [p \in Citizens |-> 0], taken |-> [p \in Citizens |-> 0]]

StartDay ==
    /\ phase = "idle" /\ civ.time < Horizon
    /\ phase' = "deciding" /\ failure' = None /\ worked' = Unworked
    /\ UNCHANGED <<civ, minds, site, last, provider, decided, race, open, expired>>

\* What the day comes to: why it throws, or None, and what is then kept.
Lost(why) ==
    [failure |-> why, civ |-> civ, site |-> site, minds |-> minds, last |-> last, worked |-> worked]

Kept(c, scheduled, policy, where, pairs) ==
    [failure |-> None, civ |-> c, site |-> where,
     minds |-> [p \in Citizens |->
        Hears(IF c.time >= 2
              THEN Renewed(decided[p].mind, PlannedRoutine(scheduled.civ, policy, p))
              ELSE decided[p].mind, p, pairs)],
     last |-> [p \in Citizens |-> IF \E pair \in pairs : p \in pair THEN c.time ELSE last[p]],
     worked |-> [given |-> AvailableLabor(civ), taken |-> scheduled.worked]]

Closed(c, scheduled, policy, routines) ==
    LET where == [p \in Citizens |-> IF Colony \in c.settled /\ p \in Settlers(Colony)
                                     THEN SettlersSite ELSE site[p]]
    IN  Kept(c, scheduled, policy, where,
             Talks(c, where, Paired(scheduled, routines, site, last, c.time, Cooldown)))

Audited(moved, scheduled, policy, routines) ==
    IF ~ moved.ok THEN Lost("expedition")
    ELSE IF ~ Audit(moved.civ) THEN Lost("audit")
    ELSE Closed(Checkpoint(moved.civ), scheduled, policy, routines)

Scheduled(scheduled, policy, routines) ==
    IF scheduled.ok
    THEN Audited(Expedition(scheduled, civ.time + 1), scheduled, policy, routines)
    ELSE Lost("scheduler")

Decided(originated, policy, routines) ==
    LET Legal(p) == LegalDecision(originated.civ, site, policy, p,
                                  routines[p][1], routines[p][2])
    IN  IF \A p \in Citizens : Legal(p)
        THEN Scheduled(AdvanceScheduler(originated.civ, policy, routines), policy, routines)
        ELSE Lost(IF \A p \in Citizens : Legal(p) \/ decided[p].action = "heed"
                  THEN "heed" ELSE "decision")

Day ==
    LET originated == Originations(Begin(civ))
    IN  IF originated.ok
        THEN Decided(originated, Policy(originated.civ),
                     [p \in Citizens |-> decided[p].routine])
        ELSE Lost("originate")

RunDay ==
    /\ phase = "deciding" /\ Waiting = {}
    /\ \E day \in {Day} :
          /\ civ' = day.civ /\ site' = day.site /\ minds' = day.minds /\ last' = day.last
          /\ worked' = day.worked /\ failure' = day.failure
    /\ Over
    /\ UNCHANGED <<provider, race>>

\* The page is closed, or the worker stops: the day is lost.
LoseDay ==
    /\ phase = "deciding"
    /\ Over /\ race' = None
    /\ UNCHANGED <<civ, minds, site, last, provider, failure, worked>>

\* bootstrapCivilization: people, households, the kit's project, stocks.
HomeOf(p) ==
    IF \E h \in DOMAIN Homes : p \in Homes[h]
    THEN CHOOSE h \in DOMAIN Homes : p \in Homes[h] ELSE None
Peopled ==
    [time |-> 0, stocks |-> <<>>, processes |-> <<>>, projects |-> <<>>,
     citizens |-> [p \in Citizens |-> [residence |-> "resident", household |-> HomeOf(p),
                                       settlement |-> Origin]],
     households |-> [h \in DOMAIN Homes |-> [settlement |-> Origin, members |-> Homes[h]]],
     migrations |-> <<>>, departures |-> <<>>, journeys |-> <<>>, foundings |-> <<>>,
     settled |-> {}, settlements |-> {Origin}, kinds |-> GenesisKinds, built |-> <<>>,
     base |-> [stocks |-> <<>>, consumed |-> ZeroBooks], ledger |-> <<>>, outcomes |-> {}]
Planned == IF Eligible THEN RegisterProject(Peopled, Kit) ELSE Peopled
StockedFirst(c, s) ==
    IF s \in DOMAIN GenesisStocks THEN RegisterStock(c, s, GenesisStocks[s], 0) ELSE c
Bootstrap == Chain(LAMBDA c, s : StockedFirst(c, s), Planned, StockOrder)

Init ==
    /\ civ = Bootstrap /\ site = SiteOf
    /\ last = [p \in Citizens |-> 0]
    /\ minds = [p \in Citizens |-> [plan |-> PlannedRoutine(Bootstrap, Policy(Bootstrap), p),
                                    replans |-> 2, heard |-> None]]
    /\ provider \in BOOLEAN
    /\ phase = "idle" /\ decided = <<>> /\ race = None /\ open = {} /\ expired = {}
    /\ failure = None
    /\ worked = Unworked

Next == StartDay \/ Ask \/ Answer \/ Expire \/ Decide \/ RunDay \/ LoseDay

\* RunDay without what it computes, which its being enabled does not depend on.
DayOver == phase = "deciding" /\ Waiting = {} /\ phase' = "idle"

\* The code's own steps run and its timer fires; the provider owes nothing.
Fairness ==
    WF_vars(StartDay) /\ WF_vars(Ask) /\ WF_vars(Expire) /\ WF_vars(Decide) /\ WF_phase(DayOver)

Spec == Init /\ [][Next]_vars /\ Fairness

-----------------------------------------------------------------------------
(* Properties *)

TypeOK ==
    /\ civ.time \in 0..Horizon
    /\ \A s \in DOMAIN civ.stocks : civ.stocks[s] \in 0..StockInfo[s].capacity
    /\ \A p \in Citizens : minds[p].replans \in 0..2 /\ minds[p].heard \in Citizens \cup {None}
    /\ last \in [Citizens -> 0..Horizon]
    /\ provider \in BOOLEAN /\ phase \in {"idle", "deciding"}
    /\ DOMAIN decided \subseteq Citizens /\ open \cup expired \subseteq Citizens
    /\ race \in {None, "open", "accepted", "rejected", "expired"}

\* A day takes of a citizen, over all jobs, lanes and projects, no more labor
\* than they have, and of those who are away none.
LaborWithinCapacity == \A p \in Citizens : worked.taken[p] =< worked.given[p]

\* No day is lost to the scheduler, the expedition, the audit or an exhausted
\* plan: what they do is always what the kernel allows.  The one thing that makes
\* a day throw is a citizen who heeds a neighbour they cannot meet.
OnlyHeedsFail == failure \in {None, "heed"}

\* Between two days the expedition is all in one state: the founding, the
\* journey, the migrants and the map agree, however the day was cut short.
ExpeditionIsWhole ==
    LET gone == Trek \in DOMAIN civ.migrations
        there == Colony \in civ.settled
    IN  /\ gone = (Colony \in DOMAIN civ.foundings)
        /\ gone => /\ Is(civ, Kit, {"completed"}) /\ Kit \in DOMAIN civ.built
                   /\ civ.migrations[Trek] = (IF there THEN "arrived" ELSE "travelling")
                   /\ civ.foundings[Colony] = (IF there THEN "viable" ELSE "travelling")
                   /\ AtEnd(Trek, civ.journeys[Trek]) = there
        /\ \A p \in Settlers(Colony) :
              /\ Residence(civ, p) = (IF gone /\ ~ there THEN "travelling" ELSE "resident")
              /\ (site[p] = SettlersSite) = there

\* A decision is the provider's only if its answer came before the timer and the
\* abort: an answer that comes later is never what the citizen does.
AnswersInTime ==
    \A p \in DOMAIN decided : decided[p].source = "primary" => provider /\ p \notin expired

\* A day that starts ends, kept or thrown away, though the provider never answers.
DayEnds == phase = "deciding" ~> phase = "idle"
=============================================================================
