--------------------------- MODULE CivilizationRules ---------------------------
(***************************************************************************)
(* The calls of the civilization kernel as functions of its state, with    *)
(* the conditions under which they do not throw                            *)
(* (packages/civilization/src/kernel.ts, population.ts, audit.ts).         *)
(*                                                                         *)
(* The kernel is a library of pure functions: a call takes a state and     *)
(* returns the next one or throws, and the state is then as it was.  For   *)
(* each call X, CanX(c, ...) is true when it does not throw and X(c, ...)  *)
(* is what it returns.  The specifications that call it are                *)
(* CivilizationKernel (any call, in any order) and CivilizationScheduler   *)
(* (the calls of one day).                                                 *)
(*                                                                         *)
(* What never changes once registered is a constant: whose a stock is,     *)
(* what a recipe takes and gives, what a project asks for.  A storage and  *)
(* the one stock of a resource in it are one thing here, the stock.        *)
(***************************************************************************)
EXTENDS Integers, Sequences, FiniteSets, FiniteSetsExt, SequencesExt

CONSTANTS
    Resources, Foods, Waters,
    Citizens, Settlements, Sites, Kinds, Households, Institutions,
    Stocks, Recipes, Projects, Migrations, Foundings, Processes,
    StockInfo,      \* per stock: owner, resource, capacity, reserved
    StockOrder,     \* the stocks in the order of their ids
    RecipeInfo,     \* per recipe: in and out by resource, duration, building kinds
    ProjectInfo,    \* per project: settlement, site, labourers, deps, milestones
    MigrationInfo,  \* per migration: citizens, origin, carried, needs, the time
                    \* it is expected to take, legs
    FoundingInfo,   \* per founding: migration, settlement, projects, stocks, needs
    MembersOf,      \* per institution, its standing members
    CapacityOf,     \* per citizen, laborCapacity less committedLabor, per day
    RequiredFood, RequiredWater,    \* per citizen, per day
    None

Owner(kind, id) == <<kind, id>>
ResourceOf(s) == StockInfo[s].resource

\* The catalogue the registrations accept: known references, positive amounts,
\* milestones that depend on other milestones of the project.
ValidCatalogue ==
    /\ IsFiniteSet(Resources)
    /\ StockOrder \in Seq(Stocks) /\ Range(StockOrder) = Stocks /\ IsInjective(StockOrder)
    /\ \A s \in Stocks :
          /\ StockInfo[s].resource \in Resources
          /\ StockInfo[s].capacity \in Nat /\ StockInfo[s].reserved \in Nat
    /\ Foods # {} /\ Waters # {} /\ Foods \cup Waters \subseteq Resources
    /\ Foods \cap Waters = {}
    /\ RequiredFood \in [Citizens -> Nat] /\ RequiredWater \in [Citizens -> Nat]
    /\ \A r \in Recipes : /\ RecipeInfo[r].duration \in Nat \ {0}
                          /\ RecipeInfo[r].in \in [Resources -> Nat]
                          /\ RecipeInfo[r].out \in [Resources -> Nat]
                          /\ \E g \in Resources : RecipeInfo[r].out[g] > 0
    /\ \A p \in Projects : LET ms == ProjectInfo[p].milestones IN
          /\ ProjectInfo[p].site \in Sites \cup {None}
          /\ ms # <<>>
          /\ ms \in Seq([needs : [Resources -> Nat], labor : Nat, deps : SUBSET Nat])
          /\ \A i \in DOMAIN ms : ms[i].deps \subseteq DOMAIN ms \ {i}
    /\ \A m \in Migrations :
          /\ MigrationInfo[m].citizens # {} /\ MigrationInfo[m].legs # <<>>
          /\ MigrationInfo[m].legs \in Seq(Nat \ {0})
          /\ MigrationInfo[m].takes \in Nat \ {0}
          /\ \A s \in MigrationInfo[m].carried :
                \E p \in MigrationInfo[m].citizens :
                    StockInfo[s].owner = Owner("citizen", p)
    /\ \A f \in Foundings :
          /\ FoundingInfo[f].settlement \in Settlements
          /\ FoundingInfo[f].stocks \subseteq MigrationInfo[FoundingInfo[f].migration].carried

ASSUME CatalogueAssumption == ValidCatalogue

-----------------------------------------------------------------------------
(* A loop over a sequence: FoldLeft, with each step evaluated once. *)

Chain(Step(_, _), base, seq) ==
    LET f[i \in 0..Len(seq)] ==
            IF i = 0 THEN base
            ELSE CHOOSE v \in {Step(u, seq[i]) : u \in {f[i - 1]}} : TRUE
    IN  f[Len(seq)]

-----------------------------------------------------------------------------
(* Stocks and the accounting ledger *)

Entry(kind, at, about, delta) ==
    [kind |-> kind, at |-> at, about |-> about, delta |-> delta]

\* A partial function with one more key.
With(f, k, v) == [x \in DOMAIN f \cup {k} |-> IF x = k THEN v ELSE f[x]]
Without(f, K) == [x \in DOMAIN f \ K |-> f[x]]
Joined(f, g) == [x \in DOMAIN f \cup DOMAIN g |-> IF x \in DOMAIN f THEN f[x] ELSE g[x]]

DeltaOf(delta, s) == IF s \in DOMAIN delta THEN delta[s] ELSE 0
ByResource(delta) ==
    [g \in Resources |-> MapThenSumSet(LAMBDA s : delta[s],
                                       {s \in DOMAIN delta : ResourceOf(s) = g})]

Free(c, s) == c.stocks[s] - StockInfo[s].reserved

\* The checks of transfer, production and consumption on what a stock keeps.
\* Mutant: what is taken is not compared with what is there.
Covers_Overdraws(c, delta) == DOMAIN delta \subseteq DOMAIN c.stocks

Covers(c, delta) ==
    /\ DOMAIN delta \subseteq DOMAIN c.stocks
    /\ \A s \in DOMAIN delta : delta[s] < 0 => Free(c, s) + delta[s] >= 0
Fits(c, delta) ==
    \A s \in DOMAIN delta : c.stocks[s] + delta[s] =< StockInfo[s].capacity

\* evolve with moved stocks and one more ledger entry.
Moved(c, kind, at, about, delta) ==
    [c EXCEPT !.time = at,
              !.stocks = [s \in DOMAIN @ |-> @[s] + DeltaOf(delta, s)],
              !.ledger = Append(@, Entry(kind, at, about, delta))]

CanRegisterStock(c, s, q, at) ==
    LET o == StockInfo[s].owner IN
    /\ s \notin DOMAIN c.stocks
    /\ at >= c.time
    /\ StockInfo[s].reserved =< q /\ q =< StockInfo[s].capacity
    /\ o[1] = "settlement" => o[2] \in c.settlements
    /\ o[1] = "household" => o[2] \in DOMAIN c.households
    /\ o[1] = "project" => o[2] \in DOMAIN c.projects

RegisterStock(c, s, q, at) ==
    Moved([c EXCEPT !.stocks = With(@, s, 0)], "stock-created", at, s, [x \in {s} |-> q])

\* One line: deliveries and lanes never pass more.
Line(from, to, q) == [s \in {from, to} |-> IF s = from THEN -q ELSE q]

CanTransfer(c, from, to, q, at) ==
    /\ q > 0 /\ from # to /\ at >= c.time
    /\ {from, to} \subseteq DOMAIN c.stocks
    /\ ResourceOf(from) = ResourceOf(to)
    /\ Covers(c, Line(from, to, q)) /\ Fits(c, Line(from, to, q))

Transfer(c, kind, from, to, q, at) == Moved(c, kind, at, None, Line(from, to, q))

-----------------------------------------------------------------------------
(* Production *)

\* bind: for each resource of a flow, the stock the binding names.
Bound(flow, bind, sign) ==
    LET used == {g \in Resources : flow[g] > 0}
    IN  [s \in {bind[g] : g \in used} |->
            sign * MapThenSumSet(LAMBDA g : flow[g], {g \in used : bind[g] = s})]

Bindings(c, flow) ==
    {b \in [{g \in Resources : flow[g] > 0} -> DOMAIN c.stocks] :
        \A g \in DOMAIN b : ResourceOf(b[g]) = g}

CanStartProduction(c, id, r, site, in, out, at) ==
    /\ id \notin DOMAIN c.processes
    /\ at >= c.time
    /\ RecipeInfo[r].kinds \subseteq c.kinds[site]
    /\ Covers(c, Bound(RecipeInfo[r].in, in, -1))

StartProduction(c, id, r, in, out, at) ==
    [Moved(c, "recipe-input", at, r, Bound(RecipeInfo[r].in, in, -1))
        EXCEPT !.processes = With(@, id, [recipe |-> r, out |-> out, state |-> "active",
                                          due |-> at + RecipeInfo[r].duration])]

Outputs(c, id) ==
    Bound(RecipeInfo[c.processes[id].recipe].out, c.processes[id].out, 1)

\* Mutant: a process that has completed completes again.
IsActive_CompletesTwice(c, id) == TRUE

IsActive(c, id) == c.processes[id].state = "active"

CanCompleteProduction(c, id, at) ==
    /\ id \in DOMAIN c.processes /\ IsActive(c, id)
    /\ at >= c.processes[id].due /\ at >= c.time
    /\ Fits(c, Outputs(c, id))

CompleteProduction(c, id, at) ==
    [Moved(c, "recipe-output", at, c.processes[id].recipe, Outputs(c, id))
        EXCEPT !.processes[id].state = "completed"]

-----------------------------------------------------------------------------
(* Daily needs *)

Accessible(c, s, p) ==
    StockInfo[s].owner \in
        {Owner("citizen", p), Owner("household", c.citizens[p].household),
         Owner("settlement", c.citizens[p].settlement)}
        \cup {Owner("institution", i) : i \in {j \in Institutions : p \in MembersOf[j]}}

InReach(c, p, stocks, class) ==
    {s \in stocks : ResourceOf(s) \in class /\ Accessible(c, s, p)}

Take(quantities, acc, s) ==
    LET n == Min({acc.left, quantities[s] - StockInfo[s].reserved})
    IN  IF n > 0 THEN [left |-> acc.left - n, delta |-> With(acc.delta, s, -n)] ELSE acc

\* consume(): greedily through the sorted stocks, those of the class that are in
\* reach, from the quantities the earlier citizens of the batch have left.
Taken(c, quantities, p, stocks, class, required) ==
    LET reach == InReach(c, p, stocks, class)
    IN  Chain(LAMBDA acc, s : IF s \in reach THEN Take(quantities, acc, s) ELSE acc,
              [left |-> required, delta |-> <<>>], StockOrder)

\* One citizen of the batch, on the state the batch has reached: a citizen who
\* finds nothing leaves an outcome and no ledger entry.
Feed(c, p, stocks, at) ==
    LET meal == Taken(c, c.stocks, p, stocks, Foods, RequiredFood[p])
        drink == Taken(c, c.stocks, p, stocks, Waters, RequiredWater[p])
        delta == Joined(meal.delta, drink.delta)
        ate == IF delta = <<>> THEN [c EXCEPT !.time = at]
               ELSE Moved(c, "need-consumption", at, p, delta)
    IN  [ate EXCEPT !.outcomes = @ \cup
            {[citizen |-> p, at |-> at, food |-> RequiredFood[p] - meal.left,
              water |-> RequiredWater[p] - drink.left]}]

\* batch: citizens in order; an outcome of a citizen is recorded once per time.
CanConsumeNeeds(c, batch, at) ==
    /\ at >= c.time /\ batch # <<>>
    /\ IsInjective(batch)
    /\ \A i \in DOMAIN batch :
          /\ c.citizens[batch[i]].residence = "resident"
          /\ ~ \E o \in c.outcomes : o.citizen = batch[i] /\ o.at = at

ConsumeNeeds(c, batch, needStocks, at) ==
    Chain(LAMBDA d, p : Feed(d, p, needStocks[p] \cap DOMAIN c.stocks, at), c, batch)

-----------------------------------------------------------------------------
(* The checkpoint of the ledger *)

ZeroBooks == [p \in Projects |-> [g \in Resources |-> 0]]

ConsumedIn(ledger, p) ==
    Chain(LAMBDA acc, e :
                IF e.kind = "project-consumption" /\ e.about = p
                THEN [g \in Resources |-> acc[g] - ByResource(e.delta)[g]] ELSE acc,
             [g \in Resources |-> 0], ledger)

\* What projects have consumed: the earlier checkpoint's and the ledger's since.
ConsumedBooks(c) ==
    [p \in Projects |-> [g \in Resources |->
        c.base.consumed[p][g] + ConsumedIn(c.ledger, p)[g]]]

\* Mutant: a checkpoint counts only the ledger since the one before it.
CheckpointBooks_SinceLast(c) == [p \in Projects |-> ConsumedIn(c.ledger, p)]

CheckpointBooks(c) == ConsumedBooks(c)

\* A completed process is forgotten; its id may be used again.
Checkpoint(c) ==
    [c EXCEPT !.base = [stocks |-> c.stocks, consumed |-> CheckpointBooks(c)],
              !.ledger = <<>>, !.outcomes = {},
              !.processes = Without(@, {id \in DOMAIN @ : @[id].state # "active"})]

-----------------------------------------------------------------------------
(* Projects *)

Plan(p) == ProjectInfo[p].milestones
NewMilestone(plan) ==
    [state |-> IF plan.deps = {} THEN "ready" ELSE "blocked",
     delivered |-> [g \in Resources |-> 0], consumed |-> [g \in Resources |-> 0],
     labor |-> 0]

CanRegisterProject(c, p) ==
    /\ p \notin DOMAIN c.projects
    /\ ProjectInfo[p].settlement \in c.settlements
    /\ ProjectInfo[p].deps \subseteq DOMAIN c.projects

RegisterProject(c, p) ==
    [c EXCEPT !.projects = With(@, p, [state |-> "proposed",
        milestones |-> [i \in DOMAIN Plan(p) |-> NewMilestone(Plan(p)[i])]])]

Is(c, p, states) == p \in DOMAIN c.projects /\ c.projects[p].state \in states

ApproveProject(c, p) == [c EXCEPT !.projects[p].state = "approved"]

CanStartProject(c, p, at) ==
    /\ Is(c, p, {"approved", "resourcing"}) /\ at >= c.time
    /\ \A d \in ProjectInfo[p].deps : Is(c, d, {"completed"})

StartProject(c, p, at) == [c EXCEPT !.time = at, !.projects[p].state = "active"]

\* A milestone to which material is delivered, on which it is used, and on
\* which somebody works.
WithDelivery(m, g, q) == [m EXCEPT !.delivered[g] = @ + q]
WithUse(m, g, q) == [m EXCEPT !.consumed[g] = @ + q, !.state = "active"]
WithLabor(m, n) == [m EXCEPT !.labor = @ + n, !.state = "active"]

CanDeliver(c, p, i, from, to, q, at) ==
    /\ Is(c, p, {"approved", "resourcing", "active"})
    /\ StockInfo[to].owner = Owner("project", p)
    /\ c.projects[p].milestones[i].delivered[ResourceOf(to)] + q
          =< Plan(p)[i].needs[ResourceOf(to)]
    /\ CanTransfer(c, from, to, q, at)

Deliver(c, p, i, from, to, q, at) ==
    [Transfer(c, "transfer", from, to, q, at)
        EXCEPT !.projects[p].state = IF @ = "approved" THEN "resourcing" ELSE @,
               !.projects[p].milestones[i] = WithDelivery(@, ResourceOf(to), q)]

\* Mutant: a blocked milestone may be worked on.
Workable_Blocked(c, p, i) == c.projects[p].milestones[i].state \notin {"completed", "failed"}

\* blocked, completed and failed milestones take neither material nor labor.
Workable(c, p, i) == c.projects[p].milestones[i].state \in {"ready", "active"}

CanConsume(c, p, i, s, q, at) ==
    /\ Is(c, p, {"active"}) /\ Workable(c, p, i)
    /\ s \in DOMAIN c.stocks /\ StockInfo[s].owner = Owner("project", p)
    /\ q > 0 /\ at >= c.time
    /\ LET m == c.projects[p].milestones[i] IN
          m.consumed[ResourceOf(s)] + q =< m.delivered[ResourceOf(s)]
    /\ Covers(c, [x \in {s} |-> -q])

Consume(c, p, i, s, q, at) ==
    [Moved(c, "project-consumption", at, p, [x \in {s} |-> -q])
        EXCEPT !.projects[p].milestones[i] = WithUse(@, ResourceOf(s), q)]

CanContribute(c, p, i, who, n, at) ==
    /\ Is(c, p, {"active"}) /\ Workable(c, p, i)
    /\ who \in ProjectInfo[p].labourers
    /\ n > 0 /\ at >= c.time
    /\ c.projects[p].milestones[i].labor + n =< Plan(p)[i].labor

Contribute(c, p, i, n, at) ==
    [c EXCEPT !.time = at, !.projects[p].milestones[i] = WithLabor(@, n)]

Exact(p, i, m) == m.consumed = Plan(p)[i].needs /\ m.labor = Plan(p)[i].labor

\* The milestone must not be blocked, but may be completed already.
CanCompleteMilestone(c, p, i) ==
    /\ Is(c, p, {"active"})
    /\ c.projects[p].milestones[i].state # "blocked"
    /\ Exact(p, i, c.projects[p].milestones[i])

CompleteMilestone(c, p, i) ==
    LET ms == [c.projects[p].milestones EXCEPT ![i].state = "completed"]
        Done(j) == ms[j].state = "completed"
    IN  [c EXCEPT !.projects[p].milestones =
            [j \in DOMAIN ms |->
                IF ms[j].state = "blocked" /\ \A d \in Plan(p)[j].deps : Done(d)
                THEN [ms[j] EXCEPT !.state = "ready"] ELSE ms[j]]]

AllMilestones(c, p) ==
    \A i \in DOMAIN Plan(p) : c.projects[p].milestones[i].state = "completed"

CanCompleteProject(c, p, at) ==
    Is(c, p, {"active"}) /\ at >= c.time /\ AllMilestones(c, p)

CompleteProject(c, p, at) == [c EXCEPT !.time = at, !.projects[p].state = "completed"]

CanMaterialize(c, p, at) ==
    /\ Is(c, p, {"completed"}) /\ ProjectInfo[p].site # None
    /\ p \notin DOMAIN c.built /\ at >= c.time

Materialize(c, p, kind, at) ==
    [c EXCEPT !.time = at, !.built = With(@, p, kind),
              !.kinds[ProjectInfo[p].site] = @ \cup {kind}]

CanEnd(c, p, at) ==
    Is(c, p, {"proposed", "approved", "resourcing", "active"}) /\ at >= c.time

FailProject(c, p, at) ==
    [c EXCEPT !.time = at, !.projects[p].state = "failed",
              !.projects[p].milestones = [i \in DOMAIN @ |->
                  IF @[i].state = "completed" THEN @[i]
                  ELSE [@[i] EXCEPT !.state = "failed"]]]

AbandonProject(c, p, at) == [c EXCEPT !.time = at, !.projects[p].state = "abandoned"]

-----------------------------------------------------------------------------
(* Citizens and households *)

Resident(c, p, settlement) ==
    c.citizens[p].residence = "resident" /\ c.citizens[p].settlement = settlement

CanFormHousehold(c, h, settlement, members) ==
    /\ h \notin DOMAIN c.households /\ members # {}
    /\ settlement \in c.settlements
    /\ \A p \in members :
          Resident(c, p, settlement) /\ c.citizens[p].household = None

FormHousehold(c, h, settlement, members) ==
    [c EXCEPT !.households = With(@, h, [settlement |-> settlement, members |-> members]),
              !.citizens = [p \in Citizens |->
                  IF p \in members THEN [@[p] EXCEPT !.household = h] ELSE @[p]]]

CanLeaveHousehold(c, p) == c.citizens[p].household \in DOMAIN c.households

\* registerHousehold stores what it is given, members and dependents together:
\* nobody is told, and they may be none, or live elsewhere, or with others.
CanRegisterHousehold(c, h, settlement) ==
    h \notin DOMAIN c.households /\ settlement \in c.settlements

RegisterHousehold(c, h, settlement, members) ==
    [c EXCEPT !.households = With(@, h, [settlement |-> settlement, members |-> members])]

\* The last one to leave dissolves the household.
LeaveHousehold(c, p) ==
    LET h == c.citizens[p].household
        rest == c.households[h].members \ {p}
    IN  [c EXCEPT !.citizens[p].household = None,
                  !.households = IF rest = {} THEN Without(@, {h})
                                 ELSE [@ EXCEPT ![h].members = rest]]

\* Mutant: a citizen departs without leaving the household.
IsFreeToGo_Always(c, p) == TRUE

IsFreeToGo(c, p) == c.citizens[p].household = None

CanDepart(c, p, at) ==
    /\ c.citizens[p].residence = "resident" /\ at >= c.time
    /\ IsFreeToGo(c, p)

DepartCitizen(c, p, at) == [c EXCEPT !.time = at, !.citizens[p].residence = "departed"]

CanArrive(c, p, settlement, at) ==
    c.citizens[p].residence = "departed" /\ settlement \in c.settlements /\ at >= c.time

ArriveCitizen(c, p, settlement, at) ==
    [c EXCEPT !.time = at, !.citizens[p].residence = "resident",
              !.citizens[p].settlement = settlement]

-----------------------------------------------------------------------------
(* Migrations and foundings *)

\* validatePhysicalRequirements: what the stocks hold, less what is reserved.
Holds(c, stocks, needs) ==
    /\ stocks \subseteq DOMAIN c.stocks
    /\ \A g \in Resources : needs[g] > 0 =>
          MapThenSumSet(LAMBDA s : Free(c, s), {s \in stocks : ResourceOf(s) = g})
             >= needs[g]

CanRegisterMigration(c, m) ==
    /\ m \notin DOMAIN c.migrations
    /\ MigrationInfo[m].origin \in c.settlements
    /\ Holds(c, MigrationInfo[m].carried, MigrationInfo[m].needs)

RegisterMigration(c, m, departure) ==
    [c EXCEPT !.migrations = With(@, m, "planned"), !.departures = With(@, m, departure)]

CanRegisterJourney(c, m) ==
    /\ m \in DOMAIN c.migrations /\ c.migrations[m] = "planned"
    /\ m \notin DOMAIN c.journeys

RegisterJourney(c, m) == [c EXCEPT !.journeys = With(@, m, [leg |-> 0, progress |-> 0, done |-> 0])]

\* advanceMigration to travelling; to arrived it is never called, since the
\* journey itself arrives.
CanDepartMigration(c, m, at) ==
    LET info == MigrationInfo[m] IN
    /\ m \in DOMAIN c.journeys /\ c.migrations[m] = "planned"
    /\ Holds(c, info.carried, info.needs)
    /\ at >= c.departures[m] /\ at >= c.time
    /\ \A p \in info.citizens : Resident(c, p, info.origin) /\ IsFreeToGo(c, p)

DepartMigration(c, m, at) ==
    [c EXCEPT !.time = at, !.migrations[m] = "travelling",
              !.citizens = [p \in Citizens |->
                  IF p \in MigrationInfo[m].citizens
                  THEN [@[p] EXCEPT !.residence = "travelling"] ELSE @[p]]]

\* The loop of advanceMigrationJourney: the budget is spent leg after leg.
Walked(m, j, budget) ==
    Chain(LAMBDA acc, units :
                LET n == Min({acc.left, units - acc.j.progress})
                    on == acc.j.progress + n = units
                IN  IF acc.left = 0 THEN acc
                    ELSE [left |-> acc.left - n,
                          j |-> [leg |-> IF on THEN acc.j.leg + 1 ELSE acc.j.leg,
                                 progress |-> IF on THEN 0 ELSE acc.j.progress + n,
                                 done |-> acc.j.done + n]],
             [left |-> budget, j |-> j],
             SubSeq(MigrationInfo[m].legs, j.leg + 1, Len(MigrationInfo[m].legs))).j

AtEnd(m, j) == j.leg = Len(MigrationInfo[m].legs)

CanWalk(c, m, budget, at) ==
    /\ m \in DOMAIN c.journeys /\ c.migrations[m] = "travelling"
    /\ at >= c.time
    /\ AtEnd(m, Walked(m, c.journeys[m], budget)) => at >= c.departures[m] + MigrationInfo[m].takes

Walk(c, m, budget, at) ==
    LET j == Walked(m, c.journeys[m], budget) IN
    [c EXCEPT !.time = at, !.journeys[m] = j,
              !.migrations[m] = IF AtEnd(m, j) THEN "arrived" ELSE @]

CanRegisterFounding(c, f) ==
    /\ f \notin DOMAIN c.foundings
    /\ FoundingInfo[f].migration \in DOMAIN c.migrations
    /\ FoundingInfo[f].projects \subseteq DOMAIN c.projects
    /\ Holds(c, FoundingInfo[f].stocks, FoundingInfo[f].needs)

RegisterFounding(c, f) == [c EXCEPT !.foundings = With(@, f, "proposed")]

NextFounding ==
    [proposed |-> "preparing", preparing |-> "travelling",
     travelling |-> "establishing", establishing |-> "viable"]

\* What the expedition must have done before each state of the founding.
FoundingReady(c, f, to) ==
    LET m == c.migrations[FoundingInfo[f].migration] IN
    /\ to = "travelling" => m = "travelling"
    /\ to \in {"establishing", "viable"} => m = "arrived"
    /\ to = "viable" => \A p \in FoundingInfo[f].projects : Is(c, p, {"completed"})

CanAdvanceFounding(c, f, at) ==
    /\ f \in DOMAIN c.foundings /\ c.foundings[f] \in DOMAIN NextFounding
    /\ Holds(c, FoundingInfo[f].stocks, FoundingInfo[f].needs)
    /\ at >= c.time
    /\ FoundingReady(c, f, NextFounding[c.foundings[f]])

AdvanceFounding(c, f, at) == [c EXCEPT !.time = at, !.foundings[f] = NextFounding[@]]

\* recordFoundingMaterialization: without a site it adds the settlement and moves
\* nobody, with a site the migrants come to live there.
CanSettleUnsited(c, f, at) ==
    /\ f \in DOMAIN c.foundings /\ c.foundings[f] = "viable"
    /\ f \notin c.settled /\ FoundingInfo[f].settlement \notin c.settlements
    /\ at >= c.time

SettleUnsited(c, f, at) ==
    [c EXCEPT !.time = at, !.settled = @ \cup {f},
              !.settlements = @ \cup {FoundingInfo[f].settlement}]

Settlers(f) == MigrationInfo[FoundingInfo[f].migration].citizens

CanSettle(c, f, at) ==
    /\ CanSettleUnsited(c, f, at)
    /\ \A p \in Settlers(f) : c.citizens[p].residence = "travelling"

Settle(c, f, at) ==
    [SettleUnsited(c, f, at) EXCEPT !.citizens = [p \in Citizens |->
        IF p \in Settlers(f)
        THEN [@[p] EXCEPT !.residence = "resident", !.settlement = FoundingInfo[f].settlement]
        ELSE @[p]]]

-----------------------------------------------------------------------------
(* auditCivilizationState *)

AuditHouseholds(c) ==
    \A h \in DOMAIN c.households :
        /\ c.households[h].members # {}
        /\ \A p \in c.households[h].members : c.citizens[p].household = h

\* The checkpoint's stocks and then the ledger, entry after entry.
Replayed(c, n) ==
    [s \in DOMAIN c.stocks |->
        DeltaOf(c.base.stocks, s)
        + MapThenSumSet(LAMBDA i : DeltaOf(c.ledger[i].delta, s), 1..n)]

AuditEntry(c, e) ==
    LET net == ByResource(e.delta) IN
    /\ e.at =< c.time
    /\ DOMAIN e.delta \subseteq DOMAIN c.stocks
    /\ e.kind \in {"transfer", "transport"} => \A g \in Resources : net[g] = 0
    /\ e.kind = "recipe-input" =>
          \A g \in Resources : RecipeInfo[e.about].in[g] > 0 => net[g] = -RecipeInfo[e.about].in[g]
    /\ e.kind = "recipe-output" =>
          \A g \in Resources : RecipeInfo[e.about].out[g] > 0 => net[g] = RecipeInfo[e.about].out[g]
    /\ e.kind = "need-consumption" => \A g \in Resources : net[g] =< 0

AuditLedger(c) ==
    \A n \in DOMAIN c.ledger :
        /\ AuditEntry(c, c.ledger[n])
        /\ \A s \in DOMAIN c.stocks : Replayed(c, n)[s] >= 0

AuditStocks(c) ==
    \A s \in DOMAIN c.stocks :
        /\ c.stocks[s] >= 0 /\ c.stocks[s] =< StockInfo[s].capacity
        /\ StockInfo[s].reserved =< c.stocks[s]
        /\ c.stocks[s] = Replayed(c, Len(c.ledger))[s]

AuditProjects(c) ==
    \A p \in DOMAIN c.projects, g \in Resources :
        ConsumedBooks(c)[p][g] =
            MapThenSumSet(LAMBDA i : c.projects[p].milestones[i].consumed[g], DOMAIN Plan(p))

\* What each outcome says was eaten is what the ledger says, and the reverse.
AteOf(c, p, at) ==
    {i \in DOMAIN c.ledger : /\ c.ledger[i].kind = "need-consumption"
                             /\ c.ledger[i].about = p /\ c.ledger[i].at = at}
AteClass(c, p, at, class) ==
    MapThenSumSet(LAMBDA i : MapThenSumSet(LAMBDA g : -ByResource(c.ledger[i].delta)[g], class),
                  AteOf(c, p, at))

AuditNeeds(c) ==
    /\ \A o \in c.outcomes :
          /\ o.at =< c.time
          /\ o.food \in 0..RequiredFood[o.citizen] /\ o.water \in 0..RequiredWater[o.citizen]
          /\ AteClass(c, o.citizen, o.at, Foods) = o.food
          /\ AteClass(c, o.citizen, o.at, Waters) = o.water
          /\ \A q \in c.outcomes : q.citizen = o.citizen /\ q.at = o.at => q = o
    /\ \A i \in DOMAIN c.ledger : c.ledger[i].kind = "need-consumption" =>
          \E o \in c.outcomes : o.citizen = c.ledger[i].about /\ o.at = c.ledger[i].at

AuditBuilt(c) ==
    \A p \in DOMAIN c.built :
        Is(c, p, {"completed"}) /\ c.built[p] \in c.kinds[ProjectInfo[p].site]

AuditJourneys(c) ==
    \A m \in DOMAIN c.journeys :
        LET j == c.journeys[m]
            legs == MigrationInfo[m].legs
        IN  /\ j.leg \in 0..Len(legs)
            /\ j.done = Chain(LAMBDA a, b : a + b, j.progress, SubSeq(legs, 1, j.leg))
            /\ IF AtEnd(m, j) THEN j.progress = 0
               ELSE j.progress >= 0 /\ j.progress < legs[j.leg + 1]
            /\ (c.migrations[m] = "arrived") = AtEnd(m, j)

AuditFoundings(c) ==
    \A f \in c.settled :
        c.foundings[f] = "viable" /\ FoundingInfo[f].settlement \in c.settlements

\* What the audit checks of everything but the households.
AuditBooks(c) ==
    /\ AuditLedger(c) /\ AuditStocks(c) /\ AuditProjects(c)
    /\ AuditNeeds(c) /\ AuditBuilt(c) /\ AuditJourneys(c) /\ AuditFoundings(c)

Audit(c) == AuditHouseholds(c) /\ AuditBooks(c)
=============================================================================
