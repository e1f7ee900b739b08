------------------------- MODULE CivilizationScheduler -------------------------
(***************************************************************************)
(* One day of the generalized scheduler                                    *)
(* (packages/civilization/src/scheduler.ts, advanceGeneralizedScheduler;   *)
(* pressures.ts, legalCollectiveProjectAffordances): it finishes what is   *)
(* due, runs the jobs by scarcity with their lanes, feeds the residents,   *)
(* works the collective projects and says what everyone did.               *)
(*                                                                         *)
(* The scheduler is a chain of kernel calls that are expected never to     *)
(* throw.  A day in the making is a record d: civ, the state so far; labor,*)
(* what each citizen has left; left, what each lane may still carry; did,  *)
(* the actions; worked, what the actions have taken of each citizen; ok,   *)
(* false once a call has thrown, and nothing happens after it.             *)
(***************************************************************************)
EXTENDS CivilizationRules

CONSTANTS
    CitizenOrder, ResourceOrder, ProjectOrder,  \* sorted by id
    JobOrder, LaneOrder,                        \* the policy's jobs and lanes, sorted
    JobInfo,        \* per job: recipe, site, participants, in, out, stock, target, lanes
    LaneInfo,       \* per lane: from, to, carrier, capacity, labor
    WorkInfo,       \* per project: sponsor, participants, actor, kind, authorized
    NeedStocks,     \* per citizen, the stocks the policy feeds them from
    RelationOrder   \* the relationships as pairs, sorted by id

Jobs == Range(JobOrder)
Lanes == Range(LaneOrder)

\* validatePolicy, for the parts that never change.
PolicyAssumption ==
    /\ \A l \in Lanes : /\ ResourceOf(LaneInfo[l].from) = ResourceOf(LaneInfo[l].to)
                        /\ LaneInfo[l].capacity \in Nat \ {0} /\ LaneInfo[l].labor \in Nat \ {0}
                        /\ LaneInfo[l].carrier \in Citizens
    /\ \A j \in Jobs :
          LET info == JobInfo[j]
              recipe == RecipeInfo[info.recipe]
          IN  /\ info.recipe \in Recipes /\ recipe.labor \in Nat
              /\ info.target > 0 /\ info.participants # {}
              /\ recipe.out[ResourceOf(info.stock)] > 0
              /\ \A g \in Resources : recipe.in[g] > 0 => ResourceOf(info.in[g]) = g
              /\ \A g \in Resources : recipe.out[g] > 0 => ResourceOf(info.out[g]) = g
              /\ \A l \in info.lanes : LaneInfo[l].to \in {info.in[g] : g \in DOMAIN info.in}

\* The lists are of what they are sorted lists of.
OrderAssumption ==
    /\ CitizenOrder \in Seq(Citizens) /\ Range(CitizenOrder) = Citizens
    /\ ResourceOrder \in Seq(Resources) /\ ProjectOrder \in Seq(Projects)
    /\ JobOrder \in Seq(Jobs) /\ LaneOrder \in Seq(Lanes)
    /\ CapacityOf \in [Citizens -> Nat]
    /\ \A p \in Projects : WorkInfo[p].kind \in Kinds

ASSUME SchedulerAssumption == PolicyAssumption /\ OrderAssumption

\* What a sorted list keeps of a set, and the first of it.
Among(order, S) == Chain(LAMBDA seq, x : IF x \in S THEN Append(seq, x) ELSE seq, <<>>, order)
FirstOf(order, S) == order[Min({i \in DOMAIN order : order[i] \in S})]

Positive(n) == IF n > 0 THEN n ELSE 0
Room(c, s) == StockInfo[s].capacity - c.stocks[s]
Try(d, can, civ) == IF d.ok /\ can THEN [d EXCEPT !.civ = civ] ELSE [d EXCEPT !.ok = FALSE]
Log(d, kind, subject) == [d EXCEPT !.did = @ \cup {<<kind, subject>>}]

\* A decision binds its citizen to one routine; without one all are permitted.
Permits(decisions, p, kind, subject) ==
    p \notin DOMAIN decisions \/ decisions[p] = <<kind, subject>>

AvailableLabor(c) ==
    [p \in Citizens |-> IF c.citizens[p].residence = "resident" THEN CapacityOf[p] ELSE 0]

\* What is asked of people who have less to give is not taken.  Mutant: work is
\* taken without being deducted from what the citizen has left.
Work_Undeducted(d, p, n) == [d EXCEPT !.worked[p] = @ + n]

Work(d, p, n) == [d EXCEPT !.labor[p] = @ - n, !.worked[p] = @ + n]

-----------------------------------------------------------------------------
(* validateRoutineDecisions *)

Related(p, q) == \E i \in DOMAIN RelationOrder : Range(RelationOrder[i]) = {p, q}

LegalSocialPartner(c, site, p, q) ==
    /\ p # q /\ Related(p, q) /\ site[p] = site[q]
    /\ Resident(c, p, c.citizens[q].settlement) /\ c.citizens[q].residence = "resident"

LegalDecision(c, site, policy, p, kind, subject) ==
    LET residence == c.citizens[p].residence IN
    CASE kind = "produce" -> subject \in Jobs /\ p \in JobInfo[subject].participants
      [] kind = "transport" -> subject \in Lanes /\ LaneInfo[subject].carrier = p
      [] kind = "construct" -> subject \in policy /\ WorkInfo[subject].actor = p
      [] kind = "social-maintenance" ->
            residence = "resident" /\ (subject = p \/ LegalSocialPartner(c, site, p, subject))
      [] kind = "travel" ->
            /\ residence = "travelling" /\ subject \in DOMAIN c.migrations
            /\ p \in MigrationInfo[subject].citizens
      [] kind = "away" -> residence = "departed" /\ subject = p
      [] OTHER -> FALSE

-----------------------------------------------------------------------------
(* Processes and production jobs *)

\* The process a job starts at a time; one job has at most one active.
ActiveOf(c, j) == {id \in DOMAIN c.processes : id[1] = j /\ IsActive(c, id)}

\* What is due of a job, by the time it started.
IsDue(c, id, j, at) == id \in ActiveOf(c, j) /\ c.processes[id].due =< at
CompleteOne(d, id, isDue, at) ==
    IF isDue THEN Try(d, CanCompleteProduction(d.civ, id, at), CompleteProduction(d.civ, id, at))
    ELSE d
StartTimes(at) == [t \in 1..at |-> t]
CompleteDue(d, j, at) ==
    Chain(LAMBDA e, t : CompleteOne(e, <<j, t>>, IsDue(d.civ, <<j, t>>, j, at), at),
          d, StartTimes(at))

\* Jobs by normalized scarcity of their output, then by id.
Scarcity(c, j) ==
    (Positive(JobInfo[j].target - c.stocks[JobInfo[j].stock]) * 10000) \div JobInfo[j].target
Placed(c, seq, j) ==
    LET before == {k \in Jobs : Scarcity(c, k) >= Scarcity(c, j)}
    IN  Among(seq, before) \o <<j>> \o Among(seq, Jobs \ before)
ByScarcity(c) == Chain(LAMBDA seq, j : Placed(c, seq, j), <<>>, JobOrder)

LaneAmount(d, l, required) ==
    LET lane == LaneInfo[l]
    IN  Min({Positive(required - d.civ.stocks[lane.to]), d.left[l],
             Positive(Free(d.civ, lane.from)), Room(d.civ, lane.to)})

Haul(d, j, l, decisions, at) ==
    LET lane == LaneInfo[l]
        n == LaneAmount(d, l, RecipeInfo[JobInfo[j].recipe].in[ResourceOf(lane.to)])
        moved == Try(d, CanTransfer(d.civ, lane.from, lane.to, n, at),
                     Transfer(d.civ, "transport", lane.from, lane.to, n, at))
    IN  IF /\ d.ok /\ Permits(decisions, lane.carrier, "transport", l)
           /\ n > 0 /\ d.labor[lane.carrier] >= lane.labor
        THEN Log([Work(moved, lane.carrier, lane.labor) EXCEPT !.left[l] = @ - n],
                 "transported", l)
        ELSE d

InputsReady(c, j) ==
    LET info == JobInfo[j] IN
    \A g \in Resources : RecipeInfo[info.recipe].in[g] > 0 =>
        Free(c, info.in[g]) >= RecipeInfo[info.recipe].in[g]

\* outputCapacityAvailable: what the active processes will put there is counted.
OutputRoom(c, j) ==
    LET out == Bound(RecipeInfo[JobInfo[j].recipe].out, JobInfo[j].out, 1)
        pending == {id \in DOMAIN c.processes : IsActive(c, id)}
    IN  \A s \in DOMAIN out :
            Room(c, s) - MapThenSumSet(LAMBDA id : DeltaOf(Outputs(c, id), s), pending)
                >= out[s]

\* reserveLabor: all that is needed, citizen after citizen, or nothing.
CanReserve(d, people, required) == MapThenSumSet(LAMBDA p : d.labor[p], people) >= required
ReserveOne(acc, p) ==
    LET n == Min({acc.left, acc.d.labor[p]})
    IN  [d |-> Work(acc.d, p, n), left |-> acc.left - n]
Reserve(d, people, required) ==
    Chain(LAMBDA acc, p : ReserveOne(acc, p),
          [d |-> d, left |-> required], Among(CitizenOrder, people)).d

StartJob(d, j, info, recipe, at) ==
    LET id == <<j, at>> IN
    Log(Try(Reserve(d, info.participants, recipe.labor),
            CanStartProduction(d.civ, id, info.recipe, info.site, info.in, info.out, at),
            StartProduction(d.civ, id, info.recipe, info.in, info.out, at)),
        "process-started", j)

StartReady(d, j, info, recipe, at) ==
    IF /\ d.ok /\ InputsReady(d.civ, j) /\ OutputRoom(d.civ, j)
       /\ CanReserve(d, info.participants, recipe.labor)
    THEN StartJob(d, j, info, recipe, at) ELSE d

Hauled(d, j, decisions, at) ==
    Chain(LAMBDA e, l : Haul(e, j, l, decisions, at), d, Among(LaneOrder, JobInfo[j].lanes))

RunJob(d, j, decisions, at) ==
    LET info == JobInfo[j] IN
    IF \/ ~ d.ok
       \/ \E p \in info.participants : ~ Permits(decisions, p, "produce", j)
       \/ d.civ.stocks[info.stock] >= info.target
       \/ ActiveOf(d.civ, j) # {}
    THEN d
    ELSE StartReady(Hauled(d, j, decisions, at), j, info, RecipeInfo[info.recipe], at)

-----------------------------------------------------------------------------
(* Collective projects *)

Ended == {"completed", "failed", "abandoned"}
IsOpen(c, p) == p \in DOMAIN c.projects /\ c.projects[p].state \notin Ended

ReadyMilestones(c, p) ==
    {i \in DOMAIN Plan(p) : c.projects[p].milestones[i].state \in {"ready", "active"}}

\* A citizen's project draws on the settlement, an institution's on itself.
SponsorOwner(p) ==
    IF WorkInfo[p].sponsor[1] = "citizen" THEN Owner("settlement", ProjectInfo[p].settlement)
    ELSE WorkInfo[p].sponsor

Missing(c, p, i, g) == Plan(p)[i].needs[g] - c.projects[p].milestones[i].delivered[g]

SponsorStocks(c, p, g) ==
    {s \in DOMAIN c.stocks : StockInfo[s].owner = SponsorOwner(p) /\ ResourceOf(s) = g}

\* legalCollectiveProjectAffordances for the policy's actor: at most one, at the
\* first workable milestone.
Affordable(c, p, actor) ==
    /\ IsOpen(c, p) /\ ProjectInfo[p].site # None
    /\ ReadyMilestones(c, p) # {}
    /\ actor \in WorkInfo[p].authorized
    /\ \A g \in Resources : Plan(p)[Min(ReadyMilestones(c, p))].needs[g] > 0 =>
          MapThenSumSet(LAMBDA s : Free(c, s), SponsorStocks(c, p, g))
             >= Missing(c, p, Min(ReadyMilestones(c, p)), g)

\* The one stock that can give all that is missing, and the project's own.
First(S) == FirstOf(StockOrder, S)
Givers(c, p, g, n) == {s \in SponsorStocks(c, p, g) : Free(c, s) >= n}
OwnStocks(c, p, g) ==
    {s \in DOMAIN c.stocks : StockInfo[s].owner = Owner("project", p) /\ ResourceOf(s) = g}

\* What one day may do for a project, stage by stage.  w: the work, its project,
\* milestone and time.  e: [d, going]; a stage that finds something missing
\* leaves what is done so far and ends the work.
Stage(e, holds, can, civ) ==
    IF e.going /\ e.d.ok /\ holds THEN [e EXCEPT !.d = Try(@, can, civ)] ELSE e
Stop(e) == [d |-> e.d, going |-> FALSE]

Approved(e, w) == Stage(e, Is(e.d.civ, w.p, {"proposed"}), TRUE, ApproveProject(e.d.civ, w.p))

DeliverFrom(e, w, from, to, n) ==
    IF Room(e.d.civ, to) < n THEN Stop(e)
    ELSE [e EXCEPT !.d = Log(Try(@, CanDeliver(e.d.civ, w.p, w.i, from, to, n, w.at),
                                 Deliver(e.d.civ, w.p, w.i, from, to, n, w.at)),
                             "project-resourced", w.p)]

DeliverOne(e, w, g, n) ==
    IF ~ e.going \/ ~ e.d.ok \/ n =< 0 THEN e
    ELSE IF Givers(e.d.civ, w.p, g, n) = {} \/ OwnStocks(e.d.civ, w.p, g) = {} THEN Stop(e)
    ELSE DeliverFrom(e, w, First(Givers(e.d.civ, w.p, g, n)), First(OwnStocks(e.d.civ, w.p, g)), n)

Resourced(e, w) ==
    Chain(LAMBDA f, g : DeliverOne(f, w, g, Missing(f.d.civ, w.p, w.i, g)), e, ResourceOrder)

Started(e, w) ==
    Stage(e, Is(e.d.civ, w.p, {"approved", "resourcing"}), CanStartProject(e.d.civ, w.p, w.at),
          StartProject(e.d.civ, w.p, w.at))

ConsumeOne(e, w, g, n) ==
    IF ~ e.going \/ ~ e.d.ok \/ n =< 0 THEN e
    ELSE IF OwnStocks(e.d.civ, w.p, g) = {} THEN Stop(e)
    ELSE LET own == First(OwnStocks(e.d.civ, w.p, g))
         IN  Stage(e, TRUE, CanConsume(e.d.civ, w.p, w.i, own, n, w.at),
                   Consume(e.d.civ, w.p, w.i, own, n, w.at))

Unused(c, p, i, g) == Plan(p)[i].needs[g] - c.projects[p].milestones[i].consumed[g]
Used(e, w) ==
    Chain(LAMBDA f, g : ConsumeOne(f, w, g, Unused(f.d.civ, w.p, w.i, g)), e, ResourceOrder)

LaborOne(e, w, who, n) ==
    IF ~ e.going \/ ~ e.d.ok \/ n = 0 THEN e
    ELSE [e EXCEPT !.d = Log(Work(Try(@, CanContribute(e.d.civ, w.p, w.i, who, n, w.at),
                                      Contribute(e.d.civ, w.p, w.i, n, w.at)), who, n),
                             "project-labor", w.p)]

Undone(c, p, i) == Plan(p)[i].labor - c.projects[p].milestones[i].labor
Worked(e, w) ==
    Chain(LAMBDA f, who : LaborOne(f, w, who,
                                   Min({Undone(f.d.civ, w.p, w.i), f.d.labor[who]})),
          e, Among(CitizenOrder, ProjectInfo[w.p].labourers))

Milestone(e, w) ==
    Stage(e, Exact(w.p, w.i, e.d.civ.projects[w.p].milestones[w.i]),
          CanCompleteMilestone(e.d.civ, w.p, w.i), CompleteMilestone(e.d.civ, w.p, w.i))

\* completeProject and, in the same breath, materializeCompletedProject.
Built(e, w) ==
    Stage(Stage(e, TRUE, CanCompleteProject(e.d.civ, w.p, w.at),
                CompleteProject(e.d.civ, w.p, w.at)), TRUE,
          CanMaterialize(CompleteProject(e.d.civ, w.p, w.at), w.p, w.at),
          Materialize(CompleteProject(e.d.civ, w.p, w.at), w.p, WorkInfo[w.p].kind, w.at))

Finished(e, w) ==
    IF Is(e.d.civ, w.p, {"active"}) /\ AllMilestones(e.d.civ, w.p) THEN Built(e, w) ELSE e

ExecuteProject(d, p, at) ==
    LET w == [p |-> p, i |-> Min(ReadyMilestones(d.civ, p)), at |-> at]
        begun == [d |-> d, going |-> TRUE]
    IN  Finished(Milestone(Worked(Used(Started(Resourced(Approved(begun, w),
                 w), w), w), w), w), w).d

RunCollective(d, p, decisions, at) ==
    IF /\ d.ok /\ Permits(decisions, WorkInfo[p].actor, "construct", p)
       /\ Affordable(d.civ, p, WorkInfo[p].actor)
    THEN ExecuteProject(d, p, at) ELSE d

-----------------------------------------------------------------------------
(* What everyone did, and who met whom *)

Recent(last, p, at, cooldown) == last[p] > 0 /\ at - last[p] < cooldown

\* routineAssignments before the pairing.  An evaluated need and spare time are
\* one thing here: neither keeps a citizen from meeting a neighbour.
Assigned(d, decisions, p) ==
    LET c == d.civ
        decided == p \in DOMAIN decisions
        built == {q \in DOMAIN c.projects : p \in WorkInfo[q].participants
                                            /\ <<"project-labor", q>> \in d.did}
        made == {j \in Jobs : p \in JobInfo[j].participants /\ <<"process-started", j>> \in d.did}
        hauled == {l \in Lanes : LaneInfo[l].carrier = p /\ <<"transported", l>> \in d.did}
    IN  IF decided /\ decisions[p][1] \in {"social-maintenance", "travel", "away"}
        THEN decisions[p]
        ELSE IF c.citizens[p].residence = "departed" THEN <<"away", p>>
        ELSE IF c.citizens[p].residence = "travelling" THEN <<"travel", p>>
        ELSE IF built \cup made \cup hauled # {} THEN <<"work", p>>
        ELSE <<"social-maintenance", p>>

\* Related neighbours with time for it are paired, each in one pair at most.
Paired(d, decisions, site, last, at, cooldown) ==
    Chain(LAMBDA acc, pair :
                IF /\ Range(pair) \cap acc.met = {}
                   /\ LegalSocialPartner(d.civ, site, pair[1], pair[2])
                   /\ \A p \in Range(pair) : /\ ~ Recent(last, p, at, cooldown)
                                             /\ acc.does[p][1] = "social-maintenance"
                THEN [met |-> acc.met \cup Range(pair),
                      does |-> [acc.does EXCEPT ![pair[1]] = <<"social-maintenance", pair[2]>>,
                                                ![pair[2]] = <<"social-maintenance", pair[1]>>]]
                ELSE acc,
             [met |-> {}, does |-> [p \in Citizens |-> Assigned(d, decisions, p)]],
             RelationOrder).does

-----------------------------------------------------------------------------
(* The day.  policy: its collective projects. *)

Begin(c) ==
    [civ |-> c, ok |-> TRUE, did |-> {}, labor |-> AvailableLabor(c),
     worked |-> [p \in Citizens |-> 0], left |-> [l \in Lanes |-> LaneInfo[l].capacity]]

Finish(d, at) == Chain(LAMBDA e, j : CompleteDue(e, j, at), d, JobOrder)
Produce(d, decisions, at) ==
    Chain(LAMBDA e, j : RunJob(e, j, decisions, at), d, ByScarcity(d.civ))
Nourish(d, at) ==
    LET residents == Among(CitizenOrder, {p \in Citizens : d.civ.citizens[p].residence = "resident"})
    IN  Try(d, CanConsumeNeeds(d.civ, residents, at),
            ConsumeNeeds(d.civ, residents, NeedStocks, at))
Build(d, policy, decisions, at) ==
    Chain(LAMBDA e, p : RunCollective(e, p, decisions, at), d, Among(ProjectOrder, policy))
Close(d, at) == IF d.ok THEN [d EXCEPT !.civ.time = at] ELSE d

AdvanceScheduler(c, policy, decisions) ==
    LET at == c.time + 1
    IN  Close(Build(Nourish(Produce(Finish(Begin(c), at), decisions, at), at),
                    policy, decisions, at), at)
=============================================================================
