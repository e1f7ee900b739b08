--------------------------- MODULE CivilizationKernel ---------------------------
(***************************************************************************)
(* The civilization kernel, called in any order: each step is one call of  *)
(* packages/civilization/src/kernel.ts or population.ts that does not      *)
(* throw.  The scheduler and the experiment make some of these sequences;  *)
(* what is stated here holds of all of them.                               *)
(*                                                                         *)
(* Three of the calls take people who do not fit their homes or journeys:  *)
(* registerHousehold (members who live elsewhere, or nobody),              *)
(* registerCitizen (of a household that does not list them, or on the way  *)
(* without a migration) and recordFoundingMaterialization without a site   *)
(* (it leaves the settlers on the way).  A caller either makes any call,   *)
(* these included, or only those that keep people and homes linked, as     *)
(* the scheduler and the experiment do; what is stated of homes and        *)
(* journeys is stated of the second kind.  registerCitizen is modelled at  *)
(* the bootstrap only, where experiment.ts:945 calls it.  Resources,       *)
(* storages and recipes are the catalogue; institutions, agreements,       *)
(* relationships, contacts and conversations are left out.                 *)
(***************************************************************************)
EXTENDS CivilizationRules

CONSTANTS
    Genesis,        \* what the bootstrap registers: [settlements, kinds, stocks]
    Callers,        \* what callers ask for: the ids they register and use, the
                    \* batches of citizens they feed, and whether they make
                    \* "any" call or those that keep people and homes "linked"
    MaxUnits,       \* bounds a quantity or a traversal budget
    MaxTime,        \* bounds the simulation time
    MaxEntries      \* bounds the ledger between two checkpoints

VARIABLES
    now,        \* CivilizationState
    caller      \* who makes the calls of this behaviour, one of Callers

kernelVars == <<now, caller>>

\* Everyone as bootstrapCivilization registers them: residents without a household.
AtHome == [p \in Citizens |-> [residence |-> "resident", household |-> None,
                               settlement |-> Genesis.home[p]]]

EmptyCivilization ==
    [time |-> 0, stocks |-> <<>>, processes |-> <<>>, projects |-> <<>>,
     citizens |-> AtHome, households |-> <<>>,
     migrations |-> <<>>, departures |-> <<>>, journeys |-> <<>>,
     foundings |-> <<>>, settled |-> {},
     settlements |-> Genesis.settlements, kinds |-> Genesis.kinds, built |-> <<>>,
     base |-> [stocks |-> <<>>, consumed |-> ZeroBooks],
     ledger |-> <<>>, outcomes |-> {}]

\* What a bootstrap and its callers name is in the catalogue.
ASSUME KernelAssumption ==
    /\ Genesis.settlements \subseteq Settlements /\ Genesis.kinds \in [Sites -> SUBSET Kinds]
    /\ Genesis.home \in [Citizens -> Genesis.settlements]
    /\ DOMAIN Genesis.stocks \subseteq Stocks
    /\ \A s \in DOMAIN Genesis.stocks :
          Genesis.stocks[s] \in StockInfo[s].reserved..StockInfo[s].capacity
    /\ \A k \in Callers :
          /\ k.stocks \subseteq Stocks /\ k.projects \subseteq Projects
          /\ k.recipes \subseteq Recipes
          /\ k.households \subseteq Households /\ k.migrations \subseteq Migrations
          /\ k.foundings \subseteq Foundings /\ k.leavers \subseteq Citizens
          /\ \A batch \in k.batches : batch \in Seq(Citizens)
          /\ k.calls \in {"linked", "any"}
    /\ None \notin Households
    /\ MaxUnits \in Nat /\ MaxTime \in Nat /\ MaxEntries \in Nat

\* What registerHousehold and then registerCitizen take of a caller that makes any
\* call: households of anyone, and citizens who live in any of them, are on the
\* way or are gone.
Registrable(homes) ==
    [Citizens -> [residence : {"resident", "travelling", "departed"},
                  settlement : Genesis.settlements, household : DOMAIN homes \cup {None}]]
Housed(households) ==
    UNION {[H -> [settlement : Genesis.settlements, members : SUBSET Citizens]] :
           H \in SUBSET households}
Registered ==
    IF caller.calls = "linked" THEN {[homes |-> <<>>, people |-> AtHome]}
    ELSE UNION {{[homes |-> homes, people |-> people] : people \in Registrable(homes)} :
                homes \in Housed(caller.households)}

\* bootstrapCivilization, as far as it registers stocks and people; one
\* checkpoint's worth of history is behind it, taken before the people came.
KernelInit ==
    /\ caller \in Callers
    /\ \E r \in Registered :
          now = Checkpoint([EmptyCivilization EXCEPT !.stocks = Genesis.stocks,
                                                     !.households = r.homes,
                                                     !.citizens = r.people])

Units == 1..MaxUnits
Times == {t \in {now.time, now.time + 1} : t =< MaxTime}
RoomFor(n) == Len(now.ledger) + n =< MaxEntries

-----------------------------------------------------------------------------
(* The calls *)

Step(c) == now' = c /\ UNCHANGED caller

DoRegisterStock == \E s \in caller.stocks, q \in 0..MaxUnits :
    RoomFor(1) /\ CanRegisterStock(now, s, q, now.time) /\ Step(RegisterStock(now, s, q, now.time))

DoTransfer == \E from, to \in caller.stocks, q \in Units, at \in Times :
    /\ RoomFor(1) /\ CanTransfer(now, from, to, q, at)
    /\ Step(Transfer(now, "transfer", from, to, q, at))

DoStartProduction == \E id \in Processes, r \in caller.recipes, site \in Sites, at \in Times :
    \E in \in Bindings(now, RecipeInfo[r].in), out \in Bindings(now, RecipeInfo[r].out) :
        /\ RoomFor(1) /\ CanStartProduction(now, id, r, site, in, out, at)
        /\ Step(StartProduction(now, id, r, in, out, at))

DoCompleteProduction == \E id \in Processes, at \in Times :
    /\ RoomFor(1) /\ CanCompleteProduction(now, id, at)
    /\ Step(CompleteProduction(now, id, at))

DoConsumeNeeds == \E batch \in caller.batches, at \in Times :
    /\ RoomFor(Len(batch)) /\ CanConsumeNeeds(now, batch, at)
    /\ Step(ConsumeNeeds(now, batch, [p \in Citizens |-> Stocks], at))

\* checkpointCivilizationAccounting asserts the audit first.
DoCheckpoint == Audit(now) /\ Step(Checkpoint(now))

DoRegisterProject == \E p \in caller.projects :
    CanRegisterProject(now, p) /\ Step(RegisterProject(now, p))

DoApproveProject == \E p \in Projects :
    Is(now, p, {"proposed"}) /\ Step(ApproveProject(now, p))

DoStartProject == \E p \in Projects, at \in Times :
    CanStartProject(now, p, at) /\ Step(StartProject(now, p, at))

DoDeliver == \E p \in DOMAIN now.projects, from, to \in DOMAIN now.stocks,
                q \in Units, at \in Times :
    \E i \in DOMAIN Plan(p) :
        /\ RoomFor(1) /\ CanDeliver(now, p, i, from, to, q, at)
        /\ Step(Deliver(now, p, i, from, to, q, at))

DoConsume == \E p \in DOMAIN now.projects, s \in DOMAIN now.stocks, q \in Units, at \in Times :
    \E i \in DOMAIN Plan(p) :
        RoomFor(1) /\ CanConsume(now, p, i, s, q, at) /\ Step(Consume(now, p, i, s, q, at))

DoContribute == \E p \in DOMAIN now.projects, who \in Citizens, n \in Units, at \in Times :
    \E i \in DOMAIN Plan(p) :
        CanContribute(now, p, i, who, n, at) /\ Step(Contribute(now, p, i, n, at))

DoCompleteMilestone == \E p \in DOMAIN now.projects : \E i \in DOMAIN Plan(p) :
    CanCompleteMilestone(now, p, i) /\ Step(CompleteMilestone(now, p, i))

DoCompleteProject == \E p \in Projects, at \in Times :
    CanCompleteProject(now, p, at) /\ Step(CompleteProject(now, p, at))

DoMaterialize == \E p \in Projects, kind \in Kinds :
    CanMaterialize(now, p, now.time) /\ Step(Materialize(now, p, kind, now.time))

DoFailProject == \E p \in Projects :
    CanEnd(now, p, now.time) /\ Step(FailProject(now, p, now.time))

DoAbandonProject == \E p \in Projects :
    CanEnd(now, p, now.time) /\ Step(AbandonProject(now, p, now.time))

DoFormHousehold == \E h \in caller.households, a \in now.settlements, members \in SUBSET Citizens :
    CanFormHousehold(now, h, a, members) /\ Step(FormHousehold(now, h, a, members))

DoLeaveHousehold == \E p \in Citizens :
    CanLeaveHousehold(now, p) /\ Step(LeaveHousehold(now, p))

DoDepart == \E p \in caller.leavers :
    CanDepart(now, p, now.time) /\ Step(DepartCitizen(now, p, now.time))

DoArrive == \E p \in Citizens, a \in now.settlements :
    CanArrive(now, p, a, now.time) /\ Step(ArriveCitizen(now, p, a, now.time))

DoRegisterMigration == \E m \in caller.migrations, departure \in Times :
    CanRegisterMigration(now, m) /\ Step(RegisterMigration(now, m, departure))

DoRegisterJourney == \E m \in Migrations :
    CanRegisterJourney(now, m) /\ Step(RegisterJourney(now, m))

DoDepartMigration == \E m \in Migrations, at \in Times :
    CanDepartMigration(now, m, at) /\ Step(DepartMigration(now, m, at))

DoWalk == \E m \in Migrations, n \in Units, at \in Times :
    CanWalk(now, m, n, at) /\ Step(Walk(now, m, n, at))

DoRegisterFounding == \E f \in caller.foundings :
    CanRegisterFounding(now, f) /\ Step(RegisterFounding(now, f))

DoAdvanceFounding == \E f \in Foundings :
    CanAdvanceFounding(now, f, now.time) /\ Step(AdvanceFounding(now, f, now.time))

DoSettle == \E f \in Foundings :
    CanSettle(now, f, now.time) /\ Step(Settle(now, f, now.time))

\* The calls after which people and homes need not be linked.  Only tests make
\* them (economy.test.ts:128, projects.test.ts:214).
DoRegisterHousehold ==
    \E h \in caller.households, a \in now.settlements, members \in SUBSET Citizens :
        /\ caller.calls = "any" /\ CanRegisterHousehold(now, h, a)
        /\ Step(RegisterHousehold(now, h, a, members))

DoSettleUnsited == \E f \in Foundings :
    /\ caller.calls = "any" /\ CanSettleUnsited(now, f, now.time)
    /\ Step(SettleUnsited(now, f, now.time))

KernelNext ==
    \/ DoRegisterStock \/ DoTransfer \/ DoStartProduction \/ DoCompleteProduction
    \/ DoConsumeNeeds \/ DoCheckpoint
    \/ DoRegisterProject \/ DoApproveProject \/ DoStartProject \/ DoDeliver
    \/ DoConsume \/ DoContribute \/ DoCompleteMilestone \/ DoCompleteProject
    \/ DoMaterialize \/ DoFailProject \/ DoAbandonProject
    \/ DoFormHousehold \/ DoLeaveHousehold \/ DoDepart \/ DoArrive
    \/ DoRegisterMigration \/ DoRegisterJourney \/ DoDepartMigration \/ DoWalk
    \/ DoRegisterFounding \/ DoAdvanceFounding \/ DoSettle
    \/ DoRegisterHousehold \/ DoSettleUnsited

KernelSpec == KernelInit /\ [][KernelNext]_kernelVars

-----------------------------------------------------------------------------
(* Properties *)

\* Type correctness: the fields of CivilizationState.
KernelTypeOK ==
    /\ now.time \in 0..MaxTime
    /\ DOMAIN now.stocks \subseteq Stocks /\ \A s \in DOMAIN now.stocks : now.stocks[s] \in Nat
    /\ DOMAIN now.processes \subseteq Processes
    /\ \A id \in DOMAIN now.processes : now.processes[id].state \in {"active", "completed"}
    /\ DOMAIN now.projects \subseteq Projects
    /\ now.citizens \in [Citizens -> [residence : {"resident", "travelling", "departed"},
                                      settlement : Settlements,
                                      household : Households \cup {None}]]
    /\ DOMAIN now.households \subseteq Households
    /\ DOMAIN now.migrations \subseteq Migrations
    /\ DOMAIN now.journeys \subseteq DOMAIN now.migrations
    /\ DOMAIN now.foundings \subseteq Foundings /\ now.settled \subseteq Foundings
    /\ now.settlements \subseteq Settlements /\ now.kinds \in [Sites -> SUBSET Kinds]
    /\ Len(now.ledger) =< MaxEntries

\* Where assertCivilizationInvariants throws, a day can never be checkpointed or
\* persisted.  No sequence of calls, in whatever order, leads to a state whose
\* ledger, stocks, projects, meals, buildings, journeys or foundings the audit
\* refuses; the households it refuses (audit.ts:63-76) only after a
\* registerHousehold or a registerCitizen that leaves members unlinked.
AuditPasses == AuditBooks(now) /\ (caller.calls = "linked" => AuditHouseholds(now))

\* The books of a project agree with each other: nothing is consumed before it
\* was delivered or delivered beyond the requirement, a completed milestone is
\* paid for exactly, work on a milestone waits for the milestones before it,
\* and a project is completed, and stands as a building, only when all are.
ProjectBooks ==
    \A p \in DOMAIN now.projects :
        /\ \A i \in DOMAIN Plan(p) :
              LET m == now.projects[p].milestones[i] IN
              /\ \A g \in Resources : /\ m.consumed[g] =< m.delivered[g]
                                      /\ m.delivered[g] =< Plan(p)[i].needs[g]
              /\ m.state = "completed" => Exact(p, i, m)
              /\ (m.labor > 0 \/ m.state = "active" \/ \E g \in Resources : m.consumed[g] > 0)
                 => \A d \in Plan(p)[i].deps : now.projects[p].milestones[d].state = "completed"
        /\ now.projects[p].state = "completed" =>
              \A i \in DOMAIN Plan(p) : now.projects[p].milestones[i].state = "completed"
        /\ now.projects[p].state \in {"active", "completed"} =>
              \A d \in ProjectInfo[p].deps : now.projects[d].state = "completed"

\* Where people are is one story in five tables.  Whatever calls are made, a
\* settlement is founded by an expedition that arrived with its projects
\* completed.  When registerHousehold, registerCitizen with a household or on the
\* way, and recordFoundingMaterialization without a site are not among them, a
\* household's members live in its settlement, and who travels is on a migration
\* that left and has not settled, and has no household.
PeopleAreSomewhere ==
    /\ \A p \in Citizens : now.citizens[p].settlement \in now.settlements
    /\ caller.calls = "linked" => \A p \in Citizens : LET who == now.citizens[p] IN
          /\ who.household # None =>
                /\ who.residence = "resident"
                /\ who.household \in DOMAIN now.households
                /\ p \in now.households[who.household].members
                /\ now.households[who.household].settlement = who.settlement
          /\ who.residence = "travelling" =>
                \E m \in DOMAIN now.migrations :
                    /\ p \in MigrationInfo[m].citizens /\ now.migrations[m] # "planned"
                    /\ \A f \in now.settled : FoundingInfo[f].migration # m
    /\ \A f \in now.settled :
          /\ now.migrations[FoundingInfo[f].migration] = "arrived"
          /\ \A p \in FoundingInfo[f].projects : Is(now, p, {"completed"})

\* Matter is conserved: whatever sequence of calls is made, a resource leaves
\* the stocks only by a recipe that has started or by being used up, and comes
\* into them only at registration or once per run of a recipe.
Matter == INSTANCE ResourceLedger WITH
    In <- [r \in Recipes |-> RecipeInfo[r].in],
    Out <- [r \in Recipes |-> RecipeInfo[r].out],
    stocks <- DOMAIN now.stocks,
    held <- ByResource(now.stocks),
    running <- [r \in Recipes |->
        Cardinality({id \in DOMAIN now.processes :
            now.processes[id].state = "active" /\ now.processes[id].recipe = r})]

MatterIsConserved == Matter!Spec
=============================================================================
