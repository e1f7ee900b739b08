------------------------ MODULE CivilizationKernelProofs ------------------------
(***************************************************************************)
(* The kernel under any caller and any order of calls: the books of the    *)
(* projects agree, the stocks are what the ledger says of them, every part *)
(* of the audit but that of the households passes, and every call is a     *)
(* step of the abstract ledger of matter.  Where people are is one story,  *)
(* and the households pass too, under a caller whose calls keep people and *)
(* homes linked.                                                           *)
(*                                                                         *)
(* The invariant is stated of a state of the civilization, part by part,   *)
(* and each part only of the tables it is about, so that a call is proved  *)
(* to keep the parts whose tables it writes.                               *)
(***************************************************************************)
EXTENDS CivilizationKernel, SequenceTheorems, FiniteSetTheorems, WellFoundedInduction, TLAPS

-----------------------------------------------------------------------------
(* The inductive invariant *)

\* A state of the civilization is a record of these tables.
Tables ==
    {"time", "stocks", "processes", "projects", "citizens", "households", "migrations",
     "departures", "journeys", "foundings", "settled", "settlements", "kinds", "built", "base",
     "ledger", "outcomes"}
IsCivilization(c) == c = [table \in Tables |-> c[table]]

Milestones ==
    [state : {"blocked", "ready", "active", "completed", "failed"},
     delivered : [Resources -> Nat], consumed : [Resources -> Nat], labor : Nat]

\* What is asked of a milestone, of those it depends on.
Waited(p, ms, i) == \A d \in Plan(p)[i].deps : ms[d].state = "completed"
MilestoneOK(p, ms, i) ==
    /\ ms[i] \in Milestones
    /\ \A g \in Resources : /\ ms[i].consumed[g] =< ms[i].delivered[g]
                            /\ ms[i].delivered[g] =< Plan(p)[i].needs[g]
    /\ ms[i].state = "completed" => Exact(p, i, ms[i])
    /\ (\/ ms[i].labor > 0 \/ ms[i].state \in {"ready", "active"}
        \/ \E g \in Resources : ms[i].consumed[g] > 0) => Waited(p, ms, i)

ProjectStates ==
    {"proposed", "approved", "resourcing", "active", "completed", "failed", "abandoned"}
ProjectOK(p, project) ==
    /\ project = [state |-> project.state, milestones |-> project.milestones]
    /\ project.state \in ProjectStates
    /\ project.milestones = [i \in DOMAIN Plan(p) |-> project.milestones[i]]
    /\ \A i \in DOMAIN Plan(p) : MilestoneOK(p, project.milestones, i)
    /\ project.state = "completed" =>
          \A i \in DOMAIN Plan(p) : project.milestones[i].state = "completed"

\* A project that has started waited for those it depends on.
StartedInTurn(projects, p) ==
    projects[p].state \in {"active", "completed"} =>
        \A d \in ProjectInfo[p].deps : d \in DOMAIN projects /\ projects[d].state = "completed"

Books(projects) ==
    /\ DOMAIN projects \subseteq Projects
    /\ projects = [p \in DOMAIN projects |-> projects[p]]
    /\ \A p \in DOMAIN projects : ProjectOK(p, projects[p]) /\ StartedInTurn(projects, p)

People == [residence : {"resident", "travelling", "departed"}, settlement : Settlements,
           household : Households \cup {None}]

\* Households and their members know each other, and live in one place, when the
\* calls are those that keep them linked.
Lives(calls, citizens, households, settlements, p) ==
    /\ citizens[p].settlement \in settlements
    /\ calls = "linked" /\ citizens[p].household # None =>
          /\ citizens[p].residence = "resident"
          /\ citizens[p].household \in DOMAIN households
          /\ p \in households[citizens[p].household].members
          /\ households[citizens[p].household].settlement = citizens[p].settlement
Household(calls, citizens, households, h) ==
    /\ households[h] = [settlement |-> households[h].settlement,
                        members |-> households[h].members]
    /\ households[h].members \subseteq Citizens
    /\ calls = "linked" => /\ households[h].members # {}
                           /\ \A p \in households[h].members : citizens[p].household = h
HomesOK(calls, citizens, households, settlements) ==
    /\ citizens \in [Citizens -> People]
    /\ settlements \subseteq Settlements
    /\ DOMAIN households \subseteq Households
    /\ households = [h \in DOMAIN households |-> households[h]]
    /\ \A p \in Citizens : Lives(calls, citizens, households, settlements, p)
    /\ \A h \in DOMAIN households : Household(calls, citizens, households, h)

\* A migration that has left, and that no founding has settled.
Underway(migrations, settled, m) ==
    /\ m \in DOMAIN migrations /\ migrations[m] # "planned"
    /\ \A f \in settled : FoundingInfo[f].migration # m
Journeys(calls, citizens, migrations, settled) ==
    /\ DOMAIN migrations \subseteq Migrations
    /\ migrations \in [DOMAIN migrations -> {"planned", "travelling", "arrived"}]
    /\ calls = "linked" => \A p \in Citizens : citizens[p].residence = "travelling" =>
          \E m \in Migrations : p \in MigrationInfo[m].citizens /\ Underway(migrations, settled, m)

Done(projects, p) == p \in DOMAIN projects /\ projects[p].state = "completed"
Founding(migrations, foundings, settled, projects, f) ==
    /\ FoundingInfo[f].migration \in DOMAIN migrations
    /\ foundings[f] \in {"proposed", "preparing", "travelling", "establishing", "viable"}
    /\ foundings[f] \in {"establishing", "viable"} =>
          migrations[FoundingInfo[f].migration] = "arrived"
    /\ foundings[f] = "viable" => \A p \in FoundingInfo[f].projects : Done(projects, p)
Colonies(migrations, foundings, settled, projects, settlements) ==
    /\ DOMAIN foundings \subseteq Foundings
    /\ foundings = [f \in DOMAIN foundings |-> foundings[f]]
    /\ \A f \in DOMAIN foundings : Founding(migrations, foundings, settled, projects, f)
    /\ settled \subseteq DOMAIN foundings
    /\ \A f \in settled : foundings[f] = "viable" /\ FoundingInfo[f].settlement \in settlements

\* A building stands for a completed project, at its site.
Buildings(built, kinds, projects) ==
    /\ kinds \in [Sites -> SUBSET Kinds] /\ built = [p \in DOMAIN built |-> built[p]]
    /\ \A p \in DOMAIN built :
          Done(projects, p) /\ built[p] \in kinds[ProjectInfo[p].site]

\* calls: whether the caller makes "any" call or those that keep people "linked".
KernelOK(calls, c) ==
    /\ IsCivilization(c) /\ DOMAIN c.stocks \subseteq Stocks
    /\ Books(c.projects)
    /\ HomesOK(calls, c.citizens, c.households, c.settlements)
    /\ Journeys(calls, c.citizens, c.migrations, c.settled)
    /\ DOMAIN c.journeys \subseteq DOMAIN c.migrations
    /\ Colonies(c.migrations, c.foundings, c.settled, c.projects, c.settlements)
    /\ Buildings(c.built, c.kinds, c.projects)

KernelInv == KernelOK(caller.calls, now) /\ caller \in Callers

-----------------------------------------------------------------------------
(* The accounts: calls that move matter and leave people and projects alone *)

SameSociety(c, d) ==
    /\ d.projects = c.projects /\ d.citizens = c.citizens /\ d.households = c.households
    /\ d.migrations = c.migrations /\ d.foundings = c.foundings /\ d.settled = c.settled
    /\ d.settlements = c.settlements /\ d.kinds = c.kinds /\ d.built = c.built
    /\ d.journeys = c.journeys

IsAccounting(c, d) ==
    IsCivilization(d) /\ DOMAIN d.stocks \subseteq Stocks /\ SameSociety(c, d)

\* Nothing of the invariant is about the accounts but which stocks there are.
LEMMA AccountingKeeps ==
    ASSUME NEW calls, NEW c, NEW d, KernelOK(calls, c), IsAccounting(c, d)
    PROVE  KernelOK(calls, d)
BY DEF KernelOK, IsAccounting, SameSociety

\* evolve, with a ledger entry.
LEMMA MovedIsAccounting ==
    ASSUME NEW c, IsCivilization(c), DOMAIN c.stocks \subseteq Stocks,
           NEW kind, NEW at, NEW about, NEW delta
    PROVE  /\ IsAccounting(c, Moved(c, kind, at, about, delta))
           /\ DOMAIN Moved(c, kind, at, about, delta).stocks = DOMAIN c.stocks
<1>. DEFINE q == [s \in DOMAIN c.stocks |-> c.stocks[s] + DeltaOf(delta, s)]
            l == Append(c.ledger, Entry(kind, at, about, delta))
            d == [c EXCEPT !.time = at, !.stocks = q, !.ledger = l]
<1>1. Moved(c, kind, at, about, delta) = d
  BY DEF Moved
<1>2. DOMAIN q = DOMAIN c.stocks
  OBVIOUS
<1>. HIDE DEF q, l
<1>3. IsCivilization(d)
  BY DEF IsCivilization, Tables
<1>4. d.stocks = q /\ SameSociety(c, d)
  BY DEF IsCivilization, Tables, SameSociety
<1>. QED
  BY <1>1, <1>2, <1>3, <1>4 DEF IsAccounting

\* A set of naturals has a least element.
LEMMA LeastOf ==
    ASSUME NEW S \in SUBSET Nat, S # {}
    PROVE  \E m \in S : \A k \in S : m =< k
<1>. DEFINE R == {p \in Nat \X Nat : p[1] < p[2]}
<1>1. OpToRel(<, Nat) = R
  BY DEF OpToRel
<1>2. IsWellFoundedOn(R, Nat)
  BY <1>1, NatLessThanWellFounded
<1>. HIDE DEF R
<1>3. PICK m \in S : \A k \in S : ~ (<<k, m>> \in R)
  BY <1>2, WFMin
<1>4. ASSUME NEW k \in S
      PROVE  m =< k
  <2>1. m \in Nat /\ k \in Nat
    OBVIOUS
  <2>2. ~ (k < m)
    BY <1>3, <2>1 DEF R
  <2>. QED
    BY <2>1, <2>2
<1>. QED
  BY <1>4

\* One accounting call after another is one.
LEMMA AccountingGoesOn ==
    ASSUME NEW c, NEW d, NEW e, IsAccounting(c, d), IsAccounting(d, e)
    PROVE  IsAccounting(c, e)
BY DEF IsAccounting, SameSociety

\* A table of the accounts is replaced.
LEMMA TableIsAccounting ==
    ASSUME NEW c, IsCivilization(c), DOMAIN c.stocks \subseteq Stocks, NEW x
    PROVE  /\ IsAccounting(c, [c EXCEPT !.time = x])
           /\ IsAccounting(c, [c EXCEPT !.processes = x])
           /\ IsAccounting(c, [c EXCEPT !.outcomes = x])
           /\ DOMAIN x \subseteq Stocks => IsAccounting(c, [c EXCEPT !.stocks = x])
BY DEF IsAccounting, IsCivilization, Tables, SameSociety

\* registerStock, transferResources, startProduction, completeProduction.
LEMMA CallsAreAccounting ==
    ASSUME NEW c, IsCivilization(c), DOMAIN c.stocks \subseteq Stocks, NEW at
    PROVE  /\ \A s \in Stocks : \A q : IsAccounting(c, RegisterStock(c, s, q, at))
           /\ \A kind, from, to, q : IsAccounting(c, Transfer(c, kind, from, to, q, at))
           /\ \A id, r, in, out : IsAccounting(c, StartProduction(c, id, r, in, out, at))
           /\ \A id : IsAccounting(c, CompleteProduction(c, id, at))
<1>1. ASSUME NEW s \in Stocks, NEW q
      PROVE  IsAccounting(c, RegisterStock(c, s, q, at))
  <2>. DEFINE x == With(c.stocks, s, 0)
              d == [c EXCEPT !.stocks = x]
              delta == [y \in {s} |-> q]
  <2>1. DOMAIN x \subseteq Stocks
    BY DEF With
  <2>2. RegisterStock(c, s, q, at) = Moved(d, "stock-created", at, s, delta)
    BY DEF RegisterStock
  <2>. HIDE DEF x, delta
  <2>3. IsAccounting(c, d)
    BY <2>1, TableIsAccounting
  <2>. HIDE DEF d
  <2>4. IsAccounting(d, Moved(d, "stock-created", at, s, delta))
    BY <2>3, MovedIsAccounting DEF IsAccounting
  <2>. QED
    BY <2>2, <2>3, <2>4, AccountingGoesOn
<1>2. ASSUME NEW kind, NEW from, NEW to, NEW q
      PROVE  IsAccounting(c, Transfer(c, kind, from, to, q, at))
  BY MovedIsAccounting DEF Transfer
<1>3. ASSUME NEW kind, NEW about, NEW delta, NEW x
      PROVE  IsAccounting(c, [Moved(c, kind, at, about, delta) EXCEPT !.processes = x])
  <2>. DEFINE d == Moved(c, kind, at, about, delta)
  <2>1. IsAccounting(c, d)
    BY MovedIsAccounting
  <2>. HIDE DEF d
  <2>2. IsAccounting(d, [d EXCEPT !.processes = x])
    BY <2>1, TableIsAccounting DEF IsAccounting
  <2>3. IsAccounting(c, [d EXCEPT !.processes = x])
    BY <2>1, <2>2, AccountingGoesOn
  <2>. QED
    BY <2>3 DEF d
<1>4. ASSUME NEW id, NEW r, NEW in, NEW out
      PROVE  IsAccounting(c, StartProduction(c, id, r, in, out, at))
  <2>. DEFINE delta == Bound(RecipeInfo[r].in, in, -1)
              d == Moved(c, "recipe-input", at, r, delta)
              x == With(d.processes, id, [recipe |-> r, out |-> out, state |-> "active",
                                          due |-> at + RecipeInfo[r].duration])
  <2>1. StartProduction(c, id, r, in, out, at) = [d EXCEPT !.processes = x]
    BY DEF StartProduction
  <2>. HIDE DEF x, delta
  <2>2. IsAccounting(c, [d EXCEPT !.processes = x])
    BY <1>3
  <2>. QED
    BY <2>1, <2>2
<1>5. ASSUME NEW id
      PROVE  IsAccounting(c, CompleteProduction(c, id, at))
  <2>. DEFINE delta == Outputs(c, id)
              r == c.processes[id].recipe
              d == Moved(c, "recipe-output", at, r, delta)
              x == [d.processes EXCEPT ![id].state = "completed"]
  <2>1. CompleteProduction(c, id, at) = [d EXCEPT !.processes = x]
    BY DEF CompleteProduction
  <2>. HIDE DEF x, delta, r
  <2>2. IsAccounting(c, [d EXCEPT !.processes = x])
    BY <1>3
  <2>. QED
    BY <2>1, <2>2
<1>. QED
  BY <1>1, <1>2, <1>4, <1>5

\* One citizen is fed.
LEMMA FeedIsAccounting ==
    ASSUME NEW c, IsCivilization(c), DOMAIN c.stocks \subseteq Stocks, NEW p, NEW stocks, NEW at
    PROVE  IsAccounting(c, Feed(c, p, stocks, at))
<1>. DEFINE meal == Taken(c, c.stocks, p, stocks, Foods, RequiredFood[p])
            drink == Taken(c, c.stocks, p, stocks, Waters, RequiredWater[p])
            delta == Joined(meal.delta, drink.delta)
            d == IF delta = <<>> THEN [c EXCEPT !.time = at]
                 ELSE Moved(c, "need-consumption", at, p, delta)
            x == d.outcomes \cup
                    {[citizen |-> p, at |-> at, food |-> RequiredFood[p] - meal.left,
                      water |-> RequiredWater[p] - drink.left]}
<1>1. Feed(c, p, stocks, at) = [d EXCEPT !.outcomes = x]
  BY DEF Feed
<1>. HIDE DEF x, meal, drink, delta
<1>2. IsAccounting(c, d)
  BY MovedIsAccounting, TableIsAccounting
<1>. HIDE DEF d
<1>3. IsAccounting(d, [d EXCEPT !.outcomes = x])
  BY <1>2, TableIsAccounting DEF IsAccounting
<1>. QED
  BY <1>1, <1>2, <1>3, AccountingGoesOn

\* A batch is fed, one after the other: the chain of states exists for every
\* length, and each of them is the one before it with one more citizen fed.
FedInTurn(run, c, batch, needs, at) ==
    /\ ConsumeNeeds(c, batch, needs, at) = run[Len(batch)] /\ run[0] = c
    /\ \A i \in 1..Len(batch) :
          run[i] = Feed(run[i - 1], batch[i], needs[batch[i]] \cap DOMAIN c.stocks, at)
\* There is such a chain for every batch.
LEMMA ConsumeNeedsRuns ==
    ASSUME NEW c, NEW batch \in Seq(Citizens), NEW needs, NEW at
    PROVE  \E run : FedInTurn(run, c, batch, needs, at)
<1>. DEFINE FedOne(u, p) == Feed(u, p, needs[p] \cap DOMAIN c.stocks, at)
            Then(u, p) == CHOOSE v \in {FedOne(w, p) : w \in {u}} : TRUE
            Runs(f, n) == f = [i \in 0..n |-> IF i = 0 THEN c ELSE Then(f[i - 1], batch[i])]
            N == Len(batch)
            F == CHOOSE f : Runs(f, N)
<1>1. ConsumeNeeds(c, batch, needs, at) = F[N]
  BY DEF ConsumeNeeds, Chain
<1>2. \A u, p : Then(u, p) = FedOne(u, p)
  <2>. SUFFICES ASSUME NEW u, NEW p PROVE Then(u, p) = FedOne(u, p)
    OBVIOUS
  <2>. DEFINE y == FedOne(u, p)
  <2>1. {FedOne(w, p) : w \in {u}} = {y}
    OBVIOUS
  <2>. HIDE DEF FedOne
  <2>2. (CHOOSE v \in {y} : TRUE) = y
    OBVIOUS
  <2>. QED
    BY <2>1, <2>2
<1>. HIDE DEF FedOne, Then
<1>4. \A n \in Nat : \E f : Runs(f, n)
  <2>. DEFINE B == {n \in Nat : ~ \E f : Runs(f, n)}
  <2>. SUFFICES ASSUME B # {} PROVE FALSE
    OBVIOUS
  <2>1. PICK n \in B : \A k \in B : n =< k
    BY LeastOf
  <2>2. n # 0
    <3>. DEFINE g == [i \in 0..0 |-> c]
    <3>1. Runs(g, 0)
      OBVIOUS
    <3>. QED
      BY <3>1
  <2>3. n - 1 \in Nat /\ ~ (n =< n - 1)
    BY <2>2
  <2>4. PICK f : Runs(f, n - 1)
    BY <2>1, <2>3
  <2>. DEFINE g == [i \in 0..n |-> IF i = n THEN Then(f[n - 1], batch[n]) ELSE f[i]]
  <2>5. Runs(g, n)
    <3>1. ASSUME NEW i \in 0..n
          PROVE  g[i] = IF i = 0 THEN c ELSE Then(g[i - 1], batch[i])
      <4>1. CASE i = n
        <5>1. g[n - 1] = f[n - 1]
          BY <2>3
        <5>. QED
          BY <2>2, <4>1, <5>1
      <4>2. CASE i = 0
        BY <2>2, <2>3, <2>4, <4>2
      <4>3. CASE i # n /\ i # 0
        <5>1. i \in 0..(n - 1) /\ i - 1 \in 0..n /\ i - 1 # n
          BY <4>3
        <5>2. g[i] = f[i] /\ g[i - 1] = f[i - 1]
          BY <4>3, <5>1
        <5>3. f[i] = Then(f[i - 1], batch[i])
          BY <2>4, <4>3, <5>1
        <5>. QED
          BY <4>3, <5>2, <5>3
      <4>. QED
        BY <4>1, <4>2, <4>3
    <3>. QED
      BY <3>1
  <2>. QED
    BY <2>5
<1>5. N \in Nat
  OBVIOUS
<1>. HIDE DEF N
<1>6. Runs(F, N)
  <2>1. PICK f : Runs(f, N)
    BY <1>4, <1>5
  <2>. QED
    BY <2>1
<1>. HIDE DEF F
<1>7. F[0] = c
  BY <1>5, <1>6
<1>8. ASSUME NEW i \in 1..N
      PROVE  F[i] = Feed(F[i - 1], batch[i], needs[batch[i]] \cap DOMAIN c.stocks, at)
  <2>1. i \in 0..N /\ i # 0
    BY <1>5
  <2>2. F[i] = Then(F[i - 1], batch[i])
    BY <1>6, <2>1
  <2>. QED
    BY <1>2, <2>2 DEF FedOne
<1>9. FedInTurn(F, c, batch, needs, at)
  BY <1>1, <1>7, <1>8 DEF N, FedInTurn
<1>. QED
  BY <1>9

\* Each of them is reached by accounting calls.
LEMMA ConsumeNeedsIsAccounting ==
    ASSUME NEW c, IsCivilization(c), DOMAIN c.stocks \subseteq Stocks,
           NEW batch \in Seq(Citizens), NEW needs, NEW at
    PROVE  IsAccounting(c, ConsumeNeeds(c, batch, needs, at))
<1>. DEFINE N == Len(batch)
<1>4. PICK F : FedInTurn(F, c, batch, needs, at)
  BY ConsumeNeedsRuns
<1>1. /\ ConsumeNeeds(c, batch, needs, at) = F[N] /\ F[0] = c
      /\ \A i \in 1..N :
            F[i] = Feed(F[i - 1], batch[i], needs[batch[i]] \cap DOMAIN c.stocks, at)
  BY <1>4 DEF FedInTurn
<1>2. N \in Nat
  OBVIOUS
<1>. HIDE DEF N
<1>3. \A i \in 0..N : IsAccounting(c, F[i])
  <2>. DEFINE B == {i \in 0..N : ~ IsAccounting(c, F[i])}
  <2>. SUFFICES ASSUME B # {} PROVE FALSE
    OBVIOUS
  <2>1. B \in SUBSET Nat
    BY <1>2
  <2>2. PICK n \in B : \A k \in B : n =< k
    BY <2>1, LeastOf
  <2>3. IsAccounting(c, F[0])
    BY <1>1 DEF IsAccounting, SameSociety
  <2>4. n \in 1..N /\ n - 1 \in 0..N /\ ~ (n =< n - 1)
    BY <1>2, <2>2, <2>3
  <2>. DEFINE d == F[n - 1]
  <2>5. \E p, stocks : F[n] = Feed(d, p, stocks, at)
    BY <1>1, <2>4
  <2>6. IsAccounting(c, d)
    BY <2>2, <2>4
  <2>. HIDE DEF d
  <2>7. IsAccounting(c, F[n])
    BY <2>5, <2>6, FeedIsAccounting, AccountingGoesOn DEF IsAccounting
  <2>. QED
    BY <2>2, <2>7
<1>. QED
  BY <1>1, <1>2, <1>3

\* checkpointCivilizationAccounting.
LEMMA CheckpointIsAccounting ==
    ASSUME NEW c, IsCivilization(c), DOMAIN c.stocks \subseteq Stocks
    PROVE  IsAccounting(c, Checkpoint(c))
<1>. DEFINE b == [stocks |-> c.stocks, consumed |-> CheckpointBooks(c)]
            x == Without(c.processes,
           {id \in DOMAIN c.processes : c.processes[id].state # "active"})
            d == [c EXCEPT !.base = b, !.ledger = <<>>, !.outcomes = {}, !.processes = x]
<1>1. Checkpoint(c) = d
  BY DEF Checkpoint
<1>. HIDE DEF b, x
<1>2. IsAccounting(c, d)
  BY DEF IsAccounting, IsCivilization, Tables, SameSociety
<1>. QED
  BY <1>1, <1>2

-----------------------------------------------------------------------------
(* Projects *)

\* What a plan asks, and of which milestones first.
LEMMA PlanFacts ==
    ASSUME NEW p \in Projects, NEW i \in DOMAIN Plan(p)
    PROVE  /\ Plan(p)[i].needs \in [Resources -> Nat] /\ Plan(p)[i].labor \in Nat
           /\ Plan(p)[i].deps \subseteq DOMAIN Plan(p)
<1>. DEFINE Asked == [needs : [Resources -> Nat], labor : Nat, deps : SUBSET Nat]
            ms == Plan(p)
<1>1. ms \in Seq(Asked) /\ (\A j \in DOMAIN ms : ms[j].deps \subseteq DOMAIN ms) /\ i \in DOMAIN ms
  BY CatalogueAssumption DEF ValidCatalogue, Plan
<1>. HIDE DEF ms
<1>2. DOMAIN ms = 1..Len(ms)
  BY <1>1
<1>3. ms[i] \in Asked
  <2>. HIDE DEF Asked
  <2>. QED
    BY <1>1, <1>2
<1>. QED
  BY <1>1, <1>3 DEF ms

\* A call that writes one project, which may be new: a completed one stays so.
LEMMA ProjectKeeps ==
    ASSUME NEW calls, NEW c, NEW d, KernelOK(calls, c), IsAccounting(c, d), NEW p \in Projects,
           NEW projects, NEW e,
           e = [d EXCEPT !.projects = projects],
           DOMAIN projects = DOMAIN c.projects \cup {p},
           projects = [x \in DOMAIN projects |-> projects[x]],
           \A x \in DOMAIN c.projects : x # p => projects[x] = c.projects[x],
           ProjectOK(p, projects[p]),
           Done(c.projects, p) => projects[p].state = "completed",
           projects[p].state \in {"active", "completed"} =>
               \A x \in ProjectInfo[p].deps : Done(c.projects, x)
    PROVE  KernelOK(calls, e)
<1>1. /\ IsCivilization(e) /\ e.stocks = d.stocks /\ e.projects = projects
      /\ e.citizens = c.citizens /\ e.households = c.households
      /\ e.migrations = c.migrations /\ e.foundings = c.foundings /\ e.settled = c.settled
      /\ e.settlements = c.settlements /\ e.kinds = c.kinds /\ e.built = c.built
      /\ e.journeys = c.journeys
  BY DEF IsAccounting, SameSociety, IsCivilization, Tables
<1>2. \A x : Done(c.projects, x) => Done(projects, x)
  BY DEF Done
<1>3. Books(projects)
  <2>1. DOMAIN projects \subseteq Projects
    BY DEF KernelOK, Books
  <2>2. ASSUME NEW x \in DOMAIN projects
        PROVE  ProjectOK(x, projects[x]) /\ StartedInTurn(projects, x)
    <3>1. CASE x = p
      BY <1>2, <3>1 DEF StartedInTurn, Done
    <3>2. CASE x # p
      <4>1. x \in DOMAIN c.projects /\ projects[x] = c.projects[x]
        BY <3>2
      <4>2. ProjectOK(x, c.projects[x]) /\ StartedInTurn(c.projects, x)
        BY <4>1 DEF KernelOK, Books
      <4>. QED
        BY <1>2, <4>1, <4>2 DEF StartedInTurn, Done
    <3>. QED
      BY <3>1, <3>2
  <2>. QED
    BY <2>1, <2>2 DEF Books
<1>4. Colonies(c.migrations, c.foundings, c.settled, projects, c.settlements)
  BY <1>2 DEF KernelOK, Colonies, Founding
<1>5. Buildings(c.built, c.kinds, projects)
  BY <1>2 DEF KernelOK, Buildings
<1>. QED
  BY <1>1, <1>3, <1>4, <1>5 DEF KernelOK, IsAccounting

\* What the invariant says of a project.
LEMMA ProjectFacts ==
    ASSUME NEW calls, NEW c, KernelOK(calls, c), NEW p \in DOMAIN c.projects
    PROVE  /\ p \in Projects /\ ProjectOK(p, c.projects[p]) /\ StartedInTurn(c.projects, p)
           /\ c.projects = [x \in DOMAIN c.projects |-> c.projects[x]]
           /\ IsCivilization(c) /\ DOMAIN c.stocks \subseteq Stocks
BY DEF KernelOK, Books

\* A call that writes one project that there is.
LEMMA ProjectStepKeeps ==
    ASSUME NEW calls, NEW c, NEW d, KernelOK(calls, c), IsAccounting(c, d),
           NEW p \in DOMAIN c.projects, NEW r, NEW e,
           e = [d EXCEPT !.projects = [c.projects EXCEPT ![p] = r]],
           ProjectOK(p, r),
           c.projects[p].state = "completed" => r.state = "completed",
           r.state \in {"active", "completed"} =>
               \/ c.projects[p].state \in {"active", "completed"}
               \/ \A x \in ProjectInfo[p].deps : Done(c.projects, x)
    PROVE  KernelOK(calls, e)
<1>. DEFINE projects == [c.projects EXCEPT ![p] = r]
<1>1. /\ p \in Projects /\ StartedInTurn(c.projects, p)
      /\ c.projects = [x \in DOMAIN c.projects |-> c.projects[x]]
  BY ProjectFacts
<1>2. /\ DOMAIN projects = DOMAIN c.projects \cup {p}
      /\ projects = [x \in DOMAIN projects |-> projects[x]] /\ projects[p] = r
      /\ \A x \in DOMAIN c.projects : x # p => projects[x] = c.projects[x]
  BY <1>1
<1>3. r.state \in {"active", "completed"} => \A x \in ProjectInfo[p].deps : Done(c.projects, x)
  BY <1>1 DEF StartedInTurn, Done
<1>4. Done(c.projects, p) => r.state = "completed"
  BY DEF Done
<1>5. e = [d EXCEPT !.projects = projects]
  OBVIOUS
<1>. HIDE DEF projects
<1>. QED
  BY <1>1, <1>2, <1>3, <1>4, <1>5, ProjectKeeps

\* A milestone that is not written, while completed ones stay so.
LEMMA MilestoneStays ==
    ASSUME NEW p \in Projects, NEW ms, NEW n, NEW i \in DOMAIN Plan(p), MilestoneOK(p, ms, i),
           n[i] = ms[i],
           \A j \in DOMAIN Plan(p) : ms[j].state = "completed" => n[j].state = "completed"
    PROVE  MilestoneOK(p, n, i)
BY PlanFacts DEF MilestoneOK, Waited

\* One milestone is written.
LEMMA MilestoneStep ==
    ASSUME NEW p \in Projects, NEW project, ProjectOK(p, project), NEW i \in DOMAIN Plan(p),
           NEW m \in Milestones, NEW s \in ProjectStates \ {"completed"}, NEW r,
           r = [state |-> s, milestones |-> [project.milestones EXCEPT ![i] = m]],
           \A g \in Resources : /\ m.consumed[g] =< m.delivered[g]
                                /\ m.delivered[g] =< Plan(p)[i].needs[g],
           m.state = "completed" => Exact(p, i, m),
           project.milestones[i].state = "completed" => m.state = "completed",
           \/ Waited(p, project.milestones, i)
           \/ /\ m.state \notin {"ready", "active"} /\ m.labor = project.milestones[i].labor
              /\ m.consumed = project.milestones[i].consumed
    PROVE  ProjectOK(p, r)
<1>. DEFINE ms == project.milestones
            n == [ms EXCEPT ![i] = m]
<1>1. /\ ms = [j \in DOMAIN Plan(p) |-> ms[j]]
      /\ \A j \in DOMAIN Plan(p) : MilestoneOK(p, ms, j)
  BY DEF ProjectOK
<1>. HIDE DEF ms
<1>2. /\ n = [j \in DOMAIN Plan(p) |-> n[j]] /\ n[i] = m
      /\ \A j \in DOMAIN Plan(p) : j # i => n[j] = ms[j]
  BY <1>1
<1>. HIDE DEF n
<1>3. \A j \in DOMAIN Plan(p) : ms[j].state = "completed" => n[j].state = "completed"
  BY <1>2 DEF ms
<1>4. ASSUME NEW j \in DOMAIN Plan(p), j # i
      PROVE  MilestoneOK(p, n, j)
  BY <1>1, <1>2, <1>3, <1>4, MilestoneStays
<1>5. (\/ m.labor > 0 \/ m.state \in {"ready", "active"} \/ \E g \in Resources : m.consumed[g] > 0)
      => Waited(p, n, i)
  <2>1. Waited(p, ms, i) => Waited(p, n, i)
    BY <1>3, PlanFacts DEF Waited
  <2>2. MilestoneOK(p, ms, i)
    BY <1>1
  <2>. QED
    BY <2>1, <2>2 DEF MilestoneOK, ms
<1>6. MilestoneOK(p, n, i)
  BY <1>2, <1>5 DEF MilestoneOK
<1>7. \A j \in DOMAIN Plan(p) : MilestoneOK(p, n, j)
  BY <1>4, <1>6
<1>8. r = [state |-> s, milestones |-> n]
  BY DEF n, ms
<1>. QED
  BY <1>2, <1>7, <1>8 DEF ProjectOK

\* A project that changes its state only.
LEMMA StateStep ==
    ASSUME NEW p \in Projects, NEW project, ProjectOK(p, project), NEW s \in ProjectStates, NEW r,
           r = [project EXCEPT !.state = s],
           s = "completed" => \A i \in DOMAIN Plan(p) : project.milestones[i].state = "completed"
    PROVE  ProjectOK(p, r) /\ r.state = s
<1>. DEFINE ms == project.milestones
<1>1. r = [state |-> s, milestones |-> ms]
  BY DEF ProjectOK
<1>. QED
  BY <1>1 DEF ProjectOK

\* registerProject: every milestone waits for those it depends on.
LEMMA RegisterProjectKeeps ==
    ASSUME NEW calls, NEW c, KernelOK(calls, c), NEW p \in Projects, CanRegisterProject(c, p)
    PROVE  KernelOK(calls, RegisterProject(c, p))
<1>. DEFINE ms == [i \in DOMAIN Plan(p) |-> NewMilestone(Plan(p)[i])]
            r == [state |-> "proposed", milestones |-> ms]
            projects == With(c.projects, p, r)
            e == [c EXCEPT !.projects = projects]
<1>1. RegisterProject(c, p) = e
  BY DEF RegisterProject
<1>2. ASSUME NEW i \in DOMAIN Plan(p)
      PROVE  MilestoneOK(p, ms, i)
  <2>. DEFINE m == NewMilestone(Plan(p)[i])
              zero == [g \in Resources |-> 0]
  <2>1. /\ m.state = IF Plan(p)[i].deps = {} THEN "ready" ELSE "blocked"
        /\ m.delivered = zero /\ m.consumed = zero /\ m.labor = 0 /\ m \in Milestones
    BY DEF NewMilestone, Milestones
  <2>2. ms[i] = m /\ Plan(p)[i].needs \in [Resources -> Nat]
    BY PlanFacts
  <2>3. Waited(p, ms, i) \/ m.state = "blocked"
    BY <2>1 DEF Waited
  <2>. HIDE DEF m, ms
  <2>4. ~ \E g \in Resources : m.consumed[g] > 0
    BY <2>1
  <2>5. \A g \in Resources : m.consumed[g] =< m.delivered[g] /\ m.delivered[g] =< Plan(p)[i].needs[g]
    BY <2>1, <2>2
  <2>. QED
    BY <2>1, <2>2, <2>3, <2>4, <2>5 DEF MilestoneOK
<1>3. ms = [i \in DOMAIN Plan(p) |-> ms[i]]
  OBVIOUS
<1>. HIDE DEF ms
<1>4. ProjectOK(p, r)
  BY <1>2, <1>3 DEF ProjectOK, ProjectStates
<1>5. r.state = "proposed" /\ p \notin DOMAIN c.projects
  BY DEF CanRegisterProject
<1>. HIDE DEF r
<1>6. /\ DOMAIN projects = DOMAIN c.projects \cup {p}
      /\ projects = [x \in DOMAIN projects |-> projects[x]] /\ projects[p] = r
      /\ \A x \in DOMAIN c.projects : x # p => projects[x] = c.projects[x]
  BY DEF With
<1>. HIDE DEF projects
<1>7. IsAccounting(c, c)
  BY DEF IsAccounting, SameSociety, KernelOK
<1>8. ~ Done(c.projects, p)
  BY <1>5 DEF Done
<1>. QED
  BY <1>1, <1>4, <1>5, <1>6, <1>7, <1>8, ProjectKeeps

\* A call that writes one milestone of an active or approved project.
LEMMA MilestoneStepKeeps ==
    ASSUME NEW calls, NEW c, NEW d, KernelOK(calls, c), IsAccounting(c, d),
           NEW p \in DOMAIN c.projects,
           NEW i \in DOMAIN Plan(p), NEW m \in Milestones, NEW s \in ProjectStates \ {"completed"},
           NEW e, NEW r, r = [state |-> s,
           milestones |-> [c.projects[p].milestones EXCEPT ![i] = m]],
           e = [d EXCEPT !.projects = [c.projects EXCEPT ![p] = r]],
           c.projects[p].state # "completed", s = "active" => c.projects[p].state = "active",
           \A g \in Resources : /\ m.consumed[g] =< m.delivered[g]
                                /\ m.delivered[g] =< Plan(p)[i].needs[g],
           m.state = "completed" => Exact(p, i, m),
           c.projects[p].milestones[i].state = "completed" => m.state = "completed",
           \/ Waited(p, c.projects[p].milestones, i)
           \/ /\ m.state \notin {"ready", "active"} /\ m.labor = c.projects[p].milestones[i].labor
              /\ m.consumed = c.projects[p].milestones[i].consumed
    PROVE  KernelOK(calls, e)
<1>1. p \in Projects /\ ProjectOK(p, c.projects[p])
  BY ProjectFacts
<1>2. ProjectOK(p, r)
  <2>. DEFINE project == c.projects[p]
  <2>1. ProjectOK(p, project)
    BY <1>1
  <2>. HIDE DEF project
  <2>2. r = [state |-> s, milestones |-> [project.milestones EXCEPT ![i] = m]]
    BY DEF project
  <2>3. project.milestones[i].state = "completed" => m.state = "completed"
    BY DEF project
  <2>4. \/ Waited(p, project.milestones, i)
        \/ /\ m.state \notin {"ready", "active"} /\ m.labor = project.milestones[i].labor
           /\ m.consumed = project.milestones[i].consumed
    BY DEF project
  <2>. QED
    BY <1>1, <2>1, <2>2, <2>3, <2>4, MilestoneStep
<1>3. r.state = s
  OBVIOUS
<1>. QED
  BY <1>2, <1>3, ProjectStepKeeps

\* approveProject, startProject, completeProject, abandonProject.
LEMMA StateStepKeeps ==
    ASSUME NEW calls, NEW c, NEW d, KernelOK(calls, c), IsAccounting(c, d),
           NEW p \in DOMAIN c.projects, NEW e,
           NEW s \in ProjectStates, e = [d EXCEPT !.projects = [c.projects EXCEPT ![p].state = s]],
           c.projects[p].state # "completed",
           s = "active" => \A x \in ProjectInfo[p].deps : Done(c.projects, x),
           s = "completed" => c.projects[p].state = "active" /\ AllMilestones(c, p)
    PROVE  KernelOK(calls, e)
<1>. DEFINE project == c.projects[p]
            r == [project EXCEPT !.state = s]
<1>1. p \in Projects /\ ProjectOK(p, project)
  BY ProjectFacts
<1>2. s = "completed" => \A i \in DOMAIN Plan(p) : project.milestones[i].state = "completed"
  BY DEF AllMilestones
<1>3. e = [d EXCEPT !.projects = [c.projects EXCEPT ![p] = r]]
  OBVIOUS
<1>4. project.state # "completed" /\ (s = "completed" => project.state = "active")
  OBVIOUS
<1>. HIDE DEF project
<1>5. ProjectOK(p, r) /\ r.state = s
  BY <1>1, <1>2, StateStep
<1>. HIDE DEF r
<1>. QED
  BY <1>3, <1>4, <1>5, ProjectStepKeeps DEF project

\* The calls that change the state of a project.
LEMMA ProjectStatesKeep ==
    ASSUME NEW calls, NEW c, KernelOK(calls, c), NEW p \in Projects, NEW at
    PROVE  /\ Is(c, p, {"proposed"}) => KernelOK(calls, ApproveProject(c, p))
           /\ CanStartProject(c, p, at) => KernelOK(calls, StartProject(c, p, at))
           /\ CanCompleteProject(c, p, at) => KernelOK(calls, CompleteProject(c, p, at))
           /\ CanEnd(c, p, at) => KernelOK(calls, AbandonProject(c, p, at))
<1>. DEFINE d == [c EXCEPT !.time = at]
            Set(b, s) == [b EXCEPT !.projects = [c.projects EXCEPT ![p].state = s]]
<1>1. IsAccounting(c, c) /\ IsAccounting(c, d) /\ IsCivilization(c)
  <2>1. IsCivilization(c) /\ DOMAIN c.stocks \subseteq Stocks
    BY DEF KernelOK
  <2>2. IsAccounting(c, c)
    BY <2>1 DEF IsAccounting, SameSociety
  <2>3. IsAccounting(c, d)
    BY <2>1, TableIsAccounting
  <2>. QED
    BY <2>1, <2>2, <2>3
<1>2. ASSUME NEW s
      PROVE  [c EXCEPT !.time = at, !.projects[p].state = s] = Set(d, s)
  BY <1>1 DEF IsCivilization, Tables
<1>3. ASSUME Is(c, p, {"proposed"})
      PROVE  KernelOK(calls, ApproveProject(c, p))
  <2>1. ApproveProject(c, p) = Set(c, "approved") /\ "approved" \in ProjectStates
    BY DEF ApproveProject, ProjectStates
  <2>. QED
    BY <1>1, <1>3, <2>1, StateStepKeeps DEF Is
<1>4. ASSUME CanStartProject(c, p, at)
      PROVE  KernelOK(calls, StartProject(c, p, at))
  <2>1. StartProject(c, p, at) = Set(d, "active") /\ "active" \in ProjectStates
    BY <1>2 DEF StartProject, ProjectStates
  <2>2. \A x \in ProjectInfo[p].deps : Done(c.projects, x)
    BY <1>4 DEF CanStartProject, Is, Done
  <2>3. p \in DOMAIN c.projects /\ c.projects[p].state # "completed"
    BY <1>4 DEF CanStartProject, Is
  <2>. HIDE DEF d
  <2>. QED
    BY <1>1, <2>1, <2>2, <2>3, StateStepKeeps
<1>5. ASSUME CanCompleteProject(c, p, at)
      PROVE  KernelOK(calls, CompleteProject(c, p, at))
  <2>1. CompleteProject(c, p, at) = Set(d, "completed") /\ "completed" \in ProjectStates
    BY <1>2 DEF CompleteProject, ProjectStates
  <2>2. p \in DOMAIN c.projects /\ c.projects[p].state = "active" /\ AllMilestones(c, p)
    BY <1>5 DEF CanCompleteProject, Is
  <2>. HIDE DEF d
  <2>. QED
    BY <1>1, <2>1, <2>2, StateStepKeeps
<1>6. ASSUME CanEnd(c, p, at)
      PROVE  KernelOK(calls, AbandonProject(c, p, at))
  <2>1. AbandonProject(c, p, at) = Set(d, "abandoned") /\ "abandoned" \in ProjectStates
    BY <1>2 DEF AbandonProject, ProjectStates
  <2>2. p \in DOMAIN c.projects /\ c.projects[p].state # "completed"
    BY <1>6, SMTT(30) DEF CanEnd, Is
  <2>. HIDE DEF d
  <2>. QED
    BY <1>1, <2>1, <2>2, StateStepKeeps
<1>. QED
  BY <1>3, <1>4, <1>5, <1>6

\* What the invariant says of a milestone.
LEMMA MilestoneFacts ==
    ASSUME NEW calls, NEW c, KernelOK(calls, c), NEW p \in DOMAIN c.projects,
           NEW i \in DOMAIN Plan(p)
    PROVE  /\ MilestoneOK(p, c.projects[p].milestones, i)
           /\ c.projects[p].milestones[i] \in Milestones
           /\ Plan(p)[i].needs \in [Resources -> Nat]
BY ProjectFacts, PlanFacts DEF ProjectOK, MilestoneOK

\* What a call writes in one project, with the state and the milestones of the
\* project apart.
Written(c, d, p, s, ms) ==
    [d EXCEPT !.projects = [c.projects EXCEPT ![p] = [state |-> s, milestones |-> ms]]]

\* The project as a record, in a function, in a record.
LEMMA TablesOf ==
    ASSUME NEW calls, NEW c, NEW d, KernelOK(calls, c), IsAccounting(c, d),
           NEW p \in DOMAIN c.projects
    PROVE  /\ d = [t \in Tables |-> d[t]] /\ "projects" \in Tables
           /\ d.projects = c.projects
           /\ c.projects = [x \in DOMAIN c.projects |-> c.projects[x]]
           /\ c.projects[p] = [state |-> c.projects[p].state,
                               milestones |-> c.projects[p].milestones]
<1>1. c.projects = [x \in DOMAIN c.projects |-> c.projects[x]] /\ ProjectOK(p, c.projects[p])
  BY ProjectFacts
<1>2. d = [t \in Tables |-> d[t]] /\ d.projects = c.projects
  BY DEF IsAccounting, IsCivilization, SameSociety
<1>. QED
  BY <1>1, <1>2 DEF ProjectOK, Tables

\* The forms in which the calls write.
WriteOne(d, p, i, m) == [d EXCEPT !.projects[p].milestones[i] = m]
WriteBoth(d, p, s, i, m) == [d EXCEPT !.projects[p].state = s, !.projects[p].milestones[i] = m]
WriteAll(d, p, s, n) == [d EXCEPT !.projects[p].state = s, !.projects[p].milestones = n]

\* A write to one milestone, one level after the other.
LEMMA NestedWrite ==
    ASSUME NEW d, NEW p, NEW f, NEW i, NEW m, NEW T, d = [t \in T |-> d[t]],
           "projects" \in T, d.projects = f, f = [x \in DOMAIN f |-> f[x]], p \in DOMAIN f,
           NEW ms, NEW s, f[p] = [state |-> s, milestones |-> ms]
    PROVE  WriteOne(d, p, i, m) =
              [d EXCEPT !.projects = [f EXCEPT ![p] =
                  [state |-> s, milestones |-> [ms EXCEPT ![i] = m]]]]
BY DEF WriteOne

\* One milestone is written.
LEMMA MilestoneWritten ==
    ASSUME NEW calls, NEW c, NEW d, KernelOK(calls, c), IsAccounting(c, d),
           NEW p \in DOMAIN c.projects, NEW i, NEW m,
           NEW e, e = WriteOne(d, p, i, m)
    PROVE  e = Written(c, d, p, c.projects[p].state, [c.projects[p].milestones EXCEPT ![i] = m])
<1>. DEFINE f == c.projects
            u == f[p].state
            ms == f[p].milestones
<1>1. /\ d = [t \in Tables |-> d[t]] /\ "projects" \in Tables /\ d.projects = f
      /\ f = [x \in DOMAIN f |-> f[x]] /\ p \in DOMAIN f /\ f[p] = [state |-> u, milestones |-> ms]
  BY TablesOf
<1>. HIDE DEF f, u, ms
<1>2. e = [d EXCEPT !.projects = [f EXCEPT ![p] =
               [state |-> u, milestones |-> [ms EXCEPT ![i] = m]]]]
  BY <1>1, NestedWrite
<1>. QED
  BY <1>2 DEF Written, f, u, ms

\* The state and all milestones are written.
LEMMA ProjectWritten ==
    ASSUME NEW calls, NEW c, NEW d, KernelOK(calls, c), IsAccounting(c, d),
           NEW p \in DOMAIN c.projects, NEW s, NEW n,
           NEW e, e = WriteAll(d, p, s, n)
    PROVE  e = Written(c, d, p, s, n)
<1>. DEFINE f == c.projects
            u == f[p].state
            ms == f[p].milestones
            v == [d EXCEPT !.projects[p].state = s, !.projects[p].milestones = n]
<1>0. e = v
  BY DEF WriteAll
<1>1. /\ d = [t \in Tables |-> d[t]] /\ "projects" \in Tables /\ d.projects = f
      /\ f = [x \in DOMAIN f |-> f[x]] /\ p \in DOMAIN f /\ f[p] = [state |-> u, milestones |-> ms]
  BY TablesOf
<1>. HIDE DEF f, u, ms
<1>2. v.projects[p] = [state |-> s, milestones |-> n]
  BY <1>1
<1>3. v.projects = [x \in DOMAIN f |-> IF x = p THEN v.projects[p] ELSE f[x]]
  BY <1>1
<1>4. v = [t \in Tables |-> IF t = "projects" THEN v.projects ELSE d[t]]
  BY <1>1
<1>. HIDE DEF v
<1>5. v = [d EXCEPT !.projects = [f EXCEPT ![p] = [state |-> s, milestones |-> n]]]
  BY <1>1, <1>2, <1>3, <1>4
<1>. QED
  BY <1>0, <1>5 DEF Written, f

\* The state and one milestone are written.
LEMMA StateAndMilestoneWritten ==
    ASSUME NEW calls, NEW c, NEW d, KernelOK(calls, c), IsAccounting(c, d),
           NEW p \in DOMAIN c.projects,
           NEW s, NEW i, NEW m
    PROVE  WriteBoth(d, p, s, i, m) = Written(c, d, p, s, [c.projects[p].milestones EXCEPT ![i] = m])
<1>. DEFINE f == c.projects
            ms == f[p].milestones
            u == f[p].state
            h == [f EXCEPT ![p] = [state |-> s, milestones |-> ms]]
            a == [d EXCEPT !.projects = h]
            e == WriteBoth(d, p, s, i, m)
            r == [state |-> s, milestones |-> [ms EXCEPT ![i] = m]]
<1>1. /\ d = [t \in Tables |-> d[t]] /\ "projects" \in Tables /\ d.projects = f
      /\ f = [x \in DOMAIN f |-> f[x]] /\ p \in DOMAIN f /\ f[p] = [state |-> u, milestones |-> ms]
  BY TablesOf
<1>. HIDE DEF f, u, ms
<1>2. a = [d EXCEPT !.projects[p].state = s]
  BY <1>1
<1>3. e = WriteOne(a, p, i, m)
  BY <1>2 DEF WriteOne, WriteBoth
<1>4. /\ a = [t \in Tables |-> a[t]] /\ "projects" \in Tables /\ a.projects = h
      /\ h = [x \in DOMAIN h |-> h[x]] /\ p \in DOMAIN h /\ h[p] = [state |-> s, milestones |-> ms]
  BY <1>1
<1>5. [h EXCEPT ![p] = r] = [f EXCEPT ![p] = r]
  <2>. HIDE DEF r
  <2>. QED
    BY <1>1
<1>6. ASSUME NEW y
      PROVE  [a EXCEPT !.projects = y] = [d EXCEPT !.projects = y]
  <2>. HIDE DEF h
  <2>. QED
    BY <1>1
<1>. HIDE DEF a, h, e
<1>7. WriteOne(a, p, i, m) = [a EXCEPT !.projects = [h EXCEPT ![p] = r]]
  BY <1>4, NestedWrite
<1>. HIDE DEF r
<1>8. e = [d EXCEPT !.projects = [f EXCEPT ![p] = r]]
  BY <1>3, <1>5, <1>6, <1>7
<1>. QED
  BY <1>8 DEF e, r, f, ms, Written

\* A milestone as a record.
AMilestone(a, b, k, l) == [state |-> a, delivered |-> b, consumed |-> k, labor |-> l]

\* What a delivery writes.
LEMMA DeliveryWrites ==
    ASSUME NEW a, NEW b, NEW k, NEW l, NEW g, NEW q
    PROVE  WithDelivery(AMilestone(a, b, k, l), g, q) =
              AMilestone(a, [b EXCEPT ![g] = @ + q], k, l)
BY DEF WithDelivery, AMilestone

\* What a use writes.
LEMMA UseWrites ==
    ASSUME NEW a, NEW b, NEW k, NEW l, NEW g, NEW q
    PROVE  WithUse(AMilestone(a, b, k, l), g, q) =
              AMilestone("active", b, [k EXCEPT ![g] = @ + q], l)
<1>. DEFINE m == AMilestone(a, b, k, l)
            u == [k EXCEPT ![g] = @ + q]
            n == [m EXCEPT !.consumed[g] = @ + q]
<1>1. n = AMilestone(a, b, u, l)
  BY DEF AMilestone
<1>2. WithUse(m, g, q) = [n EXCEPT !.state = "active"]
  BY DEF WithUse
<1>3. [AMilestone(a, b, u, l) EXCEPT !.state = "active"] = AMilestone("active", b, u, l)
  <2>. HIDE DEF u
  <2>. QED
    BY DEF AMilestone
<1>. QED
  BY <1>1, <1>2, <1>3

\* What labor writes.
LEMMA WorkWrites ==
    ASSUME NEW a, NEW b, NEW k, NEW l, NEW q
    PROVE  WithLabor(AMilestone(a, b, k, l), q) = AMilestone("active", b, k, l + q)
<1>. DEFINE m == AMilestone(a, b, k, l)
            u == l + q
            n == [m EXCEPT !.labor = @ + q]
<1>1. n = AMilestone(a, b, k, u)
  BY DEF AMilestone
<1>2. WithLabor(m, q) = [n EXCEPT !.state = "active"]
  BY DEF WithLabor
<1>3. [AMilestone(a, b, k, u) EXCEPT !.state = "active"] = AMilestone("active", b, k, u)
  <2>. HIDE DEF u
  <2>. QED
    BY DEF AMilestone
<1>. QED
  BY <1>1, <1>2, <1>3

\* A delivery and a use, of a resource that there is.
LEMMA MaterialWrites ==
    ASSUME NEW m \in Milestones, NEW g \in Resources, NEW q \in Nat
    PROVE  /\ WithDelivery(m, g, q) =
                 AMilestone(m.state, [m.delivered EXCEPT ![g] = @ + q], m.consumed, m.labor)
           /\ WithUse(m, g, q) =
                 AMilestone("active", m.delivered, [m.consumed EXCEPT ![g] = @ + q], m.labor)
           /\ [m.delivered EXCEPT ![g] = @ + q] \in [Resources -> Nat]
           /\ [m.consumed EXCEPT ![g] = @ + q] \in [Resources -> Nat]
<1>1. m = AMilestone(m.state, m.delivered, m.consumed, m.labor)
  BY DEF Milestones, AMilestone
<1>2. /\ [m.delivered EXCEPT ![g] = @ + q] \in [Resources -> Nat]
      /\ [m.consumed EXCEPT ![g] = @ + q] \in [Resources -> Nat]
  BY DEF Milestones
<1>3. /\ WithDelivery(AMilestone(m.state, m.delivered, m.consumed, m.labor), g, q) =
            AMilestone(m.state, [m.delivered EXCEPT ![g] = @ + q], m.consumed, m.labor)
      /\ WithUse(AMilestone(m.state, m.delivered, m.consumed, m.labor), g, q) =
            AMilestone("active", m.delivered, [m.consumed EXCEPT ![g] = @ + q], m.labor)
  BY DeliveryWrites, UseWrites
<1>. QED
  BY <1>1, <1>2, <1>3

\* Labor.
LEMMA LaborWrites ==
    ASSUME NEW m \in Milestones, NEW n \in Nat
    PROVE  /\ WithLabor(m, n) = AMilestone("active", m.delivered, m.consumed, m.labor + n)
           /\ m.labor + n \in Nat
<1>1. m = AMilestone(m.state, m.delivered, m.consumed, m.labor)
  BY DEF Milestones, AMilestone
<1>2. m.labor + n \in Nat
  BY DEF Milestones
<1>3. WithLabor(AMilestone(m.state, m.delivered, m.consumed, m.labor), n) =
         AMilestone("active", m.delivered, m.consumed, m.labor + n)
  BY WorkWrites
<1>. QED
  BY <1>1, <1>2, <1>3

\* deliverProjectResource, within what is still needed.
LEMMA DeliverKeeps ==
    ASSUME NEW calls, NEW c, KernelOK(calls, c), NEW p \in DOMAIN c.projects,
           NEW i \in DOMAIN Plan(p), NEW from,
           NEW to \in DOMAIN c.stocks, NEW q \in Nat, NEW at, CanDeliver(c, p, i, from, to, q, at)
    PROVE  KernelOK(calls, Deliver(c, p, i, from, to, q, at))
<1>. DEFINE d == Transfer(c, "transfer", from, to, q, at)
            g == ResourceOf(to)
            ms == c.projects[p].milestones
            s == IF c.projects[p].state = "approved" THEN "resourcing" ELSE c.projects[p].state
            w == ms[i]
            m == WithDelivery(w, g, q)
            r == [state |-> s, milestones |-> [ms EXCEPT ![i] = m]]
            e == [d EXCEPT !.projects = [c.projects EXCEPT ![p] = r]]
<1>1. IsAccounting(c, d) /\ d.projects = c.projects
  BY CallsAreAccounting, SMTT(30) DEF KernelOK, IsAccounting, SameSociety
<1>2. g \in Resources
  BY CatalogueAssumption DEF ValidCatalogue, ResourceOf, KernelOK
<1>3. /\ c.projects[p].state \in {"approved", "resourcing", "active"}
      /\ w.delivered[g] + q =< Plan(p)[i].needs[g]
  BY DEF CanDeliver, Is
<1>4. /\ s \in ProjectStates \ {"completed"} /\ (s = "active" => c.projects[p].state = "active")
      /\ c.projects[p].state # "completed"
  BY <1>3 DEF ProjectStates
<1>5. Deliver(c, p, i, from, to, q, at) = e
  <2>1. Deliver(c, p, i, from, to, q, at) = WriteBoth(d, p, s, i, m)
    <3>. HIDE DEF WithDelivery
    <3>1. d.projects[p].state = c.projects[p].state /\ d.projects[p].milestones[i] = w
      BY <1>1
    <3>2. Deliver(c, p, i, from, to, q, at) =
             [d EXCEPT !.projects[p].state = IF @ = "approved" THEN "resourcing" ELSE @,
                       !.projects[p].milestones[i] = WithDelivery(@, g, q)]
      BY DEF Deliver
    <3>. HIDE DEF d, g
    <3>. QED
      BY <1>1, <3>1, <3>2, ProjectFacts DEF WriteBoth
  <2>2. e = Written(c, d, p, s, [c.projects[p].milestones EXCEPT ![i] = m])
    BY DEF Written
  <2>. HIDE DEF d, m, s, e
  <2>3. Deliver(c, p, i, from, to, q, at) =
           Written(c, d, p, s, [c.projects[p].milestones EXCEPT ![i] = m])
    BY <1>1, <2>1, StateAndMilestoneWritten
  <2>. QED
    BY <2>2, <2>3
<1>. HIDE DEF d, g, s
<1>6. MilestoneOK(p, ms, i) /\ w \in Milestones /\ Plan(p)[i].needs \in [Resources -> Nat]
  BY MilestoneFacts
<1>. HIDE DEF w
<1>7. /\ m.consumed = w.consumed /\ m.labor = w.labor /\ m.state = w.state
      /\ m.delivered = [w.delivered EXCEPT ![g] = @ + q] /\ m \in Milestones
  BY <1>2, <1>6 DEF Milestones, WithDelivery
<1>. HIDE DEF m
<1>8. \A x \in Resources : m.consumed[x] =< m.delivered[x] /\ m.delivered[x] =< Plan(p)[i].needs[x]
  <2>. SUFFICES ASSUME NEW x \in Resources
                PROVE  m.consumed[x] =< m.delivered[x] /\ m.delivered[x] =< Plan(p)[i].needs[x]
    OBVIOUS
  <2>1. /\ w.consumed[x] \in Nat /\ w.delivered[x] \in Nat /\ Plan(p)[i].needs[x] \in Nat
        /\ w.consumed[x] =< w.delivered[x] /\ w.delivered[x] =< Plan(p)[i].needs[x]
    BY <1>6 DEF Milestones, MilestoneOK, w
  <2>2. m.delivered[x] = IF x = g THEN w.delivered[g] + q ELSE w.delivered[x]
    BY <1>6, <1>7 DEF Milestones
  <2>3. m.consumed[x] = w.consumed[x]
    BY <1>7
  <2>4. CASE x = g
    BY <1>3, <2>1, <2>2, <2>3, <2>4
  <2>5. CASE x # g
    BY <2>1, <2>2, <2>3, <2>5, SMTT(30)
  <2>. QED
    BY <2>4, <2>5
<1>9. m.state = "completed" => Exact(p, i, m)
  BY <1>6, <1>7, SMTT(30) DEF MilestoneOK, Exact, w
<1>10. \/ Waited(p, ms, i)
       \/ m.state \notin {"ready", "active"} /\ m.labor = ms[i].labor /\ m.consumed = ms[i].consumed
  BY <1>6, <1>7 DEF MilestoneOK, w
<1>11. ms[i].state = "completed" => m.state = "completed"
  BY <1>7 DEF w
<1>12. r = [state |-> s, milestones |-> [c.projects[p].milestones EXCEPT ![i] = m]]
  OBVIOUS
<1>13. e = [d EXCEPT !.projects = [c.projects EXCEPT ![p] = r]]
  OBVIOUS
<1>. HIDE DEF r, e
<1>14. KernelOK(calls, e)
  BY <1>1, <1>4, <1>7, <1>8, <1>9, <1>10, <1>11, <1>12, <1>13, MilestoneStepKeeps
<1>. QED
  BY <1>5, <1>14

\* consumeProjectResource and contributeProjectLabor, on a milestone that is
\* ready or at work.
LEMMA WorkKeeps ==
    ASSUME NEW calls, NEW c, NEW d, KernelOK(calls, c), IsAccounting(c, d),
           NEW p \in DOMAIN c.projects,
           NEW i \in DOMAIN Plan(p), c.projects[p].state = "active", Workable(c, p, i),
           NEW m \in Milestones, m.state = "active",
           \A x \in Resources : m.consumed[x] =< m.delivered[x],
           m.delivered = c.projects[p].milestones[i].delivered,
           NEW v, v = WriteOne(d, p, i, m)
    PROVE  KernelOK(calls, v)
<1>. DEFINE ms == c.projects[p].milestones
            r == [state |-> "active", milestones |-> [ms EXCEPT ![i] = m]]
            e == [d EXCEPT !.projects = [c.projects EXCEPT ![p] = r]]
<1>1. MilestoneOK(p, ms, i) /\ ms[i].state \in {"ready", "active"}
  BY MilestoneFacts DEF Workable
<1>2. Waited(p, ms, i) /\ \A x \in Resources : m.delivered[x] =< Plan(p)[i].needs[x]
  BY <1>1 DEF MilestoneOK
<1>3. v = e
  <2>1. e = Written(c, d, p, c.projects[p].state, [c.projects[p].milestones EXCEPT ![i] = m])
    BY DEF Written
  <2>. HIDE DEF e
  <2>2. v = Written(c, d, p, c.projects[p].state, [c.projects[p].milestones EXCEPT ![i] = m])
    BY MilestoneWritten
  <2>. QED
    BY <2>1, <2>2
<1>4. "active" \in ProjectStates \ {"completed"}
  BY DEF ProjectStates
<1>5. r = [state |-> "active", milestones |-> [c.projects[p].milestones EXCEPT ![i] = m]]
  OBVIOUS
<1>6. e = [d EXCEPT !.projects = [c.projects EXCEPT ![p] = r]]
  OBVIOUS
<1>7. m.state # "completed" /\ c.projects[p].milestones[i].state # "completed"
  BY <1>1
<1>8. Waited(p, c.projects[p].milestones, i)
  BY <1>2
<1>. HIDE DEF r, e, ms
<1>9. KernelOK(calls, e)
  BY <1>2, <1>4, <1>5, <1>6, <1>7, <1>8, MilestoneStepKeeps
<1>. QED
  BY <1>3, <1>9

\* What is consumed was delivered.
LEMMA ConsumeKeeps ==
    ASSUME NEW calls, NEW c, KernelOK(calls, c), NEW p \in DOMAIN c.projects,
           NEW i \in DOMAIN Plan(p),
           NEW s \in DOMAIN c.stocks, NEW q \in Nat, NEW at, CanConsume(c, p, i, s, q, at)
    PROVE  KernelOK(calls, Consume(c, p, i, s, q, at))
<1>. DEFINE d == Moved(c, "project-consumption", at, p, [x \in {s} |-> -q])
            g == ResourceOf(s)
            w == c.projects[p].milestones[i]
            m == WithUse(w, g, q)
<1>1. IsAccounting(c, d) /\ d.projects = c.projects
  BY MovedIsAccounting DEF KernelOK, IsAccounting, SameSociety
<1>2. g \in Resources
  BY CatalogueAssumption DEF ValidCatalogue, ResourceOf, KernelOK
<1>3. /\ c.projects[p].state = "active" /\ Workable(c, p, i)
  BY DEF CanConsume, Is
<1>4. w.consumed[g] + q =< w.delivered[g]
  BY DEF CanConsume
<1>5. Consume(c, p, i, s, q, at) = WriteOne(d, p, i, m)
  BY <1>1 DEF Consume, WriteOne
<1>6. w \in Milestones /\ MilestoneOK(p, c.projects[p].milestones, i)
  BY MilestoneFacts
<1>. HIDE DEF d, g, w
<1>7. /\ m \in Milestones /\ m.state = "active" /\ m.delivered = w.delivered
      /\ m.consumed = [w.consumed EXCEPT ![g] = @ + q]
  <2>. DEFINE x == [w.consumed EXCEPT ![g] = @ + q]
  <2>1. m = AMilestone("active", w.delivered, x, w.labor) /\ x \in [Resources -> Nat]
    BY <1>2, <1>6, MaterialWrites, ZenonT(60)
  <2>. HIDE DEF x, m
  <2>. QED
    BY <1>6, <2>1 DEF Milestones, AMilestone, x
<1>. HIDE DEF m
<1>8. ASSUME NEW x \in Resources
      PROVE  m.consumed[x] =< m.delivered[x]
  <2>1. w.consumed[x] =< w.delivered[x]
    BY <1>6 DEF MilestoneOK, w
  <2>2. m.consumed[x] = IF x = g THEN w.consumed[g] + q ELSE w.consumed[x]
    BY <1>6, <1>7 DEF Milestones
  <2>. QED
    BY <1>4, <1>7, <2>1, <2>2
<1>9. \A x \in Resources : m.consumed[x] =< m.delivered[x]
  BY <1>8
<1>10. m.delivered = c.projects[p].milestones[i].delivered
  BY <1>7 DEF w
<1>11. IsAccounting(c, d) /\ m \in Milestones /\ m.state = "active"
  BY <1>1, <1>7
<1>. QED
  BY <1>3, <1>5, <1>9, <1>10, <1>11, WorkKeeps

\* Labor of a member of the project.
LEMMA ContributeKeeps ==
    ASSUME NEW calls, NEW c, KernelOK(calls, c), NEW p \in DOMAIN c.projects,
           NEW i \in DOMAIN Plan(p), NEW who,
           NEW n \in Nat, NEW at, CanContribute(c, p, i, who, n, at)
    PROVE  KernelOK(calls, Contribute(c, p, i, n, at))
<1>. DEFINE d == [c EXCEPT !.time = at]
            w == c.projects[p].milestones[i]
            m == WithLabor(w, n)
<1>1. IsAccounting(c, d) /\ IsCivilization(c)
  BY TableIsAccounting DEF KernelOK
<1>2. c.projects[p].state = "active" /\ Workable(c, p, i)
  BY DEF CanContribute, Is
<1>3. Contribute(c, p, i, n, at) = WriteOne(d, p, i, m)
  <2>. HIDE DEF WithLabor
  <2>1. Contribute(c, p, i, n, at) =
           [c EXCEPT !.time = at, !.projects[p].milestones[i] = WithLabor(@, n)]
    BY DEF Contribute
  <2>. QED
    BY <1>1, <2>1 DEF IsCivilization, Tables, WriteOne
<1>4. w \in Milestones /\ MilestoneOK(p, c.projects[p].milestones, i)
  BY MilestoneFacts
<1>. HIDE DEF d, w
<1>5. /\ m \in Milestones /\ m.state = "active" /\ m.delivered = w.delivered
      /\ m.consumed = w.consumed
  <2>. DEFINE x == w.labor + n
  <2>1. m = AMilestone("active", w.delivered, w.consumed, x) /\ x \in Nat
    BY <1>4, LaborWrites
  <2>. HIDE DEF x, m
  <2>. QED
    BY <1>4, <2>1 DEF Milestones, AMilestone
<1>. HIDE DEF m
<1>6. \A x \in Resources : m.consumed[x] =< m.delivered[x]
  BY <1>4, <1>5 DEF MilestoneOK, w
<1>7. m.delivered = c.projects[p].milestones[i].delivered
  BY <1>5 DEF w
<1>. QED
  BY <1>1, <1>2, <1>3, <1>5, <1>6, <1>7, WorkKeeps

\* All milestones of a project are written.
LEMMA MilestonesWritten ==
    ASSUME NEW calls, NEW c, NEW d, KernelOK(calls, c), IsAccounting(c, d),
           NEW p \in DOMAIN c.projects, NEW n
    PROVE  [d EXCEPT !.projects[p].milestones = n] = Written(c, d, p, c.projects[p].state, n)
<1>. DEFINE f == c.projects
            u == f[p].state
            ms == f[p].milestones
<1>1. /\ d = [t \in Tables |-> d[t]] /\ "projects" \in Tables /\ d.projects = f
      /\ f = [x \in DOMAIN f |-> f[x]] /\ p \in DOMAIN f /\ f[p] = [state |-> u, milestones |-> ms]
  BY TablesOf
<1>. HIDE DEF f, u, ms
<1>2. [d EXCEPT !.projects[p].milestones = n] =
         [d EXCEPT !.projects = [f EXCEPT ![p] = [state |-> u, milestones |-> n]]]
  BY <1>1
<1>. QED
  BY <1>2 DEF Written, f, u

\* The state of a milestone is written.
LEMMA MilestoneStateWrites ==
    ASSUME NEW m \in Milestones, NEW s \in {"blocked", "ready", "active", "completed", "failed"},
           NEW n, n = [m EXCEPT !.state = s]
    PROVE  /\ n \in Milestones /\ n.state = s /\ n.delivered = m.delivered
           /\ n.consumed = m.consumed /\ n.labor = m.labor
BY DEF Milestones

\* Milestones change their states: none that was completed, and to ready or at
\* work only after those it waits for.
LEMMA MilestonesStep ==
    ASSUME NEW p \in Projects, NEW project, ProjectOK(p, project), NEW n,
           n = [j \in DOMAIN Plan(p) |-> n[j]],
           \A j \in DOMAIN Plan(p) :
               /\ n[j] \in Milestones /\ n[j].delivered = project.milestones[j].delivered
               /\ n[j].consumed = project.milestones[j].consumed
               /\ n[j].labor = project.milestones[j].labor,
           \A j \in DOMAIN Plan(p) :
               project.milestones[j].state = "completed" => n[j].state = "completed",
           \A j \in DOMAIN Plan(p) :
               n[j].state = "completed" => Exact(p, j, project.milestones[j]),
           \A j \in DOMAIN Plan(p) : n[j].state \in {"ready", "active"} =>
               project.milestones[j].state \in {"ready", "active"} \/ Waited(p, n, j),
           NEW s \in ProjectStates \ {"completed"}, NEW r, r = [state |-> s, milestones |-> n]
    PROVE  ProjectOK(p, r)
<1>. DEFINE ms == project.milestones
<1>1. \A j \in DOMAIN Plan(p) : MilestoneOK(p, ms, j)
  BY DEF ProjectOK
<1>2. ASSUME NEW j \in DOMAIN Plan(p)
      PROVE  MilestoneOK(p, n, j)
  <2>1. Waited(p, ms, j) => Waited(p, n, j)
    BY PlanFacts DEF Waited
  <2>2. \A g \in Resources : /\ n[j].consumed[g] =< n[j].delivered[g]
                             /\ n[j].delivered[g] =< Plan(p)[j].needs[g]
    BY <1>1 DEF MilestoneOK
  <2>3. n[j].state = "completed" => Exact(p, j, n[j])
    BY DEF Exact
  <2>4. (\/ n[j].labor > 0 \/ n[j].state \in {"ready", "active"}
         \/ \E g \in Resources : n[j].consumed[g] > 0) => Waited(p, n, j)
    BY <1>1, <2>1 DEF MilestoneOK
  <2>. QED
    BY <2>2, <2>3, <2>4 DEF MilestoneOK
<1>3. r.state = s /\ r.milestones = n
  OBVIOUS
<1>. QED
  BY <1>2, <1>3 DEF ProjectOK

\* A call that writes the states of a project and of its milestones.
LEMMA MilestonesStepKeeps ==
    ASSUME NEW calls, NEW c, NEW d, KernelOK(calls, c), IsAccounting(c, d),
           NEW p \in DOMAIN c.projects, NEW n,
           n = [j \in DOMAIN Plan(p) |-> n[j]],
           \A j \in DOMAIN Plan(p) :
               /\ n[j] \in Milestones /\ n[j].delivered = c.projects[p].milestones[j].delivered
               /\ n[j].consumed = c.projects[p].milestones[j].consumed
               /\ n[j].labor = c.projects[p].milestones[j].labor,
           \A j \in DOMAIN Plan(p) :
               c.projects[p].milestones[j].state = "completed" => n[j].state = "completed",
           \A j \in DOMAIN Plan(p) :
               n[j].state = "completed" => Exact(p, j, c.projects[p].milestones[j]),
           \A j \in DOMAIN Plan(p) : n[j].state \in {"ready", "active"} =>
               c.projects[p].milestones[j].state \in {"ready", "active"} \/ Waited(p, n, j),
           NEW s \in ProjectStates \ {"completed"}, s = "active" => c.projects[p].state = "active",
           c.projects[p].state # "completed", NEW e, e = Written(c, d, p, s, n)
    PROVE  KernelOK(calls, e)
<1>. DEFINE project == c.projects[p]
            r == [state |-> s, milestones |-> n]
<1>1. p \in Projects /\ ProjectOK(p, project)
  BY ProjectFacts
<1>2. ProjectOK(p, r)
  <2>1. \A j \in DOMAIN Plan(p) :
               /\ n[j] \in Milestones /\ n[j].delivered = project.milestones[j].delivered
               /\ n[j].consumed = project.milestones[j].consumed
               /\ n[j].labor = project.milestones[j].labor
    OBVIOUS
  <2>2. \A j \in DOMAIN Plan(p) :
               project.milestones[j].state = "completed" => n[j].state = "completed"
    OBVIOUS
  <2>3. \A j \in DOMAIN Plan(p) : n[j].state = "completed" => Exact(p, j, project.milestones[j])
    OBVIOUS
  <2>4. \A j \in DOMAIN Plan(p) : n[j].state \in {"ready", "active"} =>
               project.milestones[j].state \in {"ready", "active"} \/ Waited(p, n, j)
    OBVIOUS
  <2>5. r = [state |-> s, milestones |-> n]
    OBVIOUS
  <2>. HIDE DEF project, r
  <2>. QED
    BY <1>1, <2>1, <2>2, <2>3, <2>4, <2>5, MilestonesStep
<1>3. e = [d EXCEPT !.projects = [c.projects EXCEPT ![p] = r]] /\ r.state = s
  BY DEF Written
<1>. HIDE DEF r
<1>. QED
  BY <1>2, <1>3, ProjectStepKeeps

\* completeProjectMilestone, and what it unblocks.
LEMMA CompleteMilestoneKeeps ==
    ASSUME NEW calls, NEW c, KernelOK(calls, c), NEW p \in DOMAIN c.projects,
           NEW i \in DOMAIN Plan(p),
           CanCompleteMilestone(c, p, i)
    PROVE  KernelOK(calls, CompleteMilestone(c, p, i))
<1>. DEFINE ms == c.projects[p].milestones
            w == [ms EXCEPT ![i].state = "completed"]
            Unblocked(j) == w[j].state = "blocked" /\ \A d \in Plan(p)[j].deps : w[d].state = "completed"
            n == [j \in DOMAIN w |-> IF Unblocked(j) THEN [w[j] EXCEPT !.state = "ready"] ELSE w[j]]
<1>1. IsAccounting(c, c)
  BY DEF KernelOK, IsAccounting, SameSociety
<1>2. c.projects[p].state = "active" /\ ms[i].state # "blocked" /\ Exact(p, i, ms[i])
  BY DEF CanCompleteMilestone, Is
<1>3. CompleteMilestone(c, p, i) = [c EXCEPT !.projects[p].milestones = n]
  BY SMTT(30) DEF CompleteMilestone
<1>4. /\ ms = [j \in DOMAIN Plan(p) |-> ms[j]] /\ p \in Projects
      /\ \A j \in DOMAIN Plan(p) : MilestoneOK(p, ms, j) /\ ms[j] \in Milestones
  BY ProjectFacts DEF ProjectOK, MilestoneOK
<1>. HIDE DEF ms
<1>5. /\ w = [j \in DOMAIN Plan(p) |-> w[j]] /\ w[i] = [ms[i] EXCEPT !.state = "completed"]
      /\ \A j \in DOMAIN Plan(p) : j # i => w[j] = ms[j]
  BY <1>4
<1>. HIDE DEF w
<1>6. \A j \in DOMAIN Plan(p) :
         /\ w[j] \in Milestones /\ w[j].delivered = ms[j].delivered
         /\ w[j].consumed = ms[j].consumed /\ w[j].labor = ms[j].labor
         /\ (ms[j].state = "completed" => w[j].state = "completed")
         /\ (w[j].state = "completed" => Exact(p, j, ms[j]))
         /\ (w[j].state # "completed" => w[j].state = ms[j].state)
  <2>1. /\ w[i] \in Milestones /\ w[i].state = "completed" /\ w[i].delivered = ms[i].delivered
        /\ w[i].consumed = ms[i].consumed /\ w[i].labor = ms[i].labor
    BY <1>4, <1>5, MilestoneStateWrites
  <2>. QED
    BY <1>2, <1>4, <1>5, <2>1 DEF MilestoneOK
<1>7. ASSUME NEW j \in DOMAIN Plan(p)
      PROVE  /\ n[j] \in Milestones /\ n[j].delivered = ms[j].delivered
             /\ n[j].consumed = ms[j].consumed /\ n[j].labor = ms[j].labor
             /\ (ms[j].state = "completed" => n[j].state = "completed")
             /\ (n[j].state = "completed" => w[j].state = "completed")
             /\ (w[j].state = "completed" => n[j].state = "completed")
             /\ n[j].state \in {"ready", "active"} =>
                   ms[j].state \in {"ready", "active"} \/ Unblocked(j)
  <2>1. CASE Unblocked(j)
    <3>1. n[j] = [w[j] EXCEPT !.state = "ready"]
      BY <1>5, <2>1
    <3>. HIDE DEF n
    <3>2. /\ n[j] \in Milestones /\ n[j].state = "ready" /\ n[j].delivered = w[j].delivered
          /\ n[j].consumed = w[j].consumed /\ n[j].labor = w[j].labor
      BY <1>6, <3>1, MilestoneStateWrites
    <3>. QED
      BY <1>6, <2>1, <3>2
  <2>2. CASE ~ Unblocked(j)
    <3>1. n[j] = w[j]
      BY <1>5, <2>2
    <3>. HIDE DEF n, Unblocked
    <3>. QED
      BY <1>6, <3>1
  <2>. QED
    BY <2>1, <2>2
<1>8. n = [j \in DOMAIN Plan(p) |-> n[j]]
  BY <1>5
<1>. HIDE DEF n
<1>9. \A j \in DOMAIN Plan(p) : n[j].state \in {"ready", "active"} =>
          ms[j].state \in {"ready", "active"} \/ Waited(p, n, j)
  BY <1>4, <1>7, PlanFacts DEF Waited
<1>10. \A j \in DOMAIN Plan(p) : n[j].state = "completed" => Exact(p, j, ms[j])
  BY <1>6, <1>7
<1>11. CompleteMilestone(c, p, i) = Written(c, c, p, "active", n)
  BY <1>1, <1>2, <1>3, MilestonesWritten
<1>12. "active" \in ProjectStates \ {"completed"}
  BY DEF ProjectStates
<1>13. \A j \in DOMAIN Plan(p) :
           /\ n[j] \in Milestones /\ n[j].delivered = ms[j].delivered
           /\ n[j].consumed = ms[j].consumed /\ n[j].labor = ms[j].labor
  BY <1>7
<1>14. \A j \in DOMAIN Plan(p) : ms[j].state = "completed" => n[j].state = "completed"
  BY <1>7
<1>. QED
  BY <1>1, <1>2, <1>8, <1>9, <1>10, <1>11, <1>12, <1>13, <1>14, MilestonesStepKeeps DEF ms

\* failProject: what was not completed has failed.
LEMMA FailProjectKeeps ==
    ASSUME NEW calls, NEW c, KernelOK(calls, c), NEW p \in Projects, NEW at, CanEnd(c, p, at)
    PROVE  KernelOK(calls, FailProject(c, p, at))
<1>. DEFINE d == [c EXCEPT !.time = at]
            ms == c.projects[p].milestones
            n == [j \in DOMAIN ms |-> IF ms[j].state = "completed" THEN ms[j]
                                      ELSE [ms[j] EXCEPT !.state = "failed"]]
<1>1. IsAccounting(c, d) /\ IsCivilization(c)
  BY TableIsAccounting DEF KernelOK
<1>2. p \in DOMAIN c.projects /\ c.projects[p].state # "completed"
  BY SMTT(30) DEF CanEnd, Is
<1>3. /\ ms = [j \in DOMAIN Plan(p) |-> ms[j]]
      /\ \A j \in DOMAIN Plan(p) : MilestoneOK(p, ms, j) /\ ms[j] \in Milestones
  BY <1>2, ProjectFacts DEF ProjectOK, MilestoneOK
<1>4. FailProject(c, p, at) = WriteAll(d, p, "failed", n)
  BY <1>1, <1>2, ProjectFacts DEF FailProject, WriteAll, IsCivilization, Tables
<1>. HIDE DEF ms
<1>5. ASSUME NEW j \in DOMAIN Plan(p)
      PROVE  /\ n[j] \in Milestones /\ n[j].delivered = ms[j].delivered
             /\ n[j].consumed = ms[j].consumed /\ n[j].labor = ms[j].labor
             /\ (ms[j].state = "completed" => n[j].state = "completed")
             /\ (n[j].state = "completed" => ms[j].state = "completed")
             /\ n[j].state \in {"completed", "failed"}
  <2>1. CASE ms[j].state = "completed"
    BY <1>3, <2>1
  <2>2. CASE ms[j].state # "completed"
    <3>1. n[j] = [ms[j] EXCEPT !.state = "failed"]
      BY <1>3, <2>2
    <3>. HIDE DEF n
    <3>2. /\ n[j] \in Milestones /\ n[j].state = "failed" /\ n[j].delivered = ms[j].delivered
          /\ n[j].consumed = ms[j].consumed /\ n[j].labor = ms[j].labor
      BY <1>3, <3>1, MilestoneStateWrites
    <3>. QED
      BY <2>2, <3>2
  <2>. QED
    BY <2>1, <2>2
<1>6. n = [j \in DOMAIN Plan(p) |-> n[j]]
  BY <1>3
<1>. HIDE DEF n, d
<1>7. FailProject(c, p, at) = Written(c, d, p, "failed", n)
  BY <1>1, <1>2, <1>4, ProjectWritten
<1>8. "failed" \in ProjectStates \ {"completed"}
  BY DEF ProjectStates
<1>9. \A j \in DOMAIN Plan(p) : n[j].state = "completed" => Exact(p, j, ms[j])
  BY <1>3, <1>5 DEF MilestoneOK
<1>10. \A j \in DOMAIN Plan(p) :
           /\ n[j] \in Milestones /\ n[j].delivered = ms[j].delivered
           /\ n[j].consumed = ms[j].consumed /\ n[j].labor = ms[j].labor
  BY <1>5
<1>11. \A j \in DOMAIN Plan(p) : ms[j].state = "completed" => n[j].state = "completed"
  BY <1>5
<1>12. \A j \in DOMAIN Plan(p) : n[j].state \in {"ready", "active"} =>
          ms[j].state \in {"ready", "active"} \/ Waited(p, n, j)
  BY <1>5
<1>. QED
  BY <1>1, <1>2, <1>6, <1>7, <1>8, <1>9, <1>10, <1>11, <1>12, MilestonesStepKeeps DEF ms

\* materializeProjectBuilding, at the project's site.
LEMMA MaterializeKeeps ==
    ASSUME NEW calls, NEW c, KernelOK(calls, c), NEW p \in Projects, NEW kind \in Kinds, NEW at,
           CanMaterialize(c, p, at)
    PROVE  KernelOK(calls, Materialize(c, p, kind, at))
<1>. DEFINE site == ProjectInfo[p].site
            b == With(c.built, p, kind)
            k == [c.kinds EXCEPT ![site] = @ \cup {kind}]
            e == [c EXCEPT !.time = at, !.built = b, !.kinds = k]
<1>1. site \in Sites /\ Done(c.projects, p) /\ IsCivilization(c)
  BY CatalogueAssumption DEF ValidCatalogue, CanMaterialize, Is, Done, KernelOK
<1>2. Materialize(c, p, kind, at) = e
  BY <1>1 DEF Materialize, IsCivilization, Tables
<1>3. Buildings(c.built, c.kinds, c.projects)
  BY DEF KernelOK
<1>4. /\ k \in [Sites -> SUBSET Kinds] /\ kind \in k[site]
      /\ \A x \in Sites : c.kinds[x] \subseteq k[x]
  BY <1>1, <1>3 DEF Buildings
<1>5. /\ b = [x \in DOMAIN b |-> b[x]] /\ DOMAIN b = DOMAIN c.built \cup {p} /\ b[p] = kind
      /\ \A x \in DOMAIN c.built : x # p => b[x] = c.built[x]
  BY DEF With
<1>. HIDE DEF b, k
<1>6. ASSUME NEW x \in DOMAIN b
      PROVE  Done(c.projects, x) /\ b[x] \in k[ProjectInfo[x].site]
  <2>1. CASE x = p
    BY <1>1, <1>4, <1>5, <2>1
  <2>2. CASE x # p
    <3>1. x \in DOMAIN c.built /\ Done(c.projects, x) /\ b[x] \in c.kinds[ProjectInfo[x].site]
      BY <1>3, <1>5, <2>2 DEF Buildings
    <3>2. ProjectInfo[x].site = site \/ k[ProjectInfo[x].site] = c.kinds[ProjectInfo[x].site]
      BY <1>3 DEF Buildings, k
    <3>3. c.kinds[site] \subseteq k[site]
      BY <1>1, <1>4
    <3>. QED
      BY <3>1, <3>2, <3>3
  <2>. QED
    BY <2>1, <2>2
<1>7. Buildings(b, k, c.projects)
  BY <1>4, <1>5, <1>6 DEF Buildings
<1>8. /\ IsCivilization(e) /\ e.stocks = c.stocks /\ e.projects = c.projects
      /\ e.citizens = c.citizens /\ e.households = c.households /\ e.settlements = c.settlements
      /\ e.migrations = c.migrations /\ e.settled = c.settled /\ e.foundings = c.foundings
      /\ e.built = b /\ e.kinds = k /\ e.journeys = c.journeys
  BY <1>1 DEF IsCivilization, Tables
<1>. HIDE DEF e
<1>9. KernelOK(calls, e)
  BY <1>7, <1>8 DEF KernelOK
<1>. QED
  BY <1>2, <1>9

-----------------------------------------------------------------------------
(* Citizens, households, migrations and foundings *)

\* A call that leaves the stocks, the projects and the buildings alone.
LEMMA SocietyKeeps ==
    ASSUME NEW calls, NEW c, NEW e, KernelOK(calls, c), IsCivilization(e), e.stocks = c.stocks,
           e.projects = c.projects, e.kinds = c.kinds, e.built = c.built,
           DOMAIN e.journeys \subseteq DOMAIN e.migrations,
           HomesOK(calls, e.citizens, e.households, e.settlements),
           Journeys(calls, e.citizens, e.migrations, e.settled),
           Colonies(e.migrations, e.foundings, e.settled, e.projects, e.settlements)
    PROVE  KernelOK(calls, e)
BY DEF KernelOK

\* What the invariant says of the people, apart from the rest.
LEMMA SocietyFacts ==
    ASSUME NEW calls, NEW c, KernelOK(calls, c)
    PROVE  /\ IsCivilization(c) /\ DOMAIN c.journeys \subseteq DOMAIN c.migrations
           /\ HomesOK(calls, c.citizens, c.households, c.settlements)
           /\ Journeys(calls, c.citizens, c.migrations, c.settled)
           /\ Colonies(c.migrations, c.foundings, c.settled, c.projects, c.settlements)
BY DEF KernelOK

\* A call that writes citizens and households, and the time.
WritesHomes(c, e, citizens, households) ==
    /\ IsCivilization(e) /\ e.stocks = c.stocks /\ e.projects = c.projects
    /\ e.citizens = citizens /\ e.households = households
    /\ e.migrations = c.migrations /\ e.foundings = c.foundings /\ e.settled = c.settled
    /\ e.settlements = c.settlements /\ e.kinds = c.kinds /\ e.built = c.built
    /\ e.journeys = c.journeys

\* Such a call, when it leaves homes in order and sends nobody on the way.
LEMMA HomesKeep ==
    ASSUME NEW calls, NEW c, NEW e, KernelOK(calls, c), NEW citizens, NEW households,
           WritesHomes(c, e, citizens, households),
           HomesOK(calls, citizens, households, c.settlements),
           \A p \in Citizens : citizens[p].residence = "travelling" =>
                                   c.citizens[p].residence = "travelling"
    PROVE  KernelOK(calls, e)
<1>1. Journeys(calls, citizens, c.migrations, c.settled)
  BY SocietyFacts DEF Journeys
<1>. QED
  BY <1>1 DEF KernelOK, WritesHomes

\* formHousehold: of residents of one settlement who have none.
LEMMA FormHouseholdKeeps ==
    ASSUME NEW calls, NEW c, KernelOK(calls, c), NEW h \in Households, NEW a,
           NEW members \in SUBSET Citizens,
           CanFormHousehold(c, h, a, members)
    PROVE  KernelOK(calls, FormHousehold(c, h, a, members))
<1>. DEFINE x == [p \in Citizens |-> IF p \in members THEN [c.citizens[p] EXCEPT !.household = h]
                                     ELSE c.citizens[p]]
            k == [settlement |-> a, members |-> members]
            y == With(c.households, h, k)
<1>1. IsAccounting(c, c) /\ HomesOK(calls, c.citizens, c.households, c.settlements)
  BY DEF KernelOK, IsAccounting, SameSociety
<1>2. /\ h \notin DOMAIN c.households /\ members # {} /\ a \in c.settlements
      /\ \A p \in members : /\ c.citizens[p].residence = "resident"
                            /\ c.citizens[p].settlement = a /\ c.citizens[p].household = None
  BY DEF CanFormHousehold, Resident
<1>3. WritesHomes(c, FormHousehold(c, h, a, members), x, y)
  <2>1. FormHousehold(c, h, a, members) = [c EXCEPT !.households = y, !.citizens = x]
    BY <1>1 DEF FormHousehold, IsAccounting, IsCivilization, Tables
  <2>. HIDE DEF x, y
  <2>. QED
    BY <1>1, <2>1 DEF WritesHomes, IsAccounting, IsCivilization, Tables
<1>4. /\ y = [z \in DOMAIN y |-> y[z]] /\ DOMAIN y = DOMAIN c.households \cup {h} /\ y[h] = k
      /\ \A z \in DOMAIN c.households : y[z] = c.households[z]
  BY <1>2 DEF With
<1>5. \A p \in Citizens : c.citizens[p] \in People
  BY <1>1 DEF HomesOK
<1>6. ASSUME NEW p \in Citizens
      PROVE  /\ x[p] \in People /\ x[p].residence = c.citizens[p].residence
             /\ x[p].settlement = c.citizens[p].settlement
             /\ p \in members => x[p].household = h
             /\ p \notin members => x[p].household = c.citizens[p].household
  BY <1>5 DEF People
<1>7. x \in [Citizens -> People]
  BY <1>6
<1>. HIDE DEF x, y
<1>8. ASSUME NEW p \in Citizens
      PROVE  Lives(calls, x, y, c.settlements, p)
  <2>1. Lives(calls, c.citizens, c.households, c.settlements, p)
    BY <1>1 DEF HomesOK
  <2>2. CASE p \in members
    BY <1>2, <1>4, <1>6, <2>1, <2>2 DEF Lives
  <2>3. CASE p \notin members
    BY <1>4, <1>6, <2>1, <2>3 DEF Lives
  <2>. QED
    BY <2>2, <2>3
<1>9. ASSUME NEW z \in DOMAIN y
      PROVE  Household(calls, x, y, z)
  <2>1. CASE z = h
    BY <1>2, <1>4, <1>6, <2>1 DEF Household
  <2>2. CASE z # h
    <3>1. z \in DOMAIN c.households /\ y[z] = c.households[z] /\ z # None
      BY <1>1, <1>4, <2>2, KernelAssumption DEF HomesOK
    <3>2. Household(calls, c.citizens, c.households, z)
      BY <1>1, <3>1 DEF HomesOK
    <3>3. y[z].members \subseteq Citizens
          /\ (calls = "linked" => \A p \in y[z].members : p \notin members)
      BY <1>2, <3>1, <3>2 DEF Household
    <3>4. calls = "linked" => \A p \in y[z].members : x[p].household = z
      BY <1>6, <3>1, <3>2, <3>3 DEF Household
    <3>. QED
      BY <3>1, <3>2, <3>3, <3>4 DEF Household
  <2>. QED
    BY <2>1, <2>2
<1>10. HomesOK(calls, x, y, c.settlements)
  BY <1>1, <1>4, <1>7, <1>8, <1>9 DEF HomesOK
<1>11. \A p \in Citizens : x[p].residence = "travelling" => c.citizens[p].residence = "travelling"
  BY <1>6
<1>. QED
  BY <1>3, <1>10, <1>11, HomesKeep

\* leaveHousehold: the last one to leave dissolves it.
LEMMA LeaveHouseholdKeeps ==
    ASSUME NEW calls, NEW c, KernelOK(calls, c), NEW p \in Citizens, CanLeaveHousehold(c, p)
    PROVE  KernelOK(calls, LeaveHousehold(c, p))
<1>. DEFINE h == c.citizens[p].household
            rest == c.households[h].members \ {p}
            x == [c.citizens EXCEPT ![p].household = None]
            y == IF rest = {} THEN Without(c.households, {h})
                 ELSE [c.households EXCEPT ![h].members = rest]
<1>1. IsAccounting(c, c) /\ HomesOK(calls, c.citizens, c.households, c.settlements)
  BY DEF KernelOK, IsAccounting, SameSociety
<1>2. /\ h \in DOMAIN c.households /\ Household(calls, c.citizens, c.households, h)
  BY <1>1 DEF CanLeaveHousehold, HomesOK
<1>3. WritesHomes(c, LeaveHousehold(c, p), x, y)
  <2>1. LeaveHousehold(c, p) = [c EXCEPT !.citizens = x, !.households = y]
    BY <1>1 DEF LeaveHousehold, IsAccounting, IsCivilization, Tables
  <2>. HIDE DEF x, y
  <2>. QED
    BY <1>1, <2>1 DEF WritesHomes, IsAccounting, IsCivilization, Tables
<1>4. /\ c.citizens \in [Citizens -> People]
      /\ c.households = [z \in DOMAIN c.households |-> c.households[z]]
  BY <1>1 DEF HomesOK
<1>5. /\ x \in [Citizens -> People] /\ x[p].household = None
      /\ x[p].residence = c.citizens[p].residence
      /\ x[p].settlement = c.citizens[p].settlement
      /\ \A q \in Citizens : q # p => x[q] = c.citizens[q]
  BY <1>2, <1>4 DEF People
<1>6. /\ y = [z \in DOMAIN y |-> y[z]] /\ DOMAIN y \subseteq DOMAIN c.households
      /\ \A z \in DOMAIN c.households : z # h => z \in DOMAIN y /\ y[z] = c.households[z]
      /\ h \in DOMAIN y => rest # {} /\ y[h] = [c.households[h] EXCEPT !.members = rest]
      /\ rest # {} => h \in DOMAIN y
  <2>. HIDE DEF h, rest
  <2>1. CASE rest = {}
    BY <1>2, <1>4, <2>1 DEF Without
  <2>2. CASE rest # {}
    BY <1>2, <1>4, <2>2, SMTT(40)
  <2>. QED
    BY <2>1, <2>2
<1>7. h \in DOMAIN y => y[h].members = rest /\ y[h].settlement = c.households[h].settlement
                        /\ y[h] = [settlement |-> y[h].settlement, members |-> y[h].members]
  BY <1>2, <1>6 DEF Household
<1>0. h = c.citizens[p].household /\ rest = c.households[h].members \ {p}
  OBVIOUS
<1>. HIDE DEF x, y, h, rest
<1>8. ASSUME NEW q \in Citizens
      PROVE  Lives(calls, x, y, c.settlements, q)
  <2>1. Lives(calls, c.citizens, c.households, c.settlements, q)
    BY <1>1 DEF HomesOK
  <2>2. CASE q = p
    BY <1>5, <2>1, <2>2, SMTT(30) DEF Lives
  <2>3. CASE q # p /\ c.citizens[q].household = h
    <3>1. calls = "linked" /\ h # None => q \in rest
      BY <1>0, <1>2, <2>1, <2>3, SMTT(30) DEF Lives
    <3>. QED
      BY <1>2, <1>5, <1>6, <1>7, <2>1, <2>3, <3>1 DEF Lives
  <2>4. CASE q # p /\ c.citizens[q].household # h
    BY <1>0, <1>5, <1>6, <2>1, <2>4 DEF Lives
  <2>. QED
    BY <2>2, <2>3, <2>4
<1>9. ASSUME NEW z \in DOMAIN y
      PROVE  Household(calls, x, y, z)
  <2>1. CASE z = h
    <3>1. \A q \in rest : /\ q \in Citizens /\ q # p
                          /\ calls = "linked" => c.citizens[q].household = h
      BY <1>0, <1>2 DEF Household
    <3>2. calls = "linked" => \A q \in rest : x[q].household = h
      BY <1>5, <3>1
    <3>. QED
      BY <1>6, <1>7, <2>1, <3>1, <3>2, SMTT(30) DEF Household
  <2>2. CASE z # h
    <3>1. z \in DOMAIN c.households /\ y[z] = c.households[z]
      BY <1>6, <2>2
    <3>2. Household(calls, c.citizens, c.households, z)
      BY <1>1, <3>1 DEF HomesOK
    <3>3. calls = "linked" => p \notin c.households[z].members
      BY <1>0, <2>2, <3>2 DEF Household
    <3>. QED
      BY <1>5, <3>1, <3>2, <3>3, SMTT(30) DEF Household
  <2>. QED
    BY <2>1, <2>2
<1>10. HomesOK(calls, x, y, c.settlements)
  BY <1>1, <1>5, <1>6, <1>8, <1>9 DEF HomesOK
<1>11. \A q \in Citizens : x[q].residence = "travelling" => c.citizens[q].residence = "travelling"
  BY <1>5
<1>. QED
  BY <1>3, <1>10, <1>11, HomesKeep

\* departCitizen and arriveCitizen.
LEMMA MovesKeep ==
    ASSUME NEW calls, NEW c, KernelOK(calls, c), NEW p \in Citizens, NEW a, NEW at
    PROVE  /\ CanDepart(c, p, at) => KernelOK(calls, DepartCitizen(c, p, at))
           /\ CanArrive(c, p, a, at) => KernelOK(calls, ArriveCitizen(c, p, a, at))
<1>1. IsCivilization(c) /\ HomesOK(calls, c.citizens, c.households, c.settlements)
  BY DEF KernelOK
<1>2. c.citizens \in [Citizens -> People] /\ Lives(calls, c.citizens, c.households, c.settlements, p)
  BY <1>1 DEF HomesOK
<1>3. ASSUME NEW r \in {"resident", "departed"}, NEW s \in c.settlements,
             calls = "linked" => c.citizens[p].household = None,
             NEW x, x \in [Citizens -> People], x[p].residence = r, x[p].settlement = s,
             x[p].household = c.citizens[p].household,
           \A q \in Citizens : q # p => x[q] = c.citizens[q],
             NEW e, WritesHomes(c, e, x, c.households)
      PROVE  KernelOK(calls, e)
  <2>2. \A q \in Citizens : Lives(calls, x, c.households, c.settlements, q)
    BY <1>1, <1>3 DEF HomesOK, Lives
  <2>3. ASSUME NEW h \in DOMAIN c.households
        PROVE  Household(calls, x, c.households, h)
    <3>1. Household(calls, c.citizens, c.households, h) /\ h # None
      BY <1>1, KernelAssumption DEF HomesOK
    <3>. QED
      BY <1>3, <3>1 DEF Household
  <2>4. HomesOK(calls, x, c.households, c.settlements)
    BY <1>1, <1>3, <2>2, <2>3 DEF HomesOK
  <2>5. \A q \in Citizens : x[q].residence = "travelling" => c.citizens[q].residence = "travelling"
    BY <1>3
  <2>. QED
    BY <1>3, <2>4, <2>5, HomesKeep
<1>4. ASSUME CanDepart(c, p, at)
      PROVE  KernelOK(calls, DepartCitizen(c, p, at))
  <2>. DEFINE x == [c.citizens EXCEPT ![p].residence = "departed"]
              s == c.citizens[p].settlement
  <2>1. c.citizens[p].household = None /\ s \in c.settlements
    BY <1>2, <1>4 DEF CanDepart, IsFreeToGo, Lives
  <2>2. /\ x \in [Citizens -> People] /\ x[p].residence = "departed" /\ x[p].settlement = s
        /\ x[p].household = None /\ \A q \in Citizens : q # p => x[q] = c.citizens[q]
    BY <1>2, <2>1 DEF People
  <2>3. WritesHomes(c, DepartCitizen(c, p, at), x, c.households)
    <3>1. DepartCitizen(c, p, at) = [c EXCEPT !.time = at, !.citizens = x]
      BY <1>1 DEF DepartCitizen, IsCivilization, Tables
    <3>. HIDE DEF x
    <3>. QED
      BY <1>1, <3>1 DEF WritesHomes, IsCivilization, Tables
  <2>. HIDE DEF x, s
  <2>. QED
    BY <1>3, <2>1, <2>2, <2>3
<1>5. ASSUME CanArrive(c, p, a, at)
      PROVE  KernelOK(calls, ArriveCitizen(c, p, a, at))
  <2>. DEFINE e == ArriveCitizen(c, p, a, at)
              x == e.citizens
  <2>. DEFINE h == c.citizens[p].household
  <2>1. /\ calls = "linked" => h = None
        /\ a \in c.settlements /\ a \in Settlements
    BY <1>1, <1>2, <1>5 DEF CanArrive, Lives, HomesOK
  <2>2. x[p] = [residence |-> "resident", settlement |-> a, household |-> h]
    <3>1. c.citizens[p] = [residence |-> c.citizens[p].residence,
                           settlement |-> c.citizens[p].settlement, household |-> h]
      BY <1>2 DEF People
    <3>2. p \in DOMAIN c.citizens
      BY <1>2
    <3>3. "citizens" \in DOMAIN c
      BY <1>1 DEF IsCivilization, Tables
    <3>. DEFINE b == [c EXCEPT !.time = at, !.citizens[p].residence = "resident"]
                w == [residence |-> "resident", settlement |-> c.citizens[p].settlement,
                      household |-> h]
    <3>4. "citizens" \in DOMAIN b /\ p \in DOMAIN b.citizens /\ b.citizens[p] = w
      BY <3>1, <3>2, <3>3
    <3>5. e = [b EXCEPT !.citizens[p].settlement = a]
      BY DEF ArriveCitizen
    <3>. HIDE DEF b, e
    <3>6. x[p] = [w EXCEPT !.settlement = a]
      BY <3>4, <3>5
    <3>. QED
      BY <3>6
  <2>3. x = [q \in Citizens |-> IF q = p THEN x[p] ELSE c.citizens[q]]
    BY <1>1, <1>2 DEF ArriveCitizen, IsCivilization, Tables
  <2>4. WritesHomes(c, e, x, c.households)
    BY <1>1, ZenonT(60) DEF WritesHomes, ArriveCitizen, IsCivilization, Tables
  <2>. HIDE DEF e, x
  <2>5. /\ x \in [Citizens -> People] /\ x[p].residence = "resident" /\ x[p].settlement = a
        /\ x[p].household = h /\ \A q \in Citizens : q # p => x[q] = c.citizens[q]
    BY <1>2, <2>1, <2>2, <2>3 DEF People
  <2>. QED
    BY <1>3, <2>1, <2>4, <2>5 DEF e
<1>. QED
  BY <1>4, <1>5

\* A call that writes what is known of the journeys.
WritesJourneys(c, e, citizens, migrations) ==
    /\ IsCivilization(e) /\ e.stocks = c.stocks /\ e.projects = c.projects
    /\ e.citizens = citizens /\ e.households = c.households
    /\ e.migrations = migrations /\ e.foundings = c.foundings /\ e.settled = c.settled
    /\ e.settlements = c.settlements /\ e.kinds = c.kinds /\ e.built = c.built

\* A migration is registered, leaves or arrives: the others stay, it is not back
\* to planned, and who travels with it is free to go.
LEMMA JourneysKeep ==
    ASSUME NEW calls, NEW c, NEW e, KernelOK(calls, c), NEW citizens, NEW migrations,
           NEW m \in Migrations,
           WritesJourneys(c, e, citizens, migrations),
           DOMAIN e.journeys \subseteq DOMAIN migrations,
           DOMAIN migrations = DOMAIN c.migrations \cup {m},
           migrations = [x \in DOMAIN migrations |-> migrations[x]],
           \A x \in DOMAIN c.migrations : x # m => migrations[x] = c.migrations[x],
           migrations[m] \in {"planned", "travelling", "arrived"},
           m \in DOMAIN c.migrations => /\ c.migrations[m] # "arrived"
                                        /\ c.migrations[m] # "planned" => migrations[m] # "planned",
           citizens \in [Citizens -> People],
           \A p \in Citizens :
               \/ citizens[p] = c.citizens[p]
               \/ /\ m \in DOMAIN migrations /\ migrations[m] # "planned"
                  /\ p \in MigrationInfo[m].citizens
                  /\ c.citizens[p].household = None /\ citizens[p].household = None
                  /\ citizens[p].settlement = c.citizens[p].settlement
    PROVE  KernelOK(calls, e)
<1>1. /\ HomesOK(calls, c.citizens, c.households, c.settlements)
      /\ Journeys(calls, c.citizens, c.migrations, c.settled)
      /\ Colonies(c.migrations, c.foundings, c.settled, c.projects, c.settlements)
  BY SocietyFacts
<1>2. \A p \in Citizens : /\ citizens[p].household = c.citizens[p].household
                          /\ citizens[p].settlement = c.citizens[p].settlement
  OBVIOUS
<1>3. HomesOK(calls, citizens, c.households, c.settlements)
  <2>1. ASSUME NEW p \in Citizens
        PROVE  Lives(calls, citizens, c.households, c.settlements, p)
    <3>1. Lives(calls, c.citizens, c.households, c.settlements, p)
      BY <1>1 DEF HomesOK
    <3>. QED
      BY <3>1 DEF Lives
  <2>2. ASSUME NEW h \in DOMAIN c.households
        PROVE  Household(calls, citizens, c.households, h)
    <3>1. Household(calls, c.citizens, c.households, h)
      BY <1>1 DEF HomesOK
    <3>. QED
      BY <1>2, <3>1 DEF Household
  <2>. QED
    BY <1>1, <2>1, <2>2 DEF HomesOK
<1>4. \A f \in c.settled : /\ FoundingInfo[f].migration \in DOMAIN c.migrations
                           /\ c.migrations[FoundingInfo[f].migration] = "arrived"
  BY <1>1 DEF Colonies, Founding
<1>5. \A x : Underway(c.migrations, c.settled, x) => Underway(migrations, c.settled, x)
  BY DEF Underway
<1>6. migrations[m] # "planned" => Underway(migrations, c.settled, m)
  BY <1>4 DEF Underway
<1>7. Journeys(calls, citizens, migrations, c.settled)
  <2>1. ASSUME calls = "linked", NEW p \in Citizens, citizens[p].residence = "travelling"
        PROVE  \E x \in Migrations :
                  p \in MigrationInfo[x].citizens /\ Underway(migrations, c.settled, x)
    <3>1. CASE citizens[p] = c.citizens[p]
      <4>1. \E x \in Migrations :
               p \in MigrationInfo[x].citizens /\ Underway(c.migrations, c.settled, x)
        BY <1>1, <2>1, <3>1 DEF Journeys
      <4>. QED
        BY <1>5, <4>1
    <3>2. CASE citizens[p] # c.citizens[p]
      BY <1>6, <3>2
    <3>. QED
      BY <3>1, <3>2
  <2>2. /\ DOMAIN migrations \subseteq Migrations
        /\ migrations \in [DOMAIN migrations -> {"planned", "travelling", "arrived"}]
    <3>1. ASSUME NEW x \in DOMAIN migrations
          PROVE  migrations[x] \in {"planned", "travelling", "arrived"}
      BY <1>1 DEF Journeys
    <3>. QED
      BY <1>1, <3>1 DEF Journeys
  <2>. QED
    BY <2>1, <2>2 DEF Journeys
<1>8. Colonies(migrations, c.foundings, c.settled, c.projects, c.settlements)
  <2>1. ASSUME NEW f \in DOMAIN c.foundings
        PROVE  Founding(migrations, c.foundings, c.settled, c.projects, f)
    <3>1. Founding(c.migrations, c.foundings, c.settled, c.projects, f)
      BY <1>1 DEF Colonies
    <3>. QED
      BY <3>1 DEF Founding
  <2>. QED
    BY <1>1, <2>1 DEF Colonies
<1>. QED
  BY <1>3, <1>7, <1>8, SocietyKeeps DEF WritesJourneys

\* The migrations the invariant knows.
LEMMA MigrationFacts ==
    ASSUME NEW calls, NEW c, KernelOK(calls, c)
    PROVE  /\ IsCivilization(c) /\ DOMAIN c.journeys \subseteq DOMAIN c.migrations
           /\ DOMAIN c.migrations \subseteq Migrations /\ c.citizens \in [Citizens -> People]
           /\ c.migrations = [x \in DOMAIN c.migrations |-> c.migrations[x]]
BY SocietyFacts DEF Journeys, HomesOK

\* registerMigration.
LEMMA RegisterMigrationKeeps ==
    ASSUME NEW calls, NEW c, KernelOK(calls, c), NEW m \in Migrations, NEW departure,
           CanRegisterMigration(c, m)
    PROVE  KernelOK(calls, RegisterMigration(c, m, departure))
<1>. DEFINE y == With(c.migrations, m, "planned")
            z == With(c.departures, m, departure)
            e == [c EXCEPT !.migrations = y, !.departures = z]
<1>0. IsCivilization(c)
  BY MigrationFacts
<1>1. RegisterMigration(c, m, departure) = e
  BY DEF RegisterMigration
<1>2. /\ m \notin DOMAIN c.migrations /\ DOMAIN y = DOMAIN c.migrations \cup {m}
      /\ y = [x \in DOMAIN y |-> y[x]] /\ y[m] = "planned"
      /\ \A x \in DOMAIN c.migrations : y[x] = c.migrations[x]
  BY DEF With, CanRegisterMigration
<1>. HIDE DEF y, z
<1>3. /\ WritesJourneys(c, e, c.citizens, y) /\ e.journeys = c.journeys
  BY <1>0 DEF WritesJourneys, IsCivilization, Tables
<1>. HIDE DEF e
<1>4. DOMAIN e.journeys \subseteq DOMAIN y /\ c.citizens \in [Citizens -> People]
  BY <1>2, <1>3, MigrationFacts
<1>5. KernelOK(calls, e)
  BY <1>2, <1>3, <1>4, JourneysKeep
<1>. QED
  BY <1>1, <1>5

\* registerMigrationJourney.
LEMMA RegisterJourneyKeeps ==
    ASSUME NEW calls, NEW c, KernelOK(calls, c), NEW m \in Migrations, CanRegisterJourney(c, m)
    PROVE  KernelOK(calls, RegisterJourney(c, m))
<1>. DEFINE y == With(c.journeys, m, [leg |-> 0, progress |-> 0, done |-> 0])
            e == [c EXCEPT !.journeys = y]
<1>0. IsCivilization(c)
  BY MigrationFacts
<1>1. RegisterJourney(c, m) = e
  BY DEF RegisterJourney
<1>2. DOMAIN y \subseteq DOMAIN c.migrations
  BY MigrationFacts DEF With, CanRegisterJourney
<1>. HIDE DEF y
<1>3. /\ IsCivilization(e) /\ e.stocks = c.stocks /\ e.projects = c.projects
      /\ e.citizens = c.citizens /\ e.households = c.households
      /\ e.migrations = c.migrations /\ e.foundings = c.foundings /\ e.settled = c.settled
      /\ e.settlements = c.settlements /\ e.kinds = c.kinds /\ e.built = c.built /\ e.journeys = y
  BY <1>0 DEF IsCivilization, Tables
<1>. HIDE DEF e
<1>4. KernelOK(calls, e)
  BY <1>2, <1>3, SocietyFacts, SocietyKeeps
<1>. QED
  BY <1>1, <1>4

\* departMigration: with residents who are free to go.
LEMMA DepartMigrationKeeps ==
    ASSUME NEW calls, NEW c, KernelOK(calls, c), NEW m \in Migrations, NEW at,
           CanDepartMigration(c, m, at)
    PROVE  KernelOK(calls, DepartMigration(c, m, at))
<1>. DEFINE x == [p \in Citizens |->
                      IF p \in MigrationInfo[m].citizens
                      THEN [c.citizens[p] EXCEPT !.residence = "travelling"] ELSE c.citizens[p]]
            y == [c.migrations EXCEPT ![m] = "travelling"]
            e == [c EXCEPT !.time = at, !.migrations = y, !.citizens = x]
<1>0. IsCivilization(c)
  BY MigrationFacts
<1>1. DepartMigration(c, m, at) = e
  BY MigrationFacts DEF DepartMigration, IsCivilization, Tables
<1>2. /\ m \in DOMAIN c.migrations /\ c.migrations[m] = "planned"
      /\ \A p \in MigrationInfo[m].citizens : c.citizens[p].household = None
  BY MigrationFacts DEF CanDepartMigration, IsFreeToGo
<1>3. /\ DOMAIN y = DOMAIN c.migrations \cup {m} /\ y = [z \in DOMAIN y |-> y[z]]
      /\ \A z \in DOMAIN c.migrations : z # m => y[z] = c.migrations[z]
      /\ y[m] = "travelling"
  BY <1>2, MigrationFacts
<1>4. ASSUME NEW p \in Citizens
      PROVE  /\ x[p] \in People
             /\ \/ x[p] = c.citizens[p]
                \/ /\ p \in MigrationInfo[m].citizens /\ x[p].household = c.citizens[p].household
                   /\ x[p].settlement = c.citizens[p].settlement
  <2>1. c.citizens[p] \in People
    BY MigrationFacts
  <2>. QED
    BY <2>1 DEF People
<1>5. x \in [Citizens -> People]
  BY <1>4
<1>. HIDE DEF x, y
<1>6. /\ WritesJourneys(c, e, x, y) /\ e.journeys = c.journeys
  BY <1>0 DEF WritesJourneys, IsCivilization, Tables
<1>. HIDE DEF e
<1>7. DOMAIN e.journeys \subseteq DOMAIN y
  BY <1>3, <1>6, MigrationFacts
<1>8. \A p \in Citizens :
          \/ x[p] = c.citizens[p]
          \/ /\ m \in DOMAIN y /\ y[m] # "planned" /\ p \in MigrationInfo[m].citizens
             /\ c.citizens[p].household = None /\ x[p].household = None
             /\ x[p].settlement = c.citizens[p].settlement
  BY <1>2, <1>3, <1>4
<1>9. KernelOK(calls, e)
  BY <1>2, <1>3, <1>5, <1>6, <1>7, <1>8, JourneysKeep
<1>. QED
  BY <1>1, <1>9

\* advanceMigrationJourney.
LEMMA WalkKeeps ==
    ASSUME NEW calls, NEW c, KernelOK(calls, c), NEW m \in Migrations, NEW budget, NEW at,
           CanWalk(c, m, budget, at)
    PROVE  KernelOK(calls, Walk(c, m, budget, at))
<1>. DEFINE j == Walked(m, c.journeys[m], budget)
            y == [c.migrations EXCEPT ![m] = IF AtEnd(m, j) THEN "arrived" ELSE @]
            z == [c.journeys EXCEPT ![m] = j]
            e == [c EXCEPT !.time = at, !.journeys = z, !.migrations = y]
<1>. HIDE DEF j
<1>0. IsCivilization(c)
  BY MigrationFacts
<1>1. Walk(c, m, budget, at) = e
  BY MigrationFacts DEF Walk, IsCivilization, Tables, j
<1>2. /\ m \in DOMAIN c.migrations /\ c.migrations[m] = "travelling"
  BY MigrationFacts DEF CanWalk
<1>3. /\ DOMAIN y = DOMAIN c.migrations \cup {m} /\ y = [x \in DOMAIN y |-> y[x]]
      /\ \A x \in DOMAIN c.migrations : x # m => y[x] = c.migrations[x]
      /\ y[m] \in {"travelling", "arrived"} /\ DOMAIN z = DOMAIN c.journeys
  BY <1>2, MigrationFacts
<1>. HIDE DEF y, z
<1>4. /\ WritesJourneys(c, e, c.citizens, y) /\ e.journeys = z
  BY <1>0 DEF WritesJourneys, IsCivilization, Tables
<1>. HIDE DEF e
<1>5. DOMAIN e.journeys \subseteq DOMAIN y /\ c.citizens \in [Citizens -> People]
  BY <1>3, <1>4, MigrationFacts
<1>6. y[m] # "planned" /\ y[m] \in {"planned", "travelling", "arrived"}
  BY <1>3
<1>7. KernelOK(calls, e)
  BY <1>2, <1>3, <1>4, <1>5, <1>6, JourneysKeep
<1>. QED
  BY <1>1, <1>7

\* A call that writes one founding.
LEMMA FoundingKeeps ==
    ASSUME NEW calls, NEW c, KernelOK(calls, c), NEW f \in Foundings, NEW s, NEW y, NEW e,
           DOMAIN y = DOMAIN c.foundings \cup {f}, y = [x \in DOMAIN y |-> y[x]], y[f] = s,
           \A x \in DOMAIN c.foundings : x # f => y[x] = c.foundings[x],
           f \notin c.settled, FoundingInfo[f].migration \in DOMAIN c.migrations,
           s \in {"proposed", "preparing", "travelling", "establishing", "viable"},
           s \in {"establishing", "viable"} => c.migrations[FoundingInfo[f].migration] = "arrived",
           s = "viable" => \A p \in FoundingInfo[f].projects : Done(c.projects, p),
           NEW at, e = [c EXCEPT !.time = at, !.foundings = y]
    PROVE  KernelOK(calls, e)
<1>0. IsCivilization(c)
  BY MigrationFacts
<1>1. /\ IsCivilization(e) /\ e.stocks = c.stocks /\ e.projects = c.projects
      /\ e.citizens = c.citizens /\ e.households = c.households
      /\ e.migrations = c.migrations /\ e.foundings = y /\ e.settled = c.settled
      /\ e.settlements = c.settlements /\ e.kinds = c.kinds /\ e.built = c.built
      /\ e.journeys = c.journeys
  BY <1>0 DEF IsCivilization, Tables
<1>2. Colonies(c.migrations, c.foundings, c.settled, c.projects, c.settlements)
  BY SocietyFacts
<1>3. ASSUME NEW x \in DOMAIN y
      PROVE  Founding(c.migrations, y, c.settled, c.projects, x)
  <2>1. CASE x = f
    BY <2>1 DEF Founding
  <2>2. CASE x # f
    <3>1. x \in DOMAIN c.foundings /\ y[x] = c.foundings[x]
      BY <2>2
    <3>2. Founding(c.migrations, c.foundings, c.settled, c.projects, x)
      BY <1>2, <3>1 DEF Colonies
    <3>. QED
      BY <3>1, <3>2 DEF Founding
  <2>. QED
    BY <2>1, <2>2
<1>4. Colonies(c.migrations, y, c.settled, c.projects, c.settlements)
  BY <1>2, <1>3 DEF Colonies
<1>5. /\ HomesOK(calls, c.citizens, c.households, c.settlements)
      /\ Journeys(calls, c.citizens, c.migrations, c.settled)
      /\ DOMAIN c.journeys \subseteq DOMAIN c.migrations
  BY SocietyFacts
<1>6. /\ DOMAIN e.journeys \subseteq DOMAIN e.migrations
      /\ HomesOK(calls, e.citizens, e.households, e.settlements)
      /\ Journeys(calls, e.citizens, e.migrations, e.settled)
      /\ Colonies(e.migrations, e.foundings, e.settled, e.projects, e.settlements)
  BY <1>1, <1>4, <1>5
<1>. QED
  BY <1>1, <1>6, SocietyKeeps

\* registerSettlementFounding and advanceSettlementFounding.
LEMMA FoundingsKeep ==
    ASSUME NEW calls, NEW c, KernelOK(calls, c), NEW f \in Foundings, NEW at
    PROVE  /\ CanRegisterFounding(c, f) => KernelOK(calls, RegisterFounding(c, f))
           /\ CanAdvanceFounding(c, f, at) => KernelOK(calls, AdvanceFounding(c, f, at))
<1>1. Colonies(c.migrations, c.foundings, c.settled, c.projects, c.settlements)
  BY SocietyFacts
<1>2. c.foundings = [x \in DOMAIN c.foundings |-> c.foundings[x]]
  BY <1>1 DEF Colonies
<1>3. ASSUME CanRegisterFounding(c, f)
      PROVE  KernelOK(calls, RegisterFounding(c, f))
  <2>. DEFINE y == With(c.foundings, f, "proposed")
              e == RegisterFounding(c, f)
  <2>1. /\ f \notin DOMAIN c.foundings /\ FoundingInfo[f].migration \in DOMAIN c.migrations
        /\ f \notin c.settled
    BY <1>1, <1>3 DEF CanRegisterFounding, Colonies
  <2>2. /\ DOMAIN y = DOMAIN c.foundings \cup {f} /\ y = [x \in DOMAIN y |-> y[x]]
        /\ y[f] = "proposed" /\ \A x \in DOMAIN c.foundings : x # f => y[x] = c.foundings[x]
    BY DEF With
  <2>. HIDE DEF y
  <2>3. e = [c EXCEPT !.time = c.time, !.foundings = y]
    BY MigrationFacts DEF RegisterFounding, IsCivilization, Tables, y
  <2>. HIDE DEF e
  <2>4. KernelOK(calls, e)
    BY <2>1, <2>2, <2>3, FoundingKeeps
  <2>. QED
    BY <2>4 DEF e
<1>4. ASSUME CanAdvanceFounding(c, f, at)
      PROVE  KernelOK(calls, AdvanceFounding(c, f, at))
  <2>. DEFINE s == NextFounding[c.foundings[f]]
              y == [c.foundings EXCEPT ![f] = s]
              e == AdvanceFounding(c, f, at)
  <2>1. f \in DOMAIN c.foundings /\ c.foundings[f] \in DOMAIN NextFounding /\ FoundingReady(c, f, s)
    BY <1>4 DEF CanAdvanceFounding
  <2>2. /\ c.foundings[f] # "viable" /\ s \in {"preparing", "travelling", "establishing", "viable"}
    BY <2>1 DEF NextFounding
  <2>3. /\ f \notin c.settled /\ FoundingInfo[f].migration \in DOMAIN c.migrations
    BY <1>1, <2>1, <2>2 DEF Colonies, Founding
  <2>. HIDE DEF s
  <2>4. /\ s \in {"establishing", "viable"} => c.migrations[FoundingInfo[f].migration] = "arrived"
        /\ s = "viable" => \A p \in FoundingInfo[f].projects : Done(c.projects, p)
    BY <2>1 DEF FoundingReady, Is, Done
  <2>5. /\ DOMAIN y = DOMAIN c.foundings \cup {f} /\ y = [x \in DOMAIN y |-> y[x]]
        /\ y[f] = s /\ \A x \in DOMAIN c.foundings : x # f => y[x] = c.foundings[x]
    BY <1>2, <2>1
  <2>6. e = [c EXCEPT !.time = at, !.foundings = y]
    BY MigrationFacts DEF AdvanceFounding, IsCivilization, Tables, s
  <2>. HIDE DEF e, y
  <2>7. KernelOK(calls, e)
    BY <2>2, <2>3, <2>4, <2>5, <2>6, FoundingKeeps
  <2>. QED
    BY <2>7 DEF e
<1>. QED
  BY <1>3, <1>4

\* recordFoundingMaterialization: the settlers of a founding come to live there.
LEMMA SettleKeeps ==
    ASSUME NEW calls, NEW c, KernelOK(calls, c), NEW f \in Foundings, NEW at, CanSettle(c, f, at)
    PROVE  KernelOK(calls, Settle(c, f, at))
<1>. DEFINE a == FoundingInfo[f].settlement
            x == [p \in Citizens |->
                    IF p \in Settlers(f)
                    THEN [c.citizens[p] EXCEPT !.residence = "resident", !.settlement = a]
                    ELSE c.citizens[p]]
            e == Settle(c, f, at)
<1>1. /\ f \in DOMAIN c.foundings /\ c.foundings[f] = "viable"
      /\ \A p \in Settlers(f) : c.citizens[p].residence = "travelling"
  BY DEF CanSettle, CanSettleUnsited
<1>2. /\ IsCivilization(c) /\ DOMAIN c.journeys \subseteq DOMAIN c.migrations
      /\ HomesOK(calls, c.citizens, c.households, c.settlements)
      /\ Journeys(calls, c.citizens, c.migrations, c.settled)
      /\ Colonies(c.migrations, c.foundings, c.settled, c.projects, c.settlements)
  BY SocietyFacts
<1>3. a \in Settlements
  BY CatalogueAssumption DEF ValidCatalogue
<1>4. /\ IsCivilization(e) /\ e.stocks = c.stocks /\ e.projects = c.projects
      /\ e.citizens = x /\ e.households = c.households
      /\ e.migrations = c.migrations /\ e.foundings = c.foundings
      /\ e.settled = c.settled \cup {f}
      /\ e.settlements = c.settlements \cup {a} /\ e.kinds = c.kinds /\ e.built = c.built
      /\ e.journeys = c.journeys
  <2>1. e = [c EXCEPT !.time = at, !.settled = c.settled \cup {f},
                      !.settlements = c.settlements \cup {a}, !.citizens = x]
    BY <1>2 DEF Settle, SettleUnsited, IsCivilization, Tables
  <2>. HIDE DEF x, e, a
  <2>. QED
    BY <1>2, <2>1 DEF IsCivilization, Tables
<1>5. ASSUME NEW p \in Citizens
      PROVE  /\ x[p] \in People /\ x[p].household = c.citizens[p].household
             /\ p \notin Settlers(f) => x[p] = c.citizens[p]
             /\ p \in Settlers(f) => /\ x[p].residence = "resident" /\ x[p].settlement = a
                                     /\ calls = "linked" => x[p].household = None
  <2>1. c.citizens[p] \in People /\ Lives(calls, c.citizens, c.households, c.settlements, p)
    BY <1>2 DEF HomesOK
  <2>2. CASE p \in Settlers(f)
    <3>. DEFINE h == c.citizens[p].household
    <3>1. calls = "linked" => h = None
      BY <1>1, <2>1, <2>2 DEF Lives
    <3>2. c.citizens[p] = [residence |-> c.citizens[p].residence,
                           settlement |-> c.citizens[p].settlement, household |-> h]
      BY <2>1 DEF People
    <3>. DEFINE w == [c.citizens[p] EXCEPT !.residence = "resident"]
    <3>3. w = [residence |-> "resident", settlement |-> c.citizens[p].settlement,
               household |-> h]
      BY <3>2
    <3>4. x[p] = [w EXCEPT !.settlement = a]
      BY <2>2
    <3>. HIDE DEF x, a, w
    <3>5. x[p] = [residence |-> "resident", settlement |-> a, household |-> h]
      BY <3>3, <3>4
    <3>. QED
      BY <1>3, <2>1, <2>2, <3>1, <3>5 DEF People
  <2>3. CASE p \notin Settlers(f)
    BY <2>1, <2>3, SMTT(30)
  <2>. QED
    BY <2>2, <2>3
<1>6. x \in [Citizens -> People]
  BY <1>5
<1>. HIDE DEF x, e, a
<1>7. HomesOK(calls, x, c.households, c.settlements \cup {a})
  <2>1. ASSUME NEW p \in Citizens
        PROVE  Lives(calls, x, c.households, c.settlements \cup {a}, p)
    <3>1. Lives(calls, c.citizens, c.households, c.settlements, p)
      BY <1>2 DEF HomesOK
    <3>. QED
      BY <1>5, <3>1 DEF Lives
  <2>2. ASSUME NEW h \in DOMAIN c.households
        PROVE  Household(calls, x, c.households, h)
    <3>1. Household(calls, c.citizens, c.households, h)
      BY <1>2 DEF HomesOK
    <3>2. \A p \in Citizens : x[p].household = c.citizens[p].household
      BY <1>5
    <3>. QED
      BY <3>1, <3>2 DEF Household
  <2>. QED
    BY <1>2, <1>3, <1>6, <2>1, <2>2 DEF HomesOK
<1>8. Journeys(calls, x, c.migrations, c.settled \cup {f})
  <2>1. ASSUME calls = "linked", NEW p \in Citizens, x[p].residence = "travelling"
        PROVE  \E m \in Migrations :
                  p \in MigrationInfo[m].citizens /\ Underway(c.migrations, c.settled \cup {f}, m)
    <3>1. p \notin Settlers(f) /\ c.citizens[p].residence = "travelling"
      BY <1>5, <2>1
    <3>2. PICK m \in Migrations :
             p \in MigrationInfo[m].citizens /\ Underway(c.migrations, c.settled, m)
      BY <1>2, <2>1, <3>1 DEF Journeys
    <3>3. FoundingInfo[f].migration # m
      BY <3>1, <3>2 DEF Settlers
    <3>. QED
      BY <3>2, <3>3 DEF Underway
  <2>. QED
    BY <1>2, <2>1 DEF Journeys
<1>9. Colonies(c.migrations, c.foundings, c.settled \cup {f}, c.projects, c.settlements \cup {a})
  BY <1>1, <1>2 DEF Colonies, Founding, a
<1>10. KernelOK(calls, e)
  BY <1>2, <1>4, <1>7, <1>8, <1>9, SocietyKeeps
<1>. QED
  BY <1>10 DEF e

\* Whatever the households, what is left of the story of the people is kept.
LEMMA AnyHomes ==
    ASSUME NEW calls, calls # "linked", NEW citizens, citizens \in [Citizens -> People],
           NEW households, NEW settlements \in SUBSET Settlements,
           \A p \in Citizens : citizens[p].settlement \in settlements,
           DOMAIN households \subseteq Households,
           households = [h \in DOMAIN households |-> households[h]],
           \A h \in DOMAIN households :
              /\ households[h] = [settlement |-> households[h].settlement,
                                  members |-> households[h].members]
              /\ households[h].members \subseteq Citizens
    PROVE  HomesOK(calls, citizens, households, settlements)
BY DEF HomesOK, Lives, Household

\* registerHousehold: of members who are not told.
LEMMA RegisterHouseholdKeeps ==
    ASSUME NEW calls, calls # "linked", NEW c, KernelOK(calls, c), NEW h \in Households, NEW a,
           NEW members \in SUBSET Citizens, CanRegisterHousehold(c, h, a)
    PROVE  KernelOK(calls, RegisterHousehold(c, h, a, members))
<1>. DEFINE k == [settlement |-> a, members |-> members]
            y == With(c.households, h, k)
            e == RegisterHousehold(c, h, a, members)
<1>1. IsCivilization(c) /\ HomesOK(calls, c.citizens, c.households, c.settlements)
  BY DEF KernelOK
<1>2. WritesHomes(c, e, c.citizens, y)
  <2>1. e = [c EXCEPT !.households = y]
    BY DEF RegisterHousehold
  <2>. HIDE DEF e, y
  <2>. QED
    BY <1>1, <2>1 DEF WritesHomes, IsCivilization, Tables
<1>3. /\ y = [z \in DOMAIN y |-> y[z]] /\ DOMAIN y = DOMAIN c.households \cup {h} /\ y[h] = k
      /\ \A z \in DOMAIN c.households : y[z] = c.households[z]
  BY DEF With, CanRegisterHousehold
<1>4. k = [settlement |-> k.settlement, members |-> k.members] /\ k.members \subseteq Citizens
  OBVIOUS
<1>. HIDE DEF y, k, e
<1>5. ASSUME NEW z \in DOMAIN y
      PROVE  /\ y[z] = [settlement |-> y[z].settlement, members |-> y[z].members]
             /\ y[z].members \subseteq Citizens
  <2>1. CASE z = h
    BY <1>3, <1>4, <2>1
  <2>2. CASE z # h
    <3>1. z \in DOMAIN c.households /\ y[z] = c.households[z]
      BY <1>3, <2>2
    <3>2. Household(calls, c.citizens, c.households, z)
      BY <1>1, <3>1 DEF HomesOK
    <3>. QED
      BY <3>1, <3>2 DEF Household
  <2>. QED
    BY <2>1, <2>2
<1>6. HomesOK(calls, c.citizens, y, c.settlements)
  <2>1. /\ c.citizens \in [Citizens -> People] /\ c.settlements \in SUBSET Settlements
        /\ \A p \in Citizens : c.citizens[p].settlement \in c.settlements
        /\ DOMAIN y \subseteq Households
    BY <1>1, <1>3 DEF HomesOK, Lives
  <2>. QED
    BY <1>3, <1>5, <2>1, AnyHomes
<1>7. KernelOK(calls, e)
  BY <1>2, <1>6, HomesKeep
<1>. QED
  BY <1>7 DEF e

\* recordFoundingMaterialization without a site: nobody moves.
LEMMA SettleUnsitedKeeps ==
    ASSUME NEW calls, calls # "linked", NEW c, KernelOK(calls, c), NEW f \in Foundings, NEW at,
           CanSettleUnsited(c, f, at)
    PROVE  KernelOK(calls, SettleUnsited(c, f, at))
<1>. DEFINE a == FoundingInfo[f].settlement
            e == SettleUnsited(c, f, at)
<1>1. /\ f \in DOMAIN c.foundings /\ c.foundings[f] = "viable"
  BY DEF CanSettleUnsited
<1>2. /\ IsCivilization(c) /\ DOMAIN c.journeys \subseteq DOMAIN c.migrations
      /\ HomesOK(calls, c.citizens, c.households, c.settlements)
      /\ Journeys(calls, c.citizens, c.migrations, c.settled)
      /\ Colonies(c.migrations, c.foundings, c.settled, c.projects, c.settlements)
  BY SocietyFacts
<1>3. a \in Settlements
  BY CatalogueAssumption DEF ValidCatalogue
<1>4. /\ IsCivilization(e) /\ e.stocks = c.stocks /\ e.projects = c.projects
      /\ e.citizens = c.citizens /\ e.households = c.households
      /\ e.migrations = c.migrations /\ e.foundings = c.foundings
      /\ e.settled = c.settled \cup {f}
      /\ e.settlements = c.settlements \cup {a} /\ e.kinds = c.kinds /\ e.built = c.built
      /\ e.journeys = c.journeys
  <2>1. e = [c EXCEPT !.time = at, !.settled = c.settled \cup {f},
                      !.settlements = c.settlements \cup {a}]
    BY <1>2 DEF SettleUnsited, IsCivilization, Tables
  <2>. HIDE DEF e, a
  <2>. QED
    BY <1>2, <2>1 DEF IsCivilization, Tables
<1>. HIDE DEF e
<1>5. HomesOK(calls, c.citizens, c.households, c.settlements \cup {a})
  <2>1. \A p \in Citizens : c.citizens[p].settlement \in c.settlements
    BY <1>2 DEF HomesOK, Lives
  <2>2. \A h \in DOMAIN c.households :
           /\ c.households[h] = [settlement |-> c.households[h].settlement,
                                 members |-> c.households[h].members]
           /\ c.households[h].members \subseteq Citizens
    BY <1>2 DEF HomesOK, Household
  <2>3. /\ c.citizens \in [Citizens -> People] /\ c.settlements \cup {a} \in SUBSET Settlements
        /\ DOMAIN c.households \subseteq Households
        /\ c.households = [h \in DOMAIN c.households |-> c.households[h]]
    BY <1>2, <1>3 DEF HomesOK
  <2>. QED
    BY <2>1, <2>2, <2>3, AnyHomes
<1>6. Journeys(calls, c.citizens, c.migrations, c.settled \cup {f})
  BY <1>2 DEF Journeys
<1>7. Colonies(c.migrations, c.foundings, c.settled \cup {f}, c.projects, c.settlements \cup {a})
  BY <1>1, <1>2 DEF Colonies, Founding, a
<1>8. KernelOK(calls, e)
  BY <1>2, <1>4, <1>5, <1>6, <1>7, SocietyKeeps
<1>. QED
  BY <1>8 DEF e

-----------------------------------------------------------------------------
(* The invariant of the kernel *)

\* What is registered before the calls: any people and homes, or everyone at home.
LEMMA RegisteredFacts ==
    ASSUME caller \in Callers, NEW r \in Registered
    PROVE  /\ HomesOK(caller.calls, r.people, r.homes, Genesis.settlements)
           /\ caller.calls = "linked" => \A p \in Citizens : r.people[p].residence = "resident"
<1>1. CASE caller.calls = "linked"
  <2>1. r.homes = <<>> /\ r.people = AtHome
    BY <1>1 DEF Registered
  <2>2. DOMAIN <<>> = {} /\ <<>> = [x \in {} |-> <<>>[x]]
    OBVIOUS
  <2>3. /\ Genesis.settlements \subseteq Settlements
        /\ \A p \in Citizens : Genesis.home[p] \in Genesis.settlements
    BY KernelAssumption
  <2>4. \A p \in Citizens : /\ AtHome[p].residence = "resident" /\ AtHome[p].household = None
                            /\ AtHome[p].settlement = Genesis.home[p]
    BY DEF AtHome
  <2>5. AtHome \in [Citizens -> People]
    BY <2>3 DEF AtHome, People
  <2>6. \A p \in Citizens : Lives(caller.calls, AtHome, <<>>, Genesis.settlements, p)
    BY <2>3, <2>4 DEF Lives
  <2>7. HomesOK(caller.calls, AtHome, <<>>, Genesis.settlements)
    BY <2>2, <2>3, <2>5, <2>6 DEF HomesOK
  <2>8. \A p \in Citizens : r.people[p].residence = "resident"
    BY <2>1, <2>4
  <2>. QED
    BY <2>1, <2>7, <2>8
<1>2. CASE caller.calls # "linked"
  <2>0. PICK homes \in Housed(caller.households) :
           \E people \in Registrable(homes) : r = [homes |-> homes, people |-> people]
    BY <1>2 DEF Registered
  <2>1. PICK people \in Registrable(homes) : r = [homes |-> homes, people |-> people]
    BY <2>0
  <2>2. PICK H \in SUBSET caller.households :
           homes \in [H -> [settlement : Genesis.settlements, members : SUBSET Citizens]]
    BY <2>0 DEF Housed
  <2>3. Genesis.settlements \in SUBSET Settlements /\ H \subseteq Households
    BY KernelAssumption
  <2>4. /\ DOMAIN homes = H /\ homes = [h \in DOMAIN homes |-> homes[h]]
        /\ \A h \in DOMAIN homes :
              /\ homes[h] = [settlement |-> homes[h].settlement, members |-> homes[h].members]
              /\ homes[h].members \subseteq Citizens
    BY <2>2
  <2>5. ASSUME NEW p \in Citizens
        PROVE  people[p] \in People /\ people[p].settlement \in Genesis.settlements
    <3>1. people[p] \in [residence : {"resident", "travelling", "departed"},
                         settlement : Genesis.settlements, household : DOMAIN homes \cup {None}]
      BY <2>1 DEF Registrable
    <3>2. Genesis.settlements \subseteq Settlements /\ DOMAIN homes \subseteq Households
      BY <2>3, <2>4
    <3>. QED
      BY <3>1, <3>2 DEF People
  <2>6. people \in [Citizens -> People]
    <3>1. people = [p \in Citizens |-> people[p]]
      BY <2>1 DEF Registrable
    <3>. QED
      BY <2>5, <3>1
  <2>7. HomesOK(caller.calls, people, homes, Genesis.settlements)
    BY <1>2, <2>3, <2>4, <2>5, <2>6, AnyHomes
  <2>. QED
    BY <1>2, <2>1, <2>7
<1>. QED
  BY <1>1, <1>2

\* What is registered at the bootstrap, with nothing behind it.
LEMMA InitKeeps == KernelInit => KernelInv
<1>. SUFFICES ASSUME KernelInit
              PROVE  KernelInv
  OBVIOUS
<1>0. PICK r \in Registered :
         now = Checkpoint([EmptyCivilization EXCEPT !.stocks = Genesis.stocks,
                                                    !.households = r.homes,
                                                    !.citizens = r.people])
  BY DEF KernelInit
<1>. DEFINE b == [EmptyCivilization EXCEPT !.stocks = Genesis.stocks, !.households = r.homes,
                                           !.citizens = r.people]
<1>1. /\ b.stocks = Genesis.stocks /\ b.projects = <<>> /\ b.households = r.homes
      /\ b.migrations = <<>> /\ b.journeys = <<>> /\ b.foundings = <<>> /\ b.settled = {}
      /\ b.settlements = Genesis.settlements /\ b.kinds = Genesis.kinds /\ b.built = <<>>
      /\ b.citizens = r.people
  BY DEF EmptyCivilization
<1>2. IsCivilization(b)
  BY DEF EmptyCivilization, IsCivilization, Tables
<1>10. now = Checkpoint(b) /\ caller \in Callers
  BY <1>0 DEF KernelInit
<1>. HIDE DEF b
<1>3. DOMAIN b.stocks \subseteq Stocks
  BY <1>1, KernelAssumption
<1>4. DOMAIN <<>> = {} /\ <<>> = [x \in {} |-> <<>>[x]]
  OBVIOUS
<1>5. HomesOK(caller.calls, b.citizens, b.households, b.settlements)
  BY <1>1, <1>10, RegisteredFacts
<1>6. Journeys(caller.calls, b.citizens, b.migrations, b.settled)
  BY <1>1, <1>4, <1>10, RegisteredFacts DEF Journeys
<1>7. Colonies(b.migrations, b.foundings, b.settled, b.projects, b.settlements)
  BY <1>1, <1>4 DEF Colonies
<1>8. Books(b.projects) /\ Buildings(b.built, b.kinds, b.projects)
  BY <1>1, <1>4, KernelAssumption DEF Books, Buildings
<1>9. KernelOK(caller.calls, b)
  BY <1>1, <1>2, <1>3, <1>4, <1>5, <1>6, <1>7, <1>8 DEF KernelOK
<1>. QED
  BY <1>2, <1>3, <1>9, <1>10, CheckpointIsAccounting, AccountingKeeps DEF KernelInv

\* Quantities are numbers.
LEMMA UnitsAreNumbers == Units \subseteq Nat /\ 0..MaxUnits \subseteq Nat
BY KernelAssumption DEF Units

\* What a caller names is in the catalogue.
LEMMA CallerFacts ==
    ASSUME KernelInv
    PROVE  /\ caller.stocks \subseteq Stocks /\ caller.projects \subseteq Projects
           /\ caller.households \subseteq Households /\ caller.migrations \subseteq Migrations
           /\ caller.foundings \subseteq Foundings /\ caller.leavers \subseteq Citizens
           /\ \A batch \in caller.batches : batch \in Seq(Citizens)
BY KernelAssumption DEF KernelInv

\* The calls that only move matter.
LEMMA AccountsKeep ==
    ASSUME KernelInv, \/ DoRegisterStock \/ DoTransfer \/ DoStartProduction
                      \/ DoCompleteProduction \/ DoConsumeNeeds \/ DoCheckpoint
    PROVE  KernelOK(caller.calls, now')
<1>1. KernelOK(caller.calls, now) /\ IsCivilization(now) /\ DOMAIN now.stocks \subseteq Stocks
  BY DEF KernelInv, KernelOK
<1>2. ASSUME NEW c, IsAccounting(now, c), now' = c
      PROVE  KernelOK(caller.calls, now')
  BY <1>1, <1>2, AccountingKeeps
<1>3. CASE DoRegisterStock
  <2>1. PICK s \in caller.stocks, q \in 0..MaxUnits : now' = RegisterStock(now, s, q, now.time)
    BY <1>3 DEF DoRegisterStock, Step
  <2>. QED
    BY <1>1, <1>2, <2>1, CallerFacts, CallsAreAccounting
<1>4. CASE DoTransfer
  <2>1. PICK from \in caller.stocks, to \in caller.stocks, q \in Units, at \in Times :
           now' = Transfer(now, "transfer", from, to, q, at)
    BY <1>4 DEF DoTransfer, Step
  <2>. QED
    BY <1>1, <1>2, <2>1, CallsAreAccounting
<1>5. CASE DoStartProduction
  <2>1. PICK id \in Processes, r \in caller.recipes, at \in Times :
           \E in, out : now' = StartProduction(now, id, r, in, out, at)
    BY <1>5 DEF DoStartProduction, Step
  <2>. QED
    BY <1>1, <1>2, <2>1, CallsAreAccounting
<1>6. CASE DoCompleteProduction
  <2>1. PICK id \in Processes, at \in Times : now' = CompleteProduction(now, id, at)
    BY <1>6 DEF DoCompleteProduction, Step
  <2>. QED
    BY <1>1, <1>2, <2>1, CallsAreAccounting
<1>7. CASE DoConsumeNeeds
  <2>1. PICK batch \in caller.batches, at \in Times :
           now' = ConsumeNeeds(now, batch, [p \in Citizens |-> Stocks], at)
    BY <1>7 DEF DoConsumeNeeds, Step
  <2>2. batch \in Seq(Citizens)
    BY CallerFacts
  <2>. QED
    BY <1>1, <1>2, <2>1, <2>2, ConsumeNeedsIsAccounting
<1>8. CASE DoCheckpoint
  <2>1. now' = Checkpoint(now)
    BY <1>8 DEF DoCheckpoint, Step
  <2>. QED
    BY <1>1, <1>2, <2>1, CheckpointIsAccounting
<1>. QED
  BY <1>3, <1>4, <1>5, <1>6, <1>7, <1>8

\* The calls about projects.
LEMMA ProjectsKeep ==
    ASSUME KernelInv, \/ DoRegisterProject \/ DoApproveProject \/ DoStartProject \/ DoDeliver
                      \/ DoConsume \/ DoContribute \/ DoCompleteMilestone \/ DoCompleteProject
                      \/ DoMaterialize \/ DoFailProject \/ DoAbandonProject
    PROVE  KernelOK(caller.calls, now')
<1>1. KernelOK(caller.calls, now)
  BY DEF KernelInv
<1>2. CASE DoRegisterProject
  BY <1>1, <1>2, CallerFacts, RegisterProjectKeeps DEF DoRegisterProject, Step
<1>3. CASE DoApproveProject
  BY <1>1, <1>3, ProjectStatesKeep DEF DoApproveProject, Step
<1>4. CASE DoStartProject
  BY <1>1, <1>4, ProjectStatesKeep DEF DoStartProject, Step
<1>5. CASE DoDeliver
  <2>1. PICK p \in DOMAIN now.projects, from \in DOMAIN now.stocks, to \in DOMAIN now.stocks,
             q \in Units, at \in Times : \E i \in DOMAIN Plan(p) :
           CanDeliver(now, p, i, from, to, q, at) /\ now' = Deliver(now, p, i, from, to, q, at)
    BY <1>5 DEF DoDeliver, Step
  <2>2. PICK i \in DOMAIN Plan(p) :
           CanDeliver(now, p, i, from, to, q, at) /\ now' = Deliver(now, p, i, from, to, q, at)
    BY <2>1
  <2>3. q \in Nat
    BY UnitsAreNumbers
  <2>. QED
    BY <1>1, <2>2, <2>3, DeliverKeeps
<1>6. CASE DoConsume
  <2>1. PICK p \in DOMAIN now.projects, s \in DOMAIN now.stocks, q \in Units, at \in Times :
           \E i \in DOMAIN Plan(p) :
              CanConsume(now, p, i, s, q, at) /\ now' = Consume(now, p, i, s, q, at)
    BY <1>6 DEF DoConsume, Step
  <2>2. PICK i \in DOMAIN Plan(p) :
           CanConsume(now, p, i, s, q, at) /\ now' = Consume(now, p, i, s, q, at)
    BY <2>1
  <2>3. q \in Nat
    BY UnitsAreNumbers
  <2>. QED
    BY <1>1, <2>2, <2>3, ConsumeKeeps
<1>7. CASE DoContribute
  <2>1. PICK p \in DOMAIN now.projects, who \in Citizens, n \in Units, at \in Times :
           \E i \in DOMAIN Plan(p) :
              CanContribute(now, p, i, who, n, at) /\ now' = Contribute(now, p, i, n, at)
    BY <1>7 DEF DoContribute, Step
  <2>2. PICK i \in DOMAIN Plan(p) :
           CanContribute(now, p, i, who, n, at) /\ now' = Contribute(now, p, i, n, at)
    BY <2>1
  <2>3. n \in Nat
    BY UnitsAreNumbers
  <2>. QED
    BY <1>1, <2>2, <2>3, ContributeKeeps
<1>8. CASE DoCompleteMilestone
  BY <1>1, <1>8, CompleteMilestoneKeeps DEF DoCompleteMilestone, Step
<1>9. CASE DoCompleteProject
  BY <1>1, <1>9, ProjectStatesKeep DEF DoCompleteProject, Step
<1>10. CASE DoMaterialize
  BY <1>1, <1>10, MaterializeKeeps DEF DoMaterialize, Step
<1>11. CASE DoFailProject
  BY <1>1, <1>11, FailProjectKeeps DEF DoFailProject, Step
<1>12. CASE DoAbandonProject
  BY <1>1, <1>12, ProjectStatesKeep DEF DoAbandonProject, Step
<1>. QED
  BY <1>2, <1>3, <1>4, <1>5, <1>6, <1>7, <1>8, <1>9, <1>10, <1>11, <1>12

\* The calls about people.
LEMMA PeopleKeep ==
    ASSUME KernelInv, \/ DoFormHousehold \/ DoLeaveHousehold \/ DoDepart \/ DoArrive
                      \/ DoRegisterMigration \/ DoRegisterJourney \/ DoDepartMigration \/ DoWalk
                      \/ DoRegisterFounding \/ DoAdvanceFounding \/ DoSettle
                      \/ DoRegisterHousehold \/ DoSettleUnsited
    PROVE  KernelOK(caller.calls, now')
<1>1. KernelOK(caller.calls, now)
  BY DEF KernelInv
<1>2. CASE DoFormHousehold
  BY <1>1, <1>2, CallerFacts, FormHouseholdKeeps DEF DoFormHousehold, Step
<1>3. CASE DoLeaveHousehold
  BY <1>1, <1>3, LeaveHouseholdKeeps DEF DoLeaveHousehold, Step
<1>4. CASE DoDepart
  <2>1. PICK p \in caller.leavers :
           CanDepart(now, p, now.time) /\ now' = DepartCitizen(now, p, now.time)
    BY <1>4 DEF DoDepart, Step
  <2>. QED
    BY <1>1, <2>1, CallerFacts, MovesKeep
<1>5. CASE DoArrive
  BY <1>1, <1>5, MovesKeep DEF DoArrive, Step
<1>6. CASE DoRegisterMigration
  BY <1>1, <1>6, CallerFacts, RegisterMigrationKeeps DEF DoRegisterMigration, Step
<1>7. CASE DoRegisterJourney
  BY <1>1, <1>7, RegisterJourneyKeeps DEF DoRegisterJourney, Step
<1>8. CASE DoDepartMigration
  BY <1>1, <1>8, DepartMigrationKeeps DEF DoDepartMigration, Step
<1>9. CASE DoWalk
  BY <1>1, <1>9, WalkKeeps DEF DoWalk, Step
<1>10. CASE DoRegisterFounding
  BY <1>1, <1>10, CallerFacts, FoundingsKeep DEF DoRegisterFounding, Step
<1>11. CASE DoAdvanceFounding
  BY <1>1, <1>11, FoundingsKeep DEF DoAdvanceFounding, Step
<1>12. CASE DoSettle
  BY <1>1, <1>12, SettleKeeps DEF DoSettle, Step
<1>13. CASE DoRegisterHousehold
  <2>1. PICK h \in caller.households, a \in now.settlements, members \in SUBSET Citizens :
           /\ caller.calls = "any" /\ CanRegisterHousehold(now, h, a)
           /\ now' = RegisterHousehold(now, h, a, members)
    BY <1>13 DEF DoRegisterHousehold, Step
  <2>2. caller.calls # "linked" /\ h \in Households
    BY <2>1, CallerFacts
  <2>. QED
    BY <1>1, <2>1, <2>2, RegisterHouseholdKeeps
<1>14. CASE DoSettleUnsited
  <2>1. PICK f \in Foundings : /\ caller.calls = "any" /\ CanSettleUnsited(now, f, now.time)
                               /\ now' = SettleUnsited(now, f, now.time)
    BY <1>14 DEF DoSettleUnsited, Step
  <2>2. caller.calls # "linked"
    BY <2>1
  <2>. QED
    BY <1>1, <2>1, <2>2, SettleUnsitedKeeps
<1>. QED
  BY <1>2, <1>3, <1>4, <1>5, <1>6, <1>7, <1>8, <1>9, <1>10, <1>11, <1>12, <1>13, <1>14

\* Every call keeps the invariant.
LEMMA NextKeeps ==
    ASSUME KernelInv, [KernelNext]_kernelVars
    PROVE  KernelInv'
<1>1. CASE UNCHANGED kernelVars
  BY <1>1 DEF kernelVars, KernelInv
<1>2. CASE KernelNext
  <2>1. UNCHANGED caller
    BY <1>2 DEF KernelNext, Step, DoRegisterStock, DoTransfer, DoStartProduction, DoCompleteProduction,
            DoConsumeNeeds, DoCheckpoint, DoRegisterProject, DoApproveProject, DoStartProject,
            DoDeliver, DoConsume, DoContribute, DoCompleteMilestone, DoCompleteProject,
            DoMaterialize, DoFailProject, DoAbandonProject, DoFormHousehold, DoLeaveHousehold,
            DoDepart, DoArrive, DoRegisterMigration, DoRegisterJourney, DoDepartMigration, DoWalk,
            DoRegisterFounding, DoAdvanceFounding, DoSettle, DoRegisterHousehold, DoSettleUnsited
  <2>2. KernelOK(caller.calls, now')
    BY <1>2, AccountsKeep, ProjectsKeep, PeopleKeep DEF KernelNext
  <2>. QED
    BY <2>1, <2>2 DEF KernelInv
<1>. QED
  BY <1>1, <1>2

\* The invariant of the kernel, whoever calls it and in whatever order: the tables
\* are well formed, the books of the projects, the migrations, the colonies and
\* the buildings agree; and where people and homes are agrees when no
\* registerHousehold, registerCitizen with a household or on the way, or
\* recordFoundingMaterialization without a site is among the calls.
THEOREM KernelCorrectness == KernelSpec => []KernelInv
<1>1. KernelInit => KernelInv
  BY InitKeeps
<1>2. KernelInv /\ [KernelNext]_kernelVars => KernelInv'
  BY NextKeeps
<1>. QED
  BY <1>1, <1>2, PTL DEF KernelSpec

\* No sequence of calls cooks the books of a project: what is consumed was
\* delivered and what is delivered was asked for, a completed milestone is paid
\* for, work waits for what it depends on, and a project is completed, and
\* started, in its turn.
THEOREM ProjectBooksCorrectness == KernelSpec => []ProjectBooks
<1>1. KernelInv => ProjectBooks
  <2>. SUFFICES ASSUME KernelInv, NEW p \in DOMAIN now.projects
                PROVE  /\ \A i \in DOMAIN Plan(p) :
                             LET m == now.projects[p].milestones[i] IN
                             /\ \A g \in Resources : /\ m.consumed[g] =< m.delivered[g]
                                                     /\ m.delivered[g] =< Plan(p)[i].needs[g]
                             /\ m.state = "completed" => Exact(p, i, m)
                             /\ (\/ m.labor > 0 \/ m.state = "active"
                                 \/ \E g \in Resources : m.consumed[g] > 0) =>
                                   \A d \in Plan(p)[i].deps :
                                       now.projects[p].milestones[d].state = "completed"
                       /\ now.projects[p].state = "completed" =>
                             \A i \in DOMAIN Plan(p) :
                                 now.projects[p].milestones[i].state = "completed"
                       /\ now.projects[p].state \in {"active", "completed"} =>
                             \A d \in ProjectInfo[p].deps : now.projects[d].state = "completed"
    BY DEF ProjectBooks
  <2>1. ProjectOK(p, now.projects[p]) /\ StartedInTurn(now.projects, p)
    BY ProjectFacts DEF KernelInv
  <2>2. ASSUME NEW i \in DOMAIN Plan(p)
        PROVE  LET m == now.projects[p].milestones[i] IN
               /\ \A g \in Resources : /\ m.consumed[g] =< m.delivered[g]
                                       /\ m.delivered[g] =< Plan(p)[i].needs[g]
               /\ m.state = "completed" => Exact(p, i, m)
               /\ (\/ m.labor > 0 \/ m.state = "active"
                   \/ \E g \in Resources : m.consumed[g] > 0) =>
                     \A d \in Plan(p)[i].deps : now.projects[p].milestones[d].state = "completed"
    <3>1. MilestoneOK(p, now.projects[p].milestones, i)
      BY <2>1 DEF ProjectOK
    <3>. QED
      BY <3>1 DEF MilestoneOK, Waited
  <2>. QED
    BY <2>1, <2>2 DEF ProjectOK, StartedInTurn
<1>. QED
  BY <1>1, KernelCorrectness, PTL

\* A settlement is founded by an expedition that arrived with its projects
\* completed, whatever sequence of calls is made.  Under a caller that makes no
\* registerHousehold, no registerCitizen with a household or on the way, and no
\* recordFoundingMaterialization without a site, members live where their
\* household does, and travellers are on a migration that left and has not settled.
THEOREM PeopleCorrectness == KernelSpec => []PeopleAreSomewhere
<1>1. KernelInv => PeopleAreSomewhere
  <2>. SUFFICES ASSUME KernelInv
                PROVE  PeopleAreSomewhere
    OBVIOUS
  <2>1. /\ HomesOK(caller.calls, now.citizens, now.households, now.settlements)
        /\ Journeys(caller.calls, now.citizens, now.migrations, now.settled)
        /\ Colonies(now.migrations, now.foundings, now.settled, now.projects, now.settlements)
    BY SocietyFacts DEF KernelInv
  <2>2. \A p \in Citizens :
           Lives(caller.calls, now.citizens, now.households, now.settlements, p)
    BY <2>1 DEF HomesOK
  <2>3. caller.calls = "linked" =>
           \A p \in Citizens : now.citizens[p].residence = "travelling" =>
              \E m \in DOMAIN now.migrations :
                  /\ p \in MigrationInfo[m].citizens /\ now.migrations[m] # "planned"
                  /\ \A f \in now.settled : FoundingInfo[f].migration # m
    BY <2>1 DEF Journeys, Underway
  <2>4. \A f \in now.settled :
           /\ now.migrations[FoundingInfo[f].migration] = "arrived"
           /\ \A p \in FoundingInfo[f].projects : Is(now, p, {"completed"})
    BY <2>1 DEF Colonies, Founding, Done, Is
  <2>. QED
    BY <2>2, <2>3, <2>4 DEF PeopleAreSomewhere, Lives
<1>. QED
  BY <1>1, KernelCorrectness, PTL

\* The audit of buildings and of foundings passes after every sequence of calls;
\* that of households after those of a caller that keeps people and homes linked.
THEOREM SocietyAuditCorrectness ==
    KernelSpec => [](/\ AuditBuilt(now) /\ AuditFoundings(now)
                     /\ caller.calls = "linked" => AuditHouseholds(now))
<1>1. KernelInv => /\ AuditBuilt(now) /\ AuditFoundings(now)
                   /\ caller.calls = "linked" => AuditHouseholds(now)
  <2>. SUFFICES ASSUME KernelInv
                PROVE  /\ AuditBuilt(now) /\ AuditFoundings(now)
                       /\ caller.calls = "linked" => AuditHouseholds(now)
    OBVIOUS
  <2>1. /\ HomesOK(caller.calls, now.citizens, now.households, now.settlements)
        /\ Colonies(now.migrations, now.foundings, now.settled, now.projects, now.settlements)
        /\ Buildings(now.built, now.kinds, now.projects)
    BY DEF KernelInv, KernelOK
  <2>2. caller.calls = "linked" => AuditHouseholds(now)
    BY <2>1 DEF AuditHouseholds, HomesOK, Household
  <2>3. AuditBuilt(now)
    BY <2>1 DEF AuditBuilt, Buildings, Done, Is
  <2>4. AuditFoundings(now)
    BY <2>1 DEF AuditFoundings, Colonies
  <2>. QED
    BY <2>2, <2>3, <2>4
<1>. QED
  BY <1>1, KernelCorrectness, PTL

-----------------------------------------------------------------------------
(* The inductive invariant *)

\* The total of a function over a set, which the sums of the audit are.
Total(f, S) == MapThenSumSet(LAMBDA x : f[x], S)

\* A stock holds what is reserved in it and no more than it can.
Shelves(stocks) ==
    /\ DOMAIN stocks \subseteq Stocks
    /\ \A s \in DOMAIN stocks :
          stocks[s] \in StockInfo[s].reserved..StockInfo[s].capacity

\* A process makes a recipe's outputs into stocks of their resources.
UsedBy(flow) == {g \in Resources : flow[g] > 0}
IsBinding(stocks, flow, bind) ==
    /\ bind \in [UsedBy(flow) -> DOMAIN stocks]
    /\ \A g \in UsedBy(flow) : ResourceOf(bind[g]) = g
Running(stocks, processes) ==
    /\ DOMAIN processes \subseteq Processes /\ IsFiniteSet(DOMAIN processes)
    /\ processes = [id \in DOMAIN processes |-> processes[id]]
    /\ \A id \in DOMAIN processes : LET it == processes[id] IN
          /\ it = [recipe |-> it.recipe, out |-> it.out, state |-> it.state, due |-> it.due]
          /\ it.recipe \in Recipes /\ it.state \in {"active", "completed"} /\ it.due \in Nat
          /\ IsBinding(stocks, RecipeInfo[it.recipe].out, it.out)

\* An entry moves stocks there are, at a time that has come, and what the
\* resources gain is what its kind says.
Deltas == UNION {[D -> Int] : D \in SUBSET Stocks}
EntryKinds ==
    {"stock-created", "transfer", "transport", "recipe-input", "recipe-output",
     "need-consumption", "project-consumption"}
Entries == [kind : EntryKinds, at : Nat,
            about : Stocks \cup Recipes \cup Citizens \cup Projects \cup {None}, delta : Deltas]
GainsOK(kind, about, gains) ==
    /\ kind \in {"transfer", "transport"} => \A g \in Resources : gains[g] = 0
    /\ kind = "recipe-input" =>
          \A g \in UsedBy(RecipeInfo[about].in) : gains[g] = -RecipeInfo[about].in[g]
    /\ kind = "recipe-output" =>
          \A g \in UsedBy(RecipeInfo[about].out) : gains[g] = RecipeInfo[about].out[g]
    /\ kind = "need-consumption" => \A g \in Resources : gains[g] =< 0
EntryOK(time, stocks, e) ==
    /\ e.at =< time /\ DOMAIN e.delta \subseteq DOMAIN stocks
    /\ GainsOK(e.kind, e.about, ByResource(e.delta))

\* The ledger, from the checkpoint on, is how the stocks came to be what they
\* are, and at no entry was any of them overdrawn.
Share(ledger, s) == [i \in DOMAIN ledger |-> DeltaOf(ledger[i].delta, s)]
Balance(base, ledger, n, s) == DeltaOf(base.stocks, s) + Total(Share(ledger, s), 1..n)
Ledger(time, stocks, base, ledger) ==
    /\ time \in Nat
    /\ DOMAIN base.stocks \subseteq DOMAIN stocks
    /\ \A s \in DOMAIN base.stocks : base.stocks[s] \in Nat
    /\ ledger \in Seq(Entries)
    /\ \A n \in DOMAIN ledger : EntryOK(time, stocks, ledger[n])
    /\ \A s \in DOMAIN stocks :
          /\ \A n \in 0..Len(ledger) : Balance(base, ledger, n, s) >= 0
          /\ stocks[s] = Balance(base, ledger, Len(ledger), s)

\* What the checkpoint and the ledger say a project has consumed is what its
\* milestones say; of a project there is not yet they say nothing.
MilestoneUse(project, p, g) ==
    Total([i \in DOMAIN Plan(p) |-> project.milestones[i].consumed[g]], DOMAIN Plan(p))
Uses(projects, base, ledger) ==
    /\ base.consumed \in [Projects -> [Resources -> Int]]
    /\ \A p \in Projects : \A g \in Resources :
          base.consumed[p][g] + ConsumedIn(ledger, p)[g] =
              IF p \in DOMAIN projects THEN MilestoneUse(projects[p], p, g) ELSE 0

\* A citizen eats once at a time: nothing, or what one entry of the ledger says.
Eaten(delta, class) == - Total(delta, {s \in DOMAIN delta : ResourceOf(s) \in class})
EntriesOf(ledger, p, at) ==
    {i \in DOMAIN ledger : /\ ledger[i].kind = "need-consumption"
                           /\ ledger[i].about = p /\ ledger[i].at = at}
Outcomes == [citizen : Citizens, at : Nat, food : Nat, water : Nat]
MealOK(ledger, o) ==
    LET I == EntriesOf(ledger, o.citizen, o.at) IN
    \/ I = {} /\ o.food = 0 /\ o.water = 0
    \/ \E i \in DOMAIN ledger : /\ I = {i}
                                /\ Eaten(ledger[i].delta, Foods) = o.food
                                /\ Eaten(ledger[i].delta, Waters) = o.water
Meals(time, ledger, outcomes) ==
    /\ outcomes \subseteq Outcomes
    /\ \A o \in outcomes :
          /\ o.at =< time /\ MealOK(ledger, o)
          /\ o.food =< RequiredFood[o.citizen] /\ o.water =< RequiredWater[o.citizen]
          /\ \A q \in outcomes : q.citizen = o.citizen /\ q.at = o.at => q = o
    /\ \A i \in DOMAIN ledger : ledger[i].kind = "need-consumption" =>
          \E o \in outcomes : o.citizen = ledger[i].about /\ o.at = ledger[i].at

\* What a journey has done is the legs behind it and what is done of the next.
Behind(m, leg) == Total(MigrationInfo[m].legs, 1..leg)
OnTheWay(m, j) ==
    /\ j = [leg |-> j.leg, progress |-> j.progress, done |-> j.done]
    /\ j.leg \in 0..Len(MigrationInfo[m].legs) /\ j.progress \in Nat
    /\ j.done = Behind(m, j.leg) + j.progress
    /\ IF AtEnd(m, j) THEN j.progress = 0 ELSE j.progress < MigrationInfo[m].legs[j.leg + 1]
Walks(migrations, journeys) ==
    /\ journeys = [m \in DOMAIN journeys |-> journeys[m]]
    /\ \A m \in DOMAIN journeys :
          OnTheWay(m, journeys[m]) /\ (migrations[m] = "arrived") = AtEnd(m, journeys[m])

AccountsOK(c) ==
    /\ Shelves(c.stocks) /\ Running(c.stocks, c.processes)
    /\ Ledger(c.time, c.stocks, c.base, c.ledger)
    /\ Uses(c.projects, c.base, c.ledger)
    /\ Meals(c.time, c.ledger, c.outcomes)
    /\ Walks(c.migrations, c.journeys)

Bounds(c) == c.time =< MaxTime /\ Len(c.ledger) =< MaxEntries

AccountsInv == KernelInv /\ AccountsOK(now) /\ Bounds(now)

-----------------------------------------------------------------------------
(* Sums *)

\* The element the fold takes next, and the equation it solves.
Picked(T) == CHOOSE x \in T : TRUE
Folds(f, S, it) ==
    it = [T \in SUBSET S |-> IF T = {} THEN 0 ELSE f[Picked(T)] + it[T \ {Picked(T)}]]

\* Among subsets of a finite set one is least.
LEMMA LeastSet ==
    ASSUME NEW S, IsFiniteSet(S), NEW B \in SUBSET (SUBSET S), B # {}
    PROVE  \E T \in B : \A U \in B : U \subseteq T => U = T
<1>. DEFINE F == FiniteSubsetsOf(S)
            R == StrictSubsetOrdering(S)
<1>1. B \subseteq F
  BY FS_Subset DEF FiniteSubsetsOf
<1>2. IsWellFoundedOn(R, F)
  BY FS_StrictSubsetOrderingWellFounded
<1>3. PICK T \in B : \A U \in B : ~ (<<U, T>> \in R)
  <2>. HIDE DEF R, F
  <2>. QED
    BY <1>1, <1>2, WFMin
<1>4. ASSUME NEW U \in B, U \subseteq T, U # T
      PROVE  FALSE
  BY <1>3, <1>4 DEF StrictSubsetOrdering
<1>. QED
  BY <1>3, <1>4

\* A total is what the fold of the library computes: some function that solves
\* its equation, at the whole set.
LEMMA TotalIsFold ==
    ASSUME NEW f, NEW S
    PROVE  Total(f, S) = (CHOOSE it : Folds(f, S, it))[S]
BY DEF Total, MapThenSumSet, MapThenFoldSet, Folds, Picked

\* Two runs of the fold agree where both are defined.
LEMMA FoldsAgree ==
    ASSUME NEW f, NEW S, NEW R, IsFiniteSet(S), NEW i, NEW j, Folds(f, S, i), Folds(f, R, j),
           NEW T, T \subseteq S, T \subseteq R
    PROVE  i[T] = j[T]
<1>. DEFINE B == {U \in SUBSET S : U \subseteq R /\ i[U] # j[U]}
<1>. SUFFICES ASSUME B # {} PROVE FALSE
  OBVIOUS
<1>1. PICK U \in B : \A V \in B : V \subseteq U => V = U
  <2>1. B \in SUBSET (SUBSET S)
    OBVIOUS
  <2>. HIDE DEF B
  <2>. QED
    BY <2>1, LeastSet
<1>2. U \subseteq S /\ U \subseteq R /\ i[U] # j[U]
  BY <1>1
<1>. DEFINE V == U \ {Picked(U)}
<1>3. CASE U = {}
  <2>1. i[{}] = 0 /\ j[{}] = 0
    BY DEF Folds
  <2>. QED
    BY <1>2, <1>3, <2>1
<1>4. CASE U # {}
  <2>1. Picked(U) \in U
    BY <1>4 DEF Picked
  <2>2. V \subseteq U /\ V # U /\ V \subseteq S /\ V \subseteq R
    BY <1>2, <2>1
  <2>3. i[V] = j[V]
    BY <1>1, <2>2
  <2>4. i[U] = f[Picked(U)] + i[V] /\ j[U] = f[Picked(U)] + j[V]
    BY <1>2, <1>4 DEF Folds
  <2>. QED
    BY <1>2, <2>3, <2>4
<1>. QED
  BY <1>3, <1>4

\* The fold runs.
LEMMA FoldRuns ==
    ASSUME NEW f, NEW S, IsFiniteSet(S)
    PROVE  \E it : Folds(f, S, it)
<1>. DEFINE B == {T \in SUBSET S : ~ \E it : Folds(f, T, it)}
<1>. SUFFICES ASSUME B # {} PROVE FALSE
  OBVIOUS
<1>1. PICK T \in B : \A U \in B : U \subseteq T => U = T
  <2>1. B \in SUBSET (SUBSET S)
    OBVIOUS
  <2>. HIDE DEF B
  <2>. QED
    BY <2>1, LeastSet
<1>2. T \subseteq S /\ ~ \E it : Folds(f, T, it)
  BY <1>1
<1>. DEFINE Run(U) == CHOOSE it : Folds(f, U, it)
            V == T \ {Picked(T)}
            g == [U \in SUBSET T |-> IF U = T THEN (IF T = {} THEN 0 ELSE f[Picked(T)] + Run(V)[V])
                                     ELSE Run(U)[U]]
<1>3. \A U \in SUBSET T : U # T => Folds(f, U, Run(U))
  BY <1>1, <1>2
<1>4. ASSUME NEW U \in SUBSET T
      PROVE  g[U] = IF U = {} THEN 0 ELSE f[Picked(U)] + g[U \ {Picked(U)}]
  <2>1. CASE U = T /\ T = {}
    BY <2>1
  <2>2. CASE U = T /\ T # {}
    <3>1. V \subseteq T /\ V # T
      BY <2>2 DEF Picked
    <3>2. g[V] = Run(V)[V]
      BY <3>1
    <3>3. g[U] = f[Picked(U)] + Run(V)[V]
      BY <2>2
    <3>. QED
      BY <2>2, <3>2, <3>3
  <2>3. CASE U # T /\ U = {}
    <3>1. Folds(f, U, Run(U))
      BY <1>3, <2>3
    <3>. DEFINE r == Run(U)
    <3>2. Folds(f, U, r)
      BY <3>1
    <3>3. g[U] = r[U]
      BY <2>3
    <3>. HIDE DEF r, g
    <3>4. r[U] = 0
      BY <2>3, <3>2 DEF Folds
    <3>. QED
      BY <2>3, <3>3, <3>4
  <2>4. CASE U # T /\ U # {}
    <3>. DEFINE W == U \ {Picked(U)}
                r == Run(U)
                q == Run(W)
    <3>1. W \subseteq U /\ W \subseteq T /\ W # T /\ IsFiniteSet(U)
      BY <2>4, <1>2, FS_Subset DEF Picked
    <3>2. Folds(f, U, r) /\ Folds(f, W, q)
      BY <1>3, <2>4, <3>1
    <3>3. g[U] = r[U] /\ g[W] = q[W]
      BY <2>4, <3>1
    <3>. HIDE DEF r, q, g
    <3>4. r[W] = q[W]
      BY <3>1, <3>2, FoldsAgree
    <3>5. r[U] = f[Picked(U)] + r[W]
      BY <2>4, <3>2 DEF Folds
    <3>. QED
      BY <2>4, <3>3, <3>4, <3>5
  <2>. QED
    BY <2>1, <2>2, <2>3, <2>4
<1>5. g = [U \in SUBSET T |-> g[U]]
  OBVIOUS
<1>. HIDE DEF g
<1>6. Folds(f, T, g)
  BY <1>4, <1>5 DEF Folds
<1>. QED
  BY <1>2, <1>6

\* A sum is what is there of the first element chosen and of the others.
LEMMA TotalUnfolds ==
    ASSUME NEW f, NEW S, IsFiniteSet(S)
    PROVE  Total(f, S) = IF S = {} THEN 0 ELSE f[Picked(S)] + Total(f, S \ {Picked(S)})
<1>. DEFINE i == CHOOSE it : Folds(f, S, it)
            R == S \ {Picked(S)}
            j == CHOOSE it : Folds(f, R, it)
<1>1. Total(f, S) = i[S] /\ Total(f, R) = j[R]
  BY TotalIsFold
<1>2. IsFiniteSet(R) /\ R \subseteq S
  BY FS_Subset
<1>3. Folds(f, S, i) /\ Folds(f, R, j)
  BY <1>2, FoldRuns
<1>. HIDE DEF i, j
<1>4. i[R] = j[R]
  BY <1>2, <1>3, FoldsAgree
<1>5. i[S] = IF S = {} THEN 0 ELSE f[Picked(S)] + i[R]
  BY <1>3 DEF Folds
<1>. QED
  BY <1>1, <1>4, <1>5

\* A sum of integers is one.
LEMMA TotalType ==
    ASSUME NEW f, NEW S, IsFiniteSet(S), \A x \in S : f[x] \in Int
    PROVE  Total(f, S) \in Int
<1>. DEFINE B == {T \in SUBSET S : Total(f, T) \notin Int}
<1>. SUFFICES ASSUME B # {} PROVE FALSE
  OBVIOUS
<1>1. PICK T \in B : \A U \in B : U \subseteq T => U = T
  <2>1. B \in SUBSET (SUBSET S)
    OBVIOUS
  <2>. HIDE DEF B
  <2>. QED
    BY <2>1, LeastSet
<1>2. T \subseteq S /\ IsFiniteSet(T) /\ Total(f, T) \notin Int
  BY <1>1, FS_Subset
<1>3. T # {}
  <2>1. T = {} => Total(f, T) = 0
    BY <1>2, TotalUnfolds
  <2>2. Total(f, T) # 0
    BY <1>2
  <2>. QED
    BY <2>1, <2>2
<1>4. Picked(T) \in T
  BY <1>3 DEF Picked
<1>5. Total(f, T \ {Picked(T)}) \in Int
  BY <1>1, <1>4
<1>6. Total(f, T) = f[Picked(T)] + Total(f, T \ {Picked(T)})
  BY <1>2, <1>3, TotalUnfolds
<1>. QED
  BY <1>2, <1>4, <1>5, <1>6

\* Picked element may be taken out first.
LEMMA TotalWithout ==
    ASSUME NEW f, NEW S, IsFiniteSet(S), \A x \in S : f[x] \in Int, NEW e \in S
    PROVE  Total(f, S) = f[e] + Total(f, S \ {e})
<1>. DEFINE B == {T \in SUBSET S : \E x \in T : Total(f, T) # f[x] + Total(f, T \ {x})}
<1>. SUFFICES ASSUME B # {} PROVE FALSE
  OBVIOUS
<1>1. PICK T \in B : \A U \in B : U \subseteq T => U = T
  <2>1. B \in SUBSET (SUBSET S)
    OBVIOUS
  <2>. HIDE DEF B
  <2>. QED
    BY <2>1, LeastSet
<1>2. PICK x \in T : Total(f, T) # f[x] + Total(f, T \ {x})
  BY <1>1
<1>3. T \subseteq S /\ \A U \in SUBSET T : IsFiniteSet(U)
  BY <1>1, FS_Subset
<1>. DEFINE y == Picked(T)
            V == T \ {y}
            W == T \ {x}
            Z == T \ {x, y}
<1>4. y \in T
  BY <1>2 DEF Picked
<1>5. Total(f, T) = f[y] + Total(f, V)
  BY <1>2, <1>3, TotalUnfolds
<1>6. x # y
  BY <1>2, <1>5
<1>. HIDE DEF y
<1>7. Total(f, V) = f[x] + Total(f, V \ {x})
  <2>1. V \in SUBSET S /\ V \notin B /\ x \in V
    BY <1>1, <1>2, <1>3, <1>4, <1>6
  <2>. HIDE DEF V
  <2>. QED
    BY <2>1
<1>8. Total(f, W) = f[y] + Total(f, W \ {y})
  <2>1. W \in SUBSET S /\ W \notin B /\ y \in W
    BY <1>1, <1>2, <1>3, <1>4, <1>6
  <2>. HIDE DEF W
  <2>. QED
    BY <2>1
<1>9. V \ {x} = Z /\ W \ {y} = Z
  OBVIOUS
<1>10. Total(f, Z) \in Int
  BY <1>3, TotalType
<1>11. f[x] \in Int /\ f[y] \in Int
  BY <1>2, <1>3, <1>4
<1>12. Total(f, T) = f[x] + Total(f, W)
  <2>1. Total(f, V) = f[x] + Total(f, Z) /\ Total(f, W) = f[y] + Total(f, Z)
    BY <1>7, <1>8, <1>9
  <2>. HIDE DEF V, W, Z
  <2>. QED
    BY <2>1, <1>5, <1>10, <1>11
<1>. QED
  BY <1>2, <1>12

\* An element that was not there is added.
LEMMA TotalWith ==
    ASSUME NEW f, NEW S, IsFiniteSet(S), \A x \in S : f[x] \in Int, NEW e, e \notin S, f[e] \in Int
    PROVE  Total(f, S \cup {e}) = Total(f, S) + f[e]
<1>. DEFINE R == S \cup {e}
<1>1. IsFiniteSet(R)
  BY FS_AddElement
<1>2. R \ {e} = S /\ e \in R /\ \A x \in R : f[x] \in Int
  OBVIOUS
<1>. DEFINE s == Total(f, S)
            r == Total(f, R)
<1>3. r = f[e] + s
  <2>. HIDE DEF R
  <2>1. Total(f, R) = f[e] + Total(f, R \ {e})
    BY <1>1, <1>2, TotalWithout
  <2>. QED
    BY <1>2, <2>1
<1>4. s \in Int
  BY TotalType
<1>5. r = s + f[e]
  <2>. HIDE DEF r, s
  <2>. QED
    BY <1>3, <1>4
<1>. QED
  BY <1>5

\* A sum of nothing, and of one element.
LEMMA TotalSmall ==
    ASSUME NEW f
    PROVE  Total(f, {}) = 0 /\ \A e : f[e] \in Int => Total(f, {e}) = f[e]
<1>1. Total(f, {}) = 0
  BY TotalUnfolds, FS_EmptySet
<1>2. ASSUME NEW e, f[e] \in Int
      PROVE  Total(f, {e}) = f[e]
  <2>. DEFINE S == {e}
  <2>1. IsFiniteSet(S) /\ e \in S /\ S \ {e} = {} /\ \A x \in S : f[x] \in Int
    BY <1>2, FS_Singleton
  <2>. HIDE DEF S
  <2>2. Total(f, S) = f[e] + Total(f, S \ {e})
    BY <2>1, TotalWithout
  <2>3. Total(f, S) = f[e] + 0
    BY <1>1, <2>1, <2>2
  <2>4. Total(f, S) = f[e]
    BY <1>2, <2>3
  <2>. QED
    BY <2>4 DEF S
<1>. QED
  BY <1>1, <1>2

\* What is added up pointwise is added up in the sum.
LEMMA TotalOfSum ==
    ASSUME NEW f, NEW g, NEW h, NEW S, IsFiniteSet(S),
           \A x \in S : f[x] \in Int /\ g[x] \in Int /\ h[x] = f[x] + g[x]
    PROVE  Total(h, S) = Total(f, S) + Total(g, S)
<1>. DEFINE B == {T \in SUBSET S : Total(h, T) # Total(f, T) + Total(g, T)}
<1>. SUFFICES ASSUME B # {} PROVE FALSE
  OBVIOUS
<1>1. PICK T \in B : \A U \in B : U \subseteq T => U = T
  <2>1. B \in SUBSET (SUBSET S)
    OBVIOUS
  <2>. HIDE DEF B
  <2>. QED
    BY <2>1, LeastSet
<1>2. T \subseteq S /\ IsFiniteSet(T) /\ Total(h, T) # Total(f, T) + Total(g, T)
  BY <1>1, FS_Subset
<1>3. T # {}
  <2>1. (\A k : Total(k, {}) = 0) /\ 0 + 0 = 0
    BY TotalSmall
  <2>. QED
    BY <1>2, <2>1
<1>4. PICK x \in T : TRUE
  BY <1>3
<1>. DEFINE V == T \ {x}
<1>5. Total(h, V) = Total(f, V) + Total(g, V)
  BY <1>1
<1>6. IsFiniteSet(V)
  BY <1>2, FS_Subset
<1>7. \A y \in T : f[y] \in Int /\ g[y] \in Int /\ h[y] \in Int
  BY <1>2
<1>8. Total(f, T) = f[x] + Total(f, V) /\ Total(g, T) = g[x] + Total(g, V)
  BY <1>2, <1>7, TotalWithout
<1>9. Total(h, T) = h[x] + Total(h, V)
  BY <1>2, <1>7, TotalWithout
<1>10. Total(f, V) \in Int /\ Total(g, V) \in Int
  BY <1>6, <1>7, TotalType
<1>11. h[x] = f[x] + g[x] /\ f[x] \in Int /\ g[x] \in Int
  BY <1>2
<1>. HIDE DEF V
<1>. QED
  BY <1>2, <1>5, <1>8, <1>9, <1>10, <1>11

\* Where nothing is, the sum is nothing; what is equal pointwise has equal sums.
LEMMA TotalSame ==
    ASSUME NEW f, NEW S, IsFiniteSet(S)
    PROVE  /\ (\A x \in S : f[x] = 0) => Total(f, S) = 0
           /\ \A g : (\A x \in S : f[x] \in Int /\ g[x] = f[x]) => Total(g, S) = Total(f, S)
<1>1. ASSUME NEW g, \A x \in S : g[x] = 0
      PROVE  Total(g, S) = 0
  <2>. DEFINE s == Total(g, S)
  <2>1. s = s + s
    BY <1>1, TotalOfSum
  <2>2. s \in Int
    BY <1>1, TotalType
  <2>3. s = 0
    <3>. HIDE DEF s
    <3>. QED
      BY <2>1, <2>2
  <2>. QED
    BY <2>3
<1>2. ASSUME NEW g, \A x \in S : f[x] \in Int /\ g[x] = f[x]
      PROVE  Total(g, S) = Total(f, S)
  <2>. DEFINE z == [x \in S |-> 0]
  <2>1. Total(g, S) = Total(f, S) + Total(z, S)
    BY <1>2, TotalOfSum
  <2>2. Total(z, S) = 0
    BY <1>1
  <2>3. Total(f, S) \in Int
    BY <1>2, TotalType
  <2>. QED
    BY <2>1, <2>2, <2>3
<1>. QED
  BY <1>1, <1>2

\* What is nowhere more is not more in the sum.
LEMMA TotalOrder ==
    ASSUME NEW f, NEW g, NEW S, IsFiniteSet(S),
           \A x \in S : f[x] \in Int /\ g[x] \in Int /\ f[x] =< g[x]
    PROVE  Total(f, S) =< Total(g, S)
<1>. DEFINE B == {T \in SUBSET S : ~ (Total(f, T) =< Total(g, T))}
<1>. SUFFICES ASSUME B # {} PROVE FALSE
  OBVIOUS
<1>1. PICK T \in B : \A U \in B : U \subseteq T => U = T
  <2>1. B \in SUBSET (SUBSET S)
    OBVIOUS
  <2>. HIDE DEF B
  <2>. QED
    BY <2>1, LeastSet
<1>2. T \subseteq S /\ IsFiniteSet(T) /\ ~ (Total(f, T) =< Total(g, T))
  BY <1>1, FS_Subset
<1>3. T # {}
  <2>1. (\A k : Total(k, {}) = 0) /\ 0 + 0 = 0
    BY TotalSmall
  <2>. QED
    BY <1>2, <2>1
<1>4. PICK x \in T : TRUE
  BY <1>3
<1>. DEFINE V == T \ {x}
<1>5. Total(f, V) =< Total(g, V)
  BY <1>1
<1>6. IsFiniteSet(V)
  BY <1>2, FS_Subset
<1>7. \A y \in T : f[y] \in Int /\ g[y] \in Int
  BY <1>2
<1>8. Total(f, T) = f[x] + Total(f, V) /\ Total(g, T) = g[x] + Total(g, V)
  BY <1>2, <1>7, TotalWithout
<1>9. Total(f, V) \in Int /\ Total(g, V) \in Int
  BY <1>6, <1>7, TotalType
<1>10. f[x] =< g[x] /\ f[x] \in Int /\ g[x] \in Int
  BY <1>2
<1>. HIDE DEF V
<1>. QED
  BY <1>2, <1>5, <1>8, <1>9, <1>10

\* A sum of naturals is one.
LEMMA TotalNat ==
    ASSUME NEW f, NEW S, IsFiniteSet(S), \A x \in S : f[x] \in Nat
    PROVE  Total(f, S) \in Nat /\ \A x \in S : f[x] =< Total(f, S)
<1>. DEFINE z == [x \in S |-> 0]
<1>1. \A R \in SUBSET S : Total(f, R) \in Nat
  <2>. SUFFICES ASSUME NEW R \in SUBSET S PROVE Total(f, R) \in Nat
    OBVIOUS
  <2>1. IsFiniteSet(R)
    BY FS_Subset
  <2>2. Total(z, R) =< Total(f, R)
    BY <2>1, TotalOrder
  <2>3. Total(z, R) = 0
    BY <2>1, TotalSame
  <2>4. Total(f, R) \in Int
    BY <2>1, TotalType
  <2>. QED
    BY <2>2, <2>3, <2>4
<1>2. ASSUME NEW x \in S
      PROVE  f[x] =< Total(f, S)
  <2>1. Total(f, S) = f[x] + Total(f, S \ {x})
    BY TotalWithout
  <2>2. Total(f, S \ {x}) \in Nat
    BY <1>1
  <2>. QED
    BY <2>1, <2>2
<1>. QED
  BY <1>1, <1>2

\* Two sets that share nothing.
LEMMA TotalOfUnion ==
    ASSUME NEW f, NEW S, NEW R, IsFiniteSet(S), IsFiniteSet(R), S \cap R = {},
           \A x \in S \cup R : f[x] \in Int
    PROVE  Total(f, S \cup R) = Total(f, S) + Total(f, R)
<1>. DEFINE B == {T \in SUBSET R : Total(f, S \cup T) # Total(f, S) + Total(f, T)}
<1>. SUFFICES ASSUME B # {} PROVE FALSE
  OBVIOUS
<1>1. PICK T \in B : \A U \in B : U \subseteq T => U = T
  <2>1. B \in SUBSET (SUBSET R)
    OBVIOUS
  <2>. HIDE DEF B
  <2>. QED
    BY <2>1, LeastSet
<1>2. T \subseteq R /\ IsFiniteSet(T) /\ Total(f, S \cup T) # Total(f, S) + Total(f, T)
  BY <1>1, FS_Subset
<1>3. Total(f, S) \in Int
  BY TotalType
<1>4. T # {}
  <2>. DEFINE s == Total(f, S)
  <2>1. S \cup {} = S /\ Total(f, {}) = 0
    BY TotalSmall
  <2>2. s = s + 0
    <3>. HIDE DEF s
    <3>. QED
      BY <1>3 DEF s
  <2>. QED
    BY <1>2, <2>1, <2>2
<1>5. PICK x \in T : TRUE
  BY <1>4
<1>. DEFINE V == T \ {x}
            W == S \cup V
<1>6. Total(f, W) = Total(f, S) + Total(f, V)
  BY <1>1
<1>7. IsFiniteSet(V) /\ IsFiniteSet(W)
  BY <1>2, FS_Subset, FS_Union
<1>8. x \notin V /\ x \notin W /\ T = V \cup {x} /\ S \cup T = W \cup {x}
  BY <1>2
<1>9. f[x] \in Int /\ (\A y \in V : f[y] \in Int) /\ (\A y \in W : f[y] \in Int)
  BY <1>2
<1>. HIDE DEF V, W
<1>10. Total(f, T) = Total(f, V) + f[x] /\ Total(f, S \cup T) = Total(f, W) + f[x]
  BY <1>7, <1>8, <1>9, TotalWith
<1>11. Total(f, V) \in Int
  BY <1>7, <1>9, TotalType
<1>. QED
  BY <1>2, <1>3, <1>6, <1>9, <1>10, <1>11

\* Only one element counts.
LEMMA TotalOfOne ==
    ASSUME NEW f, NEW S, IsFiniteSet(S), NEW e \in S, f[e] \in Int,
           \A x \in S : x # e => f[x] = 0
    PROVE  Total(f, S) = f[e]
<1>1. Total(f, S) = f[e] + Total(f, S \ {e})
  BY TotalWithout
<1>2. Total(f, S \ {e}) = 0
  <2>1. IsFiniteSet(S \ {e})
    BY FS_Subset
  <2>. QED
    BY <2>1, TotalSame
<1>. QED
  BY <1>1, <1>2

\* The sums over the parts of a set by a key add up.
LEMMA TotalByKey ==
    ASSUME NEW f, NEW S, NEW key, NEW K, IsFiniteSet(S), IsFiniteSet(K),
           \A x \in S : f[x] \in Int
    PROVE  Total([k \in K |-> Total(f, {x \in S : key[x] = k})], K)
               = Total(f, {x \in S : key[x] \in K})
<1>. DEFINE P(k) == {x \in S : key[x] = k}
            Q(L) == {x \in S : key[x] \in L}
            h == [k \in K |-> Total(f, P(k))]
            B == {L \in SUBSET K : Total(h, L) # Total(f, Q(L))}
<1>. SUFFICES ASSUME B # {} PROVE FALSE
  OBVIOUS
<1>1. PICK L \in B : \A U \in B : U \subseteq L => U = L
  <2>1. B \in SUBSET (SUBSET K)
    OBVIOUS
  <2>. HIDE DEF B
  <2>. QED
    BY <2>1, LeastSet
<1>2. L \subseteq K /\ IsFiniteSet(L) /\ Total(h, L) # Total(f, Q(L))
  BY <1>1, FS_Subset
<1>3. \A k : IsFiniteSet(P(k)) /\ P(k) \subseteq S
  BY FS_Subset
<1>4. \A M : IsFiniteSet(Q(M)) /\ Q(M) \subseteq S
  BY FS_Subset
<1>5. \A k \in K : h[k] = Total(f, P(k)) /\ h[k] \in Int
  BY <1>3, TotalType
<1>6. L # {}
  <2>1. Q({}) = {}
    OBVIOUS
  <2>2. Total(h, {}) = 0 /\ Total(f, {}) = 0
    BY TotalSmall
  <2>. QED
    BY <1>2, <2>1, <2>2
<1>7. PICK k \in L : TRUE
  BY <1>6
<1>. DEFINE M == L \ {k}
<1>8. Total(h, M) = Total(f, Q(M))
  BY <1>1
<1>9. Total(h, L) = h[k] + Total(h, M)
  <2>1. \A l \in L : h[l] \in Int
    BY <1>2, <1>5
  <2>. HIDE DEF h
  <2>. QED
    BY <1>2, <2>1, TotalWithout
<1>10. Q(L) = Q(M) \cup P(k) /\ Q(M) \cap P(k) = {}
  OBVIOUS
<1>11. k \in K
  BY <1>2
<1>. HIDE DEF P, Q, h, M
<1>12. \A x \in Q(M) \cup P(k) : f[x] \in Int
  BY <1>3, <1>4
<1>13. Total(f, Q(M) \cup P(k)) = Total(f, Q(M)) + Total(f, P(k))
  BY <1>3, <1>4, <1>10, <1>12, TotalOfUnion
<1>14. Total(f, Q(M)) \in Int
  BY <1>4, <1>12, TotalType
<1>. QED
  BY <1>2, <1>5, <1>8, <1>9, <1>10, <1>11, <1>13, <1>14

-----------------------------------------------------------------------------
(* Stocks and deltas *)

\* There are finitely many stocks.
LEMMA StocksAreFinite == IsFiniteSet(Stocks) /\ IsFiniteSet(Resources)
<1>1. StockOrder \in Seq(Stocks) /\ Range(StockOrder) = Stocks /\ IsFiniteSet(Resources)
  BY CatalogueAssumption DEF ValidCatalogue
<1>2. Len(StockOrder) \in Nat /\ DOMAIN StockOrder = 1..Len(StockOrder)
  BY <1>1
<1>3. IsFiniteSet(DOMAIN StockOrder)
  BY <1>2, FS_Interval
<1>4. StockOrder \in Surjection(DOMAIN StockOrder, Stocks)
  <2>1. StockOrder \in [DOMAIN StockOrder -> Stocks]
    BY <1>1, <1>2
  <2>2. \A s \in Stocks : \E i \in DOMAIN StockOrder : StockOrder[i] = s
    BY <1>1 DEF Range
  <2>. QED
    BY <2>1, <2>2 DEF Surjection
<1>. QED
  BY <1>1, <1>3, <1>4, FS_Surjection

\* The stocks of a delta that hold a resource, and what they gain together.
Of(delta, g) == {s \in DOMAIN delta : ResourceOf(s) = g}

\* What a resource gains is the total over its stocks.
LEMMA GainsAreTotals ==
    ASSUME NEW delta
    PROVE  \A g \in Resources : ByResource(delta)[g] = Total(delta, Of(delta, g))
BY DEF ByResource, Total, Of

\* A delta is a function of stocks to integers.
IsDelta(delta) == DOMAIN delta \subseteq Stocks /\ \A s \in DOMAIN delta : delta[s] \in Int

\* The sums of a delta are integers.
LEMMA DeltaFacts ==
    ASSUME NEW delta, IsDelta(delta)
    PROVE  /\ \A P \in SUBSET DOMAIN delta : IsFiniteSet(P) /\ Total(delta, P) \in Int
           /\ \A g \in Resources : /\ Of(delta, g) \in SUBSET DOMAIN delta
                                   /\ ByResource(delta)[g] \in Int
           /\ \A s : DeltaOf(delta, s) \in Int
<1>1. ASSUME NEW P \in SUBSET DOMAIN delta
      PROVE  IsFiniteSet(P) /\ Total(delta, P) \in Int
  <2>1. IsFiniteSet(P)
    BY StocksAreFinite, FS_Subset DEF IsDelta
  <2>2. \A s \in P : delta[s] \in Int
    BY DEF IsDelta
  <2>. QED
    BY <2>1, <2>2, TotalType
<1>2. \A g \in Resources : Of(delta, g) \in SUBSET DOMAIN delta
  BY DEF Of
<1>3. \A s : DeltaOf(delta, s) \in Int
  BY DEF DeltaOf, IsDelta
<1>. QED
  BY <1>1, <1>2, <1>3, GainsAreTotals

\* Stocks moved by a delta gain what the delta says, resource by resource.
LEMMA MovedGains ==
    ASSUME NEW stocks, NEW delta, NEW moved, IsDelta(stocks), IsDelta(delta),
           DOMAIN delta \subseteq DOMAIN stocks,
           moved = [s \in DOMAIN stocks |-> stocks[s] + DeltaOf(delta, s)],
           NEW g \in Resources
    PROVE  ByResource(moved)[g] = ByResource(stocks)[g] + ByResource(delta)[g]
<1>. DEFINE P == Of(stocks, g)
            Q == Of(delta, g)
            f == [s \in Stocks |-> DeltaOf(delta, s)]
<1>1. Of(moved, g) = P /\ Q \subseteq P /\ P \subseteq DOMAIN stocks /\ P \subseteq Stocks
  BY DEF Of, IsDelta
<1>2. IsFiniteSet(P) /\ IsFiniteSet(Q) /\ IsFiniteSet(P \ Q)
  BY <1>1, StocksAreFinite, FS_Subset
<1>3. \A s \in P : f[s] \in Int /\ stocks[s] \in Int /\ moved[s] = stocks[s] + f[s]
                   /\ moved[s] \in Int
  <2>1. \A s : DeltaOf(delta, s) \in Int
    BY DeltaFacts
  <2>. QED
    BY <1>1, <2>1 DEF IsDelta
<1>4. (\A s \in Q : delta[s] \in Int /\ f[s] = delta[s]) /\ \A s \in P \ Q : f[s] = 0
  BY <1>1 DEF Of, DeltaOf, IsDelta
<1>5. P = Q \cup (P \ Q) /\ Q \cap (P \ Q) = {}
  BY <1>1
<1>. HIDE DEF P, Q, f
<1>6. Total(moved, P) = Total(stocks, P) + Total(f, P)
  BY <1>2, <1>3, TotalOfSum
<1>7. Total(f, Q) = Total(delta, Q)
  BY <1>2, <1>4, TotalSame
<1>8. Total(f, P \ Q) = 0
  BY <1>2, <1>4, TotalSame
<1>9. Total(f, Q \cup (P \ Q)) = Total(f, Q) + Total(f, P \ Q)
  BY <1>2, <1>3, <1>5, TotalOfUnion
<1>10. Total(delta, Q) \in Int
  BY <1>2, <1>4, TotalType
<1>11. Total(f, P) = Total(delta, Q)
  <2>1. Total(f, P) = Total(delta, Q) + 0
    BY <1>5, <1>7, <1>8, <1>9
  <2>. QED
    BY <1>10, <2>1
<1>. QED
  BY <1>1, <1>6, <1>11, GainsAreTotals DEF P, Q

\* One stock changes.
LEMMA OneGains ==
    ASSUME NEW s \in Stocks, NEW q \in Int, NEW delta, delta = [x \in {s} |-> q]
    PROVE  /\ IsDelta(delta) /\ DOMAIN delta = {s} /\ delta[s] = q
           /\ \A g \in Resources :
                 ByResource(delta)[g] = IF g = ResourceOf(s) THEN q ELSE 0
<1>1. IsDelta(delta) /\ DOMAIN delta = {s} /\ delta[s] = q
  BY DEF IsDelta
<1>2. ASSUME NEW g \in Resources
      PROVE  ByResource(delta)[g] = IF g = ResourceOf(s) THEN q ELSE 0
  <2>1. CASE g = ResourceOf(s)
    <3>1. Of(delta, g) = {s}
      BY <1>1, <2>1 DEF Of
    <3>. QED
      BY <1>1, <2>1, <3>1, GainsAreTotals, TotalSmall
  <2>2. CASE g # ResourceOf(s)
    <3>1. Of(delta, g) = {}
      BY <1>1, <2>2 DEF Of
    <3>. QED
      BY <2>2, <3>1, GainsAreTotals, TotalSmall
  <2>. QED
    BY <2>1, <2>2
<1>. QED
  BY <1>1, <1>2

\* What a transfer takes from one stock it gives to another of the resource.
LEMMA LineGains ==
    ASSUME NEW a \in Stocks, NEW b \in Stocks, a # b, ResourceOf(a) = ResourceOf(b), NEW q \in Int,
           NEW delta, delta = Line(a, b, q)
    PROVE  /\ IsDelta(delta) /\ DOMAIN delta = {a, b} /\ delta[a] = -q /\ delta[b] = q
           /\ \A g \in Resources : ByResource(delta)[g] = 0
<1>1. IsDelta(delta) /\ DOMAIN delta = {a, b} /\ delta[a] = -q /\ delta[b] = q
  BY DEF IsDelta, Line
<1>2. ASSUME NEW g \in Resources
      PROVE  ByResource(delta)[g] = 0
  <2>1. CASE g = ResourceOf(a)
    <3>1. Of(delta, g) = {a} \cup {b} /\ b \notin {a}
      BY <1>1, <2>1 DEF Of
    <3>2. IsFiniteSet({a}) /\ delta[b] \in Int /\ \A x \in {a} : delta[x] \in Int
      BY <1>1, FS_Singleton
    <3>3. Total(delta, {a}) = -q
      BY <1>1, TotalSmall
    <3>4. Total(delta, {a} \cup {b}) = Total(delta, {a}) + delta[b]
      BY <3>1, <3>2, TotalWith
    <3>5. -q + q = 0
      OBVIOUS
    <3>. QED
      BY <1>1, <3>1, <3>3, <3>4, <3>5, GainsAreTotals
  <2>2. CASE g # ResourceOf(a)
    <3>1. Of(delta, g) = {}
      BY <1>1, <2>2 DEF Of
    <3>2. Total(delta, {}) = 0
      BY TotalSmall
    <3>. QED
      BY <3>1, <3>2, GainsAreTotals
  <2>. QED
    BY <2>1, <2>2
<1>. QED
  BY <1>1, <1>2

\* What a recipe takes or gives, stock by stock and resource by resource: a
\* stock has one resource, so no two flows meet in it.
LEMMA BoundGains ==
    ASSUME NEW stocks, DOMAIN stocks \subseteq Stocks, NEW flow \in [Resources -> Nat], NEW bind,
           IsBinding(stocks, flow, bind), NEW sign \in {1, -1},
           NEW delta, delta = Bound(flow, bind, sign)
    PROVE  /\ IsDelta(delta) /\ DOMAIN delta \subseteq DOMAIN stocks
           /\ \A s \in DOMAIN delta : delta[s] = sign * flow[ResourceOf(s)]
           /\ \A g \in UsedBy(flow) : bind[g] \in DOMAIN delta
           /\ \A g \in Resources : ByResource(delta)[g] = sign * flow[g]
<1>. DEFINE D == {bind[g] : g \in UsedBy(flow)}
            Sharing(s) == {g \in UsedBy(flow) : bind[g] = s}
<1>1. delta = [s \in D |-> sign * Total(flow, Sharing(s))]
  BY DEF Bound, UsedBy, Total
<1>2. \A s \in D : ResourceOf(s) \in UsedBy(flow) /\ Sharing(s) = {ResourceOf(s)}
  BY DEF IsBinding
<1>3. \A s \in D : Total(flow, Sharing(s)) = flow[ResourceOf(s)]
  <2>1. \A s \in D : flow[ResourceOf(s)] \in Int
    BY <1>2 DEF UsedBy
  <2>. QED
    BY <1>2, <2>1, TotalSmall
<1>4. \A n \in Nat : sign * n \in Int
  OBVIOUS
<1>5. DOMAIN delta = D /\ D \subseteq DOMAIN stocks /\ \A s \in D : delta[s] = sign * flow[ResourceOf(s)]
  BY <1>1, <1>3 DEF IsBinding
<1>6. IsDelta(delta)
  BY <1>2, <1>4, <1>5 DEF IsDelta, UsedBy
<1>7. ASSUME NEW g \in Resources
      PROVE  ByResource(delta)[g] = sign * flow[g]
  <2>1. CASE g \in UsedBy(flow)
    <3>1. Of(delta, g) = {bind[g]} /\ bind[g] \in D /\ ResourceOf(bind[g]) = g
      BY <1>5, <2>1 DEF Of, IsBinding
    <3>2. delta[bind[g]] = sign * flow[g] /\ delta[bind[g]] \in Int
      BY <1>5, <1>6, <3>1 DEF IsDelta
    <3>3. Total(delta, {bind[g]}) = delta[bind[g]]
      BY <3>2, TotalSmall
    <3>. QED
      BY <3>1, <3>2, <3>3, GainsAreTotals
  <2>2. CASE g \notin UsedBy(flow)
    <3>1. Of(delta, g) = {}
      BY <1>2, <1>5, <2>2 DEF Of
    <3>2. sign * flow[g] = 0
      <4>1. flow[g] = 0
        BY <2>2 DEF UsedBy
      <4>. QED
        BY <4>1
    <3>. QED
      BY <3>1, <3>2, GainsAreTotals, TotalSmall
  <2>. QED
    BY <2>1, <2>2
<1>. QED
  BY <1>5, <1>6, <1>7

-----------------------------------------------------------------------------
(* The ledger *)

\* What an entry is, once its delta is one.
LEMMA EntryFacts ==
    ASSUME NEW ledger, ledger \in Seq(Entries)
    PROVE  /\ Len(ledger) \in Nat /\ DOMAIN ledger = 1..Len(ledger)
           /\ \A i \in DOMAIN ledger : ledger[i] \in Entries /\ IsDelta(ledger[i].delta)
           /\ \A s : \A i \in DOMAIN ledger : Share(ledger, s)[i] \in Int
<1>1. Len(ledger) \in Nat /\ DOMAIN ledger = 1..Len(ledger)
  OBVIOUS
<1>2. \A i \in DOMAIN ledger : ledger[i] \in Entries
  BY <1>1
<1>3. \A d \in Deltas : IsDelta(d)
  BY DEF Deltas, IsDelta
<1>4. \A e \in Entries : e.delta \in Deltas
  BY DEF Entries
<1>5. \A i \in DOMAIN ledger : IsDelta(ledger[i].delta)
  BY <1>2, <1>3, <1>4
<1>6. ASSUME NEW s, NEW i \in DOMAIN ledger
      PROVE  Share(ledger, s)[i] \in Int
  BY <1>5, DeltaFacts DEF Share
<1>. QED
  BY <1>1, <1>2, <1>5, <1>6

\* A ledger with one more entry.
OneMore(longer, ledger, e) ==
    /\ longer \in Seq(Entries) /\ Len(longer) = Len(ledger) + 1
    /\ DOMAIN longer = 1..(Len(ledger) + 1)
    /\ \A i \in DOMAIN ledger : longer[i] = ledger[i]
    /\ longer[Len(ledger) + 1] = e

\* Append makes the ledger with one more entry.
LEMMA AppendIsOneMore ==
    ASSUME NEW ledger, ledger \in Seq(Entries), NEW e \in Entries
    PROVE  OneMore(Append(ledger, e), ledger, e)
BY DEF OneMore

\* A checkpoint opens with a number for each of its stocks.
IsOpening(base) == IsDelta(base.stocks)

\* The balance up to an entry depends on the entries up to it.
GoesOn(base, ledger, longer, e, s) ==
    /\ \A n \in 0..Len(ledger) : Balance(base, longer, n, s) = Balance(base, ledger, n, s)
    /\ Balance(base, longer, Len(ledger) + 1, s)
          = Balance(base, ledger, Len(ledger), s) + DeltaOf(e.delta, s)
    /\ \A n \in 0..Len(ledger) : Balance(base, ledger, n, s) \in Int

\* The balances before the new entry stay, and the one after it has its delta.
LEMMA BalanceGoesOn ==
    ASSUME NEW base, IsOpening(base), NEW ledger, ledger \in Seq(Entries), NEW e \in Entries,
           NEW s, NEW longer, OneMore(longer, ledger, e)
    PROVE  GoesOn(base, ledger, longer, e, s)
<1>. DEFINE N == Len(ledger)
            f == Share(ledger, s)
            h == Share(longer, s)
            b == DeltaOf(base.stocks, s)
<1>1. longer \in Seq(Entries) /\ Len(longer) = N + 1 /\ N \in Nat
  BY DEF OneMore
<1>2. (\A i \in 1..N : longer[i] = ledger[i]) /\ longer[N + 1] = e
  BY DEF OneMore
<1>3. DOMAIN ledger = 1..N /\ DOMAIN longer = 1..(N + 1)
  BY DEF OneMore
<1>4. (\A i \in 1..N : f[i] \in Int) /\ \A i \in 1..(N + 1) : h[i] \in Int
  BY <1>1, <1>3, EntryFacts
<1>5. (\A i \in 1..N : h[i] = f[i]) /\ h[N + 1] = DeltaOf(e.delta, s)
  BY <1>1, <1>2, <1>3 DEF Share
<1>6. b \in Int
  BY DeltaFacts DEF IsOpening
<1>. HIDE DEF N, f, h, b
<1>7. ASSUME NEW n \in 0..N
      PROVE  IsFiniteSet(1..n) /\ Total(h, 1..n) = Total(f, 1..n) /\ Total(f, 1..n) \in Int
  <2>1. IsFiniteSet(1..n) /\ 1..n \subseteq 1..N
    <3>1. n \in Nat /\ n =< N
      BY <1>1
    <3>2. IsFiniteSet(1..n)
      BY <3>1, FS_Interval
    <3>3. 1..n \subseteq 1..N
      BY <1>1, <3>1
    <3>. QED
      BY <3>2, <3>3
  <2>2. \A i \in 1..n : f[i] \in Int /\ h[i] = f[i]
    BY <1>4, <1>5, <2>1
  <2>. QED
    BY <2>1, <2>2, TotalSame, TotalType
<1>8. Total(h, 1..(N + 1)) = Total(f, 1..N) + h[N + 1]
  <2>. DEFINE k == N + 1
              S == 1..N
  <2>1. 1..k = S \cup {k} /\ k \notin S /\ N \in 0..N /\ k \in 1..k
    BY <1>1
  <2>2. Total(h, S \cup {k}) = Total(h, S) + h[k]
    <3>1. (\A i \in S : h[i] \in Int) /\ h[k] \in Int
      BY <1>1, <1>4, <2>1
    <3>2. IsFiniteSet(S)
      BY <1>7, <2>1
    <3>. HIDE DEF S, k
    <3>. QED
      BY <2>1, <3>1, <3>2, TotalWith
  <2>. QED
    BY <1>7, <2>1, <2>2
<1>9. ASSUME NEW n \in 0..N
      PROVE  /\ Balance(base, longer, n, s) = Balance(base, ledger, n, s)
             /\ Balance(base, ledger, n, s) \in Int
  BY <1>6, <1>7 DEF Balance, f, h, b
<1>10. Balance(base, longer, N + 1, s) = Balance(base, ledger, N, s) + DeltaOf(e.delta, s)
  <2>. DEFINE t == Total(f, 1..N)
              u == Total(h, 1..(N + 1))
              x == h[N + 1]
  <2>1. t \in Int /\ u = t + x /\ x \in Int
    BY <1>1, <1>4, <1>7, <1>8
  <2>2. Balance(base, longer, N + 1, s) = b + u /\ Balance(base, ledger, N, s) = b + t
    BY DEF Balance, f, h, b
  <2>. HIDE DEF t, u, x
  <2>3. b + u = (b + t) + x
    BY <1>6, <2>1
  <2>. QED
    BY <1>5, <2>2, <2>3 DEF x
<1>. QED
  BY <1>9, <1>10 DEF N, GoesOn

\* An entry and the stocks it moves.
LEMMA LedgerGrows ==
    ASSUME NEW time, NEW stocks, NEW base, NEW ledger, Ledger(time, stocks, base, ledger),
           IsDelta(stocks), NEW at \in Nat, at >= time, NEW kind \in EntryKinds,
           NEW about \in Stocks \cup Recipes \cup Citizens \cup Projects \cup {None},
           NEW delta, IsDelta(delta), delta = [s \in DOMAIN delta |-> delta[s]],
           DOMAIN delta \subseteq DOMAIN stocks, GainsOK(kind, about, ByResource(delta)),
           NEW moved, moved = [s \in DOMAIN stocks |-> stocks[s] + DeltaOf(delta, s)],
           \A s \in DOMAIN stocks : moved[s] >= 0
    PROVE  Ledger(at, moved, base, Append(ledger, Entry(kind, at, about, delta)))
<1>. DEFINE e == Entry(kind, at, about, delta)
            longer == Append(ledger, e)
            N == Len(ledger)
<1>1. e.kind = kind /\ e.at = at /\ e.about = about /\ e.delta = delta
  BY DEF Entry
<1>2. e \in Entries
  <2>1. delta \in Deltas
    BY DEF Deltas, IsDelta
  <2>. QED
    BY <2>1 DEF Entries, Entry
<1>3. ledger \in Seq(Entries) /\ IsOpening(base) /\ time \in Nat
  BY DEF Ledger, IsDelta, IsOpening
<1>11. OneMore(longer, ledger, e)
  BY <1>2, <1>3, AppendIsOneMore
<1>. HIDE DEF e, longer
<1>4. longer \in Seq(Entries) /\ Len(longer) = N + 1 /\ N \in Nat /\ DOMAIN longer = 1..(N + 1)
  BY <1>3, <1>11 DEF OneMore
<1>5. (\A i \in 1..N : longer[i] = ledger[i]) /\ longer[N + 1] = e /\ DOMAIN ledger = 1..N
  BY <1>3, <1>11 DEF OneMore
<1>6. DOMAIN moved = DOMAIN stocks
  OBVIOUS
<1>10. ASSUME NEW s
       PROVE  /\ \A n \in 0..N : Balance(base, longer, n, s) = Balance(base, ledger, n, s)
              /\ Balance(base, longer, N + 1, s) = Balance(base, ledger, N, s) + DeltaOf(e.delta, s)
  <2>1. GoesOn(base, ledger, longer, e, s)
    BY <1>2, <1>3, <1>11, BalanceGoesOn
  <2>. QED
    BY <2>1 DEF GoesOn
<1>7. ASSUME NEW n \in DOMAIN longer
      PROVE  EntryOK(at, moved, longer[n])
  <2>1. CASE n = N + 1
    BY <1>1, <1>5, <1>6, <2>1 DEF EntryOK
  <2>2. CASE n # N + 1
    <3>1. n \in 1..N
      BY <1>4, <2>2
    <3>2. EntryOK(time, stocks, ledger[n]) /\ ledger[n] \in Entries
      BY <1>3, <1>5, <3>1, EntryFacts DEF Ledger
    <3>3. ledger[n].at \in Nat
      BY <3>2 DEF Entries
    <3>. QED
      BY <1>3, <1>5, <1>6, <3>1, <3>2, <3>3 DEF EntryOK
  <2>. QED
    BY <2>1, <2>2
<1>8. ASSUME NEW s \in DOMAIN moved
      PROVE  /\ \A n \in 0..(N + 1) : Balance(base, longer, n, s) >= 0
             /\ moved[s] = Balance(base, longer, N + 1, s)
  <2>1. /\ \A n \in 0..N : Balance(base, longer, n, s) = Balance(base, ledger, n, s)
        /\ Balance(base, longer, N + 1, s) = Balance(base, ledger, N, s) + DeltaOf(delta, s)
    BY <1>1, <1>10
  <2>2. /\ \A n \in 0..N : Balance(base, ledger, n, s) >= 0
        /\ stocks[s] = Balance(base, ledger, N, s)
    BY <1>6 DEF Ledger
  <2>3. moved[s] = stocks[s] + DeltaOf(delta, s) /\ moved[s] >= 0
    BY <1>6
  <2>4. moved[s] = Balance(base, longer, N + 1, s)
    BY <2>1, <2>2, <2>3
  <2>5. \A n \in 0..(N + 1) : n \in 0..N \/ n = N + 1
    BY <1>4
  <2>. QED
    BY <2>1, <2>2, <2>3, <2>4, <2>5
<1>9. Ledger(at, moved, base, longer)
  <2>1. DOMAIN base.stocks \subseteq DOMAIN moved /\ \A s \in DOMAIN base.stocks : base.stocks[s] \in Nat
    BY <1>6 DEF Ledger
  <2>. HIDE DEF N
  <2>. QED
    BY <1>4, <1>7, <1>8, <2>1 DEF Ledger
<1>. QED
  BY <1>9 DEF e, longer

\* A later time; a stock that was not there and is empty.
LEMMA LedgerWaits ==
    ASSUME NEW time, NEW stocks, NEW base, NEW ledger, Ledger(time, stocks, base, ledger)
    PROVE  /\ \A at \in Nat : at >= time => Ledger(at, stocks, base, ledger)
           /\ \A s \in Stocks \ DOMAIN stocks : Ledger(time, With(stocks, s, 0), base, ledger)
<1>1. ledger \in Seq(Entries) /\ time \in Nat
  BY DEF Ledger
<1>2. ASSUME NEW at \in Nat, at >= time
      PROVE  Ledger(at, stocks, base, ledger)
  <2>1. \A n \in DOMAIN ledger : ledger[n].at \in Nat /\ EntryOK(time, stocks, ledger[n])
    <3>1. \A e \in Entries : e.at \in Nat
      BY DEF Entries
    <3>. QED
      BY <1>1, <3>1, EntryFacts DEF Ledger
  <2>2. \A n \in DOMAIN ledger : EntryOK(at, stocks, ledger[n])
    BY <1>1, <1>2, <2>1 DEF EntryOK
  <2>. QED
    BY <2>2 DEF Ledger
<1>3. ASSUME NEW s \in Stocks \ DOMAIN stocks
      PROVE  Ledger(time, With(stocks, s, 0), base, ledger)
  <2>. DEFINE x == With(stocks, s, 0)
              N == Len(ledger)
  <2>1. DOMAIN x = DOMAIN stocks \cup {s} /\ x[s] = 0 /\ \A y \in DOMAIN stocks : x[y] = stocks[y]
    BY <1>3 DEF With
  <2>. HIDE DEF x
  <2>2. N \in Nat /\ DOMAIN ledger = 1..N
    BY <1>1
  <2>3. \A n \in DOMAIN ledger : EntryOK(time, x, ledger[n]) /\ s \notin DOMAIN ledger[n].delta
    BY <2>1 DEF Ledger, EntryOK
  <2>4. ASSUME NEW n \in 0..N
        PROVE  Balance(base, ledger, n, s) = 0
    <3>1. IsFiniteSet(1..n) /\ \A i \in 1..n : i \in DOMAIN ledger
      BY <2>2, FS_Interval
    <3>2. \A i \in 1..n : Share(ledger, s)[i] = 0
      BY <2>3, <3>1 DEF Share, DeltaOf
    <3>3. Total(Share(ledger, s), 1..n) = 0
      BY <3>1, <3>2, TotalSame
    <3>4. DeltaOf(base.stocks, s) = 0
      BY DEF DeltaOf, Ledger
    <3>. QED
      BY <3>3, <3>4 DEF Balance
  <2>5. ASSUME NEW y \in DOMAIN x
        PROVE  /\ \A n \in 0..N : Balance(base, ledger, n, y) >= 0
               /\ x[y] = Balance(base, ledger, N, y)
    <3>1. CASE y = s
      BY <2>1, <2>2, <2>4, <3>1
    <3>2. CASE y # s
      BY <2>1, <3>2 DEF Ledger
    <3>. QED
      BY <3>1, <3>2
  <2>6. DOMAIN base.stocks \subseteq DOMAIN x /\ \A y \in DOMAIN base.stocks : base.stocks[y] \in Nat
    BY <2>1 DEF Ledger
  <2>7. Ledger(time, x, base, ledger)
    BY <1>1, <2>3, <2>5, <2>6 DEF Ledger
  <2>. QED
    BY <2>7 DEF x
<1>. QED
  BY <1>2, <1>3

\* A checkpoint: the stocks as they are, and nothing since.
LEMMA LedgerOpens ==
    ASSUME NEW time \in Nat, NEW stocks, Shelves(stocks), NEW base, base.stocks = stocks
    PROVE  Ledger(time, stocks, base, <<>>)
<1>1. \A s \in DOMAIN stocks : stocks[s] \in Nat
  BY CatalogueAssumption DEF Shelves, ValidCatalogue
<1>2. ASSUME NEW s \in DOMAIN stocks
      PROVE  Balance(base, <<>>, 0, s) = stocks[s]
  <2>1. 1..0 = {} /\ Total(Share(<<>>, s), {}) = 0
    BY TotalSmall
  <2>2. DeltaOf(base.stocks, s) = stocks[s]
    BY DEF DeltaOf
  <2>3. stocks[s] + 0 = stocks[s]
    BY <1>1
  <2>. QED
    BY <2>1, <2>2, <2>3 DEF Balance
<1>3. <<>> \in Seq(Entries) /\ Len(<<>>) = 0 /\ DOMAIN <<>> = {} /\ 0..0 = {0}
  OBVIOUS
<1>. QED
  BY <1>1, <1>2, <1>3 DEF Ledger

-----------------------------------------------------------------------------
(* Loops *)

\* What is so of the first and goes on from each to the next is so of all.
LEMMA Induct ==
    ASSUME NEW N \in Nat, NEW S, 0 \in S, \A i \in 1..N : i - 1 \in S => i \in S
    PROVE  0..N \subseteq S
<1>. DEFINE B == {i \in 0..N : i \notin S}
<1>. SUFFICES ASSUME B # {} PROVE FALSE
  OBVIOUS
<1>1. PICK n \in B : \A k \in B : n =< k
  <2>1. B \in SUBSET Nat
    OBVIOUS
  <2>. HIDE DEF B
  <2>. QED
    BY <2>1, LeastOf
<1>2. n \in 1..N /\ n - 1 \in 0..N /\ ~ (n =< n - 1)
  BY <1>1
<1>3. n - 1 \in S
  BY <1>1, <1>2
<1>. QED
  BY <1>1, <1>2, <1>3

\* A loop runs through values it does not leave.
IsRun(f, N, base, next) == f = [i \in 0..N |-> IF i = 0 THEN base ELSE next[i][f[i - 1]]]

\* There is such a run when every step leads from one of the values to another.
LEMMA ChainRuns ==
    ASSUME NEW U, NEW base \in U, NEW N \in Nat, NEW next, next \in [1..N -> [U -> U]]
    PROVE  \E f \in [0..N -> U] : IsRun(f, N, base, next)
<1>. DEFINE S == {n \in 0..N : \E f \in [0..n -> U] : IsRun(f, n, base, next)}
<1>1. 0 \in S
  <2>. DEFINE g == [i \in 0..0 |-> base]
  <2>1. g \in [0..0 -> U] /\ IsRun(g, 0, base, next)
    BY DEF IsRun
  <2>. QED
    BY <2>1
<1>2. ASSUME NEW n \in 1..N, n - 1 \in S
      PROVE  n \in S
  <2>1. PICK f \in [0..(n - 1) -> U] : IsRun(f, n - 1, base, next)
    BY <1>2
  <2>. DEFINE g == [i \in 0..n |-> IF i = n THEN next[n][f[n - 1]] ELSE f[i]]
  <2>2. f[n - 1] \in U /\ next[n] \in [U -> U]
    BY <2>1
  <2>3. g \in [0..n -> U]
    BY <2>1, <2>2
  <2>4. ASSUME NEW i \in 0..n
        PROVE  g[i] = IF i = 0 THEN base ELSE next[i][g[i - 1]]
    <3>1. CASE i = n
      <4>1. g[n - 1] = f[n - 1]
        OBVIOUS
      <4>. QED
        BY <3>1, <4>1
    <3>2. CASE i = 0
      <4>1. g[0] = f[0] /\ f[0] = base
        BY <2>1 DEF IsRun
      <4>. QED
        BY <3>2, <4>1
    <3>3. CASE i # n /\ i # 0
      <4>1. i \in 0..(n - 1) /\ i - 1 \in 0..n /\ i - 1 # n
        BY <3>3
      <4>2. g[i] = f[i] /\ g[i - 1] = f[i - 1]
        BY <3>3, <4>1
      <4>3. f[i] = next[i][f[i - 1]]
        BY <2>1, <3>3, <4>1 DEF IsRun
      <4>. QED
        BY <3>3, <4>2, <4>3
    <3>. QED
      BY <3>1, <3>2, <3>3
  <2>5. IsRun(g, n, base, next)
    <3>1. g = [i \in 0..n |-> g[i]]
      OBVIOUS
    <3>. HIDE DEF g
    <3>. QED
      BY <2>4, <3>1 DEF IsRun
  <2>. HIDE DEF g
  <2>. QED
    BY <2>3, <2>5
<1>. HIDE DEF S
<1>3. 0..N \subseteq S
  BY <1>1, <1>2, Induct
<1>4. N \in S
  BY <1>3
<1>. QED
  BY <1>4 DEF S

-----------------------------------------------------------------------------
(* What the ledger says a project has used *)

UseOf(acc, e, p) ==
    IF e.kind = "project-consumption" /\ e.about = p
    THEN [g \in Resources |-> acc[g] - ByResource(e.delta)[g]] ELSE acc
Books0 == [g \in Resources |-> 0]
UseRun(f, ledger, p) ==
    /\ f \in [0..Len(ledger) -> [Resources -> Int]] /\ f[0] = Books0
    /\ \A i \in 1..Len(ledger) : f[i] = UseOf(f[i - 1], ledger[i], p)

\* The loop over the entries.
LEMMA ConsumedRuns ==
    ASSUME NEW ledger, ledger \in Seq(Entries), NEW p
    PROVE  \E f : UseRun(f, ledger, p) /\ ConsumedIn(ledger, p) = f[Len(ledger)]
<1>. DEFINE N == Len(ledger)
            U == [Resources -> Int]
            Then(u, e) == CHOOSE v \in {UseOf(w, e, p) : w \in {u}} : TRUE
            Runs(f) == f = [i \in 0..N |-> IF i = 0 THEN Books0 ELSE Then(f[i - 1], ledger[i])]
            F == CHOOSE f : Runs(f)
            next == [i \in 1..N |-> [u \in U |-> UseOf(u, ledger[i], p)]]
<1>1. ConsumedIn(ledger, p) = F[N]
  BY DEF ConsumedIn, Chain, UseOf, Books0
<1>2. \A u, e : Then(u, e) = UseOf(u, e, p)
  <2>. SUFFICES ASSUME NEW u, NEW e PROVE Then(u, e) = UseOf(u, e, p)
    OBVIOUS
  <2>. DEFINE y == UseOf(u, e, p)
  <2>1. {UseOf(w, e, p) : w \in {u}} = {y}
    OBVIOUS
  <2>2. (CHOOSE v \in {y} : TRUE) = y
    OBVIOUS
  <2>. QED
    BY <2>1, <2>2
<1>3. N \in Nat /\ Books0 \in U
  BY DEF Books0
<1>4. next \in [1..N -> [U -> U]]
  <2>1. ASSUME NEW i \in 1..N, NEW u \in U
        PROVE  UseOf(u, ledger[i], p) \in U
    <3>1. \A g \in Resources : ByResource(ledger[i].delta)[g] \in Int
      BY EntryFacts, DeltaFacts
    <3>. QED
      BY <3>1 DEF UseOf
  <2>. QED
    BY <2>1
<1>. HIDE DEF next, Then
<1>5. PICK f \in [0..N -> U] : IsRun(f, N, Books0, next)
  <2>. HIDE DEF U, N
  <2>. QED
    BY <1>3, <1>4, ChainRuns
<1>6. f = [i \in 0..N |-> IF i = 0 THEN Books0 ELSE Then(f[i - 1], ledger[i])]
  <2>1. ASSUME NEW i \in 0..N
        PROVE  f[i] = IF i = 0 THEN Books0 ELSE Then(f[i - 1], ledger[i])
    <3>1. f[i] = IF i = 0 THEN Books0 ELSE next[i][f[i - 1]]
      BY <1>5 DEF IsRun
    <3>2. CASE i # 0
      <4>1. i \in 1..N /\ i - 1 \in 0..N
        BY <1>3, <3>2
      <4>2. f[i - 1] \in U
        BY <4>1
      <4>3. next[i][f[i - 1]] = UseOf(f[i - 1], ledger[i], p)
        BY <4>1, <4>2 DEF next
      <4>. QED
        BY <1>2, <3>1, <3>2, <4>3
    <3>. QED
      BY <3>1, <3>2
  <2>2. f = [i \in 0..N |-> f[i]]
    OBVIOUS
  <2>. HIDE DEF N, U
  <2>. QED
    BY <2>1, <2>2
<1>7. Runs(F)
  BY <1>6
<1>. HIDE DEF F
<1>8. \A i \in 0..N : F[i] = f[i]
  <2>. DEFINE S == {i \in 0..N : F[i] = f[i]}
  <2>1. 0 \in S
    BY <1>3, <1>6, <1>7
  <2>2. \A i \in 1..N : i - 1 \in S => i \in S
    BY <1>3, <1>6, <1>7
  <2>. HIDE DEF S, N
  <2>3. 0..N \subseteq S
    BY <1>3, <2>1, <2>2, Induct
  <2>. QED
    BY <2>3 DEF S
<1>9. F[N] = f[N]
  BY <1>3, <1>8
<1>10. UseRun(f, ledger, p)
  <2>1. f[0] = Books0
    BY <1>3, <1>6
  <2>2. \A i \in 1..N : f[i] = UseOf(f[i - 1], ledger[i], p)
    BY <1>2, <1>3, <1>6
  <2>. QED
    BY <2>1, <2>2 DEF UseRun
<1>. QED
  BY <1>1, <1>9, <1>10

\* Nothing is used in an empty ledger, and each entry adds what it says.
LEMMA ConsumedGoesOn ==
    ASSUME NEW ledger, ledger \in Seq(Entries), NEW p
    PROVE  /\ ConsumedIn(ledger, p) \in [Resources -> Int]
           /\ ledger = <<>> => ConsumedIn(ledger, p) = Books0
           /\ \A longer, e : OneMore(longer, ledger, e) =>
                 ConsumedIn(longer, p) = UseOf(ConsumedIn(ledger, p), e, p)
<1>. DEFINE N == Len(ledger)
<1>1. PICK f : UseRun(f, ledger, p) /\ ConsumedIn(ledger, p) = f[N]
  BY ConsumedRuns
<1>2. N \in Nat
  OBVIOUS
<1>3. ConsumedIn(ledger, p) \in [Resources -> Int]
  BY <1>1, <1>2 DEF UseRun
<1>4. ledger = <<>> => ConsumedIn(ledger, p) = Books0
  BY <1>1 DEF UseRun
<1>5. ASSUME NEW longer, NEW e, OneMore(longer, ledger, e)
      PROVE  ConsumedIn(longer, p) = UseOf(ConsumedIn(ledger, p), e, p)
  <2>1. longer \in Seq(Entries) /\ Len(longer) = N + 1 /\ \A i \in 1..N : longer[i] = ledger[i]
    BY <1>5 DEF OneMore
  <2>2. PICK g : UseRun(g, longer, p) /\ ConsumedIn(longer, p) = g[Len(longer)]
    BY <2>1, ConsumedRuns
  <2>. DEFINE S == {i \in 0..N : f[i] = g[i]}
  <2>3. 0 \in S
    BY <1>1, <1>2, <2>2 DEF UseRun
  <2>4. ASSUME NEW i \in 1..N, i - 1 \in S
        PROVE  i \in S
    <3>1. i \in 1..(N + 1) /\ longer[i] = ledger[i] /\ f[i - 1] = g[i - 1]
      BY <1>2, <2>1, <2>4
    <3>2. f[i] = UseOf(f[i - 1], ledger[i], p)
      BY <1>1 DEF UseRun
    <3>3. g[i] = UseOf(g[i - 1], longer[i], p)
      BY <2>1, <2>2, <3>1 DEF UseRun
    <3>. QED
      BY <3>1, <3>2, <3>3
  <2>. HIDE DEF S
  <2>5. 0..N \subseteq S
    <3>. HIDE DEF N
    <3>. QED
      BY <1>2, <2>3, <2>4, Induct
  <2>6. f[N] = g[N]
    BY <1>2, <2>5 DEF S
  <2>7. g[N + 1] = UseOf(g[N], e, p)
    <3>1. N + 1 \in 1..(N + 1) /\ (N + 1) - 1 = N /\ longer[N + 1] = e
      BY <1>2, <1>5 DEF OneMore
    <3>2. g[N + 1] = UseOf(g[(N + 1) - 1], longer[N + 1], p)
      BY <2>1, <2>2, <3>1 DEF UseRun
    <3>. QED
      BY <3>1, <3>2
  <2>. QED
    BY <1>1, <2>1, <2>2, <2>6, <2>7
<1>. QED
  BY <1>3, <1>4, <1>5

-----------------------------------------------------------------------------
(* What a citizen takes *)

\* The least of two numbers.
LEMMA MinOfTwo ==
    ASSUME NEW a \in Int, NEW b \in Int
    PROVE  Min({a, b}) = IF a =< b THEN a ELSE b
<1>. DEFINE x == IF a =< b THEN a ELSE b
            S == {a, b}
<1>1. x \in S /\ \A y \in S : x =< y
  OBVIOUS
<1>2. \A z \in S : (\A y \in S : z =< y) => z = x
  OBVIOUS
<1>. HIDE DEF x, S
<1>3. (CHOOSE z \in S : \A y \in S : z =< y) = x
  BY <1>1, <1>2
<1>. QED
  BY <1>3 DEF Min, x, S

\* What has been taken from the first n stocks: from some of those in reach, of
\* each something, but not of what is reserved, and as much as is no longer left.
Draws == [left : Nat, delta : Deltas]
Drawn(quantities, reach, required, n, acc) ==
    /\ acc \in Draws /\ acc.left =< required
    /\ DOMAIN acc.delta \subseteq reach
    /\ \A s \in DOMAIN acc.delta : \E k \in 1..n : StockOrder[k] = s
    /\ \A s \in DOMAIN acc.delta :
          /\ acc.delta[s] < 0 /\ quantities[s] + acc.delta[s] >= StockInfo[s].reserved
    /\ Total(acc.delta, DOMAIN acc.delta) = acc.left - required

\* The deltas of the entries are deltas.
LEMMA DeltasAre ==
    ASSUME NEW d \in Deltas
    PROVE  IsDelta(d) /\ d = [s \in DOMAIN d |-> d[s]]
<1>1. PICK D \in SUBSET Stocks : d \in [D -> Int]
  BY DEF Deltas
<1>. QED
  BY <1>1 DEF IsDelta

\* One more stock.
LEMMA TakeDraws ==
    ASSUME NEW quantities, Shelves(quantities), NEW reach, reach \subseteq DOMAIN quantities,
           NEW required \in Nat, NEW n \in 1..Len(StockOrder), NEW acc,
           Drawn(quantities, reach, required, n - 1, acc), StockOrder[n] \in reach
    PROVE  Drawn(quantities, reach, required, n, Take(quantities, acc, StockOrder[n]))
<1>. DEFINE s == StockOrder[n]
            x == quantities[s] - StockInfo[s].reserved
            k == Min({acc.left, x})
            d == acc.delta
            w == With(d, s, -k)
            next == Take(quantities, acc, s)
<1>1. /\ StockOrder \in Seq(Stocks) /\ IsInjective(StockOrder)
      /\ StockInfo[s].reserved \in Nat /\ StockInfo[s].capacity \in Nat
  BY CatalogueAssumption DEF ValidCatalogue, Shelves
<1>2. x \in Nat /\ quantities[s] \in Nat /\ s \in Stocks
  <2>1. s \in DOMAIN quantities
    OBVIOUS
  <2>2. quantities[s] \in StockInfo[s].reserved..StockInfo[s].capacity /\ s \in Stocks
    BY <2>1 DEF Shelves
  <2>. QED
    BY <1>1, <2>2
<1>3. acc.left \in Nat /\ d \in Deltas /\ acc.left =< required
  BY DEF Drawn, Draws
<1>4. k \in Nat /\ k =< acc.left /\ k =< x
  BY <1>2, <1>3, MinOfTwo
<1>5. s \notin DOMAIN d
  <2>1. ASSUME s \in DOMAIN d
        PROVE  FALSE
    <3>1. PICK m \in 1..(n - 1) : StockOrder[m] = s
      BY <2>1 DEF Drawn
    <3>2. m \in DOMAIN StockOrder /\ n \in DOMAIN StockOrder /\ m # n
      BY <1>1
    <3>. QED
      BY <1>1, <3>1, <3>2 DEF IsInjective
  <2>. QED
    BY <2>1
<1>6. IsDelta(d) /\ d = [y \in DOMAIN d |-> d[y]]
  BY <1>3, DeltasAre
<1>7. \A m \in 1..(n - 1) : m \in 1..n
  OBVIOUS
<1>8. CASE ~ (k > 0)
  <2>1. next = acc
    BY <1>8 DEF Take
  <2>. QED
    BY <1>7, <2>1 DEF Drawn
<1>9. CASE k > 0
  <2>1. next = [left |-> acc.left - k, delta |-> w]
    BY <1>9 DEF Take
  <2>2. DOMAIN w = DOMAIN d \cup {s} /\ w[s] = -k /\ \A y \in DOMAIN d : w[y] = d[y]
    BY <1>5 DEF With
  <2>3. acc.left - k \in Nat /\ acc.left - k =< required /\ -k \in Int /\ -k < 0
    BY <1>3, <1>4, <1>9
  <2>4. quantities[s] + (-k) >= StockInfo[s].reserved
    BY <1>1, <1>2, <1>4
  <2>5. w \in [DOMAIN d \cup {s} -> Int]
    BY <1>6, <2>3 DEF With, IsDelta
  <2>6. w \in Deltas
    <3>. DEFINE D == DOMAIN d \cup {s}
    <3>1. D \in SUBSET Stocks /\ w \in [D -> Int]
      BY <1>2, <1>6, <2>5 DEF IsDelta
    <3>. HIDE DEF D, w
    <3>. QED
      BY <3>1 DEF Deltas
  <2>7. Total(w, DOMAIN w) = (acc.left - k) - required
    <3>1. IsFiniteSet(DOMAIN d) /\ Total(d, DOMAIN d) \in Int
      BY <1>6, DeltaFacts
    <3>2. \A y \in DOMAIN d : d[y] \in Int /\ w[y] \in Int
      BY <1>6, <2>2 DEF IsDelta
    <3>3. Total(w, DOMAIN d) = Total(d, DOMAIN d)
      BY <2>2, <3>1, <3>2, TotalSame
    <3>4. Total(w, DOMAIN d \cup {s}) = Total(w, DOMAIN d) + w[s]
      <4>. HIDE DEF w, d, s
      <4>. QED
        BY <1>5, <2>2, <2>3, <3>1, <3>2, TotalWith
    <3>5. Total(d, DOMAIN d) = acc.left - required
      BY DEF Drawn
    <3>6. Total(w, DOMAIN w) = (acc.left - required) + (-k)
      BY <2>2, <3>3, <3>4, <3>5
    <3>. HIDE DEF w, k
    <3>. QED
      BY <1>3, <1>4, <3>6
  <2>8. \A y \in DOMAIN w : \E m \in 1..n : StockOrder[m] = y
    <3>1. \A y \in DOMAIN d : \E m \in 1..(n - 1) : StockOrder[m] = y
      BY DEF Drawn
    <3>. QED
      BY <1>7, <2>2, <3>1
  <2>9. \A y \in DOMAIN w : w[y] < 0 /\ quantities[y] + w[y] >= StockInfo[y].reserved
    <3>1. \A y \in DOMAIN d : d[y] < 0 /\ quantities[y] + d[y] >= StockInfo[y].reserved
      BY DEF Drawn
    <3>. HIDE DEF w, d, k
    <3>. QED
      BY <2>2, <2>3, <2>4, <3>1
  <2>10. DOMAIN w \subseteq reach
    BY <2>2 DEF Drawn
  <2>. DEFINE l == acc.left - k
  <2>. HIDE DEF w, k, next, l
  <2>11. next = [left |-> l, delta |-> w] /\ l \in Nat /\ l =< required
    BY <2>1, <2>3 DEF l
  <2>12. next \in Draws /\ next.left = l /\ next.delta = w
    BY <2>6, <2>11 DEF Draws
  <2>13. Total(w, DOMAIN w) = l - required
    BY <2>7 DEF l
  <2>14. Drawn(quantities, reach, required, n, next)
    BY <2>8, <2>9, <2>10, <2>11, <2>12, <2>13 DEF Drawn
  <2>. QED
    BY <2>14 DEF next
<1>. QED
  BY <1>8, <1>9

\* The whole loop: what is taken is what is no longer left of what was required,
\* from stocks in reach, none of which goes below what is reserved in it.
LEMMA TakenDraws ==
    ASSUME NEW c, NEW quantities, Shelves(quantities), NEW p,
           NEW stocks \in SUBSET DOMAIN quantities,
           NEW class, NEW required \in Nat
    PROVE  \E acc : /\ acc = Taken(c, quantities, p, stocks, class, required)
                    /\ Drawn(quantities, InReach(c, p, stocks, class), required,
                             Len(StockOrder), acc)
<1>. DEFINE N == Len(StockOrder)
            reach == InReach(c, p, stocks, class)
            base == [left |-> required, delta |-> <<>>]
            One(acc, s) == IF s \in reach THEN Take(quantities, acc, s) ELSE acc
            Then(u, s) == CHOOSE v \in {One(w, s) : w \in {u}} : TRUE
            Runs(f) == f = [i \in 0..N |-> IF i = 0 THEN base ELSE Then(f[i - 1], StockOrder[i])]
            F == CHOOSE f : Runs(f)
            OK(i, acc) == Drawn(quantities, reach, required, i, acc)
            U == {acc \in Draws : TRUE}
            next == [i \in 1..N |-> [u \in U |-> IF OK(i - 1, u) THEN One(u,
           StockOrder[i]) ELSE base]]
<1>1. Taken(c, quantities, p, stocks, class, required) = F[N]
  BY DEF Taken, Chain
<1>2. \A u, s : Then(u, s) = One(u, s)
  <2>. SUFFICES ASSUME NEW u, NEW s PROVE Then(u, s) = One(u, s)
    OBVIOUS
  <2>. DEFINE y == One(u, s)
  <2>1. {One(w, s) : w \in {u}} = {y}
    OBVIOUS
  <2>. HIDE DEF One
  <2>2. (CHOOSE v \in {y} : TRUE) = y
    OBVIOUS
  <2>. QED
    BY <2>1, <2>2
<1>3. N \in Nat /\ reach \subseteq DOMAIN quantities
  <2>1. N \in Nat
    BY CatalogueAssumption DEF ValidCatalogue
  <2>. QED
    BY <2>1 DEF InReach
<1>4. base \in U /\ OK(0, base)
  <2>. DEFINE e == <<>>
  <2>1. e \in Deltas /\ DOMAIN e = {} /\ Total(e, {}) = 0
    <3>1. e \in [{} -> Int] /\ {} \in SUBSET Stocks /\ DOMAIN e = {}
      OBVIOUS
    <3>2. Total(e, {}) = 0
      BY TotalSmall
    <3>. HIDE DEF e
    <3>. QED
      BY <3>1, <3>2 DEF Deltas
  <2>2. base = [left |-> required, delta |-> e]
    OBVIOUS
  <2>3. required - required = 0 /\ required =< required
    OBVIOUS
  <2>. HIDE DEF e, base
  <2>4. base \in Draws /\ base.left = required /\ base.delta = e
    BY <2>1, <2>2 DEF Draws
  <2>. QED
    BY <2>1, <2>3, <2>4 DEF Drawn
<1>5. \A i \in 1..N : \A u : OK(i - 1, u) => OK(i, One(u, StockOrder[i]))
  <2>. SUFFICES ASSUME NEW i \in 1..N, NEW u, OK(i - 1, u)
                PROVE  OK(i, One(u, StockOrder[i]))
    OBVIOUS
  <2>1. CASE StockOrder[i] \in reach
    <3>1. Drawn(quantities, reach, required, i, Take(quantities, u, StockOrder[i]))
      <4>. HIDE DEF reach
      <4>. QED
        BY <1>3, <2>1, TakeDraws
    <3>. QED
      BY <2>1, <3>1
  <2>2. CASE StockOrder[i] \notin reach
    <3>1. \A k \in 1..(i - 1) : k \in 1..i
      OBVIOUS
    <3>2. OK(i, u)
      BY <3>1 DEF Drawn
    <3>. QED
      BY <2>2, <3>2
  <2>. QED
    BY <2>1, <2>2
<1>6. \A i \in Int : \A u : OK(i, u) => u \in U
  BY DEF Drawn
<1>. HIDE DEF Then, One, OK, base, U
<1>7. next \in [1..N -> [U -> U]]
  <2>1. ASSUME NEW i \in 1..N, NEW u \in U
        PROVE  (IF OK(i - 1, u) THEN One(u, StockOrder[i]) ELSE base) \in U
    BY <1>4, <1>5, <1>6
  <2>. QED
    BY <2>1
<1>. HIDE DEF next
<1>8. PICK f \in [0..N -> U] : IsRun(f, N, base, next)
  <2>. HIDE DEF N
  <2>. QED
    BY <1>3, <1>4, <1>7, ChainRuns
<1>9. \A i \in 0..N : f[i] = IF i = 0 THEN base ELSE next[i][f[i - 1]]
  BY <1>8 DEF IsRun
<1>10. \A i \in 1..N : OK(i - 1, f[i - 1]) => f[i] = One(f[i - 1], StockOrder[i])
  <2>. SUFFICES ASSUME NEW i \in 1..N, OK(i - 1, f[i - 1])
                PROVE  f[i] = One(f[i - 1], StockOrder[i])
    OBVIOUS
  <2>1. i \in 0..N /\ i # 0 /\ i - 1 \in 0..N /\ f[i - 1] \in U
    BY <1>3, <1>8
  <2>2. f[i] = next[i][f[i - 1]]
    BY <1>9, <2>1
  <2>. QED
    BY <2>1, <2>2 DEF next
<1>11. \A i \in 0..N : OK(i, f[i])
  <2>. DEFINE S == {i \in 0..N : OK(i, f[i])}
  <2>1. 0 \in S
    BY <1>3, <1>4, <1>9
  <2>2. ASSUME NEW i \in 1..N, i - 1 \in S
        PROVE  i \in S
    BY <1>3, <1>5, <1>10, <2>2
  <2>. HIDE DEF S, N
  <2>3. 0..N \subseteq S
    BY <1>3, <2>1, <2>2, Induct
  <2>. QED
    BY <2>3 DEF S
<1>12. f = [i \in 0..N |-> IF i = 0 THEN base ELSE Then(f[i - 1], StockOrder[i])]
  <2>1. ASSUME NEW i \in 0..N
        PROVE  f[i] = IF i = 0 THEN base ELSE Then(f[i - 1], StockOrder[i])
    <3>1. CASE i # 0
      <4>1. i \in 1..N /\ i - 1 \in 0..N
        BY <1>3, <3>1
      <4>. QED
        BY <1>2, <1>10, <1>11, <3>1, <4>1
    <3>. QED
      BY <1>9, <3>1
  <2>2. f = [i \in 0..N |-> f[i]]
    BY <1>8
  <2>. HIDE DEF N
  <2>. QED
    BY <2>1, <2>2
<1>13. Runs(F)
  BY <1>12
<1>. HIDE DEF F
<1>14. \A i \in 0..N : F[i] = f[i]
  <2>. DEFINE S == {i \in 0..N : F[i] = f[i]}
  <2>1. 0 \in S
    BY <1>3, <1>12, <1>13
  <2>2. \A i \in 1..N : i - 1 \in S => i \in S
    BY <1>3, <1>12, <1>13
  <2>. HIDE DEF S, N
  <2>3. 0..N \subseteq S
    BY <1>3, <2>1, <2>2, Induct
  <2>. QED
    BY <2>3 DEF S
<1>15. OK(N, F[N])
  BY <1>3, <1>11, <1>14
<1>. QED
  BY <1>1, <1>15 DEF OK

-----------------------------------------------------------------------------
(* Journeys *)

\* The legs of a migration are lengths.
LEMMA LegFacts ==
    ASSUME NEW m \in Migrations
    PROVE  /\ MigrationInfo[m].legs \in Seq(Nat \ {0}) /\ Len(MigrationInfo[m].legs) \in Nat
           /\ \A i \in 1..Len(MigrationInfo[m].legs) :
                 MigrationInfo[m].legs[i] \in Nat /\ MigrationInfo[m].legs[i] > 0
BY CatalogueAssumption DEF ValidCatalogue

\* The legs behind, one more at a time.
LEMMA BehindGoesOn ==
    ASSUME NEW m \in Migrations
    PROVE  /\ Behind(m, 0) = 0
           /\ \A k \in 0..Len(MigrationInfo[m].legs) : Behind(m, k) \in Nat
           /\ \A k \in 1..Len(MigrationInfo[m].legs) :
                 Behind(m, k) = Behind(m, k - 1) + MigrationInfo[m].legs[k]
<1>. DEFINE legs == MigrationInfo[m].legs
            N == Len(legs)
<1>1. N \in Nat /\ \A i \in 1..N : legs[i] \in Nat
  BY LegFacts
<1>. HIDE DEF legs, N
<1>2. Total(legs, 1..0) = 0
  <2>1. 1..0 = {}
    OBVIOUS
  <2>. QED
    BY <2>1, TotalSmall
<1>3. ASSUME NEW k \in 0..N
      PROVE  Total(legs, 1..k) \in Nat
  <2>1. IsFiniteSet(1..k)
    BY <1>1, FS_Interval
  <2>2. \A i \in 1..k : legs[i] \in Nat
    BY <1>1
  <2>. QED
    BY <2>1, <2>2, TotalNat
<1>4. ASSUME NEW k \in 1..N
      PROVE  Total(legs, 1..k) = Total(legs, 1..(k - 1)) + legs[k]
  <2>. DEFINE S == 1..(k - 1)
  <2>1. 1..k = S \cup {k} /\ k \notin S /\ \A i \in S : i \in 1..N
    BY <1>1
  <2>2. IsFiniteSet(S)
    BY <1>1, FS_Interval
  <2>3. (\A i \in S : legs[i] \in Int) /\ legs[k] \in Int
    BY <1>1, <2>1
  <2>4. Total(legs, S \cup {k}) = Total(legs, S) + legs[k]
    <3>. HIDE DEF S
    <3>. QED
      BY <2>1, <2>2, <2>3, TotalWith
  <2>. QED
    BY <2>1, <2>4
<1>. QED
  BY <1>2, <1>3, <1>4 DEF Behind, legs, N

\* The audit adds up the legs behind in a loop.
AddedUp(progress, legs) == Chain(LAMBDA a, b : a + b, progress, legs)

\* That loop computes what a journey has behind it.
LEMMA LegsAddUp ==
    ASSUME NEW m \in Migrations, NEW leg \in 0..Len(MigrationInfo[m].legs), NEW progress \in Nat
    PROVE  AddedUp(progress, SubSeq(MigrationInfo[m].legs, 1, leg)) = Behind(m, leg) + progress
<1>. DEFINE legs == MigrationInfo[m].legs
            seq == SubSeq(legs, 1, leg)
            N == Len(seq)
            Then(u, k) == CHOOSE v \in {w + k : w \in {u}} : TRUE
            Runs(f) == f = [i \in 0..N |-> IF i = 0 THEN progress ELSE Then(f[i - 1], seq[i])]
            F == CHOOSE f : Runs(f)
            f == [i \in 0..N |-> Behind(m, i) + progress]
<1>1. AddedUp(progress, seq) = F[N]
  BY DEF AddedUp, Chain
<1>2. \A u, k : Then(u, k) = u + k
  <2>. SUFFICES ASSUME NEW u, NEW k PROVE Then(u, k) = u + k
    OBVIOUS
  <2>. DEFINE y == u + k
  <2>1. {w + k : w \in {u}} = {y}
    OBVIOUS
  <2>. HIDE DEF y
  <2>2. (CHOOSE v \in {y} : TRUE) = y
    OBVIOUS
  <2>. QED
    BY <2>1, <2>2 DEF y
<1>3. N = leg /\ leg \in Nat /\ (\A i \in 1..N : seq[i] = legs[i])
  BY LegFacts
<1>. HIDE DEF Then, seq, N
<1>4. \A i \in 0..N : i \in 0..Len(legs)
  BY <1>3, LegFacts
<1>5. Behind(m, 0) = 0 /\ \A i \in 0..N : Behind(m, i) \in Nat
  BY <1>4, BehindGoesOn
<1>6. \A i \in 1..N : Behind(m, i) = Behind(m, i - 1) + legs[i] /\ legs[i] \in Nat
  BY <1>3, <1>4, BehindGoesOn, LegFacts
<1>7. ASSUME NEW i \in 0..N
      PROVE  f[i] = IF i = 0 THEN progress ELSE Then(f[i - 1], seq[i])
  <2>1. CASE i = 0
    BY <1>5, <2>1
  <2>2. CASE i # 0
    <3>1. i \in 1..N /\ i - 1 \in 0..N
      BY <1>3, <2>2
    <3>. DEFINE x == Behind(m, i)
                y == Behind(m, i - 1)
                l == legs[i]
    <3>2. f[i] = x + progress /\ f[i - 1] = y + progress
      BY <3>1
    <3>3. x = y + l /\ x \in Nat /\ y \in Nat /\ l \in Nat
      BY <1>5, <1>6, <3>1
    <3>4. Then(f[i - 1], seq[i]) = (y + progress) + l
      BY <1>2, <1>3, <3>1, <3>2
    <3>. HIDE DEF x, y, l
    <3>5. x + progress = (y + progress) + l
      BY <3>3
    <3>. QED
      BY <2>2, <3>2, <3>4, <3>5
  <2>. QED
    BY <2>1, <2>2
<1>8. Runs(f)
  <2>1. f = [i \in 0..N |-> f[i]]
    OBVIOUS
  <2>. HIDE DEF f
  <2>. QED
    BY <1>7, <2>1
<1>. HIDE DEF f
<1>9. Runs(F)
  BY <1>8
<1>. HIDE DEF F
<1>10. \A i \in 0..N : F[i] = f[i]
  <2>. DEFINE S == {i \in 0..N : F[i] = f[i]}
  <2>1. 0 \in S
    BY <1>3, <1>8, <1>9
  <2>2. \A i \in 1..N : i - 1 \in S => i \in S
    BY <1>3, <1>8, <1>9
  <2>. HIDE DEF S
  <2>3. 0..N \subseteq S
    BY <1>3, <2>1, <2>2, Induct
  <2>. QED
    BY <2>3 DEF S
<1>11. F[N] = Behind(m, leg) + progress
  BY <1>3, <1>10 DEF f
<1>. QED
  BY <1>1, <1>11 DEF seq

\* One stride of the loop of a day's walk: the rest of the budget is spent on
\* the leg that is next, as far as it goes.
Strides == [left : Nat, j : [leg : Nat, progress : Nat, done : Nat]]
Strode(m, first, k, acc) ==
    /\ acc \in Strides /\ OnTheWay(m, acc.j)
    /\ acc.left = 0 \/ acc.j.leg = first + k
Stride(acc, units) ==
    LET n == Min({acc.left, units - acc.j.progress})
        on == acc.j.progress + n = units
    IN  IF acc.left = 0 THEN acc
        ELSE [left |-> acc.left - n,
              j |-> [leg |-> IF on THEN acc.j.leg + 1 ELSE acc.j.leg,
                     progress |-> IF on THEN 0 ELSE acc.j.progress + n,
                     done |-> acc.j.done + n]]

\* A stride keeps what is so of the strides before it.
LEMMA StrideGoesOn ==
    ASSUME NEW m \in Migrations, NEW first \in Nat, NEW k \in Nat \ {0}, NEW acc,
           Strode(m, first, k - 1, acc), first + k =< Len(MigrationInfo[m].legs)
    PROVE  Strode(m, first, k, Stride(acc, MigrationInfo[m].legs[first + k]))
<1>. DEFINE legs == MigrationInfo[m].legs
            l == first + k
            units == legs[l]
            g == acc.j.leg
            p == acc.j.progress
            d == acc.j.done
            left == acc.left
            n == Min({left, units - p})
            next == Stride(acc, units)
<1>1. left \in Nat /\ g \in Nat /\ p \in Nat /\ d \in Nat /\ OnTheWay(m, acc.j)
  BY DEF Strode, Strides
<1>2. CASE left = 0
  <2>1. next = acc
    BY <1>2 DEF Stride
  <2>2. Strode(m, first, k, acc)
    BY <1>2 DEF Strode
  <2>. QED
    BY <2>1, <2>2
<1>3. CASE left # 0
  <2>1. g + 1 = l /\ l \in 1..Len(legs)
    BY <1>1, <1>3, LegFacts DEF Strode
  <2>2. units \in Nat /\ units > 0 /\ Len(legs) \in Nat
    BY <2>1, LegFacts
  <2>3. ~ AtEnd(m, acc.j)
    BY <1>1, <2>1, <2>2 DEF AtEnd
  <2>4. p < units /\ d = Behind(m, g) + p
    BY <1>1, <2>1, <2>3 DEF OnTheWay
  <2>5. Behind(m, l) = Behind(m, g) + units /\ Behind(m, g) \in Nat
    <3>1. l - 1 = g /\ g \in 0..Len(legs)
      BY <1>1, <2>1
    <3>. QED
      BY <2>1, <3>1, BehindGoesOn
  <2>6. n = IF left =< units - p THEN left ELSE units - p
    BY <1>1, <2>2, MinOfTwo
  <2>7. n \in Nat /\ n > 0 /\ n =< left /\ p + n =< units
    <3>. HIDE DEF n, units, p, left
    <3>. QED
      BY <1>1, <1>3, <2>2, <2>4, <2>6
  <2>8. CASE p + n = units
    <3>. DEFINE j == [leg |-> g + 1, progress |-> 0, done |-> d + n]
                r == left - n
    <3>1. next = [left |-> r, j |-> j]
      BY <1>3, <2>8 DEF Stride
    <3>2. j.leg = l /\ j.progress = 0 /\ j.done = d + n
      BY <2>1
    <3>3. d + n = Behind(m, l) + 0
      <4>. DEFINE b == Behind(m, g)
                  e == Behind(m, l)
      <4>1. b \in Nat /\ d = b + p /\ e = b + units
        BY <2>4, <2>5
      <4>. HIDE DEF b, e, n, p, d, units
      <4>2. d + n = e + 0
        BY <1>1, <2>2, <2>7, <2>8, <4>1
      <4>. QED
        BY <4>2 DEF e
    <3>4. AtEnd(m, j) \/ 0 < legs[j.leg + 1]
      <4>1. CASE l = Len(legs)
        BY <3>2, <4>1 DEF AtEnd
      <4>2. CASE l # Len(legs)
        <5>1. l + 1 \in 1..Len(legs)
          BY <2>1, <2>2, <4>2
        <5>. QED
          BY <3>2, <5>1, LegFacts
      <4>. QED
        BY <4>1, <4>2
    <3>5. j = [leg |-> j.leg, progress |-> j.progress, done |-> j.done]
      OBVIOUS
    <3>6. j \in [leg : Nat, progress : Nat, done : Nat] /\ r \in Nat
      <4>1. g + 1 \in Nat /\ d + n \in Nat /\ left - n \in Nat
        <5>. HIDE DEF n, g, d, left
        <5>. QED
          BY <1>1, <2>7
      <4>. QED
        BY <4>1
    <3>. HIDE DEF j, r, n
    <3>7. OnTheWay(m, j)
      BY <2>1, <2>2, <3>2, <3>3, <3>4, <3>5 DEF OnTheWay
    <3>8. next \in Strides /\ next.j = j
      BY <3>1, <3>6 DEF Strides
    <3>9. Strode(m, first, k, next)
      BY <3>2, <3>7, <3>8 DEF Strode
    <3>. QED
      BY <3>9
  <2>9. CASE p + n # units
    <3>. DEFINE j == [leg |-> g, progress |-> p + n, done |-> d + n]
                r == left - n
    <3>1. next = [left |-> r, j |-> j]
      BY <1>3, <2>9 DEF Stride
    <3>2. j.leg = g /\ j.progress = p + n /\ j.done = d + n
      OBVIOUS
    <3>3. d + n = Behind(m, g) + (p + n) /\ r = 0 /\ p + n < units /\ p + n \in Nat /\ d + n \in Nat
      <4>. DEFINE b == Behind(m, g)
      <4>1. b \in Nat /\ d = b + p
        BY <2>4, <2>5
      <4>. HIDE DEF b, n, p, d, units, left
      <4>2. d + n = b + (p + n) /\ left - n = 0 /\ p + n < units /\ p + n \in Nat /\ d + n \in Nat
        BY <1>1, <2>2, <2>6, <2>7, <2>9, <4>1
      <4>. QED
        BY <4>2 DEF b
    <3>4. g + 1 = l /\ ~ AtEnd(m, j) /\ g \in 0..Len(legs)
      BY <1>1, <2>1, <2>3, <3>2 DEF AtEnd
    <3>5. j = [leg |-> j.leg, progress |-> j.progress, done |-> j.done]
      OBVIOUS
    <3>6. j \in [leg : Nat, progress : Nat, done : Nat] /\ r \in Nat
      BY <1>1, <3>3
    <3>. HIDE DEF j, r, n
    <3>7. OnTheWay(m, j)
      BY <3>2, <3>3, <3>4, <3>5 DEF OnTheWay
    <3>8. next \in Strides /\ next.j = j /\ next.left = 0
      BY <3>1, <3>3, <3>6 DEF Strides
    <3>9. Strode(m, first, k, next)
      BY <3>7, <3>8 DEF Strode
    <3>. QED
      BY <3>9
  <2>. QED
    BY <2>8, <2>9
<1>. QED
  BY <1>2, <1>3

\* A day's walk keeps the journey's own account, leg after leg.
LEMMA WalkedIsOnTheWay ==
    ASSUME NEW m \in Migrations, NEW j, OnTheWay(m, j), NEW budget \in Nat
    PROVE  OnTheWay(m, Walked(m, j, budget))
<1>. DEFINE legs == MigrationInfo[m].legs
            first == j.leg
            seq == SubSeq(legs, first + 1, Len(legs))
            N == Len(seq)
            base == [left |-> budget, j |-> j]
            Then(u, k) == CHOOSE v \in {Stride(w, k) : w \in {u}} : TRUE
            Runs(f) == f = [i \in 0..N |-> IF i = 0 THEN base ELSE Then(f[i - 1], seq[i])]
            F == CHOOSE f : Runs(f)
            OK(i, acc) == Strode(m, first, i, acc)
            next == [i \in 1..N |-> [u \in Strides |-> IF OK(i - 1, u) THEN Stride(u,
           seq[i]) ELSE base]]
<1>1. Walked(m, j, budget) = F[N].j
  BY DEF Walked, Chain, Stride
<1>2. \A u, k : Then(u, k) = Stride(u, k)
  <2>. SUFFICES ASSUME NEW u, NEW k PROVE Then(u, k) = Stride(u, k)
    OBVIOUS
  <2>. DEFINE y == Stride(u, k)
  <2>1. {Stride(w, k) : w \in {u}} = {y}
    OBVIOUS
  <2>2. (CHOOSE v \in {y} : TRUE) = y
    OBVIOUS
  <2>. QED
    BY <2>1, <2>2
<1>3. /\ first \in 0..Len(legs) /\ Len(legs) \in Nat /\ legs \in Seq(Nat \ {0})
      /\ j = [leg |-> j.leg, progress |-> j.progress, done |-> j.done]
      /\ j.progress \in Nat /\ j.done \in Nat
  <2>1. Behind(m, j.leg) \in Nat /\ first \in 0..Len(legs)
    BY BehindGoesOn DEF OnTheWay
  <2>. QED
    BY <2>1, LegFacts DEF OnTheWay
<1>4. N = Len(legs) - first /\ N \in Nat /\ \A i \in 1..N : seq[i] = legs[first + i]
  <2>. DEFINE S == Nat \ {0}
              L == Len(legs)
              k == first + 1
  <2>1. k \in Int /\ L \in Int /\ \A i \in k..L : legs[i] \in S
    BY <1>3
  <2>. HIDE DEF legs, first, S, L, k
  <2>2. /\ Len(seq) = IF k =< L THEN L - k + 1 ELSE 0
        /\ \A i \in 1..(L - k + 1) : seq[i] = legs[k + i - 1]
    BY <2>1, SubSeqProperties DEF k, L
  <2>. HIDE DEF seq
  <2>3. first \in 0..L /\ L \in Nat
    BY <1>3 DEF L
  <2>4. Len(seq) = L - first /\ L - first \in Nat
    BY <2>2, <2>3 DEF k
  <2>5. ASSUME NEW i \in 1..(L - first)
        PROVE  seq[i] = legs[first + i]
    <3>1. i \in 1..(L - k + 1) /\ k + i - 1 = first + i
      BY <2>3 DEF k
    <3>. QED
      BY <2>2, <3>1
  <2>. QED
    BY <2>4, <2>5 DEF L
<1>5. base \in Strides /\ OK(0, base)
  <2>1. j \in [leg : Nat, progress : Nat, done : Nat]
    BY <1>3
  <2>2. base \in Strides /\ base.j = j /\ base.left = budget
    BY <2>1 DEF Strides
  <2>3. j.leg = first + 0
    BY <1>3
  <2>. HIDE DEF base, first
  <2>. QED
    BY <2>2, <2>3 DEF Strode
<1>. HIDE DEF base, seq, N
<1>6. \A i \in 1..N : \A u : OK(i - 1, u) => OK(i, Stride(u, seq[i]))
  <2>. SUFFICES ASSUME NEW i \in 1..N, NEW u, OK(i - 1, u)
                PROVE  OK(i, Stride(u, seq[i]))
    OBVIOUS
  <2>1. first \in Nat /\ i \in Nat \ {0} /\ first + i =< Len(legs)
    BY <1>3, <1>4
  <2>2. OK(i, Stride(u, legs[first + i]))
    <3>. HIDE DEF first
    <3>. QED
      BY <2>1, StrideGoesOn
  <2>. QED
    BY <1>4, <2>2
<1>7. \A i \in Int : \A u : OK(i, u) => u \in Strides /\ OnTheWay(m, u.j)
  BY DEF Strode
<1>. HIDE DEF Then, OK
<1>8. next \in [1..N -> [Strides -> Strides]]
  <2>1. ASSUME NEW i \in 1..N, NEW u \in Strides
        PROVE  (IF OK(i - 1, u) THEN Stride(u, seq[i]) ELSE base) \in Strides
    BY <1>5, <1>6, <1>7
  <2>. QED
    BY <2>1
<1>. HIDE DEF next
<1>9. PICK f \in [0..N -> Strides] : IsRun(f, N, base, next)
  BY <1>4, <1>5, <1>8, ChainRuns
<1>10. \A i \in 0..N : f[i] = IF i = 0 THEN base ELSE next[i][f[i - 1]]
  BY <1>9 DEF IsRun
<1>11. \A i \in 1..N : OK(i - 1, f[i - 1]) => f[i] = Stride(f[i - 1], seq[i])
  <2>. SUFFICES ASSUME NEW i \in 1..N, OK(i - 1, f[i - 1])
                PROVE  f[i] = Stride(f[i - 1], seq[i])
    OBVIOUS
  <2>1. i \in 0..N /\ i # 0 /\ i - 1 \in 0..N /\ f[i - 1] \in Strides
    BY <1>4, <1>9
  <2>2. f[i] = next[i][f[i - 1]]
    BY <1>10, <2>1
  <2>. QED
    BY <2>1, <2>2 DEF next
<1>12. \A i \in 0..N : OK(i, f[i])
  <2>. DEFINE S == {i \in 0..N : OK(i, f[i])}
  <2>1. 0 \in S
    BY <1>4, <1>5, <1>10
  <2>2. ASSUME NEW i \in 1..N, i - 1 \in S
        PROVE  i \in S
    BY <1>4, <1>6, <1>11, <2>2
  <2>. HIDE DEF S
  <2>3. 0..N \subseteq S
    BY <1>4, <2>1, <2>2, Induct
  <2>. QED
    BY <2>3 DEF S
<1>13. f = [i \in 0..N |-> IF i = 0 THEN base ELSE Then(f[i - 1], seq[i])]
  <2>1. ASSUME NEW i \in 0..N
        PROVE  f[i] = IF i = 0 THEN base ELSE Then(f[i - 1], seq[i])
    <3>1. CASE i # 0
      <4>1. i \in 1..N /\ i - 1 \in 0..N
        BY <1>4, <3>1
      <4>. QED
        BY <1>2, <1>11, <1>12, <3>1, <4>1
    <3>. QED
      BY <1>10, <3>1
  <2>2. f = [i \in 0..N |-> f[i]]
    BY <1>9
  <2>. QED
    BY <2>1, <2>2
<1>14. Runs(F)
  BY <1>13
<1>. HIDE DEF F
<1>15. \A i \in 0..N : F[i] = f[i]
  <2>. DEFINE S == {i \in 0..N : F[i] = f[i]}
  <2>1. 0 \in S
    BY <1>4, <1>13, <1>14
  <2>2. \A i \in 1..N : i - 1 \in S => i \in S
    BY <1>4, <1>13, <1>14
  <2>. HIDE DEF S
  <2>3. 0..N \subseteq S
    BY <1>4, <2>1, <2>2, Induct
  <2>. QED
    BY <2>3 DEF S
<1>16. OnTheWay(m, F[N].j)
  BY <1>4, <1>7, <1>12, <1>15
<1>. QED
  BY <1>1, <1>16

-----------------------------------------------------------------------------
(* One more entry: evolve with moved stocks *)

\* What stocks hold is a number, and so is what is reserved in them.
LEMMA ShelvesFacts ==
    ASSUME NEW stocks, Shelves(stocks)
    PROVE  /\ IsDelta(stocks)
           /\ \A s \in DOMAIN stocks :
                 /\ s \in Stocks /\ stocks[s] \in Nat /\ StockInfo[s].reserved \in Nat
                 /\ StockInfo[s].capacity \in Nat /\ StockInfo[s].resource \in Resources
                 /\ StockInfo[s].reserved =< stocks[s] /\ stocks[s] =< StockInfo[s].capacity
BY CatalogueAssumption DEF ValidCatalogue, Shelves, IsDelta

\* The tables that a moved entry writes, and those it does not.
Wrote(c, d, kind, at, about, delta) ==
    /\ IsCivilization(d)
    /\ d.time = at /\ d.stocks = [s \in DOMAIN c.stocks |-> c.stocks[s] + DeltaOf(delta, s)]
    /\ d.ledger = Append(c.ledger, Entry(kind, at, about, delta))
    /\ d.processes = c.processes /\ d.projects = c.projects /\ d.base = c.base
    /\ d.outcomes = c.outcomes /\ d.migrations = c.migrations /\ d.journeys = c.journeys

\* evolve with moved stocks writes these tables.
LEMMA MovedWrites ==
    ASSUME NEW c, IsCivilization(c), NEW kind, NEW at, NEW about, NEW delta
    PROVE  Wrote(c, Moved(c, kind, at, about, delta), kind, at, about, delta)
<1>. DEFINE q == [s \in DOMAIN c.stocks |-> c.stocks[s] + DeltaOf(delta, s)]
            l == Append(c.ledger, Entry(kind, at, about, delta))
            d == [c EXCEPT !.time = at, !.stocks = q, !.ledger = l]
<1>1. Moved(c, kind, at, about, delta) = d
  BY DEF Moved
<1>. HIDE DEF q, l
<1>2. IsCivilization(d)
  BY DEF IsCivilization, Tables
<1>3. /\ d.time = at /\ d.stocks = q /\ d.ledger = l
      /\ d.processes = c.processes /\ d.projects = c.projects /\ d.base = c.base
      /\ d.outcomes = c.outcomes /\ d.migrations = c.migrations /\ d.journeys = c.journeys
  BY DEF IsCivilization, Tables
<1>. HIDE DEF d
<1>. QED
  BY <1>1, <1>2, <1>3 DEF Wrote, q, l

\* A move that the kernel makes: within the shelves, and of the gains its kind has.
Kinds0 == Stocks \cup Recipes \cup Citizens \cup Projects \cup {None}
MoveOK(c, kind, at, about, delta) ==
    /\ at \in Nat /\ at >= c.time /\ kind \in EntryKinds /\ about \in Kinds0
    /\ IsDelta(delta) /\ delta = [s \in DOMAIN delta |-> delta[s]]
    /\ DOMAIN delta \subseteq DOMAIN c.stocks /\ GainsOK(kind, about, ByResource(delta))
    /\ \A s \in DOMAIN delta :
          c.stocks[s] + delta[s] \in StockInfo[s].reserved..StockInfo[s].capacity

\* What is covered, and fits, stays within the shelves.
LEMMA CoveredFits ==
    ASSUME NEW c, Shelves(c.stocks), NEW delta, IsDelta(delta), Covers(c, delta)
    PROVE  \A s \in DOMAIN delta :
              (delta[s] =< 0 \/ Fits(c, delta)) =>
                  c.stocks[s] + delta[s] \in StockInfo[s].reserved..StockInfo[s].capacity
<1>. SUFFICES ASSUME NEW s \in DOMAIN delta, delta[s] =< 0 \/ Fits(c, delta)
              PROVE  c.stocks[s] + delta[s] \in StockInfo[s].reserved..StockInfo[s].capacity
  OBVIOUS
<1>. DEFINE q == c.stocks[s]
            r == StockInfo[s].reserved
            k == StockInfo[s].capacity
            x == delta[s]
<1>1. s \in DOMAIN c.stocks /\ (x < 0 => (q - r) + x >= 0)
  BY DEF Covers, Free
<1>2. q \in Nat /\ r \in Nat /\ k \in Nat /\ r =< q /\ q =< k
  <2>. DEFINE stocks == c.stocks
  <2>1. Shelves(stocks) /\ s \in DOMAIN stocks
    BY <1>1
  <2>. HIDE DEF stocks
  <2>2. /\ stocks[s] \in Nat /\ StockInfo[s].reserved \in Nat /\ StockInfo[s].capacity \in Nat
        /\ StockInfo[s].reserved =< stocks[s] /\ stocks[s] =< StockInfo[s].capacity
    BY <2>1, ShelvesFacts
  <2>. QED
    BY <2>2 DEF stocks
<1>3. x \in Int
  BY DEF IsDelta
<1>4. x =< 0 \/ q + x =< k
  BY DEF Fits
<1>. HIDE DEF q, r, k, x
<1>5. q + x \in r..k
  BY <1>1, <1>2, <1>3, <1>4
<1>. QED
  BY <1>5 DEF q, r, k, x

\* A process that runs goes on with the stocks there are and with more.
LEMMA RunningStays ==
    ASSUME NEW stocks, NEW processes, Running(stocks, processes),
           NEW more, DOMAIN stocks \subseteq DOMAIN more
    PROVE  Running(more, processes)
<1>1. \A flow, bind : IsBinding(stocks, flow, bind) => IsBinding(more, flow, bind)
  <2>. SUFFICES ASSUME NEW flow, NEW bind, IsBinding(stocks, flow, bind)
                PROVE  IsBinding(more, flow, bind)
    OBVIOUS
  <2>1. bind \in [UsedBy(flow) -> DOMAIN more]
    BY DEF IsBinding
  <2>. QED
    BY <2>1 DEF IsBinding
<1>. QED
  BY <1>1 DEF Running

\* An entry of another kind is no meal and uses nothing up for a project.
LEMMA UsesStay ==
    ASSUME NEW projects, NEW base, NEW ledger, ledger \in Seq(Entries), Uses(projects, base,
           ledger),
           NEW e, e.kind # "project-consumption", NEW longer, OneMore(longer, ledger, e)
    PROVE  Uses(projects, base, longer)
<1>1. ASSUME NEW p \in Projects
      PROVE  ConsumedIn(longer, p) = ConsumedIn(ledger, p)
  <2>1. ConsumedIn(longer, p) = UseOf(ConsumedIn(ledger, p), e, p)
    BY ConsumedGoesOn
  <2>. QED
    BY <2>1 DEF UseOf
<1>. QED
  BY <1>1 DEF Uses

\* A meal is the same meal in a ledger that goes on without one.
SameMeals(longer, ledger) ==
    \A p, at : /\ EntriesOf(longer, p, at) = EntriesOf(ledger, p, at)
               /\ \A i \in EntriesOf(ledger, p, at) : longer[i] = ledger[i] /\ i \in DOMAIN longer

\* What is so of a meal in the one ledger is so in the other.
LEMMA SameMealsAre ==
    ASSUME NEW ledger, NEW longer, SameMeals(longer, ledger), NEW o, MealOK(ledger, o)
    PROVE  MealOK(longer, o)
<1>. DEFINE I == EntriesOf(ledger, o.citizen, o.at)
<1>1. EntriesOf(longer, o.citizen, o.at) = I /\ \A i \in I : longer[i] = ledger[i] /\ i \in DOMAIN longer
  BY DEF SameMeals
<1>2. CASE I = {} /\ o.food = 0 /\ o.water = 0
  BY <1>1, <1>2 DEF MealOK
<1>3. CASE ~ (I = {} /\ o.food = 0 /\ o.water = 0)
  <2>1. PICK i \in DOMAIN ledger : /\ I = {i}
                                   /\ Eaten(ledger[i].delta, Foods) = o.food
                                   /\ Eaten(ledger[i].delta, Waters) = o.water
    BY <1>3 DEF MealOK
  <2>2. longer[i] = ledger[i] /\ i \in DOMAIN longer
    BY <1>1, <2>1
  <2>. HIDE DEF I
  <2>3. EntriesOf(longer, o.citizen, o.at) = {i}
    BY <1>1, <2>1
  <2>. QED
    BY <2>1, <2>2, <2>3 DEF MealOK
<1>. QED
  BY <1>2, <1>3

\* An entry that is no meal leaves the meals as they are.
LEMMA MealsStay ==
    ASSUME NEW time \in Int, NEW ledger, ledger \in Seq(Entries), NEW outcomes, Meals(time, ledger,
           outcomes),
           NEW at \in Int, at >= time,
           NEW e, e.kind # "need-consumption", NEW longer, OneMore(longer, ledger, e)
    PROVE  Meals(at, longer, outcomes)
<1>. DEFINE N == Len(ledger)
<1>1. /\ N \in Nat /\ DOMAIN ledger = 1..N /\ DOMAIN longer = 1..(N + 1)
      /\ (\A i \in 1..N : longer[i] = ledger[i]) /\ longer[N + 1] = e
  BY DEF OneMore
<1>. HIDE DEF N
<1>2. \A i \in 1..(N + 1) : i \in 1..N \/ i = N + 1
  BY <1>1
<1>3. \A i \in 1..N : i \in 1..(N + 1)
  BY <1>1
<1>4. SameMeals(longer, ledger)
  BY <1>1, <1>2, <1>3 DEF SameMeals, EntriesOf
<1>5. \A o \in outcomes : o.at \in Nat /\ o.at =< at
  BY DEF Meals, Outcomes
<1>6. \A o \in outcomes : MealOK(longer, o)
  BY <1>4, SameMealsAre DEF Meals
<1>7. ASSUME NEW i \in DOMAIN longer, longer[i].kind = "need-consumption"
      PROVE  \E o \in outcomes : o.citizen = longer[i].about /\ o.at = longer[i].at
  <2>1. i \in DOMAIN ledger /\ longer[i] = ledger[i]
    BY <1>1, <1>2, <1>7
  <2>. QED
    BY <1>7, <2>1 DEF Meals
<1>. QED
  BY <1>5, <1>6, <1>7 DEF Meals

\* All is in order but what is in some stocks, which may be less than reserved:
\* a new stock is empty before it is filled.
InOrderBut(c, D) ==
    /\ DOMAIN c.stocks \subseteq Stocks /\ \A s \in DOMAIN c.stocks : c.stocks[s] \in Nat
    /\ \A s \in DOMAIN c.stocks \ D :
          c.stocks[s] \in StockInfo[s].reserved..StockInfo[s].capacity
    /\ Running(c.stocks, c.processes)
    /\ Ledger(c.time, c.stocks, c.base, c.ledger)
    /\ Uses(c.projects, c.base, c.ledger)
    /\ Meals(c.time, c.ledger, c.outcomes)
    /\ Walks(c.migrations, c.journeys)

\* Accounts in order are in order whatever is set aside.
LEMMA InOrder ==
    ASSUME NEW c, AccountsOK(c)
    PROVE  \A D : InOrderBut(c, D)
<1>1. \A s \in DOMAIN c.stocks : c.stocks[s] \in Nat
  <2>. DEFINE stocks == c.stocks
  <2>1. Shelves(stocks)
    BY DEF AccountsOK
  <2>. HIDE DEF stocks
  <2>2. \A s \in DOMAIN stocks : stocks[s] \in Nat
    BY <2>1, ShelvesFacts
  <2>. QED
    BY <2>2 DEF stocks
<1>. QED
  BY <1>1 DEF AccountsOK, InOrderBut, Shelves

\* What a move keeps, when all is in order before it: all but, of a meal, the
\* outcome that goes with it, and of what a project uses, the milestone it is
\* used for.
MoveKeeps(c, d, kind) ==
    /\ DOMAIN d.stocks = DOMAIN c.stocks /\ Shelves(d.stocks) /\ Running(d.stocks, d.processes)
    /\ Ledger(d.time, d.stocks, d.base, d.ledger)
    /\ kind # "project-consumption" => Uses(d.projects, d.base, d.ledger)
    /\ kind # "need-consumption" => Meals(d.time, d.ledger, d.outcomes)
    /\ Walks(d.migrations, d.journeys)

\* A move of the stocks set aside puts the accounts in order again.
LEMMA MovedKeeps ==
    ASSUME NEW c, NEW kind, NEW at, NEW about, NEW delta,
           InOrderBut(c, DOMAIN delta), MoveOK(c, kind, at, about, delta),
           NEW d, Wrote(c, d, kind, at, about, delta)
    PROVE  MoveKeeps(c, d, kind)
<1>. DEFINE stocks == c.stocks
            moved == d.stocks
            base == c.base
            ledger == c.ledger
            e == Entry(kind, at, about, delta)
            longer == d.ledger
<1>1. /\ DOMAIN stocks \subseteq Stocks /\ \A s \in DOMAIN stocks : stocks[s] \in Nat
      /\ \A s \in DOMAIN stocks \ DOMAIN delta :
            stocks[s] \in StockInfo[s].reserved..StockInfo[s].capacity
      /\ Running(stocks, c.processes) /\ Ledger(c.time, stocks, base, ledger)
      /\ Uses(c.projects, base, ledger) /\ Meals(c.time, ledger, c.outcomes)
      /\ Walks(c.migrations, c.journeys)
  BY DEF InOrderBut
<1>2. /\ d.time = at /\ moved = [s \in DOMAIN stocks |-> stocks[s] + DeltaOf(delta, s)]
      /\ longer = Append(ledger, e)
      /\ d.processes = c.processes /\ d.projects = c.projects /\ d.base = base
      /\ d.outcomes = c.outcomes /\ d.migrations = c.migrations /\ d.journeys = c.journeys
  BY DEF Wrote
<1>3. /\ at \in Nat /\ at >= c.time /\ kind \in EntryKinds /\ about \in Kinds0
      /\ IsDelta(delta) /\ delta = [s \in DOMAIN delta |-> delta[s]]
      /\ DOMAIN delta \subseteq DOMAIN stocks /\ GainsOK(kind, about, ByResource(delta))
      /\ \A s \in DOMAIN delta : stocks[s] + delta[s] \in StockInfo[s].reserved..StockInfo[s].capacity
  BY DEF MoveOK
<1>. DEFINE time == c.time
<1>. HIDE DEF stocks, moved, base, ledger, e, longer, time
<1>4. IsDelta(stocks) /\ \A s \in DOMAIN stocks : stocks[s] \in Nat
  BY <1>1 DEF IsDelta
<1>5. ASSUME NEW s \in DOMAIN stocks
      PROVE  moved[s] \in StockInfo[s].reserved..StockInfo[s].capacity
  <2>1. CASE s \in DOMAIN delta
    BY <1>2, <1>3, <2>1 DEF DeltaOf
  <2>2. CASE s \notin DOMAIN delta
    <3>1. moved[s] = stocks[s] + 0
      BY <1>2, <2>2 DEF DeltaOf
    <3>2. moved[s] = stocks[s]
      BY <1>4, <3>1
    <3>. QED
      BY <1>1, <2>2, <3>2
  <2>. QED
    BY <2>1, <2>2
<1>6. DOMAIN moved = DOMAIN stocks
  BY <1>2
<1>7. Shelves(moved)
  BY <1>1, <1>5, <1>6 DEF Shelves
<1>8. Running(moved, d.processes)
  BY <1>1, <1>2, <1>6, RunningStays
<1>9. Ledger(time, stocks, base, ledger) /\ at >= time
  BY <1>1, <1>3 DEF time
<1>10. \A s \in DOMAIN stocks : moved[s] >= 0
  <2>1. Shelves(moved)
    BY <1>7
  <2>2. \A s \in DOMAIN moved : moved[s] \in Nat
    BY <2>1, ShelvesFacts
  <2>. QED
    BY <1>6, <2>2
<1>11. Ledger(at, moved, base, longer)
  <2>1. Ledger(at, moved, base, Append(ledger, Entry(kind, at, about, delta)))
    BY <1>2, <1>3, <1>4, <1>9, <1>10, LedgerGrows DEF Kinds0
  <2>. QED
    BY <1>2, <2>1 DEF e
<1>12. ledger \in Seq(Entries) /\ e.kind = kind /\ e \in Entries /\ time \in Nat
  <2>1. ledger \in Seq(Entries) /\ time \in Nat
    BY <1>9 DEF Ledger
  <2>2. delta \in Deltas
    BY <1>3 DEF Deltas, IsDelta
  <2>3. e = [kind |-> kind, at |-> at, about |-> about, delta |-> delta]
    BY DEF e, Entry
  <2>. QED
    BY <1>3, <2>1, <2>2, <2>3 DEF Entries, Kinds0
<1>13. OneMore(longer, ledger, e)
  BY <1>2, <1>12, AppendIsOneMore
<1>14. kind # "project-consumption" => Uses(d.projects, base, longer)
  BY <1>1, <1>2, <1>12, <1>13, UsesStay
<1>15. kind # "need-consumption" => Meals(at, longer, d.outcomes)
  <2>1. Meals(time, ledger, c.outcomes)
    BY <1>1 DEF time
  <2>2. at \in Int /\ time \in Int
    BY <1>3, <1>12
  <2>. QED
    BY <1>2, <1>9, <1>12, <1>13, <2>1, <2>2, MealsStay
<1>. QED
  BY <1>1, <1>2, <1>6, <1>7, <1>8, <1>11, <1>14, <1>15 DEF MoveKeeps, moved, longer, stocks

\* A move that is neither a meal nor a use keeps the accounts.
LEMMA PlainMoveKeeps ==
    ASSUME NEW c, NEW kind, NEW at, NEW about, NEW delta,
           InOrderBut(c, DOMAIN delta), MoveOK(c, kind, at, about, delta),
           kind \notin {"project-consumption", "need-consumption"},
           NEW d, Wrote(c, d, kind, at, about, delta)
    PROVE  AccountsOK(d)
BY MovedKeeps DEF MoveKeeps, AccountsOK

\* A move and a write of the processes.
LEMMA ProcessesWritten ==
    ASSUME NEW d, AccountsOK(d), IsCivilization(d), NEW x, Running(d.stocks, x),
           NEW e, e = [d EXCEPT !.processes = x]
    PROVE  /\ AccountsOK(e) /\ IsCivilization(e) /\ e.processes = x
           /\ e.time = d.time /\ e.stocks = d.stocks /\ e.ledger = d.ledger
<1>1. IsCivilization(e)
  BY DEF IsCivilization, Tables
<1>2. /\ e.processes = x /\ e.time = d.time /\ e.stocks = d.stocks /\ e.ledger = d.ledger
      /\ e.base = d.base /\ e.projects = d.projects /\ e.outcomes = d.outcomes
      /\ e.migrations = d.migrations /\ e.journeys = d.journeys
  BY DEF IsCivilization, Tables
<1>. QED
  BY <1>1, <1>2 DEF AccountsOK

\* The effect of a call on the accounts that the ledger of matter is about.
Did(c, d, at, stocks, processes) ==
    /\ AccountsOK(d) /\ d.time = at /\ Len(d.ledger) = Len(c.ledger) + 1
    /\ d.stocks = stocks /\ d.processes = processes

\* What is plain of a delta that has been moved.
MovedBy(stocks, delta) == [s \in DOMAIN stocks |-> stocks[s] + DeltaOf(delta, s)]

\* An entry makes the ledger longer by one.
LEMMA LedgerLength ==
    ASSUME NEW c, AccountsOK(c)
    PROVE  \A e : Len(Append(c.ledger, e)) = Len(c.ledger) + 1
<1>1. c.ledger \in Seq(Entries)
  BY DEF AccountsOK, Ledger
<1>. QED
  BY <1>1

\* registerStock enters the endowment as the first entry of its stock.
LEMMA RegisterStockAccounts ==
    ASSUME NEW c, IsCivilization(c), AccountsOK(c), NEW s \in Stocks, NEW q \in Nat, NEW at \in Nat,
           CanRegisterStock(c, s, q, at)
    PROVE  Did(c, RegisterStock(c, s, q, at), at, MovedBy(With(c.stocks, s, 0), [x \in {s} |-> q]),
               c.processes)
<1>. DEFINE x == With(c.stocks, s, 0)
            b == [c EXCEPT !.stocks = x]
            delta == [y \in {s} |-> q]
            d == RegisterStock(c, s, q, at)
<1>1. d = Moved(b, "stock-created", at, s, delta)
  BY DEF RegisterStock
<1>2. /\ s \notin DOMAIN c.stocks /\ at >= c.time
      /\ StockInfo[s].reserved =< q /\ q =< StockInfo[s].capacity
  BY DEF CanRegisterStock
<1>3. /\ DOMAIN x = DOMAIN c.stocks \cup {s} /\ x[s] = 0
      /\ \A y \in DOMAIN c.stocks : x[y] = c.stocks[y]
  BY <1>2 DEF With
<1>4. IsDelta(delta) /\ DOMAIN delta = {s} /\ delta[s] = q
  BY OneGains
<1>. HIDE DEF x, delta
<1>5. IsCivilization(b)
  BY DEF IsCivilization, Tables
<1>6. /\ b.stocks = x /\ b.time = c.time /\ b.processes = c.processes /\ b.projects = c.projects
      /\ b.base = c.base /\ b.ledger = c.ledger /\ b.outcomes = c.outcomes
      /\ b.migrations = c.migrations /\ b.journeys = c.journeys
  BY DEF IsCivilization, Tables
<1>. HIDE DEF b
<1>7. InOrderBut(c, {})
  BY InOrder
<1>8. InOrderBut(b, DOMAIN delta)
  <2>1. DOMAIN x \subseteq Stocks /\ \A y \in DOMAIN x : x[y] \in Nat
    BY <1>3, <1>7 DEF InOrderBut
  <2>2. \A y \in DOMAIN x \ DOMAIN delta : x[y] \in StockInfo[y].reserved..StockInfo[y].capacity
    BY <1>3, <1>4, <1>7 DEF InOrderBut
  <2>3. Running(x, c.processes)
    <3>. DEFINE old == c.stocks
                p == c.processes
    <3>1. Running(old, p) /\ DOMAIN old \subseteq DOMAIN x
      BY <1>3, <1>7 DEF InOrderBut
    <3>. HIDE DEF old, p
    <3>2. Running(x, p)
      BY <3>1, RunningStays
    <3>. QED
      BY <3>2 DEF p
  <2>4. Ledger(c.time, x, c.base, c.ledger)
    <3>. DEFINE old == c.stocks
                t == c.time
                base == c.base
                l == c.ledger
    <3>1. Ledger(t, old, base, l) /\ s \in Stocks \ DOMAIN old
      BY <1>2, <1>7 DEF InOrderBut
    <3>. HIDE DEF old, t, base, l
    <3>2. Ledger(t, With(old, s, 0), base, l)
      BY <3>1, LedgerWaits
    <3>. QED
      BY <3>2 DEF x, old, t, base, l
  <2>. QED
    BY <1>6, <1>7, <2>1, <2>2, <2>3, <2>4 DEF InOrderBut
<1>9. MoveOK(b, "stock-created", at, s, delta)
  <2>1. GainsOK("stock-created", s, ByResource(delta))
    BY DEF GainsOK
  <2>2. x[s] + delta[s] \in StockInfo[s].reserved..StockInfo[s].capacity
    <3>1. StockInfo[s].reserved \in Nat /\ StockInfo[s].capacity \in Nat
      BY CatalogueAssumption DEF ValidCatalogue
    <3>2. x[s] + delta[s] = q
      BY <1>3, <1>4
    <3>. QED
      BY <1>2, <3>1, <3>2
  <2>3. delta = [y \in DOMAIN delta |-> delta[y]] /\ DOMAIN delta \subseteq DOMAIN x
    BY <1>3 DEF delta
  <2>. QED
    <3>4. "stock-created" \in EntryKinds
      BY DEF EntryKinds
    <3>1. s \in Kinds0 /\ at >= b.time
      BY <1>2, <1>6 DEF Kinds0
    <3>2. \A y \in DOMAIN delta : b.stocks[y] + delta[y] \in StockInfo[y].reserved..StockInfo[y].capacity
      BY <1>4, <1>6, <2>2
    <3>3. DOMAIN delta \subseteq DOMAIN b.stocks
      BY <1>6, <2>3
    <3>. QED
      BY <1>4, <2>1, <2>3, <3>1, <3>2, <3>3, <3>4 DEF MoveOK
<1>10. Wrote(b, d, "stock-created", at, s, delta)
  BY <1>1, <1>5, MovedWrites
<1>11. AccountsOK(d)
  BY <1>8, <1>9, <1>10, PlainMoveKeeps
<1>. QED
  BY <1>6, <1>10, <1>11, LedgerLength DEF Wrote, Did, MovedBy, x, delta

\* transfer moves between two stocks of a resource.
LEMMA TransferAccounts ==
    ASSUME NEW c, IsCivilization(c), AccountsOK(c), NEW kind \in {"transfer", "transport"},
           NEW a, NEW b, NEW q \in Nat, NEW at \in Nat, CanTransfer(c, a, b, q, at)
    PROVE  Did(c, Transfer(c, kind, a, b, q, at), at, MovedBy(c.stocks, Line(a, b, q)), c.processes)
<1>. DEFINE delta == Line(a, b, q)
            d == Transfer(c, kind, a, b, q, at)
<1>1. d = Moved(c, kind, at, None, delta)
  BY DEF Transfer
<1>2. /\ a # b /\ at >= c.time /\ {a, b} \subseteq DOMAIN c.stocks
      /\ ResourceOf(a) = ResourceOf(b) /\ Covers(c, delta) /\ Fits(c, delta)
  BY DEF CanTransfer
<1>3. Shelves(c.stocks) /\ a \in Stocks /\ b \in Stocks
  BY <1>2 DEF AccountsOK, Shelves
<1>4. /\ IsDelta(delta) /\ DOMAIN delta = {a, b}
      /\ \A g \in Resources : ByResource(delta)[g] = 0
  BY <1>2, <1>3, LineGains
<1>5. delta = [s \in DOMAIN delta |-> delta[s]]
  BY DEF Line
<1>. HIDE DEF delta
<1>6. MoveOK(c, kind, at, None, delta)
  <2>1. GainsOK(kind, None, ByResource(delta))
    BY <1>4 DEF GainsOK
  <2>2. \A s \in DOMAIN delta : c.stocks[s] + delta[s] \in StockInfo[s].reserved..StockInfo[s].capacity
    BY <1>2, <1>3, <1>4, CoveredFits
  <2>. QED
    <3>2. kind \in EntryKinds
      BY DEF EntryKinds
    <3>1. None \in Kinds0 /\ DOMAIN delta \subseteq DOMAIN c.stocks
      BY <1>2, <1>4 DEF Kinds0
    <3>. QED
      BY <1>2, <1>4, <1>5, <2>1, <2>2, <3>1, <3>2 DEF MoveOK
<1>7. Wrote(c, d, kind, at, None, delta)
  BY <1>1, MovedWrites
<1>8. AccountsOK(d)
  BY <1>6, <1>7, InOrder, PlainMoveKeeps
<1>. QED
  BY <1>7, <1>8, LedgerLength DEF Wrote, Did, MovedBy, delta

\* Production: what a recipe takes or gives, from or into the stocks of its bindings.
LEMMA BindingFacts ==
    ASSUME NEW c, NEW flow, NEW bind \in Bindings(c, flow)
    PROVE  IsBinding(c.stocks, flow, bind)
<1>1. /\ bind \in [UsedBy(flow) -> DOMAIN c.stocks]
      /\ \A g \in DOMAIN bind : ResourceOf(bind[g]) = g
  BY DEF Bindings, UsedBy
<1>. QED
  BY <1>1 DEF IsBinding

\* What a recipe takes and gives are numbers.
LEMMA RecipeFacts ==
    ASSUME NEW r \in Recipes
    PROVE  /\ RecipeInfo[r].in \in [Resources -> Nat] /\ RecipeInfo[r].out \in [Resources -> Nat]
           /\ RecipeInfo[r].duration \in Nat
BY CatalogueAssumption DEF ValidCatalogue

\* startProduction takes the inputs and opens a process.
LEMMA StartProductionAccounts ==
    ASSUME NEW c, IsCivilization(c), AccountsOK(c), NEW id \in Processes, NEW r \in Recipes,
           NEW site,
           NEW at \in Nat, NEW in \in Bindings(c, RecipeInfo[r].in),
           NEW out \in Bindings(c, RecipeInfo[r].out), CanStartProduction(c, id, r, site, in, out,
           at)
    PROVE  Did(c, StartProduction(c, id, r, in, out, at), at,
               MovedBy(c.stocks, Bound(RecipeInfo[r].in, in, -1)),
               With(c.processes, id, [recipe |-> r, out |-> out, state |-> "active",
                                      due |-> at + RecipeInfo[r].duration]))
<1>. DEFINE flow == RecipeInfo[r].in
            delta == Bound(flow, in, -1)
            e == Moved(c, "recipe-input", at, r, delta)
            it == [recipe |-> r, out |-> out, state |-> "active",
           due |-> at + RecipeInfo[r].duration]
            x == With(e.processes, id, it)
            d == StartProduction(c, id, r, in, out, at)
            stocks == c.stocks
            processes == c.processes
<1>1. d = [e EXCEPT !.processes = x]
  BY DEF StartProduction
<1>2. id \notin DOMAIN processes /\ at >= c.time /\ Covers(c, delta)
  BY DEF CanStartProduction
<1>3. Shelves(stocks) /\ Running(stocks, processes) /\ DOMAIN stocks \subseteq Stocks
  BY DEF AccountsOK, Shelves
<1>4. /\ IsBinding(stocks, flow, in) /\ IsBinding(stocks, RecipeInfo[r].out, out)
      /\ flow \in [Resources -> Nat] /\ RecipeInfo[r].duration \in Nat
  BY BindingFacts, RecipeFacts
<1>5. delta = [s \in DOMAIN delta |-> delta[s]]
  BY DEF Bound
<1>6. -1 \in {1, -1} /\ DOMAIN delta \subseteq DOMAIN stocks
  BY <1>2 DEF Covers
<1>. HIDE DEF flow, delta, stocks, processes
<1>7. /\ IsDelta(delta) /\ (\A s \in DOMAIN delta : delta[s] = -flow[ResourceOf(s)])
      /\ \A g \in Resources : ByResource(delta)[g] = -flow[g]
  <2>. DEFINE sign == -1
  <2>1. sign \in {1, -1} /\ delta = Bound(flow, in, sign)
    BY DEF delta
  <2>. HIDE DEF sign
  <2>2. /\ IsDelta(delta) /\ (\A s \in DOMAIN delta : delta[s] = sign * flow[ResourceOf(s)])
        /\ \A g \in Resources : ByResource(delta)[g] = sign * flow[g]
    BY <1>3, <1>4, <2>1, BoundGains
  <2>3. \A s \in DOMAIN delta : ResourceOf(s) \in Resources
    BY <1>3, <1>6, ShelvesFacts DEF ResourceOf
  <2>4. \A n \in Nat : sign * n = -n
    BY DEF sign
  <2>. QED
    BY <1>4, <2>2, <2>3, <2>4
<1>8. \A s \in DOMAIN delta : delta[s] =< 0
  <2>1. \A s \in DOMAIN delta : ResourceOf(s) \in Resources
    BY <1>3, <1>6, ShelvesFacts DEF ResourceOf
  <2>2. \A n \in Nat : -n =< 0
    OBVIOUS
  <2>. QED
    BY <1>4, <1>7, <2>1, <2>2
<1>9. MoveOK(c, "recipe-input", at, r, delta)
  <2>1. GainsOK("recipe-input", r, ByResource(delta))
    <3>1. \A g \in UsedBy(flow) : ByResource(delta)[g] = -flow[g]
      BY <1>4, <1>7 DEF UsedBy
    <3>. QED
      BY <3>1 DEF GainsOK, flow
  <2>2. \A s \in DOMAIN delta : c.stocks[s] + delta[s] \in StockInfo[s].reserved..StockInfo[s].capacity
    <3>1. Shelves(c.stocks)
      BY <1>3 DEF stocks
    <3>. QED
      BY <1>2, <1>7, <1>8, <3>1, CoveredFits
  <2>3. "recipe-input" \in EntryKinds /\ r \in Kinds0 /\ DOMAIN delta \subseteq DOMAIN c.stocks
    BY <1>6 DEF EntryKinds, Kinds0, stocks
  <2>. QED
    BY <1>2, <1>5, <1>7, <2>1, <2>2, <2>3 DEF MoveOK
<1>10. Wrote(c, e, "recipe-input", at, r, delta)
  BY MovedWrites
<1>11. AccountsOK(e)
  BY <1>9, <1>10, InOrder, PlainMoveKeeps
<1>12. IsCivilization(e) /\ e.processes = processes /\ e.time = at
       /\ e.stocks = MovedBy(stocks, delta) /\ DOMAIN e.stocks = DOMAIN stocks
       /\ Len(e.ledger) = Len(c.ledger) + 1
  BY <1>10, LedgerLength DEF Wrote, MovedBy, stocks, processes
<1>. HIDE DEF e, it
<1>13. DOMAIN x = DOMAIN processes \cup {id} /\ x[id] = it
       /\ (\A y \in DOMAIN processes : x[y] = processes[y])
       /\ x = [y \in DOMAIN x |-> x[y]]
  BY <1>2, <1>12 DEF With
<1>14. /\ it = [recipe |-> it.recipe, out |-> it.out, state |-> it.state, due |-> it.due]
       /\ it.recipe = r /\ it.out = out /\ it.state = "active" /\ it.due \in Nat
  BY <1>4 DEF it
<1>. HIDE DEF x
<1>15. Running(stocks, x)
  <2>1. IsFiniteSet(DOMAIN x) /\ DOMAIN x \subseteq Processes
    BY <1>3, <1>13, FS_AddElement DEF Running
  <2>2. ASSUME NEW y \in DOMAIN x
        PROVE  /\ x[y] = [recipe |-> x[y].recipe, out |-> x[y].out, state |-> x[y].state, due |-> x[y].due]
               /\ x[y].recipe \in Recipes /\ x[y].state \in {"active", "completed"} /\ x[y].due \in Nat
               /\ IsBinding(stocks, RecipeInfo[x[y].recipe].out, x[y].out)
    <3>1. CASE y = id
      <4>1. x[y] = it
        BY <1>13, <3>1
      <4>. QED
        BY <1>4, <1>14, <4>1
    <3>2. CASE y # id
      BY <1>3, <1>13, <3>2 DEF Running
    <3>. QED
      BY <3>1, <3>2
  <2>. QED
    BY <1>13, <2>1, <2>2 DEF Running
<1>16. Running(e.stocks, x)
  <2>. DEFINE more == e.stocks
  <2>1. DOMAIN stocks \subseteq DOMAIN more
    BY <1>12
  <2>. HIDE DEF more
  <2>2. Running(more, x)
    BY <1>15, <2>1, RunningStays
  <2>. QED
    BY <2>2 DEF more
<1>. HIDE DEF d
<1>20. d = [e EXCEPT !.processes = x]
  BY <1>1 DEF d
<1>17. AccountsOK(d) /\ d.processes = x /\ d.time = e.time /\ d.stocks = e.stocks /\ d.ledger = e.ledger
  <2>1. IsCivilization(e)
    BY <1>12
  <2>. QED
    BY <1>11, <1>16, <1>20, <2>1, ProcessesWritten
<1>18. Did(c, d, at, MovedBy(stocks, delta), x)
  BY <1>12, <1>17 DEF Did
<1>19. x = With(processes, id, it)
  BY <1>12 DEF x
<1>. QED
  BY <1>18, <1>19 DEF d, delta, it, stocks, processes, flow

\* A process gives what its recipe makes, and is completed.
CompletedOf(processes, id) == [processes EXCEPT ![id].state = "completed"]

\* completeProduction gives the outputs and closes the process.
LEMMA CompleteProductionAccounts ==
    ASSUME NEW c, IsCivilization(c), AccountsOK(c), NEW id, NEW at \in Nat,
           CanCompleteProduction(c, id, at)
    PROVE  Did(c, CompleteProduction(c, id, at), at, MovedBy(c.stocks, Outputs(c, id)),
               CompletedOf(c.processes, id))
<1>. DEFINE it == c.processes[id]
            r == it.recipe
            flow == RecipeInfo[r].out
            delta == Outputs(c, id)
            e == Moved(c, "recipe-output", at, r, delta)
            x == CompletedOf(c.processes, id)
            d == CompleteProduction(c, id, at)
            stocks == c.stocks
            processes == c.processes
<1>1. delta = Bound(flow, it.out, 1)
  BY DEF Outputs
<1>2. id \in DOMAIN processes /\ at >= c.time /\ Fits(c, delta)
  BY DEF CanCompleteProduction
<1>3. Shelves(stocks) /\ Running(stocks, processes) /\ DOMAIN stocks \subseteq Stocks
  BY DEF AccountsOK, Shelves
<1>4. /\ it = [recipe |-> it.recipe, out |-> it.out, state |-> it.state, due |-> it.due]
      /\ r \in Recipes /\ it.state \in {"active", "completed"} /\ it.due \in Nat
      /\ IsBinding(stocks, flow, it.out)
  BY <1>2, <1>3 DEF Running
<1>5. flow \in [Resources -> Nat]
  BY <1>4, RecipeFacts
<1>6. 1 \in {1, -1}
  OBVIOUS
<1>7. delta = [s \in DOMAIN delta |-> delta[s]]
  BY <1>1 DEF Bound
<1>8. /\ IsDelta(delta) /\ (\A s \in DOMAIN delta : delta[s] = 1 * flow[ResourceOf(s)])
      /\ DOMAIN delta \subseteq DOMAIN stocks
      /\ \A g \in Resources : ByResource(delta)[g] = 1 * flow[g]
  <2>. DEFINE bind == it.out
  <2>1. IsBinding(stocks, flow, bind) /\ delta = Bound(flow, bind, 1)
    BY <1>1, <1>4
  <2>. HIDE DEF bind, flow, stocks, delta
  <2>. QED
    BY <1>3, <1>5, <1>6, <2>1, BoundGains
<1>. HIDE DEF flow, delta, stocks, processes
<1>9. \A s \in DOMAIN delta : delta[s] >= 0
  <2>1. \A s \in DOMAIN delta : ResourceOf(s) \in Resources
    BY <1>3, <1>8, ShelvesFacts DEF ResourceOf
  <2>2. \A n \in Nat : 1 * n >= 0
    OBVIOUS
  <2>. QED
    BY <1>5, <1>8, <2>1, <2>2
<1>10. Covers(c, delta)
  <2>1. \A s \in DOMAIN delta : ~ (delta[s] < 0)
    BY <1>8, <1>9 DEF IsDelta
  <2>. QED
    BY <1>8, <2>1 DEF Covers, stocks
<1>11. MoveOK(c, "recipe-output", at, r, delta)
  <2>1. GainsOK("recipe-output", r, ByResource(delta))
    <3>1. \A g \in UsedBy(flow) : ByResource(delta)[g] = flow[g]
      BY <1>5, <1>8 DEF UsedBy
    <3>. QED
      BY <3>1 DEF GainsOK, flow
  <2>2. \A s \in DOMAIN delta : c.stocks[s] + delta[s] \in StockInfo[s].reserved..StockInfo[s].capacity
    <3>1. Shelves(c.stocks)
      BY <1>3 DEF stocks
    <3>. QED
      BY <1>2, <1>8, <1>10, <3>1, CoveredFits
  <2>3. "recipe-output" \in EntryKinds /\ r \in Kinds0 /\ DOMAIN delta \subseteq DOMAIN c.stocks
    BY <1>4, <1>8 DEF EntryKinds, Kinds0, stocks
  <2>. HIDE DEF r
  <2>. QED
    BY <1>2, <1>7, <1>8, <2>1, <2>2, <2>3 DEF MoveOK
<1>12. Wrote(c, e, "recipe-output", at, r, delta)
  BY MovedWrites
<1>13. AccountsOK(e)
  <2>. HIDE DEF e, r
  <2>. QED
    BY <1>11, <1>12, InOrder, PlainMoveKeeps
<1>14. IsCivilization(e) /\ e.processes = processes /\ e.time = at
       /\ e.stocks = MovedBy(stocks, delta) /\ DOMAIN e.stocks = DOMAIN stocks
       /\ Len(e.ledger) = Len(c.ledger) + 1
  BY <1>12, LedgerLength DEF Wrote, MovedBy, stocks, processes
<1>15. d = [e EXCEPT !.processes = CompletedOf(e.processes, id)]
  BY DEF CompleteProduction, CompletedOf, delta
<1>16. d = [e EXCEPT !.processes = x] /\ x = CompletedOf(processes, id)
  BY <1>14, <1>15 DEF processes
<1>. HIDE DEF e, d
<1>. DEFINE after == [recipe |-> it.recipe, out |-> it.out, state |-> "completed", due |-> it.due]
<1>17. processes = [y \in DOMAIN processes |-> processes[y]] /\ it = processes[id]
  BY <1>3 DEF Running, processes
<1>18. x = [y \in DOMAIN processes |-> IF y = id THEN [it EXCEPT !.state = "completed"] ELSE processes[y]]
  BY <1>2, <1>17 DEF CompletedOf, processes
<1>19. [it EXCEPT !.state = "completed"] = after
  <2>. DEFINE a == it.recipe
              b == it.out
              s == it.state
              u == it.due
  <2>1. it = [recipe |-> a, out |-> b, state |-> s, due |-> u]
    BY <1>4
  <2>. HIDE DEF a, b, s, u
  <2>2. [it EXCEPT !.state = "completed"] = [recipe |-> a, out |-> b, state |-> "completed", due |-> u]
    BY <2>1
  <2>. QED
    BY <2>2 DEF a, b, u
<1>20. /\ after = [recipe |-> after.recipe, out |-> after.out, state |-> after.state, due |-> after.due]
       /\ after.recipe = r /\ after.out = it.out /\ after.state = "completed" /\ after.due = it.due
  OBVIOUS
<1>. HIDE DEF x, after
<1>21. DOMAIN x = DOMAIN processes /\ x = [y \in DOMAIN x |-> x[y]]
       /\ \A y \in DOMAIN x : x[y] = IF y = id THEN after ELSE processes[y]
  BY <1>18, <1>19
<1>22. Running(stocks, x)
  <2>1. IsFiniteSet(DOMAIN x) /\ DOMAIN x \subseteq Processes
    BY <1>3, <1>21 DEF Running
  <2>2. ASSUME NEW y \in DOMAIN x
        PROVE  /\ x[y] = [recipe |-> x[y].recipe, out |-> x[y].out, state |-> x[y].state, due |-> x[y].due]
               /\ x[y].recipe \in Recipes /\ x[y].state \in {"active", "completed"} /\ x[y].due \in Nat
               /\ IsBinding(stocks, RecipeInfo[x[y].recipe].out, x[y].out)
    <3>1. CASE y = id
      <4>1. x[y] = after
        BY <1>21, <3>1
      <4>. QED
        BY <1>4, <1>20, <4>1 DEF flow
    <3>2. CASE y # id
      BY <1>3, <1>21, <3>2 DEF Running
    <3>. QED
      BY <3>1, <3>2
  <2>. QED
    BY <1>21, <2>1, <2>2 DEF Running
<1>23. Running(e.stocks, x)
  <2>. DEFINE more == e.stocks
  <2>1. DOMAIN stocks \subseteq DOMAIN more
    BY <1>14
  <2>. HIDE DEF more
  <2>2. Running(more, x)
    BY <1>22, <2>1, RunningStays
  <2>. QED
    BY <2>2 DEF more
<1>24. AccountsOK(d) /\ d.processes = x /\ d.time = e.time /\ d.stocks = e.stocks /\ d.ledger = e.ledger
  BY <1>13, <1>14, <1>16, <1>23, ProcessesWritten
<1>25. Did(c, d, at, MovedBy(stocks, delta), x)
  BY <1>14, <1>24 DEF Did
<1>. QED
  BY <1>25 DEF d, delta, stocks, x

-----------------------------------------------------------------------------
(* Meals *)

\* A delta that only takes: every resource loses or stays.
LEMMA TakingGains ==
    ASSUME NEW delta, IsDelta(delta), \A s \in DOMAIN delta : delta[s] =< 0
    PROVE  \A g \in Resources : ByResource(delta)[g] =< 0
<1>. SUFFICES ASSUME NEW g \in Resources
              PROVE  ByResource(delta)[g] =< 0
  OBVIOUS
<1>. DEFINE P == Of(delta, g)
            z == [s \in P |-> 0]
<1>1. P \subseteq DOMAIN delta /\ IsFiniteSet(P)
  BY DeltaFacts
<1>2. \A s \in P : delta[s] \in Int /\ delta[s] =< 0
  BY <1>1 DEF IsDelta
<1>3. Total(delta, P) =< Total(z, P)
  <2>1. \A s \in P : delta[s] \in Int /\ z[s] \in Int /\ delta[s] =< z[s]
    BY <1>2
  <2>. HIDE DEF P, z
  <2>. QED
    BY <1>1, <2>1, TotalOrder
<1>4. Total(z, P) = 0
  BY <1>1, TotalSame
<1>. QED
  BY <1>3, <1>4, GainsAreTotals

\* What a citizen eats and drinks, together.
IsMeal(quantities, stocks, delta, food, water) ==
    /\ IsDelta(delta) /\ delta = [s \in DOMAIN delta |-> delta[s]] /\ DOMAIN delta \subseteq stocks
    /\ \A s \in DOMAIN delta :
          /\ delta[s] < 0
          /\ quantities[s] + delta[s] \in StockInfo[s].reserved..StockInfo[s].capacity
    /\ Eaten(delta, Foods) = food /\ Eaten(delta, Waters) = water
    /\ DOMAIN delta = {} => food = 0 /\ water = 0

\* What was taken of food and what was taken of water, joined, is a meal.
LEMMA JoinedIsMeal ==
    ASSUME NEW c, NEW quantities, Shelves(quantities), NEW p,
           NEW stocks \in SUBSET DOMAIN quantities,
           NEW n, NEW k, NEW a \in Nat, NEW b \in Nat,
           Drawn(quantities, InReach(c, p, stocks, Foods), a, n, k),
           NEW l, Drawn(quantities, InReach(c, p, stocks, Waters), b, n, l)
    PROVE  /\ IsMeal(quantities, stocks, Joined(k.delta, l.delta), a - k.left, b - l.left)
           /\ a - k.left \in 0..a /\ b - l.left \in 0..b
<1>. DEFINE x == k.delta
            y == l.delta
            delta == Joined(x, y)
            D == DOMAIN x
            E == DOMAIN y
<1>1. /\ k.left \in Nat /\ l.left \in Nat /\ k.left =< a /\ l.left =< b
      /\ x \in Deltas /\ y \in Deltas
  BY DEF Drawn, Draws
<1>2. IsDelta(x) /\ IsDelta(y)
  BY <1>1, DeltasAre
<1>3. /\ D \subseteq stocks /\ \A s \in D : ResourceOf(s) \in Foods
      /\ E \subseteq stocks /\ \A s \in E : ResourceOf(s) \in Waters
  BY DEF Drawn, InReach
<1>4. Foods \cap Waters = {}
  BY CatalogueAssumption DEF ValidCatalogue
<1>5. /\ DOMAIN delta = D \cup E /\ delta = [s \in DOMAIN delta |-> delta[s]]
      /\ (\A s \in D : delta[s] = x[s]) /\ \A s \in E : delta[s] = y[s]
  BY <1>3, <1>4 DEF Joined
<1>6. /\ \A s \in D : x[s] < 0 /\ quantities[s] + x[s] >= StockInfo[s].reserved
      /\ \A s \in E : y[s] < 0 /\ quantities[s] + y[s] >= StockInfo[s].reserved
  BY DEF Drawn
<1>7. Total(x, D) = k.left - a /\ Total(y, E) = l.left - b
  BY DEF Drawn
<1>8. /\ {s \in DOMAIN delta : ResourceOf(s) \in Foods} = D
      /\ {s \in DOMAIN delta : ResourceOf(s) \in Waters} = E
  BY <1>3, <1>4, <1>5
<1>. DEFINE kl == k.left
            ll == l.left
<1>. HIDE DEF x, y, delta, D, E, kl, ll
<1>9. IsDelta(delta)
  BY <1>2, <1>5 DEF IsDelta, D, E
<1>10. IsFiniteSet(D) /\ IsFiniteSet(E)
  BY <1>2, DeltaFacts DEF D, E
<1>11. /\ \A s \in D : x[s] \in Int /\ delta[s] = x[s]
       /\ \A s \in E : y[s] \in Int /\ delta[s] = y[s]
  BY <1>2, <1>5 DEF IsDelta, D, E
<1>12. Total(delta, D) = kl - a /\ Total(delta, E) = ll - b
  <2>1. Total(delta, D) = Total(x, D)
    BY <1>10, <1>11, TotalSame
  <2>2. Total(delta, E) = Total(y, E)
    BY <1>10, <1>11, TotalSame
  <2>. QED
    BY <1>7, <2>1, <2>2 DEF kl, ll
<1>13. kl \in Nat /\ ll \in Nat /\ kl =< a /\ ll =< b
  BY <1>1 DEF kl, ll
<1>14. Eaten(delta, Foods) = a - kl /\ Eaten(delta, Waters) = b - ll
  <2>1. Eaten(delta, Foods) = - Total(delta, D) /\ Eaten(delta, Waters) = - Total(delta, E)
    BY <1>8 DEF Eaten
  <2>2. - (kl - a) = a - kl /\ - (ll - b) = b - ll
    BY <1>13
  <2>. QED
    BY <1>12, <2>1, <2>2
<1>15. ASSUME NEW s \in DOMAIN delta
       PROVE  delta[s] < 0 /\ quantities[s] + delta[s] \in StockInfo[s].reserved..StockInfo[s].capacity
  <2>1. delta[s] < 0 /\ delta[s] \in Int /\ quantities[s] + delta[s] >= StockInfo[s].reserved
    BY <1>5, <1>6, <1>9 DEF IsDelta
  <2>2. /\ quantities[s] \in Nat /\ StockInfo[s].reserved \in Nat /\ StockInfo[s].capacity \in Nat
        /\ quantities[s] =< StockInfo[s].capacity
    <3>1. s \in DOMAIN quantities
      BY <1>3, <1>5
    <3>. QED
      BY <3>1, ShelvesFacts
  <2>. QED
    BY <2>1, <2>2
<1>16. DOMAIN delta = {} => a - kl = 0 /\ b - ll = 0
  <2>. SUFFICES ASSUME DOMAIN delta = {}
                PROVE  a - kl = 0 /\ b - ll = 0
    OBVIOUS
  <2>1. D = {} /\ E = {}
    BY <1>5
  <2>2. Total(delta, D) = 0 /\ Total(delta, E) = 0
    BY <2>1, TotalSmall
  <2>3. kl - a = 0 /\ ll - b = 0
    BY <1>12, <2>2
  <2>. QED
    BY <1>13, <2>3
<1>17. DOMAIN delta \subseteq stocks
  BY <1>3, <1>5
<1>18. IsMeal(quantities, stocks, delta, a - kl, b - ll)
  BY <1>5, <1>9, <1>14, <1>15, <1>16, <1>17 DEF IsMeal
<1>19. a - kl \in 0..a /\ b - ll \in 0..b
  BY <1>13
<1>. QED
  BY <1>18, <1>19 DEF kl, ll, x, y, delta

\* An outcome, and the entry that goes with it if there is one.
NewOutcome(p, at, food, water) == [citizen |-> p, at |-> at, food |-> food, water |-> water]

\* The outcome of a citizen who has none yet joins the others.
LEMMA MealsGoOn ==
    ASSUME NEW time \in Nat, NEW ledger, ledger \in Seq(Entries), NEW outcomes,
           Meals(time, ledger, outcomes), NEW at \in Nat, at >= time, NEW p \in Citizens,
           ~ \E o \in outcomes : o.citizen = p /\ o.at = at,
           NEW food \in Nat, NEW water \in Nat, food =< RequiredFood[p], water =< RequiredWater[p],
           NEW e, NEW longer,
           \/ longer = ledger /\ food = 0 /\ water = 0
           \/ /\ OneMore(longer, ledger, e)
              /\ e.kind = "need-consumption" /\ e.about = p /\ e.at = at
              /\ Eaten(e.delta, Foods) = food /\ Eaten(e.delta, Waters) = water
    PROVE  Meals(at, longer, outcomes \cup {NewOutcome(p, at, food, water)})
<1>. DEFINE N == Len(ledger)
            new == NewOutcome(p, at, food, water)
<1>1. new.citizen = p /\ new.at = at /\ new.food = food /\ new.water = water /\ new \in Outcomes
  BY DEF NewOutcome, Outcomes
<1>. HIDE DEF new
<1>2. N \in Nat /\ DOMAIN ledger = 1..N
  OBVIOUS
<1>3. EntriesOf(ledger, p, at) = {}
  BY DEF EntriesOf, Meals
<1>4. \A o \in outcomes : /\ o \in Outcomes /\ o.at \in Nat /\ o.at =< at /\ MealOK(ledger, o)
                         /\ o.food =< RequiredFood[o.citizen] /\ o.water =< RequiredWater[o.citizen]
                         /\ ~ (o.citizen = p /\ o.at = at)
                         /\ \A q \in outcomes : q.citizen = o.citizen /\ q.at = o.at => q = o
  BY DEF Meals, Outcomes
<1>5. \A i \in DOMAIN ledger : ledger[i].kind = "need-consumption" =>
         \E o \in outcomes : o.citizen = ledger[i].about /\ o.at = ledger[i].at
  BY DEF Meals
<1>6. ASSUME \A o \in outcomes : MealOK(longer, o), MealOK(longer, new),
             \A i \in DOMAIN longer : \/ i \in DOMAIN ledger /\ longer[i] = ledger[i]
                                      \/ longer[i].about = p /\ longer[i].at = at
      PROVE  Meals(at, longer, outcomes \cup {new})
  <2>. DEFINE all == outcomes \cup {new}
  <2>1. \A o \in all : o = new \/ o \in outcomes
    OBVIOUS
  <2>2. all \subseteq Outcomes
    BY <1>1, <1>4
  <2>3. ASSUME NEW o \in all
        PROVE  /\ o.at =< at /\ MealOK(longer, o)
               /\ o.food =< RequiredFood[o.citizen] /\ o.water =< RequiredWater[o.citizen]
    BY <1>1, <1>4, <1>6, <2>1
  <2>4. ASSUME NEW o \in all, NEW q \in all, q.citizen = o.citizen, q.at = o.at
        PROVE  q = o
    BY <1>1, <1>4, <2>1, <2>4
  <2>5. ASSUME NEW i \in DOMAIN longer, longer[i].kind = "need-consumption"
        PROVE  \E o \in all : o.citizen = longer[i].about /\ o.at = longer[i].at
    <3>1. CASE i \in DOMAIN ledger /\ longer[i] = ledger[i]
      BY <1>5, <2>5, <3>1
    <3>2. CASE longer[i].about = p /\ longer[i].at = at
      BY <1>1, <3>2
    <3>. QED
      BY <1>6, <3>1, <3>2
  <2>. HIDE DEF all
  <2>6. Meals(at, longer, all)
    BY <2>2, <2>3, <2>4, <2>5 DEF Meals
  <2>. QED
    BY <2>6 DEF all
<1>7. CASE longer = ledger /\ food = 0 /\ water = 0
  <2>1. MealOK(longer, new)
    BY <1>1, <1>3, <1>7 DEF MealOK
  <2>2. \A o \in outcomes : MealOK(longer, o)
    BY <1>4, <1>7
  <2>3. \A i \in DOMAIN longer : \/ i \in DOMAIN ledger /\ longer[i] = ledger[i]
                                 \/ longer[i].about = p /\ longer[i].at = at
    BY <1>7
  <2>4. Meals(at, longer, outcomes \cup {new})
    BY <1>6, <2>1, <2>2, <2>3
  <2>. QED
    BY <2>4 DEF new
<1>8. CASE ~ (longer = ledger /\ food = 0 /\ water = 0)
  <2>1. /\ OneMore(longer, ledger, e)
        /\ e.kind = "need-consumption" /\ e.about = p /\ e.at = at
        /\ Eaten(e.delta, Foods) = food /\ Eaten(e.delta, Waters) = water
    BY <1>8
  <2>2. /\ DOMAIN longer = 1..(N + 1) /\ (\A i \in 1..N : longer[i] = ledger[i]) /\ longer[N + 1] = e
    BY <1>2, <2>1 DEF OneMore
  <2>. HIDE DEF N
  <2>3. (\A i \in 1..(N + 1) : i \in 1..N \/ i = N + 1) /\ (\A i \in 1..N : i \in 1..(N + 1))
        /\ N + 1 \in 1..(N + 1) /\ N + 1 \notin 1..N
    BY <1>2
  <2>4. MealOK(longer, new)
    <3>1. EntriesOf(longer, p, at) \subseteq {N + 1}
      BY <1>2, <1>3, <2>2, <2>3 DEF EntriesOf
    <3>2. EntriesOf(longer, p, at) = {N + 1}
      BY <2>1, <2>2, <2>3, <3>1 DEF EntriesOf
    <3>. QED
      BY <1>1, <2>1, <2>2, <2>3, <3>2 DEF MealOK
  <2>5. ASSUME NEW o \in outcomes
        PROVE  MealOK(longer, o)
    <3>. DEFINE q == o.citizen
                t == o.at
    <3>1. ~ (q = p /\ t = at) /\ MealOK(ledger, o)
      BY <1>4
    <3>2. EntriesOf(longer, q, t) = EntriesOf(ledger, q, t)
      BY <1>2, <2>1, <2>2, <2>3, <3>1 DEF EntriesOf
    <3>3. \A i \in EntriesOf(ledger, q, t) : longer[i] = ledger[i] /\ i \in DOMAIN longer
      BY <1>2, <2>2, <2>3 DEF EntriesOf
    <3>. DEFINE I == EntriesOf(ledger, q, t)
    <3>4. CASE I = {} /\ o.food = 0 /\ o.water = 0
      BY <3>2, <3>4 DEF MealOK
    <3>5. CASE ~ (I = {} /\ o.food = 0 /\ o.water = 0)
      <4>1. PICK i \in DOMAIN ledger : /\ I = {i}
                                       /\ Eaten(ledger[i].delta, Foods) = o.food
                                       /\ Eaten(ledger[i].delta, Waters) = o.water
        BY <3>1, <3>5 DEF MealOK
      <4>2. longer[i] = ledger[i] /\ i \in DOMAIN longer
        BY <3>3, <4>1
      <4>3. EntriesOf(longer, o.citizen, o.at) = {i}
        BY <3>2, <4>1
      <4>. QED
        BY <4>1, <4>2, <4>3 DEF MealOK
    <3>. QED
      BY <3>4, <3>5
  <2>6. \A i \in DOMAIN longer : \/ i \in DOMAIN ledger /\ longer[i] = ledger[i]
                                 \/ longer[i].about = p /\ longer[i].at = at
    BY <1>2, <2>1, <2>2, <2>3
  <2>7. Meals(at, longer, outcomes \cup {new})
    BY <1>6, <2>4, <2>5, <2>6
  <2>. QED
    BY <2>7 DEF new
<1>. QED
  BY <1>7, <1>8

\* An outcome is written.
LEMMA OutcomeWritten ==
    ASSUME NEW e, IsCivilization(e), NEW x, NEW d, d = [e EXCEPT !.outcomes = e.outcomes \cup {x}]
    PROVE  /\ IsCivilization(d) /\ d.outcomes = e.outcomes \cup {x}
           /\ d.time = e.time /\ d.stocks = e.stocks /\ d.processes = e.processes
           /\ d.projects = e.projects /\ d.base = e.base /\ d.ledger = e.ledger
           /\ d.migrations = e.migrations /\ d.journeys = e.journeys
<1>1. IsCivilization(d)
  BY DEF IsCivilization, Tables
<1>. QED
  BY <1>1 DEF IsCivilization, Tables

\* Only the time passes.
LEMMA TimeWritten ==
    ASSUME NEW c, IsCivilization(c), NEW at, NEW e, e = [c EXCEPT !.time = at]
    PROVE  /\ IsCivilization(e) /\ e.time = at
           /\ e.stocks = c.stocks /\ e.processes = c.processes
           /\ e.projects = c.projects /\ e.base = c.base /\ e.ledger = c.ledger
           /\ e.outcomes = c.outcomes /\ e.migrations = c.migrations /\ e.journeys = c.journeys
<1>1. IsCivilization(e)
  BY DEF IsCivilization, Tables
<1>. QED
  BY <1>1 DEF IsCivilization, Tables

\* One citizen of the batch.
FedOne(c, d, p, at) ==
    /\ AccountsOK(d) /\ IsCivilization(d) /\ d.time = at /\ d.processes = c.processes
    /\ DOMAIN d.stocks = DOMAIN c.stocks /\ \A s \in DOMAIN c.stocks : d.stocks[s] =< c.stocks[s]
    /\ Len(d.ledger) =< Len(c.ledger) + 1
    /\ \A o \in d.outcomes : o \in c.outcomes \/ (o.citizen = p /\ o.at = at)

\* Feeding one citizen of the batch keeps the accounts.
LEMMA FeedAccounts ==
    ASSUME NEW c, IsCivilization(c), AccountsOK(c), NEW p \in Citizens,
           NEW stocks, stocks \subseteq DOMAIN c.stocks, NEW at \in Nat, at >= c.time,
           ~ \E o \in c.outcomes : o.citizen = p /\ o.at = at
    PROVE  FedOne(c, Feed(c, p, stocks, at), p, at)
<1>. DEFINE quantities == c.stocks
            a == RequiredFood[p]
            b == RequiredWater[p]
            k == Taken(c, quantities, p, stocks, Foods, a)
            l == Taken(c, quantities, p, stocks, Waters, b)
            delta == Joined(k.delta, l.delta)
            food == a - k.left
            water == b - l.left
            new == NewOutcome(p, at, food, water)
            early == [c EXCEPT !.time = at]
            moved == Moved(c, "need-consumption", at, p, delta)
            e == IF delta = <<>> THEN early ELSE moved
            d == Feed(c, p, stocks, at)
<1>1. d = [e EXCEPT !.outcomes = e.outcomes \cup {new}]
  BY DEF Feed, NewOutcome
<1>2. a \in Nat /\ b \in Nat
  BY CatalogueAssumption DEF ValidCatalogue
<1>3. Shelves(quantities) /\ stocks \in SUBSET DOMAIN quantities
  BY DEF AccountsOK
<1>. HIDE DEF quantities, a, b
<1>4. /\ Drawn(quantities, InReach(c, p, stocks, Foods), a, Len(StockOrder), k)
      /\ Drawn(quantities, InReach(c, p, stocks, Waters), b, Len(StockOrder), l)
  BY <1>2, <1>3, TakenDraws
<1>. HIDE DEF k, l
<1>5. IsMeal(quantities, stocks, delta, food, water) /\ food \in 0..a /\ water \in 0..b
  BY <1>2, <1>3, <1>4, JoinedIsMeal
<1>. HIDE DEF delta, food, water, d, new
<1>6. /\ food \in Nat /\ water \in Nat /\ food =< RequiredFood[p] /\ water =< RequiredWater[p]
  BY <1>2, <1>5 DEF a, b
<1>7. /\ Shelves(c.stocks) /\ Running(c.stocks, c.processes)
      /\ Ledger(c.time, c.stocks, c.base, c.ledger) /\ Uses(c.projects, c.base, c.ledger)
      /\ Meals(c.time, c.ledger, c.outcomes) /\ Walks(c.migrations, c.journeys)
  BY DEF AccountsOK
<1>. DEFINE time == c.time
            ledger == c.ledger
            outcomes == c.outcomes
            base == c.base
<1>8. /\ time \in Nat /\ at >= time /\ ledger \in Seq(Entries) /\ Meals(time, ledger, outcomes)
      /\ ~ \E o \in outcomes : o.citizen = p /\ o.at = at
  BY <1>7 DEF Ledger
<1>9. quantities = c.stocks /\ \A s \in DOMAIN quantities : quantities[s] \in Nat
  BY <1>3, ShelvesFacts DEF quantities
<1>10. CASE delta = <<>>
  <2>1. e = early
    BY <1>10
  <2>. HIDE DEF moved, e
  <2>2. /\ IsCivilization(e) /\ e.time = at /\ e.stocks = c.stocks /\ e.processes = c.processes
        /\ e.projects = c.projects /\ e.base = c.base /\ e.ledger = c.ledger
        /\ e.outcomes = c.outcomes /\ e.migrations = c.migrations /\ e.journeys = c.journeys
    <3>. DEFINE f == e
    <3>1. f = [c EXCEPT !.time = at]
      BY <2>1
    <3>. HIDE DEF f
    <3>2. /\ IsCivilization(f) /\ f.time = at /\ f.stocks = c.stocks /\ f.processes = c.processes
          /\ f.projects = c.projects /\ f.base = c.base /\ f.ledger = c.ledger
          /\ f.outcomes = c.outcomes /\ f.migrations = c.migrations /\ f.journeys = c.journeys
      BY <3>1, TimeWritten
    <3>. QED
      BY <3>2 DEF f
  <2>3. /\ IsCivilization(d) /\ d.outcomes = e.outcomes \cup {new}
        /\ d.time = e.time /\ d.stocks = e.stocks /\ d.processes = e.processes
        /\ d.projects = e.projects /\ d.base = e.base /\ d.ledger = e.ledger
        /\ d.migrations = e.migrations /\ d.journeys = e.journeys
    BY <1>1, <2>2, OutcomeWritten
  <2>4. food = 0 /\ water = 0
    BY <1>5, <1>10 DEF IsMeal
  <2>. HIDE DEF time, ledger, outcomes
  <2>5. Meals(at, ledger, outcomes \cup {NewOutcome(p, at, food, water)})
    BY <1>6, <1>8, <2>4, MealsGoOn
  <2>6. Ledger(at, quantities, base, ledger)
    <3>1. Ledger(time, quantities, base, ledger)
      BY <1>7 DEF time, quantities, base, ledger
    <3>. HIDE DEF base
    <3>. QED
      BY <1>8, <3>1, LedgerWaits
  <2>7. AccountsOK(d)
    <3>1. Meals(at, c.ledger, c.outcomes \cup {new})
      BY <2>5 DEF ledger, outcomes, new
    <3>2. Ledger(at, c.stocks, c.base, c.ledger)
      BY <2>6 DEF quantities, ledger
    <3>. QED
      BY <1>7, <2>2, <2>3, <3>1, <3>2 DEF AccountsOK
  <2>8. \A o \in d.outcomes : o \in c.outcomes \/ (o.citizen = p /\ o.at = at)
    BY <2>2, <2>3 DEF new, NewOutcome
  <2>9. Len(d.ledger) =< Len(c.ledger) + 1
    BY <1>8, <2>2, <2>3 DEF ledger
  <2>10. \A s \in DOMAIN c.stocks : d.stocks[s] =< c.stocks[s]
    BY <1>9, <2>2, <2>3
  <2>. QED
    BY <2>2, <2>3, <2>7, <2>8, <2>9, <2>10 DEF FedOne, d
<1>11. CASE delta # <<>>
  <2>. DEFINE x == Entry("need-consumption", at, p, delta)
  <2>1. e = moved
    BY <1>11
  <2>2. Wrote(c, e, "need-consumption", at, p, delta)
    BY <2>1, MovedWrites
  <2>. HIDE DEF e
  <2>3. /\ IsDelta(delta) /\ delta = [s \in DOMAIN delta |-> delta[s]] /\ DOMAIN delta \subseteq stocks
        /\ \A s \in DOMAIN delta : delta[s] < 0
        /\ \A s \in DOMAIN delta :
              quantities[s] + delta[s] \in StockInfo[s].reserved..StockInfo[s].capacity
        /\ Eaten(delta, Foods) = food /\ Eaten(delta, Waters) = water
    BY <1>5 DEF IsMeal
  <2>4. MoveOK(c, "need-consumption", at, p, delta)
    <3>1. \A s \in DOMAIN delta : delta[s] =< 0
      BY <2>3 DEF IsDelta
    <3>2. GainsOK("need-consumption", p, ByResource(delta))
      <4>1. \A g \in Resources : ByResource(delta)[g] =< 0
        BY <2>3, <3>1, TakingGains
      <4>. QED
        BY <4>1 DEF GainsOK
    <3>3. "need-consumption" \in EntryKinds /\ p \in Kinds0 /\ DOMAIN delta \subseteq DOMAIN c.stocks
      BY <2>3 DEF EntryKinds, Kinds0
    <3>. QED
      BY <1>9, <2>3, <3>2, <3>3 DEF MoveOK
  <2>5. MoveKeeps(c, e, "need-consumption")
    BY <2>2, <2>4, InOrder, MovedKeeps
  <2>6. /\ IsCivilization(e) /\ e.time = at /\ e.processes = c.processes /\ e.outcomes = outcomes
        /\ e.stocks = [s \in DOMAIN quantities |-> quantities[s] + DeltaOf(delta, s)]
        /\ e.ledger = Append(ledger, x) /\ e.projects = c.projects /\ e.base = base
        /\ e.migrations = c.migrations /\ e.journeys = c.journeys
    BY <2>2 DEF Wrote, quantities
  <2>7. /\ IsCivilization(d) /\ d.outcomes = e.outcomes \cup {new}
        /\ d.time = e.time /\ d.stocks = e.stocks /\ d.processes = e.processes
        /\ d.projects = e.projects /\ d.base = e.base /\ d.ledger = e.ledger
        /\ d.migrations = e.migrations /\ d.journeys = e.journeys
    <3>1. IsCivilization(e) /\ d = [e EXCEPT !.outcomes = e.outcomes \cup {new}]
      BY <1>1, <2>6
    <3>. HIDE DEF time, ledger, outcomes, base
    <3>. QED
      BY <3>1, OutcomeWritten
  <2>8. x \in Entries
    <3>1. delta \in Deltas
      BY <2>3 DEF Deltas, IsDelta
    <3>2. "need-consumption" \in EntryKinds
      BY DEF EntryKinds
    <3>. QED
      BY <3>1, <3>2 DEF Entries, Entry
  <2>9. x.kind = "need-consumption" /\ x.about = p /\ x.at = at /\ x.delta = delta
    BY DEF Entry
  <2>. DEFINE longer == Append(ledger, x)
  <2>. HIDE DEF time, ledger, outcomes, x
  <2>10. OneMore(longer, ledger, x)
    BY <1>8, <2>8, AppendIsOneMore
  <2>. HIDE DEF longer
  <2>11. Meals(at, longer, outcomes \cup {NewOutcome(p, at, food, water)})
    <3>1. Eaten(x.delta, Foods) = food /\ Eaten(x.delta, Waters) = water
      BY <2>3, <2>9
    <3>. QED
      BY <1>6, <1>8, <2>9, <2>10, <3>1, MealsGoOn
  <2>12. AccountsOK(d)
    <3>1. /\ Shelves(e.stocks) /\ Running(e.stocks, e.processes)
          /\ Ledger(e.time, e.stocks, e.base, e.ledger) /\ Uses(e.projects, e.base, e.ledger)
          /\ Walks(e.migrations, e.journeys)
      BY <2>5 DEF MoveKeeps
    <3>2. Meals(d.time, d.ledger, d.outcomes)
      BY <2>6, <2>7, <2>11 DEF longer, new
    <3>. QED
      BY <2>7, <3>1, <3>2 DEF AccountsOK
  <2>13. \A o \in d.outcomes : o \in c.outcomes \/ (o.citizen = p /\ o.at = at)
    BY <2>6, <2>7 DEF new, NewOutcome, outcomes
  <2>14. Len(d.ledger) =< Len(c.ledger) + 1
    <3>1. Len(longer) = Len(ledger) + 1 /\ Len(ledger) \in Nat
      BY <1>8, <2>10 DEF OneMore
    <3>2. d.ledger = longer
      BY <2>6, <2>7 DEF longer
    <3>. QED
      BY <3>1, <3>2 DEF ledger
  <2>15. DOMAIN d.stocks = DOMAIN c.stocks
    BY <2>6, <2>7 DEF quantities
  <2>16. \A s \in DOMAIN c.stocks : d.stocks[s] =< c.stocks[s]
    <3>. SUFFICES ASSUME NEW s \in DOMAIN quantities
                  PROVE  d.stocks[s] =< quantities[s]
      BY DEF quantities
    <3>1. d.stocks[s] = quantities[s] + DeltaOf(delta, s) /\ quantities[s] \in Nat
      BY <1>9, <2>6, <2>7
    <3>2. DeltaOf(delta, s) \in Int /\ DeltaOf(delta, s) =< 0
      BY <2>3 DEF DeltaOf, IsDelta
    <3>. QED
      BY <3>1, <3>2
  <2>. QED
    BY <2>6, <2>7, <2>12, <2>13, <2>14, <2>15, <2>16 DEF FedOne, d
<1>. QED
  BY <1>10, <1>11

\* The citizens of a batch up to one of them.
FedSoFar(c, d, batch, i, at) ==
    /\ AccountsOK(d) /\ IsCivilization(d) /\ d.processes = c.processes
    /\ d.time \in Nat /\ d.time =< at /\ (i # 0 => d.time = at)
    /\ DOMAIN d.stocks = DOMAIN c.stocks /\ \A s \in DOMAIN c.stocks : d.stocks[s] =< c.stocks[s]
    /\ Len(d.ledger) =< Len(c.ledger) + i
    /\ \A o \in d.outcomes : o \in c.outcomes \/ \E k \in 1..i : o.citizen = batch[k]

\* The time, the ledger's length and the stocks of a state in order are numbers.
LEMMA AccountsAreNumbers ==
    ASSUME NEW c, AccountsOK(c)
    PROVE  /\ c.time \in Nat /\ c.ledger \in Seq(Entries) /\ Len(c.ledger) \in Nat
           /\ \A s \in DOMAIN c.stocks : c.stocks[s] \in Nat
<1>1. c.time \in Nat /\ c.ledger \in Seq(Entries)
  BY DEF AccountsOK, Ledger
<1>. DEFINE stocks == c.stocks
<1>2. Shelves(stocks)
  BY DEF AccountsOK
<1>. HIDE DEF stocks
<1>3. \A s \in DOMAIN stocks : stocks[s] \in Nat
  BY <1>2, ShelvesFacts
<1>. QED
  BY <1>1, <1>3 DEF stocks

\* The next citizen of the batch.
LEMMA FedGoesOn ==
    ASSUME NEW c, AccountsOK(c), NEW batch \in Seq(Citizens), IsInjective(batch), NEW at \in Nat,
           \A i \in DOMAIN batch : ~ \E o \in c.outcomes : o.citizen = batch[i] /\ o.at = at,
           NEW i \in 1..Len(batch), NEW d, FedSoFar(c, d, batch, i - 1, at),
           NEW stocks, stocks \subseteq DOMAIN c.stocks
    PROVE  FedSoFar(c, Feed(d, batch[i], stocks, at), batch, i, at)
<1>. DEFINE N == Len(batch)
            p == batch[i]
            e == Feed(d, p, stocks, at)
<1>1. N \in Nat /\ DOMAIN batch = 1..N /\ i \in 1..N /\ p \in Citizens
  OBVIOUS
<1>. HIDE DEF N
<1>2. /\ AccountsOK(d) /\ IsCivilization(d) /\ d.processes = c.processes
      /\ d.time \in Nat /\ d.time =< at
      /\ DOMAIN d.stocks = DOMAIN c.stocks /\ (\A s \in DOMAIN c.stocks : d.stocks[s] =< c.stocks[s])
      /\ Len(d.ledger) =< Len(c.ledger) + (i - 1)
      /\ \A o \in d.outcomes : o \in c.outcomes \/ \E k \in 1..(i - 1) : o.citizen = batch[k]
  BY DEF FedSoFar
<1>3. \A k \in 1..(i - 1) : batch[k] # p
  <2>. SUFFICES ASSUME NEW k \in 1..(i - 1), batch[k] = p PROVE FALSE
    OBVIOUS
  <2>1. k \in DOMAIN batch /\ i \in DOMAIN batch /\ k # i
    BY <1>1
  <2>. QED
    BY <2>1 DEF IsInjective
<1>4. ~ \E o \in d.outcomes : o.citizen = p /\ o.at = at
  <2>1. i \in DOMAIN batch
    BY <1>1
  <2>. QED
    BY <1>2, <1>3, <2>1
<1>5. FedOne(d, e, p, at)
  <2>1. stocks \subseteq DOMAIN d.stocks /\ at >= d.time
    BY <1>2
  <2>. HIDE DEF p
  <2>. QED
    BY <1>1, <1>2, <1>4, <2>1, FeedAccounts
<1>. HIDE DEF e
<1>6. /\ AccountsOK(e) /\ IsCivilization(e) /\ e.time = at /\ e.processes = d.processes
      /\ DOMAIN e.stocks = DOMAIN d.stocks /\ (\A s \in DOMAIN d.stocks : e.stocks[s] =< d.stocks[s])
      /\ Len(e.ledger) =< Len(d.ledger) + 1
      /\ \A o \in e.outcomes : o \in d.outcomes \/ (o.citizen = p /\ o.at = at)
  BY <1>5 DEF FedOne
<1>7. \A s \in DOMAIN c.stocks : e.stocks[s] =< c.stocks[s]
  <2>. SUFFICES ASSUME NEW s \in DOMAIN c.stocks PROVE e.stocks[s] =< c.stocks[s]
    OBVIOUS
  <2>. DEFINE x == e.stocks[s]
              y == d.stocks[s]
              z == c.stocks[s]
  <2>1. s \in DOMAIN d.stocks /\ s \in DOMAIN e.stocks
    BY <1>2, <1>6
  <2>2. x \in Nat /\ y \in Nat /\ z \in Nat
    BY <1>2, <1>6, <2>1, AccountsAreNumbers
  <2>3. x =< y /\ y =< z
    BY <1>2, <1>6, <2>1
  <2>. HIDE DEF x, y, z
  <2>4. x =< z
    BY <2>2, <2>3
  <2>. QED
    BY <2>4 DEF x, z
<1>8. Len(e.ledger) =< Len(c.ledger) + i
  <2>. DEFINE x == Len(e.ledger)
              y == Len(d.ledger)
              z == Len(c.ledger)
  <2>1. x \in Nat /\ y \in Nat /\ z \in Nat
    BY <1>2, <1>6, AccountsAreNumbers
  <2>2. x =< y + 1 /\ y =< z + (i - 1) /\ i \in Nat
    BY <1>1, <1>2, <1>6
  <2>. HIDE DEF x, y, z
  <2>3. x =< z + i
    BY <2>1, <2>2
  <2>. QED
    BY <2>3 DEF x, z
<1>9. \A o \in e.outcomes : o \in c.outcomes \/ \E k \in 1..i : o.citizen = batch[k]
  <2>1. i \in 1..i /\ \A k \in 1..(i - 1) : k \in 1..i
    BY <1>1
  <2>. QED
    BY <1>2, <1>6, <2>1
<1>. QED
  BY <1>2, <1>6, <1>7, <1>8, <1>9 DEF FedSoFar, e, p

\* A batch is fed.
LEMMA ConsumeNeedsAccounts ==
    ASSUME NEW c, IsCivilization(c), AccountsOK(c), NEW batch \in Seq(Citizens), NEW needs,
           NEW at \in Nat, CanConsumeNeeds(c, batch, at)
    PROVE  FedSoFar(c, ConsumeNeeds(c, batch, needs, at), batch, Len(batch), at) /\ Len(batch) # 0
<1>. DEFINE N == Len(batch)
<1>1. PICK run : FedInTurn(run, c, batch, needs, at)
  BY ConsumeNeedsRuns
<1>. DEFINE S == {i \in 0..N : FedSoFar(c, run[i], batch, i, at)}
<1>2. N \in Nat
  OBVIOUS
<1>3. /\ at >= c.time /\ batch # <<>> /\ IsInjective(batch)
      /\ \A i \in DOMAIN batch : ~ \E o \in c.outcomes : o.citizen = batch[i] /\ o.at = at
  BY DEF CanConsumeNeeds
<1>4. 0 \in S
  <2>1. run[0] = c
    BY <1>1 DEF FedInTurn
  <2>2. c.time \in Nat /\ Len(c.ledger) \in Nat /\ \A s \in DOMAIN c.stocks : c.stocks[s] \in Nat
    BY AccountsAreNumbers
  <2>3. FedSoFar(c, c, batch, 0, at)
    <3>. DEFINE l == Len(c.ledger)
                t == c.time
    <3>1. l \in Nat /\ t \in Nat /\ at >= t
      BY <1>3, <2>2
    <3>2. \A s \in DOMAIN c.stocks : c.stocks[s] =< c.stocks[s]
      BY <2>2
    <3>. HIDE DEF l, t
    <3>3. l =< l + 0 /\ t =< at
      BY <3>1
    <3>. QED
      BY <2>2, <3>2, <3>3 DEF FedSoFar, l, t
  <2>. QED
    BY <1>2, <2>1, <2>3
<1>5. ASSUME NEW i \in 1..N, i - 1 \in S
      PROVE  i \in S
  <2>. DEFINE d == run[i - 1]
              stocks == needs[batch[i]] \cap DOMAIN c.stocks
  <2>1. run[i] = Feed(d, batch[i], stocks, at)
    BY <1>1 DEF FedInTurn
  <2>2. FedSoFar(c, d, batch, i - 1, at)
    BY <1>5
  <2>3. stocks \subseteq DOMAIN c.stocks
    OBVIOUS
  <2>. HIDE DEF d, stocks
  <2>4. FedSoFar(c, Feed(d, batch[i], stocks, at), batch, i, at)
    BY <1>3, <2>2, <2>3, FedGoesOn
  <2>5. i \in 0..N
    BY <1>2
  <2>. QED
    BY <2>1, <2>4, <2>5
<1>. HIDE DEF S
<1>6. 0..N \subseteq S
  <2>. HIDE DEF N
  <2>. QED
    BY <1>2, <1>4, <1>5, Induct
<1>7. FedSoFar(c, run[N], batch, N, at)
  BY <1>2, <1>6 DEF S
<1>8. ConsumeNeeds(c, batch, needs, at) = run[N]
  BY <1>1 DEF FedInTurn
<1>9. N # 0
  BY <1>3
<1>. QED
  BY <1>7, <1>8, <1>9

-----------------------------------------------------------------------------
(* Calls that move nothing *)

\* What such a call leaves as it was.
Silent(c, d, at) ==
    /\ d.time = at /\ d.stocks = c.stocks /\ d.processes = c.processes /\ d.base = c.base
    /\ d.ledger = c.ledger /\ d.outcomes = c.outcomes

\* Meals go on being the meals they were.
LEMMA MealsWait ==
    ASSUME NEW time \in Nat, NEW ledger, NEW outcomes, Meals(time, ledger, outcomes),
           NEW at \in Nat, at >= time
    PROVE  Meals(at, ledger, outcomes)
<1>1. \A o \in outcomes : o.at \in Nat /\ o.at =< at
  BY DEF Meals, Outcomes
<1>. QED
  BY <1>1 DEF Meals

\* A call that moves nothing keeps the accounts, if it keeps the uses and the walks.
LEMMA SilentKeeps ==
    ASSUME NEW c, AccountsOK(c), NEW at \in Nat, at >= c.time, NEW d, Silent(c, d, at),
           Uses(d.projects, c.base, c.ledger), Walks(d.migrations, d.journeys)
    PROVE  AccountsOK(d)
<1>. DEFINE time == c.time
            stocks == c.stocks
            base == c.base
            ledger == c.ledger
            outcomes == c.outcomes
<1>1. /\ Ledger(time, stocks, base, ledger) /\ Meals(time, ledger, outcomes)
      /\ Shelves(stocks) /\ Running(stocks, c.processes)
  BY DEF AccountsOK
<1>2. at >= time
  OBVIOUS
<1>. HIDE DEF time, stocks, base, ledger, outcomes
<1>3. time \in Nat
  BY <1>1 DEF Ledger
<1>4. Ledger(at, stocks, base, ledger)
  BY <1>1, <1>2, LedgerWaits
<1>5. Meals(at, ledger, outcomes)
  BY <1>1, <1>2, <1>3, MealsWait
<1>. QED
  BY <1>1, <1>4, <1>5 DEF AccountsOK, Silent, stocks, base, ledger, outcomes

\* The projects may change as long as what they have consumed does not.
SameUses(projects, after) ==
    /\ DOMAIN after = DOMAIN projects
    /\ \A p \in DOMAIN projects : \A i \in DOMAIN Plan(p) :
          after[p].milestones[i].consumed = projects[p].milestones[i].consumed

\* Then the uses are the same.
LEMMA SameUsesAre ==
    ASSUME NEW projects, NEW base, NEW ledger, Uses(projects, base, ledger),
           NEW after, SameUses(projects, after)
    PROVE  Uses(after, base, ledger)
<1>1. ASSUME NEW p \in DOMAIN projects, NEW g
      PROVE  MilestoneUse(after[p], p, g) = MilestoneUse(projects[p], p, g)
  <2>1. [i \in DOMAIN Plan(p) |-> after[p].milestones[i].consumed[g]]
           = [i \in DOMAIN Plan(p) |-> projects[p].milestones[i].consumed[g]]
    BY DEF SameUses
  <2>. QED
    BY <2>1 DEF MilestoneUse
<1>2. DOMAIN after = DOMAIN projects
  BY DEF SameUses
<1>. QED
  BY <1>1, <1>2 DEF Uses

\* A call about people, and one about a project.
LEMMA PeopleAreSilent ==
    ASSUME NEW c, AccountsOK(c), NEW at \in Nat, at >= c.time, NEW d, Silent(c, d, at),
           d.projects = c.projects, d.migrations = c.migrations, d.journeys = c.journeys
    PROVE  AccountsOK(d)
<1>1. Uses(d.projects, c.base, c.ledger) /\ Walks(d.migrations, d.journeys)
  BY DEF AccountsOK
<1>. QED
  BY <1>1, SilentKeeps

\* A call that changes what a project has, not what it has consumed.
LEMMA ProjectsAreSilent ==
    ASSUME NEW c, AccountsOK(c), NEW at \in Nat, at >= c.time, NEW d, Silent(c, d, at),
           SameUses(c.projects, d.projects), d.migrations = c.migrations, d.journeys = c.journeys
    PROVE  AccountsOK(d)
<1>1. Uses(d.projects, c.base, c.ledger) /\ Walks(d.migrations, d.journeys)
  BY SameUsesAre DEF AccountsOK
<1>. QED
  BY <1>1, SilentKeeps

\* A project is written whose milestones have consumed what they had.
LEMMA WrittenUses ==
    ASSUME NEW calls, NEW c, KernelOK(calls, c), NEW d, IsCivilization(d),
           NEW p \in DOMAIN c.projects, NEW s, NEW n,
           \A i \in DOMAIN Plan(p) : n[i].consumed = c.projects[p].milestones[i].consumed,
           NEW e, e = Written(c, d, p, s, n)
    PROVE  /\ SameUses(c.projects, e.projects) /\ e.time = d.time /\ e.stocks = d.stocks
           /\ e.processes = d.processes /\ e.base = d.base /\ e.ledger = d.ledger
           /\ e.outcomes = d.outcomes /\ e.migrations = d.migrations /\ e.journeys = d.journeys
<1>. DEFINE f == c.projects
            r == [state |-> s, milestones |-> n]
            g == [f EXCEPT ![p] = r]
<1>1. e = [d EXCEPT !.projects = g]
  BY DEF Written
<1>2. f = [x \in DOMAIN f |-> f[x]] /\ r.milestones = n
  BY ProjectFacts
<1>. HIDE DEF f, r
<1>3. DOMAIN g = DOMAIN f /\ p \in DOMAIN f /\ g[p] = r /\ \A x \in DOMAIN f : x # p => g[x] = f[x]
  BY <1>2 DEF f
<1>. HIDE DEF g
<1>4. /\ e.projects = g /\ e.time = d.time /\ e.stocks = d.stocks
      /\ e.processes = d.processes /\ e.base = d.base /\ e.ledger = d.ledger
      /\ e.outcomes = d.outcomes /\ e.migrations = d.migrations /\ e.journeys = d.journeys
  BY <1>1 DEF IsCivilization, Tables
<1>5. \A i \in DOMAIN Plan(p) : n[i].consumed = f[p].milestones[i].consumed
  BY DEF f
<1>6. SameUses(f, g)
  BY <1>2, <1>3, <1>5 DEF SameUses
<1>. QED
  BY <1>4, <1>6 DEF f

\* A call that writes a project, at a time that has come.
LEMMA WrittenIsSilent ==
    ASSUME NEW calls, NEW c, KernelOK(calls, c), AccountsOK(c), NEW at \in Nat, at >= c.time,
           NEW d, IsCivilization(d), Silent(c, d, at), d.migrations = c.migrations,
           d.journeys = c.journeys, NEW p \in DOMAIN c.projects, NEW s, NEW n,
           \A i \in DOMAIN Plan(p) : n[i].consumed = c.projects[p].milestones[i].consumed,
           NEW e, e = Written(c, d, p, s, n)
    PROVE  AccountsOK(e) /\ Silent(c, e, at)
<1>1. /\ SameUses(c.projects, e.projects) /\ e.time = d.time /\ e.stocks = d.stocks
      /\ e.processes = d.processes /\ e.base = d.base /\ e.ledger = d.ledger
      /\ e.outcomes = d.outcomes /\ e.migrations = d.migrations /\ e.journeys = d.journeys
  BY WrittenUses
<1>2. Silent(c, e, at) /\ e.migrations = c.migrations /\ e.journeys = c.journeys
  BY <1>1 DEF Silent
<1>. QED
  BY <1>1, <1>2, ProjectsAreSilent

\* The milestones of a plan are finitely many.
LEMMA PlansAreFinite ==
    ASSUME NEW p \in Projects
    PROVE  IsFiniteSet(DOMAIN Plan(p))
<1>. DEFINE Asked == [needs : [Resources -> Nat], labor : Nat, deps : SUBSET Nat]
            ms == Plan(p)
<1>1. ms \in Seq(Asked)
  BY CatalogueAssumption DEF ValidCatalogue, Plan
<1>. HIDE DEF ms, Asked
<1>2. DOMAIN ms = 1..Len(ms) /\ Len(ms) \in Nat
  BY <1>1
<1>. QED
  BY <1>2, FS_Interval DEF ms

\* The calls of a project, and what they leave alone.
SilentCall(c, d, at) == AccountsOK(d) /\ Silent(c, d, at)

\* registerProject: its milestones have consumed nothing.
LEMMA RegisterProjectAccounts ==
    ASSUME NEW calls, NEW c, KernelOK(calls, c), AccountsOK(c), NEW p \in Projects,
           CanRegisterProject(c, p)
    PROVE  SilentCall(c, RegisterProject(c, p), c.time)
<1>. DEFINE ms == [i \in DOMAIN Plan(p) |-> NewMilestone(Plan(p)[i])]
            r == [state |-> "proposed", milestones |-> ms]
            projects == c.projects
            after == With(projects, p, r)
            d == [c EXCEPT !.projects = after]
            zeros == [i \in DOMAIN Plan(p) |-> 0]
<1>1. RegisterProject(c, p) = d
  BY DEF RegisterProject
<1>2. IsCivilization(c) /\ p \notin DOMAIN projects
  BY DEF KernelOK, CanRegisterProject
<1>3. \A i \in DOMAIN Plan(p) : ms[i].consumed = [g \in Resources |-> 0]
  BY DEF NewMilestone
<1>4. r.milestones = ms
  OBVIOUS
<1>. HIDE DEF ms, r, projects
<1>5. /\ DOMAIN after = DOMAIN projects \cup {p} /\ after[p] = r
      /\ \A x \in DOMAIN projects : after[x] = projects[x]
  BY <1>2 DEF With
<1>. HIDE DEF after
<1>6. ASSUME NEW g \in Resources
      PROVE  MilestoneUse(r, p, g) = 0
  <2>1. [i \in DOMAIN Plan(p) |-> r.milestones[i].consumed[g]] = zeros
    BY <1>3, <1>4
  <2>2. Total(zeros, DOMAIN Plan(p)) = 0
    BY PlansAreFinite, TotalSame
  <2>. QED
    BY <2>1, <2>2 DEF MilestoneUse
<1>7. Uses(projects, c.base, c.ledger)
  BY DEF AccountsOK, projects
<1>8. Uses(after, c.base, c.ledger)
  <2>. DEFINE base == c.base
              ledger == c.ledger
  <2>1. Uses(projects, base, ledger)
    BY <1>7
  <2>. HIDE DEF base, ledger
  <2>2. ASSUME NEW x \in Projects, NEW g \in Resources
        PROVE  base.consumed[x][g] + ConsumedIn(ledger, x)[g] =
                  IF x \in DOMAIN after THEN MilestoneUse(after[x], x, g) ELSE 0
    <3>1. base.consumed[x][g] + ConsumedIn(ledger, x)[g] =
             IF x \in DOMAIN projects THEN MilestoneUse(projects[x], x, g) ELSE 0
      BY <2>1 DEF Uses
    <3>2. CASE x = p
      <4>1. x \in DOMAIN after /\ MilestoneUse(after[x], x, g) = 0 /\ x \notin DOMAIN projects
        BY <1>2, <1>5, <1>6, <3>2
      <4>. QED
        BY <3>1, <4>1
    <3>3. CASE x # p
      <4>1. /\ x \in DOMAIN after <=> x \in DOMAIN projects
            /\ x \in DOMAIN projects => after[x] = projects[x]
        BY <1>5, <3>3
      <4>. QED
        BY <3>1, <4>1
    <3>. QED
      BY <3>2, <3>3
  <2>3. base.consumed \in [Projects -> [Resources -> Int]]
    BY <2>1 DEF Uses
  <2>4. Uses(after, base, ledger)
    BY <2>2, <2>3 DEF Uses
  <2>. QED
    BY <2>4 DEF base, ledger
<1>9. /\ Silent(c, d, c.time) /\ d.projects = after
      /\ d.migrations = c.migrations /\ d.journeys = c.journeys
  BY <1>2 DEF IsCivilization, Tables, Silent
<1>. HIDE DEF d
<1>10. c.time \in Nat /\ c.time >= c.time
  <2>1. c.time \in Nat
    BY AccountsAreNumbers
  <2>. QED
    BY <2>1
<1>11. Uses(d.projects, c.base, c.ledger) /\ Walks(d.migrations, d.journeys)
  BY <1>8, <1>9 DEF AccountsOK
<1>. QED
  BY <1>1, <1>9, <1>10, <1>11, SilentKeeps DEF SilentCall

\* A state at a later time, and a state at its own.
LEMMA LaterIsSilent ==
    ASSUME NEW calls, NEW c, KernelOK(calls, c), AccountsOK(c), NEW at \in Nat, at >= c.time
    PROVE  /\ IsAccounting(c, [c EXCEPT !.time = at]) /\ Silent(c, [c EXCEPT !.time = at], at)
           /\ IsCivilization([c EXCEPT !.time = at])
           /\ [c EXCEPT !.time = at].migrations = c.migrations
           /\ [c EXCEPT !.time = at].journeys = c.journeys
           /\ IsAccounting(c, c) /\ Silent(c, c, c.time) /\ IsCivilization(c)
           /\ c.time \in Nat /\ c.time >= c.time
<1>1. IsCivilization(c) /\ DOMAIN c.stocks \subseteq Stocks /\ IsAccounting(c, c)
  BY DEF KernelOK, IsAccounting, SameSociety
<1>2. IsAccounting(c, [c EXCEPT !.time = at])
  BY <1>1, TableIsAccounting
<1>3. /\ Silent(c, [c EXCEPT !.time = at], at) /\ IsCivilization([c EXCEPT !.time = at])
      /\ [c EXCEPT !.time = at].migrations = c.migrations
      /\ [c EXCEPT !.time = at].journeys = c.journeys
  BY <1>1 DEF IsCivilization, Tables, Silent
<1>4. c.time \in Nat
  BY AccountsAreNumbers
<1>5. c.time >= c.time
  BY <1>4
<1>. QED
  BY <1>1, <1>2, <1>3, <1>4, <1>5 DEF Silent

\* approveProject, startProject, completeProject and abandonProject.
LEMMA ProjectStatesAccount ==
    ASSUME NEW calls, NEW c, KernelOK(calls, c), AccountsOK(c), NEW p \in DOMAIN c.projects,
           NEW at \in Nat, at >= c.time
    PROVE  /\ SilentCall(c, ApproveProject(c, p), c.time)
           /\ SilentCall(c, StartProject(c, p, at), at)
           /\ SilentCall(c, CompleteProject(c, p, at), at)
           /\ SilentCall(c, AbandonProject(c, p, at), at)
<1>. DEFINE early == [c EXCEPT !.time = at]
            ms == c.projects[p].milestones
<1>1. /\ IsAccounting(c, early) /\ Silent(c, early, at) /\ IsCivilization(early)
      /\ early.migrations = c.migrations /\ early.journeys = c.journeys
      /\ IsAccounting(c, c) /\ Silent(c, c, c.time) /\ IsCivilization(c)
      /\ c.time \in Nat /\ c.time >= c.time
  BY LaterIsSilent
<1>. HIDE DEF early
<1>2. ASSUME NEW s
      PROVE  /\ AccountsOK(Written(c, early, p, s, ms)) /\ Silent(c, Written(c, early, p, s, ms), at)
             /\ AccountsOK(Written(c, c, p, s, ms)) /\ Silent(c, Written(c, c, p, s, ms), c.time)
  <2>1. AccountsOK(Written(c, early, p, s, ms)) /\ Silent(c, Written(c, early, p, s, ms), at)
    BY <1>1, WrittenIsSilent
  <2>2. AccountsOK(Written(c, c, p, s, ms)) /\ Silent(c, Written(c, c, p, s, ms), c.time)
    BY <1>1, WrittenIsSilent
  <2>. QED
    BY <2>1, <2>2
<1>3. c.projects[p] = [state |-> c.projects[p].state, milestones |-> ms] /\ p \in DOMAIN c.projects
  <2>1. ProjectOK(p, c.projects[p])
    BY ProjectFacts
  <2>. QED
    BY <2>1 DEF ProjectOK
<1>4. ASSUME NEW s
      PROVE  /\ [c EXCEPT !.projects[p].state = s] = Written(c, c, p, s, ms)
             /\ [c EXCEPT !.time = at, !.projects[p].state = s] = Written(c, early, p, s, ms)
  <2>. DEFINE f == c.projects
  <2>1. [f EXCEPT ![p].state = s] = [f EXCEPT ![p] = [state |-> s, milestones |-> ms]]
    <3>1. [f[p] EXCEPT !.state = s] = [state |-> s, milestones |-> ms]
      <4>. DEFINE u == f[p].state
      <4>1. f[p] = [state |-> u, milestones |-> ms]
        BY <1>3
      <4>. HIDE DEF u, ms, f
      <4>. QED
        BY <4>1
    <3>. HIDE DEF f, ms
    <3>. QED
      BY <3>1
  <2>2. [c EXCEPT !.projects[p].state = s] = [c EXCEPT !.projects = [f EXCEPT ![p].state = s]]
    OBVIOUS
  <2>3. [c EXCEPT !.time = at, !.projects[p].state = s]
           = [early EXCEPT !.projects = [f EXCEPT ![p].state = s]]
    BY <1>1 DEF IsCivilization, Tables, early
  <2>. QED
    BY <2>1, <2>2, <2>3 DEF Written
<1>5. ASSUME NEW s
      PROVE  /\ SilentCall(c, [c EXCEPT !.projects[p].state = s], c.time)
             /\ SilentCall(c, [c EXCEPT !.time = at, !.projects[p].state = s], at)
  <2>. DEFINE x == [c EXCEPT !.projects[p].state = s]
              y == [c EXCEPT !.time = at, !.projects[p].state = s]
  <2>1. x = Written(c, c, p, s, ms) /\ y = Written(c, early, p, s, ms)
    BY <1>4
  <2>. HIDE DEF x, y
  <2>2. SilentCall(c, x, c.time) /\ SilentCall(c, y, at)
    BY <1>2, <2>1 DEF SilentCall
  <2>. QED
    BY <2>2 DEF x, y
<1>. QED
  BY <1>5 DEF ApproveProject, StartProject, CompleteProject, AbandonProject

\* contributeProjectLabor.
LEMMA ContributeAccounts ==
    ASSUME NEW calls, NEW c, KernelOK(calls, c), AccountsOK(c), NEW p \in DOMAIN c.projects,
           NEW i \in DOMAIN Plan(p), NEW n \in Nat, NEW at \in Nat, at >= c.time
    PROVE  SilentCall(c, Contribute(c, p, i, n, at), at)
<1>. DEFINE early == [c EXCEPT !.time = at]
            ms == c.projects[p].milestones
            w == ms[i]
            m == WithLabor(w, n)
            d == Contribute(c, p, i, n, at)
<1>1. /\ IsAccounting(c, early) /\ Silent(c, early, at) /\ IsCivilization(early)
      /\ early.migrations = c.migrations /\ early.journeys = c.journeys /\ IsCivilization(c)
  BY LaterIsSilent
<1>2. d = WriteOne(early, p, i, m)
  <2>. HIDE DEF WithLabor
  <2>1. d = [c EXCEPT !.time = at, !.projects[p].milestones[i] = WithLabor(@, n)]
    BY DEF Contribute
  <2>. HIDE DEF d
  <2>. QED
    BY <1>1, <2>1 DEF IsCivilization, Tables, WriteOne
<1>3. w \in Milestones /\ ms = [j \in DOMAIN Plan(p) |-> ms[j]]
  BY MilestoneFacts, ProjectFacts DEF ProjectOK
<1>. HIDE DEF early, d, w
<1>4. m.consumed = w.consumed
  <2>. DEFINE x == w.labor + n
  <2>1. m = AMilestone("active", w.delivered, w.consumed, x)
    BY <1>3, LaborWrites
  <2>. HIDE DEF x, m
  <2>. QED
    BY <2>1 DEF AMilestone
<1>. HIDE DEF m
<1>5. d = Written(c, early, p, c.projects[p].state, [ms EXCEPT ![i] = m])
  BY <1>1, <1>2, MilestoneWritten
<1>6. \A j \in DOMAIN Plan(p) : [ms EXCEPT ![i] = m][j].consumed = ms[j].consumed
  <2>. DEFINE x == [ms EXCEPT ![i] = m]
  <2>1. \A j \in DOMAIN Plan(p) : x[j] = IF j = i THEN m ELSE ms[j]
    <3>. HIDE DEF ms
    <3>. QED
      BY <1>3
  <2>. HIDE DEF x
  <2>2. \A j \in DOMAIN Plan(p) : x[j].consumed = ms[j].consumed
    BY <1>4, <2>1 DEF w
  <2>. QED
    BY <2>2 DEF x
<1>. QED
  BY <1>1, <1>5, <1>6, WrittenIsSilent DEF SilentCall, d

\* completeProjectMilestone.
LEMMA CompleteMilestoneAccounts ==
    ASSUME NEW calls, NEW c, KernelOK(calls, c), AccountsOK(c), NEW p \in DOMAIN c.projects,
           NEW i \in DOMAIN Plan(p), CanCompleteMilestone(c, p, i)
    PROVE  SilentCall(c, CompleteMilestone(c, p, i), c.time)
<1>. DEFINE ms == c.projects[p].milestones
            w == [ms EXCEPT ![i].state = "completed"]
            Unblocked(j) == w[j].state = "blocked" /\ \A d \in Plan(p)[j].deps : w[d].state = "completed"
            n == [j \in DOMAIN w |-> IF Unblocked(j) THEN [w[j] EXCEPT !.state = "ready"] ELSE w[j]]
            d == CompleteMilestone(c, p, i)
<1>1. /\ IsAccounting(c, c) /\ Silent(c, c, c.time) /\ IsCivilization(c)
      /\ c.time \in Nat /\ c.time >= c.time
  <2>1. c.time \in Nat
    BY AccountsAreNumbers
  <2>2. c.time >= c.time
    BY <2>1
  <2>. QED
    BY <2>1, <2>2, LaterIsSilent
<1>2. d = [c EXCEPT !.projects[p].milestones = n]
  BY SMTT(30) DEF CompleteMilestone
<1>3. /\ ms = [j \in DOMAIN Plan(p) |-> ms[j]]
      /\ \A j \in DOMAIN Plan(p) : ms[j] \in Milestones
  BY ProjectFacts DEF ProjectOK, MilestoneOK
<1>. HIDE DEF ms, d
<1>5. /\ w = [j \in DOMAIN Plan(p) |-> w[j]] /\ w[i] = [ms[i] EXCEPT !.state = "completed"]
      /\ \A j \in DOMAIN Plan(p) : j # i => w[j] = ms[j]
  BY <1>3
<1>. HIDE DEF w
<1>6. \A j \in DOMAIN Plan(p) : w[j] \in Milestones /\ w[j].consumed = ms[j].consumed
  <2>1. w[i] \in Milestones /\ w[i].consumed = ms[i].consumed
    BY <1>3, <1>5, MilestoneStateWrites
  <2>. QED
    BY <1>3, <1>5, <2>1
<1>7. ASSUME NEW j \in DOMAIN Plan(p)
      PROVE  n[j].consumed = ms[j].consumed
  <2>1. CASE Unblocked(j)
    <3>1. n[j] = [w[j] EXCEPT !.state = "ready"]
      BY <1>5, <2>1
    <3>. HIDE DEF n
    <3>2. n[j].consumed = w[j].consumed
      BY <1>6, <3>1, MilestoneStateWrites
    <3>. QED
      BY <1>6, <3>2
  <2>2. CASE ~ Unblocked(j)
    <3>1. n[j] = w[j]
      BY <1>5, <2>2
    <3>. HIDE DEF n, Unblocked
    <3>. QED
      BY <1>6, <3>1
  <2>. QED
    BY <2>1, <2>2
<1>. HIDE DEF n
<1>8. d = Written(c, c, p, c.projects[p].state, n)
  BY <1>1, <1>2, MilestonesWritten
<1>9. \A j \in DOMAIN Plan(p) : n[j].consumed = c.projects[p].milestones[j].consumed
  BY <1>7 DEF ms
<1>. QED
  BY <1>1, <1>8, <1>9, WrittenIsSilent DEF SilentCall, d

\* failProject.
LEMMA FailProjectAccounts ==
    ASSUME NEW calls, NEW c, KernelOK(calls, c), AccountsOK(c), NEW p \in DOMAIN c.projects,
           NEW at \in Nat, at >= c.time
    PROVE  SilentCall(c, FailProject(c, p, at), at)
<1>. DEFINE early == [c EXCEPT !.time = at]
            ms == c.projects[p].milestones
            n == [j \in DOMAIN ms |-> IF ms[j].state = "completed" THEN ms[j]
                                      ELSE [ms[j] EXCEPT !.state = "failed"]]
            d == FailProject(c, p, at)
<1>1. /\ IsAccounting(c, early) /\ Silent(c, early, at) /\ IsCivilization(early)
      /\ early.migrations = c.migrations /\ early.journeys = c.journeys /\ IsCivilization(c)
  BY LaterIsSilent
<1>3. /\ ms = [j \in DOMAIN Plan(p) |-> ms[j]] /\ \A j \in DOMAIN Plan(p) : ms[j] \in Milestones
  BY ProjectFacts DEF ProjectOK, MilestoneOK
<1>4. d = WriteAll(early, p, "failed", n)
  BY <1>1, ProjectFacts DEF FailProject, WriteAll, IsCivilization, Tables
<1>. HIDE DEF ms, d
<1>5. ASSUME NEW j \in DOMAIN Plan(p)
      PROVE  n[j].consumed = ms[j].consumed
  <2>1. CASE ms[j].state = "completed"
    BY <1>3, <2>1
  <2>2. CASE ms[j].state # "completed"
    <3>1. n[j] = [ms[j] EXCEPT !.state = "failed"]
      BY <1>3, <2>2
    <3>. HIDE DEF n
    <3>. QED
      BY <1>3, <3>1, MilestoneStateWrites
  <2>. QED
    BY <2>1, <2>2
<1>. HIDE DEF n, early
<1>7. d = Written(c, early, p, "failed", n)
  BY <1>1, <1>4, ProjectWritten
<1>8. \A j \in DOMAIN Plan(p) : n[j].consumed = c.projects[p].milestones[j].consumed
  BY <1>5 DEF ms
<1>. QED
  BY <1>1, <1>7, <1>8, WrittenIsSilent DEF SilentCall, d

\* What a delivery writes leaves what was consumed alone.
LEMMA DeliverAccounts ==
    ASSUME NEW calls, NEW c, KernelOK(calls, c), AccountsOK(c), NEW p \in DOMAIN c.projects,
           NEW i \in DOMAIN Plan(p),
           NEW from, NEW to \in DOMAIN c.stocks, NEW q \in Nat, NEW at \in Nat,
           CanDeliver(c, p, i, from, to, q, at)
    PROVE  Did(c, Deliver(c, p, i, from, to, q, at), at, MovedBy(c.stocks, Line(from, to, q)),
               c.processes)
<1>. DEFINE d == Transfer(c, "transfer", from, to, q, at)
            g == ResourceOf(to)
            ms == c.projects[p].milestones
            s == IF c.projects[p].state = "approved" THEN "resourcing" ELSE c.projects[p].state
            w == ms[i]
            m == WithDelivery(w, g, q)
            n == [ms EXCEPT ![i] = m]
            e == Deliver(c, p, i, from, to, q, at)
            stocks == MovedBy(c.stocks, Line(from, to, q))
<1>1. IsAccounting(c, d) /\ d.projects = c.projects /\ IsCivilization(c)
  BY CallsAreAccounting, SMTT(30) DEF KernelOK, IsAccounting, SameSociety
<1>2. g \in Resources
  BY CatalogueAssumption DEF ValidCatalogue, ResourceOf, KernelOK
<1>3. Did(c, d, at, stocks, c.processes)
  BY <1>1, TransferAccounts DEF CanDeliver
<1>4. e = WriteBoth(d, p, s, i, m)
  <2>. HIDE DEF WithDelivery
  <2>1. d.projects[p].state = c.projects[p].state /\ d.projects[p].milestones[i] = w
    BY <1>1
  <2>2. e = [d EXCEPT !.projects[p].state = IF @ = "approved" THEN "resourcing" ELSE @,
                      !.projects[p].milestones[i] = WithDelivery(@, g, q)]
    BY DEF Deliver
  <2>. HIDE DEF d, g, e
  <2>. QED
    BY <1>1, <2>1, <2>2, ProjectFacts DEF WriteBoth
<1>. HIDE DEF d, m, s, e, stocks
<1>5. e = Written(c, d, p, s, n)
  BY <1>1, <1>4, StateAndMilestoneWritten
<1>6. w \in Milestones /\ ms = [j \in DOMAIN Plan(p) |-> ms[j]]
  BY MilestoneFacts, ProjectFacts DEF ProjectOK
<1>. HIDE DEF g, w
<1>7. m.consumed = w.consumed
  BY <1>2, <1>6 DEF Milestones, WithDelivery, m
<1>8. \A j \in DOMAIN Plan(p) : n[j].consumed = c.projects[p].milestones[j].consumed
  <2>1. \A j \in DOMAIN Plan(p) : n[j] = IF j = i THEN m ELSE ms[j]
    <3>. HIDE DEF ms
    <3>. QED
      BY <1>6
  <2>. HIDE DEF n
  <2>. QED
    BY <1>7, <2>1 DEF w
<1>. HIDE DEF n
<1>9. IsCivilization(d) /\ AccountsOK(d) /\ d.time = at /\ Len(d.ledger) = Len(c.ledger) + 1
      /\ d.stocks = stocks /\ d.processes = c.processes
  BY <1>1, <1>3 DEF IsAccounting, Did
<1>10. /\ SameUses(d.projects, e.projects) /\ e.time = d.time /\ e.stocks = d.stocks
       /\ e.processes = d.processes /\ e.base = d.base /\ e.ledger = d.ledger
       /\ e.outcomes = d.outcomes /\ e.migrations = d.migrations /\ e.journeys = d.journeys
  BY <1>1, <1>5, <1>8, <1>9, WrittenUses
<1>11. Silent(d, e, at) /\ at >= d.time
  BY <1>9, <1>10 DEF Silent
<1>12. AccountsOK(e)
  BY <1>9, <1>10, <1>11, ProjectsAreSilent
<1>13. Did(c, e, at, stocks, c.processes)
  BY <1>9, <1>10, <1>12 DEF Did
<1>. QED
  BY <1>13 DEF e, stocks

\* One milestone of a project consumes.
OneConsumes(p, i, a, b, g, q) ==
    /\ \A j \in DOMAIN Plan(p) : a[j].consumed \in [Resources -> Nat]
    /\ \A j \in DOMAIN Plan(p) : j # i => b[j].consumed = a[j].consumed
    /\ b[i].consumed = [a[i].consumed EXCEPT ![g] = @ + q]
Gain(h, g, q) == IF h = g THEN q ELSE 0

\* The use of the project grows by what the milestone consumes.
LEMMA OneUse ==
    ASSUME NEW p \in Projects, NEW i \in DOMAIN Plan(p), NEW a, NEW b, NEW g \in Resources,
           NEW q \in Nat,
           OneConsumes(p, i, a, b, g, q),
           NEW x, x.milestones = a, NEW y, y.milestones = b, NEW h \in Resources
    PROVE  /\ MilestoneUse(x, p, h) \in Int
           /\ MilestoneUse(y, p, h) = MilestoneUse(x, p, h) + Gain(h, g, q)
<1>. DEFINE D == DOMAIN Plan(p)
            A == [j \in D |-> a[j].consumed[h]]
            B == [j \in D |-> b[j].consumed[h]]
            E == [j \in D |-> IF j = i /\ h = g THEN q ELSE 0]
<1>1. IsFiniteSet(D) /\ i \in D
  BY PlansAreFinite
<1>2. MilestoneUse(x, p, h) = Total(A, D) /\ MilestoneUse(y, p, h) = Total(B, D)
  BY DEF MilestoneUse
<1>. HIDE DEF D
<1>0. /\ \A j \in DOMAIN Plan(p) : a[j].consumed \in [Resources -> Nat]
      /\ \A j \in DOMAIN Plan(p) : j # i => b[j].consumed = a[j].consumed
      /\ b[i].consumed = [a[i].consumed EXCEPT ![g] = @ + q]
  BY DEF OneConsumes
<1>3. \A j \in D : A[j] \in Int /\ E[j] \in Int /\ B[j] = A[j] + E[j]
  <2>. SUFFICES ASSUME NEW j \in D PROVE A[j] \in Int /\ E[j] \in Int /\ B[j] = A[j] + E[j]
    OBVIOUS
  <2>1. a[j].consumed \in [Resources -> Nat] /\ A[j] = a[j].consumed[h] /\ B[j] = b[j].consumed[h]
    BY <1>0 DEF D
  <2>. DEFINE u == a[j].consumed
              v == b[j].consumed
  <2>2. u \in [Resources -> Nat] /\ A[j] = u[h] /\ B[j] = v[h] /\ u[h] \in Nat
    BY <2>1
  <2>3. v = IF j = i THEN [u EXCEPT ![g] = @ + q] ELSE u
    BY <1>0 DEF D
  <2>4. E[j] = IF j = i /\ h = g THEN q ELSE 0
    OBVIOUS
  <2>. HIDE DEF u, v, A, B, E
  <2>. QED
    BY <2>2, <2>3, <2>4
<1>4. \A j \in D : j # i => E[j] = 0
  OBVIOUS
<1>5. E[i] = (IF h = g THEN q ELSE 0) /\ E[i] \in Int
  BY <1>1
<1>. HIDE DEF A, B, E
<1>6. \A j \in D : A[j] \in Int /\ E[j] \in Int /\ B[j] \in Int
  BY <1>3
<1>7. Total(B, D) = Total(A, D) + Total(E, D)
  BY <1>1, <1>3, <1>6, TotalOfSum
<1>8. Total(E, D) = E[i]
  BY <1>1, <1>4, <1>5, TotalOfOne
<1>9. Total(A, D) \in Int
  BY <1>1, <1>6, TotalType
<1>. QED
  BY <1>2, <1>5, <1>7, <1>8, <1>9 DEF Gain

\* An entry of a use is in the books as the milestone says.
LEMMA UsesGoOn ==
    ASSUME NEW projects, NEW base, NEW ledger, ledger \in Seq(Entries), Uses(projects, base,
           ledger),
           NEW p \in Projects, p \in DOMAIN projects, NEW i \in DOMAIN Plan(p),
           NEW g \in Resources, NEW q \in Nat,
           NEW e, e.kind = "project-consumption", e.about = p,
           \A h \in Resources : ByResource(e.delta)[h] = IF h = g THEN -q ELSE 0,
           NEW longer, OneMore(longer, ledger, e),
           NEW after, DOMAIN after = DOMAIN projects,
           \A x \in DOMAIN projects : x # p => after[x] = projects[x],
           NEW n, after[p].milestones = n, OneConsumes(p, i, projects[p].milestones, n, g, q)
    PROVE  Uses(after, base, longer)
<1>0. \A h \in Resources : /\ MilestoneUse(projects[p], p, h) \in Int
                           /\ MilestoneUse(after[p], p, h) = MilestoneUse(projects[p], p, h) + Gain(h, g, q)
  <2>. DEFINE a == projects[p].milestones
              P == projects[p]
              Q == after[p]
  <2>1. OneConsumes(p, i, a, n, g, q) /\ P.milestones = a /\ Q.milestones = n
    OBVIOUS
  <2>. HIDE DEF a, P, Q
  <2>2. \A h \in Resources : /\ MilestoneUse(P, p, h) \in Int
                             /\ MilestoneUse(Q, p, h) = MilestoneUse(P, p, h) + Gain(h, g, q)
    BY <2>1, OneUse
  <2>. QED
    BY <2>2 DEF P, Q
<1>1. base.consumed \in [Projects -> [Resources -> Int]]
  BY DEF Uses
<1>2. ASSUME NEW x \in Projects, NEW h \in Resources
      PROVE  base.consumed[x][h] + ConsumedIn(longer, x)[h] =
                IF x \in DOMAIN after THEN MilestoneUse(after[x], x, h) ELSE 0
  <2>. DEFINE acc == ConsumedIn(ledger, x)
              more == ConsumedIn(longer, x)
  <2>1. acc \in [Resources -> Int] /\ more = UseOf(acc, e, x)
    BY ConsumedGoesOn
  <2>2. base.consumed[x][h] + acc[h] = IF x \in DOMAIN projects THEN MilestoneUse(projects[x], x, h) ELSE 0
    BY DEF Uses
  <2>. HIDE DEF acc, more
  <2>3. CASE x # p
    <3>1. more = acc
      BY <2>1, <2>3 DEF UseOf
    <3>2. x \in DOMAIN projects => after[x] = projects[x]
      BY <2>3
    <3>. QED
      BY <2>2, <3>1, <3>2 DEF more
  <2>4. CASE x = p
    <3>1. more = [k \in Resources |-> acc[k] - ByResource(e.delta)[k]]
      BY <2>1, <2>4 DEF UseOf
    <3>. DEFINE y == IF h = g THEN q ELSE 0
                b == base.consumed[x][h]
                u == MilestoneUse(projects[p], p, h)
                v == MilestoneUse(after[p], p, h)
                k == acc[h]
                l == more[h]
    <3>2. l = k - (IF h = g THEN -q ELSE 0) /\ k \in Int
      BY <2>1, <3>1
    <3>3. u \in Int /\ v = u + y
      BY <1>0 DEF Gain
    <3>4. b + k = u /\ b \in Int
      BY <1>1, <2>2, <2>4
    <3>5. y \in Int /\ l = k + y
      BY <3>2
    <3>. HIDE DEF b, u, v, k, l, y
    <3>6. b + l = v
      BY <3>2, <3>3, <3>4, <3>5
    <3>7. x \in DOMAIN after
      BY <2>4
    <3>. QED
      BY <2>4, <3>6, <3>7 DEF b, l, v, more
  <2>. QED
    BY <2>3, <2>4
<1>. QED
  BY <1>1, <1>2 DEF Uses

\* consumeProjectResource: the entry and the milestone go together.
LEMMA ConsumeAccounts ==
    ASSUME NEW calls, NEW c, KernelOK(calls, c), AccountsOK(c), NEW p \in DOMAIN c.projects,
           NEW i \in DOMAIN Plan(p),
           NEW s \in DOMAIN c.stocks, NEW q \in Nat, NEW at \in Nat, CanConsume(c, p, i, s, q, at)
    PROVE  Did(c, Consume(c, p, i, s, q, at), at, MovedBy(c.stocks, [x \in {s} |-> -q]), c.processes)
<1>. DEFINE delta == [x \in {s} |-> -q]
            d == Moved(c, "project-consumption", at, p, delta)
            g == ResourceOf(s)
            ms == c.projects[p].milestones
            w == ms[i]
            m == WithUse(w, g, q)
            n == [ms EXCEPT ![i] = m]
            v == c.projects[p].state
            e == Consume(c, p, i, s, q, at)
            x == Entry("project-consumption", at, p, delta)
<1>1. IsAccounting(c, d) /\ d.projects = c.projects /\ IsCivilization(c)
  BY MovedIsAccounting DEF KernelOK, IsAccounting, SameSociety
<1>2. g \in Resources /\ s \in Stocks /\ p \in Projects
  BY CatalogueAssumption, ProjectFacts DEF ValidCatalogue, ResourceOf, KernelOK
<1>3. at >= c.time /\ Covers(c, delta)
  BY DEF CanConsume
<1>4. e = WriteOne(d, p, i, m)
  BY <1>1 DEF Consume, WriteOne
<1>5. /\ w \in Milestones /\ ms = [j \in DOMAIN Plan(p) |-> ms[j]]
      /\ \A j \in DOMAIN Plan(p) : ms[j].consumed \in [Resources -> Nat]
  <2>1. \A j \in DOMAIN Plan(p) : ms[j] \in Milestones
    BY MilestoneFacts
  <2>2. ms = [j \in DOMAIN Plan(p) |-> ms[j]]
    BY ProjectFacts DEF ProjectOK
  <2>. HIDE DEF ms
  <2>3. \A j \in DOMAIN Plan(p) : ms[j].consumed \in [Resources -> Nat]
    BY <2>1 DEF Milestones
  <2>. QED
    BY <2>1, <2>2, <2>3
<1>6. /\ IsDelta(delta) /\ DOMAIN delta = {s} /\ delta[s] = -q
      /\ delta = [y \in DOMAIN delta |-> delta[y]]
      /\ \A h \in Resources : ByResource(delta)[h] = IF h = g THEN -q ELSE 0
  <2>1. -q \in Int
    OBVIOUS
  <2>. DEFINE r == -q
  <2>2. r \in Int /\ delta = [y \in {s} |-> r]
    BY <2>1
  <2>. HIDE DEF r, delta
  <2>3. /\ IsDelta(delta) /\ DOMAIN delta = {s} /\ delta[s] = r
        /\ \A h \in Resources : ByResource(delta)[h] = IF h = ResourceOf(s) THEN r ELSE 0
    BY <1>2, <2>2, OneGains
  <2>. QED
    BY <2>2, <2>3 DEF r
<1>. HIDE DEF delta, e
<1>7. MoveOK(c, "project-consumption", at, p, delta)
  <2>1. \A y \in DOMAIN delta : delta[y] =< 0
    BY <1>6
  <2>2. Shelves(c.stocks)
    BY DEF AccountsOK
  <2>3. \A y \in DOMAIN delta :
           c.stocks[y] + delta[y] \in StockInfo[y].reserved..StockInfo[y].capacity
    BY <1>3, <1>6, <2>1, <2>2, CoveredFits
  <2>4. GainsOK("project-consumption", p, ByResource(delta))
    BY DEF GainsOK
  <2>5. "project-consumption" \in EntryKinds /\ p \in Kinds0 /\ DOMAIN delta \subseteq DOMAIN c.stocks
    BY <1>2, <1>6 DEF EntryKinds, Kinds0
  <2>. QED
    BY <1>3, <1>6, <2>3, <2>4, <2>5 DEF MoveOK
<1>8. Wrote(c, d, "project-consumption", at, p, delta)
  BY <1>1, MovedWrites
<1>. HIDE DEF d
<1>9. MoveKeeps(c, d, "project-consumption")
  BY <1>7, <1>8, InOrder, MovedKeeps
<1>10. /\ IsCivilization(d) /\ d.time = at /\ d.stocks = MovedBy(c.stocks, delta)
       /\ d.ledger = Append(c.ledger, x) /\ d.processes = c.processes /\ d.base = c.base
  BY <1>8 DEF Wrote, MovedBy
<1>11. c.ledger \in Seq(Entries) /\ x \in Entries
  <2>1. delta \in Deltas /\ "project-consumption" \in EntryKinds
    BY <1>6 DEF Deltas, IsDelta, EntryKinds
  <2>. QED
    BY <1>2, <2>1, AccountsAreNumbers DEF Entries, Entry
<1>12. x.kind = "project-consumption" /\ x.about = p /\ x.delta = delta
  BY DEF Entry
<1>. HIDE DEF x, v
<1>13. m.consumed = [w.consumed EXCEPT ![g] = @ + q]
  <2>. DEFINE y == [w.consumed EXCEPT ![g] = @ + q]
  <2>. HIDE DEF w, g
  <2>1. m = AMilestone("active", w.delivered, y, w.labor)
    BY <1>2, <1>5, MaterialWrites, ZenonT(60)
  <2>. HIDE DEF y, m
  <2>. QED
    BY <2>1 DEF AMilestone, y
<1>. HIDE DEF m
<1>14. e = Written(c, d, p, v, n)
  BY <1>1, <1>4, MilestoneWritten DEF v
<1>15. OneConsumes(p, i, ms, n, g, q)
  <2>1. n[i] = m /\ \A j \in DOMAIN Plan(p) : j # i => n[j] = ms[j]
    <3>. HIDE DEF ms
    <3>. QED
      BY <1>5
  <2>. HIDE DEF n
  <2>2. n[i].consumed = [ms[i].consumed EXCEPT ![g] = @ + q]
    BY <1>13, <2>1
  <2>. QED
    BY <1>5, <2>1, <2>2 DEF OneConsumes
<1>. HIDE DEF n
<1>. DEFINE projects == c.projects
            r == [state |-> v, milestones |-> n]
            after == [projects EXCEPT ![p] = r]
<1>16. projects = [y \in DOMAIN projects |-> projects[y]] /\ p \in DOMAIN projects /\ r.milestones = n
  BY ProjectFacts
<1>17. e = [d EXCEPT !.projects = after]
  BY <1>14 DEF Written
<1>. HIDE DEF r, projects
<1>18. /\ DOMAIN after = DOMAIN projects /\ after[p].milestones = n
       /\ \A y \in DOMAIN projects : y # p => after[y] = projects[y]
  BY <1>16
<1>. HIDE DEF after
<1>19. /\ e.projects = after /\ e.time = d.time /\ e.stocks = d.stocks
       /\ e.processes = d.processes /\ e.base = d.base /\ e.ledger = d.ledger
       /\ e.outcomes = d.outcomes /\ e.migrations = d.migrations /\ e.journeys = d.journeys
  BY <1>10, <1>17 DEF IsCivilization, Tables
<1>20. Uses(after, c.base, d.ledger)
  <2>. DEFINE base == c.base
              ledger == c.ledger
              longer == d.ledger
  <2>1. Uses(projects, base, ledger)
    BY DEF AccountsOK, projects
  <2>2. ledger \in Seq(Entries) /\ longer = Append(ledger, x)
    BY <1>10, <1>11
  <2>4. OneConsumes(p, i, projects[p].milestones, n, g, q)
    BY <1>15 DEF projects
  <2>. HIDE DEF base, ledger, longer, ms, g
  <2>5. OneMore(longer, ledger, x)
    BY <1>11, <2>2, AppendIsOneMore
  <2>6. \A h \in Resources : ByResource(x.delta)[h] = IF h = g THEN -q ELSE 0
    BY <1>6, <1>12
  <2>7. Uses(after, base, longer)
    BY <1>2, <1>12, <1>16, <1>18, <2>1, <2>2, <2>4, <2>5, <2>6, UsesGoOn
  <2>. QED
    BY <2>7 DEF base, longer
<1>21. AccountsOK(e)
  <2>1. /\ Shelves(d.stocks) /\ Running(d.stocks, d.processes)
        /\ Ledger(d.time, d.stocks, d.base, d.ledger)
        /\ Meals(d.time, d.ledger, d.outcomes) /\ Walks(d.migrations, d.journeys)
    BY <1>9 DEF MoveKeeps
  <2>. QED
    BY <1>10, <1>19, <1>20, <2>1 DEF AccountsOK
<1>22. Did(c, e, at, MovedBy(c.stocks, delta), c.processes)
  <2>1. Len(e.ledger) = Len(c.ledger) + 1
    BY <1>10, <1>19, LedgerLength
  <2>. QED
    BY <1>10, <1>19, <1>21, <2>1 DEF Did
<1>. QED
  BY <1>22 DEF e, delta

-----------------------------------------------------------------------------
(* People, buildings and foundings *)

\* What a call about these leaves alone.
Apart(c, d) == d.projects = c.projects /\ d.migrations = c.migrations /\ d.journeys = c.journeys

\* Such a call keeps the accounts.
LEMMA ApartIsSilent ==
    ASSUME NEW c, AccountsOK(c), NEW at \in Nat, at >= c.time, NEW d, Silent(c, d, at), Apart(c, d)
    PROVE  SilentCall(c, d, at)
BY PeopleAreSilent DEF Apart, SilentCall

\* The calls of households, residents, foundings and buildings.
LEMMA PeopleAccount ==
    ASSUME NEW calls, NEW c, KernelOK(calls, c), AccountsOK(c), NEW at \in Nat, at >= c.time,
           NEW p, NEW x, NEW y
    PROVE  /\ SilentCall(c, FormHousehold(c, p, x, y), c.time)
           /\ SilentCall(c, LeaveHousehold(c, p), c.time)
           /\ SilentCall(c, DepartCitizen(c, p, at), at)
           /\ SilentCall(c, ArriveCitizen(c, p, x, at), at)
           /\ SilentCall(c, RegisterFounding(c, p), c.time)
           /\ SilentCall(c, AdvanceFounding(c, p, at), at)
           /\ SilentCall(c, Settle(c, p, at), at)
           /\ SilentCall(c, RegisterHousehold(c, p, x, y), c.time)
           /\ SilentCall(c, SettleUnsited(c, p, at), at)
           /\ SilentCall(c, Materialize(c, p, x, at), at)
<1>1. IsCivilization(c) /\ c.time \in Nat /\ c.time >= c.time
  BY LaterIsSilent
<1>2. Silent(c, FormHousehold(c, p, x, y), c.time) /\ Apart(c, FormHousehold(c, p, x, y))
  BY <1>1 DEF FormHousehold, IsCivilization, Tables, Silent, Apart
<1>3. Silent(c, LeaveHousehold(c, p), c.time) /\ Apart(c, LeaveHousehold(c, p))
  BY <1>1 DEF LeaveHousehold, IsCivilization, Tables, Silent, Apart
<1>4. Silent(c, DepartCitizen(c, p, at), at) /\ Apart(c, DepartCitizen(c, p, at))
  BY <1>1 DEF DepartCitizen, IsCivilization, Tables, Silent, Apart
<1>5. Silent(c, ArriveCitizen(c, p, x, at), at) /\ Apart(c, ArriveCitizen(c, p, x, at))
  BY <1>1 DEF ArriveCitizen, IsCivilization, Tables, Silent, Apart
<1>6. Silent(c, RegisterFounding(c, p), c.time) /\ Apart(c, RegisterFounding(c, p))
  BY <1>1 DEF RegisterFounding, IsCivilization, Tables, Silent, Apart
<1>7. Silent(c, AdvanceFounding(c, p, at), at) /\ Apart(c, AdvanceFounding(c, p, at))
  BY <1>1 DEF AdvanceFounding, IsCivilization, Tables, Silent, Apart
<1>8. Silent(c, Settle(c, p, at), at) /\ Apart(c, Settle(c, p, at))
  BY <1>1 DEF Settle, SettleUnsited, IsCivilization, Tables, Silent, Apart
<1>9. Silent(c, Materialize(c, p, x, at), at) /\ Apart(c, Materialize(c, p, x, at))
  BY <1>1 DEF Materialize, IsCivilization, Tables, Silent, Apart
<1>10. Silent(c, RegisterHousehold(c, p, x, y), c.time) /\ Apart(c, RegisterHousehold(c, p, x, y))
  BY <1>1 DEF RegisterHousehold, IsCivilization, Tables, Silent, Apart
<1>11. Silent(c, SettleUnsited(c, p, at), at) /\ Apart(c, SettleUnsited(c, p, at))
  BY <1>1 DEF SettleUnsited, IsCivilization, Tables, Silent, Apart
<1>. QED
  BY <1>1, <1>2, <1>3, <1>4, <1>5, <1>6, <1>7, <1>8, <1>9, <1>10, <1>11, ApartIsSilent

-----------------------------------------------------------------------------
(* Expeditions *)

\* A state at its own time.
LEMMA AtItsTime ==
    ASSUME NEW calls, NEW c, KernelOK(calls, c), AccountsOK(c)
    PROVE  IsCivilization(c) /\ c.time \in Nat /\ c.time >= c.time
<1>1. IsCivilization(c) /\ c.time \in Nat
  BY AccountsAreNumbers DEF KernelOK
<1>. QED
  BY <1>1

\* A call that writes migrations and journeys, and what it must keep of them.
WalksCall(c, d, at, migrations, journeys) ==
    /\ Silent(c, d, at) /\ d.projects = c.projects
    /\ d.migrations = migrations /\ d.journeys = journeys /\ Walks(migrations, journeys)

\* A call that keeps the walks keeps the accounts.
LEMMA WalksAreSilent ==
    ASSUME NEW c, AccountsOK(c), NEW at \in Nat, at >= c.time, NEW d, NEW y, NEW z,
           WalksCall(c, d, at, y, z)
    PROVE  SilentCall(c, d, at)
<1>1. Silent(c, d, at) /\ Uses(d.projects, c.base, c.ledger) /\ Walks(d.migrations, d.journeys)
  BY DEF AccountsOK, WalksCall
<1>. QED
  BY <1>1, SilentKeeps DEF SilentCall

\* One migration is written, and its journey if it has one.
WritesWalk(y, z, m, s, migrations, journeys) ==
    /\ migrations[m] = s /\ \A x \in DOMAIN z : x # m => migrations[x] = y[x]
    /\ DOMAIN journeys \in {DOMAIN z, DOMAIN z \cup {m}}
    /\ journeys = [x \in DOMAIN journeys |-> journeys[x]]
    /\ \A x \in DOMAIN z : x # m => journeys[x] = z[x]
    /\ m \in DOMAIN journeys =>
          OnTheWay(m, journeys[m]) /\ (s = "arrived") = AtEnd(m, journeys[m])

\* The other walks go on as they were.
LEMMA WalkWritten ==
    ASSUME NEW y, NEW z, Walks(y, z), NEW m, NEW s, NEW migrations, NEW journeys,
           WritesWalk(y, z, m, s, migrations, journeys)
    PROVE  Walks(migrations, journeys)
<1>1. ASSUME NEW x \in DOMAIN journeys
      PROVE  OnTheWay(x, journeys[x]) /\ (migrations[x] = "arrived") = AtEnd(x, journeys[x])
  <2>1. CASE x = m
    BY <2>1 DEF WritesWalk
  <2>2. CASE x # m
    <3>1. x \in DOMAIN z /\ journeys[x] = z[x] /\ migrations[x] = y[x]
      BY <2>2 DEF WritesWalk
    <3>2. OnTheWay(x, z[x]) /\ (y[x] = "arrived") = AtEnd(x, z[x])
      BY <3>1 DEF Walks
    <3>. QED
      BY <3>1, <3>2
  <2>. QED
    BY <2>1, <2>2
<1>. QED
  BY <1>1 DEF Walks, WritesWalk

\* A journey that has not begun, and it does not end where it begins.
LEMMA AtTheStart ==
    ASSUME NEW m \in Migrations
    PROVE  LET j == [leg |-> 0, progress |-> 0, done |-> 0] IN OnTheWay(m, j) /\ AtEnd(m, j) = FALSE
<1>. DEFINE legs == MigrationInfo[m].legs
            j == [leg |-> 0, progress |-> 0, done |-> 0]
<1>1. legs \in Seq(Nat \ {0}) /\ legs # <<>>
  BY CatalogueAssumption DEF ValidCatalogue
<1>2. Len(legs) \in Nat /\ Len(legs) # 0 /\ legs[1] \in Nat /\ legs[1] > 0
  BY <1>1
<1>3. Behind(m, 0) = 0
  BY BehindGoesOn
<1>4. j.leg = 0 /\ j.progress = 0 /\ j.done = 0
  OBVIOUS
<1>5. ~ AtEnd(m, j)
  BY <1>2, <1>4 DEF AtEnd
<1>6. OnTheWay(m, j)
  BY <1>2, <1>3, <1>4, <1>5 DEF OnTheWay
<1>. QED
  BY <1>5, <1>6

\* registerMigration: it has no journey yet.
LEMMA RegisterMigrationAccounts ==
    ASSUME NEW calls, NEW c, KernelOK(calls, c), AccountsOK(c), NEW m \in Migrations, NEW departure,
           CanRegisterMigration(c, m)
    PROVE  SilentCall(c, RegisterMigration(c, m, departure), c.time)
<1>. DEFINE y == c.migrations
            z == c.journeys
            migrations == With(y, m, "planned")
            e == [c EXCEPT !.migrations = migrations, !.departures = With(c.departures, m,
           departure)]
<1>1. IsCivilization(c) /\ c.time \in Nat /\ c.time >= c.time
  BY AtItsTime
<1>2. RegisterMigration(c, m, departure) = e
  BY DEF RegisterMigration
<1>3. m \notin DOMAIN y /\ DOMAIN z \subseteq DOMAIN y /\ Walks(y, z)
  BY MigrationFacts DEF CanRegisterMigration, AccountsOK
<1>. HIDE DEF y, z
<1>4. migrations[m] = "planned" /\ \A x \in DOMAIN z : x # m => migrations[x] = y[x]
  BY <1>3 DEF With
<1>. HIDE DEF migrations
<1>5. z = [x \in DOMAIN z |-> z[x]] /\ m \notin DOMAIN z
  BY <1>3 DEF Walks
<1>6. Walks(migrations, z)
  <2>1. WritesWalk(y, z, m, "planned", migrations, z)
    BY <1>4, <1>5 DEF WritesWalk
  <2>. QED
    BY <1>3, <2>1, WalkWritten
<1>7. WalksCall(c, e, c.time, migrations, z)
  BY <1>1, <1>6 DEF WalksCall, Silent, IsCivilization, Tables, z
<1>. QED
  BY <1>1, <1>2, <1>7, WalksAreSilent

\* registerMigrationJourney.
LEMMA RegisterJourneyAccounts ==
    ASSUME NEW calls, NEW c, KernelOK(calls, c), AccountsOK(c), NEW m \in Migrations,
           CanRegisterJourney(c, m)
    PROVE  SilentCall(c, RegisterJourney(c, m), c.time)
<1>. DEFINE y == c.migrations
            z == c.journeys
            j == [leg |-> 0, progress |-> 0, done |-> 0]
            journeys == With(z, m, j)
            e == [c EXCEPT !.journeys = journeys]
<1>1. IsCivilization(c) /\ c.time \in Nat /\ c.time >= c.time
  BY AtItsTime
<1>2. RegisterJourney(c, m) = e
  BY DEF RegisterJourney
<1>3. y[m] = "planned" /\ Walks(y, z) /\ OnTheWay(m, j) /\ AtEnd(m, j) = FALSE
  BY AtTheStart DEF CanRegisterJourney, AccountsOK
<1>. HIDE DEF y, z, j
<1>4. /\ DOMAIN journeys = DOMAIN z \cup {m} /\ journeys[m] = j
      /\ journeys = [x \in DOMAIN journeys |-> journeys[x]]
      /\ \A x \in DOMAIN z : x # m => journeys[x] = z[x]
  BY DEF With
<1>. HIDE DEF journeys
<1>5. OnTheWay(m, journeys[m]) /\ ("planned" = "arrived") = AtEnd(m, journeys[m])
  BY <1>3, <1>4
<1>6. Walks(y, journeys)
  <2>1. WritesWalk(y, z, m, "planned", y, journeys)
    BY <1>3, <1>4, <1>5 DEF WritesWalk
  <2>. QED
    BY <1>3, <2>1, WalkWritten
<1>7. WalksCall(c, e, c.time, y, journeys)
  BY <1>1, <1>6 DEF WalksCall, Silent, IsCivilization, Tables, y
<1>. QED
  BY <1>1, <1>2, <1>7, WalksAreSilent

\* departMigration: a journey that was not over is not over.
LEMMA DepartMigrationAccounts ==
    ASSUME NEW calls, NEW c, KernelOK(calls, c), AccountsOK(c), NEW m \in Migrations,
           NEW at \in Nat,
           CanDepartMigration(c, m, at)
    PROVE  SilentCall(c, DepartMigration(c, m, at), at)
<1>. DEFINE y == c.migrations
            z == c.journeys
            migrations == [y EXCEPT ![m] = "travelling"]
            x == [p \in Citizens |->
                      IF p \in MigrationInfo[m].citizens
                      THEN [c.citizens[p] EXCEPT !.residence = "travelling"] ELSE c.citizens[p]]
            e == [c EXCEPT !.time = at, !.migrations = migrations, !.citizens = x]
<1>1. IsCivilization(c) /\ at >= c.time
  BY LaterIsSilent DEF CanDepartMigration
<1>2. DepartMigration(c, m, at) = e
  BY MigrationFacts DEF DepartMigration, IsCivilization, Tables
<1>3. /\ m \in DOMAIN z /\ m \in DOMAIN y /\ y[m] = "planned" /\ DOMAIN z \subseteq DOMAIN y
      /\ Walks(y, z) /\ y = [u \in DOMAIN y |-> y[u]]
  BY MigrationFacts DEF CanDepartMigration, AccountsOK
<1>. HIDE DEF y, z, x
<1>4. migrations[m] = "travelling" /\ \A u \in DOMAIN z : u # m => migrations[u] = y[u]
  BY <1>3
<1>. HIDE DEF migrations
<1>5. /\ z = [u \in DOMAIN z |-> z[u]] /\ OnTheWay(m, z[m])
      /\ ("travelling" = "arrived") = AtEnd(m, z[m])
  BY <1>3 DEF Walks
<1>6. Walks(migrations, z)
  <2>1. WritesWalk(y, z, m, "travelling", migrations, z)
    BY <1>4, <1>5 DEF WritesWalk
  <2>. QED
    BY <1>3, <2>1, WalkWritten
<1>7. WalksCall(c, e, at, migrations, z)
  BY <1>1, <1>6 DEF WalksCall, Silent, IsCivilization, Tables, z
<1>. QED
  BY <1>1, <1>2, <1>7, WalksAreSilent

\* advanceMigrationJourney: it arrives when its last leg is done.
LEMMA WalkAccounts ==
    ASSUME NEW calls, NEW c, KernelOK(calls, c), AccountsOK(c), NEW m \in Migrations,
           NEW budget \in Nat,
           NEW at \in Nat, CanWalk(c, m, budget, at)
    PROVE  SilentCall(c, Walk(c, m, budget, at), at)
<1>. DEFINE y == c.migrations
            z == c.journeys
            j == Walked(m, z[m], budget)
            s == IF AtEnd(m, j) THEN "arrived" ELSE "travelling"
            migrations == [y EXCEPT ![m] = s]
            journeys == [z EXCEPT ![m] = j]
            e == [c EXCEPT !.time = at, !.journeys = journeys, !.migrations = migrations]
<1>1. IsCivilization(c) /\ at >= c.time
  BY LaterIsSilent DEF CanWalk
<1>2. /\ m \in DOMAIN z /\ m \in DOMAIN y /\ y[m] = "travelling" /\ DOMAIN z \subseteq DOMAIN y
      /\ Walks(y, z) /\ y = [u \in DOMAIN y |-> y[u]]
  BY MigrationFacts DEF CanWalk, AccountsOK
<1>3. Walk(c, m, budget, at) = e
  <2>1. [y EXCEPT ![m] = IF AtEnd(m, j) THEN "arrived" ELSE @] = migrations
    <3>. HIDE DEF y, z, j
    <3>. QED
      BY <1>2
  <2>. HIDE DEF j
  <2>. QED
    BY <1>1, <2>1 DEF Walk, IsCivilization, Tables, j
<1>4. OnTheWay(m, j)
  <2>. HIDE DEF y, z
  <2>1. OnTheWay(m, z[m])
    BY <1>2 DEF Walks
  <2>. QED
    BY <2>1, WalkedIsOnTheWay
<1>. HIDE DEF y, z, j
<1>5. z = [u \in DOMAIN z |-> z[u]]
  BY <1>2 DEF Walks
<1>6. /\ migrations[m] = s /\ \A u \in DOMAIN z : u # m => migrations[u] = y[u]
      /\ DOMAIN journeys = DOMAIN z /\ journeys[m] = j
      /\ journeys = [u \in DOMAIN journeys |-> journeys[u]]
      /\ \A u \in DOMAIN z : u # m => journeys[u] = z[u]
  BY <1>2, <1>5
<1>7. (s = "arrived") = AtEnd(m, j)
  BY DEF AtEnd
<1>. HIDE DEF migrations, journeys, s
<1>8. Walks(migrations, journeys)
  <2>1. WritesWalk(y, z, m, s, migrations, journeys)
    BY <1>4, <1>6, <1>7 DEF WritesWalk
  <2>. QED
    BY <1>2, <2>1, WalkWritten
<1>9. WalksCall(c, e, at, migrations, journeys)
  BY <1>1, <1>8 DEF WalksCall, Silent, IsCivilization, Tables
<1>. QED
  BY <1>1, <1>3, <1>9, WalksAreSilent

-----------------------------------------------------------------------------
(* The checkpoint, and the bootstrap which is one *)

\* The processes a checkpoint keeps.
KeptOf(processes) ==
    Without(processes, {id \in DOMAIN processes : processes[id].state # "active"})

\* The processes kept run as before.
LEMMA KeptRun ==
    ASSUME NEW stocks, NEW processes, Running(stocks, processes)
    PROVE  Running(stocks, KeptOf(processes))
<1>. DEFINE x == KeptOf(processes)
<1>1. /\ DOMAIN x \subseteq DOMAIN processes /\ x = [id \in DOMAIN x |-> x[id]]
      /\ \A id \in DOMAIN x : x[id] = processes[id]
  BY DEF KeptOf, Without
<1>. HIDE DEF x
<1>2. DOMAIN x \subseteq Processes /\ IsFiniteSet(DOMAIN x)
  BY <1>1, FS_Subset DEF Running
<1>3. \A id \in DOMAIN x :
          /\ x[id] = [recipe |-> x[id].recipe, out |-> x[id].out, state |-> x[id].state,
                      due |-> x[id].due]
          /\ x[id].recipe \in Recipes /\ x[id].state \in {"active", "completed"} /\ x[id].due \in Nat
          /\ IsBinding(stocks, RecipeInfo[x[id].recipe].out, x[id].out)
  BY <1>1 DEF Running
<1>4. Running(stocks, x)
  BY <1>1, <1>2, <1>3 DEF Running
<1>. QED
  BY <1>4 DEF x

\* An empty ledger says that nothing is used.
LEMMA NothingConsumed == \A p \in Projects : \A g \in Resources : ConsumedIn(<<>>, p)[g] = 0
<1>1. <<>> \in Seq(Entries)
  OBVIOUS
<1>2. ASSUME NEW p \in Projects
      PROVE  ConsumedIn(<<>>, p) = Books0
  BY <1>1, ConsumedGoesOn
<1>. QED
  BY <1>2 DEF Books0

\* The books that a checkpoint takes over are those it closes.
LEMMA UsesOpen ==
    ASSUME NEW projects, NEW base, NEW ledger, ledger \in Seq(Entries), Uses(projects, base,
           ledger),
           NEW next, next.consumed = [p \in Projects |-> [g \in Resources |->
                        base.consumed[p][g] + ConsumedIn(ledger, p)[g]]]
    PROVE  Uses(projects, next, <<>>)
<1>1. \A p \in Projects : \A g \in Resources : ConsumedIn(<<>>, p)[g] = 0
  BY NothingConsumed
<1>2. ASSUME NEW p \in Projects, NEW g \in Resources
      PROVE  base.consumed[p][g] \in Int /\ ConsumedIn(ledger, p)[g] \in Int
  <2>1. ConsumedIn(ledger, p) \in [Resources -> Int] /\ base.consumed \in [Projects -> [Resources -> Int]]
    BY ConsumedGoesOn DEF Uses
  <2>. QED
    BY <2>1
<1>. DEFINE books == next.consumed
<1>3. \A p \in Projects : \A g \in Resources :
          books[p][g] = base.consumed[p][g] + ConsumedIn(ledger, p)[g]
  OBVIOUS
<1>4. books = [p \in Projects |-> [g \in Resources |-> books[p][g]]]
  OBVIOUS
<1>5. \A p \in Projects : \A g \in Resources :
          books[p][g] = IF p \in DOMAIN projects THEN MilestoneUse(projects[p], p, g) ELSE 0
  BY <1>3 DEF Uses
<1>6. \A p \in Projects : \A g \in Resources : books[p][g] \in Int
  BY <1>2, <1>3
<1>7. books \in [Projects -> [Resources -> Int]]
  <2>. HIDE DEF books
  <2>. QED
    BY <1>4, <1>6
<1>8. \A p \in Projects : \A g \in Resources : books[p][g] + ConsumedIn(<<>>, p)[g] = books[p][g]
  BY <1>1, <1>6
<1>. HIDE DEF books
<1>9. \A p \in Projects : \A g \in Resources : books[p][g] + ConsumedIn(<<>>, p)[g] =
          IF p \in DOMAIN projects THEN MilestoneUse(projects[p], p, g) ELSE 0
  BY <1>5, <1>8
<1>. QED
  BY <1>7, <1>9 DEF Uses, books

\* What is in order but for the ledger is in order once a checkpoint is taken.
Closes(c) ==
    /\ c.time \in Nat /\ c.ledger \in Seq(Entries) /\ Shelves(c.stocks)
    /\ Running(c.stocks, c.processes)
    /\ Uses(c.projects, c.base, c.ledger) /\ Walks(c.migrations, c.journeys)

\* checkpoint drops the entries and opens with what they came to.
LEMMA CheckpointAccounts ==
    ASSUME NEW c, IsCivilization(c), Closes(c)
    PROVE  /\ AccountsOK(Checkpoint(c)) /\ Checkpoint(c).time = c.time
           /\ Checkpoint(c).ledger = <<>> /\ Checkpoint(c).stocks = c.stocks
           /\ Checkpoint(c).processes = KeptOf(c.processes)
<1>. DEFINE b == [stocks |-> c.stocks, consumed |-> CheckpointBooks(c)]
            x == KeptOf(c.processes)
            d == [c EXCEPT !.base = b, !.ledger = <<>>, !.outcomes = {}, !.processes = x]
            time == c.time
            stocks == c.stocks
            ledger == c.ledger
            base == c.base
<1>1. Checkpoint(c) = d
  BY DEF Checkpoint, KeptOf, IsCivilization, Tables
<1>2. b.stocks = stocks /\ b.consumed = [p \in Projects |-> [g \in Resources |->
                        base.consumed[p][g] + ConsumedIn(ledger, p)[g]]]
  BY DEF CheckpointBooks, ConsumedBooks
<1>3. /\ time \in Nat /\ ledger \in Seq(Entries) /\ Shelves(stocks)
      /\ Running(stocks, c.processes)
      /\ Uses(c.projects, base, ledger) /\ Walks(c.migrations, c.journeys)
  BY DEF Closes
<1>. HIDE DEF b, x
<1>4. /\ d.time = time /\ d.stocks = stocks /\ d.processes = x /\ d.projects = c.projects
      /\ d.migrations = c.migrations /\ d.journeys = c.journeys /\ d.base = b
      /\ d.ledger = <<>> /\ d.outcomes = {}
  BY DEF IsCivilization, Tables
<1>. HIDE DEF d, time, stocks, ledger, base
<1>5. Running(stocks, x)
  BY <1>3, KeptRun DEF x
<1>6. Ledger(time, stocks, b, <<>>)
  BY <1>2, <1>3, LedgerOpens
<1>7. Uses(c.projects, b, <<>>)
  BY <1>2, <1>3, UsesOpen
<1>8. Meals(time, <<>>, {})
  BY DEF Meals
<1>9. AccountsOK(d)
  BY <1>3, <1>4, <1>5, <1>6, <1>7, <1>8 DEF AccountsOK
<1>. QED
  BY <1>1, <1>4, <1>9 DEF x, time, stocks

\* A state in order may be closed.
LEMMA InOrderCloses ==
    ASSUME NEW c, AccountsOK(c)
    PROVE  Closes(c)
BY DEF AccountsOK, Closes, Ledger

\* bootstrapCivilization.
LEMMA InitAccounts ==
    ASSUME KernelInit
    PROVE  AccountsOK(now) /\ now.time = 0 /\ now.ledger = <<>>
           /\ now.stocks = Genesis.stocks /\ DOMAIN now.processes = {}
<1>0. PICK r \in Registered :
         now = Checkpoint([EmptyCivilization EXCEPT !.stocks = Genesis.stocks,
                                                    !.households = r.homes,
                                                    !.citizens = r.people])
  BY DEF KernelInit
<1>. DEFINE b == [EmptyCivilization EXCEPT !.stocks = Genesis.stocks, !.households = r.homes,
                                           !.citizens = r.people]
<1>1. /\ b.stocks = Genesis.stocks /\ b.projects = <<>> /\ b.migrations = <<>> /\ b.journeys = <<>>
      /\ b.time = 0 /\ b.ledger = <<>> /\ b.processes = <<>> /\ b.base.consumed = ZeroBooks
  BY DEF EmptyCivilization
<1>2. IsCivilization(b)
  BY DEF EmptyCivilization, IsCivilization, Tables
<1>. HIDE DEF b
<1>3. DOMAIN <<>> = {} /\ <<>> = [x \in {} |-> <<>>[x]]
  OBVIOUS
<1>4. Shelves(b.stocks)
  BY <1>1, KernelAssumption DEF Shelves
<1>5. Running(b.stocks, b.processes) /\ Walks(b.migrations, b.journeys)
  BY <1>1, <1>3, FS_EmptySet DEF Running, Walks
<1>6. Uses(b.projects, b.base, b.ledger)
  <2>2. \A p \in Projects : \A g \in Resources : ConsumedIn(<<>>, p)[g] = 0
    BY NothingConsumed
  <2>3. /\ ZeroBooks \in [Projects -> [Resources -> Int]]
        /\ \A p \in Projects : \A g \in Resources : ZeroBooks[p][g] = 0
    BY DEF ZeroBooks
  <2>. QED
    BY <1>1, <1>3, <2>2, <2>3 DEF Uses
<1>7. Closes(b)
  BY <1>1, <1>4, <1>5, <1>6 DEF Closes
<1>8. now = Checkpoint(b)
  BY <1>0 DEF b
<1>9. DOMAIN KeptOf(b.processes) = {}
  BY <1>1, <1>3 DEF KeptOf, Without
<1>. QED
  BY <1>1, <1>2, <1>7, <1>8, <1>9, CheckpointAccounts

-----------------------------------------------------------------------------
(* The calls, one by one: what is so of them and what they keep *)

\* The time of a call has come and is not over.
LEMMA TimesAreNumbers ==
    ASSUME AccountsInv
    PROVE  /\ IsCivilization(now) /\ KernelOK(caller.calls, now) /\ AccountsOK(now)
           /\ \A at \in Times : at \in Nat /\ at >= now.time /\ at =< MaxTime
           /\ now.time \in Nat /\ now.time >= now.time /\ now.time =< MaxTime
           /\ Len(now.ledger) \in Nat /\ Len(now.ledger) =< MaxEntries
           /\ MaxEntries \in Nat /\ MaxTime \in Nat
<1>1. IsCivilization(now) /\ KernelOK(caller.calls, now) /\ AccountsOK(now)
  BY DEF AccountsInv, KernelInv, KernelOK
<1>2. now.time \in Nat /\ Len(now.ledger) \in Nat
  BY <1>1, AccountsAreNumbers
<1>3. MaxEntries \in Nat /\ MaxTime \in Nat
  BY KernelAssumption
<1>. QED
  BY <1>1, <1>2, <1>3 DEF Times, AccountsInv, Bounds

\* A call that makes an entry there is room for.
LEMMA DidKeeps ==
    ASSUME AccountsInv, NEW d, NEW at \in Nat, at =< MaxTime, RoomFor(1), NEW stocks, NEW processes,
           Did(now, d, at, stocks, processes)
    PROVE  AccountsOK(d) /\ Bounds(d)
BY TimesAreNumbers DEF Did, Bounds, RoomFor

\* A call that makes none.
LEMMA SilentCallKeeps ==
    ASSUME AccountsInv, NEW d, NEW at \in Nat, at =< MaxTime, SilentCall(now, d, at)
    PROVE  AccountsOK(d) /\ Bounds(d)
BY TimesAreNumbers DEF SilentCall, Silent, Bounds

\* What the accounts keep, and what has become of the stocks and the processes.
NowAre(stocks, processes) ==
    AccountsOK(now') /\ Bounds(now') /\ now'.stocks = stocks /\ now'.processes = processes

\* A call that adds one entry keeps the accounts and the bounds.
LEMMA DidWrites ==
    ASSUME AccountsInv, NEW at \in Nat, at =< MaxTime, RoomFor(1), NEW stocks, NEW processes,
           NEW d, Did(now, d, at, stocks, processes), now' = d
    PROVE  NowAre(stocks, processes)
<1>1. AccountsOK(d) /\ Bounds(d) /\ d.stocks = stocks /\ d.processes = processes
  BY DidKeeps DEF Did
<1>. QED
  BY <1>1 DEF NowAre

\* registerStock.
LEMMA RegisterStockStep ==
    ASSUME AccountsInv, DoRegisterStock
    PROVE  \E s \in Stocks, q \in Nat : /\ s \notin DOMAIN now.stocks
                /\ NowAre(MovedBy(With(now.stocks, s, 0), [x \in {s} |-> q]), now.processes)
<1>1. PICK s \in caller.stocks, q \in 0..MaxUnits :
         RoomFor(1) /\ CanRegisterStock(now, s, q, now.time) /\ now' = RegisterStock(now, s, q, now.time)
  BY DEF DoRegisterStock, Step
<1>2. s \in Stocks /\ q \in Nat
  BY CallerFacts, UnitsAreNumbers DEF AccountsInv
<1>3. s \notin DOMAIN now.stocks
  BY <1>1 DEF CanRegisterStock
<1>4. Did(now, RegisterStock(now, s, q, now.time), now.time,
          MovedBy(With(now.stocks, s, 0), [x \in {s} |-> q]), now.processes)
  BY <1>1, <1>2, TimesAreNumbers, RegisterStockAccounts
<1>5. NowAre(MovedBy(With(now.stocks, s, 0), [x \in {s} |-> q]), now.processes)
  BY <1>1, <1>4, TimesAreNumbers, DidWrites
<1>. QED
  BY <1>2, <1>3, <1>5

\* transferResource, and deliverProjectResource which transfers.
LEMMA TransferStep ==
    ASSUME AccountsInv, DoTransfer
    PROVE  \E a, b, q : /\ q \in Nat /\ a # b /\ {a, b} \subseteq DOMAIN now.stocks
                        /\ ResourceOf(a) = ResourceOf(b)
                        /\ NowAre(MovedBy(now.stocks, Line(a, b, q)), now.processes)
<1>1. PICK a \in caller.stocks, b \in caller.stocks, q \in Units, at \in Times :
         /\ RoomFor(1) /\ CanTransfer(now, a, b, q, at)
         /\ now' = Transfer(now, "transfer", a, b, q, at)
  BY DEF DoTransfer, Step
<1>2. q \in Nat /\ at \in Nat /\ at =< MaxTime
  BY UnitsAreNumbers, TimesAreNumbers
<1>3. a # b /\ {a, b} \subseteq DOMAIN now.stocks /\ ResourceOf(a) = ResourceOf(b)
  BY <1>1 DEF CanTransfer
<1>4. Did(now, Transfer(now, "transfer", a, b, q, at), at, MovedBy(now.stocks, Line(a, b, q)),
          now.processes)
  BY <1>1, <1>2, TimesAreNumbers, TransferAccounts
<1>5. NowAre(MovedBy(now.stocks, Line(a, b, q)), now.processes)
  BY <1>1, <1>2, <1>4, DidWrites
<1>. QED
  BY <1>2, <1>3, <1>5

\* deliverProjectResources is a transfer to the milestone.
LEMMA DeliverStep ==
    ASSUME AccountsInv, DoDeliver
    PROVE  \E a, b, q : /\ q \in Nat /\ a # b /\ {a, b} \subseteq DOMAIN now.stocks
                        /\ ResourceOf(a) = ResourceOf(b)
                        /\ NowAre(MovedBy(now.stocks, Line(a, b, q)), now.processes)
<1>1. PICK p \in DOMAIN now.projects, a \in DOMAIN now.stocks, b \in DOMAIN now.stocks,
           q \in Units, at \in Times : \E i \in DOMAIN Plan(p) :
         /\ RoomFor(1) /\ CanDeliver(now, p, i, a, b, q, at)
         /\ now' = Deliver(now, p, i, a, b, q, at)
  BY DEF DoDeliver, Step
<1>2. PICK i \in DOMAIN Plan(p) :
         /\ RoomFor(1) /\ CanDeliver(now, p, i, a, b, q, at)
         /\ now' = Deliver(now, p, i, a, b, q, at)
  BY <1>1
<1>3. q \in Nat /\ at \in Nat /\ at =< MaxTime
  BY UnitsAreNumbers, TimesAreNumbers
<1>4. a # b /\ {a, b} \subseteq DOMAIN now.stocks /\ ResourceOf(a) = ResourceOf(b)
  BY <1>2 DEF CanDeliver, CanTransfer
<1>5. Did(now, Deliver(now, p, i, a, b, q, at), at, MovedBy(now.stocks, Line(a, b, q)), now.processes)
  BY <1>2, <1>3, TimesAreNumbers, DeliverAccounts
<1>6. NowAre(MovedBy(now.stocks, Line(a, b, q)), now.processes)
  BY <1>2, <1>3, <1>5, DidWrites
<1>. QED
  BY <1>3, <1>4, <1>6

\* startProduction.
StartedOf(r, out, at) ==
    [recipe |-> r, out |-> out, state |-> "active", due |-> at + RecipeInfo[r].duration]

\* startProduction.
LEMMA StartProductionStep ==
    ASSUME AccountsInv, DoStartProduction
    PROVE  \E r \in Recipes : \E id, in, out, at :
              /\ id \notin DOMAIN now.processes /\ IsBinding(now.stocks, RecipeInfo[r].in, in)
              /\ NowAre(MovedBy(now.stocks, Bound(RecipeInfo[r].in, in, -1)),
                       With(now.processes, id, StartedOf(r, out, at)))
<1>1. PICK id \in Processes, r \in caller.recipes, site \in Sites, at \in Times :
         \E in \in Bindings(now, RecipeInfo[r].in), out \in Bindings(now, RecipeInfo[r].out) :
            /\ RoomFor(1) /\ CanStartProduction(now, id, r, site, in, out, at)
            /\ now' = StartProduction(now, id, r, in, out, at)
  BY DEF DoStartProduction, Step
<1>2. PICK in \in Bindings(now, RecipeInfo[r].in), out \in Bindings(now, RecipeInfo[r].out) :
         /\ RoomFor(1) /\ CanStartProduction(now, id, r, site, in, out, at)
         /\ now' = StartProduction(now, id, r, in, out, at)
  BY <1>1
<1>3. r \in Recipes /\ at \in Nat /\ at =< MaxTime
  BY KernelAssumption, TimesAreNumbers DEF AccountsInv, KernelInv
<1>4. id \notin DOMAIN now.processes /\ IsBinding(now.stocks, RecipeInfo[r].in, in)
  BY <1>2, BindingFacts DEF CanStartProduction
<1>5. Did(now, StartProduction(now, id, r, in, out, at), at,
          MovedBy(now.stocks, Bound(RecipeInfo[r].in, in, -1)),
          With(now.processes, id, StartedOf(r, out, at)))
  BY <1>2, <1>3, TimesAreNumbers, StartProductionAccounts DEF StartedOf
<1>6. NowAre(MovedBy(now.stocks, Bound(RecipeInfo[r].in, in, -1)),
            With(now.processes, id, StartedOf(r, out, at)))
  BY <1>2, <1>3, <1>5, DidWrites
<1>. QED
  BY <1>3, <1>4, <1>6

\* completeProduction.
LEMMA CompleteProductionStep ==
    ASSUME AccountsInv, DoCompleteProduction
    PROVE  \E id \in DOMAIN now.processes :
              /\ IsActive(now, id)
              /\ NowAre(MovedBy(now.stocks, Outputs(now, id)), CompletedOf(now.processes, id))
<1>1. PICK id \in Processes, at \in Times :
         /\ RoomFor(1) /\ CanCompleteProduction(now, id, at)
         /\ now' = CompleteProduction(now, id, at)
  BY DEF DoCompleteProduction, Step
<1>2. at \in Nat /\ at =< MaxTime /\ id \in DOMAIN now.processes /\ IsActive(now, id)
  BY <1>1, TimesAreNumbers DEF CanCompleteProduction
<1>3. Did(now, CompleteProduction(now, id, at), at, MovedBy(now.stocks, Outputs(now, id)),
          CompletedOf(now.processes, id))
  BY <1>1, <1>2, TimesAreNumbers, CompleteProductionAccounts
<1>4. NowAre(MovedBy(now.stocks, Outputs(now, id)), CompletedOf(now.processes, id))
  BY <1>1, <1>2, <1>3, DidWrites
<1>. QED
  BY <1>2, <1>4

\* consumeDailyNeeds and consumeProjectResource: nothing but less is held.
UsedUp(c, d) ==
    /\ d.processes = c.processes /\ DOMAIN d.stocks = DOMAIN c.stocks
    /\ \A s \in DOMAIN c.stocks : d.stocks[s] =< c.stocks[s]

\* consumeNeeds only takes, and opens and closes no process.
LEMMA ConsumeNeedsStep ==
    ASSUME AccountsInv, DoConsumeNeeds
    PROVE  AccountsOK(now') /\ Bounds(now') /\ UsedUp(now, now')
<1>1. PICK batch \in caller.batches, at \in Times :
         /\ RoomFor(Len(batch)) /\ CanConsumeNeeds(now, batch, at)
         /\ now' = ConsumeNeeds(now, batch, [p \in Citizens |-> Stocks], at)
  BY DEF DoConsumeNeeds, Step
<1>2. batch \in Seq(Citizens) /\ at \in Nat /\ at =< MaxTime
  BY CallerFacts, TimesAreNumbers DEF AccountsInv
<1>. DEFINE d == ConsumeNeeds(now, batch, [p \in Citizens |-> Stocks], at)
<1>3. FedSoFar(now, d, batch, Len(batch), at) /\ Len(batch) # 0
  BY <1>1, <1>2, TimesAreNumbers, ConsumeNeedsAccounts
<1>. HIDE DEF d
<1>4. AccountsOK(d) /\ d.time = at /\ Len(d.ledger) =< Len(now.ledger) + Len(batch) /\ UsedUp(now, d)
  BY <1>3 DEF FedSoFar, UsedUp
<1>5. Len(d.ledger) \in Nat /\ Len(now.ledger) \in Nat /\ Len(batch) \in Nat /\ MaxEntries \in Nat
  BY <1>2, <1>4, AccountsAreNumbers, TimesAreNumbers
<1>6. Bounds(d)
  BY <1>1, <1>2, <1>4, <1>5 DEF Bounds, RoomFor
<1>. QED
  BY <1>1, <1>4, <1>6 DEF d

\* consumeProjectResources takes from one stock.
LEMMA ConsumeStep ==
    ASSUME AccountsInv, DoConsume
    PROVE  AccountsOK(now') /\ Bounds(now') /\ UsedUp(now, now')
<1>1. PICK p \in DOMAIN now.projects, s \in DOMAIN now.stocks, q \in Units, at \in Times :
         \E i \in DOMAIN Plan(p) :
            RoomFor(1) /\ CanConsume(now, p, i, s, q, at) /\ now' = Consume(now, p, i, s, q, at)
  BY DEF DoConsume, Step
<1>2. PICK i \in DOMAIN Plan(p) :
         RoomFor(1) /\ CanConsume(now, p, i, s, q, at) /\ now' = Consume(now, p, i, s, q, at)
  BY <1>1
<1>3. q \in Nat /\ at \in Nat /\ at =< MaxTime
  BY UnitsAreNumbers, TimesAreNumbers
<1>. DEFINE delta == [x \in {s} |-> -q]
<1>4. Did(now, Consume(now, p, i, s, q, at), at, MovedBy(now.stocks, delta), now.processes)
  BY <1>2, <1>3, TimesAreNumbers, ConsumeAccounts
<1>5. NowAre(MovedBy(now.stocks, delta), now.processes)
  BY <1>2, <1>3, <1>4, DidWrites
<1>6. \A x \in DOMAIN now.stocks : now.stocks[x] \in Nat
  BY AccountsAreNumbers, TimesAreNumbers
<1>7. \A x : DeltaOf(delta, x) \in Int /\ DeltaOf(delta, x) =< 0
  BY <1>3 DEF DeltaOf
<1>. HIDE DEF delta
<1>8. /\ DOMAIN MovedBy(now.stocks, delta) = DOMAIN now.stocks
      /\ \A x \in DOMAIN now.stocks :
            MovedBy(now.stocks, delta)[x] = now.stocks[x] + DeltaOf(delta, x)
  BY DEF MovedBy
<1>9. \A x \in DOMAIN now.stocks : MovedBy(now.stocks, delta)[x] =< now.stocks[x]
  BY <1>6, <1>7, <1>8
<1>. QED
  BY <1>5, <1>8, <1>9 DEF NowAre, UsedUp

\* checkpointCivilizationAccounting.
LEMMA CheckpointStep ==
    ASSUME AccountsInv, DoCheckpoint
    PROVE  NowAre(now.stocks, KeptOf(now.processes))
<1>1. now' = Checkpoint(now)
  BY DEF DoCheckpoint, Step
<1>2. /\ AccountsOK(Checkpoint(now)) /\ Checkpoint(now).time = now.time
      /\ Checkpoint(now).ledger = <<>> /\ Checkpoint(now).stocks = now.stocks
      /\ Checkpoint(now).processes = KeptOf(now.processes)
  BY TimesAreNumbers, InOrderCloses, CheckpointAccounts
<1>3. Bounds(Checkpoint(now))
  BY <1>2, TimesAreNumbers DEF Bounds
<1>. QED
  BY <1>1, <1>2, <1>3 DEF NowAre

-----------------------------------------------------------------------------
(* The accounts in every reachable state *)

\* A call that moves nothing.
SilentStep ==
    AccountsOK(now') /\ Bounds(now') /\ now'.stocks = now.stocks /\ now'.processes = now.processes

\* Such a call keeps the accounts and the bounds.
LEMMA SilentWrites ==
    ASSUME AccountsInv, NEW at \in Nat, at =< MaxTime, NEW d, SilentCall(now, d, at), now' = d
    PROVE  SilentStep
<1>1. AccountsOK(d) /\ Bounds(d) /\ d.stocks = now.stocks /\ d.processes = now.processes
  BY SilentCallKeeps DEF SilentCall, Silent
<1>. QED
  BY <1>1 DEF SilentStep

\* The calls about projects that move nothing.
ProjectCalls ==
    \/ DoRegisterProject \/ DoApproveProject \/ DoStartProject \/ DoContribute
    \/ DoCompleteMilestone \/ DoCompleteProject \/ DoMaterialize \/ DoFailProject \/ DoAbandonProject

\* The calls about projects and their milestones, but deliveries and uses.
LEMMA ProjectSteps ==
    ASSUME AccountsInv, ProjectCalls
    PROVE  SilentStep
<1>1. /\ IsCivilization(now) /\ KernelOK(caller.calls, now) /\ AccountsOK(now)
      /\ \A at \in Times : at \in Nat /\ at >= now.time /\ at =< MaxTime
      /\ now.time \in Nat /\ now.time >= now.time /\ now.time =< MaxTime
  BY TimesAreNumbers
<1>2. CASE DoRegisterProject
  <2>1. PICK p \in caller.projects : CanRegisterProject(now, p) /\ now' = RegisterProject(now, p)
    BY <1>2 DEF DoRegisterProject, Step
  <2>2. SilentCall(now, RegisterProject(now, p), now.time)
    BY <1>1, <2>1, CallerFacts, RegisterProjectAccounts DEF AccountsInv
  <2>. QED
    BY <1>1, <2>1, <2>2, SilentWrites
<1>3. CASE DoApproveProject
  <2>1. PICK p \in DOMAIN now.projects : now' = ApproveProject(now, p)
    BY <1>3 DEF DoApproveProject, Step, Is
  <2>2. SilentCall(now, ApproveProject(now, p), now.time)
    BY <1>1, ProjectStatesAccount
  <2>. QED
    BY <1>1, <2>1, <2>2, SilentWrites
<1>4. CASE DoStartProject
  <2>1. PICK p \in DOMAIN now.projects, at \in Times : now' = StartProject(now, p, at)
    BY <1>4 DEF DoStartProject, Step, CanStartProject, Is
  <2>2. SilentCall(now, StartProject(now, p, at), at)
    BY <1>1, ProjectStatesAccount
  <2>. QED
    BY <1>1, <2>1, <2>2, SilentWrites
<1>5. CASE DoContribute
  <2>1. PICK p \in DOMAIN now.projects, who \in Citizens, n \in Units, at \in Times :
           \E i \in DOMAIN Plan(p) :
              CanContribute(now, p, i, who, n, at) /\ now' = Contribute(now, p, i, n, at)
    BY <1>5 DEF DoContribute, Step
  <2>2. PICK i \in DOMAIN Plan(p) :
           CanContribute(now, p, i, who, n, at) /\ now' = Contribute(now, p, i, n, at)
    BY <2>1
  <2>3. n \in Nat
    BY UnitsAreNumbers
  <2>4. SilentCall(now, Contribute(now, p, i, n, at), at)
    BY <1>1, <2>2, <2>3, ContributeAccounts
  <2>. QED
    BY <1>1, <2>2, <2>4, SilentWrites
<1>6. CASE DoCompleteMilestone
  <2>1. PICK p \in DOMAIN now.projects : \E i \in DOMAIN Plan(p) :
           CanCompleteMilestone(now, p, i) /\ now' = CompleteMilestone(now, p, i)
    BY <1>6 DEF DoCompleteMilestone, Step
  <2>2. PICK i \in DOMAIN Plan(p) :
           CanCompleteMilestone(now, p, i) /\ now' = CompleteMilestone(now, p, i)
    BY <2>1
  <2>3. SilentCall(now, CompleteMilestone(now, p, i), now.time)
    BY <1>1, <2>2, CompleteMilestoneAccounts
  <2>. QED
    BY <1>1, <2>2, <2>3, SilentWrites
<1>7. CASE DoCompleteProject
  <2>1. PICK p \in DOMAIN now.projects, at \in Times : now' = CompleteProject(now, p, at)
    BY <1>7 DEF DoCompleteProject, Step, CanCompleteProject, Is
  <2>2. SilentCall(now, CompleteProject(now, p, at), at)
    BY <1>1, ProjectStatesAccount
  <2>. QED
    BY <1>1, <2>1, <2>2, SilentWrites
<1>8. CASE DoMaterialize
  <2>1. PICK p, kind : now' = Materialize(now, p, kind, now.time)
    BY <1>8 DEF DoMaterialize, Step
  <2>2. SilentCall(now, Materialize(now, p, kind, now.time), now.time)
    BY <1>1, PeopleAccount
  <2>. QED
    BY <1>1, <2>1, <2>2, SilentWrites
<1>9. CASE DoFailProject
  <2>1. PICK p \in DOMAIN now.projects : now' = FailProject(now, p, now.time)
    BY <1>9 DEF DoFailProject, Step, CanEnd, Is
  <2>2. SilentCall(now, FailProject(now, p, now.time), now.time)
    BY <1>1, FailProjectAccounts
  <2>. QED
    BY <1>1, <2>1, <2>2, SilentWrites
<1>10. CASE DoAbandonProject
  <2>1. PICK p \in DOMAIN now.projects : now' = AbandonProject(now, p, now.time)
    BY <1>10 DEF DoAbandonProject, Step, CanEnd, Is
  <2>2. SilentCall(now, AbandonProject(now, p, now.time), now.time)
    BY <1>1, ProjectStatesAccount
  <2>. QED
    BY <1>1, <2>1, <2>2, SilentWrites
<1>. QED
  BY <1>2, <1>3, <1>4, <1>5, <1>6, <1>7, <1>8, <1>9, <1>10 DEF ProjectCalls

\* The calls about people.
PeopleCalls ==
    \/ DoFormHousehold \/ DoLeaveHousehold \/ DoDepart \/ DoArrive
    \/ DoRegisterMigration \/ DoRegisterJourney \/ DoDepartMigration \/ DoWalk
    \/ DoRegisterFounding \/ DoAdvanceFounding \/ DoSettle
    \/ DoRegisterHousehold \/ DoSettleUnsited

\* The calls about people, buildings, foundings and journeys.
LEMMA PeopleSteps ==
    ASSUME AccountsInv, PeopleCalls
    PROVE  SilentStep
<1>1. /\ IsCivilization(now) /\ KernelOK(caller.calls, now) /\ AccountsOK(now)
      /\ \A at \in Times : at \in Nat /\ at >= now.time /\ at =< MaxTime
      /\ now.time \in Nat /\ now.time >= now.time /\ now.time =< MaxTime
  BY TimesAreNumbers
<1>2. CASE DoFormHousehold
  <2>1. PICK h, a, members : now' = FormHousehold(now, h, a, members)
    BY <1>2 DEF DoFormHousehold, Step
  <2>2. SilentCall(now, FormHousehold(now, h, a, members), now.time)
    BY <1>1, PeopleAccount
  <2>. QED
    BY <1>1, <2>1, <2>2, SilentWrites
<1>3. CASE DoLeaveHousehold
  <2>1. PICK p : now' = LeaveHousehold(now, p)
    BY <1>3 DEF DoLeaveHousehold, Step
  <2>2. SilentCall(now, LeaveHousehold(now, p), now.time)
    BY <1>1, PeopleAccount
  <2>. QED
    BY <1>1, <2>1, <2>2, SilentWrites
<1>4. CASE DoDepart
  <2>1. PICK p : now' = DepartCitizen(now, p, now.time)
    BY <1>4 DEF DoDepart, Step
  <2>2. SilentCall(now, DepartCitizen(now, p, now.time), now.time)
    BY <1>1, PeopleAccount
  <2>. QED
    BY <1>1, <2>1, <2>2, SilentWrites
<1>5. CASE DoArrive
  <2>1. PICK p, a : now' = ArriveCitizen(now, p, a, now.time)
    BY <1>5 DEF DoArrive, Step
  <2>2. SilentCall(now, ArriveCitizen(now, p, a, now.time), now.time)
    BY <1>1, PeopleAccount
  <2>. QED
    BY <1>1, <2>1, <2>2, SilentWrites
<1>6. CASE DoRegisterMigration
  <2>1. PICK m \in caller.migrations, departure \in Times :
           CanRegisterMigration(now, m) /\ now' = RegisterMigration(now, m, departure)
    BY <1>6 DEF DoRegisterMigration, Step
  <2>2. m \in Migrations
    BY CallerFacts DEF AccountsInv
  <2>3. SilentCall(now, RegisterMigration(now, m, departure), now.time)
    BY <1>1, <2>1, <2>2, RegisterMigrationAccounts
  <2>. QED
    BY <1>1, <2>1, <2>3, SilentWrites
<1>7. CASE DoRegisterJourney
  <2>1. PICK m \in Migrations : CanRegisterJourney(now, m) /\ now' = RegisterJourney(now, m)
    BY <1>7 DEF DoRegisterJourney, Step
  <2>2. SilentCall(now, RegisterJourney(now, m), now.time)
    BY <1>1, <2>1, RegisterJourneyAccounts
  <2>. QED
    BY <1>1, <2>1, <2>2, SilentWrites
<1>8. CASE DoDepartMigration
  <2>1. PICK m \in Migrations, at \in Times :
           CanDepartMigration(now, m, at) /\ now' = DepartMigration(now, m, at)
    BY <1>8 DEF DoDepartMigration, Step
  <2>2. SilentCall(now, DepartMigration(now, m, at), at)
    BY <1>1, <2>1, DepartMigrationAccounts
  <2>. QED
    BY <1>1, <2>1, <2>2, SilentWrites
<1>9. CASE DoWalk
  <2>1. PICK m \in Migrations, n \in Units, at \in Times :
           CanWalk(now, m, n, at) /\ now' = Walk(now, m, n, at)
    BY <1>9 DEF DoWalk, Step
  <2>2. n \in Nat
    BY UnitsAreNumbers
  <2>3. SilentCall(now, Walk(now, m, n, at), at)
    BY <1>1, <2>1, <2>2, WalkAccounts
  <2>. QED
    BY <1>1, <2>1, <2>3, SilentWrites
<1>10. CASE DoRegisterFounding
  <2>1. PICK f : now' = RegisterFounding(now, f)
    BY <1>10 DEF DoRegisterFounding, Step
  <2>2. SilentCall(now, RegisterFounding(now, f), now.time)
    BY <1>1, PeopleAccount
  <2>. QED
    BY <1>1, <2>1, <2>2, SilentWrites
<1>11. CASE DoAdvanceFounding
  <2>1. PICK f : now' = AdvanceFounding(now, f, now.time)
    BY <1>11 DEF DoAdvanceFounding, Step
  <2>2. SilentCall(now, AdvanceFounding(now, f, now.time), now.time)
    BY <1>1, PeopleAccount
  <2>. QED
    BY <1>1, <2>1, <2>2, SilentWrites
<1>12. CASE DoSettle
  <2>1. PICK f : now' = Settle(now, f, now.time)
    BY <1>12 DEF DoSettle, Step
  <2>2. SilentCall(now, Settle(now, f, now.time), now.time)
    BY <1>1, PeopleAccount
  <2>. QED
    BY <1>1, <2>1, <2>2, SilentWrites
<1>13. CASE DoRegisterHousehold
  <2>1. PICK h, a, members : now' = RegisterHousehold(now, h, a, members)
    BY <1>13 DEF DoRegisterHousehold, Step
  <2>2. SilentCall(now, RegisterHousehold(now, h, a, members), now.time)
    BY <1>1, PeopleAccount
  <2>. QED
    BY <1>1, <2>1, <2>2, SilentWrites
<1>14. CASE DoSettleUnsited
  <2>1. PICK f : now' = SettleUnsited(now, f, now.time)
    BY <1>14 DEF DoSettleUnsited, Step
  <2>2. SilentCall(now, SettleUnsited(now, f, now.time), now.time)
    BY <1>1, PeopleAccount
  <2>. QED
    BY <1>1, <2>1, <2>2, SilentWrites
<1>. QED
  BY <1>2, <1>3, <1>4, <1>5, <1>6, <1>7, <1>8, <1>9, <1>10, <1>11, <1>12, <1>13, <1>14
     DEF PeopleCalls

\* Every call keeps the accounts.
LEMMA NextAccounts ==
    ASSUME AccountsInv, [KernelNext]_kernelVars
    PROVE  AccountsInv'
<1>1. KernelInv'
  BY NextKeeps DEF AccountsInv
<1>2. AccountsOK(now') /\ Bounds(now')
  <2>1. CASE UNCHANGED kernelVars
    BY <2>1 DEF kernelVars, AccountsInv
  <2>2. CASE DoRegisterStock
    BY <2>2, RegisterStockStep DEF NowAre
  <2>3. CASE DoTransfer
    BY <2>3, TransferStep DEF NowAre
  <2>4. CASE DoStartProduction
    BY <2>4, StartProductionStep DEF NowAre
  <2>5. CASE DoCompleteProduction
    BY <2>5, CompleteProductionStep DEF NowAre
  <2>6. CASE DoConsumeNeeds
    BY <2>6, ConsumeNeedsStep
  <2>7. CASE DoCheckpoint
    BY <2>7, CheckpointStep DEF NowAre
  <2>8. CASE DoDeliver
    BY <2>8, DeliverStep DEF NowAre
  <2>9. CASE DoConsume
    BY <2>9, ConsumeStep
  <2>10. CASE ProjectCalls
    BY <2>10, ProjectSteps DEF SilentStep
  <2>11. CASE PeopleCalls
    BY <2>11, PeopleSteps DEF SilentStep
  <2>. QED
    BY <2>1, <2>2, <2>3, <2>4, <2>5, <2>6, <2>7, <2>8, <2>9, <2>10, <2>11
       DEF KernelNext, ProjectCalls, PeopleCalls
<1>. QED
  BY <1>1, <1>2 DEF AccountsInv

\* The accounts are in order from the bootstrap on.
LEMMA InitKeepsAccounts == KernelInit => AccountsInv
<1>. SUFFICES ASSUME KernelInit PROVE AccountsInv
  OBVIOUS
<1>1. KernelInv
  BY InitKeeps
<1>2. AccountsOK(now) /\ now.time = 0 /\ Len(now.ledger) = 0
  BY InitAccounts
<1>3. MaxTime \in Nat /\ MaxEntries \in Nat
  BY KernelAssumption
<1>4. Bounds(now)
  BY <1>2, <1>3 DEF Bounds
<1>. QED
  BY <1>1, <1>2, <1>4 DEF AccountsInv

\* Whoever calls the kernel, and in whatever order, its accounts are in order:
\* stocks are what the checkpoint and the ledger make them, projects have
\* consumed what the ledger says, a citizen eats once at a time what an entry
\* says, and a journey has done the legs behind it.
THEOREM AccountsCorrectness == KernelSpec => []AccountsInv
<1>1. KernelInit => AccountsInv
  BY InitKeepsAccounts
<1>2. AccountsInv /\ [KernelNext]_kernelVars => AccountsInv'
  BY NextAccounts
<1>. QED
  BY <1>1, <1>2, PTL DEF KernelSpec

\* Type correctness of the kernel.
THEOREM KernelTypeCorrectness == KernelSpec => []KernelTypeOK
<1>1. AccountsInv => KernelTypeOK
  <2>. SUFFICES ASSUME AccountsInv PROVE KernelTypeOK
    OBVIOUS
  <2>1. KernelOK(caller.calls, now) /\ AccountsOK(now) /\ Bounds(now)
    BY DEF AccountsInv, KernelInv
  <2>2. now.time \in 0..MaxTime /\ Len(now.ledger) =< MaxEntries
    BY <2>1, TimesAreNumbers
  <2>3. DOMAIN now.stocks \subseteq Stocks /\ \A s \in DOMAIN now.stocks : now.stocks[s] \in Nat
    BY <2>1, AccountsAreNumbers DEF KernelOK
  <2>4. /\ DOMAIN now.processes \subseteq Processes
        /\ \A id \in DOMAIN now.processes : now.processes[id].state \in {"active", "completed"}
    BY <2>1 DEF AccountsOK, Running
  <2>5. DOMAIN now.projects \subseteq Projects
    BY <2>1 DEF KernelOK, Books
  <2>6. /\ now.citizens \in [Citizens -> [residence : {"resident", "travelling", "departed"},
                                          settlement : Settlements,
                                          household : Households \cup {None}]]
        /\ DOMAIN now.households \subseteq Households /\ now.settlements \subseteq Settlements
    BY <2>1 DEF KernelOK, HomesOK, People
  <2>7. DOMAIN now.migrations \subseteq Migrations /\ DOMAIN now.journeys \subseteq DOMAIN now.migrations
    BY <2>1, MigrationFacts
  <2>8. DOMAIN now.foundings \subseteq Foundings /\ now.settled \subseteq Foundings
    BY <2>1 DEF KernelOK, Colonies
  <2>9. now.kinds \in [Sites -> SUBSET Kinds]
    BY <2>1 DEF KernelOK, Buildings
  <2>. QED
    BY <2>2, <2>3, <2>4, <2>5, <2>6, <2>7, <2>8, <2>9 DEF KernelTypeOK
<1>. QED
  BY <1>1, AccountsCorrectness, PTL

-----------------------------------------------------------------------------
(* The audit *)

\* The sums of the audit are totals.
LEMMA ReplayIsTotal ==
    ASSUME NEW ledger, NEW S, NEW s, NEW f, \A i \in S : f[i] = DeltaOf(ledger[i].delta, s)
    PROVE  MapThenSumSet(LAMBDA i : DeltaOf(ledger[i].delta, s), S) = Total(f, S)
<1>. DEFINE A(it) == [T \in SUBSET S |-> IF T = {} THEN 0
                        ELSE DeltaOf(ledger[Picked(T)].delta, s) + it[T \ {Picked(T)}]]
            B(it) == [T \in SUBSET S |-> IF T = {} THEN 0 ELSE f[Picked(T)] + it[T \ {Picked(T)}]]
<1>1. MapThenSumSet(LAMBDA i : DeltaOf(ledger[i].delta, s), S) = (CHOOSE it : it = A(it))[S]
  BY DEF MapThenSumSet, MapThenFoldSet, Picked
<1>2. Total(f, S) = (CHOOSE it : it = B(it))[S]
  BY TotalIsFold DEF Folds
<1>3. ASSUME NEW it PROVE A(it) = B(it)
  <2>1. \A T \in SUBSET S : T # {} => f[Picked(T)] = DeltaOf(ledger[Picked(T)].delta, s)
    BY DEF Picked
  <2>. QED
    BY <2>1
<1>. HIDE DEF A, B
<1>4. (CHOOSE it : it = A(it)) = (CHOOSE it : it = B(it))
  BY <1>3
<1>. QED
  BY <1>1, <1>2, <1>4

\* What the milestones of a set have consumed of a resource.
UsedUpBy(ms, S, g) == MapThenSumSet(LAMBDA i : ms[i].consumed[g], S)

\* So is what the milestones have consumed.
LEMMA UseIsTotal ==
    ASSUME NEW ms, NEW S, NEW g, NEW f, \A i \in S : f[i] = ms[i].consumed[g]
    PROVE  UsedUpBy(ms, S, g) = Total(f, S)
<1>. DEFINE A(it) == [T \in SUBSET S |-> IF T = {} THEN 0
                        ELSE ms[Picked(T)].consumed[g] + it[T \ {Picked(T)}]]
            B(it) == [T \in SUBSET S |-> IF T = {} THEN 0 ELSE f[Picked(T)] + it[T \ {Picked(T)}]]
<1>1. UsedUpBy(ms, S, g) = (CHOOSE it : it = A(it))[S]
  BY DEF UsedUpBy, MapThenSumSet, MapThenFoldSet, Picked
<1>2. Total(f, S) = (CHOOSE it : it = B(it))[S]
  BY TotalIsFold DEF Folds
<1>3. ASSUME NEW it PROVE A(it) = B(it)
  <2>1. \A T \in SUBSET S : T # {} => f[Picked(T)] = ms[Picked(T)].consumed[g]
    BY DEF Picked
  <2>. QED
    BY <2>1
<1>. HIDE DEF A, B
<1>4. (CHOOSE it : it = A(it)) = (CHOOSE it : it = B(it))
  BY <1>3
<1>. QED
  BY <1>1, <1>2, <1>4

\* What a set of resources has lost.
LossOf(gains, S) == MapThenSumSet(LAMBDA g : -gains[g], S)

\* So is what a class of resources has lost.
LEMMA LossIsTotal ==
    ASSUME NEW gains, NEW S, NEW f, \A g \in S : f[g] = -gains[g]
    PROVE  LossOf(gains, S) = Total(f, S)
<1>. DEFINE A(it) == [T \in SUBSET S |-> IF T = {} THEN 0 ELSE (-gains[Picked(T)]) + it[T \ {Picked(T)}]]
            B(it) == [T \in SUBSET S |-> IF T = {} THEN 0 ELSE f[Picked(T)] + it[T \ {Picked(T)}]]
<1>1. LossOf(gains, S) = (CHOOSE it : it = A(it))[S]
  BY DEF LossOf, MapThenSumSet, MapThenFoldSet, Picked
<1>2. Total(f, S) = (CHOOSE it : it = B(it))[S]
  BY TotalIsFold DEF Folds
<1>3. ASSUME NEW it PROVE A(it) = B(it)
  <2>1. \A T \in SUBSET S : T # {} => f[Picked(T)] = -gains[Picked(T)]
    BY DEF Picked
  <2>. QED
    BY <2>1
<1>. HIDE DEF A, B
<1>4. (CHOOSE it : it = A(it)) = (CHOOSE it : it = B(it))
  BY <1>3
<1>. QED
  BY <1>1, <1>2, <1>4

\* What an entry says of a class of resources.
Loss(ledger, i, class) == MapThenSumSet(LAMBDA g : -ByResource(ledger[i].delta)[g], class)

\* So is what the entries of a meal say together.
LEMMA LossesAreTotal ==
    ASSUME NEW ledger, NEW class, NEW S, NEW f, \A i \in S : f[i] = Loss(ledger, i, class)
    PROVE  MapThenSumSet(LAMBDA i : Loss(ledger, i, class), S) = Total(f, S)
<1>. DEFINE A(it) == [T \in SUBSET S |-> IF T = {} THEN 0
                        ELSE Loss(ledger, Picked(T), class) + it[T \ {Picked(T)}]]
            B(it) == [T \in SUBSET S |-> IF T = {} THEN 0 ELSE f[Picked(T)] + it[T \ {Picked(T)}]]
<1>1. MapThenSumSet(LAMBDA i : Loss(ledger, i, class), S) = (CHOOSE it : it = A(it))[S]
  BY DEF MapThenSumSet, MapThenFoldSet, Picked
<1>2. Total(f, S) = (CHOOSE it : it = B(it))[S]
  BY TotalIsFold DEF Folds
<1>3. ASSUME NEW it PROVE A(it) = B(it)
  <2>1. \A T \in SUBSET S : T # {} => f[Picked(T)] = Loss(ledger, Picked(T), class)
    BY DEF Picked
  <2>. QED
    BY <2>1
<1>. HIDE DEF A, B
<1>4. (CHOOSE it : it = A(it)) = (CHOOSE it : it = B(it))
  BY <1>3
<1>. QED
  BY <1>1, <1>2, <1>4

\* The replay of the ledger is the balance.
LEMMA ReplayIsBalance ==
    ASSUME NEW c, AccountsOK(c), NEW s \in DOMAIN c.stocks, NEW n \in 0..Len(c.ledger)
    PROVE  Replayed(c, n)[s] = Balance(c.base, c.ledger, n, s)
<1>. DEFINE ledger == c.ledger
            f == Share(ledger, s)
<1>1. ledger \in Seq(Entries)
  BY AccountsAreNumbers
<1>2. DOMAIN ledger = 1..Len(ledger) /\ Len(ledger) \in Nat
  BY <1>1
<1>3. 1..n \subseteq DOMAIN ledger
  BY <1>2
<1>4. \A i \in 1..n : f[i] = DeltaOf(ledger[i].delta, s)
  BY <1>3 DEF Share
<1>. HIDE DEF f, ledger
<1>5. MapThenSumSet(LAMBDA i : DeltaOf(ledger[i].delta, s), 1..n) = Total(f, 1..n)
  BY <1>4, ReplayIsTotal
<1>. QED
  BY <1>5 DEF Replayed, Balance, f, ledger

\* The audit of the ledger and of the stocks passes.
LEMMA LedgerPasses ==
    ASSUME NEW c, AccountsOK(c)
    PROVE  AuditLedger(c) /\ AuditStocks(c)
<1>. DEFINE time == c.time
            stocks == c.stocks
            base == c.base
            ledger == c.ledger
<1>1. Ledger(time, stocks, base, ledger) /\ Shelves(stocks)
  BY DEF AccountsOK
<1>2. ledger \in Seq(Entries) /\ Len(ledger) \in Nat
  BY AccountsAreNumbers
<1>3. \A s \in DOMAIN stocks : \A n \in 0..Len(ledger) :
          Replayed(c, n)[s] = Balance(base, ledger, n, s)
  BY ReplayIsBalance
<1>. HIDE DEF time, stocks, base, ledger
<1>4. DOMAIN ledger = 1..Len(ledger) /\ DOMAIN ledger \subseteq 0..Len(ledger)
  BY <1>2
<1>5. ASSUME NEW n \in DOMAIN ledger
      PROVE  AuditEntry(c, ledger[n])
  <2>. DEFINE e == ledger[n]
              net == ByResource(e.delta)
  <2>1. e.at =< time /\ DOMAIN e.delta \subseteq DOMAIN stocks /\ GainsOK(e.kind, e.about, net)
    BY <1>1 DEF Ledger, EntryOK
  <2>. HIDE DEF e, net
  <2>2. /\ e.kind \in {"transfer", "transport"} => \A g \in Resources : net[g] = 0
        /\ e.kind = "recipe-input" => \A g \in Resources :
              RecipeInfo[e.about].in[g] > 0 => net[g] = -RecipeInfo[e.about].in[g]
        /\ e.kind = "recipe-output" => \A g \in Resources :
              RecipeInfo[e.about].out[g] > 0 => net[g] = RecipeInfo[e.about].out[g]
        /\ e.kind = "need-consumption" => \A g \in Resources : net[g] =< 0
    BY <2>1 DEF GainsOK, UsedBy
  <2>. QED
    BY <2>1, <2>2 DEF AuditEntry, e, net, time, stocks
<1>6. \A s \in DOMAIN stocks : \A n \in 0..Len(ledger) : Replayed(c, n)[s] >= 0
  BY <1>1, <1>3 DEF Ledger
<1>7. \A s \in DOMAIN stocks : stocks[s] = Replayed(c, Len(ledger))[s]
  <2>1. Len(ledger) \in 0..Len(ledger)
    BY <1>2
  <2>. QED
    BY <1>1, <1>3, <2>1 DEF Ledger
<1>8. AuditLedger(c)
  BY <1>4, <1>5, <1>6 DEF AuditLedger, stocks, ledger
<1>9. \A s \in DOMAIN stocks : /\ stocks[s] >= 0 /\ stocks[s] =< StockInfo[s].capacity
                               /\ StockInfo[s].reserved =< stocks[s]
  BY <1>1, ShelvesFacts
<1>10. AuditStocks(c)
  BY <1>7, <1>9 DEF AuditStocks, stocks, ledger
<1>. QED
  BY <1>8, <1>10

\* What the checkpoint and the ledger say of a project is what its milestones say.
LEMMA ProjectsPass ==
    ASSUME NEW calls, NEW c, KernelOK(calls, c), AccountsOK(c)
    PROVE  AuditProjects(c)
<1>. SUFFICES ASSUME NEW p \in DOMAIN c.projects, NEW g \in Resources
              PROVE  ConsumedBooks(c)[p][g] =
                        MapThenSumSet(LAMBDA i : c.projects[p].milestones[i].consumed[g],
           DOMAIN Plan(p))
  BY DEF AuditProjects
<1>1. p \in Projects
  BY DEF KernelOK, Books
<1>2. ConsumedBooks(c)[p][g] = MilestoneUse(c.projects[p], p, g)
  BY <1>1 DEF AccountsOK, Uses, ConsumedBooks
<1>. DEFINE ms == c.projects[p].milestones
            S == DOMAIN Plan(p)
            f == [i \in S |-> ms[i].consumed[g]]
<1>3. MilestoneUse(c.projects[p], p, g) = Total(f, S)
  BY DEF MilestoneUse
<1>4. \A i \in S : f[i] = ms[i].consumed[g]
  OBVIOUS
<1>. HIDE DEF f, ms, S
<1>5. UsedUpBy(ms, S, g) = Total(f, S)
  BY <1>4, UseIsTotal
<1>6. UsedUpBy(ms, S, g) =
          MapThenSumSet(LAMBDA i : c.projects[p].milestones[i].consumed[g], DOMAIN Plan(p))
  BY DEF UsedUpBy, ms, S
<1>. QED
  BY <1>2, <1>3, <1>5, <1>6

\* What an entry says of a class, resource by resource, is what its delta takes.
LEMMA LossIsEaten ==
    ASSUME NEW ledger, NEW i, NEW delta, delta = ledger[i].delta, IsDelta(delta),
           NEW class, class \subseteq Resources
    PROVE  Loss(ledger, i, class) = Eaten(delta, class) /\ Eaten(delta, class) \in Int
<1>. DEFINE D == DOMAIN delta
            minus == [s \in D |-> -delta[s]]
            key == [s \in D |-> ResourceOf(s)]
            gains == ByResource(delta)
            f == [g \in class |-> Total(minus, {s \in D : key[s] = g})]
            all == {s \in D : ResourceOf(s) \in class}
<1>1. IsFiniteSet(D) /\ \A s \in D : delta[s] \in Int
  <2>1. IsFiniteSet(D)
    BY DeltaFacts
  <2>. QED
    BY <2>1 DEF IsDelta
<1>2. IsFiniteSet(class)
  BY StocksAreFinite, FS_Subset
<1>3. \A s \in D : minus[s] = -delta[s] /\ minus[s] \in Int
  BY <1>1
<1>4. ASSUME NEW P \in SUBSET D
      PROVE  Total(minus, P) = -Total(delta, P) /\ Total(delta, P) \in Int
  <2>. DEFINE z == [s \in P |-> 0]
              a == Total(minus, P)
              b == Total(delta, P)
  <2>1. IsFiniteSet(P)
    BY <1>1, FS_Subset
  <2>2. \A s \in P : minus[s] \in Int /\ delta[s] \in Int /\ z[s] = minus[s] + delta[s]
    BY <1>1, <1>3
  <2>3. \A s \in P : z[s] = 0
    OBVIOUS
  <2>. HIDE DEF z, minus
  <2>4. Total(z, P) = a + b
    BY <2>1, <2>2, TotalOfSum
  <2>5. Total(z, P) = 0
    BY <2>1, <2>3, TotalSame
  <2>6. a \in Int /\ b \in Int
    BY <2>1, <2>2, TotalType
  <2>. HIDE DEF a, b
  <2>7. a = -b /\ b \in Int
    BY <2>4, <2>5, <2>6
  <2>. QED
    BY <2>7 DEF a, b
<1>5. \A g \in class : f[g] = -gains[g]
  <2>. SUFFICES ASSUME NEW g \in class PROVE f[g] = -gains[g]
    OBVIOUS
  <2>1. {s \in D : key[s] = g} = Of(delta, g)
    BY DEF Of
  <2>2. gains[g] = Total(delta, Of(delta, g)) /\ Of(delta, g) \in SUBSET D
    BY GainsAreTotals, DeltaFacts
  <2>3. Total(minus, Of(delta, g)) = -Total(delta, Of(delta, g))
    BY <1>4, <2>2
  <2>. QED
    BY <2>1, <2>2, <2>3
<1>6. Loss(ledger, i, class) = Total(f, class)
  <2>1. Loss(ledger, i, class) = LossOf(gains, class)
    <3>1. Loss(ledger, i, class) = LossOf(ByResource(ledger[i].delta), class)
      BY DEF Loss, LossOf
    <3>. QED
      BY <3>1
  <2>. HIDE DEF f, gains
  <2>. QED
    BY <1>5, <2>1, LossIsTotal
<1>7. Total(f, class) = Total(minus, {s \in D : key[s] \in class})
  <2>. HIDE DEF minus, key, D
  <2>. QED
    BY <1>1, <1>2, <1>3, TotalByKey
<1>8. {s \in D : key[s] \in class} = all /\ all \in SUBSET D
  OBVIOUS
<1>9. Eaten(delta, class) = -Total(delta, all)
  BY DEF Eaten
<1>. HIDE DEF all, minus, f, key, D, gains
<1>10. Total(minus, all) = -Total(delta, all) /\ Total(delta, all) \in Int
  BY <1>4, <1>8
<1>. QED
  BY <1>6, <1>7, <1>8, <1>9, <1>10

\* Every outcome is of one meal or of none.
LEMMA NeedsPass ==
    ASSUME NEW c, AccountsOK(c)
    PROVE  AuditNeeds(c)
<1>. DEFINE time == c.time
            ledger == c.ledger
            outcomes == c.outcomes
<1>1. Meals(time, ledger, outcomes)
  BY DEF AccountsOK
<1>2. ledger \in Seq(Entries)
  BY AccountsAreNumbers
<1>3. \A i \in DOMAIN ledger : IsDelta(ledger[i].delta)
  <2>. HIDE DEF ledger
  <2>. QED
    BY <1>2, EntryFacts
<1>4. Foods \subseteq Resources /\ Waters \subseteq Resources
  BY CatalogueAssumption DEF ValidCatalogue
<1>5. ASSUME NEW o \in outcomes, NEW class, class \subseteq Resources, NEW n \in Int,
             \/ EntriesOf(ledger, o.citizen, o.at) = {} /\ n = 0
             \/ \E i \in DOMAIN ledger : /\ EntriesOf(ledger, o.citizen, o.at) = {i}
                                         /\ Eaten(ledger[i].delta, class) = n
      PROVE  AteClass(c, o.citizen, o.at, class) = n
  <2>. DEFINE I == EntriesOf(ledger, o.citizen, o.at)
              f == [i \in I |-> Loss(ledger, i, class)]
  <2>1. AteClass(c, o.citizen, o.at, class) = MapThenSumSet(LAMBDA i : Loss(ledger, i, class), I)
    BY DEF AteClass, AteOf, EntriesOf, Loss
  <2>2. \A i \in I : f[i] = Loss(ledger, i, class)
    OBVIOUS
  <2>. HIDE DEF f, I, ledger
  <2>3. AteClass(c, o.citizen, o.at, class) = Total(f, I)
    BY <2>1, <2>2, LossesAreTotal
  <2>4. CASE I = {} /\ n = 0
    BY <2>3, <2>4, TotalSmall
  <2>5. ASSUME NEW i \in DOMAIN ledger, I = {i}, Eaten(ledger[i].delta, class) = n
        PROVE  Total(f, I) = n
    <3>1. f[i] = n
      BY <1>3, <1>5, <2>2, <2>5, LossIsEaten
    <3>. QED
      BY <2>5, <3>1, TotalSmall
  <2>. QED
    BY <1>5, <2>3, <2>4, <2>5 DEF I
<1>. HIDE DEF ledger, time, outcomes
<1>6. ASSUME NEW o \in outcomes
      PROVE  /\ o.at =< time
             /\ o.food \in 0..RequiredFood[o.citizen] /\ o.water \in 0..RequiredWater[o.citizen]
             /\ AteClass(c, o.citizen, o.at, Foods) = o.food
             /\ AteClass(c, o.citizen, o.at, Waters) = o.water
             /\ \A q \in outcomes : q.citizen = o.citizen /\ q.at = o.at => q = o
  <2>1. /\ o.food \in Nat /\ o.water \in Nat /\ o.citizen \in Citizens
        /\ o.at =< time /\ MealOK(ledger, o)
        /\ o.food =< RequiredFood[o.citizen] /\ o.water =< RequiredWater[o.citizen]
        /\ \A q \in outcomes : q.citizen = o.citizen /\ q.at = o.at => q = o
    BY <1>1 DEF Meals, Outcomes
  <2>2. RequiredFood[o.citizen] \in Nat /\ RequiredWater[o.citizen] \in Nat
    BY <2>1, CatalogueAssumption DEF ValidCatalogue
  <2>3. o.food \in 0..RequiredFood[o.citizen] /\ o.water \in 0..RequiredWater[o.citizen]
    BY <2>1, <2>2
  <2>4. AteClass(c, o.citizen, o.at, Foods) = o.food
    <3>1. \/ EntriesOf(ledger, o.citizen, o.at) = {} /\ o.food = 0
          \/ \E i \in DOMAIN ledger : /\ EntriesOf(ledger, o.citizen, o.at) = {i}
                                      /\ Eaten(ledger[i].delta, Foods) = o.food
      BY <2>1 DEF MealOK
    <3>. QED
      BY <1>4, <1>5, <2>1, <3>1
  <2>5. AteClass(c, o.citizen, o.at, Waters) = o.water
    <3>1. \/ EntriesOf(ledger, o.citizen, o.at) = {} /\ o.water = 0
          \/ \E i \in DOMAIN ledger : /\ EntriesOf(ledger, o.citizen, o.at) = {i}
                                      /\ Eaten(ledger[i].delta, Waters) = o.water
      BY <2>1 DEF MealOK
    <3>. QED
      BY <1>4, <1>5, <2>1, <3>1
  <2>. QED
    BY <2>1, <2>3, <2>4, <2>5
<1>7. \A i \in DOMAIN ledger : ledger[i].kind = "need-consumption" =>
          \E o \in outcomes : o.citizen = ledger[i].about /\ o.at = ledger[i].at
  BY <1>1 DEF Meals
<1>. QED
  BY <1>6, <1>7 DEF AuditNeeds, time, ledger, outcomes

\* A journey's own account is of the legs behind it.
LEMMA JourneysPass ==
    ASSUME NEW calls, NEW c, KernelOK(calls, c), AccountsOK(c)
    PROVE  AuditJourneys(c)
<1>. SUFFICES ASSUME NEW m \in DOMAIN c.journeys
              PROVE  LET j == c.journeys[m]
                         legs == MigrationInfo[m].legs
                     IN  /\ j.leg \in 0..Len(legs)
                         /\ j.done = Chain(LAMBDA a, b : a + b, j.progress, SubSeq(legs, 1, j.leg))
                         /\ IF AtEnd(m, j) THEN j.progress = 0
                            ELSE j.progress >= 0 /\ j.progress < legs[j.leg + 1]
                         /\ (c.migrations[m] = "arrived") = AtEnd(m, j)
  BY DEF AuditJourneys
<1>. DEFINE j == c.journeys[m]
            legs == MigrationInfo[m].legs
<1>1. m \in Migrations
  BY MigrationFacts
<1>2. OnTheWay(m, j) /\ (c.migrations[m] = "arrived") = AtEnd(m, j)
  BY DEF AccountsOK, Walks
<1>. DEFINE leg == j.leg
            progress == j.progress
<1>3. /\ leg \in 0..Len(legs) /\ progress \in Nat /\ j.done = Behind(m, leg) + progress
      /\ IF AtEnd(m, j) THEN progress = 0 ELSE progress < legs[leg + 1]
  BY <1>2 DEF OnTheWay
<1>. HIDE DEF leg, progress
<1>4. AddedUp(progress, SubSeq(legs, 1, leg)) = Behind(m, leg) + progress
  BY <1>1, <1>3, LegsAddUp
<1>5. j.done = Chain(LAMBDA a, b : a + b, j.progress, SubSeq(legs, 1, j.leg))
  <2>1. j.done = AddedUp(j.progress, SubSeq(legs, 1, j.leg))
    BY <1>3, <1>4 DEF leg, progress
  <2>. QED
    BY <2>1 DEF AddedUp
<1>6. /\ j.leg \in 0..Len(legs)
      /\ IF AtEnd(m, j) THEN j.progress = 0 ELSE j.progress >= 0 /\ j.progress < legs[j.leg + 1]
      /\ (c.migrations[m] = "arrived") = AtEnd(m, j)
  BY <1>2, <1>3 DEF leg, progress
<1>. QED
  BY <1>5, <1>6

\* No sequence of calls that the kernel accepts, of whatever caller and however
\* long, leads to a state whose accounts its own audit refuses: the ledger replayed
\* from the checkpoint gives the stocks, entry by entry without a debt, the books of
\* every project and every meal agree with it, and every journey with its legs.
\* The households pass it too under a caller that makes no registerHousehold and
\* registers nobody into a household, which the kernel accepts and the audit may
\* refuse.
THEOREM AuditCorrectness == KernelSpec => []AuditPasses
<1>1. AccountsInv => AuditLedger(now) /\ AuditStocks(now) /\ AuditProjects(now)
                     /\ AuditNeeds(now) /\ AuditJourneys(now)
  BY LedgerPasses, ProjectsPass, NeedsPass, JourneysPass DEF AccountsInv, KernelInv
<1>2. (/\ AuditBuilt(now) /\ AuditFoundings(now)
       /\ caller.calls = "linked" => AuditHouseholds(now)) /\
      (AuditLedger(now) /\ AuditStocks(now) /\ AuditProjects(now)
       /\ AuditNeeds(now) /\ AuditJourneys(now)) => AuditPasses
  BY DEF AuditPasses, AuditBooks
<1>. QED
  BY <1>1, <1>2, AccountsCorrectness, SocietyAuditCorrectness, PTL

-----------------------------------------------------------------------------
(* Matter *)

\* What the stocks hold is a number for each resource.
LEMMA HeldFacts ==
    ASSUME NEW stocks, Shelves(stocks)
    PROVE  /\ IsDelta(stocks) /\ ByResource(stocks) \in [Resources -> Nat]
           /\ ByResource(stocks) = [g \in Resources |-> ByResource(stocks)[g]]
<1>1. IsDelta(stocks) /\ \A s \in DOMAIN stocks : stocks[s] \in Nat
  BY ShelvesFacts
<1>2. ASSUME NEW g \in Resources
      PROVE  ByResource(stocks)[g] \in Nat
  <2>. DEFINE P == Of(stocks, g)
  <2>1. IsFiniteSet(P) /\ P \subseteq DOMAIN stocks
    BY <1>1, DeltaFacts
  <2>2. ByResource(stocks)[g] = Total(stocks, P)
    BY GainsAreTotals
  <2>. HIDE DEF P
  <2>3. Total(stocks, P) \in Nat
    BY <1>1, <2>1, TotalNat
  <2>. QED
    BY <2>2, <2>3
<1>3. ByResource(stocks) = [g \in Resources |-> ByResource(stocks)[g]]
  BY DEF ByResource
<1>. QED
  BY <1>1, <1>2, <1>3

\* The runs of each recipe that have taken and not yet given.
RunsOf(processes, r) ==
    {id \in DOMAIN processes : processes[id].state = "active" /\ processes[id].recipe = r}
RunCount(processes) == [r \in Recipes |-> Cardinality(RunsOf(processes, r))]

\* They can be counted.
LEMMA RunsAreFinite ==
    ASSUME NEW stocks, NEW processes, Running(stocks, processes), NEW r
    PROVE  IsFiniteSet(RunsOf(processes, r)) /\ Cardinality(RunsOf(processes, r)) \in Nat
<1>1. IsFiniteSet(RunsOf(processes, r))
  BY FS_Subset DEF Running, RunsOf
<1>. QED
  BY <1>1, FS_CardinalityType

\* One more run, and one less.
LEMMA OneRunMore ==
    ASSUME NEW stocks, NEW processes, Running(stocks, processes), NEW id,
           id \notin DOMAIN processes,
           NEW r \in Recipes, NEW it, it.recipe = r, it.state = "active"
    PROVE  RunCount(With(processes, id, it)) = [RunCount(processes) EXCEPT ![r] = @ + 1]
<1>. DEFINE next == With(processes, id, it)
<1>1. /\ DOMAIN next = DOMAIN processes \cup {id} /\ next[id] = it
      /\ \A x \in DOMAIN processes : next[x] = processes[x]
  BY DEF With
<1>. HIDE DEF next
<1>2. RunsOf(next, r) = RunsOf(processes, r) \cup {id} /\ id \notin RunsOf(processes, r)
  BY <1>1 DEF RunsOf
<1>3. ASSUME NEW o \in Recipes, o # r
      PROVE  RunsOf(next, o) = RunsOf(processes, o)
  BY <1>1, <1>3 DEF RunsOf
<1>4. Cardinality(RunsOf(next, r)) = Cardinality(RunsOf(processes, r)) + 1
  <2>. DEFINE S == RunsOf(processes, r)
  <2>1. IsFiniteSet(S) /\ id \notin S
    BY <1>2, RunsAreFinite
  <2>2. RunsOf(next, r) = S \cup {id}
    BY <1>2
  <2>. HIDE DEF S
  <2>3. Cardinality(S \cup {id}) = Cardinality(S) + 1
    BY <2>1, FS_AddElement
  <2>. QED
    BY <2>2, <2>3 DEF S
<1>. QED
  BY <1>3, <1>4 DEF RunCount, next

\* A completed process is one run less of its recipe.
LEMMA OneRunLess ==
    ASSUME NEW stocks, NEW processes, Running(stocks, processes), NEW id \in DOMAIN processes,
           processes[id].state = "active"
    PROVE  LET r == processes[id].recipe IN
           /\ r \in Recipes /\ RunCount(processes)[r] > 0
           /\ RunCount(CompletedOf(processes, id)) = [RunCount(processes) EXCEPT ![r] = @ - 1]
<1>. DEFINE it == processes[id]
            r == it.recipe
            done == [it EXCEPT !.state = "completed"]
            next == CompletedOf(processes, id)
<1>1. /\ it = [recipe |-> it.recipe, out |-> it.out, state |-> it.state, due |-> it.due]
      /\ r \in Recipes /\ processes = [x \in DOMAIN processes |-> processes[x]]
  BY DEF Running
<1>2. next = [processes EXCEPT ![id] = done]
  BY DEF CompletedOf
<1>3. done.state = "completed"
  BY <1>1
<1>. HIDE DEF done
<1>4. /\ DOMAIN next = DOMAIN processes /\ next[id].state = "completed"
      /\ \A x \in DOMAIN processes : x # id => next[x] = processes[x]
  BY <1>1, <1>2, <1>3
<1>. HIDE DEF next
<1>5. id \in RunsOf(processes, r)
  BY DEF RunsOf
<1>6. RunsOf(next, r) = RunsOf(processes, r) \ {id}
  BY <1>4 DEF RunsOf
<1>7. ASSUME NEW o \in Recipes, o # r
      PROVE  RunsOf(next, o) = RunsOf(processes, o)
  BY <1>4, <1>7 DEF RunsOf
<1>8. /\ Cardinality(RunsOf(next, r)) = Cardinality(RunsOf(processes, r)) - 1
      /\ Cardinality(RunsOf(processes, r)) > 0
  <2>. DEFINE S == RunsOf(processes, r)
  <2>1. IsFiniteSet(S) /\ id \in S /\ Cardinality(S) \in Nat
    BY <1>5, RunsAreFinite
  <2>2. RunsOf(next, r) = S \ {id}
    BY <1>6
  <2>. HIDE DEF S
  <2>3. Cardinality(S \ {id}) = Cardinality(S) - 1
    BY <2>1, FS_RemoveElement
  <2>4. Cardinality(S) # 0
    BY <2>1, FS_EmptySet
  <2>5. Cardinality(S) > 0
    BY <2>1, <2>4
  <2>. QED
    BY <2>2, <2>3, <2>5 DEF S
<1>. QED
  BY <1>1, <1>7, <1>8 DEF RunCount, next

\* A checkpoint forgets no run.
LEMMA KeptRuns ==
    ASSUME NEW processes
    PROVE  RunCount(KeptOf(processes)) = RunCount(processes)
<1>1. ASSUME NEW r \in Recipes
      PROVE  RunsOf(KeptOf(processes), r) = RunsOf(processes, r)
  BY DEF KeptOf, Without, RunsOf
<1>. QED
  BY <1>1 DEF RunCount

\* A new empty stock changes nothing of what is held.
LEMMA EmptyStock ==
    ASSUME NEW stocks, Shelves(stocks), NEW s \in Stocks, s \notin DOMAIN stocks
    PROVE  /\ IsDelta(With(stocks, s, 0)) /\ DOMAIN With(stocks, s, 0) = DOMAIN stocks \cup {s}
           /\ \A g \in Resources : ByResource(With(stocks, s, 0))[g] = ByResource(stocks)[g]
<1>. DEFINE more == With(stocks, s, 0)
<1>1. IsDelta(stocks) /\ \A x \in DOMAIN stocks : stocks[x] \in Nat
  BY ShelvesFacts
<1>2. /\ DOMAIN more = DOMAIN stocks \cup {s} /\ more[s] = 0
      /\ \A x \in DOMAIN stocks : more[x] = stocks[x]
  BY DEF With
<1>. HIDE DEF more
<1>3. IsDelta(more)
  BY <1>1, <1>2 DEF IsDelta
<1>4. ASSUME NEW g \in Resources
      PROVE  ByResource(more)[g] = ByResource(stocks)[g]
  <2>. DEFINE P == Of(stocks, g)
              Q == Of(more, g)
  <2>1. ByResource(stocks)[g] = Total(stocks, P) /\ ByResource(more)[g] = Total(more, Q)
    BY GainsAreTotals
  <2>2. IsFiniteSet(P) /\ P \subseteq DOMAIN stocks /\ s \notin P
    BY <1>1, DeltaFacts
  <2>3. Q = P \/ Q = P \cup {s}
    BY <1>2 DEF Of
  <2>4. \A x \in P : stocks[x] \in Int /\ more[x] = stocks[x]
    BY <1>1, <1>2, <2>2
  <2>. HIDE DEF P, Q
  <2>5. Total(more, P) = Total(stocks, P)
    BY <2>2, <2>4, TotalSame
  <2>6. (\A x \in P : more[x] \in Int) /\ more[s] \in Int
    BY <1>2, <2>4
  <2>7. Total(more, P) \in Int
    BY <2>2, <2>6, TotalType
  <2>8. Total(more, P \cup {s}) = Total(more, P) + more[s]
    <3>1. s \notin P /\ IsFiniteSet(P)
      BY <2>2
    <3>. QED
      BY <2>6, <3>1, TotalWith
  <2>. DEFINE x == Total(more, P)
  <2>9. x \in Int /\ Total(more, P \cup {s}) = x + 0
    BY <1>2, <2>7, <2>8
  <2>. HIDE DEF x
  <2>10. Total(more, P \cup {s}) = x
    BY <2>9
  <2>. QED
    BY <2>1, <2>3, <2>5, <2>10 DEF x
<1>. QED
  BY <1>2, <1>3, <1>4 DEF more

\* What moved stocks gain is what their delta does.
Gains(moved, stocks, gain) ==
    /\ DOMAIN moved = DOMAIN stocks
    /\ \A g \in Resources : ByResource(moved)[g] = ByResource(stocks)[g] + gain[g]

\* Moved stocks hold what they held and what the delta gains.
LEMMA MovedByGains ==
    ASSUME NEW stocks, IsDelta(stocks), NEW delta, IsDelta(delta),
           DOMAIN delta \subseteq DOMAIN stocks
    PROVE  Gains(MovedBy(stocks, delta), stocks, ByResource(delta))
<1>1. DOMAIN MovedBy(stocks, delta) = DOMAIN stocks
  BY DEF MovedBy
<1>2. ASSUME NEW g \in Resources
      PROVE  ByResource(MovedBy(stocks, delta))[g] = ByResource(stocks)[g] + ByResource(delta)[g]
  <2>. DEFINE moved == MovedBy(stocks, delta)
  <2>1. moved = [s \in DOMAIN stocks |-> stocks[s] + DeltaOf(delta, s)]
    BY DEF MovedBy
  <2>. HIDE DEF moved
  <2>2. ByResource(moved)[g] = ByResource(stocks)[g] + ByResource(delta)[g]
    BY <2>1, MovedGains
  <2>. QED
    BY <2>2 DEF moved
<1>. QED
  BY <1>1, <1>2 DEF Gains

\* The state of the ledger of matter, and what is so of it.
LEMMA MatterIs ==
    ASSUME NEW c, AccountsOK(c)
    PROVE  /\ DOMAIN c.stocks \subseteq Stocks /\ IsDelta(c.stocks) /\ Shelves(c.stocks)
           /\ ByResource(c.stocks) \in [Resources -> Nat]
           /\ ByResource(c.stocks) = [g \in Resources |-> ByResource(c.stocks)[g]]
           /\ Running(c.stocks, c.processes)
<1>1. Shelves(c.stocks) /\ Running(c.stocks, c.processes)
  BY DEF AccountsOK
<1>. QED
  BY <1>1, HeldFacts DEF Shelves

\* The same stocks hold the same and the same processes run.
Still ==
    /\ DOMAIN now'.stocks = DOMAIN now.stocks /\ RunCount(now'.processes) = RunCount(now.processes)
    /\ ByResource(now'.stocks) = ByResource(now.stocks)

\* Then the ledger of matter stutters.
LEMMA StillIsMatter ==
    ASSUME Still
    PROVE  UNCHANGED <<DOMAIN now.stocks, ByResource(now.stocks), [r \in Recipes |->
               Cardinality({id \in DOMAIN now.processes :
                   now.processes[id].state = "active" /\ now.processes[id].recipe = r})]>>
BY DEF Still, RunCount, RunsOf

\* registerStock endows.
LEMMA RegisterStockIsMatter ==
    ASSUME AccountsInv, AccountsOK(now), AccountsOK(now'), DoRegisterStock
    PROVE  Matter!Next
<1>1. PICK s \in Stocks, q \in Nat : /\ s \notin DOMAIN now.stocks
                /\ NowAre(MovedBy(With(now.stocks, s, 0), [x \in {s} |-> q]), now.processes)
  BY RegisterStockStep
<1>. DEFINE more == With(now.stocks, s, 0)
            delta == [x \in {s} |-> q]
            moved == MovedBy(more, delta)
            g == ResourceOf(s)
            held == ByResource(now.stocks)
            next == ByResource(now'.stocks)
<1>2. /\ IsDelta(more) /\ DOMAIN more = DOMAIN now.stocks \cup {s}
      /\ \A h \in Resources : ByResource(more)[h] = held[h]
  BY <1>1, MatterIs, EmptyStock
<1>3. /\ IsDelta(delta) /\ DOMAIN delta = {s}
      /\ \A h \in Resources : ByResource(delta)[h] = IF h = g THEN q ELSE 0
  BY OneGains
<1>4. now'.stocks = moved /\ now'.processes = now.processes
  BY <1>1 DEF NowAre
<1>5. g \in Resources
  BY CatalogueAssumption DEF ValidCatalogue, ResourceOf
<1>6. held \in [Resources -> Nat] /\ next \in [Resources -> Nat]
  BY MatterIs
<1>. HIDE DEF more, delta, g
<1>7. Gains(moved, more, ByResource(delta))
  BY <1>2, <1>3, MovedByGains
<1>. HIDE DEF moved, held
<1>8. DOMAIN now'.stocks = DOMAIN now.stocks \cup {s}
  BY <1>2, <1>4, <1>7 DEF Gains
<1>9. \A h \in Resources : next[h] = held[h] + (IF h = g THEN q ELSE 0)
  BY <1>2, <1>3, <1>4, <1>7 DEF Gains
<1>. HIDE DEF next
<1>10. next[g] \in Nat /\ next[g] >= held[g] /\ \A h \in Resources : h # g => next[h] = held[h]
  BY <1>5, <1>6, <1>9
<1>11. next = [held EXCEPT ![g] = next[g]]
  BY <1>5, <1>6, <1>10
<1>12. Matter!Endow(s, g)
  BY <1>1, <1>4, <1>8, <1>10, <1>11 DEF Matter!Endow, held, next
<1>. QED
  BY <1>5, <1>12 DEF Matter!Next

\* A line makes and unmakes nothing.
LEMMA LineConserves ==
    ASSUME NEW a \in Stocks, NEW b \in Stocks, a # b, ResourceOf(a) = ResourceOf(b), NEW q \in Int
    PROVE  /\ IsDelta(Line(a, b, q)) /\ DOMAIN Line(a, b, q) = {a, b}
           /\ \A g \in Resources : ByResource(Line(a, b, q))[g] = 0
<1>1. ASSUME NEW delta, delta = Line(a, b, q)
      PROVE  /\ IsDelta(delta) /\ DOMAIN delta = {a, b}
             /\ \A g \in Resources : ByResource(delta)[g] = 0
  BY <1>1, LineGains
<1>. QED
  BY <1>1

\* Transfers and deliveries change hands, not matter.
LEMMA TransferIsStill ==
    ASSUME AccountsInv, AccountsOK(now), AccountsOK(now'), NEW a, NEW b, NEW q \in Nat, a # b,
           {a, b} \subseteq DOMAIN now.stocks, ResourceOf(a) = ResourceOf(b),
           NowAre(MovedBy(now.stocks, Line(a, b, q)), now.processes)
    PROVE  Still
<1>. DEFINE delta == Line(a, b, q)
            moved == MovedBy(now.stocks, delta)
            held == ByResource(now.stocks)
            next == ByResource(now'.stocks)
<1>0. DOMAIN now.stocks \subseteq Stocks
  BY MatterIs
<1>1. a \in Stocks /\ b \in Stocks /\ q \in Int
  BY <1>0
<1>2. /\ IsDelta(delta) /\ DOMAIN delta = {a, b}
      /\ \A g \in Resources : ByResource(delta)[g] = 0
  BY <1>1, LineConserves
<1>3. now'.stocks = moved /\ now'.processes = now.processes
  BY DEF NowAre
<1>4. held \in [Resources -> Nat] /\ next \in [Resources -> Nat]
  BY MatterIs
<1>. HIDE DEF delta
<1>5. Gains(moved, now.stocks, ByResource(delta))
  BY <1>2, MatterIs, MovedByGains
<1>. HIDE DEF moved, held
<1>6. DOMAIN now'.stocks = DOMAIN now.stocks
  BY <1>3, <1>5 DEF Gains
<1>7. \A g \in Resources : next[g] = held[g] + 0
  BY <1>2, <1>3, <1>5 DEF Gains, held
<1>. HIDE DEF next
<1>8. next = held
  BY <1>4, <1>7
<1>. QED
  BY <1>3, <1>6, <1>8 DEF Still, held, next

\* startProduction begins a run of its recipe, which has taken what it needs.
LEMMA StartProductionIsMatter ==
    ASSUME AccountsInv, AccountsOK(now), AccountsOK(now'), DoStartProduction
    PROVE  Matter!Next
<1>1. PICK r, id, in, out, at :
         /\ r \in Recipes /\ id \notin DOMAIN now.processes
         /\ IsBinding(now.stocks, RecipeInfo[r].in, in)
         /\ NowAre(MovedBy(now.stocks, Bound(RecipeInfo[r].in, in, -1)),
                  With(now.processes, id, StartedOf(r, out, at)))
  BY StartProductionStep
<1>. DEFINE flow == RecipeInfo[r].in
            sign == -1
            delta == Bound(flow, in, sign)
            stocks == now.stocks
            moved == MovedBy(stocks, delta)
            it == StartedOf(r, out, at)
            processes == now.processes
            held == ByResource(now.stocks)
            next == ByResource(now'.stocks)
<1>2. r \in Recipes /\ now'.stocks = moved /\ now'.processes = With(processes, id, it)
  BY <1>1 DEF NowAre
<1>3. flow \in [Resources -> Nat] /\ IsBinding(now.stocks, flow, in) /\ id \notin DOMAIN processes
  BY <1>1, RecipeFacts
<1>4. sign \in {1, -1} /\ \A x \in Nat : sign * x = -x
  OBVIOUS
<1>5. it.recipe = r /\ it.state = "active"
  BY DEF StartedOf
<1>6. held \in [Resources -> Nat] /\ next \in [Resources -> Nat]
      /\ next = [g \in Resources |-> next[g]]
  BY MatterIs
<1>. HIDE DEF sign, flow, it
<1>7. /\ IsDelta(delta) /\ DOMAIN delta \subseteq DOMAIN stocks
      /\ \A g \in Resources : ByResource(delta)[g] = sign * flow[g]
  <2>1. DOMAIN stocks \subseteq Stocks /\ IsBinding(stocks, flow, in) /\ delta = Bound(flow, in, sign)
    BY <1>3, MatterIs
  <2>. HIDE DEF delta, stocks
  <2>. QED
    BY <1>3, <1>4, <2>1, BoundGains
<1>8. RunCount(With(processes, id, it)) = [RunCount(processes) EXCEPT ![r] = @ + 1]
  <2>1. Running(stocks, processes)
    BY MatterIs
  <2>. HIDE DEF stocks, processes
  <2>. QED
    BY <1>1, <1>3, <1>5, <2>1, OneRunMore
<1>. HIDE DEF delta
<1>9. Gains(moved, stocks, ByResource(delta))
  BY <1>7, MatterIs, MovedByGains
<1>. HIDE DEF moved
<1>10. DOMAIN now'.stocks = DOMAIN now.stocks
  BY <1>2, <1>9 DEF Gains
<1>11. \A g \in Resources : next[g] = held[g] + sign * flow[g]
  BY <1>2, <1>7, <1>9 DEF Gains
<1>. HIDE DEF next, held
<1>12. ASSUME NEW g \in Resources
       PROVE  next[g] = held[g] - flow[g] /\ held[g] >= flow[g]
  <2>. DEFINE x == flow[g]
  <2>1. x \in Nat /\ held[g] \in Nat /\ next[g] \in Nat
    BY <1>3, <1>6
  <2>. HIDE DEF x
  <2>2. next[g] = held[g] + sign * x /\ sign * x = -x
    BY <1>4, <1>11, <2>1 DEF x
  <2>3. next[g] = held[g] - x /\ held[g] >= x
    BY <2>1, <2>2
  <2>. QED
    BY <2>3 DEF x
<1>13. next = [g \in Resources |-> held[g] - flow[g]]
  BY <1>6, <1>12
<1>14. RunCount(now'.processes) = [RunCount(processes) EXCEPT ![r] = @ + 1]
  BY <1>2, <1>8
<1>15. r \in Recipes /\ Matter!Begin(r)
  BY <1>2, <1>10, <1>12, <1>13, <1>14 DEF Matter!Begin, RunCount, RunsOf, held, next, flow
<1>. QED
  BY <1>15 DEF Matter!Next

\* completeProduction finishes one.
LEMMA CompleteProductionIsMatter ==
    ASSUME AccountsInv, AccountsOK(now), AccountsOK(now'), DoCompleteProduction
    PROVE  Matter!Next
<1>1. PICK id \in DOMAIN now.processes :
         /\ IsActive(now, id)
         /\ NowAre(MovedBy(now.stocks, Outputs(now, id)), CompletedOf(now.processes, id))
  BY CompleteProductionStep
<1>. DEFINE processes == now.processes
            r == processes[id].recipe
            flow == RecipeInfo[r].out
            out == processes[id].out
            sign == 1
            delta == Bound(flow, out, sign)
            stocks == now.stocks
            moved == MovedBy(stocks, delta)
            held == ByResource(now.stocks)
            next == ByResource(now'.stocks)
<1>2. now'.stocks = moved /\ now'.processes = CompletedOf(processes, id)
  BY <1>1 DEF NowAre, Outputs
<1>3. /\ processes[id].state = "active" /\ r \in Recipes /\ IsBinding(now.stocks, flow, out)
  BY <1>1, MatterIs DEF IsActive, Running
<1>4. flow \in [Resources -> Nat]
  BY <1>3, RecipeFacts
<1>5. sign \in {1, -1} /\ \A x \in Nat : sign * x = x
  OBVIOUS
<1>6. held \in [Resources -> Nat] /\ next \in [Resources -> Nat]
      /\ next = [g \in Resources |-> next[g]]
  BY MatterIs
<1>7. /\ RunCount(processes)[r] > 0
      /\ RunCount(CompletedOf(processes, id)) = [RunCount(processes) EXCEPT ![r] = @ - 1]
  BY <1>3, MatterIs, OneRunLess
<1>. HIDE DEF sign, flow, out, r
<1>8. /\ IsDelta(delta) /\ DOMAIN delta \subseteq DOMAIN stocks
      /\ \A g \in Resources : ByResource(delta)[g] = sign * flow[g]
  <2>1. DOMAIN stocks \subseteq Stocks /\ IsBinding(stocks, flow, out) /\ delta = Bound(flow, out, sign)
    BY <1>3, MatterIs
  <2>. HIDE DEF delta, stocks
  <2>. QED
    BY <1>3, <1>4, <1>5, <2>1, BoundGains
<1>. HIDE DEF delta
<1>9. Gains(moved, stocks, ByResource(delta))
  BY <1>8, MatterIs, MovedByGains
<1>. HIDE DEF moved
<1>10. DOMAIN now'.stocks = DOMAIN now.stocks
  BY <1>2, <1>9 DEF Gains
<1>11. \A g \in Resources : next[g] = held[g] + sign * flow[g]
  BY <1>2, <1>8, <1>9 DEF Gains
<1>. HIDE DEF next, held
<1>12. \A g \in Resources : next[g] = held[g] + flow[g]
  BY <1>4, <1>5, <1>6, <1>11
<1>13. next = [g \in Resources |-> held[g] + flow[g]]
  BY <1>6, <1>12
<1>14. RunCount(now'.processes) = [RunCount(processes) EXCEPT ![r] = @ - 1]
  BY <1>2, <1>7
<1>15. Matter!Finish(r)
  BY <1>3, <1>7, <1>10, <1>13, <1>14 DEF Matter!Finish, RunCount, RunsOf, held, next, flow
<1>. QED
  BY <1>3, <1>15 DEF Matter!Next

\* What is eaten or built in is used up.
LEMMA UsedUpIsMatter ==
    ASSUME AccountsInv, AccountsOK(now), AccountsOK(now'), UsedUp(now, now')
    PROVE  Matter!Next
<1>. DEFINE held == ByResource(now.stocks)
            next == ByResource(now'.stocks)
            stocks == now.stocks
            moved == now'.stocks
<1>1. /\ IsDelta(stocks) /\ IsDelta(moved) /\ DOMAIN moved = DOMAIN stocks
      /\ now'.processes = now.processes /\ next \in [Resources -> Nat]
      /\ \A s \in DOMAIN stocks : moved[s] =< stocks[s]
  BY MatterIs DEF UsedUp
<1>2. ASSUME NEW g \in Resources
      PROVE  next[g] =< held[g]
  <2>. DEFINE P == Of(stocks, g)
  <2>1. IsFiniteSet(P) /\ P \subseteq DOMAIN stocks
    BY <1>1, DeltaFacts
  <2>2. P = Of(moved, g)
    BY <1>1 DEF Of
  <2>3. held[g] = Total(stocks, P) /\ next[g] = Total(moved, P)
    BY <2>2, GainsAreTotals
  <2>. HIDE DEF P, stocks, moved, held, next
  <2>4. \A s \in P : moved[s] \in Int /\ stocks[s] \in Int /\ moved[s] =< stocks[s]
    BY <1>1, <2>1 DEF IsDelta
  <2>. QED
    BY <2>1, <2>3, <2>4, TotalOrder
<1>. HIDE DEF held, next
<1>3. Matter!Use
  BY <1>1, <1>2 DEF Matter!Use, held, next
<1>. QED
  BY <1>3 DEF Matter!Next

\* Every step of the kernel is a step of the ledger of matter or changes nothing
\* of it.
LEMMA NextIsMatter ==
    ASSUME AccountsInv, AccountsInv', [KernelNext]_kernelVars
    PROVE  Matter!Next \/ Still
<1>0. AccountsOK(now) /\ AccountsOK(now')
  BY DEF AccountsInv
<1>1. CASE UNCHANGED kernelVars
  BY <1>1 DEF kernelVars, Still
<1>2. CASE DoRegisterStock
  BY <1>0, <1>2, RegisterStockIsMatter
<1>3. CASE DoTransfer
  BY <1>0, <1>3, TransferStep, TransferIsStill
<1>4. CASE DoStartProduction
  BY <1>0, <1>4, StartProductionIsMatter
<1>5. CASE DoCompleteProduction
  BY <1>0, <1>5, CompleteProductionIsMatter
<1>6. CASE DoConsumeNeeds
  BY <1>0, <1>6, ConsumeNeedsStep, UsedUpIsMatter
<1>7. CASE DoCheckpoint
  BY <1>7, CheckpointStep, KeptRuns DEF NowAre, Still
<1>8. CASE DoDeliver
  BY <1>0, <1>8, DeliverStep, TransferIsStill
<1>9. CASE DoConsume
  BY <1>0, <1>9, ConsumeStep, UsedUpIsMatter
<1>10. CASE ProjectCalls
  BY <1>10, ProjectSteps DEF SilentStep, Still
<1>11. CASE PeopleCalls
  BY <1>11, PeopleSteps DEF SilentStep, Still
<1>. QED
  BY <1>1, <1>2, <1>3, <1>4, <1>5, <1>6, <1>7, <1>8, <1>9, <1>10, <1>11
     DEF KernelNext, ProjectCalls, PeopleCalls

\* What bootstrapCivilization registers is there, and nothing runs yet.
LEMMA InitIsMatter ==
    ASSUME KernelInit
    PROVE  Matter!Init
<1>1. AccountsInv /\ DOMAIN now.processes = {}
  BY InitKeepsAccounts, InitAccounts
<1>2. DOMAIN now.stocks \subseteq Stocks /\ ByResource(now.stocks) \in [Resources -> Nat]
  BY <1>1, MatterIs DEF AccountsInv
<1>3. \A r \in Recipes : {id \in DOMAIN now.processes :
          now.processes[id].state = "active" /\ now.processes[id].recipe = r} = {}
  BY <1>1
<1>4. Cardinality({}) = 0
  BY FS_EmptySet
<1>. QED
  BY <1>2, <1>3, <1>4 DEF Matter!Init

\* Matter is conserved, whatever is called and in whatever order: the kernel
\* implements the ledger of matter.
THEOREM MatterCorrectness == KernelSpec => MatterIsConserved
<1>1. KernelInit => Matter!Init
  BY InitIsMatter
<1>2. AccountsInv /\ AccountsInv' /\ [KernelNext]_kernelVars =>
         [Matter!Next]_<<DOMAIN now.stocks, ByResource(now.stocks), [r \in Recipes |->
               Cardinality({id \in DOMAIN now.processes :
                   now.processes[id].state = "active" /\ now.processes[id].recipe = r})]>>
  BY NextIsMatter, StillIsMatter
<1>. QED
  BY <1>1, <1>2, AccountsCorrectness, PTL DEF KernelSpec, MatterIsConserved, Matter!Spec

=============================================================================
