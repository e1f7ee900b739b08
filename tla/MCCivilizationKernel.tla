-------------------------- MODULE MCCivilizationKernel --------------------------
(* One settlement, two citizens, a mill, a two-step project and an expedition.  *)
EXTENDS CivilizationKernel

CONSTANTS ann, bo, grain, water, home, second, site, hall, house, barn, well, bag,
          yard, mill, granary, lodge, annex, trek, colony, run

Flow(g, w) == [r \in {grain, water} |-> IF r = grain THEN g ELSE w]
MCGenesis == [settlements |-> {home}, home |-> [p \in {ann, bo} |-> home],
              kinds |-> [s \in {site} |-> {}],
              stocks |-> [s \in {barn, well, bag} |-> IF s = bag THEN 1 ELSE 2]]
\* Who makes things and builds of them, who builds one thing upon another, who
\* lives together, leaves and founds, and who does so with whatever people and
\* homes the kernel takes.
Nobody == [stocks |-> {}, recipes |-> {}, batches |-> {}, projects |-> {}, households |-> {},
           leavers |-> {}, migrations |-> {}, foundings |-> {},
           calls |-> "linked"]
MCCallers ==
    {[Nobody EXCEPT !.stocks = {barn, yard}, !.projects = {granary}, !.batches = {<<ann, bo>>}],
     [Nobody EXCEPT !.stocks = {bag, barn}, !.recipes = {mill}, !.batches = {<<bo>>, <<ann, bo>>}],
     [Nobody EXCEPT !.projects = {lodge, annex}],
     [Nobody EXCEPT !.projects = {lodge}, !.households = {house}, !.leavers = {ann, bo},
                    !.migrations = {trek}, !.foundings = {colony}],
     [Nobody EXCEPT !.projects = {lodge}, !.households = {house}, !.leavers = {ann},
                    !.migrations = {trek}, !.foundings = {colony}, !.calls = "any"]}
MCStockInfo == [s \in {bag, barn, well, yard} |->
    [owner |-> CASE s = bag -> Owner("citizen", ann)
                 [] s = yard -> Owner("project", granary)
                 [] OTHER -> Owner("settlement", home),
     resource |-> IF s = well THEN water ELSE grain,
     capacity |-> 2, reserved |-> IF s = barn THEN 1 ELSE 0]]
MCStockOrder == <<bag, barn, well, yard>>
MCRecipeInfo == [r \in {mill} |-> [in |-> Flow(0, 2), out |-> Flow(1, 0), duration |-> 1,
                                   kinds |-> {}]]
MCProjectInfo == [p \in {granary, lodge, annex} |->
    [settlement |-> home, site |-> site, labourers |-> {bo},
     deps |-> IF p = annex THEN {lodge} ELSE {},
     milestones |-> IF p = granary
                    THEN <<[needs |-> Flow(1, 0), labor |-> 0, deps |-> {}],
                           [needs |-> Flow(1, 0), labor |-> 1, deps |-> {1}]>>
                    ELSE <<[needs |-> Flow(0, 0), labor |-> 1, deps |-> {}]>>]]
MCMigrationInfo == [m \in {trek} |->
    [citizens |-> {ann}, origin |-> home, carried |-> {bag}, needs |-> Flow(1, 0),
     takes |-> 1, legs |-> <<1, 1>>]]
MCFoundingInfo == [f \in {colony} |->
    [migration |-> trek, settlement |-> second, projects |-> {lodge}, stocks |-> {bag},
     needs |-> Flow(1, 0)]]
MCNone == [i \in {} |-> {}]
MCUnit == [p \in {ann, bo} |-> 1]
=============================================================================
