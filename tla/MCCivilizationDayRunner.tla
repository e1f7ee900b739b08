------------------------ MODULE MCCivilizationDayRunner ------------------------
(* Mara leads the works, Ann carries the water, Tor draws it and moves away.    *)
EXTENDS CivilizationSponsor

CONSTANTS mara, ann, tor, spring, water, food, timber, origin, second, yard, camp,
          cellar, cache, house, council, verify, accuse, well, cistern, tank, larder, store, kitbox, jar, bag,
          draw, melt, jobDraw, jobMelt, pipe, kit, reserve, trek, colony

Of(g, n) == [r \in Resources |-> IF r = g THEN n ELSE 0]
Each(n) == [p \in Citizens |-> n]

MCStockInfo == [s \in Stocks |->
    [owner |-> CASE s = store -> Owner("institution", council)
                 [] s = kitbox -> Owner("project", kit)
                 [] s = jar -> Owner("project", reserve)
                 [] s = bag -> Owner("citizen", tor)
                 [] OTHER -> Owner("settlement", origin),
     resource |-> CASE s \in {well, cistern} -> spring
                    [] s \in {tank, jar} -> water
                    [] s \in {larder, bag} -> food
                    [] OTHER -> timber,
     capacity |-> CASE s = well -> 8 [] s = cistern -> 2 [] s = tank -> 4
                    [] s = larder -> 6 [] OTHER -> 1,
     reserved |-> 0]]
MCStockOrder == <<bag, cistern, jar, kitbox, larder, store, tank, well>>
MCGenesisStocks == (well :> 8) @@ (cistern :> 0) @@ (tank :> 3) @@ (larder :> 6)
                   @@ (store :> 1) @@ (kitbox :> 0) @@ (bag :> 1)
MCRecipeInfo == [r \in Recipes |->
    [in |-> Of(spring, IF r = draw THEN 2 ELSE 1), out |-> Of(water, IF r = draw THEN 2 ELSE 1),
     duration |-> 1, kinds |-> {}, labor |-> 1]]
MCJobInfo == [j \in {jobDraw, jobMelt} |->
    [recipe |-> IF j = jobDraw THEN draw ELSE melt, site |-> yard,
     participants |-> {tor},
     in |-> spring :> cistern, out |-> water :> tank, stock |-> tank,
     target |-> 4, lanes |-> {pipe}]]
MCLaneInfo == pipe :> [from |-> well, to |-> cistern, carrier |-> ann, capacity |-> 2, labor |-> 1]
MCProjectInfo == [p \in Projects |->
    [settlement |-> origin, site |-> yard,
     labourers |-> IF p = kit THEN {mara} ELSE {ann, mara}, deps |-> {},
     milestones |-> <<[needs |-> Of(IF p = kit THEN timber ELSE water, 1),
                       labor |-> IF p = kit THEN 1 ELSE 2, deps |-> {}]>>]]
MCWorkInfo == [p \in Projects |->
    [sponsor |-> IF p = kit THEN Owner("institution", council) ELSE Owner("citizen", ann),
     participants |-> MCProjectInfo[p].labourers, actor |-> mara,
     kind |-> IF p = kit THEN cache ELSE cellar,
     authorized |-> IF p = kit THEN {mara} ELSE {ann, mara}]]
MCMigrationInfo == trek :> [citizens |-> {tor}, origin |-> origin, carried |-> {bag},
                            needs |-> Of(food, 1), takes |-> 2, legs |-> <<1, 1>>]
MCFoundingInfo == colony :> [migration |-> trek, settlement |-> second, projects |-> {kit},
                             stocks |-> {bag}, needs |-> Of(food, 1)]
MCProcesses == {jobDraw, jobMelt} \X (1..Horizon)
MCMembers == council :> {mara}
MCOne == Each(1)
MCNeedStocks == Each({larder, tank})
MCRelations == <<<<mara, ann>>, <<ann, tor>>, <<tor, mara>>>>
MCSiteOf == Each(yard)
MCKinds == [s \in Sites |-> {}]
MCHomes == house :> {mara, ann}
MCOriginated == [p \in Citizens |-> IF p = ann THEN reserve ELSE None]
MCWaterLane == [p \in Citizens |-> IF p = ann THEN pipe ELSE None]
MCCitizenOrder == <<mara, ann, tor>>
MCResourceOrder == <<food, spring, timber, water>>
MCProjectOrder == <<reserve, kit>>
MCJobOrder == <<jobDraw, jobMelt>>
MCLaneOrder == <<pipe>>
=============================================================================
