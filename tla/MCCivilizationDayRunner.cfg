SPECIFICATION SponsoredSpec
CONSTANTS
    mara = mara
    ann = ann
    tor = tor
    spring = spring
    water = water
    food = food
    timber = timber
    origin = origin
    second = second
    yard = yard
    camp = camp
    cellar = cellar
    cache = cache
    house = house
    council = council
    verify = verify
    accuse = accuse
    well = well
    cistern = cistern
    tank = tank
    larder = larder
    store = store
    kitbox = kitbox
    jar = jar
    bag = bag
    draw = draw
    melt = melt
    jobDraw = jobDraw
    jobMelt = jobMelt
    pipe = pipe
    kit = kit
    reserve = reserve
    trek = trek
    colony = colony
    None = None
    Resources = {spring, water, food, timber}
    Foods = {food}
    Waters = {water}
    Citizens = {mara, ann, tor}
    Settlements = {origin, second}
    Sites = {yard, camp}
    Kinds = {cellar, cache}
    Households = {house}
    Institutions = {council}
    Stocks = {well, cistern, tank, larder, store, kitbox, jar, bag}
    Recipes = {draw, melt}
    Projects = {kit, reserve}
    Migrations = {trek}
    Foundings = {colony}
    Processes <- MCProcesses
    StockInfo <- MCStockInfo
    StockOrder <- MCStockOrder
    RecipeInfo <- MCRecipeInfo
    ProjectInfo <- MCProjectInfo
    MigrationInfo <- MCMigrationInfo
    FoundingInfo <- MCFoundingInfo
    MembersOf <- MCMembers
    CapacityOf <- MCOne
    RequiredFood <- MCOne
    RequiredWater <- MCOne
    CitizenOrder <- MCCitizenOrder
    ResourceOrder <- MCResourceOrder
    ProjectOrder <- MCProjectOrder
    JobOrder <- MCJobOrder
    LaneOrder <- MCLaneOrder
    JobInfo <- MCJobInfo
    LaneInfo <- MCLaneInfo
    WorkInfo <- MCWorkInfo
    NeedStocks <- MCNeedStocks
    RelationOrder <- MCRelations
    Origin = origin
    GenesisStocks <- MCGenesisStocks
    GenesisKinds <- MCKinds
    Homes <- MCHomes
    SiteOf <- MCSiteOf
    SettlersSite = camp
    TalkSites = {yard}
    Kit = kit
    Trek = trek
    Colony = colony
    Eligible = TRUE
    OriginatedBy <- MCOriginated
    WaterLaneOf <- MCWaterLane
    OriginationDay = 1
    Cooldown = 3
    Traversal = 1
    Horizon = 5
    Focal = mara
    Intents = {verify, accuse}
INVARIANTS
    TypeOK
    LaborWithinCapacity
    OnlyHeedsFail
    ExpeditionIsWhole
    AnswersInTime
PROPERTIES
    DayEnds
    InfluenceIsLived
CHECK_DEADLOCK FALSE
