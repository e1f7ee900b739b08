SPECIFICATION KernelSpec
CONSTANTS
    ann = ann
    bo = bo
    grain = grain
    water = water
    home = home
    second = second
    site = site
    hall = hall
    house = house
    barn = barn
    well = well
    bag = bag
    yard = yard
    mill = mill
    granary = granary
    lodge = lodge
    annex = annex
    trek = trek
    colony = colony
    run = run
    None = None
    Resources = {grain, water}
    Foods = {grain}
    Waters = {water}
    Citizens = {ann, bo}
    Settlements = {home, second}
    Sites = {site}
    Kinds = {hall}
    Households = {house}
    Institutions = {}
    Stocks = {bag, barn, well, yard}
    Recipes = {mill}
    Projects = {granary, lodge, annex}
    Migrations = {trek}
    Foundings = {colony}
    Processes = {run}
    StockInfo <- MCStockInfo
    StockOrder <- MCStockOrder
    RecipeInfo <- MCRecipeInfo
    ProjectInfo <- MCProjectInfo
    MigrationInfo <- MCMigrationInfo
    FoundingInfo <- MCFoundingInfo
    MembersOf <- MCNone
    CapacityOf <- MCUnit
    RequiredFood <- MCUnit
    RequiredWater <- MCUnit
    Genesis <- MCGenesis
    Callers <- MCCallers
    MaxUnits = 2
    MaxTime = 2
    MaxEntries = 2
INVARIANTS
    KernelTypeOK
    AuditPasses
    ProjectBooks
    PeopleAreSomewhere
PROPERTIES
    MatterIsConserved
CHECK_DEADLOCK FALSE
