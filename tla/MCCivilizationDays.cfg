SPECIFICATION Spec
CONSTANTS
    Jobs = {j1, j2}
    Returns = {r1}
    Commands = {b1}
    DayCommands = {b1}
    MaxDay = 3
    MaxReturnDays = 2
    MaxCrashes = 0
    None = None
    Geneses = {g1}
    NoGenesis = NoGenesis
    GenesisSnapshot = genesis
    AppendIds <- MCAppendIds
    BatchIds <- MCAppendIds
    EventIds <- MCEventIds
    SnapshotIds <- MCSnapshotIds
    CommandReceipts <- MCMarkers
    TimeOf <- MCTimeOf
    RefsOf <- MCRefsOf
    MaxEventsPerBatch = 1
    MaxSnapshots = 4
    MaxToken = 2
SYMMETRY Symmetry
INVARIANTS
    TypeOK
    DaysInOrder
    MarkersAreTrue
    OnePlanPerOperation
    SnapshotsAreOfTheirDay
CHECK_DEADLOCK FALSE
