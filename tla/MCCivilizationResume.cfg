SPECIFICATION Spec
CONSTANTS
    Jobs = {j1}
    Returns = {r1}
    Commands = {k1}
    DayCommands = {}
    MaxDay = 3
    MaxReturnDays = 2
    MaxCrashes = 1
    None = None
    Geneses = {g1}
    NoGenesis = NoGenesis
    GenesisSnapshot = genesis
    AppendIds <- MCAppendIds
    BatchIds <- MCAppendIds
    EventIds <- MCEventIds
    SnapshotIds <- MCSnapshotIds
    CommandReceipts <- MCMarkers
    TimeOf <- MCTimeOf
    RefsOf <- MCRefsOf
    MaxEventsPerBatch = 1
    MaxSnapshots = 20
    MaxToken = 20
INVARIANT
    ResumeRebuildsThePlan
CHECK_DEADLOCK FALSE
