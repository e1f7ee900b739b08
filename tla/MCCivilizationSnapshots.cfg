SPECIFICATION Spec
CONSTANTS
    Jobs = {j1}
    Returns = {r1}
    Commands = {k1}
    DayCommands = {}
    MaxDay = 4
    MaxReturnDays = 1
    MaxCrashes = 0
    None = None
    Geneses = {g1}
    NoGenesis = NoGenesis
    GenesisSnapshot = genesis
    AppendIds <- MCAppendIds
    BatchIds <- MCAppendIds
    EventIds <- MCEventIds
    SnapshotIds <- MCSnapshotIds
    CommandReceipts <- MCMarkers
    TimeOf <- MCTimeOf
    RefsOf <- MCRefsOf
    MaxEventsPerBatch = 1
    MaxSnapshots = 5
    MaxToken = 20
INVARIANT
    SnapshotsNeverBlock
CHECK_DEADLOCK FALSE
