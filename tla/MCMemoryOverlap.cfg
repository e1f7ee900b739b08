SPECIFICATION Spec
CONSTANTS
    e1 = e1
    e2 = e2
    Callers = {c1, c2}
    NoHead = NoHead
    NoRequest = NoRequest
    MaxCommits = 4
    Geneses = {g1}
    NoGenesis = NoGenesis
    GenesisSnapshot = genesis
    AppendIds = {a1, a2}
    BatchIds = {b1}
    EventIds = {e1, e2}
    SnapshotIds = {s1, s2}
    CommandReceipts = {refused}
    TimeOf <- MCTimeOf
    RefsOf <- MCRefsOf
    MaxEventsPerBatch = 2
    MaxSnapshots = 2
    MaxToken = 2
PROPERTIES
    FencingIncreases
CHECK_DEADLOCK FALSE
