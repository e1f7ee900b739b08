SPECIFICATION Spec
CONSTANTS
    e1 = e1
    e2 = e2
    e3 = e3
    Geneses = {g1}
    NoGenesis = NoGenesis
    GenesisSnapshot = genesis
    AppendIds = {a1, a2, a3}
    BatchIds = {b1, b2}
    EventIds = {e1, e2, e3}
    SnapshotIds = {s1, s2}
    CommandReceipts = {refused}
    TimeOf <- MCTimeOf
    RefsOf <- MCRefsOf
    MaxEventsPerBatch = 2
    MaxSnapshots = 2
    MaxToken = 2
INVARIANTS
    TypeOK
    Ledger
    CausesPrecede
    Receipts
    Revisions
    Fences
    Snapshots
PROPERTIES
    History
CHECK_DEADLOCK FALSE
