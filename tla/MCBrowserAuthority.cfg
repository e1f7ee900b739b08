SPECIFICATION Spec
CONSTANTS
    e1 = e1
    e2 = e2
    Tabs = {t1, t2}
    NoHead = NoHead
    NoRequest = NoRequest
    MaxOps = 3
    Geneses = {g1, g2}
    NoGenesis = NoGenesis
    GenesisSnapshot = genesis
    AppendIds = {a1, a2}
    BatchIds = {a1, a2}
    BatchOf <- MCBatchOf
    EventIds = {e1, e2}
    SnapshotIds = {s1}
    CommandReceipts = {refused}
    TimeOf <- MCTimeOf
    RefsOf <- MCRefsOf
    MaxEventsPerBatch = 1
    MaxSnapshots = 2
    MaxToken = 2
SYMMETRY Symmetry
INVARIANTS
    TypeOK
    StoredStreamHydrates
    FenceHasOneOwner
PROPERTIES
    AnsweredIsStored
    NewestFenceWrites
    ImplementsPort
CHECK_DEADLOCK FALSE
