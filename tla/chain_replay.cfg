SPECIFICATION Spec
CONSTANTS
    None = None
    NoBlock = NoBlock
    Blocks <- Tree
    Genesis = 0
    Parent <- TreeParent
    Number <- TreeNumber
    Branch <- TreeBranch
    Machines = {"heads", "replay", "replay race", "settlement", "conversion", "family", "address scan", "coins"}
INVARIANTS
    TrackerFollows
    ReplayComposes
    ScanIsSequential
    SelectionExact
PROPERTIES
    ObservationsHold
CHECK_DEADLOCK FALSE
