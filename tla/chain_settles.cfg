SPECIFICATION FairSpec
CONSTANTS
    None = None
    NoBlock = NoBlock
    Blocks <- Tree
    Genesis = 0
    Parent <- TreeParent
    Number <- TreeNumber
    Branch <- TreeBranch
    Machines = {"catch up", "recovery", "confirmation", "deployment", "replacement", "preparation", "payment scan", "mailbox", "quotation"}
INVARIANTS
    
    
    PaymentsFound
PROPERTIES
    RecoveryEnds
    WaitsEnd
CHECK_DEADLOCK FALSE
