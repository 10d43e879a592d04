SPECIFICATION Spec
CONSTANTS
    None = None
    NoBlock = NoBlock
    Blocks <- Tree
    Genesis = 0
    Parent <- TreeParent
    Number <- TreeNumber
    Branch <- TreeBranch
    Machines = {"conversion"}
INVARIANTS
    Unskipped
CHECK_DEADLOCK FALSE
