SPECIFICATION FairSpec
CONSTANTS
    Nil = Nil
    k1 = k1
    k2 = k2
    e1 = e1
    e2 = e2
    a = a
    b = b
    Machines = {"ws ends", "fetch", "token"}
PROPERTIES
    FetchBounded
    CallsEnd
CHECK_DEADLOCK FALSE
