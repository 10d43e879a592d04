SPECIFICATION Spec
CONSTANTS
    Nil = Nil
    Denied = Denied
    here = here
    there = there
    id1 = id1
    id2 = id2
    o1 = o1
    o2 = o2
    t1 = t1
    t2 = t2
    Machines = {"operations", "qi operations", "addresses", "channels", "legacy", "legacy channels", "portable", "portable custody"}
SYMMETRY Symmetric
PROPERTIES
    BackupsKeep
    PortableGrows
CHECK_DEADLOCK FALSE
