SPECIFICATION Spec
CONSTANTS
    Nil = Nil
    Denied = Denied
    here = here
    there = there
    id1 = id1
    id2 = id2
    o1 = o1
    o2 = o2
    t1 = t1
    t2 = t2
    Machines = {"account books", "account family", "accounts", "account tabs", "qi books", "qi family", "qi", "allocations", "journals"}
SYMMETRY Symmetric
INVARIANTS
    BooksReload
    JournalsTogether
PROPERTIES
    SignaturesKept
    TabsCustody
    
CHECK_DEADLOCK FALSE
