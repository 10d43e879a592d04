SPECIFICATION WalletSpec
CONSTANTS
    h1 = h1
    h2 = h2
    i1 = i1
    i2 = i2
    a1 = a1
    b1 = b1
    p = p
    q = q
    None = None
    Handles <- TwoHandles
    Matching <- InZone
    MaxIndex = 6
    MaxAttempts = 4
    MaxGeneration = 4
    MaxAddresses = 3
    Machines = {"allocation", "session", "family", "change", "payments", "refresh", "address use"}
SYMMETRY Symmetric
CONSTRAINT Bounded
INVARIANTS
    IssuedOnce
    SessionsRecover
    
    PaymentsApart
PROPERTIES
    DiscoveryFenced
    ImplementsStore
CHECK_DEADLOCK FALSE
