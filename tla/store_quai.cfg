SPECIFICATION StoreSpec
CONSTANTS
    i1 = i1
    i2 = i2
    a1 = a1
    o1 = o1
    o2 = o2
    b1 = b1
    b2 = b2
    None = None
    Ids <- Two
    Accounts <- One
    Outpoints <- NoCoins
    Change <- NoChange
    Fees <- TwoFees
    Hashes <- OneHash
    UnlockHeight <- Unlock
    ExpiresAt <- Expiry
    MaxHeight = 1
    MaxNonce = 2
    MaxGeneration = 1
    MaxRevision = 2
    MaxVariants = 1
SYMMETRY Symmetric
INVARIANTS
    TypeOK
    NonceClaimsExclusive
    NoConflictingSignatures
    FamilyViewComplete
PROPERTIES
    SignedIsForever
CHECK_DEADLOCK FALSE
