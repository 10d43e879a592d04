SPECIFICATION StoreSpec
CONSTANTS
    i1 = i1
    i2 = i2
    a1 = a1
    o1 = o1
    o2 = o2
    b1 = b1
    b2 = b2
    None = None
    Ids <- Two
    Accounts <- NoAccounts
    Outpoints <- Coins
    Change <- OneChange
    Fees <- TwoFees
    Hashes <- TwoHashes
    UnlockHeight <- Unlock
    ExpiresAt <- Expiry
    MaxHeight = 1
    MaxNonce = 0
    MaxGeneration = 2
    MaxRevision = 0
    MaxVariants = 0
SYMMETRY Symmetric
INVARIANTS
    RowsReadable
    ReleasedChangeUnsigned
PROPERTIES
    GenerationFencesCoins
CHECK_DEADLOCK FALSE
