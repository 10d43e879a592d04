SPECIFICATION Spec
CONSTANTS
    Nil = Nil
    k1 = k1
    k2 = k2
    e1 = e1
    e2 = e2
    a = a
    b = b
    Machines = {"hub", "ws", "reads", "single", "injected", "request only", "two senders", "socket", "signer", "quote", "requote", "abi", "proof", "rlp"}
INVARIANTS
    DeliversExactly
    SubscriptionsKept
    
    SendsKnown
    
    

    
CHECK_DEADLOCK FALSE
