------------------------------ MODULE MCWallet ------------------------------
(***************************************************************************)
(* Small instances of the native wallet's stored state: the derivation     *)
(* cursor (this module extends AddressAllocation, about which theorems are *)
(* proved), account sessions over the store, the change pool, payment      *)
(* channels, Qi refreshes and the Qi address book.  They share no state    *)
(* here, so a behaviour is of one of them, chosen at the start.            *)
(***************************************************************************)
EXTENDS AddressAllocation, TLC

CONSTANTS
    Machines,   \* those a run composes
    h1, h2, i1, i2, a1, b1, p, q

VARIABLES
    machine,   \* the one this behaviour is of
    r1, r2, r3, r4, r5, r6, r7, r8, r9, r10, r11, r12, r13, r14, r15, r16,
    r17, r18, r19   \* its variables

walletVars == <<machine, r1, r2, r3, r4, r5, r6, r7, r8, r9, r10, r11, r12,
                r13, r14, r15, r16, r17, r18, r19, vars>>

\* A machine of n variables has the first n registers; the others are not used.
Blank(n) ==
    /\ (IF n < 1 THEN r1 = 0 ELSE TRUE) /\ (IF n < 2 THEN r2 = 0 ELSE TRUE)
    /\ (IF n < 3 THEN r3 = 0 ELSE TRUE) /\ (IF n < 4 THEN r4 = 0 ELSE TRUE)
    /\ (IF n < 5 THEN r5 = 0 ELSE TRUE) /\ (IF n < 6 THEN r6 = 0 ELSE TRUE)
    /\ (IF n < 7 THEN r7 = 0 ELSE TRUE) /\ (IF n < 8 THEN r8 = 0 ELSE TRUE)
    /\ (IF n < 9 THEN r9 = 0 ELSE TRUE) /\ (IF n < 10 THEN r10 = 0 ELSE TRUE)
    /\ (IF n < 11 THEN r11 = 0 ELSE TRUE) /\ (IF n < 12 THEN r12 = 0 ELSE TRUE)
    /\ (IF n < 13 THEN r13 = 0 ELSE TRUE) /\ (IF n < 14 THEN r14 = 0 ELSE TRUE)
    /\ (IF n < 15 THEN r15 = 0 ELSE TRUE) /\ (IF n < 16 THEN r16 = 0 ELSE TRUE)
    /\ (IF n < 17 THEN r17 = 0 ELSE TRUE) /\ (IF n < 18 THEN r18 = 0 ELSE TRUE)
    /\ (IF n < 19 THEN r19 = 0 ELSE TRUE)
Keep(n) ==
    /\ UNCHANGED machine
    /\ (IF n < 1 THEN r1' = 0 ELSE TRUE) /\ (IF n < 2 THEN r2' = 0 ELSE TRUE)
    /\ (IF n < 3 THEN r3' = 0 ELSE TRUE) /\ (IF n < 4 THEN r4' = 0 ELSE TRUE)
    /\ (IF n < 5 THEN r5' = 0 ELSE TRUE) /\ (IF n < 6 THEN r6' = 0 ELSE TRUE)
    /\ (IF n < 7 THEN r7' = 0 ELSE TRUE) /\ (IF n < 8 THEN r8' = 0 ELSE TRUE)
    /\ (IF n < 9 THEN r9' = 0 ELSE TRUE) /\ (IF n < 10 THEN r10' = 0 ELSE TRUE)
    /\ (IF n < 11 THEN r11' = 0 ELSE TRUE) /\ (IF n < 12 THEN r12' = 0 ELSE TRUE)
    /\ (IF n < 13 THEN r13' = 0 ELSE TRUE) /\ (IF n < 14 THEN r14' = 0 ELSE TRUE)
    /\ (IF n < 15 THEN r15' = 0 ELSE TRUE) /\ (IF n < 16 THEN r16' = 0 ELSE TRUE)
    /\ (IF n < 17 THEN r17' = 0 ELSE TRUE) /\ (IF n < 18 THEN r18' = 0 ELSE TRUE)
    /\ (IF n < 19 THEN r19' = 0 ELSE TRUE)
Alone(n) == Blank(n) /\ Init
Only(n) == Keep(n) /\ UNCHANGED vars

TwoHandles == {h1, h2}
InZone == {1, 2, 4}
Symmetric == Permutations({h1, h2}) \cup Permutations({i1, i2})

----------------------------------------------------------------------------
\* Two handles and two operations of one account.
NoHeights == [o \in {} |-> 0]
Session == INSTANCE AccountSession WITH
    Ids <- {i1, i2}, Accounts <- {a1}, Outpoints <- {}, Change <- {}, Fees <- {1},
    Hashes <- {b1}, UnlockHeight <- NoHeights, ExpiresAt <- NoHeights, MaxHeight <- 0,
    MaxNonce <- 2, MaxGeneration <- 0, MaxRevision <- 1, MaxVariants <- 0, MaxDrafts <- 2,
    generation <- r1, checkpoint <- r2, coins <- r3, kind <- r4, state <- r5,
    transaction <- r6, inclusion <- r7, qiClaims <- r8, nonceClaims <- r9,
    nonceCursors <- r10, signedPayloads <- r11, variants <- r12, releasedChange <- r13,
    observationCache <- r14, task <- r15, drafts <- r16, signatures <- r17, sent <- r18,
    mined <- r19
ASSUME Session!ConstantsAssumption
ASSUME Session!NoneAssumption

----------------------------------------------------------------------------
\* Two handles that replace one operation, at two prices.
Family == INSTANCE AccountSession WITH
    Ids <- {i1}, Accounts <- {a1}, Outpoints <- {}, Change <- {}, Fees <- 1..2,
    Hashes <- {b1}, UnlockHeight <- NoHeights, ExpiresAt <- NoHeights, MaxHeight <- 0,
    MaxNonce <- 1, MaxGeneration <- 0, MaxRevision <- 1, MaxVariants <- 1, MaxDrafts <- 1,
    generation <- r1, checkpoint <- r2, coins <- r3, kind <- r4, state <- r5,
    transaction <- r6, inclusion <- r7, qiClaims <- r8, nonceClaims <- r9,
    nonceCursors <- r10, signedPayloads <- r11, variants <- r12, releasedChange <- r13,
    observationCache <- r14, task <- r15, drafts <- r16, signatures <- r17, sent <- r18,
    mined <- r19

----------------------------------------------------------------------------
\* Three change addresses, a pool of two of them, and two operations.
Pool == INSTANCE ChangePool WITH
    Ids <- {i1, i2}, MaxIndex <- 3, MaxPool <- 2, SelfPay <- FALSE, cursor <- r1,
    released <- r2, state <- r3, signed <- r4, pool <- r5, wanted <- r6, drafts <- r7,
    burned <- r8
ASSUME Pool!PoolAssumption

----------------------------------------------------------------------------
\* Two processes, four indexes of which one or two are in the zone, and a
\* budget that sometimes misses.
Match == [d \in {"send", "receive"} |-> IF d = "send" THEN {1} ELSE {1, 3}]
Payments == INSTANCE PaymentStore WITH
    Procs <- Handles, End <- 4, Attempts <- {2}, MaxGeneration <- 2, MaxScope <- 3,
    channel <- r1, exposures <- r2, addresses <- r3, scopeGen <- r4, snapshot <- r5,
    held <- r6, work <- r7, backup <- r8, handed <- r9, burned <- r10
ASSUME Payments!ConstantsAssumption

----------------------------------------------------------------------------
\* Two forks: one of the second block, one that leaves no block of the first
\* chain. The first two blocks have the same outpoints; then one moves from
\* an address to the other, and one appears.
Blocks == {"a1", "a2", "b2", "c2"}
Height == [b \in Blocks |-> IF b = "a1" THEN 1 ELSE 2]
Entropy == [b \in Blocks |-> CASE b = "a1" -> 1 [] b = "a2" -> 2 [] b = "b2" -> 3 [] b = "c2" -> 4]
Ancestor ==
    [b \in Blocks |-> CASE b = "a1" -> <<"a1">> [] b = "c2" -> <<"c1", "c2">> [] OTHER -> <<"a1", b>>]
Utxo ==
    [b \in Blocks |-> [a \in {"x", "y"} |->
        CASE b \in {"a1", "a2"} -> IF a = "x" THEN {1} ELSE {}
          [] b = "b2" -> IF a = "x" THEN {2} ELSE {1}
          [] b = "c2" -> IF a = "x" THEN {} ELSE {3}]]
Refresh == INSTANCE QiRefresh WITH
    Processes <- {p, q}, Addresses <- {"x", "y"}, Initial <- {"x"}, Scanned <- {"y"},
    Attempts <- 2, Calls <- (p :> 2 @@ q :> 1), head <- r1, generation <- r2,
    checkpoint <- r3, coins <- r4, addresses <- r5, pc <- r6, attempt <- r7, seen <- r8,
    before <- r9, todo <- r10, found <- r11, result <- r12, calls <- r13

----------------------------------------------------------------------------
\* A chain of two blocks and a fork of the second; y is funded in the second
\* block of the first branch only, x in both.
UseBlocks == {"a1", "a2", "b2", "b3"}
UseHeight == [b \in UseBlocks |-> CASE b = "a1" -> 1 [] b = "b3" -> 3 [] OTHER -> 2]
UseEntropy == [b \in UseBlocks |-> CASE b = "a1" -> 1 [] b = "a2" -> 2 [] b = "b2" -> 3 [] b = "b3" -> 4]
Owned ==
    [b \in UseBlocks |-> [a \in {"x", "y", "w"} |->
        CASE a = "x" -> b # "a1" [] a = "y" -> b = "a2" [] a = "w" -> FALSE]]
Use == INSTANCE QiAddressUse WITH
    Addresses <- {"x", "y", "w"}, Origins <- {"Bip44", "Imported"}, Blocks <- UseBlocks,
    Height <- UseHeight, Entropy <- UseEntropy, Refused <- {"w"}, MaxRecords <- 2,
    head <- r1, book <- r2, pc <- r3, tip <- r4, todo <- r5, staged <- r6, failed <- r7,
    seenUsed <- r8

----------------------------------------------------------------------------
WalletInit ==
    /\ machine \in Machines
    /\ \/ machine = "allocation" /\ Init /\ Blank(0)
       \/ machine = "session" /\ Session!Init /\ Alone(19)
       \/ machine = "family" /\ Family!Init /\ Alone(19)
       \/ machine = "change" /\ Pool!Init /\ Alone(8)
       \/ machine = "payments" /\ Payments!Init /\ Alone(10)
       \/ machine = "refresh" /\ Refresh!Init /\ Alone(13)
       \/ machine = "address use" /\ Use!Init /\ Alone(8)

WalletNext ==
    \/ machine = "allocation" /\ Next /\ Keep(0)
    \/ machine = "session" /\ Session!Next /\ Only(19)
    \/ machine = "family" /\ Family!Next /\ Only(19)
    \/ machine = "change" /\ Pool!Next /\ Only(8)
    \/ machine = "payments" /\ Payments!Next /\ Only(10)
    \/ machine = "refresh" /\ Refresh!Next /\ Only(13)
    \/ machine = "address use" /\ Use!Next /\ Only(8)

WalletSpec == WalletInit /\ [][WalletNext]_walletVars

----------------------------------------------------------------------------
\* Every step of the account session is a step the store allows: the session
\* implements StoreSpec, the specification of the database that the theorems of
\* WalletStoreProofs are about.
ImplementsStore ==
    /\ machine = "family" => Family!StoreInit
    /\ [][machine = "family" => Family!StoreNext \/ UNCHANGED Family!storeVars]_walletVars

\* State constraint: the named bounds on the generations of the payment rows.
Bounded == machine = "payments" => Payments!Bounded

\* A process that ends between any two steps of an account session loses no
\* signature, leaves no gap of nonces, and lets no two signatures compete
\* outside a replacement family.
SessionsRecover ==
    /\ machine = "session" => Session!SessionsRecover
    /\ machine = "family" => Family!SessionsRecover


\* Two handles never give one payment address to two payments, the ranges of
\* two searches are disjoint, every exposure lies below the cursor, and a
\* snapshot that is committed watched every address known to the rows it read.
PaymentsApart ==
    machine = "payments" => Payments!PaymentsApart

\* What a refresh commits is the view of one block and of the scope it started
\* with, a rewind is never silent, and an address that was seen used or handed
\* out stays so whatever a later scan of another branch says.
DiscoveryFenced ==
    /\ [](/\ machine = "refresh" => Refresh!TypeOK /\ Refresh!SnapshotIsView
          /\ machine = "address use" => Use!TypeOK /\ Use!UnusedIsObserved /\ Use!UsedSticks)
    /\ [][/\ machine = "refresh" => Refresh!ReturnedIsFresh /\ Refresh!NoSilentRewind
          /\ machine = "address use" => Use!AttemptSticks /\ Use!RecordedTogether]_walletVars
=============================================================================
