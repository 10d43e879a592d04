----------------------------- MODULE MCCustody ------------------------------
(***************************************************************************)
(* Small instances of what a browser profile keeps in its journals, and of *)
(* the backups of native and browser wallets.  They share no state here,   *)
(* so a behaviour is of one of them, chosen at the start.                  *)
(***************************************************************************)
EXTENDS Naturals, Sequences, FiniteSets, TLC

CONSTANTS
    Machines,   \* those a run composes
    Nil, Denied, here, there, id1, id2, o1, o2, t1, t2

VARIABLES
    machine,   \* the one this behaviour is of
    r1, r2, r3, r4, r5, r6   \* its variables

vars == <<machine, r1, r2, r3, r4, r5, r6>>

\* A machine of n variables has the first n registers; the others are not used.
Blank(n) ==
    /\ (IF n < 1 THEN r1 = 0 ELSE TRUE) /\ (IF n < 2 THEN r2 = 0 ELSE TRUE)
    /\ (IF n < 3 THEN r3 = 0 ELSE TRUE) /\ (IF n < 4 THEN r4 = 0 ELSE TRUE)
    /\ (IF n < 5 THEN r5 = 0 ELSE TRUE) /\ (IF n < 6 THEN r6 = 0 ELSE TRUE)
Keep(n) ==
    /\ UNCHANGED machine
    /\ (IF n < 1 THEN r1' = 0 ELSE TRUE) /\ (IF n < 2 THEN r2' = 0 ELSE TRUE)
    /\ (IF n < 3 THEN r3' = 0 ELSE TRUE) /\ (IF n < 4 THEN r4' = 0 ELSE TRUE)
    /\ (IF n < 5 THEN r5' = 0 ELSE TRUE) /\ (IF n < 6 THEN r6' = 0 ELSE TRUE)

Symmetric ==
    Permutations({here, there}) \cup Permutations({id1, id2}) \cup Permutations({o1, o2})
    \cup Permutations({t1, t2})

----------------------------------------------------------------------------
\* Two profiles of one account, two operations, two prices.
AccountBook == INSTANCE AccountBooks WITH
    Ids <- {id1, id2}, Fees <- {1, 2}, Blocks <- {"x"}, MaxNonce <- 2, MaxOperations <- 2,
    MaxVariants <- 0, None <- Nil, Refused <- Denied, Profiles <- {here, there},
    Files <- {}, book <- r1
ASSUME AccountBook!CustodyAssumption

----------------------------------------------------------------------------
\* One operation that is replaced.
AccountFamily == INSTANCE AccountBooks WITH
    Ids <- {id1}, Fees <- {1, 2}, Blocks <- {"x"}, MaxNonce <- 2, MaxOperations <- 2,
    MaxVariants <- 1, None <- Nil, Refused <- Denied, Profiles <- {here, there},
    Files <- {}, book <- r1
ASSUME AccountFamily!CustodyAssumption

----------------------------------------------------------------------------
\* Two tabs of one profile, and the backup of a device that has signed and
\* submitted the first operation.
Home == (t1 :> "here") @@ (t2 :> "here")
Paid == [nonce |-> 0, fee |-> 1]
Elsewhere(payload) ==
    [nonce |-> 0, state |-> "confirmed", transaction |-> Paid, payload |-> payload,
     replacements |-> {}, inclusion |-> <<Paid, "x">>]
AccountFiles ==
    {[next |-> 1, ops |-> [id \in {"a", "b"} |-> IF id = "a" THEN Elsewhere(payload) ELSE Nil]] :
        payload \in {Nil, Paid}}
Accounts == INSTANCE BrowserAccounts WITH
    MaxRevision <- 3, MaxSlots <- 2, Ids <- {"a", "b"}, Fees <- {1}, Blocks <- {"x"},
    MaxNonce <- 2, MaxOperations <- 2, MaxVariants <- 0, None <- Nil, Refused <- Denied,
    Profiles <- {"here"}, Files <- AccountFiles, Tabs <- {t1, t2}, disk <- r1, task <- r2,
    sent <- r3, returned <- r4, prepared <- r5
ASSUME Accounts!TabsAssumption

----------------------------------------------------------------------------
\* The same with one operation that is replaced.
TabFiles == {[file EXCEPT !.ops = [id \in {"a"} |-> file.ops[id]]] : file \in AccountFiles}
AccountTabs == INSTANCE BrowserAccounts WITH
    MaxRevision <- 5, MaxSlots <- 2, Ids <- {"a"}, Fees <- {1, 2}, Blocks <- {"x"},
    MaxNonce <- 1, MaxOperations <- 2, MaxVariants <- 1, None <- Nil, Refused <- Denied,
    Profiles <- {"here"}, Files <- TabFiles, Tabs <- {t1, t2}, disk <- r1, task <- r2,
    sent <- r3, returned <- r4, prepared <- r5
ASSUME AccountTabs!TabsAssumption

----------------------------------------------------------------------------
\* Two profiles, two operations and two outpoints of one address each.
SelfOwner == [o \in {o1, o2} |-> o]
QiBook == INSTANCE QiBooks WITH
    Ids <- {id1, id2}, Outpoints <- {o1, o2}, Owner <- SelfOwner, Fees <- {1},
    Blocks <- {"x"}, MaxOperations <- 2, MaxAddresses <- 2, MaxVariants <- 1, None <- Nil,
    Refused <- Denied, Profiles <- {here, there}, Files <- {}, book <- r1
ASSUME QiBook!QiCustodyAssumption

----------------------------------------------------------------------------
\* One operation at two fees.
QiFamily == INSTANCE QiBooks WITH
    Ids <- {id1}, Outpoints <- {o1, o2}, Owner <- SelfOwner, Fees <- {1, 2},
    Blocks <- {"x"}, MaxOperations <- 2, MaxAddresses <- 2, MaxVariants <- 1, None <- Nil,
    Refused <- Denied, Profiles <- {here, there}, Files <- {}, book <- r1
ASSUME QiFamily!QiCustodyAssumption

----------------------------------------------------------------------------
\* Two tabs and the backup of a device that confirmed an operation of this
\* wallet, of which this profile may have released the reservation.
CoinOwner == [o \in {"o", "p"} |-> o]
Spent == [inputs |-> {"o"}, fee |-> 1]
QiFiles ==
    {[addresses |-> {"o"},
      ops |-> [id \in {"a"} |->
                [state |-> "confirmed", checkpoint |-> "x", claims |-> {"o"}, transaction |-> Spent,
                 payload |-> Spent, replacements |-> {}, inclusion |-> <<Spent, "x">>]]]}
Qi == INSTANCE BrowserQi WITH
    MaxRevision <- 3, MaxSlots <- 2, Ids <- {"a"}, Outpoints <- {"o", "p"},
    Owner <- CoinOwner, Fees <- {1, 2}, Blocks <- {"x"}, MaxOperations <- 2,
    MaxAddresses <- 2, MaxVariants <- 1, None <- Nil, Refused <- Denied, Tabs <- {t1, t2},
    Files <- QiFiles, Scanned <- {"o"}, Allocatable <- {"p"}, Operations <- "operations",
    Allocations <- "allocations", disk <- r1, task <- r2, sent <- r3, returned <- r4,
    missed <- r5
ASSUME Qi!TabsAssumption

----------------------------------------------------------------------------
\* Two branches; an older device that exposed index 1 of them, and one whose
\* cursor lags behind an address it records.
Directions == {"receive", "change"}
AddressFiles ==
    {[cursor |-> [b \in Directions |-> 2], addresses |-> [b \in Directions |-> {1}]],
     [cursor |-> [b \in Directions |-> 0], addresses |-> [b \in Directions |-> {2}]]}
Allocation == INSTANCE BrowserAllocations WITH
    MaxRevision <- 4, MaxSlots <- 1, Ids <- {id1, id2}, Branches <- Directions,
    Zoned <- {1, 2, 3}, MaxIndex <- 4, MaxAttempts <- 2, MaxAllocations <- 2, None <- Nil,
    Refused <- Denied, Tabs <- {t1, t2}, Files <- AddressFiles, Journal <- "journal",
    disk <- r1, task <- r2, foreign <- r3, returned <- r4
ASSUME Allocation!AllocationAssumption

----------------------------------------------------------------------------
\* Two captures or restores of three journals that tabs write meanwhile.
Journals == INSTANCE BrowserBackups WITH
    MaxRevision <- 3, MaxSlots <- 3, Order <- <<"allocations", "accounts", "qi">>,
    Tasks <- {t1, t2}, Facts <- {"f"}, Restored <- "r", disk <- r1, task <- r2,
    written <- r3, instants <- r4
ASSUME Journals!BackupAssumption

----------------------------------------------------------------------------
\* Two devices, one of which draws a Quai and a Qi operation, the other a
\* Quai operation that competes for the same nonce.
DrawnBy == [id \in {"a1", "a2", "b1"} |-> IF id = "b1" THEN "b" ELSE "a"]
KindOf == [id \in {"a1", "a2", "b1"} |-> IF id = "a2" THEN "qi" ELSE "quai"]
Match == [c \in {"quai", "qi", "qichange"} |-> IF c = "quai" THEN {0} ELSE {0, 2}]
Moves == [d \in {"a", "b"} |-> IF d = "a" THEN 3 ELSE 1]
SeedOnly == {<<"seed">>}
Operations == INSTANCE FullBackup WITH
    Chains <- {"quai"}, QiChains <- {}, End <- 3, PayAccounts <- {}, XprvAccount <- 0,
    Passwords <- {"pw"}, MaxRecords <- 40, Devices <- {"a", "b"}, Ids <- {"a1", "b1"},
    Outs <- {"o1"}, PayMatch <- {0, 1}, MaxVariants <- 1, MaxMoves <- Moves,
    OriginSets <- SeedOnly, KeyHolders <- {}, store <- r1, file <- r2
ASSUME Operations!DocumentAssumption

----------------------------------------------------------------------------
\* A Qi operation, and a caller whose password may be empty.
FirstMatch == [c \in {"qi"} |-> {0}]
QiMoves == [d \in {"a", "b"} |-> IF d = "a" THEN 4 ELSE 2]
QiOperations == INSTANCE FullBackup WITH
    Chains <- {"qi"}, QiChains <- {"qi"}, End <- 3, PayAccounts <- {}, XprvAccount <- 0,
    Passwords <- {"", "pw"}, MaxRecords <- 40, Devices <- {"a", "b"}, Ids <- {"a2"},
    Outs <- {"o1"}, Match <- FirstMatch, PayMatch <- {0, 1}, MaxVariants <- 1,
    MaxMoves <- QiMoves, OriginSets <- SeedOnly, KeyHolders <- {}, store <- r1, file <- r2

----------------------------------------------------------------------------
\* Addresses of the seed, of an imported key and of a payment account.
OriginSets == {<<"seed">>, <<"seed", "imported">>, <<"paymentAccount">>}
Addresses == INSTANCE FullBackup WITH
    Chains <- {"qi"}, QiChains <- {"qi"}, End <- 3, PayAccounts <- {}, XprvAccount <- 0,
    Passwords <- {"pw"}, MaxRecords <- 40, Devices <- {"a", "b"}, Ids <- {}, Outs <- {"o1"},
    PayMatch <- {0, 1}, MaxVariants <- 1, MaxMoves <- Moves, KeyHolders <- {"a"},
    store <- r1, file <- r2

----------------------------------------------------------------------------
\* A payment channel of two devices.
Channels == INSTANCE FullBackup WITH
    Chains <- {}, QiChains <- {}, End <- 3, PayAccounts <- {0}, XprvAccount <- 0,
    Passwords <- {"pw"}, MaxRecords <- 40, Devices <- {"a", "b"}, Ids <- {}, Outs <- {"o1"},
    PayMatch <- {0, 1}, MaxVariants <- 1, MaxMoves <- Moves, KeyHolders <- {"a"},
    store <- r1, file <- r2

----------------------------------------------------------------------------
\* Documents of the first version, with every branch.
LegacyMatch == [c \in {"quai", "qi", "qichange"} |-> IF c = "qi" THEN {0, 2} ELSE {0}]
NoMoves == [d \in {"a"} |-> 0]
Legacy == INSTANCE FullBackup WITH
    Chains <- {"quai", "qi", "qichange"}, QiChains <- {"qi", "qichange"}, End <- 3,
    PayAccounts <- {}, XprvAccount <- 0, Passwords <- {"pw"}, MaxRecords <- 40,
    Devices <- {"a"}, Ids <- {"a1"}, Outs <- {"o1"}, Match <- LegacyMatch, PayMatch <- {1},
    MaxVariants <- 0, MaxMoves <- NoMoves, OriginSets <- {}, KeyHolders <- {"a"},
    store <- r1, file <- r2

----------------------------------------------------------------------------
\* Documents of the first version, with two payment accounts.
LegacyChannels == INSTANCE FullBackup WITH
    Chains <- {}, QiChains <- {}, End <- 3, PayAccounts <- {0, 1}, XprvAccount <- 0,
    Passwords <- {"pw"}, MaxRecords <- 40, Devices <- {"a"}, Ids <- {}, Outs <- {"o1"},
    Match <- LegacyMatch, PayMatch <- {1}, MaxVariants <- 0, MaxMoves <- NoMoves,
    OriginSets <- {}, KeyHolders <- {"a"}, store <- r1, file <- r2

----------------------------------------------------------------------------
\* Captures of all journals, of one kind of address, and of the custody
\* alone.
PortableMatch == [c \in {"quai", "qi"} |-> {0, 2}]
Captures ==
    {{"allocation", "payment", "account", "qi"}, {"allocation"}, {"payment"}, {"account", "qi"}}
Portable == INSTANCE PortableBackup WITH
    Chains <- {"quai", "qi"}, QiChains <- {"qi"}, End <- 3, PayAccounts <- {0},
    XprvAccount <- 0, Passwords <- {"pw"}, MaxRecords <- 40, Match <- PortableMatch,
    PayMatch <- {1}, AccountIds <- {}, QiIds <- {}, MaxLosses <- 1, allocation <- r1,
    account <- r2, qi <- r3, payment <- r4, previous <- r5, losses <- r6
ASSUME Portable!DocumentAssumption

----------------------------------------------------------------------------
\* An account and a Qi operation.
PortableCustody == INSTANCE PortableBackup WITH
    Chains <- {"quai", "qi"}, QiChains <- {"qi"}, End <- 3, PayAccounts <- {0},
    XprvAccount <- 0, Passwords <- {"pw"}, MaxRecords <- 40, Match <- PortableMatch,
    PayMatch <- {}, AccountIds <- {"a1"}, QiIds <- {"q1"}, MaxLosses <- 1, allocation <- r1,
    account <- r2, qi <- r3, payment <- r4, previous <- r5, losses <- r6

----------------------------------------------------------------------------
Init ==
    /\ machine \in Machines
    /\ \/ machine = "account books" /\ AccountBook!Init /\ Blank(1)
       \/ machine = "account family" /\ AccountFamily!Init /\ Blank(1)
       \/ machine = "accounts" /\ Accounts!Init /\ Blank(5)
       \/ machine = "account tabs" /\ AccountTabs!Init /\ Blank(5)
       \/ machine = "qi books" /\ QiBook!Init /\ Blank(1)
       \/ machine = "qi family" /\ QiFamily!Init /\ Blank(1)
       \/ machine = "qi" /\ Qi!Init /\ Blank(5)
       \/ machine = "allocations" /\ Allocation!Init /\ Blank(4)
       \/ machine = "journals" /\ Journals!Init /\ Blank(4)
       \/ machine = "operations" /\ Operations!Init /\ Blank(2)
       \/ machine = "qi operations" /\ QiOperations!Init /\ Blank(2)
       \/ machine = "addresses" /\ Addresses!Init /\ Blank(2)
       \/ machine = "channels" /\ Channels!Init /\ Blank(2)
       \/ machine = "legacy" /\ Legacy!Init /\ Blank(2)
       \/ machine = "legacy channels" /\ LegacyChannels!Init /\ Blank(2)
       \/ machine = "portable" /\ Portable!Init /\ Blank(6)
       \/ machine = "portable custody" /\ PortableCustody!Init /\ Blank(6)

Next ==
    \/ machine = "account books" /\ AccountBook!Next /\ Keep(1)
    \/ machine = "account family" /\ AccountFamily!Next /\ Keep(1)
    \/ machine = "accounts" /\ Accounts!Next /\ Keep(5)
    \/ machine = "account tabs" /\ AccountTabs!Next /\ Keep(5)
    \/ machine = "qi books" /\ QiBook!Next /\ Keep(1)
    \/ machine = "qi family" /\ QiFamily!Next /\ Keep(1)
    \/ machine = "qi" /\ Qi!Next /\ Keep(5)
    \/ machine = "allocations" /\ Allocation!Next /\ Keep(4)
    \/ machine = "journals" /\ Journals!Next /\ Keep(4)
    \/ machine = "operations" /\ Operations!Next /\ Keep(2)
    \/ machine = "qi operations" /\ QiOperations!Next /\ Keep(2)
    \/ machine = "addresses" /\ Addresses!Next /\ Keep(2)
    \/ machine = "channels" /\ Channels!Next /\ Keep(2)
    \/ machine = "legacy" /\ Legacy!LegacyNext /\ Keep(2)
    \/ machine = "legacy channels" /\ LegacyChannels!LegacyNext /\ Keep(2)
    \/ machine = "portable" /\ Portable!Next /\ Keep(6)
    \/ machine = "portable custody" /\ PortableCustody!Next /\ Keep(6)

Spec == Init /\ [][Next]_vars

----------------------------------------------------------------------------

\* No sequence of calls, merges and restores makes a journal that cannot be
\* opened again, and a merge that is accepted knows everything the backup knew:
\* signatures, replacements, claimed inputs and the nonces it had passed.
BooksReload ==
    /\ machine = "account books" => AccountBook!BooksReload
    /\ machine = "account family" => AccountFamily!BooksReload
    /\ machine = "qi family" => QiFamily!BooksReload
    /\ machine = "qi books" => QiBook!BooksReload
    /\ machine = "allocations" => Allocation!ReloadAccepts

\* No call and no merge releases what was signed, changes its root, loses a
\* replacement, frees its inputs or gives its nonce to another operation, and
\* the nonce cursor never goes back.
SignaturesKept ==
    [][/\ machine = "account books" => AccountBook!SignaturesKept
       /\ machine = "account family" => AccountFamily!SignaturesKept
       /\ machine = "qi books" => QiBook!SignedHoldsInputs
       /\ machine = "qi family" => QiFamily!SignedHoldsInputs]_vars

\* Whatever snapshots the tabs of a profile hold and whichever answers are
\* lost, a payload given to the node is held as submitted, a signature an
\* application received is in the journal, no two drafts carry one nonce, a
\* quote knows the addresses handed out, and an address is handed out once,
\* when its allocation completes.
TabsCustody ==
    /\ [](/\ machine = "accounts" => Accounts!TabsCustody
          /\ machine = "qi" => Qi!TabsCustody
          /\ machine = "allocations" => Allocation!TypeOK /\ Allocation!HandedOutOnce
          /\ machine = "account tabs" => AccountTabs!TabsCustody)
    /\ [][machine = "allocations" => Allocation!FreshWhenCompleted]_vars

\* A capture of the journals of a profile was in them at one instant, a restore
\* reaches all of them or none, and neither undoes a write of another tab.
JournalsTogether ==
    machine = "journals" => Journals!JournalsTogether

\* A backup that is captured is valid and reads back as what was captured, a
\* restore loses nothing the device knew and rescans all it watches, and a
\* document of the first version keeps every cursor and converts to a fixed
\* point.
BackupsKeep ==
    /\ [](/\ machine = "operations" => Operations!TypeOK /\ Operations!CaptureValid
          /\ machine = "addresses" => Addresses!CaptureValid /\ Addresses!SnapshotWatchesAll
          /\ machine = "channels" => Channels!CaptureValid /\ Channels!RoundTrips
          /\ machine = "qi operations" => QiOperations!RoundTrips
          /\ machine = "legacy" => Legacy!LegacyKeepsCursors
          /\ machine = "legacy channels" =>
               /\ LegacyChannels!LegacyKeepsCursors
               /\ LegacyChannels!LegacyFixpoint)
    /\ [][machine = "operations" => Operations!NothingLost]_vars

\* A profile restored from the capture of another, after one of them was lost,
\* has what both had, hands out nothing again, and what it captures is valid.
PortableGrows ==
    /\ [](/\ machine = "portable custody" => PortableCustody!PortableValid
          /\ machine = "portable" => Portable!NotHandedOutAgain)
    /\ [][machine = "portable" => Portable!InventoryGrows]_vars
=============================================================================
