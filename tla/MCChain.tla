------------------------------ MODULE MCChain -------------------------------
(***************************************************************************)
(* Small instances of what observes a chain that reorganizes: head         *)
(* tracking and replay, confirmation, deployment and replacement waits,    *)
(* settlement and family observation, Qi preparation, address, payment and *)
(* mailbox scans, and coin selection.  They share no state here, so a      *)
(* behaviour is of one of them, chosen at the start.                       *)
(***************************************************************************)
EXTENDS BlockTree, Sequences, FiniteSets, Functions

CONSTANTS
    Machines,   \* those a run composes
    None, NoBlock

VARIABLES
    machine,   \* the one this behaviour is of
    r1, r2, r3, r4, r5, r6, r7, r8, r9, r10, r11, r12, r13, r14, r15, r16,
    r17, r18, r19, r20, r21   \* its variables

vars == <<machine, r1, r2, r3, r4, r5, r6, r7, r8, r9, r10, r11, r12, r13,
          r14, r15, r16, r17, r18, r19, r20, r21>>

\* A machine of n variables has the first n registers; the others are not used.
Blank(n) ==
    /\ (IF n < 1 THEN r1 = 0 ELSE TRUE) /\ (IF n < 2 THEN r2 = 0 ELSE TRUE)
    /\ (IF n < 3 THEN r3 = 0 ELSE TRUE) /\ (IF n < 4 THEN r4 = 0 ELSE TRUE)
    /\ (IF n < 5 THEN r5 = 0 ELSE TRUE) /\ (IF n < 6 THEN r6 = 0 ELSE TRUE)
    /\ (IF n < 7 THEN r7 = 0 ELSE TRUE) /\ (IF n < 8 THEN r8 = 0 ELSE TRUE)
    /\ (IF n < 9 THEN r9 = 0 ELSE TRUE) /\ (IF n < 10 THEN r10 = 0 ELSE TRUE)
    /\ (IF n < 11 THEN r11 = 0 ELSE TRUE) /\ (IF n < 12 THEN r12 = 0 ELSE TRUE)
    /\ (IF n < 13 THEN r13 = 0 ELSE TRUE) /\ (IF n < 14 THEN r14 = 0 ELSE TRUE)
    /\ (IF n < 15 THEN r15 = 0 ELSE TRUE) /\ (IF n < 16 THEN r16 = 0 ELSE TRUE)
    /\ (IF n < 17 THEN r17 = 0 ELSE TRUE) /\ (IF n < 18 THEN r18 = 0 ELSE TRUE)
    /\ (IF n < 19 THEN r19 = 0 ELSE TRUE) /\ (IF n < 20 THEN r20 = 0 ELSE TRUE)
    /\ (IF n < 21 THEN r21 = 0 ELSE TRUE)
Keep(n) ==
    /\ UNCHANGED machine
    /\ (IF n < 1 THEN r1' = 0 ELSE TRUE) /\ (IF n < 2 THEN r2' = 0 ELSE TRUE)
    /\ (IF n < 3 THEN r3' = 0 ELSE TRUE) /\ (IF n < 4 THEN r4' = 0 ELSE TRUE)
    /\ (IF n < 5 THEN r5' = 0 ELSE TRUE) /\ (IF n < 6 THEN r6' = 0 ELSE TRUE)
    /\ (IF n < 7 THEN r7' = 0 ELSE TRUE) /\ (IF n < 8 THEN r8' = 0 ELSE TRUE)
    /\ (IF n < 9 THEN r9' = 0 ELSE TRUE) /\ (IF n < 10 THEN r10' = 0 ELSE TRUE)
    /\ (IF n < 11 THEN r11' = 0 ELSE TRUE) /\ (IF n < 12 THEN r12' = 0 ELSE TRUE)
    /\ (IF n < 13 THEN r13' = 0 ELSE TRUE) /\ (IF n < 14 THEN r14' = 0 ELSE TRUE)
    /\ (IF n < 15 THEN r15' = 0 ELSE TRUE) /\ (IF n < 16 THEN r16' = 0 ELSE TRUE)
    /\ (IF n < 17 THEN r17' = 0 ELSE TRUE) /\ (IF n < 18 THEN r18' = 0 ELSE TRUE)
    /\ (IF n < 19 THEN r19' = 0 ELSE TRUE) /\ (IF n < 20 THEN r20' = 0 ELSE TRUE)
    /\ (IF n < 21 THEN r21' = 0 ELSE TRUE)

\*  0 -- 1 -- 2 -- 3 -- 4
\*  |    |    |
\*  |    |    +-- 33 -- 34
\*  |    +-- 12 -- 13 -- 14
\*  +-- 21
Tree == 0..4 \cup 12..14 \cup {21} \cup 33..34
TreeParent == [b \in Tree |-> CASE b \in {0, 21} -> 0 [] b = 12 -> 1 [] b = 33 -> 2 [] OTHER -> b - 1]
TreeNumber == [b \in Tree |-> b % 10]
TreeBranch == [b \in Tree |-> CASE b < 10 -> 0..b [] b \in 12..14 -> 0..1 \cup 12..b
                                [] b = 21 -> {0, 21} [] b \in 33..34 -> 0..2 \cup 33..b]

\* Parts of the tree, each with every ancestor of its blocks.
Forks == 0..4 \cup 12..14 \cup 33..34
ForksParent == Restrict(Parent, Forks)
ForksNumber == Restrict(Number, Forks)
ForksBranch == Restrict(Branch, Forks)
Deep == 0..4 \cup 12..14
DeepParent == Restrict(Parent, Deep)
DeepNumber == Restrict(Number, Deep)
DeepBranch == Restrict(Branch, Deep)
Fork == 0..3 \cup 12..13
ForkParent == Restrict(Parent, Fork)
ForkNumber == Restrict(Number, Fork)
ForkBranch == Restrict(Branch, Fork)
Roots == 0..4 \cup 12..13 \cup {21}
RootsParent == Restrict(Parent, Roots)
RootsNumber == Restrict(Number, Roots)
RootsBranch == Restrict(Branch, Roots)
Low == 0..2 \cup 12..13
LowParent == Restrict(Parent, Low)
LowNumber == Restrict(Number, Low)
LowBranch == Restrict(Branch, Low)

----------------------------------------------------------------------------
\* A tracker of three anchors, before two nodes that follow three branches.
Heads == INSTANCE HeadTracker WITH
    Blocks <- Roots, Genesis <- 0, Parent <- RootsParent, Number <- RootsNumber,
    Branch <- RootsBranch, Nodes <- {"n1", "n2"}, Start <- 1, Retain <- 3, PageSize <- 2,
    MaxMoves <- 4, views <- r1, anchors <- r2, poll <- r3, applied <- r4, moves <- r5
ASSUME Heads!TreeAssumption
ASSUME Heads!TrackerAssumption

----------------------------------------------------------------------------
\* The same without transport failures: the chain settles after two moves.
CatchUp == INSTANCE HeadTracker WITH
    Blocks <- Roots, Genesis <- 0, Parent <- RootsParent, Number <- RootsNumber,
    Branch <- RootsBranch, Nodes <- {"n1", "n2"}, Start <- 1, Retain <- 3, PageSize <- 2,
    MaxMoves <- 2, views <- r1, anchors <- r2, poll <- r3, applied <- r4, moves <- r5

----------------------------------------------------------------------------
\* A transaction that two branches include at different heights; one process
\* recovers it and one replays heads.
NoHeights == [o \in {} |-> 0]
Replay == INSTANCE WalletReplay WITH
    Ids <- {"op"}, Accounts <- {"a"}, Outpoints <- {}, Change <- {}, Fees <- {1},
    Hashes <- Low, UnlockHeight <- NoHeights, ExpiresAt <- NoHeights, MaxHeight <- 3,
    MaxNonce <- 1, MaxGeneration <- 1, MaxRevision <- 1, MaxVariants <- 0, Blocks <- Low,
    Genesis <- 0, Parent <- LowParent, Number <- LowNumber, Branch <- LowBranch,
    Observers <- {"o"}, Replayers <- {"p"}, Includes <- {2, 13}, Start <- 1, Retain <- 2,
    PageSize <- 1, MaxMoves <- 2, MaxCommits <- 2, generation <- r1, checkpoint <- r2,
    coins <- r3, kind <- r4, state <- r5, transaction <- r6, inclusion <- r7,
    qiClaims <- r8, nonceClaims <- r9, nonceCursors <- r10, signedPayloads <- r11,
    variants <- r12, releasedChange <- r13, observationCache <- r14, head <- r15,
    moves <- r16, cursor <- r17, tracker <- r18, task <- r19, applied <- r20, undone <- r21
ASSUME Replay!TreeAssumption
ASSUME Replay!ConstantsAssumption
ASSUME Replay!NoneAssumption
ASSUME Replay!ReplayAssumption

----------------------------------------------------------------------------
\* Two processes that replay heads onto one cursor.
Race == INSTANCE WalletReplay WITH
    Ids <- {"op"}, Accounts <- {"a"}, Outpoints <- {}, Change <- {}, Fees <- {1},
    Hashes <- Low, UnlockHeight <- NoHeights, ExpiresAt <- NoHeights, MaxHeight <- 3,
    MaxNonce <- 1, MaxGeneration <- 1, MaxRevision <- 1, MaxVariants <- 0, Blocks <- Low,
    Genesis <- 0, Parent <- LowParent, Number <- LowNumber, Branch <- LowBranch,
    Observers <- {}, Replayers <- {"p", "q"}, Includes <- {2, 13}, Start <- 1, Retain <- 2,
    PageSize <- 1, MaxMoves <- 2, MaxCommits <- 2, generation <- r1, checkpoint <- r2,
    coins <- r3, kind <- r4, state <- r5, transaction <- r6, inclusion <- r7,
    qiClaims <- r8, nonceClaims <- r9, nonceCursors <- r10, signedPayloads <- r11,
    variants <- r12, releasedChange <- r13, observationCache <- r14, head <- r15,
    moves <- r16, cursor <- r17, tracker <- r18, task <- r19, applied <- r20, undone <- r21

----------------------------------------------------------------------------
\* A replayer and a recovery whose requests are answered.
Recovers == INSTANCE WalletReplay WITH
    Ids <- {"op"}, Accounts <- {"a"}, Outpoints <- {}, Change <- {}, Fees <- {1},
    Hashes <- Low, UnlockHeight <- NoHeights, ExpiresAt <- NoHeights, MaxHeight <- 3,
    MaxNonce <- 1, MaxGeneration <- 1, MaxRevision <- 1, MaxVariants <- 0, Blocks <- Low,
    Genesis <- 0, Parent <- LowParent, Number <- LowNumber, Branch <- LowBranch,
    Observers <- {"o"}, Replayers <- {"p"}, Includes <- {2, 13}, Start <- 1, Retain <- 2,
    PageSize <- 1, MaxMoves <- 2, MaxCommits <- 1, generation <- r1, checkpoint <- r2,
    coins <- r3, kind <- r4, state <- r5, transaction <- r6, inclusion <- r7,
    qiClaims <- r8, nonceClaims <- r9, nonceCursors <- r10, signedPayloads <- r11,
    variants <- r12, releasedChange <- r13, observationCache <- r14, head <- r15,
    moves <- r16, cursor <- r17, tracker <- r18, task <- r19, applied <- r20, undone <- r21

----------------------------------------------------------------------------
\* A chain that forks above the block that includes the transaction and below
\* it; the lower fork includes it again, one block higher.
Confirms == INSTANCE Confirmation WITH
    Blocks <- Forks, Genesis <- 0, Parent <- ForksParent, Number <- ForksNumber,
    Branch <- ForksBranch, MaxMoves <- 3, Holds <- {2, 13}, Required <- 2, MaxPolls <- 2,
    head <- r1, gone <- r2, moves <- r3, kind <- r4, runtime <- r5, pc <- r6,
    inclusion <- r7, tip <- r8, last <- r9, polls <- r10, result <- r11, at <- r12
ASSUME Confirms!TreeAssumption
ASSUME Confirms!ViewAssumption
ASSUME Confirms!WaitAssumption

----------------------------------------------------------------------------
\* The creation succeeds on one branch and fails on the other.
Deploys == INSTANCE DeploymentWait WITH
    Blocks <- Deep, Genesis <- 0, Parent <- DeepParent, Number <- DeepNumber,
    Branch <- DeepBranch, MaxMoves <- 3, Holds <- {2, 13}, Succeeded <- {2}, Required <- 2,
    MaxPolls <- 3, Batched <- TRUE, head <- r1, gone <- r2, moves <- r3, kind <- r4,
    pc <- r5, block <- r6, tip <- r7, code <- r8, failed <- r9, polls <- r10, result <- r11,
    faulted <- r12, at <- r13
ASSUME Deploys!DeployAssumption

----------------------------------------------------------------------------
\* The nonce is taken on both branches of a fork, in different blocks.
Replaces == INSTANCE ReplacementTracker WITH
    Blocks <- Deep, Genesis <- 0, Parent <- DeepParent, Number <- DeepNumber,
    Branch <- DeepBranch, MaxMoves <- 3, Occupied <- {3, 12}, StartBlock <- 1,
    PageSize <- 2, Required <- 2, head <- r1, gone <- r2, moves <- r3, from <- r4,
    preceding <- r5, pc <- r6, seen <- r7, tip <- r8, to <- r9, anchors <- r10,
    missing <- r11, candidate <- r12, receipt <- r13, left <- r14, result <- r15, at <- r16
ASSUME Replaces!TrackerAssumption

----------------------------------------------------------------------------
\* One tree for both zones: the origin is in its second block, the execution
\* at different heights of the two branches.
Settles == INSTANCE Settlement WITH
    Blocks <- Fork, Genesis <- 0, Parent <- ForkParent, Number <- ForkNumber,
    Branch <- ForkBranch, MaxMoves <- 2, SameZone <- FALSE, Origins <- {2, 12},
    Executions <- {3, 12}, Starts <- {1}, PageSize <- 2, MaxRevision <- 2, MaxRestores <- 0,
    ohead <- r1, ogone <- r2, dhead <- r3, dgone <- r4, moves <- r5, row <- r6,
    generation <- r7, obs <- r8
ASSUME Settles!TreeAssumption
ASSUME Settles!SettlementAssumption

----------------------------------------------------------------------------
\* A conversion within one zone, with a rival writer and a restore.
Converts == INSTANCE Settlement WITH
    Blocks <- Fork, Genesis <- 0, Parent <- ForkParent, Number <- ForkNumber,
    Branch <- ForkBranch, MaxMoves <- 2, SameZone <- TRUE, Origins <- {2, 12},
    Executions <- {3, 12}, Starts <- {1, 2}, PageSize <- 2, MaxRevision <- 2,
    MaxRestores <- 1, ohead <- r1, ogone <- r2, dhead <- r3, dgone <- r4, moves <- r5,
    row <- r6, generation <- r7, obs <- r8

----------------------------------------------------------------------------
\* Two candidates, each included on one of two branches.
Observes == INSTANCE FamilyObservation WITH
    Blocks <- Fork, Genesis <- 0, Parent <- ForkParent, Number <- ForkNumber,
    Branch <- ForkBranch, MaxMoves <- 3, Candidates <- <<1, 2>>, Where <- <<{2}, {13}>>,
    MaxRevision <- 4, head <- r1, gone <- r2, moves <- r3, signed <- r4, row <- r5,
    pc <- r6, hashes <- r7, expected <- r8, tip <- r9, rows <- r10, anchors <- r11,
    canonical <- r12, at <- r13
ASSUME Observes!FamilyAssumption

----------------------------------------------------------------------------
\* The coins differ by branch, one unlocks and one expires within the heights
\* of the tree.
CoinValue == [o \in {1, 2} |-> 2]
CoinUnlock == [o \in {1, 2} |-> IF o = 1 THEN 0 ELSE 3]
CoinExpires == [o \in {1, 2} |-> IF o = 1 THEN 4 ELSE 9]
CoinCreated == [o \in {1, 2} |-> IF o = 1 THEN 1 ELSE 2]
Prepares == INSTANCE QiPrepare WITH
    Blocks <- Fork, Genesis <- 0, Parent <- ForkParent, Number <- ForkNumber,
    Branch <- ForkBranch, MaxMoves <- 2, Outpoints <- {1, 2}, Value <- CoinValue,
    Unlock <- CoinUnlock, Expires <- CoinExpires, Created <- CoinCreated, Amount <- 2,
    Quotes <- {1, 2}, MaxFee <- 2, MaxRounds <- 2, MaxAge <- 1, MaxCandidates <- 3,
    MaxGeneration <- 2,
    Kinds <- {"estimated", "sweep", "explicit", "replacement", "requote"}, head <- r1,
    gone <- r2, moves <- r3, store <- r4, claims <- r5, state <- r6, sent <- r7,
    candidates <- r8, task <- r9, draft <- r10
ASSUME Prepares!PrepareAssumption

----------------------------------------------------------------------------
\* Drafts from quotes and with included outpoints.
Quoted == INSTANCE QiPrepare WITH
    Blocks <- Fork, Genesis <- 0, Parent <- ForkParent, Number <- ForkNumber,
    Branch <- ForkBranch, MaxMoves <- 2, Outpoints <- {1, 2}, Value <- CoinValue,
    Unlock <- CoinUnlock, Expires <- CoinExpires, Created <- CoinCreated, Amount <- 2,
    Quotes <- {1, 2}, MaxFee <- 1, MaxRounds <- 2, MaxAge <- 1, MaxCandidates <- 3,
    MaxGeneration <- 2, Kinds <- {"quote", "include"}, head <- r1, gone <- r2, moves <- r3,
    store <- r4, claims <- r5, state <- r6, sent <- r7, candidates <- r8, task <- r9,
    draft <- r10

----------------------------------------------------------------------------
\* Every receive branch of four indices without a refused answer, a few with
\* one, and three change branches.
Sound == {"miss", "empty", "used"}
Layouts ==
    {<<r, <<"empty", "used">>>> : r \in [1..4 -> Sound]}
    \cup {<<r, <<"miss", "bad">>>> : r \in [1..2 -> Sound]}
    \cup {<<r, <<>>>> : r \in {s \in [1..3 -> Sound \cup {"bad"}] : s[2] = "bad"}}
Request(gap, max, parallel) == [gap |-> gap, max |-> max, parallel |-> parallel]
Requests ==
    {Request(1, 9, FALSE), Request(2, 9, FALSE), Request(2, 3, TRUE), Request(None, 2, FALSE),
     Request(None, 9, TRUE)}
Scans == INSTANCE AddressScan WITH
    Hardened <- 4, Slice <- 2, Chunk <- 2, MaxWindow <- 3, MaxBlocks <- 1, kind <- r1,
    layout <- r2, request <- r3, phase <- r4, branch <- r5, unused <- r6, coverage <- r7,
    window <- r8, at <- r9, recorded <- r10, checkpoint <- r11, canonical <- r12,
    error <- r13, disclosed <- r14, cancelled <- r15, chain <- r16

----------------------------------------------------------------------------
\* The first four denominations; snapshots are sorted, as only the order of
\* coins of one denomination matters.
Values == [d \in 0..3 |-> <<1, 5, 10, 50>>[d + 1]]
Coin(d, unlock, expires, reserved) ==
    [denomination |-> d, unlock |-> unlock, expires |-> expires, reserved |-> reserved]
CoinKinds ==
    <<Coin(0, 0, None, FALSE), Coin(1, 0, None, FALSE), Coin(2, 0, None, FALSE), Coin(3, 0, None, FALSE),
      Coin(1, 6, None, FALSE), Coin(2, 5, 5, FALSE), Coin(2, 0, None, TRUE)>>
SortedKinds(kinds, n) ==
    {[i \in 1..n |-> CoinKinds[f[i]]] :
        f \in {g \in [1..n -> kinds] : \A i, j \in 1..n : i < j => g[i] <= g[j]}}
Snapshots ==
    (UNION {SortedKinds(1..7, n) : n \in 1..3}) \cup SortedKinds(1..3, 4) \cup SortedKinds(1..3, 5)
Selects == INSTANCE CoinSelection WITH
    Checked <- UNION {SortedKinds(1..4, n) : n \in 1..3}, Targets <- {1, 4, 7, 16, 23, 60},
    Fees <- {0, 1, 3, 6}, Quotes <- {0, 2, 5, 9}, MaxFee <- 6, MaxInputs <- 4,
    MaxOutputs <- 8, MaxRounds <- 2, MaxMessages <- 24, Height <- 5,
    Policies <- {<<1, 3>>, <<2, 2>>}, coins <- r1, mode <- r2, target <- r3, outputs <- r4,
    fee <- r5, round <- r6, quoted <- r7, result <- r8

----------------------------------------------------------------------------
\* Four announced codes, one of them the wallet's own, in pages of two; seven
\* indexes of which five match; one sender funded early, one late, one never.
Used == [s \in {"a", "own", "b", "c"} |->
           CASE s = "a" -> {1, 6} [] s = "b" -> {5, 6} [] s \in {"own", "c"} -> {}]
Options == {[end |-> 7, gap |-> 0, max |-> 5], [end |-> 7, gap |-> 1, max |-> 5],
            [end |-> 7, gap |-> 3, max |-> 3], [end |-> 7, gap |-> 3, max |-> 5]}
Pays == INSTANCE PaymentScan WITH
    Announced <- <<"a", "own", "b", "c">>, Owner <- "own", Zone <- {0, 1, 3, 5, 6},
    ProbeGap <- 2, MaxWindow <- 2, PageSize <- 2, MinFunded <- 1, ChannelLimit <- 1,
    MaxFaults <- 2, request <- r1, pc <- r2, at <- r3, scan <- r4, imported <- r5,
    failure <- r6, scanned <- r7, visited <- r8, channels <- r9, watched <- r10,
    snapshot <- r11, cleared <- r12, refreshed <- r13, faults <- r14

----------------------------------------------------------------------------
\* Six blocks on three branches: dense in the middle, with more entries than
\* are accepted, and with a block too large for any answer.
Logs ==
    << [i \in 1..6 |-> CASE i = 1 -> <<"a">> [] i = 3 -> <<"b", "a">>
                         [] i = 4 -> <<"junk", "junk">> [] i = 5 -> <<"junk", "bad">>
                         [] i = 6 -> <<"c", "other">> [] OTHER -> <<>>],
       [i \in 1..6 |-> CASE i = 1 -> <<"b">> [] i = 2 -> <<"b", "c">>
                         [] i = 3 -> <<"a", "junk">> [] i = 4 -> <<"b">> [] i = 6 -> <<"a">>
                         [] OTHER -> <<>>],
       [i \in 1..6 |-> CASE i = 4 -> <<"a", "b", "c">> [] OTHER -> <<"other">>] >>
Mailbox == INSTANCE MailboxLogs WITH
    Blocks <- 1..6, Codes <- {"a", "b", "c"}, MaxWidth <- 5, MaxAnswer <- 2, MaxNotes <- 5,
    Kept <- 1, MaxFaults <- 1, branch <- r1, pc <- r2, anchor <- r3, next <- r4,
    width <- r5, out <- r6, result <- r7, faults <- r8

----------------------------------------------------------------------------
Init ==
    /\ machine \in Machines
    /\ \/ machine = "heads" /\ Heads!Init /\ Blank(5)
       \/ machine = "catch up" /\ CatchUp!Init /\ Blank(5)
       \/ machine = "replay" /\ Replay!Init /\ Blank(21)
       \/ machine = "replay race" /\ Race!Init /\ Blank(21)
       \/ machine = "recovery" /\ Recovers!Init /\ Blank(21)
       \/ machine = "confirmation" /\ Confirms!Init /\ Blank(12)
       \/ machine = "deployment" /\ Deploys!Init /\ Blank(13)
       \/ machine = "replacement" /\ Replaces!Init /\ Blank(16)
       \/ machine = "settlement" /\ Settles!Init /\ Blank(8)
       \/ machine = "conversion" /\ Converts!Init /\ Blank(8)
       \/ machine = "family" /\ Observes!Init /\ Blank(13)
       \/ machine = "preparation" /\ Prepares!Init /\ Blank(10)
       \/ machine = "quotation" /\ Quoted!Init /\ Blank(10)
       \/ machine = "address scan" /\ Scans!Init /\ Blank(16)
       \/ machine = "coins" /\ Selects!Init /\ Blank(8)
       \/ machine = "payment scan" /\ Pays!Init /\ Blank(14)
       \/ machine = "mailbox" /\ Mailbox!Init /\ Blank(8)

Next ==
    \/ machine = "heads" /\ Heads!Next /\ Keep(5)
    \/ machine = "catch up" /\ CatchUp!FairNext /\ Keep(5)
    \/ machine = "replay" /\ Replay!Next /\ Keep(21)
    \/ machine = "replay race" /\ Race!Next /\ Keep(21)
    \/ machine = "recovery" /\ Recovers!FairNext /\ Keep(21)
    \/ machine = "confirmation" /\ Confirms!Next /\ Keep(12)
    \/ machine = "deployment" /\ Deploys!Next /\ Keep(13)
    \/ machine = "replacement" /\ Replaces!Next /\ Keep(16)
    \/ machine = "settlement" /\ Settles!Next /\ Keep(8)
    \/ machine = "conversion" /\ Converts!Next /\ Keep(8)
    \/ machine = "family" /\ Observes!Next /\ Keep(13)
    \/ machine = "preparation" /\ Prepares!Next /\ Keep(10)
    \/ machine = "quotation" /\ Quoted!Next /\ Keep(10)
    \/ machine = "address scan" /\ Scans!Next /\ Keep(16)
    \/ machine = "coins" /\ Selects!Next /\ Keep(8)
    \/ machine = "payment scan" /\ Pays!Next /\ Keep(14)
    \/ machine = "mailbox" /\ Mailbox!Next /\ Keep(8)

\* The fairness of each machine, as its module justifies it.
Fairness ==
    /\ WF_vars(machine = "catch up" /\ CatchUp!Request /\ Keep(5))
    /\ WF_vars(machine = "catch up" /\ CatchUp!FailStuck /\ Keep(5))
    /\ \A o \in {"o"} : WF_vars(machine = "recovery" /\ Recovers!Recovery(o) /\ Keep(21))
    /\ WF_vars(machine = "confirmation" /\ Confirms!ConfirmationPoll /\ Keep(12))
    /\ WF_vars(machine = "confirmation" /\ Confirms!TransactionConfirmationPoll /\ Keep(12))
    /\ WF_vars(machine = "confirmation" /\ Confirms!Sleep /\ Keep(12))
    /\ WF_vars(machine = "deployment" /\ Deploys!ObserveDeployment /\ Keep(13))
    /\ WF_vars(machine = "deployment" /\ Deploys!ObserveCode /\ Keep(13))
    /\ WF_vars(machine = "deployment" /\ Deploys!Sleep /\ Keep(13))
    /\ WF_vars(machine = "replacement" /\ Replaces!Step /\ Keep(16))
    /\ WF_vars(machine = "preparation" /\ Prepares!Step /\ Keep(10))
    /\ WF_vars(machine = "payment scan" /\ Pays!PageNext /\ Keep(14))
    /\ WF_vars(machine = "mailbox" /\ Mailbox!Read /\ Keep(8))

Spec == Init /\ [][Next]_vars

FairSpec == Spec /\ Fairness

----------------------------------------------------------------------------
\* No execution on the branch of a scan lies below the cursor that follows it,
\* from the start of the range that the application chose.
Unskipped == machine = "conversion" => Converts!Unskipped

\* Between any two requests of a poll the chain may reorganize, and still what
\* a tracker reports and keeps is one branch: its updates remove only blocks it
\* had applied, and what it exports it can load again.
TrackerFollows ==
    machine = "heads" =>
         /\ Heads!TypeOK /\ Heads!AppliedIsBranch /\ Heads!StateReloads
         /\ Heads!NoSpuriousRemoval

\* Whatever two processes replay into one wallet, and wherever one of them
\* ends, the updates that were committed compose into one walk over the blocks,
\* and a rollback reaches every inclusion above its ancestor.
ReplayComposes ==
    /\ machine = "replay" => Replay!ReplayTypeOK /\ Replay!RollbackReachesInclusions
    /\ machine = "replay race" => Race!CommittedUpdatesCompose

\* An observation that is cached was true of both zones at one moment, a credit
\* is at the height of a head, no page of a destination search skips a block,
\* rows that another process wrote meanwhile survive, a failure clears, and a
\* family is observed whole and below the head that was read.
ObservationsHold ==
    /\ [](/\ machine = "settlement" =>
               /\ Settles!TypeOK /\ Settles!CachedTogether
               /\ Settles!CreditAtHead /\ Settles!PagesUnskipped
          /\ machine = "conversion" => Converts!TypeOK
          /\ machine = "family" =>
               /\ Observes!TypeOK /\ Observes!ViewOfAll
               /\ Observes!IncludedBelowHead)
    /\ [][machine = "conversion" => Converts!RacedRowsSurvive /\ Converts!FailureClears]_vars

\* A gap scan that asks for batches ahead, is cut by a limit, a failure or a
\* cancellation, and is resumed later finds exactly what the sequential scan
\* finds, at one block, and remembers nothing speculative.
ScanIsSequential ==
    machine = "address scan" =>
         /\ Scans!TypeOK /\ Scans!BatchedIsSequential
         /\ Scans!NothingSpeculative /\ Scans!CursorIsResumable
         /\ Scans!SkippedExactly /\ Scans!MatchesIsOneBlock
         /\ Scans!RowsArePinned

\* A selection spends what it takes to the last unit, without combining
\* denominations beyond its inputs, with the fewest inputs, at a fee that
\* covers its quote; it fails for want of funds only when there are none, and
\* an aggregation leaves fewer coins.
SelectionExact ==
    machine = "coins" =>
         /\ Selects!TypeOK /\ Selects!Conserved /\ Selects!NoCombining
         /\ Selects!FewestInputs /\ Selects!ShortOnlyIfPoor
         /\ Selects!QuoteCovered /\ Selects!AggregationReduces
         /\ Selects!ChecksPacking



\* A search of payment channels in windows finds what the sequential one finds,
\* registers what is funded, rebuilds the snapshot and covers every page; the
\* logs of the mailbox are of one branch, and no junk in them stops the search.
PaymentsFound ==
    /\ machine = "payment scan" =>
         /\ Pays!TypeOK /\ Pays!WindowsAreSequential
         /\ Pays!RegisteredIsFunded /\ Pays!SnapshotRebuilt
         /\ Pays!PagesCover
    /\ machine = "mailbox" =>
         /\ Mailbox!TypeOK /\ Mailbox!ReturnedIsOneBranch
         /\ Mailbox!JunkNeverFails /\ Mailbox!TooLargeIsOneBlock

\* Once the chain stands still a tracker that is polled reaches its head, and a
\* wallet whose operations are reconciled comes to know of each what that chain
\* says.
RecoveryEnds ==
    /\ <>[](machine = "catch up" => CatchUp!CaughtUp)
    /\ <>[](machine = "recovery" => Recovers!RecoveredTruth)

\* On a chain that has settled the waits for a confirmation, a replacement, a
\* deployment and code end with what is there, and no preparation, page walk or
\* log loop goes on for ever.
WaitsEnd ==
    /\ (machine = "confirmation" /\ Confirms!Due) ~> (machine = "confirmation" /\ Confirms!Over)
    /\ (machine = "replacement" /\ Replaces!Due) ~> (machine = "replacement" /\ Replaces!Over)
    /\ (machine = "deployment" /\ Deploys!Due) ~> (machine = "deployment" /\ Deploys!Over)
    /\ []<>(machine = "preparation" => Prepares!Rests)
    /\ []<>(machine = "payment scan" => Pays!Ended)
    /\ []<>(machine = "mailbox" => Mailbox!Ended)
=============================================================================
