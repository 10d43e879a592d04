---------------------------- MODULE WalletReplay ----------------------------
(***************************************************************************)
(* Head replay and operation recovery over one wallet database:            *)
(* quai-sdk's recovery.rs and recovery/replay.rs with quai-wallet's        *)
(* storage/head_state.rs.                                                  *)
(*                                                                         *)
(* Several processes share the database.  Observers call                   *)
(* reconcile_operation, replayers reconcile_persisted_head_replay or       *)
(* reconcile_head_replay; every request to the node is a step, and the     *)
(* chain moves between any two of them.  A process that makes both kinds   *)
(* of call in turn is an observer and a replayer.                          *)
(***************************************************************************)
EXTENDS WalletStore, BlockTree, SequencesExt

CONSTANTS
    Observers,
    Replayers,
    Includes,    \* the blocks that include the operation's transaction
    Start,       \* the checkpoint of the caller's initial tracker
    Retain,      \* anchors a tracker keeps
    PageSize,    \* headers of one poll
    MaxMoves,    \* bound: how often the head of the chain changes
    MaxCommits   \* the largest cursor revision, i64::MAX in the code

ReplayAssumption ==
    /\ Start \in Blocks /\ Includes \subseteq Blocks
    /\ \A b \in Blocks : Cardinality(Includes \cap Branch[b]) <= 1
    /\ Hashes = Blocks
    /\ Cardinality(Ids) = 1 /\ MaxNonce >= 1
    /\ \A b \in Blocks : Number[b] \in Heights
    /\ Retain \in Nat /\ PageSize \in Nat /\ MaxMoves \in Nat /\ MaxCommits \in Nat

Processes == Observers \cup Replayers

VARIABLES
    head,     \* the head of the node's canonical chain
    moves,
    cursor,   \* head_replay: revision, and the anchors of the saved tracker
    tracker,  \* tracker[p]: the anchors a process tracks in memory
    task,     \* task[p]: the call in progress
    applied,  \* what the committed updates of the persisted cursor add up to
    undone    \* undone[id]: blocks removed since id's inclusion was first read

replayVars == <<head, moves, cursor, tracker, task, applied, undone>>
vars == <<storeVars, replayVars>>

\* A call between two of its steps; undone is no part of the program: the blocks
\* that replay removed since the call read the scope generation.
Idle == [phase |-> "idle", id |-> None, generation |-> 0, revision |-> 0,
         anchors |-> <<>>, added |-> <<>>, common |-> 0,
         block |-> None, tip |-> None, undone |-> {}]

Phases ==
    {"idle", "record", "old", "receipt", "canonical", "tip", "recheck", "settled",
     "observe", "poll", "commit", "pollMemory", "commitMemory"}

ReplayTypeOK ==
    /\ TypeOK
    /\ head \in Blocks /\ moves \in 0..MaxMoves
    /\ cursor.revision \in 0..MaxCommits /\ cursor.anchors \in Seq(Blocks)
    /\ tracker \in [Replayers -> Seq(Blocks)]
    /\ \A p \in Processes : task[p].phase \in Phases
    /\ applied \in Seq(Blocks)
    /\ undone \in [Ids -> SUBSET Blocks]

\* The one operation is a submitted account transaction with the first nonce of
\* its account; no head was ever saved.
Payment == CHOOSE tx \in QuaiTx : tx.nonce = 0

Init ==
    /\ generation = 0 /\ checkpoint = None /\ coins = {}
    /\ kind = [id \in Ids |-> "quai"]
    /\ state = [id \in Ids |-> "submitted"]
    /\ transaction = [id \in Ids |-> Payment]
    /\ inclusion = [id \in Ids |-> None]
    /\ qiClaims = [o \in Outpoints |-> None]
    /\ nonceClaims = [id \in Ids |-> [address |-> Payment.from, nonce |-> 0]]
    /\ nonceCursors = [a \in Accounts |-> IF a = Payment.from THEN 1 ELSE 0]
    /\ signedPayloads = [id \in Ids |-> Payment]
    /\ variants = [id \in Ids |-> {}]
    /\ releasedChange = {}
    /\ observationCache =
         [key \in Ids \X Slots |-> [revision |-> 0, payload |-> Tombstone]]
    /\ head = Start /\ moves = 0
    /\ cursor = [revision |-> 0, anchors |-> <<>>]
    /\ tracker = [p \in Replayers |-> <<Start>>]
    /\ task = [p \in Processes |-> Idle]
    /\ applied = <<Start>>
    /\ undone = [id \in Ids |-> {}]

----------------------------------------------------------------------------
(* The chain.                                                              *)

MoveHead(block) ==
    /\ moves < MaxMoves /\ block # head
    /\ head' = block /\ moves' = moves + 1
    /\ UNCHANGED <<storeVars, cursor, tracker, task, applied, undone>>

Canonical(block) == block \in Branch[head]

AsCheckpoint(block) == [height |-> Number[block], hash |-> block]

----------------------------------------------------------------------------
(* reconcile_operation.                                                    *)

Go(p, phase) == task' = [task EXCEPT ![p].phase = phase]

\* The call returns, with a result or an error.
Return(p) == task' = [task EXCEPT ![p] = Idle]

Chain == <<head, moves>>
Replays == <<cursor, tracker, applied>>

\* The generation is read first, before every request.
ReconcileStart(p, id) ==
    /\ task[p].phase = "idle"
    /\ task' = [task EXCEPT ![p] =
         [Idle EXCEPT !.phase = "record", !.id = id, !.generation = generation]]
    /\ UNCHANGED <<storeVars, Chain, Replays, undone>>

\* The network is identified, then the rows are read.
ReconcileRecord(p) ==
    /\ task[p].phase = "record"
    /\ LET id == task[p].id IN
         IF state[id] \notin {"signed", "submitted", "confirmed"} \/ signedPayloads[id] = None
           THEN Return(p)
           ELSE task' = [task EXCEPT
                  ![p].phase = IF inclusion[id] = None THEN "receipt" ELSE "old",
                  ![p].block = IF inclusion[id] = None THEN None ELSE inclusion[id].hash]
    /\ UNCHANGED <<storeVars, Chain, Replays, undone>>

\* invalidate_inclusion fails when the row moved on since it was read.
Invalidate(p, block) ==
    LET id == task[p].id IN
    IF block # None /\ inclusion[id] = AsCheckpoint(block)
      THEN InvalidateInclusion(id, AsCheckpoint(block))
      ELSE UNCHANGED storeVars

\* An old inclusion whose header is gone or replaced is withdrawn.
ReconcileOld(p) ==
    /\ task[p].phase = "old"
    /\ IF Canonical(task[p].block)
         THEN Go(p, "receipt") /\ UNCHANGED storeVars
         ELSE /\ Invalidate(p, task[p].block)
              /\ IF inclusion[task[p].id] = AsCheckpoint(task[p].block)
                   THEN Go(p, "receipt") ELSE Return(p)
    /\ UNCHANGED <<Chain, Replays, undone>>

ReconcileReceipt(p) ==
    /\ task[p].phase = "receipt"
    /\ \/ Includes \cap Branch[head] = {} /\ Return(p)
       \/ \E block \in Includes \cap Branch[head] :
            task' = [task EXCEPT ![p].phase = "canonical", ![p].block = block]
    /\ UNCHANGED <<storeVars, Chain, Replays, undone>>

\* clear_inclusion withdraws whatever inclusion the row has.
Clear(p) ==
    LET id == task[p].id IN
    IF inclusion[id] = None THEN UNCHANGED storeVars
    ELSE InvalidateInclusion(id, inclusion[id])

\* The receipt's block against the header at its number.
ReconcileCanonical(p) ==
    /\ task[p].phase = "canonical"
    /\ IF Canonical(task[p].block)
         THEN Go(p, "tip") /\ UNCHANGED storeVars
         ELSE Clear(p) /\ Return(p)
    /\ UNCHANGED <<Chain, Replays, undone>>

ReconcileTip(p) ==
    /\ task[p].phase = "tip"
    /\ IF Number[head] >= Number[task[p].block]
         THEN task' = [task EXCEPT ![p].phase = "recheck", ![p].tip = head]
         ELSE Return(p)
    /\ UNCHANGED <<storeVars, Chain, Replays, undone>>

ReconcileRecheck(p) ==
    /\ task[p].phase = "recheck"
    /\ IF Canonical(task[p].block)
         THEN Go(p, "settled") /\ UNCHANGED storeVars
         ELSE Clear(p) /\ Return(p)
    /\ UNCHANGED <<Chain, Replays, undone>>

\* The tip is checked; an inclusion elsewhere is withdrawn in a transaction of its
\* own before the new one is written.
ReconcileSettled(p) ==
    /\ task[p].phase = "settled"
    /\ IF Canonical(task[p].tip)
         THEN /\ Go(p, "observe")
              /\ IF inclusion[task[p].id] = AsCheckpoint(task[p].block)
                   THEN UNCHANGED storeVars ELSE Clear(p)
         ELSE Return(p) /\ UNCHANGED storeVars
    /\ UNCHANGED <<Chain, Replays, undone>>

\* observe_inclusion_scoped under the generation read at the start.  A row that
\* already holds this inclusion, or that moved on, is left alone.
ReconcileObserve(p) ==
    /\ task[p].phase = "observe"
    /\ LET id == task[p].id IN
         IF task[p].generation = generation /\ state[id] \in {"signed", "submitted"}
           THEN /\ ObserveInclusion(task[p].generation, id, transaction[id],
                                    AsCheckpoint(task[p].block))
                /\ undone' = [undone EXCEPT ![id] = task[p].undone]
           ELSE UNCHANGED <<storeVars, undone>>
    /\ Return(p)
    /\ UNCHANGED <<Chain, Replays>>

----------------------------------------------------------------------------
(* Head replay.                                                            *)

\* The header numbers of one poll, on the branch the node holds.
PageAbove(base, length) ==
    SetToSortSeq({b \in Branch[head] : Number[b] \in (Number[base] + 1)..(Number[base] + length)},
                 LAMBDA a, b : Number[a] < Number[b])

\* HeadTracker.poll, at its last request: the common anchor is canonical, the
\* page continues it on the node's branch and ends at the page bound or at a tip
\* sampled earlier.  HeadTracker.tla has every request of it.
Polled(p, common, length) ==
    /\ common \in 1..Len(task[p].anchors)
    /\ Canonical(task[p].anchors[common])
    /\ length <= PageSize
    /\ Number[task[p].anchors[common]] + length <= Number[head]
    /\ task' = [task EXCEPT
         ![p].phase = IF @ = "poll" THEN "commit" ELSE "commitMemory",
         ![p].common = common,
         ![p].added = PageAbove(task[p].anchors[common], length)]

Poll(p, common, length) ==
    /\ task[p].phase \in {"poll", "pollMemory"}
    /\ Polled(p, common, length)
    /\ UNCHANGED <<storeVars, Chain, Replays, undone>>

\* The anchors after an update, and the blocks the update removes.
Kept(path, removed) == SubSeq(path, 1, Len(path) - removed)
Trimmed(path) ==
    IF Len(path) > Retain THEN SubSeq(path, Len(path) - Retain + 1, Len(path)) ELSE path
Moved(p) == Trimmed(SubSeq(task[p].anchors, 1, task[p].common) \o task[p].added)
RemovedBlocks(p) ==
    {task[p].anchors[i] : i \in (task[p].common + 1)..Len(task[p].anchors)}
FirstRemoved(p) == Number[task[p].anchors[task[p].common + 1]]

\* The book-keeping of a rollback: what is undone for every stored inclusion and
\* for every call that is under way.
RollBack(p) ==
    /\ undone' = [id \in Ids |-> undone[id] \cup RemovedBlocks(p)]
    /\ task' = [q \in Processes |->
         IF q = p \/ task[q].phase = "idle" THEN Idle
         ELSE [task[q] EXCEPT !.undone = @ \cup RemovedBlocks(p)]]

\* reconcile_persisted_head_replay: the generation, then the saved cursor or the
\* caller's initial tracker.
PersistedStart(p) ==
    /\ task[p].phase = "idle"
    /\ task' = [task EXCEPT ![p] =
         [Idle EXCEPT !.phase = "poll", !.generation = generation,
                      !.revision = cursor.revision,
                      !.anchors = IF cursor.anchors = <<>> THEN <<Start>>
                                  ELSE cursor.anchors]]
    /\ UNCHANGED <<storeVars, Chain, Replays, undone>>

\* Mutant: the cursor's revision is not compared.
CommitHeadReplayBlindly(p) ==
    /\ task[p].generation = generation
    /\ cursor.revision < MaxCommits
    /\ cursor' = [revision |-> cursor.revision + 1, anchors |-> Moved(p)]
    /\ IF RemovedBlocks(p) = {} THEN UNCHANGED storeVars
       ELSE InvalidateReorgFrom(task[p].generation, FirstRemoved(p))

\* commit_head_replay: generation and revision still as read; cursor and rollback
\* in one transaction.
CommitHeadReplay(p) ==
    /\ task[p].generation = generation
    /\ task[p].revision = cursor.revision
    /\ cursor.revision < MaxCommits
    /\ cursor' = [revision |-> cursor.revision + 1, anchors |-> Moved(p)]
    /\ IF RemovedBlocks(p) = {} THEN UNCHANGED storeVars
       ELSE InvalidateReorgFrom(task[p].generation, FirstRemoved(p))

PersistedCommit(p) ==
    /\ task[p].phase = "commit"
    /\ CommitHeadReplay(p)
    /\ applied' = Kept(applied, Cardinality(RemovedBlocks(p))) \o task[p].added
    /\ RollBack(p)
    /\ UNCHANGED <<Chain, tracker>>

\* reconcile_head_replay: the generation is read, then a clone of the tracker
\* polls.
MemoryStart(p) ==
    /\ task[p].phase = "idle"
    /\ task' = [task EXCEPT ![p] =
         [Idle EXCEPT !.phase = "pollMemory", !.generation = generation,
                      !.anchors = tracker[p]]]
    /\ UNCHANGED <<storeVars, Chain, Replays, undone>>

\* The store first, the tracker after it.
MemoryCommit(p) ==
    /\ task[p].phase = "commitMemory"
    /\ IF RemovedBlocks(p) = {}
         THEN task[p].generation = generation /\ UNCHANGED storeVars
         ELSE InvalidateReorgFrom(task[p].generation, FirstRemoved(p))
    /\ tracker' = [tracker EXCEPT ![p] = Moved(p)]
    /\ RollBack(p)
    /\ UNCHANGED <<Chain, cursor, applied>>

\* A call fails (StaleSnapshot, a failed or refused request), is cancelled, or its
\* process restarts: between two steps nothing of it is durable.
Fail(p) ==
    /\ task[p].phase # "idle"
    /\ Return(p)
    /\ UNCHANGED <<storeVars, Chain, Replays, undone>>

\* A restarted process tracks from its caller's trusted checkpoint.
Restart(p) ==
    /\ tracker[p] # <<Start>>
    /\ tracker' = [tracker EXCEPT ![p] = <<Start>>]
    /\ Return(p)
    /\ UNCHANGED <<storeVars, Chain, cursor, applied, undone>>

----------------------------------------------------------------------------
ReconcileStep(p) ==
    \/ ReconcileRecord(p) \/ ReconcileOld(p) \/ ReconcileReceipt(p)
    \/ ReconcileCanonical(p) \/ ReconcileTip(p) \/ ReconcileRecheck(p)
    \/ ReconcileSettled(p) \/ ReconcileObserve(p)

ReplayStep(p) ==
    \/ \E common \in 1..Retain, length \in 0..PageSize : Poll(p, common, length)
    \/ PersistedStart(p) \/ PersistedCommit(p)
    \/ MemoryStart(p) \/ MemoryCommit(p)

Recovery(p) == (\E id \in Ids : ReconcileStart(p, id)) \/ ReconcileStep(p)

Next ==
    \/ \E block \in Blocks : MoveHead(block)
    \/ \E p \in Observers : Recovery(p) \/ Fail(p)
    \/ \E p \in Replayers : ReplayStep(p) \/ Fail(p) \/ Restart(p)

Spec == Init /\ [][Next]_vars

\* Every observer recovers again and again and its requests are answered; the
\* replayers do what they like and owe nothing.
FairNext ==
    \/ \E block \in Blocks : MoveHead(block)
    \/ \E p \in Observers : Recovery(p)
    \/ \E p \in Replayers : ReplayStep(p) \/ Fail(p)

FairSpec == Init /\ [][FairNext]_vars /\ \A p \in Observers : WF_vars(Recovery(p))

----------------------------------------------------------------------------
\* No stored inclusion is in a block that replay removed after the inclusion's
\* observation began: a rollback reaches every inclusion of the removed suffix,
\* and a delayed observer never reinstates one.
RollbackReachesInclusions ==
    \A id \in Ids : inclusion[id] # None => inclusion[id].hash \notin undone[id]

\* The updates that concurrent replays commit to the saved cursor add up: its
\* anchors are the newest blocks of the branch that undoing and applying every
\* committed update leaves, and that branch is linked.
CommittedUpdatesCompose ==
    /\ cursor.anchors # <<>> => IsSuffix(cursor.anchors, applied)
    /\ \A i \in 1..(Len(applied) - 1) : applied[i] = Parent[applied[i + 1]]

\* When the chain settles, recovery settles the operation with it: included where
\* the chain has it, whatever replays and older observations wrote meanwhile, and
\* not included when the chain does not have it.
RecoveredTruth ==
    \A id \in Ids :
        IF Includes \cap Branch[head] = {} THEN inclusion[id] = None
        ELSE \E block \in Includes \cap Branch[head] : inclusion[id] = AsCheckpoint(block)
=============================================================================
