----------------------------- MODULE HeadTracker -----------------------------
(***************************************************************************)
(* Bounded head replay: quai-provider's HeadTracker (head_tracker.rs and   *)
(* head_tracker/state.rs).                                                 *)
(*                                                                         *)
(* poll compares the retained anchors with the node's chain, reads one     *)
(* page of headers above the newest anchor that is still canonical, reads  *)
(* both ends of the page again and only then moves.  Every read is a       *)
(* separate request, and the nodes behind the endpoint reorganize, lag and *)
(* answer in turn between any two of them.                                 *)
(***************************************************************************)
EXTENDS BlockTree, FiniteSets, SequencesExt

CONSTANTS
    Nodes,       \* the nodes that answer behind the endpoint
    Start,       \* the caller-trusted checkpoint
    Retain,      \* 2..=4096
    PageSize,    \* 1..=256
    MaxMoves,    \* bound: how often a node's head changes
    None

TrackerAssumption ==
    /\ Start \in Blocks /\ None \notin Blocks
    /\ Retain \in Nat /\ Retain >= 2
    /\ PageSize \in Nat /\ PageSize >= 1
    /\ MaxMoves \in Nat

VARIABLES
    views,    \* views[n]: the head of a node's canonical chain
    anchors,  \* the tracker's anchors, oldest first
    poll,     \* the poll in progress, between two requests
    applied,  \* the application: every block it has applied and not undone
    moves

vars == <<views, anchors, poll, applied, moves>>

\* common is the index under comparison while scanning and the common anchor
\* later; stable is no part of the program: the blocks that every node has held
\* canonical since the poll began.
Idle == [phase |-> "idle", tip |-> None, newest |-> None, common |-> 0,
         added |-> <<>>, stable |-> {}]

Poll == [phase : {"idle", "scan", "page", "ends", "commit"},
         tip : Blocks \cup {None}, newest : Blocks \cup {None}, common : Nat,
         added : Seq(Blocks), stable : SUBSET Blocks]

TypeOK ==
    /\ views \in [Nodes -> Blocks]
    /\ anchors \in Seq(Blocks)
    /\ poll \in Poll
    /\ applied \in Seq(Blocks)
    /\ moves \in 0..MaxMoves

Init ==
    /\ views = [n \in Nodes |-> Start]
    /\ anchors = <<Start>>
    /\ poll = Idle
    /\ applied = <<Start>>
    /\ moves = 0

----------------------------------------------------------------------------
(* The nodes.                                                              *)

\* The header a node has at a number, None above its head.
HeaderAt(node, number, block) ==
    IF number > Number[views[node]] THEN block = None
    ELSE block \in Branch[views[node]] /\ Number[block] = number

\* Extension, reorganization to any branch, also to a shorter one.
MoveHead(node, block) ==
    /\ moves < MaxMoves
    /\ block # views[node]
    /\ views' = [views EXCEPT ![node] = block]
    /\ moves' = moves + 1
    /\ poll' = [poll EXCEPT !.stable = @ \cap Branch[block]]
    /\ UNCHANGED <<anchors, applied>>

----------------------------------------------------------------------------
(* poll.                                                                   *)

Checkpoint == Last(anchors)

\* One batch: genesis, the tip and the newest anchor's number.
PollStart(tipNode, node, newest) ==
    /\ poll.phase = "idle"
    /\ HeaderAt(node, Number[Checkpoint], newest)
    /\ poll' = [phase |-> "scan", tip |-> views[tipNode], newest |-> newest,
                common |-> Len(anchors), added |-> <<>>,
                stable |-> {b \in Blocks : \A n \in Nodes : b \in Branch[views[n]]}]
    /\ UNCHANGED <<views, anchors, applied, moves>>

\* The block to hold against an anchor: the trusted genesis, the header of the
\* first batch for the newest anchor, or a request of its own.
Actual(anchor, node, block) ==
    IF Number[anchor] = 0 THEN block = Genesis
    ELSE IF anchor = Checkpoint THEN block = poll.newest
    ELSE HeaderAt(node, Number[anchor], block)

Skips(anchor) == Number[anchor] > Number[poll.tip]

\* An anchor above the sampled tip cannot match.
ScanSkip ==
    /\ poll.phase = "scan" /\ poll.common > 0
    /\ Skips(anchors[poll.common])
    /\ poll' = [poll EXCEPT !.common = @ - 1]
    /\ UNCHANGED <<views, anchors, applied, moves>>

ScanOlder(node, block) ==
    /\ poll.phase = "scan" /\ poll.common > 0
    /\ ~Skips(anchors[poll.common])
    /\ Actual(anchors[poll.common], node, block)
    /\ block \notin {None, anchors[poll.common]}
    /\ poll' = [poll EXCEPT !.common = @ - 1]
    /\ UNCHANGED <<views, anchors, applied, moves>>

Smaller(a, b) == IF a < b THEN a ELSE b

\* Mutant: the page stops short of the tip.
PageEndExclusive ==
    Smaller(Number[anchors[poll.common]] + PageSize, Number[poll.tip] - 1)

\* The last number of the page above the common anchor.
PageEnd == Smaller(Number[anchors[poll.common]] + PageSize, Number[poll.tip])

\* The common anchor is found; without a page nothing else is read.
ScanFound(node) ==
    /\ poll.phase = "scan" /\ poll.common > 0
    /\ ~Skips(anchors[poll.common])
    /\ Actual(anchors[poll.common], node, anchors[poll.common])
    /\ poll' = [poll EXCEPT !.phase =
         IF PageEnd = Number[anchors[poll.common]] THEN "commit" ELSE "page"]
    /\ UNCHANGED <<views, anchors, applied, moves>>

\* Each header is the child of the one before it, and none occurs twice.
Linked(path) == \A i \in 1..(Len(path) - 1) : path[i] = Parent[path[i + 1]]

Unseen(headers) ==
    /\ IsInjective(headers)
    /\ Range(headers) \cap {anchors[i] : i \in 1..poll.common} = {}

\* Mutant: the parent hashes of the page are not compared.
PageUnlinked(headers) ==
    /\ poll.phase = "page"
    /\ Len(headers) = PageEnd - Number[anchors[poll.common]]
    /\ \A i \in 1..Len(headers) : \E node \in Nodes :
         HeaderAt(node, Number[anchors[poll.common]] + i, headers[i])
    /\ Unseen(headers)
    /\ poll' = [poll EXCEPT !.phase = "ends", !.added = headers]
    /\ UNCHANGED <<views, anchors, applied, moves>>

\* One batch of numbered headers, of which each may be another node's.
Page(headers) ==
    /\ poll.phase = "page"
    /\ Len(headers) = PageEnd - Number[anchors[poll.common]]
    /\ \A i \in 1..Len(headers) : \E node \in Nodes :
         HeaderAt(node, Number[anchors[poll.common]] + i, headers[i])
    /\ Linked(<<anchors[poll.common]>> \o headers)
    /\ Unseen(headers)
    /\ poll' = [poll EXCEPT !.phase = "ends", !.added = headers]
    /\ UNCHANGED <<views, anchors, applied, moves>>

\* Both ends are read again after the page.
Ends ==
    /\ poll.phase = "ends"
    /\ \A end \in {anchors[poll.common], Last(poll.added)} :
         \E node \in Nodes : HeaderAt(node, Number[end], end)
    /\ poll' = [poll EXCEPT !.phase = "commit"]
    /\ UNCHANGED <<views, anchors, applied, moves>>

\* The anchors above the common one, newest first, and what is left of a path
\* when its last n blocks are undone.
Removed == Reverse(SubSeq(anchors, poll.common + 1, Len(anchors)))
Undo(path, n) == SubSeq(path, 1, Len(path) - n)

\* pop_front down to the retention bound.
Trimmed(path) ==
    IF Len(path) > Retain THEN SubSeq(path, Len(path) - Retain + 1, Len(path)) ELSE path

\* The tracker moves and the application undoes and applies, or persists both in
\* one transaction.
Commit ==
    /\ poll.phase = "commit"
    /\ anchors' = Trimmed(Undo(anchors, Len(Removed)) \o poll.added)
    /\ applied' = Undo(applied, Len(Removed)) \o poll.added
    /\ poll' = Idle
    /\ UNCHANGED <<views, moves>>

\* Every error leaves the tracker unchanged: no common anchor, a header that is
\* missing, unlinked or replaced, a transport failure, a cancelled poll, or a
\* process that restarts from its exported state.
Fail ==
    /\ poll.phase # "idle"
    /\ poll' = Idle
    /\ UNCHANGED <<views, anchors, applied, moves>>

\* What from_state accepts: at most Retain anchors, contiguous and distinct, the
\* genesis at number zero.
FromState(state) ==
    /\ Len(state) \in 1..Retain
    /\ IsInjective(state)
    /\ \A i \in 1..Len(state) : Number[state[i]] = 0 => state[i] = Genesis
    /\ \A i \in 1..(Len(state) - 1) : Number[state[i]] + 1 = Number[state[i + 1]]

Request ==
    \/ \E tipNode, node \in Nodes, newest \in Blocks \cup {None} :
         PollStart(tipNode, node, newest)
    \/ ScanSkip
    \/ \E node \in Nodes, block \in Blocks \cup {None} : ScanOlder(node, block)
    \/ \E node \in Nodes : ScanFound(node)
    \/ \E headers \in SeqOf(Blocks, PageSize) : Page(headers)
    \/ Ends
    \/ Commit

Reorganize == \E node \in Nodes, block \in Blocks : MoveHead(node, block)

Next == Reorganize \/ Request \/ Fail

Spec == Init /\ [][Next]_vars

\* Without transport failures and cancellations a poll fails only when it cannot
\* go on.  The application polls again and again, and requests are answered.
FailStuck == poll.phase # "idle" /\ ~ENABLED Request /\ Fail

FairNext == Reorganize \/ Request \/ FailStuck

FairSpec == Init /\ [][FairNext]_vars /\ WF_vars(Request) /\ WF_vars(FailStuck)

----------------------------------------------------------------------------
\* The application can always do what an update says: the anchors are the newest
\* blocks it applied, so what poll removes is the end of what it applied, and
\* what it then holds is one linked branch.
AppliedIsBranch ==
    /\ IsSuffix(anchors, applied)
    /\ Linked(applied)

\* from_state takes back every state export_state writes, so a restart resumes
\* wherever the tracker was.
StateReloads == FromState(anchors)

\* A block that every node held canonical during the whole poll is never removed,
\* however the nodes disagreed about the blocks above it.
NoSpuriousRemoval ==
    poll.phase = "commit" => poll.stable \cap Range(Removed) = {}

\* Once the nodes settle on one head, the tracker reaches it and stays there, or
\* the reorganization went below every retained anchor and poll reports that.
CaughtUp ==
    \/ \A node \in Nodes : Checkpoint = views[node]
    \/ \E node \in Nodes : Range(anchors) \cap Branch[views[node]] = {}
    \/ Cardinality(Range(views)) > 1
=============================================================================
