------------------------- MODULE ReplacementTracker -------------------------
(***************************************************************************)
(* AccountReplacementTracker (provider account_replacement.rs): which      *)
(* transaction took the nonce of a signed one.  Pages of canonical blocks  *)
(* are scanned behind a cursor, one request at a time; the waits of        *)
(* wait.rs and account_wait.rs poll until it is confirmed.                 *)
(***************************************************************************)
EXTENDS ChainView, Sequences

CONSTANTS
    Occupied,       \* the blocks with a transaction of this sender and nonce
    StartBlock, PageSize, Required

TrackerAssumption ==
    /\ {StartBlock, PageSize, Required} \subseteq Nat \ {0}
    /\ Occupied \subseteq {b \in Blocks : Number[b] >= StartBlock}
    /\ \A b \in Occupied : Branch[b] \cap Occupied = {b}

VARIABLES
    from, preceding,    \* the tracker's cursor
    pc,
    seen,               \* the head that sized the page
    tip, to,            \* the head of the scan and the end of its page
    anchors,            \* the blocks scanned, in order
    missing,            \* a block of the page was not there
    candidate, receipt, \* the occupant found; its receipt, and an earlier answer
    left,               \* anchors still to be checked again
    result,
    at                  \* history: the chain when the page was complete

vars == <<chain, from, preceding, pc, seen, tip, to, anchors, missing, candidate, receipt, left, result, at>>
page == <<seen, tip, to, anchors, missing, candidate, receipt, left, at>>

Answers == {"none", "pending", "more", "confirmed", "changed", "invalid"}

TypeOK ==
    /\ ChainTypeOK
    /\ from \in Nat /\ preceding \in Blocks \cup {NoBlock}
    /\ pc \in {"idle", "prior", "head", "tip", "before", "scan", "receipt", "receipt2", "recheck", "retip"}
    /\ {seen, tip, candidate, receipt, at} \subseteq Blocks \cup {NoBlock}
    /\ anchors \in Seq(Blocks) /\ left \in Seq(Blocks) /\ Len(anchors) <= PageSize
    /\ missing \in BOOLEAN /\ result \in Answers

Init ==
    /\ ChainInit(Genesis)
    /\ from = StartBlock /\ preceding = NoBlock /\ pc = "idle"
    /\ seen = NoBlock /\ tip = NoBlock /\ to = 0 /\ anchors = <<>> /\ missing = FALSE
    /\ candidate = NoBlock /\ receipt = NoBlock /\ left = <<>> /\ result = "none" /\ at = NoBlock

Move == MoveChain /\ UNCHANGED <<from, preceding, pc, page, result>>

Answer(r) == pc' = "idle" /\ result' = r
Goto(p) == pc' = p /\ UNCHANGED result

----------------------------------------------------------------------------
\* poll: the genesis is of the right network, then the cursor's block.
Poll ==
    /\ pc = "idle" /\ result # "confirmed"
    /\ pc' = "prior" /\ result' = "none" /\ Watch
    /\ seen' = NoBlock /\ tip' = NoBlock /\ to' = 0 /\ anchors' = <<>> /\ missing' = FALSE
    /\ candidate' = NoBlock /\ receipt' = NoBlock /\ left' = <<>> /\ at' = NoBlock
    /\ UNCHANGED <<from, preceding>>

ReadPrior ==
    /\ pc = "prior"
    /\ IF preceding # NoBlock /\ ~IsCanonical(preceding) THEN Answer("changed") ELSE Goto("head")
    /\ UNCHANGED <<chain, from, preceding, page>>

PageEnd == IF Number[head] < from + PageSize - 1 THEN Number[head] ELSE from + PageSize - 1

ReadHead ==
    /\ pc = "head"
    /\ seen' = head
    /\ IF Number[head] < from
       THEN Answer("pending") /\ UNCHANGED to
       ELSE to' = PageEnd /\ Goto("tip")
    /\ UNCHANGED <<chain, from, preceding, tip, anchors, missing, candidate, receipt, left, at>>

----------------------------------------------------------------------------
\* observe_account_replacements
ReadTip ==
    /\ pc = "tip"
    /\ tip' = head
    /\ IF to > Number[head] THEN Answer("invalid") ELSE Goto("before")
    /\ UNCHANGED <<chain, from, preceding, seen, to, anchors, missing, candidate, receipt, left, at>>

ReadBefore ==
    /\ pc = "before"
    /\ IF preceding # NoBlock /\ preceding # Genesis /\ ~IsCanonical(preceding)
       THEN Answer("changed") ELSE Goto("scan")
    /\ UNCHANGED <<chain, from, preceding, page>>

Prior == IF anchors = <<>> THEN preceding ELSE anchors[Len(anchors)]

Linked(b) == Prior = NoBlock \/ Parent[b] = Prior

\* The receipts come next, then every anchor, the cursor's block included.
Scanned(found, blocks, gap) ==
    /\ left' = (IF preceding \in {NoBlock, Genesis} THEN <<>> ELSE <<preceding>>) \o blocks
    /\ missing' = gap /\ at' = head
    /\ Goto(IF found = NoBlock THEN "recheck" ELSE "receipt")

\* A node that still imports blocks may know a header before its body.
BlockWithTransactions(n) ==
    {HeaderAt(n)} \cup (IF moves < MaxMoves THEN {NoBlock} ELSE {})

ScanBlock ==
    /\ pc = "scan"
    /\ \E b \in BlockWithTransactions(from + Len(anchors)) :
       LET found == IF b \in Occupied THEN b ELSE candidate
       IN  IF b = NoBlock
           THEN Scanned(candidate, anchors, TRUE) /\ UNCHANGED <<anchors, candidate>>
           ELSE IF ~Linked(b)
           THEN Answer("changed") /\ UNCHANGED <<anchors, candidate, missing, left, at>>
           ELSE /\ anchors' = Append(anchors, b) /\ candidate' = found
                /\ IF Number[b] = to THEN Scanned(found, anchors', FALSE)
                   ELSE Goto("scan") /\ UNCHANGED <<missing, left, at>>
    /\ UNCHANGED <<chain, from, preceding, seen, tip, to, receipt>>

ReadReceipt ==
    /\ pc = "receipt"
    /\ receipt' \in Inclusions(Occupied) /\ Goto("receipt2")
    /\ UNCHANGED <<chain, from, preceding, seen, tip, to, anchors, missing, candidate, left, at>>

\* A receipt of another inclusion is a malformed answer.
ReadReceiptAgain ==
    /\ pc = "receipt2"
    /\ \E r \in Inclusions(Occupied) :
         IF r # receipt THEN Answer("changed")
         ELSE IF r \notin {NoBlock, candidate} THEN Answer("invalid") ELSE Goto("recheck")
    /\ UNCHANGED <<chain, from, preceding, page>>

RecheckAnchor ==
    /\ pc = "recheck"
    /\ IF left = <<>> THEN Goto("retip") /\ UNCHANGED left
       ELSE IF IsCanonical(Head(left)) THEN left' = Tail(left) /\ Goto("recheck")
       ELSE Answer("changed") /\ UNCHANGED left
    /\ UNCHANGED <<chain, from, preceding, seen, tip, to, anchors, missing, candidate, receipt, at>>

----------------------------------------------------------------------------

\* The page had no occupant: unless a block was missing, the cursor follows.
Advanced ==
    IF missing THEN Answer("pending") /\ UNCHANGED <<from, preceding>>
    ELSE /\ preceding' = anchors[Len(anchors)] /\ from' = Number[preceding'] + 1
         /\ Answer(IF from' <= Number[seen] THEN "more" ELSE "pending")

Confirmations == Number[tip] - Number[candidate] + 1

Concluded ==
    IF candidate = NoBlock THEN Advanced
    ELSE /\ Answer(IF receipt # NoBlock /\ Confirmations >= Required THEN "confirmed" ELSE "pending")
         /\ UNCHANGED <<from, preceding>>

RecheckTip ==
    /\ pc = "retip"
    /\ IF IsCanonical(tip) THEN Concluded
       ELSE Answer("changed") /\ UNCHANGED <<from, preceding>>
    /\ UNCHANGED <<chain, page>>

Step ==
    \/ Poll \/ ReadPrior \/ ReadHead \/ ReadTip \/ ReadBefore \/ ScanBlock
    \/ ReadReceipt \/ ReadReceiptAgain \/ RecheckAnchor \/ RecheckTip

Next == Move \/ Step

\* A waiting application polls again, at once or after an interval.
Spec == Init /\ [][Next]_vars /\ WF_vars(Step)

----------------------------------------------------------------------------
\* The cursor never passes a block that it has not scanned, so no occupant of
\* the nonce is below it on its own branch.
NothingSkipped ==
    preceding # NoBlock =>
        /\ from = Number[preceding] + 1
        /\ \A b \in Branch[preceding] : Number[b] >= StartBlock => b \notin Occupied

\* A confirmed occupant and the head it is counted from were canonical at one
\* moment, the head as far above it as was asked.
ConfirmedTogether ==
    result = "confirmed" =>
        /\ candidate \in Occupied /\ {candidate, tip} \subseteq Branch[at]
        /\ Number[tip] - Number[candidate] + 1 >= Required

Settled ==
    /\ moves = MaxMoves /\ (preceding = NoBlock \/ IsCanonical(preceding))
    /\ \E b \in Occupied \cap Branch[head] : Number[head] - Number[b] + 1 >= Required

\* Once the chain has settled with a deep enough occupant, polling finds it: Due
\* leads to Over.
Due == pc = "idle" /\ Settled
Over == result = "confirmed"
=============================================================================
