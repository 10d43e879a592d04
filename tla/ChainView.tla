------------------------------ MODULE ChainView ------------------------------
(***************************************************************************)
(* One zone's canonical chain as a client sees it, one request at a time.  *)
(* The chain may grow, or change to a longer or shorter branch, between    *)
(* any two requests.  No sequence of requests can tell a block that left   *)
(* and came back from one that stayed: within one observation a block that *)
(* left does not return, and the head does not go back to an ancestor.     *)
(***************************************************************************)
EXTENDS BlockTree

CONSTANTS
    NoBlock,    \* an absent header, inclusion or receipt
    MaxMoves    \* bound: how often the chain moves

ViewAssumption == NoBlock \notin Blocks /\ MaxMoves \in Nat

VARIABLES
    head,       \* the node's canonical head
    gone,       \* blocks that left the chain during this observation
    moves

chain == <<head, gone, moves>>

ChainTypeOK == head \in Blocks /\ gone \subseteq Blocks \ Branch[head] /\ moves \in 0..MaxMoves

ChainInit(b) == head = b /\ gone = {} /\ moves = 0

\* header_at
HeaderAt(n) ==
    IF n > Number[head] THEN NoBlock ELSE CHOOSE b \in Branch[head] : Number[b] = n

IsCanonical(b) == HeaderAt(Number[b]) = b

\* The chain moves while an observation is under way.
MoveChain ==
    /\ moves < MaxMoves
    /\ \E b \in Blocks \ Branch[head] :
         /\ Branch[b] \cap gone = {}
         /\ head' = b
         /\ gone' = gone \cup (Branch[head] \ Branch[b])
    /\ moves' = moves + 1

\* A new observation begins.
Watch == gone' = {} /\ UNCHANGED <<head, moves>>

\* Where the node says a transaction that the blocks `holds` include is: its
\* index may lag behind the chain.
Inclusions(holds) ==
    LET now == holds \cap Branch[head]
    IN  now \cup (holds \cap gone) \cup (IF now = {} THEN {NoBlock} ELSE {})
=============================================================================
