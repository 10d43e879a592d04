--------------------------- MODULE DeploymentWait ---------------------------
(***************************************************************************)
(* Waiting for the code of a contract: of a deployment whose signed        *)
(* transaction is known (deployment.rs) or at an address alone             *)
(* (code_wait.rs, contract_code.rs and anchored.rs; the browser's loop is  *)
(* the same).  Code is named by the block that created it.                 *)
(***************************************************************************)
EXTENDS ChainView

CONSTANTS
    Holds, Succeeded,   \* the blocks that include the creation; where it succeeds
    Required,           \* confirmations of a deployment
    MaxPolls,           \* max_polls of a code wait
    Batched             \* whether the transport sends batches

DeployAssumption ==
    /\ Succeeded \subseteq Holds /\ Holds \subseteq Blocks \ {Genesis}
    /\ Required \in Nat \ {0} /\ MaxPolls \in Nat \ {0} /\ Batched \in BOOLEAN
    /\ \A b \in Holds : Branch[b] \cap Holds = {b}

VARIABLES
    kind, pc,
    block, tip,     \* the inclusion (or the anchor of a code read) and the head
    code,           \* what the code read returned: its creation, or NoBlock if empty
    failed,         \* a call of the batch failed
    polls, result,
    faulted, at     \* history: a source failure; the chain at the first recheck

vars == <<chain, kind, pc, block, tip, code, failed, polls, result, faulted, at>>

DeploymentReads == {"receipt", "known", "header", "head", "code", "reblock", "retip"}
CodeReads == {"anchor", "read", "recheck"}

TypeOK ==
    /\ ChainTypeOK
    /\ kind \in {"deployment", "code"}
    /\ pc \in {"sleep", "done"} \cup (IF kind = "code" THEN CodeReads ELSE DeploymentReads)
    /\ {block, tip, code, at} \subseteq Blocks \cup {NoBlock}
    /\ failed \in BOOLEAN /\ faulted \in BOOLEAN /\ polls \in 0..MaxPolls
    /\ result \in {"none", "included", "found", "timeout", "poll_limit", "provider"}

Start(k) == IF k = "code" THEN "anchor" ELSE "receipt"

Init ==
    /\ ChainInit(Genesis)
    /\ kind \in {"deployment", "code"} /\ pc = Start(kind)
    /\ block = NoBlock /\ tip = NoBlock /\ code = NoBlock /\ failed = FALSE
    /\ polls = 0 /\ result = "none" /\ faulted = FALSE /\ at = NoBlock

Move ==
    /\ pc # "done" /\ MoveChain
    /\ UNCHANGED <<kind, pc, block, tip, code, failed, polls, result, faulted, at>>

End(r) == pc' = "done" /\ result' = r

Read(p) == pc = p /\ UNCHANGED <<chain, kind, faulted>>

Goto(p) == pc' = p /\ UNCHANGED result

CodeAt(b) ==
    IF Succeeded \cap Branch[b] = {} THEN NoBlock
    ELSE CHOOSE c \in Succeeded \cap Branch[b] : TRUE

----------------------------------------------------------------------------
\* observe_deployment.  An absent or noncanonical receipt and a changed
\* observation all leave the wait pending.
ReadReceipt ==
    /\ Read("receipt")
    /\ \E b \in Inclusions(Holds) :
         block' = b /\ Goto(IF b = NoBlock THEN "known" ELSE "header")
    /\ tip' = NoBlock /\ code' = NoBlock /\ at' = NoBlock /\ UNCHANGED <<failed, polls>>

\* Whether the transaction is known does not matter to the wait.
ReadKnown ==
    /\ Read("known") /\ Goto("sleep")
    /\ UNCHANGED <<block, tip, code, failed, polls, at>>

ReadHeader ==
    /\ Read("header") /\ Goto(IF IsCanonical(block) THEN "head" ELSE "sleep")
    /\ UNCHANGED <<block, tip, code, failed, polls, at>>

ReadHead ==
    /\ Read("head")
    /\ tip' = head
    /\ Goto(IF Number[head] < Number[block] THEN "sleep"
            ELSE IF block \in Succeeded THEN "code" ELSE "reblock")
    /\ UNCHANGED <<block, code, failed, polls, at>>

\* Code by number, of whatever block has that number now; the node refuses a
\* number above its head.
ReadCode ==
    /\ Read("code")
    /\ IF HeaderAt(Number[block]) = NoBlock
       THEN End("provider") /\ UNCHANGED code
       ELSE code' = CodeAt(HeaderAt(Number[block])) /\ Goto("reblock")
    /\ UNCHANGED <<block, tip, failed, polls, at>>

RereadBlock ==
    /\ Read("reblock")
    /\ Goto(IF IsCanonical(block) THEN "retip" ELSE "sleep") /\ at' = head
    /\ UNCHANGED <<block, tip, code, failed, polls>>

Confirmations(b, h) == Number[h] - Number[b] + 1

RereadTip ==
    /\ Read("retip")
    /\ IF IsCanonical(tip) /\ Confirmations(block, tip) >= Required
       THEN End("included") ELSE Goto("sleep")
    /\ UNCHANGED <<block, tip, code, failed, polls, at>>

ObserveDeployment ==
    \/ ReadReceipt \/ ReadKnown \/ ReadHeader \/ ReadHead
    \/ ReadCode \/ RereadBlock \/ RereadTip

----------------------------------------------------------------------------
\* wait_for_contract_code: a pending observation was completed.

Pending ==
    /\ polls' = polls + 1
    /\ IF polls + 1 >= MaxPolls THEN End("poll_limit") ELSE Goto("sleep")

\* anchor: the latest header.
Anchor ==
    /\ Read("anchor")
    /\ block' = head /\ code' = NoBlock /\ failed' = FALSE /\ Goto("read")
    /\ UNCHANGED <<tip, polls, at>>

\* The code by hash, which the node refuses for a block that is not canonical.
\* Without batches the refusal is returned at once.
ReadAtAnchor ==
    /\ Read("read")
    /\ IF IsCanonical(block)
       THEN code' = CodeAt(block) /\ Goto("recheck") /\ UNCHANGED failed
       ELSE /\ IF Batched THEN failed' = TRUE /\ Goto("recheck")
                          ELSE End("provider") /\ UNCHANGED failed
            /\ UNCHANGED code
    /\ UNCHANGED <<block, tip, polls, at>>

Recheck ==
    /\ Read("recheck")
    /\ IF ~IsCanonical(block) THEN Pending
       ELSE IF failed THEN End("provider") /\ UNCHANGED polls
       ELSE IF code = NoBlock THEN Pending
       ELSE End("found") /\ polls' = polls + 1
    /\ UNCHANGED <<block, tip, code, failed, at>>

ObserveCode == Anchor \/ ReadAtAnchor \/ Recheck

----------------------------------------------------------------------------
Fault ==
    /\ pc \notin {"sleep", "done"}
    /\ faulted' = TRUE /\ End("provider")
    /\ UNCHANGED <<chain, kind, block, tip, code, failed, polls, at>>

Sleep ==
    /\ pc = "sleep" /\ Goto(Start(kind)) /\ Watch
    /\ UNCHANGED <<kind, block, tip, code, failed, polls, faulted, at>>

Timeout ==
    /\ pc # "done" /\ End("timeout")
    /\ UNCHANGED <<chain, kind, block, tip, code, failed, polls, faulted, at>>

Next == Move \/ ObserveDeployment \/ ObserveCode \/ Fault \/ Sleep \/ Timeout

Spec ==
    /\ Init /\ [][Next]_vars
    /\ WF_vars(ObserveDeployment) /\ WF_vars(ObserveCode) /\ WF_vars(Sleep)

----------------------------------------------------------------------------
\* A deployment is reported with the code that its own inclusion created, and
\* with an inclusion and a head of one chain, as deep as was asked.
DeploymentTogether ==
    result = "included" =>
        /\ code = IF block \in Succeeded THEN block ELSE NoBlock
        /\ {block, tip} \subseteq Branch[at]
        /\ Number[tip] - Number[block] + 1 >= Required

\* A reorganization leaves a code wait pending: only a failure of the source
\* ends it with an error (anchored.rs: a failed recheck outranks a failed call).
ReorgIsPending == kind = "code" /\ result = "provider" => faulted

Settled ==
    /\ moves = MaxMoves
    /\ IF kind = "code" THEN CodeAt(head) # NoBlock
       ELSE \E b \in Holds \cap Branch[head] : Number[head] - Number[b] + 1 >= Required

\* On a chain that has settled the next observation ends the wait: Due leads to
\* Over.
Due == pc = "sleep" /\ Settled
Over == result \in {"included", "found", "provider", "timeout"}
=============================================================================
