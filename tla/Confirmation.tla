---------------------------- MODULE Confirmation ----------------------------
(***************************************************************************)
(* Waiting for a transaction to be confirmed: polls of five reads each     *)
(* (confirmation.rs for a receipt, transaction_confirmation.rs for a       *)
(* transaction) under the native loop (wait.rs) or the browser's           *)
(* (receipt_wait.rs), over a chain that moves between the reads.           *)
(***************************************************************************)
EXTENDS ChainView

CONSTANTS
    Holds,      \* the blocks that include the transaction
    Required,   \* config.confirmations
    MaxPolls    \* config.max_polls of the browser

WaitAssumption ==
    /\ Required \in Nat \ {0} /\ MaxPolls \in Nat \ {0} /\ Holds \subseteq Blocks \ {Genesis}
    /\ \A b \in Holds : Branch[b] \cap Holds = {b}

VARIABLES
    kind, runtime,  \* which poll, under which loop
    pc,             \* the next read
    inclusion, tip, \* the inclusion and the head this poll has read
    last, polls,    \* what a timeout reports
    result,
    at              \* history: the chain when the inclusion was found canonical

vars == <<chain, kind, runtime, pc, inclusion, tip, last, polls, result, at>>

Results == {"none", "confirmed", "timeout", "poll_limit", "provider"}

TypeOK ==
    /\ ChainTypeOK
    /\ kind \in {"receipt", "transaction"} /\ runtime \in {"native", "browser"}
    /\ pc \in {"first", "head", "block", "again", "tip", "sleep", "done"}
    /\ {inclusion, tip, last, at} \subseteq Blocks \cup {NoBlock}
    /\ polls \in 0..MaxPolls
    /\ result \in Results /\ (result = "none" <=> pc # "done")

Init ==
    /\ ChainInit(Genesis)
    /\ kind \in {"receipt", "transaction"} /\ runtime \in {"native", "browser"}
    /\ pc = "first" /\ inclusion = NoBlock /\ tip = NoBlock
    /\ last = NoBlock /\ polls = 0 /\ result = "none" /\ at = NoBlock

Move == pc # "done" /\ MoveChain /\ UNCHANGED <<kind, runtime, pc, inclusion, tip, last, polls, result, at>>

End(r) == pc' = "done" /\ result' = r

\* The browser's loop after a completed poll: `max_polls` bounds it, and only
\* now does the inclusion become the one that a timeout reports.
BrowserPending(seen) ==
    /\ polls' = polls + 1 /\ last' = seen
    /\ IF polls + 1 >= MaxPolls
       THEN End("poll_limit")
       ELSE pc' = "sleep" /\ UNCHANGED result

NativePending(seen) ==
    /\ pc' = "sleep" /\ last' = seen /\ UNCHANGED <<polls, result>>

Pending(seen) ==
    IF runtime = "browser" THEN BrowserPending(seen) ELSE NativePending(seen)

----------------------------------------------------------------------------
\* The receipt, or the transaction with its inclusion.
ReadFirst ==
    /\ pc = "first"
    /\ \E b \in Inclusions(Holds) :
         /\ inclusion' = b
         /\ IF b = NoBlock
            THEN Pending(b)
            ELSE /\ pc' = "head"
                 /\ last' = IF runtime = "native" THEN b ELSE last
                 /\ UNCHANGED <<polls, result>>
    /\ tip' = NoBlock /\ at' = NoBlock
    /\ UNCHANGED <<chain, kind, runtime>>

Depth(b) == Number[head] - Number[b] + 1

ReadHead ==
    /\ pc = "head"
    /\ tip' = head
    /\ IF Depth(inclusion) >= Required
       THEN pc' = "block" /\ UNCHANGED <<last, polls, result>>
       ELSE Pending(inclusion)
    /\ UNCHANGED <<chain, kind, runtime, inclusion, at>>

\* header_at, or the hashes of the block and the transaction's place in it.
ReadBlock ==
    /\ pc = "block"
    /\ IF IsCanonical(inclusion)
       THEN pc' = "again" /\ at' = head /\ UNCHANGED <<last, polls, result>>
       ELSE Pending(inclusion) /\ UNCHANGED at
    /\ UNCHANGED <<chain, kind, runtime, inclusion, tip>>

ReadAgain ==
    /\ pc = "again"
    /\ \E b \in Inclusions(Holds) :
         IF b = inclusion
         THEN pc' = "tip" /\ UNCHANGED <<last, polls, result>>
         ELSE Pending(inclusion)
    /\ UNCHANGED <<chain, kind, runtime, inclusion, tip, at>>


ReadTip ==
    /\ pc = "tip"
    /\ IF IsCanonical(tip)
       THEN End("confirmed") /\ UNCHANGED <<last, polls>>
       ELSE Pending(inclusion)
    /\ UNCHANGED <<chain, kind, runtime, inclusion, tip, at>>

ConfirmationPoll ==
    kind = "receipt" /\ (ReadFirst \/ ReadHead \/ ReadBlock \/ ReadAgain \/ ReadTip)

TransactionConfirmationPoll ==
    kind = "transaction" /\ (ReadFirst \/ ReadHead \/ ReadBlock \/ ReadAgain \/ ReadTip)

\* A read fails: both loops give the error to the caller.
Fail ==
    /\ pc \in {"first", "head", "block", "again", "tip"}
    /\ End("provider")
    /\ UNCHANGED <<chain, kind, runtime, inclusion, tip, last, polls, at>>

\* The interval has passed; the next poll observes the chain afresh.
Sleep ==
    /\ pc = "sleep" /\ pc' = "first" /\ Watch
    /\ UNCHANGED <<kind, runtime, inclusion, tip, last, polls, result, at>>

\* The deadline may pass at any moment, and drops the poll in progress.
Timeout ==
    /\ pc # "done" /\ End("timeout")
    /\ UNCHANGED <<chain, kind, runtime, inclusion, tip, last, polls, at>>

Next ==
    \/ Move \/ ConfirmationPoll \/ TransactionConfirmationPoll \/ Fail \/ Sleep \/ Timeout

\* Requests are answered and timers fire; neither failures nor the deadline
\* have to come.
Spec ==
    /\ Init /\ [][Next]_vars
    /\ WF_vars(ConfirmationPoll) /\ WF_vars(TransactionConfirmationPoll) /\ WF_vars(Sleep)

----------------------------------------------------------------------------
\* Although no two of the five reads see the same chain, a confirmation names
\* an inclusion and a head that were canonical at one moment, the head as far
\* above the inclusion as was asked.
ConfirmedTogether ==
    result = "confirmed" =>
        /\ inclusion \in Holds /\ {inclusion, tip} \subseteq Branch[at]
        /\ Number[tip] - Number[inclusion] + 1 >= Required

Settled == moves = MaxMoves /\ \E b \in Holds \cap Branch[head] : Number[head] - Number[b] + 1 >= Required

\* A poll that begins once the transaction is deep enough on a chain that has
\* settled is the last one (Due leads to Over): no further poll, and no poll
\* limit, ends the wait.
Due == pc = "sleep" /\ Settled
Over == result \in {"confirmed", "provider", "timeout"}
=============================================================================
