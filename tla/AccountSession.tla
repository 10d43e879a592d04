--------------------------- MODULE AccountSession ---------------------------
(***************************************************************************)
(* Account transactions from review to chain: quai-sdk's AccountSession    *)
(* (accounts.rs, accounts/replacements.rs, account_replacement.rs) over    *)
(* the durable store.                                                      *)
(*                                                                         *)
(* Several handles, in one process or in many, share the database.  Each   *)
(* runs one asynchronous method at a time, and everything may happen       *)
(* between two of its steps: at every await, and between two calls of the  *)
(* store, which are separate SQLite transactions.  A method may fail, be   *)
(* cancelled or die with its process at any of those points; the drafts a  *)
(* handle holds are bound to its StoreInstance and die with it.            *)
(*                                                                         *)
(* The node is external.  What was handed to it may be delayed, lost,      *)
(* evicted or mined, and the chain may reorganize; it counts as pending    *)
(* only nonces it has seen transactions for, and no other wallet signs     *)
(* with these keys.                                                        *)
(***************************************************************************)
EXTENDS WalletStore

CONSTANTS
    Handles,     \* sessions, in any number of processes
    MaxDrafts    \* bound: drafts the application holds of one handle

VARIABLES
    task,        \* task[h]: the method in progress on a handle, between two steps
    drafts,      \* drafts[h]: reviewed payloads the application holds
    signatures,  \* every signature a signer ever made, with its operation
    sent,        \* transactions handed to the node
    mined        \* transactions of the canonical chain

sessionVars == <<task, drafts, signatures, sent, mined>>
vars == <<storeVars, sessionVars>>

\* parent is None for an original payload and the replaced candidate otherwise.
Draft == [id : Ids, tx : QuaiTx, parent : QuaiTx \cup {None}]

Idle == [op |-> "idle"]

Task == {Idle} \cup
    [op : {"prepare", "commit", "mark", "send"}, draft : Draft]

SessionTypeOK ==
    /\ task \in [Handles -> Task]
    /\ drafts \in [Handles -> SUBSET Draft]
    /\ signatures \subseteq [id : Ids, tx : QuaiTx]
    /\ sent \subseteq QuaiTx
    /\ mined \subseteq QuaiTx

Init ==
    /\ StoreInit
    /\ task = [h \in Handles |-> Idle]
    /\ drafts = [h \in Handles |-> {}]
    /\ signatures = {}
    /\ sent = {}
    /\ mined = {}

\* The next step of the handle's method.
Continue(h, op, draft) ==
    task' = [task EXCEPT ![h] = [op |-> op, draft |-> draft]]

Finish(h) == task' = [task EXCEPT ![h] = Idle]

\* The method returns a draft.  Quotes and anchor checks follow the last use of
\* the store; a method that fails there is one whose draft is never used.
Return(h, draft) ==
    /\ Cardinality(drafts[h]) < MaxDrafts
    /\ drafts' = [drafts EXCEPT ![h] = @ \cup {draft}]

----------------------------------------------------------------------------
(* The node.                                                               *)

\* A node may answer pending for any prefix of nonces it has seen used.
PendingAnswer(a, pending) ==
    \A n \in 0..(pending - 1) : \E tx \in sent : tx.from = a /\ tx.nonce = n

\* The nonces of an account mined on the canonical chain are a prefix.
Mine(tx) ==
    /\ tx \in sent \ mined
    /\ \A n \in 0..MaxNonce :
         n < tx.nonce <=> \E m \in mined : m.from = tx.from /\ m.nonce = n
    /\ mined' = mined \cup {tx}
    /\ UNCHANGED <<storeVars, task, drafts, signatures, sent>>

Reorganize(tx) ==
    /\ tx \in mined
    /\ \A m \in mined : m.from = tx.from => m.nonce <= tx.nonce
    /\ mined' = mined \ {tx}
    /\ UNCHANGED <<storeVars, task, drafts, signatures, sent>>

----------------------------------------------------------------------------
(* Preparation.                                                            *)

\* prepare, prepare_conversion and reserve_deployment_nonce up to the call of
\* reserve_nonce: the pending nonce was read, quoted and verified.
PrepareStart(h, id, tx) ==
    /\ task[h] = Idle
    /\ PendingAnswer(tx.from, tx.nonce)
    /\ Continue(h, "prepare", [id |-> id, tx |-> tx, parent |-> None])
    /\ UNCHANGED <<storeVars, drafts, signatures, sent, mined>>

\* The reservation.  The nonce it returns replaces the pending one, and is
\* quoted again before the draft is handed out.
PrepareReserve(h) ==
    LET d == task[h].draft
        nonce == NextNonce(d.tx.from, d.tx.nonce)
    IN  /\ task[h].op = "prepare"
        /\ ReserveNonce(d.id, d.tx.from, d.tx.nonce)
        /\ Return(h, [d EXCEPT !.tx = [d.tx EXCEPT !.nonce = nonce]])
        /\ Finish(h)
        /\ UNCHANGED <<signatures, sent, mined>>

\* prepare_reserved and prepare_deployment: resume an unsigned nonce that the
\* node has not seen used.
PrepareReserved(h, id, tx, pending) ==
    /\ task[h] = Idle
    /\ PendingAnswer(tx.from, pending)
    /\ state[id] = "reserved"
    /\ nonceClaims[id] = [address |-> tx.from, nonce |-> tx.nonce]
    /\ pending <= tx.nonce
    /\ Return(h, [id |-> id, tx |-> tx, parent |-> None])
    /\ UNCHANGED <<storeVars, task, signatures, sent, mined>>

\* prepare_replacement: a higher price for a stored candidate whose nonce the
\* chain has not used when the node is asked.
PrepareReplacement(h, id, parent, fee) ==
    /\ task[h] = Idle
    /\ state[id] \in {"signed", "submitted"}
    /\ parent \in Candidates(id)
    /\ parent.kind = "quai"
    /\ Cardinality(Candidates(id)) <= MaxVariants
    /\ ~\E m \in mined : m.from = parent.from /\ m.nonce = parent.nonce
    /\ fee > parent.fee
    /\ Return(h, [id |-> id, tx |-> [parent EXCEPT !.fee = fee], parent |-> parent])
    /\ UNCHANGED <<storeVars, task, signatures, sent, mined>>

----------------------------------------------------------------------------
(* Signing.                                                                *)

Signature(d) == [id |-> d.id, tx |-> d.tx]

\* A remote signer may sign a draft it was shown at any time.
RemoteSign(h, d) ==
    /\ d \in drafts[h]
    /\ signatures' = signatures \cup {Signature(d)}
    /\ UNCHANGED <<storeVars, task, drafts, sent, mined>>

\* validate_prepared, then the signature; a replacement is validated by the
\* store alone.
SignStart(h, d) ==
    /\ task[h] = Idle
    /\ d \in drafts[h]
    /\ d.parent = None =>
         /\ state[d.id] = "reserved"
         /\ nonceClaims[d.id] = [address |-> d.tx.from, nonce |-> d.tx.nonce]
    /\ signatures' = signatures \cup {Signature(d)}
    /\ Continue(h, "commit", d)
    /\ UNCHANGED <<storeVars, drafts, sent, mined>>

\* commit_signed_quai or commit_quai_replacement; the caller gets the signed
\* bytes when this step has happened, or had happened before with the same bytes
\* (nothing changes then), and an error otherwise.
SignCommit(h) ==
    LET d == task[h].draft
    IN  /\ task[h].op = "commit"
        /\ IF d.parent = None THEN CommitSigned(d.id, d.tx)
                              ELSE CommitReplacement(d.id, d.parent, d.tx)
        /\ Finish(h)
        /\ UNCHANGED <<drafts, signatures, sent, mined>>

----------------------------------------------------------------------------
(* Submission.                                                             *)

\* Mutant: network I/O before the Submitted marker.
BroadcastUnmarked(h, id) ==
    /\ task[h] = Idle
    /\ state[id] \in {"signed", "submitted"}
    /\ signedPayloads[id] # None
    /\ signedPayloads[id].kind = "quai"
    /\ Continue(h, "send", [id |-> id, tx |-> signedPayloads[id], parent |-> None])
    /\ UNCHANGED <<storeVars, drafts, signatures, sent, mined>>

\* broadcast reads the state before verify_network and marks only what it saw
\* Signed; broadcast_candidate reads it afterwards.
BroadcastStart(h, id) ==
    /\ task[h] = Idle
    /\ state[id] \in {"signed", "submitted"}
    /\ signedPayloads[id] # None
    /\ signedPayloads[id].kind = "quai"
    /\ Continue(h, IF state[id] = "signed" THEN "mark" ELSE "send",
                [id |-> id, tx |-> signedPayloads[id], parent |-> None])
    /\ UNCHANGED <<storeVars, drafts, signatures, sent, mined>>

BroadcastCandidate(h, id, tx) ==
    /\ task[h] = Idle
    /\ tx \in Candidates(id)
    /\ tx.kind = "quai"
    /\ Continue(h, "mark", [id |-> id, tx |-> tx, parent |-> None])
    /\ UNCHANGED <<storeVars, drafts, signatures, sent, mined>>

\* Mutant: the state seen before the await is not checked again.
BroadcastMarkBlindly(h) ==
    LET d == task[h].draft
    IN  /\ task[h].op = "mark"
        /\ state' = [state EXCEPT ![d.id] = "submitted"]
        /\ Continue(h, "send", d)
        /\ UNCHANGED <<scopeVars, kind, transaction, inclusion, claimVars, payloadVars,
                       releasedChange, observationCache, drafts, signatures, sent, mined>>

\* Submitted is durable before any network I/O.
BroadcastMark(h) ==
    LET d == task[h].draft
    IN  /\ task[h].op = "mark"
        /\ \/ MarkSubmitted(d.id)
           \/ state[d.id] = "submitted" /\ UNCHANGED storeVars
        /\ Continue(h, "send", d)
        /\ UNCHANGED <<drafts, signatures, sent, mined>>

BroadcastSend(h) ==
    /\ task[h].op = "send"
    /\ sent' = sent \cup {task[h].draft.tx}
    /\ Finish(h)
    /\ UNCHANGED <<storeVars, drafts, signatures, mined>>

----------------------------------------------------------------------------
(* Failure, restart and the application's explicit repairs.                *)

\* An error or a cancellation: the handle survives, and so do its drafts.
Abandon(h) ==
    /\ task[h] # Idle
    /\ Finish(h)
    /\ UNCHANGED <<storeVars, drafts, signatures, sent, mined>>

\* The process dies, or reopens the store under a new instance.
Crash(h) ==
    /\ task[h] # Idle \/ drafts[h] # {}
    /\ Finish(h)
    /\ drafts' = [drafts EXCEPT ![h] = {}]
    /\ UNCHANGED <<storeVars, signatures, sent, mined>>

Release(id) == ReleaseUnsigned(id) /\ UNCHANGED sessionVars

Reopen(id) == ReopenUnsignedNonce(id) /\ UNCHANGED sessionVars

\* reconcile_operation, in one step: its races are another module's subject.
Confirm(id, block) ==
    /\ transaction[id] \in mined
    /\ ObserveInclusion(generation, id, transaction[id], block)
    /\ UNCHANGED sessionVars

Unconfirm(id) ==
    /\ transaction[id] \notin mined
    /\ InvalidateInclusion(id, inclusion[id])
    /\ UNCHANGED sessionVars

----------------------------------------------------------------------------
HandleNext(h) ==
    \/ \E id \in Ids, tx \in QuaiTx :
         \/ PrepareStart(h, id, tx)
         \/ \E pending \in 0..MaxNonce : PrepareReserved(h, id, tx, pending)
    \/ \E id \in Ids, fee \in Fees : \E parent \in Candidates(id) :
         PrepareReplacement(h, id, parent, fee)
    \/ PrepareReserve(h)
    \/ \E d \in drafts[h] : RemoteSign(h, d) \/ SignStart(h, d)
    \/ SignCommit(h)
    \/ \E id \in Ids : BroadcastStart(h, id)
    \/ \E id \in Ids : \E tx \in Candidates(id) : BroadcastCandidate(h, id, tx)
    \/ BroadcastMark(h)
    \/ BroadcastSend(h)
    \/ Abandon(h)
    \/ Crash(h)

Next ==
    \/ \E h \in Handles : HandleNext(h)
    \/ \E id \in Ids : Release(id) \/ Reopen(id) \/ Unconfirm(id)
    \/ \E id \in Ids, block \in Checkpoints : Confirm(id, block)
    \/ \E tx \in sent : Mine(tx) \/ Reorganize(tx)

Spec == Init /\ [][Next]_vars

----------------------------------------------------------------------------
\* Whatever the node was given is a stored candidate of an operation durably
\* Submitted: after any crash, recovery finds every transaction that may be on
\* the network, and no release can take its nonce.
SentIsRecoverable ==
    \A tx \in sent : \E id \in Ids :
        tx \in Candidates(id) /\ state[id] \in {"submitted", "confirmed"}

\* No nonce below the cursor is without an operation that holds it: the node's
\* pending count, however stale, never makes reserve_nonce skip a nonce, so no
\* transaction waits for one that nobody can ever sign.
NoNonceGap ==
    \A a \in Accounts : \A n \in 0..MaxNonce :
        n < nonceCursors[a] =>
            \E id \in Ids : nonceClaims[id] = [address |-> a, nonce |-> n]

\* Two operations never have competing signatures, committed or not: a remote
\* signature whose commit was refused can only ever compete with its own
\* operation, whatever is released, reopened or prepared again.
SignaturesNeverCompete ==
    \A s, t \in signatures :
        s.tx.from = t.tx.from /\ s.tx.nonce = t.tx.nonce => s.id = t.id

\* What a process that ends anywhere leaves behind.
SessionsRecover == SessionTypeOK /\ SentIsRecoverable /\ NoNonceGap /\ SignaturesNeverCompete
=============================================================================
