------------------------------- MODULE QiRefresh -------------------------------
(***************************************************************************)
(* Refreshing the stored Qi coins (`refresh_qi`, `scan_and_refresh_qi`):    *)
(* several processes share one SQLite store while the chain moves.  Each    *)
(* step below is one request to the node or one store transaction; the      *)
(* outpoints of an address are those of the node's latest block when asked. *)
(***************************************************************************)
EXTENDS Naturals, FiniteSets

CONSTANTS
    Processes,
    Addresses,
    Initial,        \* addresses the store starts with
    Scanned,        \* addresses a scan reports
    Blocks,         \* blocks of the tree
    Height,         \* height of each block
    Entropy,        \* what the node's choice of head maximises
    Ancestor,       \* Ancestor[b][h]: the block of b's chain at height h
    Utxo,           \* Utxo[b][a]: outpoints of address a after block b
    Attempts,       \* RefreshOptions::attempts
    Calls,          \* calls each process makes
    None

VARIABLES
    head,                                   \* the node's latest block
    generation, checkpoint, coins, addresses,  \* the store
    pc, attempt, seen, before, todo, found, result, calls

store == <<generation, checkpoint, coins, addresses>>
local == <<pc, attempt, seen, before, todo, found, result, calls>>
vars == <<head, store, local>>

View(b, as) == UNION {Utxo[b][a] : a \in as}
Go(p, where) == pc' = [pc EXCEPT ![p] = where]

Init ==
    /\ head \in {b \in Blocks : Height[b] = 1}
    /\ generation = 0 /\ checkpoint = None /\ coins = {} /\ addresses = Initial
    /\ pc = [p \in Processes |-> "idle"]
    /\ attempt = [p \in Processes |-> 0] /\ calls = [p \in Processes |-> 0]
    /\ seen = [p \in Processes |-> [generation |-> 0, checkpoint |-> None]]
    /\ before = [p \in Processes |-> None]
    /\ todo = [p \in Processes |-> {}] /\ found = [p \in Processes |-> {}]
    /\ result = [p \in Processes |-> None]

-----------------------------------------------------------------------------
(* Calls. *)

Call(p) ==
    /\ pc[p] = "idle" /\ calls[p] < Calls[p]
    /\ calls' = [calls EXCEPT ![p] = @ + 1]
    /\ attempt' = [attempt EXCEPT ![p] = 1] /\ result' = [result EXCEPT ![p] = None]

RefreshQi(p) ==
    /\ Call(p) /\ Go(p, "snapshot")
    /\ UNCHANGED <<head, store, seen, before, todo, found>>

\* scan_and_refresh_qi: the scan is done; its report is imported under the
\* generation read next.
ScanAndRefresh(p) ==
    /\ Call(p) /\ Go(p, "import")
    /\ seen' = [seen EXCEPT ![p] = [generation |-> generation, checkpoint |-> checkpoint]]
    /\ UNCHANGED <<head, store, before, todo, found>>

ImportMetadata(p) ==
    /\ pc[p] = "import"
    /\ IF seen[p].generation = generation
       THEN /\ generation' = generation + 1 /\ addresses' = addresses \cup Scanned
            /\ checkpoint' = None /\ coins' = {} /\ Go(p, "snapshot") /\ UNCHANGED result
       ELSE Go(p, "idle") /\ result' = [result EXCEPT ![p] = "Stale"] /\ UNCHANGED store
    /\ UNCHANGED <<head, attempt, seen, before, todo, found, calls>>

-----------------------------------------------------------------------------
(* refresh_once. *)

\* The loop of refresh_qi_with: an attempt that came to nothing is repeated.
Again(p) ==
    IF attempt[p] < Attempts
    THEN attempt' = [attempt EXCEPT ![p] = @ + 1] /\ Go(p, "snapshot") /\ UNCHANGED result
    ELSE Go(p, "idle") /\ result' = [result EXCEPT ![p] = "Stale"] /\ UNCHANGED attempt

Return(p, cp) == result' = [result EXCEPT ![p] = cp] /\ Go(p, "idle") /\ UNCHANGED attempt

ReadSnapshot(p) ==
    /\ pc[p] = "snapshot"
    /\ seen' = [seen EXCEPT ![p] = [generation |-> generation, checkpoint |-> checkpoint]]
    /\ Go(p, "headers")
    /\ UNCHANGED <<head, store, attempt, before, todo, found, result, calls>>

\* One batch: the tip and the block at the stored checkpoint's height.
CanonicalAt(h) == IF h <= Height[head] THEN Ancestor[head][h] ELSE None

ReadHeaders(p) ==
    /\ pc[p] = "headers"
    /\ before' = [before EXCEPT ![p] = head]
    /\ LET old == seen[p].checkpoint IN
       Go(p, IF old # None /\ CanonicalAt(Height[old]) # old THEN "reconcile" ELSE "addresses")
    /\ UNCHANGED <<head, store, attempt, seen, todo, found, result, calls>>

\* The stored checkpoint left the chain: clear it, unless another writer did
\* anything since the snapshot was read.
Reconcile(p) ==
    /\ pc[p] = "reconcile"
    /\ \/ /\ seen[p].generation # generation
          /\ Again(p) /\ UNCHANGED store
       \* An unchanged view may have moved its checkpoint without a new
       \* generation, or the view may be gone.
       \/ /\ seen[p].generation = generation
          /\ checkpoint # None /\ Height[checkpoint] # Height[seen[p].checkpoint]
          /\ Go(p, "idle") /\ result' = [result EXCEPT ![p] = "Invalid"] /\ UNCHANGED <<attempt, store>>
       \/ /\ seen[p].generation = generation
          /\ checkpoint # None => Height[checkpoint] = Height[seen[p].checkpoint]
          /\ IF checkpoint = None THEN UNCHANGED store
             ELSE /\ generation' = generation + 1
                  /\ checkpoint' = None /\ coins' = {} /\ UNCHANGED addresses
          /\ Go(p, "reread") /\ UNCHANGED <<attempt, result>>
    /\ UNCHANGED <<head, seen, before, todo, found, calls>>

Reread(p) ==
    /\ pc[p] = "reread"
    /\ seen' = [seen EXCEPT ![p].generation = generation]
    /\ Go(p, "addresses")
    /\ UNCHANGED <<head, store, attempt, before, todo, found, result, calls>>

ReadAddresses(p) ==
    /\ pc[p] = "addresses"
    /\ todo' = [todo EXCEPT ![p] = addresses] /\ found' = [found EXCEPT ![p] = {}]
    /\ Go(p, "outpoints")
    /\ UNCHANGED <<head, store, attempt, seen, before, result, calls>>

\* One page; a page holds one address here, any order of pages is allowed.
ReadPage(p) ==
    /\ pc[p] = "outpoints"
    /\ \E a \in todo[p] :
         /\ found' = [found EXCEPT ![p] = @ \cup Utxo[head][a]]
         /\ todo' = [todo EXCEPT ![p] = @ \ {a}]
         \* An outpoint reported twice is refused.
         /\ IF found[p] \cap Utxo[head][a] # {}
            THEN Go(p, "idle") /\ result' = [result EXCEPT ![p] = "Mismatch"]
            ELSE Go(p, IF todo[p] = {a} THEN "after" ELSE "outpoints") /\ UNCHANGED result
    /\ UNCHANGED <<head, store, attempt, seen, before, calls>>

ReadAfter(p) ==
    /\ pc[p] = "after"
    /\ IF head = before[p] THEN Go(p, "replace") /\ UNCHANGED <<attempt, result>> ELSE Again(p)
    /\ UNCHANGED <<head, store, seen, before, todo, found, calls>>

\* replace_snapshot under the generation read before the addresses.  When
\* another writer was faster its snapshot answers, if it is no older.
Rewinds(cp) ==
    checkpoint # None /\ (Height[checkpoint] > Height[cp] \/ (Height[checkpoint] = Height[cp] /\ checkpoint # cp))

\* Mutant: reads are committed under whatever generation the store has now.
RefusedRewindOnly(p) == Rewinds(before[p])

Refused(p) == seen[p].generation # generation \/ Rewinds(before[p])

StandIn(p) ==
    checkpoint # None /\ (Height[checkpoint] > Height[before[p]] \/ checkpoint = before[p])

Replace(p) ==
    /\ pc[p] = "replace"
    /\ IF Refused(p)
       THEN /\ UNCHANGED store
            /\ IF StandIn(p) THEN Return(p, checkpoint) ELSE Again(p)
       ELSE /\ IF checkpoint # None /\ coins = found[p] THEN UNCHANGED generation
               ELSE generation' = generation + 1
            /\ coins' = found[p] /\ checkpoint' = before[p] /\ UNCHANGED addresses
            /\ Return(p, before[p])
    /\ UNCHANGED <<head, seen, before, todo, found, calls>>

-----------------------------------------------------------------------------
\* The node's chain grows or moves to a heavier branch.
Advance ==
    /\ \E b \in Blocks : Entropy[b] > Entropy[head] /\ head' = b
    /\ UNCHANGED <<store, local>>

Next ==
    \/ \E p \in Processes :
         RefreshQi(p) \/ ScanAndRefresh(p) \/ ImportMetadata(p) \/ ReadSnapshot(p) \/ ReadHeaders(p)
         \/ Reconcile(p) \/ Reread(p) \/ ReadAddresses(p) \/ ReadPage(p) \/ ReadAfter(p) \/ Replace(p)
    \/ Advance

Spec == Init /\ [][Next]_vars

-----------------------------------------------------------------------------
(* Properties. *)

TypeOK ==
    /\ head \in Blocks /\ generation \in Nat /\ checkpoint \in Blocks \cup {None}
    /\ addresses \subseteq Addresses
    /\ pc \in [Processes -> {"idle", "import", "snapshot", "headers", "reconcile", "reread", "addresses",
                             "outpoints", "after", "replace"}]
    /\ attempt \in [Processes -> 0..Attempts]
    /\ result \in [Processes -> Blocks \cup {None, "Stale", "Invalid", "Mismatch"}]

\* The stored coins are always the complete view, at the stored checkpoint, of
\* every stored address: no interleaving of refreshes, imports and blocks labels
\* a partial read, or a read of another block, with a checkpoint.
SnapshotIsView == checkpoint # None => coins = View(checkpoint, addresses)

\* A refresh that succeeds leaves (or found) a snapshot no older than the tip it
\* read first, also when another writer's snapshot answers for its own.
ReturnedIsFresh ==
    \A p \in Processes :
      (result'[p] # result[p] /\ result'[p] \in Blocks)
        => (result'[p] = checkpoint' /\ (Height[result'[p]] > Height[before[p]] \/ result'[p] = before[p]))

\* The stored checkpoint goes back or sideways only through the reconciliation
\* or an import that clears it first.
NoSilentRewind ==
    (checkpoint # None /\ checkpoint' # None)
      => (checkpoint' = checkpoint \/ Height[checkpoint'] > Height[checkpoint])
=============================================================================
