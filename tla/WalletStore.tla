---------------------------- MODULE WalletStore ----------------------------
(***************************************************************************)
(* The durable custody store of one network scope: quai-wallet's           *)
(* SqliteStore (storage.rs and storage/{replacements,replay,released,      *)
(* observations}.rs).                                                      *)
(*                                                                         *)
(* Every mutator of the store runs in one Immediate SQLite transaction, so *)
(* each is one atomic action here, and any number of processes and handles *)
(* may call them in any order.  An error rolls the transaction back: a     *)
(* call that fails is no step at all.  A step of this module is therefore  *)
(* a call that succeeds and changes the database.                          *)
(*                                                                         *)
(* A transaction hash is a collision-free name of the signed bytes, so a   *)
(* hash and the transaction it names are the same value here.  The byte    *)
(* string itself is reduced to what custody depends on: the nonce or the   *)
(* inputs it spends, its fee, and the Qi change addresses its bytes        *)
(* contain.                                                                *)
(***************************************************************************)
EXTENDS Naturals, FiniteSets

CONSTANTS
    Ids,            \* caller-chosen ReservationIds
    Accounts,       \* stored Quai addresses of the scope
    Outpoints,      \* Qi outpoints
    Change,         \* stored Qi change addresses, named by child index
    Fees,           \* fee levels of a signed transaction
    Hashes,         \* block hashes
    UnlockHeight,   \* UnlockHeight[o]: first height at which o may be spent
    ExpiresAt,      \* ExpiresAt[o]: first height at which o may not, or None
    MaxHeight,      \* heights considered
    MaxNonce,       \* the largest nonce, u64::MAX in the code
    MaxGeneration,  \* the largest scope generation, i64::MAX in the code
    MaxRevision,    \* the largest cache revision, i64::MAX in the code
    MaxVariants,    \* replacement edges per operation, 32 in the code
    None            \* SQL NULL, Option::None

Heights == 0..MaxHeight

Checkpoints == [height : Heights, hash : Hashes]

\* The change addresses a payload pays to (an image, so that TLC builds the set
\* once instead of enumerating it in every worker).
Outputs == {addresses : addresses \in SUBSET Change}

QuaiTx ==
    [kind : {"quai"}, from : Accounts, nonce : 0..MaxNonce,
     outputs : Outputs, fee : Fees]

QiTx ==
    [kind : {"qi"}, inputs : (SUBSET Outpoints) \ {{}},
     outputs : Outputs, fee : Fees]

Tx == QuaiTx \cup QiTx

NonceClaim == [address : Accounts, nonce : 0..MaxNonce]

\* Slot 65535 of the root candidate holds the family summary; every other slot
\* (an external output index) is cached the same way, and one stands for all.
Slots == {"family", "external"}

\* A cache row; revision 0 is a row never written.  A payload is the set of
\* candidates the observation is about, and Tombstone is SQL NULL.
CacheRow == [revision : 0..MaxRevision, payload : SUBSET Tx]

Tombstone == {}

ASSUME ConstantsAssumption ==
    /\ MaxHeight \in Nat /\ MaxNonce \in Nat /\ MaxGeneration \in Nat
    /\ MaxRevision \in Nat /\ MaxVariants \in Nat
    /\ Fees \subseteq Nat /\ Change \subseteq Nat
    /\ UnlockHeight \in [Outpoints -> Nat]
    /\ ExpiresAt \in [Outpoints -> Nat \cup {None}]

ASSUME NoneAssumption ==
    /\ None \notin Ids
    /\ None \notin Tx
    /\ None \notin NonceClaim
    /\ None \notin Checkpoints

VARIABLES
    generation,      \* scopes.generation
    checkpoint,      \* scopes.(block_hash, height)
    coins,           \* coins: the observed UTXO set
    kind,            \* reservations.kind
    state,           \* reservations.state
    transaction,     \* reservations.transaction_hash
    inclusion,       \* reservations.(block_hash, block_height)
    qiClaims,        \* qi_claims: the operation that holds each outpoint
    nonceClaims,     \* nonce_claims: the account nonce each operation holds
    nonceCursors,    \* nonce_cursors.next_nonce
    signedPayloads,  \* signed_payloads: the root signed bytes
    variants,        \* quai_replacements: the edges of the family
    releasedChange,  \* released_change
    observationCache \* observation_cache

scopeVars == <<generation, checkpoint, coins>>
rowVars == <<kind, state, transaction, inclusion>>
claimVars == <<qiClaims, nonceClaims, nonceCursors>>
payloadVars == <<signedPayloads, variants>>
storeVars ==
    <<scopeVars, rowVars, claimVars, payloadVars, releasedChange, observationCache>>

States == {"absent", "reserved", "signed", "submitted", "confirmed", "released"}

\* Database rows only ever hold values of their column's type.
TypeOK ==
    /\ generation \in 0..MaxGeneration
    /\ checkpoint \in Checkpoints \cup {None}
    /\ coins \subseteq Outpoints
    /\ kind \in [Ids -> {"qi", "quai", "none"}]
    /\ state \in [Ids -> States]
    /\ transaction \in [Ids -> Tx \cup {None}]
    /\ inclusion \in [Ids -> Checkpoints \cup {None}]
    /\ qiClaims \in [Outpoints -> Ids \cup {None}]
    /\ nonceClaims \in [Ids -> NonceClaim \cup {None}]
    /\ nonceCursors \in [Accounts -> 0..MaxNonce]
    /\ signedPayloads \in [Ids -> Tx \cup {None}]
    /\ variants \in [Ids -> SUBSET [parent : Tx, payload : Tx]]
    /\ releasedChange \subseteq Change
    /\ observationCache \in [Ids \X Slots -> CacheRow]

StoreInit ==
    /\ generation = 0
    /\ checkpoint = None
    /\ coins = {}
    /\ kind = [id \in Ids |-> "none"]
    /\ state = [id \in Ids |-> "absent"]
    /\ transaction = [id \in Ids |-> None]
    /\ inclusion = [id \in Ids |-> None]
    /\ qiClaims = [o \in Outpoints |-> None]
    /\ nonceClaims = [id \in Ids |-> None]
    /\ nonceCursors = [a \in Accounts |-> 0]
    /\ signedPayloads = [id \in Ids |-> None]
    /\ variants = [id \in Ids |-> {}]
    /\ releasedChange = {}
    /\ observationCache =
         [key \in Ids \X Slots |-> [revision |-> 0, payload |-> Tombstone]]

----------------------------------------------------------------------------
(* The scope row: generation, checkpoint and the coin snapshot.            *)

\* Mutant: the addition is not checked for overflow.
NextGenerationUnchecked(expected) ==
    /\ expected = generation
    /\ generation' = generation + 1

\* next_generation: compare, then add one or overflow.
NextGeneration(expected) ==
    /\ expected = generation
    /\ generation < MaxGeneration
    /\ generation' = generation + 1

\* clear_snapshot: no coins and no checkpoint under the new generation.
ClearSnapshot ==
    /\ coins' = {}
    /\ checkpoint' = None

InvalidateSnapshot(expected) ==
    /\ NextGeneration(expected)
    /\ ClearSnapshot
    /\ UNCHANGED <<rowVars, claimVars, payloadVars, releasedChange, observationCache>>

\* canonical is the node's block at the stored checkpoint's height, None when
\* it has none.  Unscanned and Matches change nothing.
ReconcileCheckpoint(expected, canonical) ==
    /\ checkpoint # None
    /\ canonical # None => canonical.height = checkpoint.height
    /\ canonical # checkpoint
    /\ InvalidateSnapshot(expected)

\* A new checkpoint may not go back, nor sideways at the same height.
NoRewind(cp) ==
    checkpoint # None =>
        /\ checkpoint.height <= cp.height
        /\ checkpoint.height = cp.height => checkpoint.hash = cp.hash

CommitDiscovery(expected, cp, found) ==
    /\ NextGeneration(expected)
    /\ NoRewind(cp)
    /\ coins' = found
    /\ checkpoint' = cp
    /\ UNCHANGED <<rowVars, claimVars, payloadVars, releasedChange, observationCache>>

\* Mutant: any view over an existing checkpoint keeps the generation.
ReplaceSnapshotUnfenced(expected, cp, found) ==
    /\ expected = generation
    /\ NoRewind(cp)
    /\ generation' = IF checkpoint # None THEN generation ELSE generation + 1
    /\ coins' = found
    /\ checkpoint' = cp
    /\ UNCHANGED <<rowVars, claimVars, payloadVars, releasedChange, observationCache>>

\* An unchanged complete view keeps its generation and moves its checkpoint.
ReplaceSnapshot(expected, cp, found) ==
    /\ expected = generation
    /\ generation < MaxGeneration
    /\ NoRewind(cp)
    /\ generation' = IF checkpoint # None /\ coins = found
                       THEN generation ELSE generation + 1
    /\ coins' = found
    /\ checkpoint' = cp
    /\ UNCHANGED <<rowVars, claimVars, payloadVars, releasedChange, observationCache>>

----------------------------------------------------------------------------
(* Reservations and the claims they hold.                                  *)

\* insert_reservation: an id is consumed for ever, released or not.
InsertReservation(id, k) ==
    /\ state[id] = "absent"
    /\ state' = [state EXCEPT ![id] = "reserved"]
    /\ kind' = [kind EXCEPT ![id] = k]
    /\ UNCHANGED <<transaction, inclusion>>

\* A coin may be spent at a height from its unlock up to its expiry.
Spendable(o, height) ==
    /\ UnlockHeight[o] <= height
    /\ ExpiresAt[o] # None => height < ExpiresAt[o]

ReserveQi(id, expected, height, outpoints) ==
    /\ outpoints # {}
    /\ expected = generation
    /\ checkpoint # None /\ checkpoint.height <= height
    /\ InsertReservation(id, "qi")
    /\ \A o \in outpoints :
         /\ o \in coins
         /\ Spendable(o, height)
         /\ qiClaims[o] = None
    /\ qiClaims' = [o \in Outpoints |-> IF o \in outpoints THEN id ELSE qiClaims[o]]
    /\ UNCHANGED <<scopeVars, nonceClaims, nonceCursors, payloadVars,
                   releasedChange, observationCache>>

\* Mutant: the node's answer is trusted without the durable cursor.
NextNonceRemote(a, remotePending) == remotePending

\* The larger of what the node reports pending and the durable cursor.
NextNonce(a, remotePending) ==
    IF remotePending > nonceCursors[a] THEN remotePending ELSE nonceCursors[a]

\* The PRIMARY KEY of nonce_claims is no guard here: NonceClaimsExclusive shows
\* that the cursor alone keeps it from ever rejecting an insert.
ReserveNonce(id, a, remotePending) ==
    LET nonce == NextNonce(a, remotePending) IN
    /\ nonce < MaxNonce
    /\ InsertReservation(id, "quai")
    /\ nonceClaims' = [nonceClaims EXCEPT ![id] = [address |-> a, nonce |-> nonce]]
    /\ nonceCursors' = [nonceCursors EXCEPT ![a] = nonce + 1]
    /\ UNCHANGED <<scopeVars, qiClaims, payloadVars, releasedChange, observationCache>>

ClaimsOf(id) == {o \in Outpoints : qiClaims[o] = id}

\* Mutant: a signed operation may be released too.
ReleaseAnything(id) ==
    /\ state[id] \in {"reserved", "signed"}
    /\ qiClaims' = [o \in Outpoints |-> IF qiClaims[o] = id THEN None ELSE qiClaims[o]]
    /\ state' = [state EXCEPT ![id] = "released"]
    /\ UNCHANGED <<scopeVars, kind, transaction, inclusion, nonceClaims, nonceCursors,
                   payloadVars, releasedChange, observationCache>>

\* Only an unsigned operation gives its inputs back; a nonce stays claimed.
ReleaseUnsigned(id) ==
    /\ state[id] = "reserved"
    /\ transaction[id] = None
    /\ qiClaims' = [o \in Outpoints |-> IF qiClaims[o] = id THEN None ELSE qiClaims[o]]
    /\ state' = [state EXCEPT ![id] = "released"]
    /\ UNCHANGED <<scopeVars, kind, transaction, inclusion, nonceClaims, nonceCursors,
                   payloadVars, releasedChange, observationCache>>

ReopenUnsignedNonce(id) ==
    /\ state[id] = "released"
    /\ transaction[id] = None
    /\ nonceClaims[id] # None
    /\ state' = [state EXCEPT ![id] = "reserved"]
    /\ UNCHANGED <<scopeVars, kind, transaction, inclusion, claimVars,
                   payloadVars, releasedChange, observationCache>>

----------------------------------------------------------------------------
(* Signed bytes and their replacements.                                    *)

\* validate_quai_claim and validate_qi_claim.
ClaimMatches(id, tx) ==
    \/ /\ tx.kind = "quai"
       /\ nonceClaims[id] = [address |-> tx.from, nonce |-> tx.nonce]
    \/ /\ tx.kind = "qi"
       /\ tx.inputs = ClaimsOf(id)

\* Mutant: a signature leaves its change addresses in the pool.
BurnNothing(tx) == UNCHANGED releasedChange

\* burn_signed: what a signature mentions is never handed out again.
BurnSigned(tx) == releasedChange' = releasedChange \ tx.outputs

\* commit_signed_quai and commit_signed_qi_operation, through commit_payload.
\* Committing the stored bytes again is a success that changes nothing.
CommitSigned(id, tx) ==
    /\ ClaimMatches(id, tx)
    /\ kind[id] = tx.kind
    /\ transaction[id] \in {None, tx}
    /\ state[id] \notin {"absent", "released"}
    /\ signedPayloads[id] = None
    /\ signedPayloads' = [signedPayloads EXCEPT ![id] = tx]
    /\ BurnSigned(tx)
    /\ IF state[id] = "reserved"
         THEN /\ state' = [state EXCEPT ![id] = "signed"]
              /\ transaction' = [transaction EXCEPT ![id] = tx]
         ELSE UNCHANGED <<state, transaction>>
    /\ UNCHANGED <<scopeVars, kind, inclusion, claimVars, variants, observationCache>>

\* mark_signed records a hash without its bytes.
MarkSigned(id, tx) ==
    /\ state[id] = "reserved"
    /\ transaction[id] = None
    /\ state' = [state EXCEPT ![id] = "signed"]
    /\ transaction' = [transaction EXCEPT ![id] = tx]
    /\ UNCHANGED <<scopeVars, kind, inclusion, claimVars, payloadVars,
                   releasedChange, observationCache>>

MarkSubmitted(id) ==
    /\ state[id] = "signed"
    /\ state' = [state EXCEPT ![id] = "submitted"]
    /\ UNCHANGED <<scopeVars, kind, transaction, inclusion, claimVars, payloadVars,
                   releasedChange, observationCache>>

\* The root signed bytes and every replacement of an operation.
Candidates(id) ==
    IF signedPayloads[id] = None THEN {}
    ELSE {signedPayloads[id]} \cup {edge.payload : edge \in variants[id]}

\* validate_family and validate_qi_family, for one new edge: same sender, nonce
\* and fields at a higher gas price; or same inputs and data at a lower output
\* value, which is a higher fee.
Replaces(new, old) ==
    /\ new.fee > old.fee
    /\ \/ new.kind = "quai" /\ old.kind = "quai"
          /\ new.from = old.from /\ new.nonce = old.nonce /\ new.outputs = old.outputs
       \/ new.kind = "qi" /\ old.kind = "qi" /\ new.inputs = old.inputs

\* Mutant: the revision moves and the stale summary stays.
BumpRevision(row) == [row EXCEPT !.revision = @ + 1]

BumpRow(row) == [revision |-> row.revision + 1, payload |-> Tombstone]

CommitReplacement(id, parent, tx) ==
    /\ state[id] \in {"signed", "submitted"}
    /\ parent \in Candidates(id)
    /\ tx \notin Candidates(id)
    /\ Replaces(tx, parent)
    /\ Cardinality(variants[id]) < MaxVariants
    /\ observationCache[<<id, "family">>].revision < MaxRevision
    /\ variants' = [variants EXCEPT ![id] = @ \cup {[parent |-> parent, payload |-> tx]}]
    /\ BurnSigned(tx)
    /\ observationCache' =
         IF observationCache[<<id, "family">>].revision = 0 THEN observationCache
         ELSE [observationCache EXCEPT ![<<id, "family">>] = BumpRow(@)]
    /\ UNCHANGED <<scopeVars, rowVars, claimVars, signedPayloads>>

----------------------------------------------------------------------------
(* Released Qi change addresses.                                           *)

\* An address in any stored signed payload or replacement is refused.
ReleaseChange(addresses) ==
    /\ \A id \in Ids : \A tx \in Candidates(id) : tx.outputs \cap addresses = {}
    /\ releasedChange' = releasedChange \cup addresses
    /\ UNCHANGED <<scopeVars, rowVars, claimVars, payloadVars, observationCache>>

\* Lowest child indexes first, removed under the writer lock.
TakeReleasedChange(taken) ==
    /\ taken \subseteq releasedChange
    /\ \A a \in taken, b \in releasedChange \ taken : a < b
    /\ releasedChange' = releasedChange \ taken
    /\ UNCHANGED <<scopeVars, rowVars, claimVars, payloadVars, observationCache>>

----------------------------------------------------------------------------
(* Inclusions and cached observations.                                     *)

ObserveInclusion(expected, id, tx, block) ==
    /\ expected = generation
    /\ state[id] \in {"signed", "submitted"}
    /\ transaction[id] = tx
    /\ state' = [state EXCEPT ![id] = "confirmed"]
    /\ inclusion' = [inclusion EXCEPT ![id] = block]
    /\ UNCHANGED <<scopeVars, kind, transaction, claimVars, payloadVars,
                   releasedChange, observationCache>>

\* Mutant: the block columns are not cleared.
InvalidateStateOnly(id, block) ==
    /\ state[id] = "confirmed"
    /\ inclusion[id] = block
    /\ state' = [state EXCEPT ![id] = "submitted"]
    /\ UNCHANGED <<scopeVars, kind, transaction, inclusion, claimVars, payloadVars,
                   releasedChange, observationCache>>

InvalidateInclusion(id, block) ==
    /\ state[id] = "confirmed"
    /\ inclusion[id] = block
    /\ state' = [state EXCEPT ![id] = "submitted"]
    /\ inclusion' = [inclusion EXCEPT ![id] = None]
    /\ UNCHANGED <<scopeVars, kind, transaction, claimVars, payloadVars,
                   releasedChange, observationCache>>

\* The inclusions a reorganization from height first takes away.
Removed(id, first) == state[id] = "confirmed" /\ inclusion[id].height >= first

InvalidateReorgFrom(expected, first) ==
    /\ first > 0
    /\ NextGeneration(expected)
    /\ \A key \in Ids \X Slots : observationCache[key].revision < MaxRevision
    /\ state' = [id \in Ids |-> IF Removed(id, first) THEN "submitted" ELSE state[id]]
    /\ inclusion' = [id \in Ids |-> IF Removed(id, first) THEN None ELSE inclusion[id]]
    /\ observationCache' =
         [key \in Ids \X Slots |->
             IF observationCache[key].revision = 0 THEN observationCache[key]
             ELSE BumpRow(observationCache[key])]
    /\ ClearSnapshot
    /\ UNCHANGED <<kind, transaction, claimVars, payloadVars, releasedChange>>

\* write_observation: the row moves only from the revision the writer read.
WriteObservation(id, slot, revision, payload) ==
    /\ observationCache[<<id, slot>>].revision = revision
    /\ revision < MaxRevision
    /\ observationCache' =
         [observationCache EXCEPT ![<<id, slot>>] =
             [revision |-> revision + 1, payload |-> payload]]

CompareExchangeObservation(expected, id, tx, revision, payload) ==
    /\ expected = generation
    /\ tx \in Candidates(id)
    /\ payload \in {Tombstone, {tx}}
    /\ WriteObservation(id, "external", revision, payload)
    /\ UNCHANGED <<scopeVars, rowVars, claimVars, payloadVars, releasedChange>>

\* The summary names the candidates its writer observed; they must still be all.
CompareExchangeFamily(expected, id, candidates, revision, payload) ==
    /\ expected = generation
    /\ candidates # {} /\ candidates = Candidates(id)
    /\ payload \in {Tombstone, candidates}
    /\ WriteObservation(id, "family", revision, payload)
    /\ UNCHANGED <<scopeVars, rowVars, claimVars, payloadVars, releasedChange>>

----------------------------------------------------------------------------
(* Every caller of the store, with every argument.                         *)

ScopeNext ==
    \E expected \in 0..MaxGeneration :
        \/ InvalidateSnapshot(expected)
        \/ \E canonical \in Checkpoints \cup {None} :
             ReconcileCheckpoint(expected, canonical)
        \/ \E cp \in Checkpoints, found \in SUBSET Outpoints :
             \/ CommitDiscovery(expected, cp, found)
             \/ ReplaceSnapshot(expected, cp, found)
        \/ \E first \in Heights : InvalidateReorgFrom(expected, first)

ReservationNext ==
    \E id \in Ids :
        \/ \E expected \in 0..MaxGeneration, height \in Heights,
              outpoints \in SUBSET Outpoints :
             ReserveQi(id, expected, height, outpoints)
        \/ \E a \in Accounts, remotePending \in 0..MaxNonce :
             ReserveNonce(id, a, remotePending)
        \/ ReleaseUnsigned(id)
        \/ ReopenUnsignedNonce(id)

PayloadNext ==
    \E id \in Ids :
        \/ MarkSubmitted(id)
        \/ \E tx \in Tx :
             \/ CommitSigned(id, tx)
             \/ MarkSigned(id, tx)
             \/ \E parent \in Candidates(id) : CommitReplacement(id, parent, tx)

ChangeNext ==
    \E addresses \in SUBSET Change :
        ReleaseChange(addresses) \/ TakeReleasedChange(addresses)

ObservationNext ==
    \E id \in Ids :
        \/ \E expected \in 0..MaxGeneration, tx \in Tx, block \in Checkpoints :
             ObserveInclusion(expected, id, tx, block)
        \/ \E block \in Checkpoints : InvalidateInclusion(id, block)
        \/ \E expected \in 0..MaxGeneration, revision \in 0..MaxRevision :
             \/ \E tx \in Candidates(id) : \E payload \in {Tombstone, {tx}} :
                  CompareExchangeObservation(expected, id, tx, revision, payload)
             \/ \E payload \in {Tombstone, Candidates(id)} :
                  CompareExchangeFamily(expected, id, Candidates(id), revision, payload)

StoreNext ==
    ScopeNext \/ ReservationNext \/ PayloadNext \/ ChangeNext \/ ObservationNext

StoreSpec == StoreInit /\ [][StoreNext]_storeVars

----------------------------------------------------------------------------
(* What the store promises.                                                *)

\* No account nonce is ever held by two operations, and every held nonce is
\* below the account's cursor, so reserve_nonce never hits the PRIMARY KEY of
\* nonce_claims and never hands out a nonce again, released or not.
NonceClaimsExclusive ==
    /\ \A id, other \in Ids :
         nonceClaims[id] # None /\ nonceClaims[id] = nonceClaims[other] => id = other
    /\ \A id \in Ids :
         nonceClaims[id] # None =>
             nonceClaims[id].nonce < nonceCursors[nonceClaims[id].address]

\* What reservation_read, signed_payload_read and validate_family check of the
\* rows of one operation before they return them.
RowReadable(id) ==
    /\ (state[id] \in {"absent", "reserved", "released"}) <=> (transaction[id] = None)
    /\ (state[id] = "confirmed") <=> (inclusion[id] # None)
    /\ signedPayloads[id] # None => transaction[id] = signedPayloads[id]
    /\ signedPayloads[id] = None => variants[id] = {}
    /\ \A tx \in Candidates(id) : kind[id] = tx.kind /\ ClaimMatches(id, tx)
    /\ \A edge \in variants[id] :
         edge.parent \in Candidates(id) /\ Replaces(edge.payload, edge.parent)

\* Every row the store ever wrote passes its own revalidation: one that did not
\* would make the operation unreadable, and its signed bytes unrecoverable, for
\* ever.
RowsReadable == \A id \in Ids : RowReadable(id)

\* Signed bytes of two operations never compete: no candidate of one, original
\* or replacement, spends an account nonce or a Qi outpoint that a candidate of
\* the other spends.
NoConflictingSignatures ==
    \A id, other \in Ids :
        id # other =>
        \A tx \in Candidates(id), rival \in Candidates(other) :
            /\ tx.kind = "quai" /\ rival.kind = "quai" =>
                 ~(tx.from = rival.from /\ tx.nonce = rival.nonce)
            /\ tx.kind = "qi" /\ rival.kind = "qi" =>
                 tx.inputs \cap rival.inputs = {}

\* A released change address occurs in no stored signed payload or replacement:
\* take_released_change never hands out an address the chain may have seen.
ReleasedChangeUnsigned ==
    \A id \in Ids : \A tx \in Candidates(id) : tx.outputs \cap releasedChange = {}

\* A cached family summary is about exactly the candidates the family has now;
\* an append tombstones the summary that leaves the new candidate out.
FamilyViewComplete ==
    \A id \in Ids :
        LET row == observationCache[<<id, "family">>] IN
        row.payload # Tombstone => row.payload = Candidates(id)

\* A step within one generation.
CoinsFenced ==
    generation' = generation =>
        /\ coins' = coins
        /\ checkpoint # None =>
             checkpoint' # None /\ checkpoint.height <= checkpoint'.height

\* A caller that finds the generation it read finds the coin set it read:
\* reserve_qi may trust a plan made from an earlier snapshot.  Within one
\* generation the checkpoint only moves forward.
GenerationFencesCoins == [][CoinsFenced]_storeVars

\* A step of an operation that was ever signed.
CustodyKept(id) ==
    state[id] \in {"signed", "submitted", "confirmed"} =>
        /\ state'[id] \in {"signed", "submitted", "confirmed"}
        /\ state[id] # "signed" => state'[id] # "signed"
        /\ transaction'[id] = transaction[id]
        /\ Candidates(id) \subseteq Candidates(id)'
        /\ ClaimsOf(id)' = ClaimsOf(id)
        /\ nonceClaims'[id] = nonceClaims[id]

\* Once an operation is signed, nothing releases it: its bytes, its candidates
\* and the nonce and outpoints they spend stay as they are, whatever is
\* invalidated, reopened or released later.
SignedIsForever == [][\A id \in Ids : CustodyKept(id)]_storeVars
=============================================================================
