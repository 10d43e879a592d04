------------------------- MODULE WalletStoreProofs -------------------------
(***************************************************************************)
(* Proofs, for every set of operations, accounts, outpoints and change     *)
(* addresses and every bound, of what WalletStore promises, and of what    *)
(* any number of account sessions over it promise.                         *)
(***************************************************************************)
EXTENDS AccountSession, TLAPS

\* A cache row that was never written holds no payload.
UnwrittenIsEmpty ==
    \A key \in Ids \X Slots :
        observationCache[key].revision = 0 => observationCache[key].payload = Tombstone

----------------------------------------------------------------------------
(* Type correctness.                                                       *)

\* The empty database is well typed.
LEMMA InitType == StoreInit => TypeOK
BY ConstantsAssumption DEF StoreInit, TypeOK, States, CacheRow, Tombstone, Slots

\* Discovery, snapshots and rollbacks keep every column's type.
LEMMA ScopeType == TypeOK /\ ScopeNext => TypeOK'
<1> SUFFICES ASSUME TypeOK, ScopeNext PROVE TypeOK'
  BY Zenon
<1> USE ConstantsAssumption DEF TypeOK, scopeVars, rowVars, claimVars, payloadVars
<1>1. PICK expected \in 0..MaxGeneration :
        \/ InvalidateSnapshot(expected)
        \/ \E canonical \in Checkpoints \cup {None} :
             ReconcileCheckpoint(expected, canonical)
        \/ \E cp \in Checkpoints, found \in SUBSET Outpoints :
             \/ CommitDiscovery(expected, cp, found)
             \/ ReplaceSnapshot(expected, cp, found)
        \/ \E first \in Heights : InvalidateReorgFrom(expected, first)
  BY Zenon DEF ScopeNext
<1>2. CASE InvalidateSnapshot(expected)
  BY <1>2 DEF InvalidateSnapshot, NextGeneration, ClearSnapshot
<1>3. CASE \E canonical \in Checkpoints \cup {None} :
             ReconcileCheckpoint(expected, canonical)
  BY <1>3 DEF ReconcileCheckpoint, InvalidateSnapshot, NextGeneration, ClearSnapshot
<1>4. ASSUME NEW cp \in Checkpoints, NEW found \in SUBSET Outpoints,
             CommitDiscovery(expected, cp, found)
      PROVE  TypeOK'
  BY <1>4 DEF CommitDiscovery, NextGeneration
<1>5. ASSUME NEW cp \in Checkpoints, NEW found \in SUBSET Outpoints,
             ReplaceSnapshot(expected, cp, found)
      PROVE  TypeOK'
  BY <1>5 DEF ReplaceSnapshot
<1>6. ASSUME NEW first \in Heights, InvalidateReorgFrom(expected, first)
      PROVE  TypeOK'
  <2> USE <1>6 DEF InvalidateReorgFrom, NextGeneration, ClearSnapshot
  <2>1. observationCache' \in [Ids \X Slots -> CacheRow]
    BY DEF BumpRow, CacheRow, Tombstone
  <2>2. state' \in [Ids -> States] /\ inclusion' \in [Ids -> Checkpoints \cup {None}]
    BY Zenon DEF States
  <2> QED
    BY <2>1, <2>2
<1> QED
  BY Zenon, <1>1, <1>2, <1>3, <1>4, <1>5, <1>6

\* Reserving, releasing and reopening keep every column's type.
LEMMA ReservationType == TypeOK /\ ReservationNext => TypeOK'
<1> SUFFICES ASSUME TypeOK, NEW id \in Ids,
               \/ \E expected \in 0..MaxGeneration, height \in Heights,
                     outpoints \in SUBSET Outpoints :
                    ReserveQi(id, expected, height, outpoints)
               \/ \E a \in Accounts, remotePending \in 0..MaxNonce :
                    ReserveNonce(id, a, remotePending)
               \/ ReleaseUnsigned(id)
               \/ ReopenUnsignedNonce(id)
             PROVE TypeOK'
  BY Zenon DEF ReservationNext
<1> USE ConstantsAssumption DEF TypeOK, States, scopeVars, rowVars, claimVars, payloadVars
<1>1. CASE \E expected \in 0..MaxGeneration, height \in Heights,
              outpoints \in SUBSET Outpoints :
             ReserveQi(id, expected, height, outpoints)
  BY <1>1 DEF ReserveQi, InsertReservation
<1>2. ASSUME NEW a \in Accounts, NEW remotePending \in 0..MaxNonce,
             ReserveNonce(id, a, remotePending)
      PROVE  TypeOK'
  <2> DEFINE nonce == NextNonce(a, remotePending)
  <2>1. nonce \in 0..MaxNonce /\ nonce < MaxNonce
    BY Zenon, <1>2 DEF ReserveNonce, NextNonce
  <2>2. [address |-> a, nonce |-> nonce] \in NonceClaim
    BY Zenon, <2>1 DEF NonceClaim
  <2> HIDE DEF nonce
  <2>3. nonceClaims' \in [Ids -> NonceClaim \cup {None}]
    BY Zenon, <1>2, <2>2 DEF ReserveNonce, nonce
  <2>4. nonceCursors' \in [Accounts -> 0..MaxNonce]
    BY <1>2, <2>1 DEF ReserveNonce, nonce
  <2> QED
    BY Zenon, <1>2, <2>3, <2>4 DEF ReserveNonce, InsertReservation
<1>3. CASE ReleaseUnsigned(id)
  BY Zenon, <1>3 DEF ReleaseUnsigned
<1>4. CASE ReopenUnsignedNonce(id)
  BY Zenon, <1>4 DEF ReopenUnsignedNonce
<1> QED
  BY Zenon, <1>1, <1>2, <1>3, <1>4

\* Signing, submitting and replacing keep every column's type.
LEMMA PayloadType == TypeOK /\ PayloadNext => TypeOK'
<1> SUFFICES ASSUME TypeOK, NEW id \in Ids,
               \/ MarkSubmitted(id)
               \/ \E tx \in Tx :
                    \/ CommitSigned(id, tx)
                    \/ MarkSigned(id, tx)
                    \/ \E parent \in Candidates(id) : CommitReplacement(id, parent, tx)
             PROVE TypeOK'
  BY Zenon DEF PayloadNext
<1> USE ConstantsAssumption DEF TypeOK, States, scopeVars, rowVars, claimVars, payloadVars
<1>1. CASE MarkSubmitted(id)
  BY Zenon, <1>1 DEF MarkSubmitted
<1>2. ASSUME NEW tx \in Tx, CommitSigned(id, tx) PROVE TypeOK'
  BY ZenonT(40), <1>2 DEF CommitSigned, BurnSigned
<1>3. ASSUME NEW tx \in Tx, MarkSigned(id, tx) PROVE TypeOK'
  BY Zenon, <1>3 DEF MarkSigned
<1>4. ASSUME NEW tx \in Tx, NEW parent \in Candidates(id),
             CommitReplacement(id, parent, tx)
      PROVE  TypeOK'
  <2> USE <1>4
  <2>1. parent \in Tx
    BY DEF Candidates
  <2>2. variants' \in [Ids -> SUBSET [parent : Tx, payload : Tx]]
    BY <2>1 DEF CommitReplacement
  <2>3. observationCache' \in [Ids \X Slots -> CacheRow]
    BY DEF CommitReplacement, BumpRow, CacheRow, Tombstone, Slots
  <2> QED
    BY Zenon, <2>2, <2>3 DEF CommitReplacement, BurnSigned
<1> QED
  BY Zenon, <1>1, <1>2, <1>3, <1>4

\* Releasing and taking change addresses keep every column's type.
LEMMA ChangeType == TypeOK /\ ChangeNext => TypeOK'
BY Zenon DEF TypeOK, ChangeNext, ReleaseChange, TakeReleasedChange,
       scopeVars, rowVars, claimVars, payloadVars

\* Inclusions and cached observations keep every column's type.
LEMMA ObservationType == TypeOK /\ ObservationNext => TypeOK'
<1> SUFFICES ASSUME TypeOK, NEW id \in Ids,
               \/ \E expected \in 0..MaxGeneration, tx \in Tx, block \in Checkpoints :
                    ObserveInclusion(expected, id, tx, block)
               \/ \E block \in Checkpoints : InvalidateInclusion(id, block)
               \/ \E expected \in 0..MaxGeneration, revision \in 0..MaxRevision :
                    \/ \E tx \in Candidates(id) : \E payload \in {Tombstone, {tx}} :
                         CompareExchangeObservation(expected, id, tx, revision, payload)
                    \/ \E payload \in {Tombstone, Candidates(id)} :
                         CompareExchangeFamily(expected, id, Candidates(id), revision, payload)
             PROVE TypeOK'
  BY Zenon DEF ObservationNext
<1> USE ConstantsAssumption DEF TypeOK, States, scopeVars, rowVars, claimVars, payloadVars
<1>1. CASE \E expected \in 0..MaxGeneration, tx \in Tx, block \in Checkpoints :
             ObserveInclusion(expected, id, tx, block)
  BY <1>1 DEF ObserveInclusion
<1>2. CASE \E block \in Checkpoints : InvalidateInclusion(id, block)
  BY Zenon, <1>2 DEF InvalidateInclusion
<1>3. Candidates(id) \in SUBSET Tx
  BY DEF Candidates
<1>4. ASSUME NEW expected \in 0..MaxGeneration, NEW revision \in 0..MaxRevision,
             NEW tx \in Candidates(id), NEW payload \in {Tombstone, {tx}},
             CompareExchangeObservation(expected, id, tx, revision, payload)
      PROVE  TypeOK'
  BY <1>3, <1>4
     DEF CompareExchangeObservation, WriteObservation, CacheRow, Tombstone, Slots
<1>5. ASSUME NEW expected \in 0..MaxGeneration, NEW revision \in 0..MaxRevision,
             NEW payload \in {Tombstone, Candidates(id)},
             CompareExchangeFamily(expected, id, Candidates(id), revision, payload)
      PROVE  TypeOK'
  BY <1>3, <1>5
     DEF CompareExchangeFamily, WriteObservation, CacheRow, Tombstone, Slots
<1> HIDE DEF TypeOK
<1> QED
  BY ZenonT(40), <1>1, <1>2, <1>4, <1>5

\* Every step of the store keeps every column's type.
LEMMA StepType == TypeOK /\ [StoreNext]_storeVars => TypeOK'
<1>1. TypeOK /\ UNCHANGED storeVars => TypeOK'
  BY Zenon DEF TypeOK, storeVars, scopeVars, rowVars, claimVars, payloadVars
<1> QED
  BY Zenon, <1>1, ScopeType, ReservationType, PayloadType, ChangeType, ObservationType
     DEF StoreNext

\* Every reachable database holds values of its columns' types.
THEOREM TypeCorrect == StoreSpec => []TypeOK
BY InitType, StepType, PTL DEF StoreSpec

----------------------------------------------------------------------------
(* Account nonces.                                                         *)

\* reserve_nonce hands out the durable cursor or a higher nonce, which no
\* operation holds, and moves the cursor above it.
LEMMA ReserveNonceExclusive ==
    ASSUME TypeOK, NonceClaimsExclusive,
           NEW id \in Ids, NEW a \in Accounts, NEW remotePending \in 0..MaxNonce,
           ReserveNonce(id, a, remotePending)
    PROVE  NonceClaimsExclusive'
<1> DEFINE nonce == NextNonce(a, remotePending)
<1>1. nonce \in Nat /\ nonceCursors[a] <= nonce
  BY ConstantsAssumption DEF TypeOK, NextNonce
<1>2. /\ nonceClaims' = [nonceClaims EXCEPT ![id] = [address |-> a, nonce |-> nonce]]
      /\ nonceCursors' = [nonceCursors EXCEPT ![a] = nonce + 1]
  BY Zenon DEF ReserveNonce
<1> HIDE DEF nonce
<1>3. \A other \in Ids : nonceClaims[other] # [address |-> a, nonce |-> nonce]
  <2> SUFFICES ASSUME NEW other \in Ids,
                      nonceClaims[other] = [address |-> a, nonce |-> nonce]
               PROVE  FALSE
    BY Zenon
  <2>1. [address |-> a, nonce |-> nonce] # None
    <3>1. CASE nonceClaims[other] = None
      BY <1>1, <1>2, <3>1, NoneAssumption
         DEF TypeOK, NonceClaim, ReserveNonce, nonce, NextNonce
    <3>2. CASE nonceClaims[other] # None
      BY Zenon, <3>2
    <3> QED
      BY Zenon, <3>1, <3>2
  <2>2. nonceClaims[other].nonce < nonceCursors[nonceClaims[other].address]
    BY Zenon, <2>1 DEF NonceClaimsExclusive
  <2> QED
    BY <2>2, <1>1 DEF TypeOK
<1>4. ASSUME NEW x \in Ids, NEW y \in Ids,
             nonceClaims'[x] # None, nonceClaims'[x] = nonceClaims'[y]
      PROVE  x = y
  BY Zenon, <1>2, <1>3, <1>4 DEF TypeOK, NonceClaimsExclusive
<1>5. ASSUME NEW x \in Ids, nonceClaims'[x] # None
      PROVE  nonceClaims'[x].nonce < nonceCursors'[nonceClaims'[x].address]
  <2>1. CASE x = id
    BY SMTT(40), <2>1, <1>1, <1>2 DEF TypeOK
  <2>2. CASE x # id
    <3>1. /\ nonceClaims'[x] = nonceClaims[x]
          /\ nonceClaims[x] \in NonceClaim
          /\ nonceClaims[x].nonce < nonceCursors[nonceClaims[x].address]
      BY Zenon, <2>2, <1>2, <1>5 DEF TypeOK, NonceClaimsExclusive
    <3> QED
      BY <3>1, <1>1, <1>2 DEF TypeOK, NonceClaim
  <2> QED
    BY Zenon, <2>1, <2>2
<1> QED
  BY Zenon, <1>4, <1>5 DEF NonceClaimsExclusive

\* No other step adds a nonce claim or lowers a cursor.
LEMMA NonceStep ==
    TypeOK /\ NonceClaimsExclusive /\ [StoreNext]_storeVars => NonceClaimsExclusive'
<1> SUFFICES ASSUME TypeOK, NonceClaimsExclusive, [StoreNext]_storeVars
             PROVE  NonceClaimsExclusive'
  BY Zenon
<1>1. CASE UNCHANGED <<nonceClaims, nonceCursors>>
  BY Zenon, <1>1 DEF NonceClaimsExclusive
<1>2. CASE ScopeNext
  BY Zenon, <1>1, <1>2
     DEF ScopeNext, InvalidateSnapshot, ReconcileCheckpoint, CommitDiscovery,
         ReplaceSnapshot, InvalidateReorgFrom, claimVars
<1>3. CASE ReservationNext
  <2>1. PICK id \in Ids :
          \/ \E expected \in 0..MaxGeneration, height \in Heights,
                outpoints \in SUBSET Outpoints :
               ReserveQi(id, expected, height, outpoints)
          \/ \E a \in Accounts, remotePending \in 0..MaxNonce :
               ReserveNonce(id, a, remotePending)
          \/ ReleaseUnsigned(id)
          \/ ReopenUnsignedNonce(id)
    BY Zenon, <1>3 DEF ReservationNext
  <2>2. CASE \E a \in Accounts, remotePending \in 0..MaxNonce :
               ReserveNonce(id, a, remotePending)
    BY Zenon, <2>2, ReserveNonceExclusive
  <2> QED
    BY Zenon, <1>1, <2>1, <2>2 DEF ReserveQi, ReleaseUnsigned, ReopenUnsignedNonce, claimVars
<1>4. CASE PayloadNext
  BY SMTT(40), <1>1, <1>4
     DEF PayloadNext, CommitSigned, MarkSigned, MarkSubmitted, CommitReplacement, claimVars
<1>5. CASE ChangeNext
  BY Zenon, <1>1, <1>5 DEF ChangeNext, ReleaseChange, TakeReleasedChange, claimVars
<1>6. CASE ObservationNext
  BY ZenonT(40), <1>1, <1>6
     DEF ObservationNext, ObserveInclusion, InvalidateInclusion,
         CompareExchangeObservation, CompareExchangeFamily, claimVars
<1>7. CASE UNCHANGED storeVars
  BY Zenon, <1>1, <1>7 DEF storeVars, claimVars
<1> QED
  BY Zenon, <1>2, <1>3, <1>4, <1>5, <1>6, <1>7 DEF StoreNext

\* No two operations ever hold the same account nonce, and the durable cursor is
\* above every nonce held: reserve_nonce cannot collide, whatever the node says
\* is pending and whatever was released before.
THEOREM NonceSafety == StoreSpec => []NonceClaimsExclusive
<1>1. StoreInit => NonceClaimsExclusive
  BY DEF StoreInit, NonceClaimsExclusive
<1> QED
  BY <1>1, InitType, StepType, NonceStep, PTL DEF StoreSpec

----------------------------------------------------------------------------
(* Rows, claims and signed bytes.                                          *)

\* The rows of an operation stay readable when neither they nor the claims
\* they are checked against change.
LEMMA RowFrame ==
    ASSUME NEW id \in Ids, RowReadable(id),
           kind'[id] = kind[id], state'[id] = state[id],
           transaction'[id] = transaction[id], inclusion'[id] = inclusion[id],
           signedPayloads'[id] = signedPayloads[id], variants'[id] = variants[id],
           nonceClaims'[id] = nonceClaims[id], ClaimsOf(id)' = ClaimsOf(id)
    PROVE  RowReadable(id)'
<1>1. Candidates(id)' = Candidates(id)
  BY Zenon DEF Candidates
<1> QED
  BY Zenon, <1>1 DEF RowReadable, ClaimMatches

\* An operation without a recorded transaction has no signed bytes.
LEMMA UnsignedHasNoCandidates ==
    ASSUME TypeOK, NEW id \in Ids, RowReadable(id), transaction[id] = None
    PROVE  signedPayloads[id] = None /\ variants[id] = {} /\ Candidates(id) = {}
BY Zenon DEF RowReadable, Candidates, TypeOK

\* Only the claims of id change, and id has nothing signed to check them against.
LEMMA ClaimChange ==
    ASSUME TypeOK, RowsReadable, NEW id \in Ids,
           transaction[id] = None, inclusion[id] = None,
           state' = [state EXCEPT ![id] = "reserved"]
             \/ state' = [state EXCEPT ![id] = "released"],
           \A x \in Ids \ {id} : kind'[x] = kind[x] /\ nonceClaims'[x] = nonceClaims[x]
                                 /\ ClaimsOf(x)' = ClaimsOf(x),
           UNCHANGED <<transaction, inclusion, signedPayloads, variants>>
    PROVE  RowsReadable'
<1> SUFFICES ASSUME NEW x \in Ids PROVE RowReadable(x)'
  BY Zenon DEF RowsReadable
<1>1. RowReadable(x)
  BY Zenon DEF RowsReadable
<1>2. CASE x # id
  BY Zenon, <1>1, <1>2, RowFrame DEF TypeOK
<1>3. CASE x = id
  <2>1. signedPayloads[id] = None /\ variants[id] = {}
    BY Zenon, <1>1, <1>3, UnsignedHasNoCandidates
  <2> QED
    BY Zenon, <2>1, <1>1, <1>3 DEF RowReadable, Candidates, TypeOK
<1> QED
  BY Zenon, <1>2, <1>3

\* Reservations, which change claims, leave every row readable.
LEMMA ReservationRows == TypeOK /\ RowsReadable /\ ReservationNext => RowsReadable'
<1> SUFFICES ASSUME TypeOK, RowsReadable, NEW id \in Ids,
               \/ \E expected \in 0..MaxGeneration, height \in Heights,
                     outpoints \in SUBSET Outpoints :
                    ReserveQi(id, expected, height, outpoints)
               \/ \E a \in Accounts, remotePending \in 0..MaxNonce :
                    ReserveNonce(id, a, remotePending)
               \/ ReleaseUnsigned(id)
               \/ ReopenUnsignedNonce(id)
             PROVE RowsReadable'
  BY Zenon DEF ReservationNext
<1> USE DEF scopeVars, rowVars, claimVars, payloadVars
<1>1. RowReadable(id)
  BY Zenon DEF RowsReadable
<1>2. ASSUME NEW expected \in 0..MaxGeneration, NEW height \in Heights,
             NEW outpoints \in SUBSET Outpoints,
             ReserveQi(id, expected, height, outpoints)
      PROVE  RowsReadable'
  <2>1. transaction[id] = None /\ inclusion[id] = None
    BY Zenon, <1>1, <1>2 DEF RowReadable, ReserveQi, InsertReservation
  <2>2. \A x \in Ids \ {id} : ClaimsOf(x)' = ClaimsOf(x)
    BY Zenon, <1>2, NoneAssumption DEF ReserveQi, ClaimsOf, TypeOK
  <2>3. \A x \in Ids \ {id} : kind'[x] = kind[x]
    BY Zenon, <1>2 DEF ReserveQi, InsertReservation, TypeOK
  <2> QED
    BY ZenonT(40), <1>2, <2>1, <2>2, <2>3, ClaimChange DEF ReserveQi, InsertReservation
<1>3. ASSUME NEW a \in Accounts, NEW remotePending \in 0..MaxNonce,
             ReserveNonce(id, a, remotePending)
      PROVE  RowsReadable'
  <2>1. transaction[id] = None /\ inclusion[id] = None
    BY Zenon, <1>1, <1>3 DEF RowReadable, ReserveNonce, InsertReservation
  <2>2. \A x \in Ids \ {id} : ClaimsOf(x)' = ClaimsOf(x)
    BY Zenon, <1>3 DEF ReserveNonce, ClaimsOf
  <2>3. \A x \in Ids \ {id} : kind'[x] = kind[x] /\ nonceClaims'[x] = nonceClaims[x]
    BY Zenon, <1>3 DEF ReserveNonce, InsertReservation, TypeOK
  <2> QED
    BY ZenonT(40), <1>3, <2>1, <2>2, <2>3, ClaimChange DEF ReserveNonce, InsertReservation
<1>4. CASE ReleaseUnsigned(id)
  <2>1. inclusion[id] = None
    BY Zenon, <1>1, <1>4 DEF RowReadable, ReleaseUnsigned
  <2>2. \A x \in Ids \ {id} : ClaimsOf(x)' = ClaimsOf(x)
    BY Zenon, <1>4, NoneAssumption DEF ReleaseUnsigned, ClaimsOf, TypeOK
  <2> QED
    BY Zenon, <1>4, <2>1, <2>2, ClaimChange DEF ReleaseUnsigned
<1>5. CASE ReopenUnsignedNonce(id)
  <2>1. inclusion[id] = None
    BY Zenon, <1>1, <1>5 DEF RowReadable, ReopenUnsignedNonce
  <2>2. \A x \in Ids \ {id} : ClaimsOf(x)' = ClaimsOf(x)
    BY Zenon, <1>5 DEF ReopenUnsignedNonce, ClaimsOf
  <2> QED
    BY Zenon, <1>5, <2>1, <2>2, ClaimChange DEF ReopenUnsignedNonce
<1> QED
  BY Zenon, <1>2, <1>3, <1>4, <1>5

\* What a step that leaves the signed bytes alone, or is one of the two that
\* add some, does to the candidates of every operation.
LEMMA CandidatesFrame ==
    ASSUME UNCHANGED payloadVars, NEW id
    PROVE  Candidates(id)' = Candidates(id)
BY Zenon DEF payloadVars, Candidates

\* commit_payload adds the bytes it was given as the operation's only candidate.
LEMMA CommitSignedCandidates ==
    ASSUME TypeOK, RowsReadable, NEW id \in Ids, NEW tx \in Tx, CommitSigned(id, tx)
    PROVE  /\ Candidates(id) = {} /\ Candidates(id)' = {tx}
           /\ \A x \in Ids \ {id} : Candidates(x)' = Candidates(x)
<1>1. variants[id] = {} /\ signedPayloads[id] = None /\ variants' = variants
  BY Zenon DEF RowsReadable, RowReadable, CommitSigned
<1>2. signedPayloads' = [signedPayloads EXCEPT ![id] = tx] /\ tx # None
  BY Zenon, NoneAssumption DEF CommitSigned
<1> QED
  BY Zenon, <1>1, <1>2 DEF Candidates, TypeOK

\* commit_replacement_payload adds one candidate to one family.
LEMMA CommitReplacementCandidates ==
    ASSUME TypeOK, NEW id \in Ids, NEW tx \in Tx, NEW parent \in Candidates(id),
           CommitReplacement(id, parent, tx)
    PROVE  /\ Candidates(id)' = Candidates(id) \cup {tx}
           /\ \A x \in Ids \ {id} : Candidates(x)' = Candidates(x)
<1> DEFINE edge == [parent |-> parent, payload |-> tx]
<1>1. /\ signedPayloads' = signedPayloads /\ signedPayloads[id] # None
      /\ variants' = [variants EXCEPT ![id] = variants[id] \cup {edge}]
  BY Zenon DEF CommitReplacement, Candidates, payloadVars
<1>2. edge.payload = tx
  BY Zenon
<1> HIDE DEF edge
<1>3. {e.payload : e \in variants[id] \cup {edge}}
        = {e.payload : e \in variants[id]} \cup {tx}
  BY Zenon, <1>2
<1>4. Candidates(id)' = Candidates(id) \cup {tx}
  BY Zenon, <1>1, <1>3 DEF Candidates, TypeOK
<1>5. \A x \in Ids \ {id} : Candidates(x)' = Candidates(x)
  BY Zenon, <1>1 DEF Candidates, TypeOK
<1> QED
  BY Zenon, <1>4, <1>5

\* Signing and replacing, which add candidates, leave every row readable.
LEMMA PayloadRows == TypeOK /\ RowsReadable /\ PayloadNext => RowsReadable'
<1> SUFFICES ASSUME TypeOK, RowsReadable, NEW id \in Ids,
               \/ MarkSubmitted(id)
               \/ \E tx \in Tx :
                    \/ CommitSigned(id, tx)
                    \/ MarkSigned(id, tx)
                    \/ \E parent \in Candidates(id) : CommitReplacement(id, parent, tx),
                    NEW x \in Ids
             PROVE RowReadable(x)'
  BY Zenon DEF PayloadNext, RowsReadable
<1> USE DEF scopeVars, rowVars, claimVars, payloadVars
<1>1. RowReadable(id) /\ RowReadable(x)
  BY Zenon DEF RowsReadable
<1>2. qiClaims' = qiClaims /\ nonceClaims' = nonceClaims /\ kind' = kind
  BY Zenon DEF MarkSubmitted, CommitSigned, MarkSigned, CommitReplacement
<1>3. ClaimsOf(x)' = ClaimsOf(x)
  BY Zenon, <1>2 DEF ClaimsOf
<1>4. CASE x # id
  <2>1. /\ state'[x] = state[x] /\ transaction'[x] = transaction[x]
        /\ inclusion'[x] = inclusion[x] /\ signedPayloads'[x] = signedPayloads[x]
        /\ variants'[x] = variants[x]
    BY SMTT(40), <1>4 DEF MarkSubmitted, CommitSigned, MarkSigned, CommitReplacement, TypeOK
  <2> QED
    BY Zenon, <2>1, <1>1, <1>2, <1>3, RowFrame
<1>5. CASE x = id /\ MarkSubmitted(id)
  <2>1. Candidates(id)' = Candidates(id)
    BY ZenonT(40), <1>5 DEF MarkSubmitted, Candidates
  <2>2. \A tx \in Candidates(id) : ClaimMatches(id, tx)' <=> ClaimMatches(id, tx)
    BY Zenon, <1>2, <1>3, <1>5 DEF ClaimMatches
  <2>3. state[id] = "signed" /\ state'[id] = "submitted"
        /\ UNCHANGED <<kind, transaction, inclusion, signedPayloads, variants>>
    BY Zenon, <1>5 DEF MarkSubmitted, TypeOK
  <2> QED
    BY ZenonT(40), <1>1, <1>5, <2>1, <2>2, <2>3 DEF RowReadable
<1>6. ASSUME NEW tx \in Tx, x = id, CommitSigned(id, tx) PROVE RowReadable(x)'
  <2>1. tx # None
    BY Zenon, NoneAssumption
  <2>2. variants[id] = {} /\ variants' = variants
    BY Zenon, <1>1, <1>6 DEF CommitSigned, RowReadable
  <2>3. signedPayloads'[id] = tx /\ transaction'[id] = tx
    BY Zenon, <1>1, <1>6, <2>1 DEF CommitSigned, RowReadable, TypeOK
  <2>4. Candidates(id)' = {tx}
    BY Zenon, <1>6, CommitSignedCandidates
  <2>5. ClaimMatches(id, tx)'
    BY Zenon, <1>2, <1>3, <1>6 DEF CommitSigned, ClaimMatches
  <2>6. state'[id] \notin {"absent", "reserved", "released"}
        /\ (state'[id] = "confirmed" <=> state[id] = "confirmed")
    BY Zenon, <1>6, <1>1 DEF CommitSigned, TypeOK
  <2> QED
    BY Zenon, <1>1, <1>2, <1>6, <2>1, <2>2, <2>3, <2>4, <2>5, <2>6 DEF CommitSigned, RowReadable
<1>7. ASSUME NEW tx \in Tx, x = id, MarkSigned(id, tx) PROVE RowReadable(x)'
  <2>1. signedPayloads[id] = None /\ variants[id] = {}
    BY ZenonT(40), <1>1, <1>7, UnsignedHasNoCandidates DEF MarkSigned
  <2> QED
    BY Zenon, <1>1, <1>7, <2>1, NoneAssumption DEF MarkSigned, RowReadable, Candidates, TypeOK
<1>8. ASSUME NEW tx \in Tx, NEW parent \in Candidates(id), x = id,
             CommitReplacement(id, parent, tx)
      PROVE  RowReadable(x)'
  <2> DEFINE edge == [parent |-> parent, payload |-> tx]
  <2>1. /\ signedPayloads' = signedPayloads /\ signedPayloads[id] # None
        /\ variants'[id] = variants[id] \cup {edge}
    BY Zenon, <1>8 DEF CommitReplacement, Candidates, TypeOK
  <2>2. Candidates(id)' = Candidates(id) \cup {tx}
    BY Zenon, <1>8, CommitReplacementCandidates
  <2>3. kind[id] = tx.kind /\ ClaimMatches(id, tx)
    <3>1. kind[id] = parent.kind /\ ClaimMatches(id, parent) /\ Replaces(tx, parent)
      BY Zenon, <1>1, <1>8 DEF RowReadable, CommitReplacement
    <3> QED
      BY Zenon, <3>1 DEF Replaces, ClaimMatches
  <2>4. \A t \in Candidates(id)' : kind'[id] = t.kind /\ ClaimMatches(id, t)'
    BY ZenonT(40), <1>1, <1>2, <1>3, <1>8, <2>2, <2>3 DEF RowReadable, ClaimMatches
  <2>5. \A e \in variants'[id] :
          e.parent \in Candidates(id)' /\ Replaces(e.payload, e.parent)
    <3>1. \A e \in variants[id] :
            e.parent \in Candidates(id) /\ Replaces(e.payload, e.parent)
      BY Zenon, <1>1, <1>8 DEF RowReadable
    <3>2. edge.parent \in Candidates(id) /\ Replaces(edge.payload, edge.parent)
      BY Zenon, <1>8 DEF CommitReplacement
    <3> HIDE DEF edge
    <3> QED
      BY ZenonT(40), <2>1, <2>2, <3>1, <3>2
  <2> QED
    BY ZenonT(40), <1>1, <1>8, <2>1, <2>4, <2>5 DEF CommitReplacement, RowReadable, Replaces
<1> QED
  BY Zenon, <1>4, <1>5, <1>6, <1>7, <1>8

\* Recording and withdrawing an inclusion leave every row readable.
LEMMA InclusionRows ==
    ASSUME TypeOK, RowsReadable,
           \/ \E id \in Ids, block \in Checkpoints, expected \in 0..MaxGeneration, tx \in Tx :
                ObserveInclusion(expected, id, tx, block)
           \/ \E id \in Ids, block \in Checkpoints : InvalidateInclusion(id, block)
           \/ \E expected \in 0..MaxGeneration, first \in Heights :
                InvalidateReorgFrom(expected, first)
    PROVE  RowsReadable'
<1> SUFFICES ASSUME NEW x \in Ids PROVE RowReadable(x)'
  BY Zenon DEF RowsReadable
<1> USE DEF scopeVars, rowVars, claimVars, payloadVars
<1>1. RowReadable(x)
  BY Zenon DEF RowsReadable
<1>2. UNCHANGED <<kind, transaction, qiClaims, nonceClaims, signedPayloads, variants>>
  BY Zenon DEF ObserveInclusion, InvalidateInclusion, InvalidateReorgFrom
<1>3. \/ state'[x] = state[x] /\ inclusion'[x] = inclusion[x]
      \/ /\ state[x] \in {"signed", "submitted", "confirmed"}
         /\ state'[x] = "confirmed" /\ inclusion'[x] # None
      \/ /\ state[x] \in {"signed", "submitted", "confirmed"}
         /\ state'[x] = "submitted" /\ inclusion'[x] = None
  BY SMTT(40), NoneAssumption
     DEF ObserveInclusion, InvalidateInclusion, InvalidateReorgFrom, Removed, TypeOK
<1>4. ClaimsOf(x)' = ClaimsOf(x) /\ Candidates(x)' = Candidates(x)
  BY Zenon, <1>2 DEF ClaimsOf, Candidates
<1> QED
  BY Zenon, <1>1, <1>2, <1>3, <1>4 DEF RowReadable, ClaimMatches

\* Every step of the store leaves every row readable.
LEMMA RowsStep == TypeOK /\ RowsReadable /\ [StoreNext]_storeVars => RowsReadable'
<1> SUFFICES ASSUME TypeOK, RowsReadable, [StoreNext]_storeVars PROVE RowsReadable'
  OBVIOUS
<1>1. ASSUME UNCHANGED <<rowVars, claimVars, payloadVars>> PROVE RowsReadable'
  BY Zenon, <1>1, RowFrame DEF RowsReadable, rowVars, claimVars, payloadVars, ClaimsOf
<1>2. CASE ScopeNext
  BY Zenon, <1>1, <1>2, InclusionRows
     DEF ScopeNext, InvalidateSnapshot, ReconcileCheckpoint, CommitDiscovery, ReplaceSnapshot
<1>3. CASE ChangeNext
  BY Zenon, <1>1, <1>3 DEF ChangeNext, ReleaseChange, TakeReleasedChange
<1>4. CASE ObservationNext
  BY Zenon, <1>1, <1>4, InclusionRows
     DEF ObservationNext, CompareExchangeObservation, CompareExchangeFamily
<1>5. CASE UNCHANGED storeVars
  BY Zenon, <1>1, <1>5 DEF storeVars
<1> QED
  BY Zenon, <1>2, <1>3, <1>4, <1>5, ReservationRows, PayloadRows DEF StoreNext

\* Every row passes the revalidation its readers make: the signed bytes of an
\* operation always match its recorded transaction, its kind and the claims it
\* holds, and so does every replacement of its family.
THEOREM RowsSafety == StoreSpec => []RowsReadable
<1>1. StoreInit => RowsReadable
  BY DEF StoreInit, RowsReadable, RowReadable, Candidates
<1> QED
  BY <1>1, InitType, StepType, RowsStep, PTL DEF StoreSpec

\* The claim a signed account transaction is checked against is a claim.
LEMMA AccountCandidate ==
    ASSUME TypeOK, NEW id \in Ids, NEW tx \in Candidates(id), tx.kind = "quai"
    PROVE  [address |-> tx.from, nonce |-> tx.nonce] # None
<1>1. tx \in Tx
  BY DEF TypeOK, Candidates
<1>2. tx \in QuaiTx
  BY Zenon, <1>1 DEF Tx, QiTx
<1> QED
  BY <1>2, NoneAssumption DEF QuaiTx, NonceClaim

\* Signed bytes of two operations never compete for a nonce or an outpoint: the
\* claims are exclusive and every candidate spends exactly its own.
THEOREM CustodySafety == StoreSpec => []NoConflictingSignatures
<1>1. TypeOK /\ NonceClaimsExclusive /\ RowsReadable => NoConflictingSignatures
  <2> SUFFICES ASSUME TypeOK, NonceClaimsExclusive, RowsReadable,
                      NEW id \in Ids, NEW other \in Ids, id # other,
                      NEW tx \in Candidates(id), NEW rival \in Candidates(other)
               PROVE  /\ tx.kind = "quai" /\ rival.kind = "quai" =>
                           ~(tx.from = rival.from /\ tx.nonce = rival.nonce)
                      /\ tx.kind = "qi" /\ rival.kind = "qi" =>
                           tx.inputs \cap rival.inputs = {}
    BY Zenon DEF NoConflictingSignatures
  <2>1. ClaimMatches(id, tx) /\ ClaimMatches(other, rival)
    BY Zenon DEF RowsReadable, RowReadable
  <2>2. ASSUME tx.kind = "quai", rival.kind = "quai"
        PROVE  ~(tx.from = rival.from /\ tx.nonce = rival.nonce)
    <3>1. nonceClaims[id] # nonceClaims[other]
      BY Zenon, <2>1, <2>2, AccountCandidate DEF NonceClaimsExclusive, ClaimMatches
    <3> QED
      BY Zenon, <2>1, <2>2, <3>1 DEF ClaimMatches
  <2>3. ASSUME tx.kind = "qi", rival.kind = "qi"
        PROVE  tx.inputs \cap rival.inputs = {}
    BY Zenon, <2>1, <2>3 DEF ClaimMatches, ClaimsOf
  <2> QED
    BY Zenon, <2>2, <2>3
<1> QED
  BY <1>1, TypeCorrect, NonceSafety, RowsSafety, PTL

----------------------------------------------------------------------------
(* Released change addresses and cached summaries.                         *)

\* A signature burns its change addresses and release_change refuses signed ones,
\* so the pool and the signed outputs stay apart.
LEMMA ChangeStep ==
    TypeOK /\ RowsReadable /\ ReleasedChangeUnsigned /\ [StoreNext]_storeVars
        => ReleasedChangeUnsigned'
<1> SUFFICES ASSUME TypeOK, RowsReadable, ReleasedChangeUnsigned, [StoreNext]_storeVars
             PROVE  ReleasedChangeUnsigned'
  BY Zenon
<1>1. ASSUME UNCHANGED payloadVars, releasedChange' \subseteq releasedChange
      PROVE  ReleasedChangeUnsigned'
  BY Zenon, <1>1, CandidatesFrame DEF ReleasedChangeUnsigned
<1>2. CASE ScopeNext
  BY Zenon, <1>1, <1>2
     DEF ScopeNext, InvalidateSnapshot, ReconcileCheckpoint, CommitDiscovery,
         ReplaceSnapshot, InvalidateReorgFrom
<1>3. CASE ReservationNext
  BY Zenon, <1>1, <1>3
     DEF ReservationNext, ReserveQi, ReserveNonce, ReleaseUnsigned, ReopenUnsignedNonce
<1>4. CASE PayloadNext
  <2>1. PICK id \in Ids :
          \/ MarkSubmitted(id)
          \/ \E tx \in Tx :
               \/ CommitSigned(id, tx)
               \/ MarkSigned(id, tx)
               \/ \E parent \in Candidates(id) : CommitReplacement(id, parent, tx)
    BY Zenon, <1>4 DEF PayloadNext
  <2>2. ASSUME NEW tx \in Tx, CommitSigned(id, tx) PROVE ReleasedChangeUnsigned'
    <3>1. releasedChange' = releasedChange \ tx.outputs
      BY Zenon, <2>2 DEF CommitSigned, BurnSigned
    <3>2. /\ Candidates(id)' = {tx}
          /\ \A x \in Ids \ {id} : Candidates(x)' = Candidates(x)
      BY Zenon, <2>2, CommitSignedCandidates
    <3> QED
      BY Zenon, <3>1, <3>2 DEF ReleasedChangeUnsigned
  <2>3. ASSUME NEW tx \in Tx, NEW parent \in Candidates(id),
               CommitReplacement(id, parent, tx)
        PROVE  ReleasedChangeUnsigned'
    <3>1. releasedChange' = releasedChange \ tx.outputs
      BY Zenon, <2>3 DEF CommitReplacement, BurnSigned
    <3>2. /\ Candidates(id)' = Candidates(id) \cup {tx}
          /\ \A x \in Ids \ {id} : Candidates(x)' = Candidates(x)
      BY Zenon, <2>3, CommitReplacementCandidates
    <3> QED
      BY Zenon, <3>1, <3>2 DEF ReleasedChangeUnsigned
  <2> QED
    BY Zenon, <1>1, <2>1, <2>2, <2>3 DEF MarkSubmitted, MarkSigned
<1>5. CASE ChangeNext
  <2>1. ASSUME NEW addresses \in SUBSET Change, ReleaseChange(addresses)
        PROVE  ReleasedChangeUnsigned'
    BY Zenon, <2>1, CandidatesFrame DEF ReleaseChange, ReleasedChangeUnsigned
  <2> QED
    BY Zenon, <1>1, <1>5, <2>1 DEF ChangeNext, TakeReleasedChange
<1>6. CASE ObservationNext
  BY ZenonT(40), <1>1, <1>6
     DEF ObservationNext, ObserveInclusion, InvalidateInclusion,
         CompareExchangeObservation, CompareExchangeFamily
<1>7. CASE UNCHANGED storeVars
  BY Zenon, <1>1, <1>7 DEF storeVars
<1> QED
  BY Zenon, <1>2, <1>3, <1>4, <1>5, <1>6, <1>7 DEF StoreNext

\* No address that take_released_change may hand out occurs in signed bytes.
THEOREM ChangeSafety == StoreSpec => []ReleasedChangeUnsigned
<1>1. StoreInit => ReleasedChangeUnsigned
  BY Zenon DEF StoreInit, ReleasedChangeUnsigned
<1> QED
  BY <1>1, InitType, StepType, TypeCorrect, RowsSafety, ChangeStep, PTL DEF StoreSpec

\* A replacement tombstones the cached summary, and a summary is written only for
\* the whole family.
LEMMA FamilyStep ==
    TypeOK /\ RowsReadable /\ UnwrittenIsEmpty /\ FamilyViewComplete
        /\ [StoreNext]_storeVars
        => UnwrittenIsEmpty' /\ FamilyViewComplete'
<1> SUFFICES ASSUME TypeOK, RowsReadable, UnwrittenIsEmpty, FamilyViewComplete,
                    [StoreNext]_storeVars
             PROVE  UnwrittenIsEmpty' /\ FamilyViewComplete'
  BY Zenon
<1> USE DEF Slots
<1>1. ASSUME UNCHANGED <<payloadVars, observationCache>>
      PROVE  UnwrittenIsEmpty' /\ FamilyViewComplete'
  BY Zenon, <1>1, CandidatesFrame DEF UnwrittenIsEmpty, FamilyViewComplete
<1>2. CASE ScopeNext
  <2>1. ASSUME NEW expected \in 0..MaxGeneration, NEW first \in Heights,
               InvalidateReorgFrom(expected, first)
        PROVE  UnwrittenIsEmpty' /\ FamilyViewComplete'
    <3>1. \A key \in Ids \X Slots : observationCache'[key].payload = Tombstone
      BY Zenon, <2>1 DEF InvalidateReorgFrom, BumpRow, UnwrittenIsEmpty
    <3> QED
      BY Zenon, <3>1 DEF UnwrittenIsEmpty, FamilyViewComplete
  <2> QED
    BY Zenon, <1>1, <1>2, <2>1
       DEF ScopeNext, InvalidateSnapshot, ReconcileCheckpoint, CommitDiscovery, ReplaceSnapshot
<1>3. CASE ReservationNext
  BY Zenon, <1>1, <1>3
     DEF ReservationNext, ReserveQi, ReserveNonce, ReleaseUnsigned, ReopenUnsignedNonce
<1>4. CASE PayloadNext
  <2>1. PICK id \in Ids :
          \/ MarkSubmitted(id)
          \/ \E tx \in Tx :
               \/ CommitSigned(id, tx)
               \/ MarkSigned(id, tx)
               \/ \E parent \in Candidates(id) : CommitReplacement(id, parent, tx)
    BY Zenon, <1>4 DEF PayloadNext
  <2>2. ASSUME NEW tx \in Tx, CommitSigned(id, tx)
        PROVE  UnwrittenIsEmpty' /\ FamilyViewComplete'
    <3>1. observationCache' = observationCache
      BY Zenon, <2>2 DEF CommitSigned
    <3>2. observationCache[<<id, "family">>].payload = Tombstone
      BY Zenon, <2>2, CommitSignedCandidates DEF FamilyViewComplete, Tombstone
    <3> QED
      BY Zenon, <2>2, <3>1, <3>2, CommitSignedCandidates DEF UnwrittenIsEmpty, FamilyViewComplete
  <2>3. ASSUME NEW tx \in Tx, NEW parent \in Candidates(id),
               CommitReplacement(id, parent, tx)
        PROVE  UnwrittenIsEmpty' /\ FamilyViewComplete'
    <3>1. observationCache'[<<id, "family">>].payload = Tombstone
      BY Zenon, <2>3 DEF CommitReplacement, BumpRow, UnwrittenIsEmpty, TypeOK
    <3>2. \A key \in Ids \X Slots :
            key # <<id, "family">> => observationCache'[key] = observationCache[key]
      BY Zenon, <2>3 DEF CommitReplacement, TypeOK
    <3>3. UnwrittenIsEmpty'
      BY Zenon, <3>1, <3>2 DEF UnwrittenIsEmpty
    <3>4. FamilyViewComplete'
      BY SMTT(40), <2>3, <3>1, <3>2, CommitReplacementCandidates DEF FamilyViewComplete
    <3> QED
      BY Zenon, <3>3, <3>4
  <2> QED
    BY Zenon, <1>1, <2>1, <2>2, <2>3 DEF MarkSubmitted, MarkSigned
<1>5. CASE ChangeNext
  BY ZenonT(40), <1>1, <1>5 DEF ChangeNext, ReleaseChange, TakeReleasedChange
<1>6. CASE ObservationNext
  <2>1. ASSUME NEW id \in Ids, NEW expected, NEW revision \in 0..MaxRevision,
               NEW tx, NEW payload,
               CompareExchangeObservation(expected, id, tx, revision, payload)
        PROVE  UnwrittenIsEmpty' /\ FamilyViewComplete'
    <3>1. /\ observationCache' =
               [observationCache EXCEPT ![<<id, "external">>] =
                   [revision |-> revision + 1, payload |-> payload]]
          /\ UNCHANGED payloadVars
      BY Zenon, <2>1 DEF CompareExchangeObservation, WriteObservation
    <3>2. \A x \in Ids : Candidates(x)' = Candidates(x)
      BY Zenon, <3>1, CandidatesFrame
    <3> QED
      BY SMTT(40), <3>1, <3>2 DEF UnwrittenIsEmpty, FamilyViewComplete, TypeOK
  <2>2. ASSUME NEW id \in Ids, NEW expected, NEW revision \in 0..MaxRevision,
               NEW payload,
               CompareExchangeFamily(expected, id, Candidates(id), revision, payload)
        PROVE  UnwrittenIsEmpty' /\ FamilyViewComplete'
    <3>1. /\ observationCache' =
               [observationCache EXCEPT ![<<id, "family">>] =
                   [revision |-> revision + 1, payload |-> payload]]
          /\ payload \in {Tombstone, Candidates(id)}
          /\ UNCHANGED payloadVars
      BY Zenon, <2>2 DEF CompareExchangeFamily, WriteObservation
    <3>2. \A x \in Ids : Candidates(x)' = Candidates(x)
      BY Zenon, <3>1, CandidatesFrame
    <3> QED
      BY SMTT(40), <3>1, <3>2 DEF UnwrittenIsEmpty, FamilyViewComplete, TypeOK
  <2> QED
    BY ZenonT(40), <1>1, <1>6, <2>1, <2>2
       DEF ObservationNext, ObserveInclusion, InvalidateInclusion
<1>7. CASE UNCHANGED storeVars
  BY Zenon, <1>1, <1>7 DEF storeVars
<1> QED
  BY Zenon, <1>2, <1>3, <1>4, <1>5, <1>6, <1>7 DEF StoreNext

\* A cached family summary always covers the whole family.
THEOREM FamilySafety == StoreSpec => []FamilyViewComplete
<1>1. StoreInit => UnwrittenIsEmpty /\ FamilyViewComplete
  BY DEF StoreInit, UnwrittenIsEmpty, FamilyViewComplete, Slots
<1> QED
  BY <1>1, TypeCorrect, RowsSafety, FamilyStep, PTL DEF StoreSpec

----------------------------------------------------------------------------
(* What no step does.                                                      *)

\* Every step that changes the coins or clears the checkpoint moves the generation.
LEMMA CoinsStep == TypeOK /\ [StoreNext]_storeVars => [CoinsFenced]_storeVars
<1> SUFFICES ASSUME TypeOK, StoreNext PROVE CoinsFenced
  BY Zenon DEF storeVars
<1>1. ASSUME UNCHANGED scopeVars PROVE CoinsFenced
  BY SMTT(40), <1>1, ConstantsAssumption DEF CoinsFenced, scopeVars, TypeOK, Checkpoints, Heights
<1>2. CASE ScopeNext
  <2>1. generation' = generation + 1 => CoinsFenced
    BY DEF CoinsFenced, TypeOK
  <2>2. ASSUME NEW expected, NEW cp \in Checkpoints, NEW found,
               ReplaceSnapshot(expected, cp, found)
        PROVE  CoinsFenced
    BY Zenon, <2>1, <2>2, NoneAssumption DEF ReplaceSnapshot, NoRewind, CoinsFenced
  <2> QED
    BY Zenon, <1>2, <2>1, <2>2
       DEF ScopeNext, InvalidateSnapshot, ReconcileCheckpoint, CommitDiscovery,
           InvalidateReorgFrom, NextGeneration
<1>3. CASE ReservationNext
  BY Zenon, <1>1, <1>3
     DEF ReservationNext, ReserveQi, ReserveNonce, ReleaseUnsigned, ReopenUnsignedNonce
<1>4. CASE PayloadNext
  BY Zenon, <1>1, <1>4 DEF PayloadNext, CommitSigned, MarkSigned, MarkSubmitted, CommitReplacement
<1>5. CASE ChangeNext
  BY Zenon, <1>1, <1>5 DEF ChangeNext, ReleaseChange, TakeReleasedChange
<1>6. CASE ObservationNext
  BY ZenonT(40), <1>1, <1>6
     DEF ObservationNext, ObserveInclusion, InvalidateInclusion,
         CompareExchangeObservation, CompareExchangeFamily
<1> QED
  BY Zenon, <1>2, <1>3, <1>4, <1>5, <1>6 DEF StoreNext

\* The generation is a fence: while it stands still the coins do too.
THEOREM CoinsSafety == StoreSpec => GenerationFencesCoins
BY TypeCorrect, CoinsStep, PTL DEF StoreSpec, GenerationFencesCoins

\* Every step keeps the bytes, candidates and claims of a signed operation.
LEMMA CustodyStep ==
    TypeOK /\ RowsReadable /\ [StoreNext]_storeVars
        => [\A id \in Ids : CustodyKept(id)]_storeVars
<1> SUFFICES ASSUME TypeOK, RowsReadable, StoreNext, NEW x \in Ids PROVE CustodyKept(x)
  BY Zenon DEF storeVars
<1> USE DEF rowVars, claimVars, payloadVars
<1>1. ASSUME state'[x] = state[x], transaction'[x] = transaction[x],
             Candidates(x) \subseteq Candidates(x)',
             ClaimsOf(x)' = ClaimsOf(x), nonceClaims'[x] = nonceClaims[x]
      PROVE  CustodyKept(x)
  BY Zenon, <1>1 DEF CustodyKept
<1>2. ASSUME UNCHANGED <<transaction, claimVars, payloadVars>>,
             state'[x] \in {"submitted", "confirmed", state[x]},
             state'[x] = state[x] \/ state[x] \in {"signed", "submitted", "confirmed"}
      PROVE  CustodyKept(x)
  BY Zenon, <1>2 DEF CustodyKept, ClaimsOf, Candidates
<1>3. CASE ScopeNext
  BY Zenon, <1>2, <1>3
     DEF ScopeNext, InvalidateSnapshot, ReconcileCheckpoint, CommitDiscovery,
         ReplaceSnapshot, InvalidateReorgFrom, Removed
<1>4. CASE ReservationNext
  <2>1. PICK id \in Ids :
          \/ \E expected \in 0..MaxGeneration, height \in Heights,
                outpoints \in SUBSET Outpoints :
               ReserveQi(id, expected, height, outpoints)
          \/ \E a \in Accounts, remotePending \in 0..MaxNonce :
               ReserveNonce(id, a, remotePending)
          \/ ReleaseUnsigned(id)
          \/ ReopenUnsignedNonce(id)
    BY Zenon, <1>4 DEF ReservationNext
  <2>2. CASE x = id
    BY ZenonT(40), <2>1, <2>2
       DEF ReserveQi, ReserveNonce, InsertReservation, ReleaseUnsigned,
           ReopenUnsignedNonce, CustodyKept
  <2>3. CASE x # id
    <3>1. state'[x] = state[x] /\ transaction'[x] = transaction[x]
      BY ZenonT(40), <2>1, <2>3
         DEF ReserveQi, ReserveNonce, InsertReservation, ReleaseUnsigned,
             ReopenUnsignedNonce, TypeOK
    <3>2. nonceClaims'[x] = nonceClaims[x] /\ Candidates(x)' = Candidates(x)
      BY ZenonT(40), <2>1, <2>3
         DEF ReserveQi, ReserveNonce, ReleaseUnsigned, ReopenUnsignedNonce, TypeOK, Candidates
    <3>3. ClaimsOf(x)' = ClaimsOf(x)
      <4>1. CASE \E expected \in 0..MaxGeneration, height \in Heights,
                    outpoints \in SUBSET Outpoints :
                   ReserveQi(id, expected, height, outpoints)
        BY SMTT(40), <4>1, <2>3, NoneAssumption DEF ReserveQi, TypeOK, ClaimsOf
      <4>2. CASE \E a \in Accounts, remotePending \in 0..MaxNonce :
                   ReserveNonce(id, a, remotePending)
        BY Zenon, <4>2 DEF ReserveNonce, ClaimsOf
      <4>3. CASE ReleaseUnsigned(id) \/ ReopenUnsignedNonce(id)
        BY SMTT(40), <4>3, <2>3, NoneAssumption
           DEF ReleaseUnsigned, ReopenUnsignedNonce, TypeOK, ClaimsOf
      <4> QED
        BY Zenon, <2>1, <4>1, <4>2, <4>3
    <3> QED
      BY Zenon, <1>1, <3>1, <3>2, <3>3
  <2> QED
    BY Zenon, <2>2, <2>3
<1>5. CASE PayloadNext
  <2>1. PICK id \in Ids :
          \/ MarkSubmitted(id)
          \/ \E tx \in Tx :
               \/ CommitSigned(id, tx)
               \/ MarkSigned(id, tx)
               \/ \E parent \in Candidates(id) : CommitReplacement(id, parent, tx)
    BY Zenon, <1>5 DEF PayloadNext
  <2>2. ClaimsOf(x)' = ClaimsOf(x) /\ nonceClaims'[x] = nonceClaims[x]
    BY Zenon, <2>1 DEF MarkSubmitted, CommitSigned, MarkSigned, CommitReplacement, ClaimsOf
  <2>3. Candidates(x) \subseteq Candidates(x)'
    <3>1. CASE UNCHANGED payloadVars
      BY Zenon, <3>1, CandidatesFrame
    <3>2. ASSUME NEW tx \in Tx, CommitSigned(id, tx)
          PROVE  Candidates(x) \subseteq Candidates(x)'
      BY Zenon, <3>2, CommitSignedCandidates
    <3>3. ASSUME NEW tx \in Tx, NEW parent \in Candidates(id),
                 CommitReplacement(id, parent, tx)
          PROVE  Candidates(x) \subseteq Candidates(x)'
      BY Zenon, <3>3, CommitReplacementCandidates
    <3> QED
      BY Zenon, <2>1, <3>1, <3>2, <3>3 DEF MarkSubmitted, MarkSigned
  <2>4. CASE state[x] \in {"signed", "submitted", "confirmed"}
    BY Zenon, <2>1, <2>2, <2>3, <2>4
       DEF MarkSubmitted, CommitSigned, MarkSigned, CommitReplacement, CustodyKept, TypeOK
  <2> QED
    BY Zenon, <2>4 DEF CustodyKept
<1>6. CASE ChangeNext
  BY ZenonT(40), <1>2, <1>6 DEF ChangeNext, ReleaseChange, TakeReleasedChange
<1>7. CASE ObservationNext
  BY ZenonT(40), <1>2, <1>7
     DEF ObservationNext, ObserveInclusion, InvalidateInclusion,
         CompareExchangeObservation, CompareExchangeFamily, TypeOK
<1> QED
  BY Zenon, <1>3, <1>4, <1>5, <1>6, <1>7 DEF StoreNext

\* Nothing takes a signed operation's bytes, candidates or claims away.
THEOREM SignedSafety == StoreSpec => SignedIsForever
BY TypeCorrect, RowsSafety, CustodyStep, PTL DEF StoreSpec, SignedIsForever

----------------------------------------------------------------------------
(* What the sessions rely on, and what no call of the store takes back.    *)

Submitted == {"submitted", "confirmed"}

\* The operation holds the nonce that the transaction spends.
HasClaim(id, tx) == nonceClaims[id] = [address |-> tx.from, nonce |-> tx.nonce]

Recoverable(tx) == \E id \in Ids : tx \in Candidates(id) /\ state[id] \in Submitted

StoreOK == TypeOK /\ RowsReadable /\ NonceClaimsExclusive

ClaimedIsThere == \A id \in Ids : nonceClaims[id] # None => state[id] # "absent"

\* A pending nonce that was read is no higher than the cursor has become, and
\* what is about to be marked or sent is stored.
TaskOK(h) ==
    /\ task[h].op = "prepare" => task[h].draft.tx.nonce <= nonceCursors[task[h].draft.tx.from]
    /\ task[h].op \in {"mark", "send"} => task[h].draft.tx \in Candidates(task[h].draft.id)
    /\ task[h].op = "send" => state[task[h].draft.id] \in Submitted

\* Whatever was reviewed or signed, committed or not, spends its operation's nonce.
DraftsHeld == \A h \in Handles : \A d \in drafts[h] : HasClaim(d.id, d.tx)
SignaturesHeld == \A s \in signatures : HasClaim(s.id, s.tx)

IInv ==
    /\ StoreOK /\ SessionTypeOK /\ ClaimedIsThere /\ NoNonceGap /\ SentIsRecoverable
    /\ DraftsHeld /\ SignaturesHeld /\ \A h \in Handles : TaskOK(h)

\* What no call of the store takes back.
Forward ==
    /\ \A id \in Ids : nonceClaims[id] # None => nonceClaims'[id] = nonceClaims[id]
    /\ \A a \in Accounts : nonceCursors[a] <= nonceCursors'[a]
    /\ \A id \in Ids : Candidates(id) \subseteq Candidates(id)'
    /\ \A id \in Ids : state[id] \in Submitted => state'[id] \in Submitted

\* Only reserve_nonce touches the claims and the cursors.
LEMMA ClaimsForward ==
    ASSUME StoreOK, ClaimedIsThere, [StoreNext]_storeVars
    PROVE  /\ \A id \in Ids : nonceClaims[id] # None => nonceClaims'[id] = nonceClaims[id]
           /\ \A a \in Accounts : nonceCursors[a] <= nonceCursors'[a]
           /\ \A id \in Ids : nonceClaims'[id] # nonceClaims[id] => state'[id] = "reserved"
<1> DEFINE Kept == /\ \A id \in Ids : nonceClaims[id] # None => nonceClaims'[id] = nonceClaims[id]
                   /\ \A a \in Accounts : nonceCursors[a] <= nonceCursors'[a]
                   /\ \A id \in Ids : nonceClaims'[id] # nonceClaims[id] => state'[id] = "reserved"
<1>1. ASSUME UNCHANGED <<nonceClaims, nonceCursors>>
      PROVE  Kept
  BY <1>1, ConstantsAssumption DEF StoreOK, TypeOK
<1>2. ASSUME NEW id \in Ids, NEW a \in Accounts, NEW remotePending \in 0..MaxNonce,
             ReserveNonce(id, a, remotePending)
      PROVE  Kept
  <2> DEFINE nonce == NextNonce(a, remotePending)
  <2>1. /\ state[id] = "absent" /\ state' = [state EXCEPT ![id] = "reserved"]
        /\ nonceClaims' = [nonceClaims EXCEPT ![id] = [address |-> a, nonce |-> nonce]]
        /\ nonceCursors' = [nonceCursors EXCEPT ![a] = nonce + 1]
    BY Zenon, <1>2 DEF ReserveNonce, InsertReservation
  <2>2. nonce \in Nat /\ nonceCursors[a] <= nonce
    BY ConstantsAssumption DEF StoreOK, TypeOK, NextNonce
  <2> HIDE DEF nonce
  <2>3. nonceClaims[id] = None
    BY Zenon, <2>1 DEF ClaimedIsThere
  <2>4. \A x \in Ids : nonceClaims[x] # None => nonceClaims'[x] = nonceClaims[x]
    BY Zenon, <2>1, <2>3 DEF StoreOK, TypeOK
  <2>5. \A x \in Ids : nonceClaims'[x] # nonceClaims[x] => state'[x] = "reserved"
    BY Zenon, <2>1 DEF StoreOK, TypeOK
  <2>6. \A b \in Accounts : nonceCursors[b] <= nonceCursors'[b]
    BY <2>1, <2>2, ConstantsAssumption DEF StoreOK, TypeOK
  <2> QED
    BY Zenon, <2>4, <2>5, <2>6
<1> SUFFICES Kept
  OBVIOUS
<1> HIDE DEF Kept
<1>3. CASE ScopeNext
  BY Zenon, <1>1, <1>3
     DEF ScopeNext, InvalidateSnapshot, ReconcileCheckpoint, CommitDiscovery,
         ReplaceSnapshot, InvalidateReorgFrom, claimVars
<1>4. CASE ReservationNext
  BY Zenon, <1>1, <1>2, <1>4
     DEF ReservationNext, ReserveQi, ReleaseUnsigned, ReopenUnsignedNonce, claimVars
<1>5. CASE PayloadNext
  BY SMTT(40), <1>1, <1>5
     DEF PayloadNext, CommitSigned, MarkSigned, MarkSubmitted, CommitReplacement, claimVars
<1>6. CASE ChangeNext
  BY Zenon, <1>1, <1>6 DEF ChangeNext, ReleaseChange, TakeReleasedChange, claimVars
<1>7. CASE ObservationNext
  BY ZenonT(40), <1>1, <1>7
     DEF ObservationNext, ObserveInclusion, InvalidateInclusion,
         CompareExchangeObservation, CompareExchangeFamily, claimVars
<1>8. CASE UNCHANGED storeVars
  BY Zenon, <1>1, <1>8 DEF storeVars, claimVars
<1> QED
  BY Zenon, <1>3, <1>4, <1>5, <1>6, <1>7, <1>8 DEF StoreNext

\* An id that was used stays used.
LEMMA StaysUsed ==
    ASSUME StoreOK, [StoreNext]_storeVars, NEW x \in Ids, state[x] # "absent"
    PROVE  state'[x] # "absent"
<1> USE DEF rowVars
<1>1. ASSUME NEW id \in Ids, NEW s, s # "absent", state' = [state EXCEPT ![id] = s]
      PROVE  state'[x] # "absent"
  BY Zenon, <1>1 DEF StoreOK, TypeOK
<1>2. CASE ScopeNext
  BY Zenon, <1>2
     DEF ScopeNext, InvalidateSnapshot, ReconcileCheckpoint, CommitDiscovery,
         ReplaceSnapshot, InvalidateReorgFrom
<1>3. CASE ReservationNext
  BY Zenon, <1>1, <1>3
     DEF ReservationNext, ReserveQi, ReserveNonce, InsertReservation, ReleaseUnsigned, ReopenUnsignedNonce
<1>4. CASE PayloadNext
  BY ZenonT(60), <1>1, <1>4
     DEF PayloadNext, CommitSigned, MarkSigned, MarkSubmitted, CommitReplacement
<1>5. CASE ChangeNext
  BY Zenon, <1>5 DEF ChangeNext, ReleaseChange, TakeReleasedChange
<1>6. CASE ObservationNext
  BY ZenonT(40), <1>1, <1>6
     DEF ObservationNext, ObserveInclusion, InvalidateInclusion,
         CompareExchangeObservation, CompareExchangeFamily
<1>7. CASE UNCHANGED storeVars
  BY Zenon, <1>7 DEF storeVars
<1> QED
  BY Zenon, <1>2, <1>3, <1>4, <1>5, <1>6, <1>7 DEF StoreNext

\* The store keeps its own invariants, and what the sessions rely on.
LEMMA StoreForward ==
    ASSUME StoreOK, ClaimedIsThere, [StoreNext]_storeVars
    PROVE  StoreOK' /\ ClaimedIsThere' /\ Forward
<1>1. StoreOK'
  BY Zenon, StepType, RowsStep, NonceStep DEF StoreOK
<1>2. ClaimedIsThere'
  BY Zenon, ClaimsForward, StaysUsed DEF ClaimedIsThere
<1>3. ASSUME NEW id \in Ids
      PROVE  /\ Candidates(id) \subseteq Candidates(id)'
             /\ state[id] \in Submitted => state'[id] \in Submitted
  <2>1. CASE UNCHANGED storeVars
    BY Zenon, <2>1 DEF storeVars, rowVars, payloadVars, Candidates
  <2>2. CASE \A x \in Ids : CustodyKept(x)
    <3>1. CASE transaction[id] = None
      <4>1. Candidates(id) = {}
        BY Zenon, <3>1, UnsignedHasNoCandidates DEF StoreOK, RowsReadable
      <4>2. state[id] \notin Submitted
        BY Zenon, <3>1 DEF StoreOK, RowsReadable, RowReadable, Submitted
      <4> QED
        BY Zenon, <4>1, <4>2
    <3>2. CASE transaction[id] # None
      <4>1. state[id] \in {"signed", "submitted", "confirmed"}
        BY Zenon, <3>2 DEF StoreOK, RowsReadable, RowReadable, TypeOK, States
      <4> QED
        BY Zenon, <2>2, <4>1 DEF CustodyKept, Submitted
    <3> QED
      BY Zenon, <3>1, <3>2
  <2> QED
    BY Zenon, <2>1, <2>2, CustodyStep DEF StoreOK
<1> QED
  BY Zenon, <1>1, <1>2, <1>3, ClaimsForward DEF Forward

----------------------------------------------------------------------------
(* What a step must show.                                                  *)

\* The fields of an account transaction; the claim on its nonce is a claim.
LEMMA QuaiFields ==
    ASSUME NEW tx \in QuaiTx
    PROVE  /\ tx \in Tx /\ tx.kind = "quai" /\ tx.from \in Accounts /\ tx.nonce \in 0..MaxNonce
           /\ [address |-> tx.from, nonce |-> tx.nonce] # None
BY NoneAssumption DEF QuaiTx, Tx, NonceClaim

\* The fields of a draft.
LEMMA DraftFields ==
    ASSUME NEW d \in Draft
    PROVE  d.id \in Ids /\ d.tx \in QuaiTx /\ d.parent \in QuaiTx \cup {None}
BY DEF Draft

\* A handle in the middle of a method holds that method's draft.
LEMMA TaskFields ==
    ASSUME SessionTypeOK, NEW h \in Handles, task[h].op # "idle"
    PROVE  task[h].op \in {"prepare", "commit", "mark", "send"} /\ task[h].draft \in Draft
<1>1. task[h] \in Task
  BY Zenon DEF SessionTypeOK
<1> QED
  BY <1>1 DEF Task, Idle

\* A stored candidate spends its operation's nonce.
LEMMA CandidateHeld ==
    ASSUME StoreOK, NEW id \in Ids, NEW tx \in Candidates(id), tx.kind = "quai"
    PROVE  tx \in QuaiTx /\ HasClaim(id, tx)
<1>1. tx \in Tx
  BY DEF StoreOK, TypeOK, Candidates
<1>2. tx \in QuaiTx
  BY <1>1 DEF Tx, QiTx
<1>3. ClaimMatches(id, tx)
  BY Zenon DEF StoreOK, RowsReadable, RowReadable
<1> QED
  BY <1>2, <1>3 DEF ClaimMatches, HasClaim

\* A nonce that an operation holds stays held.
LEMMA HeldForward ==
    ASSUME Forward, NEW id \in Ids, NEW tx \in QuaiTx, HasClaim(id, tx)
    PROVE  HasClaim(id, tx)'
<1>1. nonceClaims[id] # None
  BY Zenon, QuaiFields DEF HasClaim
<1> QED
  BY Zenon, <1>1 DEF Forward, HasClaim

\* A task that does not move stays right whatever others write.
LEMMA TaskForward ==
    ASSUME IInv, Forward, TypeOK', NEW h \in Handles, task'[h] = task[h]
    PROVE  TaskOK(h)'
<1>1. CASE task[h].op = "idle"
  BY <1>1 DEF TaskOK
<1>2. CASE task[h].op # "idle"
  <2> PICK d \in Draft : d = task[h].draft
    BY Zenon, <1>2, TaskFields DEF IInv
  <2>1. d.id \in Ids /\ d.tx.from \in Accounts /\ d.tx.nonce \in Nat
    <3>1. d.id \in Ids /\ d.tx \in QuaiTx
      BY Zenon, DraftFields
    <3> QED
      BY <3>1, QuaiFields, ConstantsAssumption
  <2>2. TaskOK(h)
    BY Zenon DEF IInv
  <2>3. ASSUME task[h].op = "prepare"
        PROVE  d.tx.nonce <= nonceCursors'[d.tx.from]
    <3>1. /\ d.tx.nonce <= nonceCursors[d.tx.from]
          /\ nonceCursors[d.tx.from] <= nonceCursors'[d.tx.from]
      BY Zenon, <2>1, <2>2, <2>3 DEF TaskOK, Forward
    <3>2. nonceCursors[d.tx.from] \in Nat /\ nonceCursors'[d.tx.from] \in Nat
      BY <2>1, ConstantsAssumption DEF IInv, StoreOK, TypeOK
    <3> QED
      BY <2>1, <3>1, <3>2
  <2>4. task[h].op \in {"mark", "send"} => d.tx \in Candidates(d.id)'
    BY Zenon, <2>1, <2>2 DEF TaskOK, Forward
  <2>5. task[h].op = "send" => state'[d.id] \in Submitted
    BY Zenon, <2>1, <2>2 DEF TaskOK, Forward
  <2> QED
    BY Zenon, <2>3, <2>4, <2>5 DEF TaskOK
<1> QED
  BY Zenon, <1>1, <1>2

\* A step is right if what it adds is: to the tasks, the drafts, the signatures and
\* what the node was given.
LEMMA StepKeeps ==
    ASSUME IInv, [StoreNext]_storeVars, SessionTypeOK', NoNonceGap',
           \A h \in Handles : task'[h] = task[h] \/ TaskOK(h)',
           \A h \in Handles : \A d \in drafts'[h] : d \in drafts[h] \/ HasClaim(d.id, d.tx)',
           \A s \in signatures' : s \in signatures \/ HasClaim(s.id, s.tx)',
           \A tx \in sent' : tx \in sent \/ Recoverable(tx)'
    PROVE  IInv'
<1>1. StoreOK' /\ ClaimedIsThere' /\ Forward
  BY Zenon, StoreForward DEF IInv
<1>2. \A h \in Handles : TaskOK(h)'
  BY Zenon, <1>1, TaskForward DEF StoreOK
<1>3. ASSUME NEW h \in Handles, NEW d \in drafts'[h]
      PROVE  HasClaim(d.id, d.tx)'
  <2>1. CASE d \in drafts[h]
    <3>1. d \in Draft
      BY <2>1 DEF IInv, SessionTypeOK
    <3>2. d.id \in Ids /\ d.tx \in QuaiTx
      BY Zenon, <3>1, DraftFields
    <3>3. HasClaim(d.id, d.tx)
      BY Zenon, <2>1 DEF IInv, DraftsHeld
    <3> QED
      BY Zenon, <1>1, <3>2, <3>3, HeldForward
  <2> QED
    BY Zenon, <1>3, <2>1
<1>4. ASSUME NEW s \in signatures'
      PROVE  HasClaim(s.id, s.tx)'
  <2>1. CASE s \in signatures
    <3>1. s.id \in Ids /\ s.tx \in QuaiTx
      BY <2>1 DEF IInv, SessionTypeOK
    <3>2. HasClaim(s.id, s.tx)
      BY Zenon, <2>1 DEF IInv, SignaturesHeld
    <3> QED
      BY Zenon, <1>1, <3>1, <3>2, HeldForward
  <2> QED
    BY Zenon, <1>4, <2>1
<1>5. ASSUME NEW tx \in sent'
      PROVE  Recoverable(tx)'
  <2>1. CASE tx \in sent
    BY Zenon, <1>1, <2>1 DEF IInv, SentIsRecoverable, Recoverable, Forward, Submitted
  <2> QED
    BY Zenon, <1>5, <2>1
<1>6. DraftsHeld' /\ SignaturesHeld' /\ SentIsRecoverable'
  BY Zenon, <1>3, <1>4, <1>5 DEF DraftsHeld, SignaturesHeld, SentIsRecoverable, Recoverable, Submitted
<1> QED
  BY Zenon, <1>1, <1>2, <1>6 DEF IInv

\* Nonces are claimed without a gap unless the cursors move.
LEMMA GapStays ==
    ASSUME IInv, [StoreNext]_storeVars, nonceCursors' = nonceCursors
    PROVE  NoNonceGap'
<1> SUFFICES ASSUME NEW a \in Accounts, NEW n \in 0..MaxNonce, n < nonceCursors[a]
             PROVE  \E id \in Ids : nonceClaims'[id] = [address |-> a, nonce |-> n]
  BY Zenon DEF NoNonceGap
<1>1. PICK id \in Ids : nonceClaims[id] = [address |-> a, nonce |-> n]
  BY Zenon DEF IInv, NoNonceGap
<1>2. [address |-> a, nonce |-> n] # None
  BY NoneAssumption DEF NonceClaim
<1>3. Forward
  BY Zenon, StoreForward DEF IInv
<1> QED
  BY Zenon, <1>1, <1>2, <1>3 DEF Forward

\* The next step of a method concerns its own handle only.
LEMMA ContinueTask ==
    ASSUME SessionTypeOK, NEW h \in Handles, NEW op \in {"prepare", "commit", "mark", "send"},
           NEW d \in Draft, Continue(h, op, d)
    PROVE  /\ task' \in [Handles -> Task] /\ task'[h].op = op /\ task'[h].draft = d
           /\ \A x \in Handles \ {h} : task'[x] = task[x]
<1> DEFINE new == [op |-> op, draft |-> d]
<1>1. new \in Task /\ new.op = op /\ new.draft = d
  BY DEF Task
<1> HIDE DEF new
<1>2. task \in [Handles -> Task] /\ task' = [task EXCEPT ![h] = new]
  BY Zenon DEF SessionTypeOK, Continue, new
<1> QED
  BY <1>1, <1>2

\* A method that ended leaves its handle idle.
LEMMA FinishTask ==
    ASSUME SessionTypeOK, NEW h \in Handles, Finish(h)
    PROVE  /\ task' \in [Handles -> Task] /\ TaskOK(h)'
           /\ \A x \in Handles \ {h} : task'[x] = task[x]
<1>1. Idle \in Task /\ Idle.op = "idle"
  BY DEF Task, Idle
<1>2. task \in [Handles -> Task] /\ task' = [task EXCEPT ![h] = Idle]
  BY Zenon DEF SessionTypeOK, Finish
<1>3. task'[h] = Idle /\ task' \in [Handles -> Task] /\ \A x \in Handles \ {h} : task'[x] = task[x]
  BY Zenon, <1>1, <1>2
<1>4. task'[h].op = "idle"
  BY Zenon, <1>1, <1>3
<1> QED
  BY <1>3, <1>4 DEF TaskOK

\* A draft that is returned joins those of its handle, and holds its nonce.
LEMMA ReturnDraft ==
    ASSUME SessionTypeOK, NEW h \in Handles, NEW d \in Draft, Return(h, d), HasClaim(d.id, d.tx)'
    PROVE  /\ drafts' \in [Handles -> SUBSET Draft]
           /\ \A x \in Handles : \A e \in drafts'[x] : e \in drafts[x] \/ HasClaim(e.id, e.tx)'
<1>1. drafts \in [Handles -> SUBSET Draft] /\ drafts' = [drafts EXCEPT ![h] = drafts[h] \cup {d}]
  BY Zenon DEF SessionTypeOK, Return
<1>2. drafts' \in [Handles -> SUBSET Draft]
  BY <1>1
<1>3. ASSUME NEW x \in Handles, NEW e \in drafts'[x]
      PROVE  e \in drafts[x] \/ e = d
  BY <1>1, <1>3
<1> QED
  BY Zenon, <1>2, <1>3

----------------------------------------------------------------------------
(* The steps.                                                              *)

\* The store is only read.
LEMMA Quiet ==
    ASSUME IInv, UNCHANGED storeVars
    PROVE  /\ [StoreNext]_storeVars /\ NoNonceGap'
           /\ state' = state /\ nonceClaims' = nonceClaims /\ nonceCursors' = nonceCursors
           /\ \A id \in Ids : Candidates(id)' = Candidates(id)
<1>1. /\ state' = state /\ nonceClaims' = nonceClaims /\ nonceCursors' = nonceCursors
      /\ signedPayloads' = signedPayloads /\ variants' = variants
  BY Zenon DEF storeVars, rowVars, claimVars, payloadVars
<1>2. NoNonceGap'
  BY Zenon, <1>1, GapStays
<1> QED
  BY Zenon, <1>1, <1>2 DEF Candidates

\* The node counts a nonce as pending only when a transaction was sent for it, which
\* some operation holds below the cursor.
LEMMA PendingBelowCursor ==
    ASSUME IInv, NEW a \in Accounts, NEW pending \in 0..MaxNonce, PendingAnswer(a, pending)
    PROVE  pending <= nonceCursors[a]
<1> DEFINE n == nonceCursors[a]
<1>1. n \in Nat /\ pending \in Nat
  BY ConstantsAssumption DEF IInv, StoreOK, TypeOK
<1> SUFFICES ASSUME n < pending
             PROVE  FALSE
  BY <1>1
<1>2. n \in 0..(pending - 1)
  BY <1>1
<1>3. PICK tx \in sent : tx.from = a /\ tx.nonce = n
  BY Zenon, <1>2 DEF PendingAnswer
<1>4. tx \in QuaiTx
  BY <1>3 DEF IInv, SessionTypeOK
<1>5. PICK id \in Ids : tx \in Candidates(id)
  BY Zenon, <1>3 DEF IInv, SentIsRecoverable
<1>6. HasClaim(id, tx) /\ nonceClaims[id] # None
  BY ZenonT(60), <1>4, <1>5, CandidateHeld, QuaiFields DEF IInv, HasClaim
<1>7. nonceClaims[id].nonce < nonceCursors[nonceClaims[id].address]
  BY Zenon, <1>6 DEF IInv, StoreOK, NonceClaimsExclusive
<1>8. nonceClaims[id].nonce = n /\ nonceClaims[id].address = a
  BY <1>3, <1>6 DEF HasClaim
<1>9. n < n
  BY Zenon, <1>7, <1>8
<1> QED
  BY <1>1, <1>9

\* prepare reads the pending count: no more than a nonce that was sent.
LEMMA PrepareStartStep ==
    ASSUME IInv, NEW h \in Handles, NEW id \in Ids, NEW tx \in QuaiTx, PrepareStart(h, id, tx)
    PROVE  IInv' /\ [StoreNext]_storeVars
<1> DEFINE d == [id |-> id, tx |-> tx, parent |-> None]
<1>1. d \in Draft /\ d.tx = tx
  BY DEF Draft
<1>2. /\ UNCHANGED <<storeVars, drafts, signatures, sent, mined>>
      /\ PendingAnswer(tx.from, tx.nonce) /\ Continue(h, "prepare", d)
  BY Zenon DEF PrepareStart
<1> HIDE DEF d
<1>3. /\ task' \in [Handles -> Task] /\ task'[h].op = "prepare" /\ task'[h].draft = d
      /\ \A x \in Handles \ {h} : task'[x] = task[x]
  BY ContinueTask, <1>1, <1>2 DEF IInv
<1>4. tx.nonce <= nonceCursors[tx.from]
  BY Zenon, <1>2, QuaiFields, PendingBelowCursor
<1>5. [StoreNext]_storeVars /\ NoNonceGap' /\ nonceCursors' = nonceCursors
  BY Zenon, <1>2, Quiet
<1>6. TaskOK(h)'
  BY <1>1, <1>3, <1>4, <1>5 DEF TaskOK
<1>7. SessionTypeOK'
  BY Zenon, <1>2, <1>3 DEF IInv, SessionTypeOK
<1> QED
  BY Zenon, <1>2, <1>3, <1>5, <1>6, <1>7, StepKeeps

\* reserve_nonce: what the node counted as pending skips nothing.
LEMMA PrepareReserveStep ==
    ASSUME IInv, NEW h \in Handles, PrepareReserve(h)
    PROVE  IInv' /\ [StoreNext]_storeVars
<1>1. PICK d \in Draft : d = task[h].draft /\ task[h].op = "prepare"
  BY Zenon, TaskFields DEF PrepareReserve, IInv
<1> DEFINE a == d.tx.from
<1>2. d.id \in Ids /\ d.tx \in QuaiTx /\ a \in Accounts /\ d.tx.nonce \in 0..MaxNonce
  BY Zenon, <1>1, DraftFields, QuaiFields
<1>3. PICK n \in Nat : n = nonceCursors[a] /\ d.tx.nonce <= n
  BY <1>1, <1>2, ConstantsAssumption DEF IInv, TaskOK, StoreOK, TypeOK
<1> DEFINE tx == [d.tx EXCEPT !.nonce = n]
           e == [d EXCEPT !.tx = tx]
<1>4. NextNonce(a, d.tx.nonce) = n
  BY <1>2, <1>3, ConstantsAssumption DEF NextNonce
<1>5. /\ ReserveNonce(d.id, a, d.tx.nonce) /\ Finish(h) /\ UNCHANGED <<signatures, sent, mined>>
      /\ Return(h, e)
  BY Zenon, <1>1, <1>4 DEF PrepareReserve
<1>6. [StoreNext]_storeVars
  BY Zenon, <1>2, <1>5 DEF StoreNext, ReservationNext
<1>7. /\ n < MaxNonce /\ nonceClaims' = [nonceClaims EXCEPT ![d.id] = [address |-> a, nonce |-> n]]
      /\ nonceCursors' = [nonceCursors EXCEPT ![a] = n + 1]
  BY Zenon, <1>4, <1>5 DEF ReserveNonce
<1>8. tx \in QuaiTx /\ tx.from = a /\ tx.nonce = n
  BY <1>2, <1>3, <1>7, ConstantsAssumption DEF QuaiTx
<1> HIDE DEF tx
<1>9. e \in Draft /\ e.id = d.id /\ e.tx = tx
  BY <1>1, <1>8 DEF Draft
<1> HIDE DEF e
<1>10. nonceClaims'[d.id] = [address |-> a, nonce |-> n]
  BY Zenon, <1>2, <1>7 DEF IInv, StoreOK, TypeOK
<1>11. HasClaim(e.id, e.tx)'
  BY Zenon, <1>8, <1>9, <1>10 DEF HasClaim
<1>12. NoNonceGap'
  <2> SUFFICES ASSUME NEW b \in Accounts, NEW m \in 0..MaxNonce, m < nonceCursors'[b]
               PROVE  \E id \in Ids : nonceClaims'[id] = [address |-> b, nonce |-> m]
    BY Zenon DEF NoNonceGap
  <2>1. CASE b = a /\ m = n
    BY Zenon, <1>2, <1>10, <2>1
  <2>2. CASE ~(b = a /\ m = n)
    <3>1. m < nonceCursors[b]
      <4>1. CASE b = a
        <5>1. nonceCursors'[b] = n + 1
          BY Zenon, <1>2, <1>7, <4>1 DEF IInv, StoreOK, TypeOK
        <5> QED
          BY <1>3, <2>2, <4>1, <5>1, ConstantsAssumption
      <4>2. CASE b # a
        <5>1. nonceCursors'[b] = nonceCursors[b]
          BY Zenon, <1>7, <4>2 DEF IInv, StoreOK, TypeOK
        <5> QED
          BY Zenon, <5>1
      <4> QED
        BY Zenon, <4>1, <4>2
    <3>2. PICK id \in Ids : nonceClaims[id] = [address |-> b, nonce |-> m]
      BY Zenon, <3>1 DEF IInv, NoNonceGap
    <3>3. [address |-> b, nonce |-> m] # None
      BY NoneAssumption DEF NonceClaim
    <3>4. Forward
      BY Zenon, <1>6, StoreForward DEF IInv
    <3> QED
      BY Zenon, <3>2, <3>3, <3>4 DEF Forward
  <2> QED
    BY Zenon, <2>1, <2>2
<1>13. /\ task' \in [Handles -> Task] /\ TaskOK(h)'
       /\ \A x \in Handles \ {h} : task'[x] = task[x]
  BY Zenon, <1>5, FinishTask DEF IInv
<1>14. /\ drafts' \in [Handles -> SUBSET Draft]
       /\ \A x \in Handles : \A f \in drafts'[x] : f \in drafts[x] \/ HasClaim(f.id, f.tx)'
  BY Zenon, <1>5, <1>9, <1>11, ReturnDraft DEF IInv
<1>15. SessionTypeOK'
  BY Zenon, <1>5, <1>13, <1>14 DEF IInv, SessionTypeOK
<1> QED
  BY ZenonT(60), <1>5, <1>6, <1>12, <1>13, <1>14, <1>15, StepKeeps

\* prepare_reserved and prepare_replacement, whose drafts are checked against the rows.
LEMMA ReviewStep ==
    ASSUME IInv, NEW h \in Handles, NEW d \in Draft, HasClaim(d.id, d.tx), Return(h, d),
           UNCHANGED <<storeVars, task, signatures, sent, mined>>
    PROVE  IInv' /\ [StoreNext]_storeVars
<1>1. [StoreNext]_storeVars /\ NoNonceGap' /\ nonceClaims' = nonceClaims
  BY Zenon, Quiet
<1>2. HasClaim(d.id, d.tx)'
  BY Zenon, <1>1 DEF HasClaim
<1>3. /\ drafts' \in [Handles -> SUBSET Draft]
      /\ \A x \in Handles : \A f \in drafts'[x] : f \in drafts[x] \/ HasClaim(f.id, f.tx)'
  BY Zenon, <1>2, ReturnDraft DEF IInv
<1>4. SessionTypeOK'
  BY Zenon, <1>3 DEF IInv, SessionTypeOK
<1> QED
  BY Zenon, <1>1, <1>3, <1>4, StepKeeps

\* prepare_reserved drafts for a nonce the operation already holds.
LEMMA PrepareReservedStep ==
    ASSUME IInv, NEW h \in Handles, NEW id \in Ids, NEW tx \in QuaiTx, NEW pending,
           PrepareReserved(h, id, tx, pending)
    PROVE  IInv' /\ [StoreNext]_storeVars
<1> DEFINE d == [id |-> id, tx |-> tx, parent |-> None]
<1>1. d \in Draft /\ d.id = id /\ d.tx = tx
  BY DEF Draft
<1>2. /\ nonceClaims[id] = [address |-> tx.from, nonce |-> tx.nonce] /\ Return(h, d)
      /\ UNCHANGED <<storeVars, task, signatures, sent, mined>>
  BY Zenon DEF PrepareReserved
<1> HIDE DEF d
<1>3. HasClaim(d.id, d.tx)
  BY Zenon, <1>1, <1>2 DEF HasClaim
<1> QED
  BY Zenon, <1>1, <1>2, <1>3, ReviewStep

\* A replacement draft spends the nonce of the candidate it replaces.
LEMMA PrepareReplacementStep ==
    ASSUME IInv, NEW h \in Handles, NEW id \in Ids, NEW fee \in Fees, NEW parent \in Candidates(id),
           PrepareReplacement(h, id, parent, fee)
    PROVE  IInv' /\ [StoreNext]_storeVars
<1> DEFINE tx == [parent EXCEPT !.fee = fee]
           d == [id |-> id, tx |-> tx, parent |-> parent]
<1>1. /\ parent.kind = "quai" /\ Return(h, d)
      /\ UNCHANGED <<storeVars, task, signatures, sent, mined>>
  BY Zenon DEF PrepareReplacement
<1>2. parent \in QuaiTx /\ HasClaim(id, parent)
  BY Zenon, <1>1, CandidateHeld DEF IInv
<1>3. tx \in QuaiTx /\ tx.from = parent.from /\ tx.nonce = parent.nonce
  BY <1>2 DEF QuaiTx
<1> HIDE DEF tx
<1>4. d \in Draft /\ d.id = id /\ d.tx = tx
  BY <1>2, <1>3 DEF Draft
<1> HIDE DEF d
<1>5. HasClaim(d.id, d.tx)
  BY Zenon, <1>2, <1>3, <1>4 DEF HasClaim
<1> QED
  BY Zenon, <1>1, <1>4, <1>5, ReviewStep

\* A signer's answer, before or without a commit.
LEMMA SignaturesGrow ==
    ASSUME IInv, NEW h \in Handles, NEW d \in drafts[h], UNCHANGED storeVars,
           signatures' = signatures \cup {Signature(d)}
    PROVE  /\ d \in Draft /\ signatures' \subseteq [id : Ids, tx : QuaiTx]
           /\ \A s \in signatures' : s \in signatures \/ HasClaim(s.id, s.tx)'
<1>1. d \in Draft
  BY DEF IInv, SessionTypeOK
<1>2. d.id \in Ids /\ d.tx \in QuaiTx
  BY Zenon, <1>1, DraftFields
<1>3. /\ Signature(d) \in [id : Ids, tx : QuaiTx]
      /\ Signature(d).id = d.id /\ Signature(d).tx = d.tx
  BY <1>2 DEF Signature
<1>4. HasClaim(d.id, d.tx)'
  BY Zenon, Quiet DEF IInv, DraftsHeld, HasClaim
<1>5. HasClaim(Signature(d).id, Signature(d).tx)'
  BY Zenon, <1>3, <1>4 DEF HasClaim
<1>6. signatures' \subseteq [id : Ids, tx : QuaiTx]
  BY <1>3 DEF IInv, SessionTypeOK
<1>7. ASSUME NEW s \in signatures'
      PROVE  s \in signatures \/ s = Signature(d)
  BY <1>7
<1> QED
  BY Zenon, <1>1, <1>5, <1>6, <1>7

\* A remote signature spends the nonce of its draft.
LEMMA RemoteSignStep ==
    ASSUME IInv, NEW h \in Handles, NEW d \in drafts[h], RemoteSign(h, d)
    PROVE  IInv' /\ [StoreNext]_storeVars
<1>1. /\ UNCHANGED <<storeVars, task, drafts, sent, mined>>
      /\ signatures' = signatures \cup {Signature(d)}
  BY Zenon DEF RemoteSign
<1>2. /\ signatures' \subseteq [id : Ids, tx : QuaiTx]
      /\ \A s \in signatures' : s \in signatures \/ HasClaim(s.id, s.tx)'
  BY Zenon, <1>1, SignaturesGrow
<1>3. SessionTypeOK'
  BY Zenon, <1>1, <1>2 DEF IInv, SessionTypeOK
<1> QED
  BY Zenon, <1>1, <1>2, <1>3, Quiet, StepKeeps

\* sign makes the signature before the store hears of it.
LEMMA SignStartStep ==
    ASSUME IInv, NEW h \in Handles, NEW d \in drafts[h], SignStart(h, d)
    PROVE  IInv' /\ [StoreNext]_storeVars
<1>1. /\ UNCHANGED <<storeVars, drafts, sent, mined>> /\ Continue(h, "commit", d)
      /\ signatures' = signatures \cup {Signature(d)}
  BY Zenon DEF SignStart
<1>2. /\ d \in Draft /\ signatures' \subseteq [id : Ids, tx : QuaiTx]
      /\ \A s \in signatures' : s \in signatures \/ HasClaim(s.id, s.tx)'
  BY Zenon, <1>1, SignaturesGrow
<1>3. /\ task' \in [Handles -> Task] /\ task'[h].op = "commit"
      /\ \A x \in Handles \ {h} : task'[x] = task[x]
  BY <1>1, <1>2, ContinueTask DEF IInv
<1>4. TaskOK(h)'
  BY <1>3 DEF TaskOK
<1>5. SessionTypeOK'
  BY Zenon, <1>1, <1>2, <1>3 DEF IInv, SessionTypeOK
<1> QED
  BY ZenonT(60), <1>1, <1>2, <1>3, <1>4, <1>5, Quiet, StepKeeps

\* A method ends, after a call of the store that moves no cursor, or without one.
LEMMA EndsStep ==
    ASSUME IInv, NEW h \in Handles, Finish(h), [StoreNext]_storeVars, nonceCursors' = nonceCursors,
           UNCHANGED <<drafts, signatures, sent, mined>>
    PROVE  IInv' /\ [StoreNext]_storeVars
<1>1. /\ task' \in [Handles -> Task] /\ TaskOK(h)'
      /\ \A x \in Handles \ {h} : task'[x] = task[x]
  BY Zenon, FinishTask DEF IInv
<1>2. SessionTypeOK'
  BY Zenon, <1>1 DEF IInv, SessionTypeOK
<1> QED
  BY Zenon, <1>1, <1>2, GapStays, StepKeeps

\* Then the store commits it, or refuses it and nothing else changes.
LEMMA SignCommitStep ==
    ASSUME IInv, NEW h \in Handles, SignCommit(h)
    PROVE  IInv' /\ [StoreNext]_storeVars
<1> DEFINE d == task[h].draft
<1>1. d \in Draft
  BY Zenon, TaskFields DEF SignCommit, IInv
<1>2. d.id \in Ids /\ d.tx \in Tx
  BY Zenon, <1>1, DraftFields, QuaiFields
<1>3. /\ CommitSigned(d.id, d.tx) \/ CommitReplacement(d.id, d.parent, d.tx)
      /\ Finish(h) /\ UNCHANGED <<drafts, signatures, sent, mined>>
  BY Zenon DEF SignCommit
<1>4. nonceCursors' = nonceCursors
  BY Zenon, <1>3 DEF CommitSigned, CommitReplacement, claimVars
<1>5. [StoreNext]_storeVars
  BY Zenon, <1>2, <1>3 DEF StoreNext, PayloadNext, CommitReplacement
<1> QED
  BY Zenon, <1>3, <1>4, <1>5, EndsStep

\* A broadcast has read what it will send.
LEMMA BroadcastReads ==
    ASSUME IInv, NEW h \in Handles, NEW id \in Ids, NEW tx \in Candidates(id), tx.kind = "quai",
           NEW op \in {"mark", "send"}, op = "send" => state[id] \in Submitted,
           Continue(h, op, [id |-> id, tx |-> tx, parent |-> None]),
           UNCHANGED <<storeVars, drafts, signatures, sent, mined>>
    PROVE  IInv' /\ [StoreNext]_storeVars
<1> DEFINE d == [id |-> id, tx |-> tx, parent |-> None]
<1>1. tx \in QuaiTx
  BY Zenon, CandidateHeld DEF IInv
<1>2. d \in Draft /\ d.id = id /\ d.tx = tx
  BY <1>1 DEF Draft
<1>3. Continue(h, op, d)
  OBVIOUS
<1> HIDE DEF d
<1>4. /\ task' \in [Handles -> Task] /\ task'[h].op = op /\ task'[h].draft = d
      /\ \A x \in Handles \ {h} : task'[x] = task[x]
  BY <1>2, <1>3, ContinueTask DEF IInv
<1>5. op # "prepare"
  OBVIOUS
<1>6. Candidates(id)' = Candidates(id) /\ state' = state /\ [StoreNext]_storeVars /\ NoNonceGap'
  BY Zenon, Quiet
<1>7. TaskOK(h)'
  BY Zenon, <1>2, <1>4, <1>5, <1>6 DEF TaskOK
<1>8. SessionTypeOK'
  BY Zenon, <1>4 DEF IInv, SessionTypeOK
<1> QED
  BY Zenon, <1>4, <1>6, <1>7, <1>8, StepKeeps

\* broadcast reads a stored candidate, and sends at once only what is
\* Submitted.
LEMMA BroadcastStartStep ==
    ASSUME IInv, NEW h \in Handles, NEW id \in Ids, BroadcastStart(h, id)
    PROVE  IInv' /\ [StoreNext]_storeVars
<1> DEFINE tx == signedPayloads[id]
           op == IF state[id] = "signed" THEN "mark" ELSE "send"
<1>1. tx \in Candidates(id)
  BY DEF BroadcastStart, Candidates
<1>2. op \in {"mark", "send"} /\ (op = "send" => state[id] \in Submitted)
  BY DEF BroadcastStart, Submitted
<1>3. /\ tx.kind = "quai" /\ Continue(h, op, [id |-> id, tx |-> tx, parent |-> None])
      /\ UNCHANGED <<storeVars, drafts, signatures, sent, mined>>
  BY Zenon DEF BroadcastStart
<1> HIDE DEF op
<1> QED
  BY Zenon, <1>1, <1>2, <1>3, BroadcastReads

\* The marker is durable before the send.
LEMMA BroadcastMarkStep ==
    ASSUME IInv, NEW h \in Handles, BroadcastMark(h)
    PROVE  IInv' /\ [StoreNext]_storeVars
<1>1. PICK d \in Draft : d = task[h].draft /\ task[h].op = "mark" /\ d.id \in Ids
  BY Zenon, TaskFields, DraftFields DEF BroadcastMark, IInv
<1>2. /\ MarkSubmitted(d.id) \/ (state[d.id] = "submitted" /\ UNCHANGED storeVars)
      /\ Continue(h, "send", d) /\ UNCHANGED <<drafts, signatures, sent, mined>>
  BY Zenon, <1>1 DEF BroadcastMark
<1>3. [StoreNext]_storeVars
  BY Zenon, <1>1, <1>2 DEF StoreNext, PayloadNext
<1>4. nonceCursors' = nonceCursors
  BY Zenon, <1>2 DEF MarkSubmitted, storeVars, claimVars
<1>5. state'[d.id] = "submitted"
  BY Zenon, <1>1, <1>2 DEF MarkSubmitted, storeVars, rowVars, IInv, StoreOK, TypeOK
<1>6. d.tx \in Candidates(d.id)'
  <2>1. d.tx \in Candidates(d.id)
    BY Zenon, <1>1 DEF IInv, TaskOK
  <2>2. Forward
    BY Zenon, <1>3, StoreForward DEF IInv
  <2> QED
    BY Zenon, <1>1, <2>1, <2>2 DEF Forward
<1>7. /\ task' \in [Handles -> Task] /\ task'[h].op = "send" /\ task'[h].draft = d
      /\ \A x \in Handles \ {h} : task'[x] = task[x]
  BY <1>1, <1>2, ContinueTask DEF IInv
<1>8. TaskOK(h)'
  BY <1>5, <1>6, <1>7 DEF TaskOK, Submitted
<1>9. SessionTypeOK'
  BY Zenon, <1>2, <1>7 DEF IInv, SessionTypeOK
<1> QED
  BY ZenonT(60), <1>2, <1>3, <1>4, <1>7, <1>8, <1>9, GapStays, StepKeeps

\* What is sent is a candidate of an operation marked Submitted.
LEMMA BroadcastSendStep ==
    ASSUME IInv, NEW h \in Handles, BroadcastSend(h)
    PROVE  IInv' /\ [StoreNext]_storeVars
<1>1. PICK d \in Draft : d = task[h].draft /\ task[h].op = "send" /\ d.id \in Ids /\ d.tx \in QuaiTx
  BY Zenon, TaskFields, DraftFields DEF BroadcastSend, IInv
<1>2. /\ sent' = sent \cup {d.tx} /\ Finish(h)
      /\ UNCHANGED <<storeVars, drafts, signatures, mined>>
  BY Zenon, <1>1 DEF BroadcastSend
<1>3. d.tx \in Candidates(d.id) /\ state[d.id] \in Submitted
  BY Zenon, <1>1 DEF IInv, TaskOK
<1>4. /\ Candidates(d.id)' = Candidates(d.id) /\ state' = state
      /\ [StoreNext]_storeVars /\ NoNonceGap'
  BY Zenon, <1>1, <1>2, Quiet
<1>5. Recoverable(d.tx)'
  BY Zenon, <1>1, <1>3, <1>4 DEF Recoverable
<1>6. /\ task' \in [Handles -> Task] /\ TaskOK(h)'
      /\ \A x \in Handles \ {h} : task'[x] = task[x]
  BY Zenon, <1>2, FinishTask DEF IInv
<1>7. sent' \subseteq QuaiTx
  BY <1>1, <1>2 DEF IInv, SessionTypeOK
<1>8. \A tx \in sent' : tx \in sent \/ Recoverable(tx)'
  <2>1. ASSUME NEW tx \in sent'
        PROVE  tx \in sent \/ tx = d.tx
    BY <1>2, <2>1
  <2> QED
    BY Zenon, <1>5, <2>1
<1>9. SessionTypeOK'
  BY Zenon, <1>2, <1>6, <1>7 DEF IInv, SessionTypeOK
<1> QED
  BY ZenonT(60), <1>2, <1>4, <1>6, <1>8, <1>9, StepKeeps

\* A method that fails, and a process that dies, take nothing of the store.
LEMMA AbandonStep ==
    ASSUME IInv, NEW h \in Handles, Abandon(h) \/ Crash(h)
    PROVE  IInv' /\ [StoreNext]_storeVars
<1>1. Finish(h) /\ UNCHANGED <<storeVars, signatures, sent, mined>>
  BY Zenon DEF Abandon, Crash
<1>2. drafts' = drafts \/ drafts' = [drafts EXCEPT ![h] = {}]
  BY Zenon DEF Abandon, Crash
<1>3. drafts \in [Handles -> SUBSET Draft]
  BY Zenon DEF IInv, SessionTypeOK
<1>4. drafts' \in [Handles -> SUBSET Draft]
  BY <1>2, <1>3
<1>5. \A x \in Handles : \A d \in drafts'[x] : d \in drafts[x]
  BY <1>2, <1>3
<1>6. /\ task' \in [Handles -> Task] /\ TaskOK(h)'
      /\ \A x \in Handles \ {h} : task'[x] = task[x]
  BY Zenon, <1>1, FinishTask DEF IInv
<1>7. SessionTypeOK'
  BY Zenon, <1>1, <1>4, <1>6 DEF IInv, SessionTypeOK
<1> QED
  BY ZenonT(60), <1>1, <1>5, <1>6, <1>7, Quiet, StepKeeps

\* The application's repairs and reconciliations are calls of the store alone.
LEMMA StoreStep ==
    ASSUME IInv, UNCHANGED sessionVars, [StoreNext]_storeVars, nonceCursors' = nonceCursors
    PROVE  IInv' /\ [StoreNext]_storeVars
<1>1. UNCHANGED <<task, drafts, signatures, sent, mined>>
  BY Zenon DEF sessionVars
<1>2. SessionTypeOK'
  BY Zenon, <1>1 DEF IInv, SessionTypeOK
<1> QED
  BY Zenon, <1>1, <1>2, GapStays, StepKeeps

\* Releasing, reopening, confirming and unconfirming an operation.
LEMMA RepairStep ==
    ASSUME IInv, NEW id \in Ids,
           Release(id) \/ Reopen(id) \/ Unconfirm(id) \/ \E block \in Checkpoints : Confirm(id, block)
    PROVE  IInv' /\ [StoreNext]_storeVars
<1>1. ASSUME Release(id) \/ Reopen(id)
      PROVE  IInv' /\ [StoreNext]_storeVars
  <2>1. UNCHANGED sessionVars /\ nonceCursors' = nonceCursors
    BY Zenon, <1>1 DEF Release, Reopen, ReleaseUnsigned, ReopenUnsignedNonce, claimVars
  <2>2. [StoreNext]_storeVars
    BY Zenon, <1>1 DEF Release, Reopen, StoreNext, ReservationNext
  <2> QED
    BY Zenon, <2>1, <2>2, StoreStep
<1>2. ASSUME Unconfirm(id)
      PROVE  IInv' /\ [StoreNext]_storeVars
  <2>1. /\ UNCHANGED sessionVars /\ nonceCursors' = nonceCursors
        /\ state[id] = "confirmed" /\ InvalidateInclusion(id, inclusion[id])
    BY Zenon, <1>2 DEF Unconfirm, InvalidateInclusion, claimVars
  <2>2. inclusion[id] \in Checkpoints
    BY Zenon, <2>1 DEF IInv, StoreOK, TypeOK, RowsReadable, RowReadable
  <2>3. [StoreNext]_storeVars
    BY Zenon, <2>1, <2>2 DEF StoreNext, ObservationNext
  <2> QED
    BY Zenon, <2>1, <2>3, StoreStep
<1>3. ASSUME NEW block \in Checkpoints, Confirm(id, block)
      PROVE  IInv' /\ [StoreNext]_storeVars
  <2>1. /\ UNCHANGED sessionVars /\ nonceCursors' = nonceCursors /\ transaction[id] \in mined
        /\ ObserveInclusion(generation, id, transaction[id], block)
    BY Zenon, <1>3 DEF Confirm, ObserveInclusion, claimVars
  <2>2. transaction[id] \in QuaiTx
    BY <2>1 DEF IInv, SessionTypeOK
  <2>3. transaction[id] \in Tx /\ generation \in 0..MaxGeneration
    BY Zenon, <2>2, QuaiFields DEF IInv, StoreOK, TypeOK
  <2>4. [StoreNext]_storeVars
    BY Zenon, <2>1, <2>3 DEF StoreNext, ObservationNext
  <2> QED
    BY Zenon, <2>1, <2>4, StoreStep
<1> QED
  BY Zenon, <1>1, <1>2, <1>3

\* Blocks mined and reorganized are the node's affair.
LEMMA NodeStep ==
    ASSUME IInv, NEW tx \in sent, Mine(tx) \/ Reorganize(tx)
    PROVE  IInv' /\ [StoreNext]_storeVars
<1>1. UNCHANGED <<storeVars, task, drafts, signatures, sent>>
  BY Zenon DEF Mine, Reorganize
<1>2. mined' \subseteq QuaiTx
  BY DEF Mine, Reorganize, IInv, SessionTypeOK
<1>3. SessionTypeOK'
  BY Zenon, <1>1, <1>2 DEF IInv, SessionTypeOK
<1> QED
  BY Zenon, <1>1, <1>3, Quiet, StepKeeps

\* One step of one handle.
LEMMA HandleStep ==
    ASSUME IInv, NEW h \in Handles, HandleNext(h)
    PROVE  IInv' /\ [StoreNext]_storeVars
<1>1. ASSUME NEW id \in Ids, NEW tx \in Candidates(id), BroadcastCandidate(h, id, tx)
      PROVE  IInv' /\ [StoreNext]_storeVars
  <2>1. /\ tx.kind = "quai" /\ Continue(h, "mark", [id |-> id, tx |-> tx, parent |-> None])
        /\ UNCHANGED <<storeVars, drafts, signatures, sent, mined>>
    BY Zenon, <1>1 DEF BroadcastCandidate
  <2>2. "mark" # "send"
    OBVIOUS
  <2> QED
    BY Zenon, <2>1, <2>2, BroadcastReads
<1> QED
  BY ZenonT(60), <1>1, PrepareStartStep, PrepareReservedStep, PrepareReplacementStep,
     PrepareReserveStep, RemoteSignStep, SignStartStep, SignCommitStep, BroadcastStartStep,
     BroadcastMarkStep, BroadcastSendStep, AbandonStep DEF HandleNext

\* Every step keeps the invariant and is, for the database, one call or none.
LEMMA StepIInv == IInv /\ [Next]_vars => IInv' /\ [StoreNext]_storeVars
<1> SUFFICES ASSUME IInv, [Next]_vars
             PROVE  IInv' /\ [StoreNext]_storeVars
  BY Zenon
<1>1. CASE UNCHANGED vars
  <2>1. UNCHANGED storeVars /\ UNCHANGED sessionVars
    BY Zenon, <1>1 DEF vars
  <2> QED
    BY Zenon, <2>1, Quiet, StoreStep
<1>2. CASE Next
  BY Zenon, <1>2, HandleStep, RepairStep, NodeStep DEF Next
<1> QED
  BY Zenon, <1>1, <1>2

\* The invariant holds of an empty database without sessions.
LEMMA InitIInv == Init => IInv
<1> SUFFICES ASSUME Init
             PROVE  IInv
  BY Zenon
<1>1. StoreInit
  BY Zenon DEF Init
<1>2. StoreOK
  <2>1. RowsReadable
    BY <1>1 DEF StoreInit, RowsReadable, RowReadable, Candidates
  <2>2. NonceClaimsExclusive
    BY <1>1 DEF StoreInit, NonceClaimsExclusive
  <2> QED
    BY Zenon, <1>1, <2>1, <2>2, InitType DEF StoreOK
<1>3. ClaimedIsThere /\ NoNonceGap
  BY <1>1, ConstantsAssumption DEF StoreInit, ClaimedIsThere, NoNonceGap
<1>4. SessionTypeOK
  BY DEF Init, SessionTypeOK, Task
<1>5. SentIsRecoverable /\ DraftsHeld /\ SignaturesHeld
  BY DEF Init, SentIsRecoverable, DraftsHeld, SignaturesHeld
<1>6. \A h \in Handles : TaskOK(h)
  BY DEF Init, TaskOK, Idle
<1> QED
  BY Zenon, <1>2, <1>3, <1>4, <1>5, <1>6 DEF IInv

\* For the database, sessions of any number of handles in any number of processes,
\* with their awaits, failures and crashes, are callers of one store: whatever is
\* proved of StoreSpec holds of them.
THEOREM SessionsImplementStore == Spec => StoreSpec
<1>1. Init => StoreInit
  BY DEF Init
<1> QED
  BY <1>1, InitIInv, StepIInv, PTL DEF Spec, StoreSpec

\* Wherever a process ends, what the node was given is stored and marked, no nonce
\* below the cursor is without an operation, and no two operations have competing
\* signatures, those that were never committed included.
THEOREM SessionsSafety == Spec => []SessionsRecover
<1>1. IInv => SessionsRecover
  <2> SUFFICES ASSUME IInv, NEW s \in signatures, NEW t \in signatures,
                      s.tx.from = t.tx.from, s.tx.nonce = t.tx.nonce
               PROVE  s.id = t.id
    BY Zenon DEF IInv, SessionsRecover, SignaturesNeverCompete
  <2>1. s.id \in Ids /\ t.id \in Ids /\ s.tx \in QuaiTx
    BY DEF IInv, SessionTypeOK
  <2>2. HasClaim(s.id, s.tx) /\ HasClaim(t.id, t.tx)
    BY Zenon DEF IInv, SignaturesHeld
  <2>3. nonceClaims[s.id] # None /\ nonceClaims[s.id] = nonceClaims[t.id]
    BY Zenon, <2>1, <2>2, QuaiFields DEF HasClaim
  <2> QED
    BY Zenon, <2>1, <2>3 DEF IInv, StoreOK, NonceClaimsExclusive
<1> QED
  BY <1>1, InitIInv, StepIInv, PTL DEF Spec
=============================================================================
