-------------------------- MODULE FamilyObservation --------------------------
(***************************************************************************)
(* Observing every signed candidate of one operation (recovery/family.rs,  *)
(* candidate_observation.rs): the head, then the receipt and block of each *)
(* candidate, then every anchor again, and one row of the store's cache.   *)
(* Meanwhile the chain moves and a handle signs another candidate.         *)
(***************************************************************************)
EXTENDS ChainView, Sequences, FiniteSets, SequencesExt

CONSTANTS
    Candidates,     \* root and replacements, in the order they are signed
    Where,          \* candidate -> the blocks that include it
    MaxRevision     \* bound: how often the row is written

FamilyAssumption ==
    /\ Candidates \in Seq(Nat) /\ Candidates # <<>> /\ IsInjective(Candidates)
    /\ \A c \in Range(Candidates) : Where[c] \subseteq Blocks \ {Genesis}
    \* One nonce, or one input, has one occupant on a branch.
    /\ \A b \in Blocks :
         Cardinality({<<c, h>> \in Range(Candidates) \X Blocks : h \in Where[c] \cap Branch[b]}) <= 1

VARIABLES
    signed,         \* how many of the candidates are stored
    row,            \* the family row of the cache: revision and payload
    pc, hashes, expected,
    tip, rows, anchors, canonical,  \* the observation
    at              \* history: the chain when the anchors were checked first

store == <<signed, row>>
reads == <<tip, rows, anchors, canonical, at>>
vars == <<chain, store, pc, hashes, expected, reads>>

Status == {"not_observed", "pending", "noncanonical", "included"}
NoRow == [revision |-> 0, payload |-> <<>>]

TypeOK ==
    /\ ChainTypeOK /\ signed \in 1..Len(Candidates)
    /\ row.revision \in 0..MaxRevision
    /\ pc \in {"idle", "head", "receipt", "block", "known", "recheck", "commit"}
    /\ rows \in Seq(Status) /\ Len(rows) <= Len(hashes)
    /\ canonical \in {0} \cup Range(Candidates) /\ (canonical # 0 <=> "included" \in Range(rows))

Init ==
    /\ ChainInit(Genesis)
    /\ signed = 1 /\ row = NoRow /\ pc = "idle" /\ hashes = <<>> /\ expected = 0
    /\ tip = NoBlock /\ rows = <<>> /\ anchors = <<>> /\ canonical = 0 /\ at = NoBlock

Move == MoveChain /\ UNCHANGED <<store, pc, hashes, expected, reads>>

\* add_replacement clears the family row and moves its revision.
AddCandidate ==
    /\ signed < Len(Candidates) /\ row.revision < MaxRevision - 1
    /\ signed' = signed + 1
    /\ row' = IF row.revision = 0 THEN row ELSE [revision |-> row.revision + 1, payload |-> <<>>]
    /\ UNCHANGED <<chain, pc, hashes, expected, reads>>

----------------------------------------------------------------------------
\* track_family: the candidates and the revision of the row.
Track ==
    /\ pc = "idle" /\ row.revision < MaxRevision - 1
    /\ hashes' = SubSeq(Candidates, 1, signed) /\ expected' = row.revision
    /\ pc' = "head" /\ Watch
    /\ tip' = NoBlock /\ rows' = <<>> /\ anchors' = <<>> /\ canonical' = 0 /\ at' = NoBlock
    /\ UNCHANGED store

\* compare_exchange_family_observation_scoped
Unraced == row.revision = expected /\ hashes = SubSeq(Candidates, 1, signed)

Write(payload) ==
    row' = IF Unraced THEN [revision |-> row.revision + 1, payload |-> payload] ELSE row

Failed == pc' = "idle" /\ Write(<<>>) /\ UNCHANGED <<tip, rows, anchors, canonical, at>>
Keep == UNCHANGED <<chain, signed, hashes, expected>>

ReadHead ==
    /\ pc = "head" /\ pc' = "receipt" /\ tip' = head /\ anchors' = <<head>>
    /\ UNCHANGED <<row, rows, canonical, at>> /\ Keep

Candidate == hashes[Len(rows) + 1]

\* The status of one candidate, and the next.
Observed(status) ==
    /\ rows' = Append(rows, status)
    /\ pc' = IF Len(rows) + 1 = Len(hashes) THEN "recheck" ELSE "receipt"
    /\ at' = head

\* The receipt's block is pushed to `anchors` only if it is canonical; until
\* then it stays last in the sequence.
ReadReceipt ==
    /\ pc = "receipt"
    /\ \E b \in Inclusions(Where[Candidate]) :
         IF b = NoBlock THEN pc' = "known" /\ UNCHANGED anchors
         ELSE pc' = "block" /\ anchors' = Append(anchors, b)
    /\ UNCHANGED <<row, tip, rows, canonical, at>> /\ Keep

ReadKnown ==
    /\ pc = "known"
    /\ \E s \in {"pending", "not_observed"} : Observed(s)
    /\ UNCHANGED <<row, tip, anchors, canonical>> /\ Keep

\* A second canonical candidate, or one above the head, is a changed chain.
ReadBlock ==
    /\ pc = "block"
    /\ IF ~IsCanonical(Last(anchors))
       THEN Observed("noncanonical") /\ anchors' = Front(anchors) /\ UNCHANGED <<row, tip, canonical>>
       ELSE IF canonical # 0 \/ Number[tip] < Number[Last(anchors)] THEN Failed
       ELSE Observed("included") /\ canonical' = Candidate /\ UNCHANGED <<row, tip, anchors>>
    /\ Keep

\* Every anchor in turn, the head first.
Recheck ==
    /\ pc = "recheck"
    /\ IF anchors = <<>> THEN pc' = "commit" /\ UNCHANGED <<row, reads>>
       ELSE IF ~IsCanonical(Head(anchors)) THEN Failed
       ELSE anchors' = Tail(anchors) /\ UNCHANGED <<pc, row, tip, rows, canonical, at>>
    /\ Keep

Commit ==
    /\ pc = "commit" /\ pc' = "idle"
    /\ Write([of |-> hashes, rows |-> rows, canonical |-> canonical, tip |-> tip, at |-> at])
    /\ UNCHANGED reads /\ Keep

ReadFails == pc \in {"head", "receipt", "block", "known", "recheck"} /\ Failed /\ Keep

\* Another handle's observation wins or clears the row.
Rival ==
    /\ row.revision \in 1..(MaxRevision - 2)
    /\ row' = [revision |-> row.revision + 1, payload |-> <<>>]
    /\ UNCHANGED <<chain, signed, pc, hashes, expected, reads>>

Next ==
    \/ Move \/ AddCandidate \/ Track \/ ReadHead \/ ReadReceipt \/ ReadKnown
    \/ ReadBlock \/ Recheck \/ Commit \/ ReadFails \/ Rival

Spec == Init /\ [][Next]_vars

----------------------------------------------------------------------------
\* A saved view is of every candidate that is stored.
ViewOfAll == row.payload # <<>> => Len(row.payload.of) = signed /\ Len(row.payload.rows) = signed

\* The candidate that a view reports as included was on the chain of the head
\* that the view reports: once another candidate has been ruled out, the
\* reported one is not on a branch that was left before.
IncludedBelowHead ==
    row.payload # <<>> /\ row.payload.canonical # 0 =>
        /\ Where[row.payload.canonical] \cap Branch[row.payload.tip] # {}
        /\ row.payload.tip \in Branch[row.payload.at]
        /\ Cardinality({i \in DOMAIN row.payload.rows : row.payload.rows[i] = "included"}) = 1
=============================================================================
