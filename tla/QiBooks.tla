------------------------------ MODULE QiBooks -------------------------------
(***************************************************************************)
(* A wallet's Qi operation book (quai-wallet qi_custody.rs): the inputs    *)
(* its operations claim, the bytes they signed and the addresses the       *)
(* inputs belong to; and the books of several profiles of one wallet,      *)
(* changed by atomic calls, with backups of one profile merged into        *)
(* another.  As in AccountBooks, a method answers with the changed book or *)
(* with Refused.  A transaction and its hash are one value, known by its   *)
(* inputs and its fee.                                                     *)
(***************************************************************************)
EXTENDS Naturals, FiniteSetTheorems, TLAPS

CONSTANTS
    Ids,            \* ReservationIds
    Outpoints,
    Owner,          \* Owner[o]: the address that holds the outpoint
    Fees,
    Blocks,         \* checkpoints
    MaxOperations,  \* MAX_QI_OPERATIONS
    MaxAddresses,   \* MAX_QI_CUSTODY_ADDRESSES
    MaxVariants,    \* replacement edges of one operation
    None, Refused,
    Profiles,
    Files       \* backup files other devices wrote

Owners(coins) == {Owner[o] : o \in coins}
Addresses == Owners(Outpoints)
Tx == [inputs : (SUBSET Outpoints) \ {{}}, fee : Fees]
Signed == {"signed", "submitted", "confirmed"}

QiOperation ==
    [state : Signed \cup {"reserved", "released"}, checkpoint : Blocks \cup {None},
     claims : SUBSET Outpoints, transaction : Tx \cup {None}, payload : Tx \cup {None},
     replacements : SUBSET [parent : Tx, payload : Tx], inclusion : (Tx \X Blocks) \cup {None}]

QiBook == [addresses : SUBSET Addresses, ops : [Ids -> QiOperation \cup {None}]]
IsBook(b) == b \in QiBook

New == [addresses |-> {}, ops |-> [id \in Ids |-> None]]

Used(b) == {id \in Ids : b.ops[id] # None}
In(b, id, states) == b.ops[id] # None /\ b.ops[id].state \in states

\* claimed_outpoints
Claimed(b) == UNION {b.ops[id].claims : id \in Used(b)}

\* contains_candidate
Candidates(op) ==
    ({op.transaction} \ {None}) \cup {edge.payload : edge \in op.replacements}

\* validate_qi_family: the same inputs at a lower output value.
ValidFamily(root, edges) ==
    /\ Cardinality(edges) <= MaxVariants
    /\ \A edge \in edges :
         /\ edge.parent \in {root} \cup {other.payload : other \in edges}
         /\ edge.payload.inputs = edge.parent.inputs /\ edge.payload.fee > edge.parent.fee
         /\ \A other \in edges : other.payload = edge.payload => other = edge

\* check_inputs: exactly the claimed inputs, each with the key of its owner.
CheckInputs(b, op, tx) == tx.inputs = op.claims /\ Owners(op.claims) \subseteq b.addresses

ValidOperation(b, op) ==
    /\ (op.state \in Signed) <=> (op.transaction # None)
    /\ (op.state = "released") <=> (op.claims = {})
    /\ (op.state = "confirmed") <=> (op.inclusion # None)
    /\ Owners(op.claims) \subseteq b.addresses
    /\ op.payload # None => op.payload = op.transaction /\ CheckInputs(b, op, op.payload)
    /\ IF op.payload = None THEN op.replacements = {} ELSE ValidFamily(op.payload, op.replacements)
    /\ op.inclusion # None => op.inclusion[1] \in Candidates(op)

Valid(b) ==
    /\ Cardinality(Used(b)) <= MaxOperations /\ Cardinality(b.addresses) <= MaxAddresses
    /\ \A id \in Used(b) : ValidOperation(b, b.ops[id])
    /\ \A x, y \in Used(b) : x # y => b.ops[x].claims \cap b.ops[y].claims = {}

\* None and Refused are no values of the journal; a file is what some device's
\* export_state wrote.
QiCustodyAssumption ==
    /\ IsFiniteSet(Ids) /\ IsFiniteSet(Addresses) /\ Fees \subseteq Nat
    /\ MaxOperations \in Nat /\ MaxAddresses \in Nat /\ MaxVariants \in Nat
    /\ None \notin Tx /\ None \notin Tx \X Blocks /\ None \notin QiOperation
    /\ None \notin QiBook /\ Refused \notin QiBook /\ Refused # None
    /\ \A file \in Files : IsBook(file) /\ Valid(file)

\* export_state and from_state: a book that is not valid cannot be read back.
Reload(b) == IF Valid(b) THEN b ELSE Refused

----------------------------------------------------------------------------
\* The coins are spendable at the height they were quoted for (CandidateCoin).
Reserve(b, id, checkpoint, coins) ==
    LET addresses == b.addresses \cup Owners(coins) IN
    IF \/ b.ops[id] # None \/ Cardinality(Used(b)) >= MaxOperations
       \/ coins = {} \/ coins \cap Claimed(b) # {}
       \/ Cardinality(addresses) > MaxAddresses
    THEN Refused
    ELSE [addresses |-> addresses,
          ops |-> [b.ops EXCEPT ![id] =
                     [state |-> "reserved", checkpoint |-> checkpoint, claims |-> coins,
                      transaction |-> None, payload |-> None, replacements |-> {}, inclusion |-> None]]]

ReleaseUnsigned(b, id) ==
    IF In(b, id, {"reserved"})
    THEN [b EXCEPT !.ops[id] = [@ EXCEPT !.state = "released", !.claims = {}]] ELSE Refused

CommitSigned(b, id, tx) ==
    IF \/ b.ops[id] = None
       \/ ~CheckInputs(b, b.ops[id], tx)
       \/ b.ops[id].state = "released" \/ b.ops[id].transaction \notin {None, tx}
    THEN Refused
    ELSE [b EXCEPT !.ops[id] =
            [b.ops[id] EXCEPT !.payload = tx, !.transaction = tx,
                              !.state = IF @ = "reserved" THEN "signed" ELSE @]]

CommitReplacement(b, id, parent, tx) ==
    LET edge == [parent |-> parent, payload |-> tx] IN
    IF ~In(b, id, {"signed", "submitted"}) THEN Refused
    ELSE IF b.ops[id].payload = None THEN Refused
    ELSE IF ~ValidFamily(b.ops[id].payload, b.ops[id].replacements \cup {edge}) THEN Refused
    ELSE [b EXCEPT !.ops[id].replacements = @ \cup {edge}]

MarkSubmitted(b, id) ==
    IF In(b, id, {"signed", "submitted"}) THEN [b EXCEPT !.ops[id].state = "submitted"] ELSE Refused

ObserveInclusion(b, id, tx, block) ==
    IF In(b, id, {"confirmed"}) /\ b.ops[id].inclusion = <<tx, block>> THEN b
    ELSE IF ~In(b, id, {"signed", "submitted"}) THEN Refused
    ELSE IF tx \notin Candidates(b.ops[id]) THEN Refused
    ELSE [b EXCEPT !.ops[id] = [@ EXCEPT !.state = "confirmed", !.inclusion = <<tx, block>>]]

InvalidateInclusion(b, id, expected) ==
    IF In(b, id, {"confirmed"}) /\ b.ops[id].inclusion = expected
    THEN [b EXCEPT !.ops[id] = [@ EXCEPT !.state = "submitted", !.inclusion = None]] ELSE Refused

----------------------------------------------------------------------------
\* Neither an inclusion nor a reservation's checkpoint is taken from a backup.
Unanchored(op) ==
    [op EXCEPT !.inclusion = None, !.checkpoint = None,
               !.state = IF @ = "confirmed" THEN "submitted" ELSE @]

FromBackup(backup) ==
    [backup EXCEPT !.ops = [id \in Ids |-> IF @[id] = None THEN None ELSE Unanchored(@[id])]]

Agree(live, source) ==
    /\ {} \in {live.claims, source.claims} \/ live.claims = source.claims
    /\ None \in {live.transaction, source.transaction} \/ live.transaction = source.transaction
    /\ None \in {live.payload, source.payload} \/ live.payload = source.payload

\* An operation released here and signed elsewhere takes its inputs back.
MergedClaims(live, source) ==
    IF source.transaction # None /\ live.claims = {} THEN source.claims ELSE live.claims

Merged(live, source) ==
    LET tx == IF live.transaction # None THEN live.transaction ELSE source.transaction IN
    Unanchored(
        [live EXCEPT
            !.claims = MergedClaims(live, source),
            !.transaction = tx,
            !.payload = IF @ = None THEN source.payload ELSE @,
            !.replacements = @ \cup source.replacements,
            !.state = IF tx = None THEN @
                      ELSE IF @ \in {"submitted", "confirmed"} \/ source.state = "submitted"
                        THEN "submitted" ELSE "signed"])

MergedOperation(live, source) ==
    IF source = None /\ live = None THEN None
    ELSE IF source = None THEN Unanchored(live)
    ELSE IF live = None THEN source ELSE Merged(live, source)

MergeBackup(b, backup) ==
    LET incoming == FromBackup(backup)
        merged == [addresses |-> b.addresses \cup incoming.addresses,
                   ops |-> [id \in Ids |-> MergedOperation(b.ops[id], incoming.ops[id])]]
    IN  IF /\ \A id \in Used(b) \cap Used(incoming) : Agree(b.ops[id], incoming.ops[id])
           /\ Valid(merged)
        THEN merged ELSE Refused

----------------------------------------------------------------------------
VARIABLE book     \* book[p]: the profile's book, None before it is initialised

TypeOK == \A p \in Profiles : book[p] = None \/ IsBook(book[p])

Init == book = [p \in Profiles |-> None]

\* A capture of a profile; a native wallet may hold only the hash of an operation.
Capture(b, hashesOnly) ==
    LET bare(op) == IF op = None THEN None
                    ELSE [Unanchored(op) EXCEPT !.payload = None, !.replacements = {}]
    IN  IF hashesOnly THEN [b EXCEPT !.ops = [id \in Ids |-> bare(@[id])]] ELSE b

Backups ==
    Files \cup {Capture(book[p], bare) : p \in {q \in Profiles : book[q] # None}, bare \in BOOLEAN}

Initialize(p) == book[p] = None /\ book' = [book EXCEPT ![p] = New]
InitializeFromBackup(p, backup) == book[p] = None /\ book' = [book EXCEPT ![p] = FromBackup(backup)]

Changed(p, result) ==
    /\ book[p] # None /\ result # Refused
    /\ book' = [book EXCEPT ![p] = result]

OperateOn(p, id, op) ==
    \/ Changed(p, ReleaseUnsigned(book[p], id))
    \/ \E tx \in Tx : Changed(p, CommitSigned(book[p], id, tx))
    \/ \E parent \in Candidates(op), tx \in Tx : Changed(p, CommitReplacement(book[p], id, parent, tx))
    \/ Changed(p, MarkSubmitted(book[p], id))
    \/ \E tx \in Candidates(op), block \in Blocks :
         \/ Changed(p, ObserveInclusion(book[p], id, tx, block))
         \/ Changed(p, InvalidateInclusion(book[p], id, <<tx, block>>))

Operate(p, id) ==
    \/ \E coins \in SUBSET Outpoints, block \in Blocks : Changed(p, Reserve(book[p], id, block, coins))
    \/ id \in Used(book[p]) /\ OperateOn(p, id, book[p].ops[id])

Next ==
    \E p \in Profiles :
        \/ Initialize(p)
        \/ \E backup \in Backups : InitializeFromBackup(p, backup)
        \/ book[p] # None /\ \E backup \in Backups : Changed(p, MergeBackup(book[p], backup))
        \/ book[p] # None /\ \E id \in Ids : Operate(p, id)

Spec == Init /\ [][Next]_book

----------------------------------------------------------------------------
\* Every call leaves bytes that from_state accepts.
ReloadAccepts == \A p \in Profiles : book[p] # None => Reload(book[p]) # Refused

\* A signed operation keeps its inputs, its root and its replacements, whatever is
\* merged; no other operation of the profile can spend the inputs.
SignedHoldsInputs ==
    \A p \in Profiles, id \in Ids :
      (book[p] # None /\ In(book[p], id, Signed)) =>
          LET old == book[p].ops[id]  new == book'[p].ops[id] IN
          /\ In(book'[p], id, Signed)
          /\ new.claims = old.claims /\ new.transaction = old.transaction
          /\ Candidates(old) \subseteq Candidates(new)
          /\ \A other \in Used(book'[p]) \ {id} : book'[p].ops[other].claims \cap old.claims = {}

\* What the backup's device signed spends inputs that are claimed after the merge,
\* and what it submitted counts as submitted.
MergeClaimsSigned ==
    \A p \in {q \in Profiles : book[q] # None} : \A backup \in Backups :
        LET merged == MergeBackup(book[p], backup) IN
        merged # Refused =>
            \A id \in Used(backup) :
                /\ Candidates(backup.ops[id]) \subseteq Candidates(merged.ops[id])
                /\ backup.ops[id].transaction # None =>
                     /\ merged.ops[id].claims = backup.ops[id].claims
                     /\ merged.ops[id].checkpoint = None /\ merged.ops[id].inclusion = None
                /\ backup.ops[id].state \in {"submitted", "confirmed"}
                     => merged.ops[id].state = "submitted"

\* The Qi journal's part of what every restart finds.
BooksReload == TypeOK /\ ReloadAccepts /\ MergeClaimsSigned

----------------------------------------------------------------------------
(* What one method makes of one book.                                      *)

Good(b) == IsBook(b) /\ Valid(b)

\* What a method keeps of an operation, and of a book.
KeepsOperation(old, new) ==
    /\ old.state \in Signed =>
         /\ new.state \in Signed /\ new.claims = old.claims /\ new.transaction = old.transaction
         /\ Candidates(old) \subseteq Candidates(new)
    /\ old.state \in {"submitted", "confirmed"} => new.state \in {"submitted", "confirmed"}

Keeps(b, c) ==
    /\ b.addresses \subseteq c.addresses
    /\ \A id \in Used(b) : id \in Used(c) /\ KeepsOperation(b.ops[id], c.ops[id])

Advances(b, c) == Good(c) /\ Keeps(b, c)

\* An operation of a book, by its fields.
LEMMA OperationFields ==
    ASSUME QiCustodyAssumption, NEW b, IsBook(b), NEW id \in Ids, b.ops[id] # None
    PROVE  /\ b.ops[id] \in QiOperation
           /\ b.ops[id].state \in Signed \cup {"reserved", "released"}
           /\ b.ops[id].checkpoint \in Blocks \cup {None} /\ b.ops[id].claims \in SUBSET Outpoints
           /\ b.ops[id].transaction \in Tx \cup {None} /\ b.ops[id].payload \in Tx \cup {None}
           /\ b.ops[id].replacements \in SUBSET [parent : Tx, payload : Tx]
           /\ b.ops[id].inclusion \in (Tx \X Blocks) \cup {None}
BY DEF IsBook, QiBook, QiOperation

\* Whether an operation is valid depends on the addresses of its book alone.
LEMMA ValidWithMore ==
    ASSUME NEW b, NEW c, NEW op, b.addresses \subseteq c.addresses, ValidOperation(b, op)
    PROVE  ValidOperation(c, op)
BY Zenon DEF ValidOperation, CheckInputs

\* The book with one operation changed, and the operation in another state.
With(b, id, op) == [b EXCEPT !.ops[id] = op]
InState(op, state) == [op EXCEPT !.state = state]

\* Most methods change one operation and claim nothing for it.  When the new
\* one is valid and keeps what the old one was, so does the book.
LEMMA OneOperation ==
    ASSUME QiCustodyAssumption, NEW b, Good(b), NEW id \in Used(b), NEW op \in QiOperation,
           ValidOperation(b, op), KeepsOperation(b.ops[id], op), op.claims \subseteq b.ops[id].claims
    PROVE  LET c == With(b, id, op)
           IN  Advances(b, c) /\ Used(c) = Used(b) /\ c.ops[id] = op
<1> DEFINE c == With(b, id, op)
<1>1. /\ b.addresses \in SUBSET Addresses /\ c.addresses = b.addresses
      /\ b.ops \in [Ids -> QiOperation \cup {None}]
      /\ c = [addresses |-> b.addresses, ops |-> [b.ops EXCEPT ![id] = op]]
  BY DEF Good, IsBook, QiBook, With
<1>2. id \in Ids /\ b.ops[id] # None /\ op # None
  BY DEF Used, QiCustodyAssumption
<1>3. \A x \in Ids : c.ops[x] = IF x = id THEN op ELSE b.ops[x]
  BY <1>1
<1> HIDE DEF c
<1>4. IsBook(c)
  <2>1. [b.ops EXCEPT ![id] = op] \in [Ids -> QiOperation \cup {None}]
    BY Zenon, <1>1
  <2> QED
    BY <1>1, <2>1 DEF IsBook, QiBook
<1>5. Used(c) = Used(b)
  BY <1>2, <1>3 DEF Used
<1>6. \A x \in Used(b) : c.ops[x].claims \subseteq b.ops[x].claims
  BY <1>3 DEF Used
<1>7. \A x \in Used(c) : ValidOperation(c, c.ops[x])
  <2> SUFFICES ASSUME NEW x \in Used(b) PROVE ValidOperation(c, c.ops[x])
    BY <1>5
  <2>1. ValidOperation(b, c.ops[x])
    BY <1>3 DEF Good, Valid, Used
  <2> QED
    BY Zenon, <2>1, <1>1, ValidWithMore
<1>8. \A x, y \in Used(c) : x # y => c.ops[x].claims \cap c.ops[y].claims = {}
  <2>1. \A x, y \in Used(b) : x # y => b.ops[x].claims \cap b.ops[y].claims = {}
    BY Zenon DEF Good, Valid
  <2> QED
    BY <1>5, <1>6, <2>1
<1>9. Valid(c)
  BY Zenon, <1>1, <1>5, <1>7, <1>8 DEF Valid, Good
<1>10. Keeps(b, c)
  <2>1. \A x \in Used(b) : KeepsOperation(b.ops[x], c.ops[x])
    BY <1>3 DEF KeepsOperation, Used
  <2> QED
    BY <1>1, <1>5, <2>1 DEF Keeps
<1> QED
  BY Zenon, <1>2, <1>3, <1>4, <1>5, <1>9, <1>10 DEF c, Good, Advances

\* reserve: the one method that adds an operation, and claims inputs for it.
LEMMA ReserveAdvances ==
    ASSUME QiCustodyAssumption, NEW b, Good(b), NEW id \in Ids, NEW block \in Blocks,
           NEW coins \in SUBSET Outpoints, NEW c, c = Reserve(b, id, block, coins), c # Refused
    PROVE  Advances(b, c)
<1> DEFINE addresses == b.addresses \cup Owners(coins)
           op == [state |-> "reserved", checkpoint |-> block, claims |-> coins,
                  transaction |-> None, payload |-> None, replacements |-> {}, inclusion |-> None]
           d == [addresses |-> addresses, ops |-> [b.ops EXCEPT ![id] = op]]
<1>1. /\ b.ops[id] = None /\ ~(Cardinality(Used(b)) >= MaxOperations)
      /\ coins # {} /\ coins \cap Claimed(b) = {} /\ ~(Cardinality(addresses) > MaxAddresses)
      /\ c = d
  BY Zenon DEF Reserve
<1>2. /\ b.addresses \in SUBSET Addresses /\ b.ops \in [Ids -> QiOperation \cup {None}]
      /\ addresses \in SUBSET Addresses
  BY DEF Good, IsBook, QiBook, Addresses, Owners
<1>3. op \in QiOperation /\ op # None
  BY DEF QiOperation, QiCustodyAssumption
<1>4. /\ c.addresses = addresses
      /\ \A x \in Ids : c.ops[x] = IF x = id THEN op ELSE b.ops[x]
  BY <1>1, <1>2
<1>5. IsBook(c)
  <2>1. [b.ops EXCEPT ![id] = op] \in [Ids -> QiOperation \cup {None}]
    BY Zenon, <1>2, <1>3
  <2> QED
    BY <1>1, <1>2, <2>1 DEF IsBook, QiBook
<1>6. /\ op.state = "reserved" /\ op.claims = coins /\ op.transaction = None /\ op.payload = None
      /\ op.replacements = {} /\ op.inclusion = None
  OBVIOUS
<1>7. Owners(coins) \subseteq addresses /\ b.addresses \subseteq addresses
  OBVIOUS
<1>8. Cardinality(addresses) <= MaxAddresses
  <2>1. IsFiniteSet(addresses)
    BY <1>2, FS_Subset DEF QiCustodyAssumption
  <2>2. Cardinality(addresses) \in Nat
    BY <2>1, FS_CardinalityType
  <2> QED
    BY <1>1, <2>2 DEF QiCustodyAssumption
<1> HIDE DEF d, op, addresses
<1>9. Used(c) = Used(b) \cup {id} /\ id \notin Used(b)
  BY <1>1, <1>3, <1>4 DEF Used
<1>10. Cardinality(Used(c)) <= MaxOperations
  <2>1. IsFiniteSet(Used(b))
    BY FS_Subset DEF Used, QiCustodyAssumption
  <2>2. Cardinality(Used(c)) = Cardinality(Used(b)) + 1 /\ Cardinality(Used(b)) \in Nat
    BY <2>1, <1>9, FS_AddElement, FS_CardinalityType
  <2> QED
    BY <2>2, <1>1 DEF QiCustodyAssumption
<1>11. \A x \in Used(b) : c.ops[x] = b.ops[x] /\ x # id
  BY <1>4, <1>9 DEF Used
<1>12. \A x \in Used(c) : ValidOperation(c, c.ops[x])
  <2>1. ValidOperation(c, c.ops[id])
    BY <1>1, <1>4, <1>6, <1>7 DEF ValidOperation, Signed
  <2>2. ASSUME NEW x \in Used(b) PROVE ValidOperation(c, c.ops[x])
    <3>1. ValidOperation(b, c.ops[x])
      BY Zenon, <1>11 DEF Good, Valid
    <3> QED
      BY Zenon, <1>4, <1>7, <3>1, ValidWithMore
  <2> QED
    BY Zenon, <2>1, <2>2, <1>9
<1>13. \A x, y \in Used(c) : x # y => c.ops[x].claims \cap c.ops[y].claims = {}
  <2>1. \A x \in Used(b) : b.ops[x].claims \cap coins = {}
    BY <1>1 DEF Claimed
  <2>2. \A x, y \in Used(b) : x # y => b.ops[x].claims \cap b.ops[y].claims = {}
    BY Zenon DEF Good, Valid
  <2>3. c.ops[id].claims = coins
    BY <1>4, <1>6
  <2> QED
    BY <1>9, <1>11, <2>1, <2>2, <2>3
<1>14. Good(c)
  BY Zenon, <1>4, <1>5, <1>8, <1>10, <1>12, <1>13 DEF Good, Valid
<1>15. Keeps(b, c)
  BY Zenon, <1>4, <1>7, <1>9, <1>11 DEF Keeps, KeepsOperation
<1> QED
  BY Zenon, <1>14, <1>15 DEF Advances

LEMMA ReleaseUnsignedAdvances ==
    ASSUME QiCustodyAssumption, NEW b, Good(b), NEW id \in Ids,
           NEW c, c = ReleaseUnsigned(b, id), c # Refused
    PROVE  Advances(b, c)
<1> DEFINE old == b.ops[id]
           op == [b.ops[id] EXCEPT !.state = "released", !.claims = {}]
<1>1. id \in Used(b) /\ old # None /\ old.state = "reserved" /\ c = With(b, id, op)
  BY Zenon DEF ReleaseUnsigned, With, Used, In
<1>2. old \in QiOperation /\ ValidOperation(b, old)
  BY <1>1, OperationFields DEF Good, Valid
<1>3. /\ op.state = "released" /\ op.claims = {} /\ op.transaction = old.transaction
      /\ op.payload = old.payload /\ op.replacements = old.replacements
      /\ op.inclusion = old.inclusion /\ op \in QiOperation
  BY Zenon, <1>2 DEF QiOperation, Signed
<1> HIDE DEF op, old
<1>4. old.transaction = None /\ old.payload = None /\ old.replacements = {} /\ old.inclusion = None
  BY <1>1, <1>2 DEF ValidOperation, Signed
<1>5. ValidOperation(b, op)
  <2>1. Owners({}) = {}
    BY DEF Owners
  <2> QED
    BY <1>3, <1>4, <2>1 DEF ValidOperation, Signed
<1>6. KeepsOperation(old, op) /\ op.claims \subseteq old.claims
  BY <1>1, <1>3 DEF KeepsOperation, Signed
<1> QED
  BY Zenon, <1>1, <1>3, <1>5, <1>6, OneOperation DEF old

LEMMA MarkSubmittedAdvances ==
    ASSUME QiCustodyAssumption, NEW b, Good(b), NEW id \in Ids,
           NEW c, c = MarkSubmitted(b, id), c # Refused
    PROVE  /\ Advances(b, c) /\ id \in Used(b) /\ c.ops[id] # None /\ c.ops[id].state = "submitted"
           /\ Candidates(c.ops[id]) = Candidates(b.ops[id])
<1> DEFINE old == b.ops[id]
           op == InState(b.ops[id], "submitted")
<1>1. id \in Used(b) /\ old # None /\ old.state \in {"signed", "submitted"} /\ c = With(b, id, op)
  BY Zenon DEF MarkSubmitted, With, InState, Used, In
<1>2. old \in QiOperation /\ ValidOperation(b, old)
  BY <1>1, OperationFields DEF Good, Valid
<1>3. /\ op.state = "submitted" /\ op.claims = old.claims /\ op.transaction = old.transaction
      /\ op.payload = old.payload /\ op.replacements = old.replacements
      /\ op.inclusion = old.inclusion /\ op \in QiOperation
  BY Zenon, <1>2 DEF QiOperation, Signed, InState
<1> HIDE DEF op, old
<1>4. Candidates(op) = Candidates(old)
  BY Zenon, <1>3 DEF Candidates
<1>5. old.state \in Signed /\ op.state \in Signed /\ old.state # "released" /\ old.state # "confirmed"
      /\ op.state # "released" /\ op.state # "confirmed"
  BY <1>1, <1>3 DEF Signed
<1>6. ValidOperation(b, op)
  BY Zenon, <1>2, <1>3, <1>4, <1>5 DEF ValidOperation, CheckInputs
<1>7. KeepsOperation(old, op) /\ op.claims \subseteq old.claims /\ op # None
  BY <1>3, <1>4, <1>5 DEF KeepsOperation, QiCustodyAssumption
<1>8. Advances(b, With(b, id, op)) /\ With(b, id, op).ops[id] = op
  BY SMTT(40), <1>1, <1>3, <1>6, <1>7, OneOperation DEF old
<1> QED
  BY Zenon, <1>1, <1>3, <1>4, <1>7, <1>8 DEF old

\* commit_signed: the bytes of exactly the claimed inputs.
LEMMA CommitSignedAdvances ==
    ASSUME QiCustodyAssumption, NEW b, Good(b), NEW id \in Ids, NEW tx \in Tx,
           NEW c, c = CommitSigned(b, id, tx), c # Refused
    PROVE  /\ Advances(b, c) /\ id \in Used(b) /\ c.ops[id] # None
           /\ c.ops[id].state \in Signed /\ c.ops[id].claims = tx.inputs
           /\ tx \in Candidates(c.ops[id])
<1> DEFINE old == b.ops[id]
           op == [b.ops[id] EXCEPT !.payload = tx, !.transaction = tx,
                                   !.state = IF @ = "reserved" THEN "signed" ELSE @]
<1>1. /\ id \in Used(b) /\ old # None /\ CheckInputs(b, old, tx) /\ old.state # "released"
      /\ old.transaction \in {None, tx} /\ c = With(b, id, op)
  BY Zenon DEF CommitSigned, With, Used
<1>2. old \in QiOperation /\ ValidOperation(b, old) /\ tx # None
  BY <1>1, OperationFields DEF Good, Valid, QiCustodyAssumption
<1>3. /\ op.claims = old.claims /\ op.state = (IF old.state = "reserved" THEN "signed" ELSE old.state)
      /\ op.transaction = tx /\ op.payload = tx /\ op.replacements = old.replacements
      /\ op.inclusion = old.inclusion /\ op \in QiOperation
      /\ old.state \in Signed \cup {"reserved", "released"}
  BY ZenonT(40), <1>2 DEF QiOperation, Signed
<1> HIDE DEF op, old
<1>4. /\ op.state \in Signed /\ (op.state = "confirmed" <=> old.state = "confirmed")
      /\ op.state # "released"
      /\ old.state \in {"submitted", "confirmed"} => op.state \in {"submitted", "confirmed"}
  BY <1>1, <1>3 DEF Signed
<1>5. Candidates(old) \subseteq Candidates(op) /\ tx \in Candidates(op)
  BY <1>1, <1>2, <1>3 DEF Candidates
<1>6. ValidFamily(tx, op.replacements)
  <2>1. CASE old.payload = None
    <3>1. op.replacements = {}
      BY <1>2, <1>3, <2>1 DEF ValidOperation
    <3> QED
      BY <3>1, FS_EmptySet DEF ValidFamily, QiCustodyAssumption
  <2>2. CASE old.payload # None
    BY <1>1, <1>2, <1>3, <2>2 DEF ValidOperation, QiCustodyAssumption
  <2> QED
    BY <2>1, <2>2
<1>7. ValidOperation(b, op)
  <2>1. op.inclusion # None => op.inclusion[1] \in Candidates(op)
    BY Zenon, <1>2, <1>3, <1>5 DEF ValidOperation
  <2>2. op.state = "confirmed" <=> op.inclusion # None
    BY Zenon, <1>2, <1>3, <1>4 DEF ValidOperation
  <2>3. op.claims # {} /\ Owners(op.claims) \subseteq b.addresses
    BY Zenon, <1>1, <1>2, <1>3 DEF ValidOperation
  <2>4. CheckInputs(b, op, tx)
    BY Zenon, <1>1, <1>3 DEF CheckInputs
  <2> QED
    BY Zenon, <1>2, <1>3, <1>4, <1>6, <2>1, <2>2, <2>3, <2>4 DEF ValidOperation
<1>8. KeepsOperation(old, op)
  <2>1. old.state \in Signed => old.transaction = tx
    BY Zenon, <1>1, <1>2 DEF ValidOperation
  <2> QED
    BY Zenon, <1>3, <1>4, <1>5, <2>1 DEF KeepsOperation
<1>9. Advances(b, With(b, id, op)) /\ With(b, id, op).ops[id] = op
  <2>1. op.claims \subseteq old.claims
    BY <1>3
  <2> QED
    BY Zenon, <1>1, <1>3, <1>7, <1>8, <2>1, OneOperation DEF old
<1> QED
  BY <1>1, <1>3, <1>4, <1>5, <1>9 DEF QiCustodyAssumption, CheckInputs

\* commit_replacement: one more candidate.
LEMMA CommitReplacementAdvances ==
    ASSUME QiCustodyAssumption, NEW b, Good(b), NEW id \in Ids, NEW parent \in Tx, NEW tx \in Tx,
           NEW c, c = CommitReplacement(b, id, parent, tx), c # Refused
    PROVE  /\ Advances(b, c) /\ id \in Used(b) /\ c.ops[id] # None
           /\ c.ops[id].state \in Signed /\ c.ops[id].claims = b.ops[id].claims
           /\ tx \in Candidates(c.ops[id])
<1> DEFINE old == b.ops[id]
           edge == [parent |-> parent, payload |-> tx]
           op == [b.ops[id] EXCEPT !.replacements = @ \cup {edge}]
<1>1. /\ id \in Used(b) /\ old # None /\ old.state \in {"signed", "submitted"}
      /\ old.payload # None /\ ValidFamily(old.payload, old.replacements \cup {edge})
      /\ c = With(b, id, op)
  BY Zenon DEF CommitReplacement, With, Used, In
<1>2. old \in QiOperation /\ ValidOperation(b, old) /\ edge \in [parent : Tx, payload : Tx]
      /\ edge.payload = tx
  BY <1>1, OperationFields DEF Good, Valid
<1> HIDE DEF edge
<1>3. /\ op.claims = old.claims /\ op.state = old.state /\ op.transaction = old.transaction
      /\ op.payload = old.payload /\ op.replacements = old.replacements \cup {edge}
      /\ op.inclusion = old.inclusion /\ op \in QiOperation
  BY <1>2 DEF QiOperation
<1> HIDE DEF op, old
<1>4. Candidates(old) \subseteq Candidates(op) /\ tx \in Candidates(op)
  BY <1>2, <1>3 DEF Candidates
<1>5. ValidOperation(b, op)
  <2>1. op.inclusion # None => op.inclusion[1] \in Candidates(op)
    BY Zenon, <1>2, <1>3, <1>4 DEF ValidOperation
  <2> QED
    BY Zenon, <1>1, <1>2, <1>3, <2>1 DEF ValidOperation, CheckInputs
<1>6. KeepsOperation(old, op) /\ op.claims \subseteq old.claims /\ old.state \in Signed
  BY <1>1, <1>3, <1>4 DEF KeepsOperation, Signed
<1>7. Advances(b, With(b, id, op)) /\ With(b, id, op).ops[id] = op
  BY SMTT(40), <1>1, <1>3, <1>5, <1>6, OneOperation DEF old
<1> QED
  BY <1>1, <1>3, <1>4, <1>6, <1>7 DEF QiCustodyAssumption, old

LEMMA UnmovedAdvances ==
    ASSUME NEW b, Good(b)
    PROVE  Advances(b, b)
BY Zenon DEF Advances, Keeps, KeepsOperation

LEMMA CandidatesAreTransactions ==
    ASSUME QiCustodyAssumption, NEW op \in QiOperation
    PROVE  Candidates(op) \subseteq Tx
<1>1. op.transaction \in Tx \cup {None} /\ op.replacements \in SUBSET [parent : Tx, payload : Tx]
  BY DEF QiOperation
<1> QED
  BY <1>1 DEF Candidates

\* observe_inclusion and invalidate_inclusion: the operation stays signed and
\* its inclusion is one of its candidates.
LEMMA ObserveInclusionAdvances ==
    ASSUME QiCustodyAssumption, NEW b, Good(b), NEW id \in Ids, NEW tx \in Tx, NEW block \in Blocks,
           NEW c, c = ObserveInclusion(b, id, tx, block), c # Refused
    PROVE  Advances(b, c)
<1> DEFINE old == b.ops[id]
           op == [b.ops[id] EXCEPT !.state = "confirmed", !.inclusion = <<tx, block>>]
<1>1. CASE c = b
  BY Zenon, <1>1, UnmovedAdvances
<1>2. CASE c # b
  <2>1. /\ id \in Used(b) /\ old # None /\ old.state \in {"signed", "submitted"}
        /\ tx \in Candidates(old) /\ c = With(b, id, op)
    BY Zenon, <1>2 DEF ObserveInclusion, With, Used, In
  <2>2. old \in QiOperation /\ ValidOperation(b, old) /\ <<tx, block>> \in Tx \X Blocks
        /\ <<tx, block>> # None /\ <<tx, block>>[1] = tx
    BY <2>1, OperationFields DEF Good, Valid, QiCustodyAssumption
  <2>3. /\ op.claims = old.claims /\ op.state = "confirmed" /\ op.transaction = old.transaction
        /\ op.payload = old.payload /\ op.replacements = old.replacements
        /\ op.inclusion = <<tx, block>> /\ op \in QiOperation
    BY Zenon, <2>2 DEF QiOperation, Signed
  <2> HIDE DEF op, old
  <2>4. Candidates(op) = Candidates(old) /\ op.claims \subseteq old.claims
    BY Zenon, <2>3 DEF Candidates
  <2>5. old.state \in Signed /\ op.state \in Signed /\ old.state # "released" /\ op.state # "released"
    BY <2>1, <2>3 DEF Signed
  <2>6. ValidOperation(b, op)
    <3>1. op.inclusion # None /\ op.inclusion[1] \in Candidates(op)
      BY <2>1, <2>2, <2>3, <2>4
    <3> QED
      BY Zenon, <2>2, <2>3, <2>5, <3>1 DEF ValidOperation, CheckInputs
  <2>7. KeepsOperation(old, op)
    BY Zenon, <2>3, <2>4, <2>5 DEF KeepsOperation
  <2> QED
    BY ZenonT(60), <2>1, <2>3, <2>4, <2>6, <2>7, OneOperation DEF old
<1> QED
  BY <1>1, <1>2

LEMMA InvalidateInclusionAdvances ==
    ASSUME QiCustodyAssumption, NEW b, Good(b), NEW id \in Ids, NEW expected,
           NEW c, c = InvalidateInclusion(b, id, expected), c # Refused
    PROVE  Advances(b, c)
<1> DEFINE old == b.ops[id]
           op == [b.ops[id] EXCEPT !.state = "submitted", !.inclusion = None]
<1>1. id \in Used(b) /\ old # None /\ old.state = "confirmed" /\ c = With(b, id, op)
  BY Zenon DEF InvalidateInclusion, With, Used, In
<1>2. old \in QiOperation /\ ValidOperation(b, old)
  BY <1>1, OperationFields DEF Good, Valid
<1>3. /\ op.claims = old.claims /\ op.state = "submitted" /\ op.transaction = old.transaction
      /\ op.payload = old.payload /\ op.replacements = old.replacements
      /\ op.inclusion = None /\ op \in QiOperation
  BY Zenon, <1>2 DEF QiOperation, Signed
<1> HIDE DEF op, old
<1>4. Candidates(op) = Candidates(old) /\ op.claims \subseteq old.claims
  BY Zenon, <1>3 DEF Candidates
<1>5. /\ old.state \in Signed /\ op.state \in Signed /\ op.state # "confirmed"
      /\ old.state # "released" /\ op.state # "released"
  BY <1>1, <1>3 DEF Signed
<1>6. ValidOperation(b, op)
  BY Zenon, <1>2, <1>3, <1>5 DEF ValidOperation, CheckInputs
<1>7. KeepsOperation(old, op)
  BY Zenon, <1>3, <1>4, <1>5 DEF KeepsOperation
<1> QED
  BY Zenon, <1>1, <1>3, <1>4, <1>6, <1>7, OneOperation DEF old

----------------------------------------------------------------------------
(* All the methods.                                                        *)

LEMMA NewGood ==
    ASSUME QiCustodyAssumption
    PROVE  Good(New)
<1>1. /\ New.addresses = {} /\ IsBook(New) /\ \A id \in Ids : New.ops[id] = None
  BY DEF New, IsBook, QiBook
<1>2. Used(New) = {}
  BY Zenon, <1>1 DEF Used
<1> QED
  BY <1>1, <1>2, FS_EmptySet DEF Good, Valid, QiCustodyAssumption

\* Only a signed operation has candidates.
LEMMA CandidatesAreSigned ==
    ASSUME QiCustodyAssumption, NEW b, Good(b), NEW id \in Used(b), NEW tx \in Candidates(b.ops[id])
    PROVE  b.ops[id].state \in Signed
<1> SUFFICES ASSUME b.ops[id].state \notin Signed PROVE FALSE
  OBVIOUS
<1>1. ValidOperation(b, b.ops[id])
  BY Zenon DEF Good, Valid
<1>2. b.ops[id].transaction = None /\ b.ops[id].payload = None
  BY Zenon, <1>1 DEF ValidOperation
<1>3. b.ops[id].replacements = {}
  BY Zenon, <1>1, <1>2 DEF ValidOperation
<1> QED
  BY <1>2, <1>3 DEF Candidates

\* What a call on one operation may make of the book.
Call(b, id, c) ==
    \/ \E coins \in SUBSET Outpoints, block \in Blocks : c = Reserve(b, id, block, coins)
    \/ /\ id \in Used(b)
       /\ \/ c = ReleaseUnsigned(b, id) \/ c = MarkSubmitted(b, id)
          \/ \E tx \in Tx : c = CommitSigned(b, id, tx)
          \/ \E parent \in Candidates(b.ops[id]), tx \in Tx : c = CommitReplacement(b, id, parent, tx)
          \/ \E tx \in Candidates(b.ops[id]), block \in Blocks :
               c = ObserveInclusion(b, id, tx, block) \/ c = InvalidateInclusion(b, id, <<tx, block>>)

LEMMA CallAdvances ==
    ASSUME QiCustodyAssumption, NEW b, Good(b), NEW id \in Ids, NEW c, Call(b, id, c), c # Refused
    PROVE  Advances(b, c)
<1> DEFINE op == b.ops[id]
<1>1. ASSUME NEW coins \in SUBSET Outpoints, NEW block \in Blocks, c = Reserve(b, id, block, coins)
      PROVE  Advances(b, c)
  BY Zenon, <1>1, ReserveAdvances
<1>2. ASSUME id \in Used(b) PROVE op # None /\ op \in QiOperation /\ Candidates(op) \subseteq Tx
  BY <1>2, OperationFields, CandidatesAreTransactions DEF Used, Good
<1> HIDE DEF op
<1>3. ASSUME c = ReleaseUnsigned(b, id) \/ c = MarkSubmitted(b, id)
      PROVE  Advances(b, c)
  BY Zenon, <1>3, ReleaseUnsignedAdvances, MarkSubmittedAdvances
<1>4. ASSUME NEW tx \in Tx, c = CommitSigned(b, id, tx)
      PROVE  Advances(b, c)
  BY Zenon, <1>4, CommitSignedAdvances
<1>5. ASSUME id \in Used(b), NEW parent \in Candidates(op), NEW tx \in Tx, c = CommitReplacement(b, id, parent, tx)
      PROVE  Advances(b, c)
  BY Zenon, <1>2, <1>5, CommitReplacementAdvances
<1>6. ASSUME id \in Used(b), NEW tx \in Candidates(op), NEW block \in Blocks,
             c = ObserveInclusion(b, id, tx, block) \/ c = InvalidateInclusion(b, id, <<tx, block>>)
      PROVE  Advances(b, c)
  <2>1. tx \in Tx
    BY Zenon, <1>2, <1>6
  <2> QED
    BY Zenon, <1>6, <2>1, ObserveInclusionAdvances, InvalidateInclusionAdvances
<1> QED
  BY Zenon, <1>1, <1>3, <1>4, <1>5, <1>6 DEF Call, op

----------------------------------------------------------------------------
(* Backups.                                                                *)

\* What a backup says of an operation, without its inclusion and its checkpoint.
LEMMA UnanchoredOperation ==
    ASSUME QiCustodyAssumption, NEW op \in QiOperation, NEW u, u = Unanchored(op)
    PROVE  /\ u \in QiOperation /\ u # None /\ u.claims = op.claims
           /\ u.transaction = op.transaction /\ u.payload = op.payload
           /\ u.replacements = op.replacements /\ u.inclusion = None /\ u.checkpoint = None
           /\ op.state = "confirmed" => u.state = "submitted"
           /\ op.state # "confirmed" => u.state = op.state
           /\ u.state # "confirmed"
           /\ u.state \in Signed <=> op.state \in Signed
           /\ Candidates(u) = Candidates(op) /\ KeepsOperation(op, u)
           /\ \A b : ValidOperation(b, op) => ValidOperation(b, u)
<1>1. /\ u \in QiOperation /\ u.claims = op.claims
      /\ u.transaction = op.transaction /\ u.payload = op.payload
      /\ u.replacements = op.replacements /\ u.inclusion = None /\ u.checkpoint = None
      /\ u.state = (IF op.state = "confirmed" THEN "submitted" ELSE op.state)
  BY ZenonT(60) DEF Unanchored, QiOperation, Signed
<1>2. u # None
  BY <1>1 DEF QiCustodyAssumption
<1>3. /\ op.state = "confirmed" => u.state = "submitted"
      /\ op.state # "confirmed" => u.state = op.state
      /\ u.state # "confirmed" /\ (u.state = "released" <=> op.state = "released")
      /\ u.state \in Signed <=> op.state \in Signed
      /\ op.state \in {"submitted", "confirmed"} => u.state \in {"submitted", "confirmed"}
  BY <1>1 DEF Signed
<1>4. Candidates(u) = Candidates(op)
  BY Zenon, <1>1 DEF Candidates
<1>5. KeepsOperation(op, u)
  BY Zenon, <1>1, <1>3, <1>4 DEF KeepsOperation
<1>6. \A b : ValidOperation(b, op) => ValidOperation(b, u)
  <2> SUFFICES ASSUME NEW b, ValidOperation(b, op) PROVE ValidOperation(b, u)
    OBVIOUS
  <2> QED
    BY Zenon, <1>1, <1>3 DEF ValidOperation, CheckInputs
<1> QED
  BY Zenon, <1>1, <1>2, <1>3, <1>4, <1>5, <1>6

\* A book that describes the same operations, each of them validly, is valid.
LEMMA SameOperations ==
    ASSUME QiCustodyAssumption, NEW b, Good(b), NEW d, IsBook(d), d.addresses = b.addresses,
           \A id \in Ids : b.ops[id] = None => d.ops[id] = None,
           \A id \in Used(b) : /\ d.ops[id] # None /\ d.ops[id].claims = b.ops[id].claims
                               /\ ValidOperation(b, d.ops[id])
    PROVE  Good(d) /\ Used(d) = Used(b)
<1>1. Used(d) = Used(b)
  BY Zenon DEF Used
<1>2. \A id \in Used(d) : ValidOperation(d, d.ops[id])
  BY Zenon, <1>1 DEF ValidOperation, CheckInputs
<1>3. \A x, y \in Used(d) : x # y => d.ops[x].claims \cap d.ops[y].claims = {}
  BY Zenon, <1>1 DEF Good, Valid
<1> QED
  BY Zenon, <1>1, <1>2, <1>3 DEF Good, Valid

\* initialize_from_backup, and the first half of merge_backup.
LEMMA FromBackupGood ==
    ASSUME QiCustodyAssumption, NEW b, Good(b), NEW d, d = FromBackup(b)
    PROVE  /\ Good(d) /\ Used(d) = Used(b) /\ d.addresses = b.addresses
           /\ \A id \in Used(b) : d.ops[id] = Unanchored(b.ops[id])
<1>1. b.addresses \in SUBSET Addresses /\ b.ops \in [Ids -> QiOperation \cup {None}]
      /\ b = [addresses |-> b.addresses, ops |-> b.ops]
  BY DEF Good, IsBook, QiBook
<1>2. /\ d.addresses = b.addresses
      /\ d = [addresses |-> b.addresses,
              ops |-> [id \in Ids |-> IF b.ops[id] = None THEN None ELSE Unanchored(b.ops[id])]]
  BY <1>1 DEF FromBackup
<1>3. \A id \in Ids : d.ops[id] = IF b.ops[id] = None THEN None ELSE Unanchored(b.ops[id])
  BY <1>2
<1>4. \A id \in Used(b) : b.ops[id] \in QiOperation /\ ValidOperation(b, b.ops[id])
  BY Zenon, <1>1 DEF Used, Good, Valid
<1>5. \A id \in Used(b) :
        /\ d.ops[id] = Unanchored(b.ops[id]) /\ d.ops[id] \in QiOperation /\ d.ops[id] # None
        /\ d.ops[id].claims = b.ops[id].claims /\ ValidOperation(b, d.ops[id])
  <2> SUFFICES ASSUME NEW id \in Used(b)
               PROVE  /\ d.ops[id] = Unanchored(b.ops[id]) /\ d.ops[id] \in QiOperation
                      /\ d.ops[id] # None /\ d.ops[id].claims = b.ops[id].claims
                      /\ ValidOperation(b, d.ops[id])
    OBVIOUS
  <2>1. d.ops[id] = Unanchored(b.ops[id])
    BY Zenon, <1>3 DEF Used
  <2>2. b.ops[id] \in QiOperation /\ ValidOperation(b, b.ops[id])
    BY Zenon, <1>4
  <2> QED
    BY SMTT(40), <2>1, <2>2, UnanchoredOperation
<1>6. \A id \in Ids : d.ops[id] \in QiOperation \cup {None}
  BY Zenon, <1>3, <1>5 DEF Used
<1>7. IsBook(d)
  BY <1>1, <1>2, <1>3, <1>6 DEF IsBook, QiBook
<1> QED
  BY Zenon, <1>2, <1>3, <1>5, <1>7, SameOperations

\* A capture, also one of hashes alone.
LEMMA CaptureGood ==
    ASSUME QiCustodyAssumption, NEW b, Good(b), NEW hashesOnly \in BOOLEAN, NEW d, d = Capture(b, hashesOnly)
    PROVE  Good(d)
<1> DEFINE bare(op) == [Unanchored(op) EXCEPT !.payload = None, !.replacements = {}]
<1>1. b.addresses \in SUBSET Addresses /\ b.ops \in [Ids -> QiOperation \cup {None}]
      /\ b = [addresses |-> b.addresses, ops |-> b.ops]
  BY DEF Good, IsBook, QiBook
<1>2. CASE ~hashesOnly
  BY Zenon, <1>2 DEF Capture
<1>3. CASE hashesOnly
  <2>1. d = [addresses |-> b.addresses,
             ops |-> [id \in Ids |-> IF b.ops[id] = None THEN None ELSE bare(b.ops[id])]]
    BY Zenon, <1>1, <1>3 DEF Capture
  <2> HIDE DEF bare
  <2>2. d.addresses = b.addresses /\ \A id \in Ids : d.ops[id] = IF b.ops[id] = None THEN None ELSE bare(b.ops[id])
    BY <2>1
  <2>3. ASSUME NEW op \in QiOperation, ValidOperation(b, op)
        PROVE  /\ bare(op) \in QiOperation /\ bare(op) # None /\ bare(op).claims = op.claims
               /\ ValidOperation(b, bare(op))
    <3> DEFINE u == Unanchored(op)
    <3>1. /\ u \in QiOperation /\ u.claims = op.claims /\ u.inclusion = None
          /\ u.state # "confirmed" /\ ValidOperation(b, u)
      BY Zenon, <2>3, UnanchoredOperation
    <3> HIDE DEF u
    <3> DEFINE v == [u EXCEPT !.payload = None, !.replacements = {}]
    <3>2. /\ v \in QiOperation /\ v.claims = u.claims /\ v.state = u.state
          /\ v.transaction = u.transaction /\ v.payload = None /\ v.replacements = {}
          /\ v.inclusion = u.inclusion
      BY ZenonT(40), <3>1 DEF QiOperation
    <3> HIDE DEF v
    <3>3. ValidOperation(b, v)
      BY Zenon, <3>1, <3>2 DEF ValidOperation
    <3>4. v # None
      BY <3>2 DEF QiCustodyAssumption
    <3> QED
      BY Zenon, <3>1, <3>2, <3>3, <3>4 DEF v, u, bare
  <2>4. \A id \in Used(b) : b.ops[id] \in QiOperation /\ ValidOperation(b, b.ops[id])
    BY Zenon, <1>1 DEF Used, Good, Valid
  <2>5. \A id \in Used(b) :
          /\ d.ops[id] \in QiOperation /\ d.ops[id] # None
          /\ d.ops[id].claims = b.ops[id].claims /\ ValidOperation(b, d.ops[id])
    BY Zenon, <2>2, <2>3, <2>4 DEF Used
  <2>6. \A id \in Ids : d.ops[id] \in QiOperation \cup {None}
    BY Zenon, <2>2, <2>5 DEF Used
  <2>7. IsBook(d)
    BY <1>1, <2>1, <2>2, <2>6 DEF IsBook, QiBook
  <2> QED
    BY ZenonT(60), <2>2, <2>5, <2>7, SameOperations
<1> QED
  BY <1>2, <1>3

\* What either side of a merge knew of an operation is in the merged one, which
\* claims what either side signed for.
LEMMA MergedOperationKnows ==
    ASSUME QiCustodyAssumption, NEW live \in QiOperation, NEW source \in QiOperation,
           NEW b, NEW d, ValidOperation(b, live), ValidOperation(d, source),
           source.state # "confirmed", Agree(live, source),
           NEW m, m = Merged(live, source)
    PROVE  /\ m \in QiOperation /\ m # None /\ KeepsOperation(live, m)
           /\ Candidates(source) \subseteq Candidates(m)
           /\ source.state = "submitted" => m.state = "submitted"
           /\ source.transaction # None => m.claims = source.claims
           /\ m.checkpoint = None /\ m.inclusion = None
<1> DEFINE tx == IF live.transaction # None THEN live.transaction ELSE source.transaction
           claims == MergedClaims(live, source)
           payload == IF live.payload = None THEN source.payload ELSE live.payload
           edges == live.replacements \cup source.replacements
           state == IF tx = None THEN live.state
                    ELSE IF live.state \in {"submitted", "confirmed"} \/ source.state = "submitted"
                      THEN "submitted" ELSE "signed"
           r == [live EXCEPT !.claims = claims, !.transaction = tx, !.payload = payload,
                             !.replacements = edges, !.state = state]
<1>1. m = Unanchored(r)
  BY DEF Merged
<1>2. /\ tx \in Tx \cup {None} /\ payload \in Tx \cup {None} /\ claims \in SUBSET Outpoints
      /\ edges \in SUBSET [parent : Tx, payload : Tx]
      /\ state \in Signed \cup {"reserved", "released"}
  BY DEF QiOperation, Signed, MergedClaims
<1>3. /\ live.transaction # None => tx = live.transaction
      /\ source.transaction # None => tx = source.transaction
      /\ tx = None => live.transaction = None /\ source.transaction = None
  BY DEF Agree
<1>4. /\ tx = None => state = live.state
      /\ tx # None => state \in {"signed", "submitted"}
      /\ tx # None /\ live.state \in {"submitted", "confirmed"} => state = "submitted"
      /\ tx # None /\ source.state = "submitted" => state = "submitted"
  OBVIOUS
<1>5. /\ live.state \in Signed <=> live.transaction # None
      /\ source.state \in Signed <=> source.transaction # None
      /\ live.state = "released" <=> live.claims = {}
      /\ source.state = "released" <=> source.claims = {}
  BY Zenon DEF ValidOperation
<1>6. /\ live.state \in Signed => claims = live.claims
      /\ source.transaction # None => claims = source.claims
  BY <1>5 DEF MergedClaims, Agree, Signed
<1> HIDE DEF tx, payload, edges, state, claims
<1>7. /\ r \in QiOperation /\ r.claims = claims /\ r.transaction = tx
      /\ r.replacements = edges /\ r.state = state
  BY ZenonT(60), <1>2 DEF QiOperation
<1> HIDE DEF r
<1>8. /\ m \in QiOperation /\ m # None /\ m.claims = r.claims /\ m.transaction = r.transaction
      /\ Candidates(m) = Candidates(r) /\ m.checkpoint = None /\ m.inclusion = None
      /\ r.state # "confirmed" => m.state = r.state
      /\ m.state \in Signed <=> r.state \in Signed
  BY SMTT(40), <1>1, <1>7, UnanchoredOperation
<1>9. Candidates(source) \subseteq Candidates(r) /\ Candidates(live) \subseteq Candidates(r)
  BY <1>3, <1>7 DEF Candidates, edges
<1>10. source.state = "submitted" => m.state = "submitted"
  BY <1>3, <1>4, <1>5, <1>7, <1>8 DEF Signed
<1>11. live.state \in Signed => m.state \in Signed /\ m.transaction = live.transaction /\ m.claims = live.claims
  BY <1>3, <1>4, <1>5, <1>6, <1>7, <1>8 DEF Signed
<1>12. live.state \in {"submitted", "confirmed"} => m.state = "submitted"
  BY <1>3, <1>4, <1>5, <1>7, <1>8 DEF Signed
<1> QED
  BY Zenon, <1>6, <1>7, <1>8, <1>9, <1>10, <1>11, <1>12 DEF KeepsOperation

\* merge_backup: nothing the journal or the backup knew is lost, and what the
\* backup's device signed for is claimed.
LEMMA MergeBackupKeeps ==
    ASSUME QiCustodyAssumption, NEW b, Good(b), NEW backup, Good(backup),
           NEW c, c = MergeBackup(b, backup), c # Refused
    PROVE  /\ Good(c) /\ Keeps(b, c)
           /\ \A id \in Used(backup) :
                /\ id \in Used(c) /\ Candidates(backup.ops[id]) \subseteq Candidates(c.ops[id])
                /\ backup.ops[id].transaction # None =>
                     /\ c.ops[id].claims = backup.ops[id].claims
                     /\ c.ops[id].checkpoint = None /\ c.ops[id].inclusion = None
                /\ backup.ops[id].state \in {"submitted", "confirmed"} => c.ops[id].state = "submitted"
<1> DEFINE d == FromBackup(backup)
           merged == [addresses |-> b.addresses \cup d.addresses,
                      ops |-> [id \in Ids |-> MergedOperation(b.ops[id], d.ops[id])]]
<1>1. /\ \A id \in Used(b) \cap Used(d) : Agree(b.ops[id], d.ops[id])
      /\ Valid(merged) /\ c = merged
  BY Zenon DEF MergeBackup
<1>2. /\ Good(d) /\ Used(d) = Used(backup) /\ d.addresses = backup.addresses
      /\ \A id \in Used(backup) : d.ops[id] = Unanchored(backup.ops[id])
  BY Zenon, FromBackupGood
<1> HIDE DEF d
<1>3. /\ c.addresses = b.addresses \cup d.addresses
      /\ \A id \in Ids : c.ops[id] = MergedOperation(b.ops[id], d.ops[id])
      /\ c = [addresses |-> c.addresses, ops |-> [id \in Ids |-> c.ops[id]]]
  <2> DEFINE addresses == b.addresses \cup d.addresses
             ops == [id \in Ids |-> MergedOperation(b.ops[id], d.ops[id])]
  <2>1. c = [addresses |-> addresses, ops |-> ops]
    BY Zenon, <1>1
  <2>2. \A id \in Ids : ops[id] = MergedOperation(b.ops[id], d.ops[id])
    BY Zenon
  <2>3. ops = [id \in Ids |-> ops[id]]
    BY Zenon
  <2> HIDE DEF addresses, ops
  <2>4. c.addresses = addresses /\ c.ops = ops
    BY <2>1
  <2> QED
    BY Zenon, <2>1, <2>2, <2>3, <2>4 DEF addresses
<1>4. Valid(c)
  BY Zenon, <1>1
<1> HIDE DEF merged
<1>5. \A id \in Used(b) : /\ id \in Ids /\ b.ops[id] # None /\ b.ops[id] \in QiOperation
                          /\ ValidOperation(b, b.ops[id])
  BY Zenon, OperationFields DEF Used, Good, Valid
<1>6. \A id \in Used(backup) :
        /\ id \in Ids /\ d.ops[id] # None /\ d.ops[id] \in QiOperation
        /\ ValidOperation(d, d.ops[id])
  BY Zenon, <1>2, OperationFields DEF Used, Good, Valid
<1>7. ASSUME NEW id \in Used(backup)
      PROVE  /\ d.ops[id].state # "confirmed" /\ d.ops[id].claims = backup.ops[id].claims
             /\ d.ops[id].transaction = backup.ops[id].transaction
             /\ d.ops[id].checkpoint = None /\ d.ops[id].inclusion = None
             /\ Candidates(d.ops[id]) = Candidates(backup.ops[id])
             /\ backup.ops[id].state \in {"submitted", "confirmed"} => d.ops[id].state = "submitted"
  <2>1. backup.ops[id] \in QiOperation /\ d.ops[id] = Unanchored(backup.ops[id])
    BY Zenon, <1>2, OperationFields DEF Used, Good
  <2>2. /\ d.ops[id].state # "confirmed" /\ d.ops[id].claims = backup.ops[id].claims
        /\ d.ops[id].transaction = backup.ops[id].transaction
        /\ d.ops[id].checkpoint = None /\ d.ops[id].inclusion = None
        /\ Candidates(d.ops[id]) = Candidates(backup.ops[id])
        /\ backup.ops[id].state = "confirmed" => d.ops[id].state = "submitted"
        /\ backup.ops[id].state # "confirmed" => d.ops[id].state = backup.ops[id].state
    BY SMTT(40), <2>1, UnanchoredOperation
  <2> QED
    BY Zenon, <2>2
<1>8. \A id \in Ids : /\ id \notin Used(b) => b.ops[id] = None
                      /\ id \notin Used(backup) => d.ops[id] = None
  BY Zenon, <1>2 DEF Used
<1>9. ASSUME NEW id \in Used(b), id \notin Used(backup)
      PROVE  /\ c.ops[id] \in QiOperation /\ c.ops[id] # None
             /\ KeepsOperation(b.ops[id], c.ops[id])
  <2>1. c.ops[id] = Unanchored(b.ops[id])
    BY Zenon, <1>3, <1>5, <1>8, <1>9 DEF MergedOperation
  <2> QED
    BY ZenonT(60), <1>5, <2>1, UnanchoredOperation
<1>10. ASSUME NEW id \in Used(backup), id \notin Used(b)
       PROVE  c.ops[id] = d.ops[id]
  BY Zenon, <1>3, <1>6, <1>8, <1>10 DEF MergedOperation
<1>11. ASSUME NEW id \in Used(b), id \in Used(backup)
       PROVE  /\ c.ops[id] \in QiOperation /\ c.ops[id] # None
              /\ KeepsOperation(b.ops[id], c.ops[id])
              /\ Candidates(d.ops[id]) \subseteq Candidates(c.ops[id])
              /\ d.ops[id].state = "submitted" => c.ops[id].state = "submitted"
              /\ d.ops[id].transaction # None => c.ops[id].claims = d.ops[id].claims
              /\ c.ops[id].checkpoint = None /\ c.ops[id].inclusion = None
  <2>1. c.ops[id] = Merged(b.ops[id], d.ops[id])
    BY Zenon, <1>3, <1>5, <1>6, <1>11 DEF MergedOperation
  <2>2. Agree(b.ops[id], d.ops[id])
    BY Zenon, <1>1, <1>2, <1>11
  <2>3. /\ b.ops[id] \in QiOperation /\ ValidOperation(b, b.ops[id])
        /\ d.ops[id] \in QiOperation /\ ValidOperation(d, d.ops[id])
        /\ d.ops[id].state # "confirmed"
    BY Zenon, <1>5, <1>6, <1>7, <1>11
  <2> QED
    BY SMTT(40), <2>1, <2>2, <2>3, MergedOperationKnows
<1>12. ASSUME NEW id \in Ids, id \notin Used(b), id \notin Used(backup)
       PROVE  c.ops[id] = None
  BY Zenon, <1>3, <1>8, <1>12 DEF MergedOperation
<1>13. \A id \in Ids : c.ops[id] \in QiOperation \cup {None}
  BY Zenon, <1>6, <1>9, <1>10, <1>11, <1>12
<1>14. c.addresses \in SUBSET Addresses /\ b.addresses \subseteq c.addresses
  BY <1>2, <1>3 DEF Good, IsBook, QiBook
<1>15. IsBook(c)
  BY <1>3, <1>13, <1>14 DEF IsBook, QiBook
<1>16. \A id \in Used(b) : id \in Used(c) /\ KeepsOperation(b.ops[id], c.ops[id])
  BY Zenon, <1>5, <1>9, <1>11 DEF Used
<1>17. ASSUME NEW id \in Used(backup)
       PROVE  /\ id \in Used(c) /\ Candidates(backup.ops[id]) \subseteq Candidates(c.ops[id])
              /\ backup.ops[id].transaction # None =>
                   /\ c.ops[id].claims = backup.ops[id].claims
                   /\ c.ops[id].checkpoint = None /\ c.ops[id].inclusion = None
              /\ backup.ops[id].state \in {"submitted", "confirmed"} => c.ops[id].state = "submitted"
  <2>1. CASE id \in Used(b)
    BY Zenon, <1>6, <1>7, <1>11, <2>1 DEF Used
  <2>2. CASE id \notin Used(b)
    BY Zenon, <1>6, <1>7, <1>10, <2>2 DEF Used
  <2> QED
    BY <2>1, <2>2
<1> QED
  BY Zenon, <1>4, <1>14, <1>15, <1>16, <1>17 DEF Good, Keeps

----------------------------------------------------------------------------
(* The books of all profiles.                                              *)

\* Every book is valid: no method but the merge validates what it leaves, but
\* each leaves a valid book valid.
IInv ==
    /\ book \in [Profiles -> QiBook \cup {None}]
    /\ \A p \in Profiles : book[p] # None => Good(book[p])

\* What a step may make of the book of p.
Successor(p, c) == Good(c) /\ (book[p] # None => Keeps(book[p], c))

LEMMA BackupsGood ==
    ASSUME QiCustodyAssumption, IInv, NEW backup \in Backups
    PROVE  Good(backup)
<1>1. CASE backup \in Files
  BY Zenon, <1>1 DEF QiCustodyAssumption, Good
<1>2. CASE backup \notin Files
  <2>1. PICK p \in {q \in Profiles : book[q] # None}, bare \in BOOLEAN : backup = Capture(book[p], bare)
    BY SMT, <1>2 DEF Backups
  <2>2. Good(book[p])
    BY Zenon DEF IInv
  <2> QED
    BY Zenon, <2>1, <2>2, CaptureGood
<1> QED
  BY <1>1, <1>2

\* A call on one operation of the book of p is one of those.
LEMMA OperateCalls ==
    ASSUME NEW p \in Profiles, book[p] # None, NEW id \in Ids
    PROVE  Operate(p, id) <=> \E c : Call(book[p], id, c) /\ Changed(p, c)
<1> DEFINE b == book[p]
<1>1. ASSUME Operate(p, id) PROVE \E c : Call(b, id, c) /\ Changed(p, c)
  <2> HIDE DEF b
  <2>1. ASSUME NEW coins \in SUBSET Outpoints, NEW block \in Blocks, Changed(p, Reserve(b, id, block, coins))
        PROVE  \E c : Call(b, id, c) /\ Changed(p, c)
    BY Zenon, <2>1 DEF Call
  <2>2. ASSUME id \in Used(b), OperateOn(p, id, b.ops[id])
        PROVE  \E c : Call(b, id, c) /\ Changed(p, c)
    BY ZenonT(60), <2>2 DEF Call, OperateOn, b
  <2> QED
    BY Zenon, <1>1, <2>1, <2>2 DEF Operate, b
<1>2. ASSUME NEW c, Call(b, id, c), Changed(p, c) PROVE Operate(p, id)
  BY ZenonT(60), <1>2 DEF Call, Operate, OperateOn
<1> QED
  BY Zenon, <1>1, <1>2

LEMMA OperateSucceeds ==
    ASSUME QiCustodyAssumption, IInv, NEW p \in Profiles, book[p] # None, NEW id \in Ids, Operate(p, id)
    PROVE  \E c : book' = [book EXCEPT ![p] = c] /\ Successor(p, c)
<1>1. PICK c : Call(book[p], id, c) /\ Changed(p, c)
  BY Zenon, OperateCalls
<1>2. Good(book[p])
  BY Zenon DEF IInv
<1>3. c # Refused /\ book' = [book EXCEPT ![p] = c]
  BY Zenon, <1>1 DEF Changed
<1>4. Advances(book[p], c)
  BY Zenon, <1>1, <1>2, <1>3, CallAdvances
<1> QED
  BY Zenon, <1>3, <1>4 DEF Advances, Successor

LEMMA NextSucceeds ==
    ASSUME QiCustodyAssumption, IInv, Next
    PROVE  \E p \in Profiles : \E c : book' = [book EXCEPT ![p] = c] /\ Successor(p, c)
<1>1. PICK p \in Profiles :
        \/ Initialize(p)
        \/ \E backup \in Backups : InitializeFromBackup(p, backup)
        \/ book[p] # None /\ \E backup \in Backups : Changed(p, MergeBackup(book[p], backup))
        \/ book[p] # None /\ \E id \in Ids : Operate(p, id)
  BY Zenon DEF Next
<1>2. ASSUME Initialize(p)
      PROVE  book' = [book EXCEPT ![p] = New] /\ Successor(p, New)
  BY Zenon, <1>2, NewGood DEF Initialize, Successor
<1>3. ASSUME NEW backup \in Backups, InitializeFromBackup(p, backup)
      PROVE  book' = [book EXCEPT ![p] = FromBackup(backup)] /\ Successor(p, FromBackup(backup))
  BY Zenon, <1>3, BackupsGood, FromBackupGood DEF InitializeFromBackup, Successor
<1>4. ASSUME book[p] # None, NEW backup \in Backups, Changed(p, MergeBackup(book[p], backup))
      PROVE  /\ book' = [book EXCEPT ![p] = MergeBackup(book[p], backup)]
             /\ Successor(p, MergeBackup(book[p], backup))
  <2>1. Good(book[p]) /\ Good(backup) /\ MergeBackup(book[p], backup) # Refused
    BY Zenon, <1>4, BackupsGood DEF IInv, Changed
  <2> QED
    BY Zenon, <1>4, <2>1, MergeBackupKeeps DEF Successor, Changed
<1> QED
  BY Zenon, <1>1, <1>2, <1>3, <1>4, OperateSucceeds

LEMMA StepIInv ==
    ASSUME QiCustodyAssumption, IInv, [Next]_book
    PROVE  IInv'
<1>1. CASE UNCHANGED book
  BY Zenon, <1>1 DEF IInv
<1>2. CASE Next
  <2>0. PICK p \in Profiles : \E c : book' = [book EXCEPT ![p] = c] /\ Successor(p, c)
    BY Zenon, <1>2, NextSucceeds
  <2>1. PICK c : book' = [book EXCEPT ![p] = c] /\ Successor(p, c)
    BY Zenon, <2>0
  <2>2. c \in QiBook /\ Good(c)
    BY Zenon, <2>1 DEF Successor, Good, IsBook
  <2>3. book' \in [Profiles -> QiBook \cup {None}]
    BY Zenon, <2>1, <2>2 DEF IInv
  <2>4. \A q \in Profiles : book'[q] = book[q] \/ book'[q] = c
    BY Zenon, <2>1 DEF IInv
  <2> QED
    BY Zenon, <2>2, <2>3, <2>4 DEF IInv
<1> QED
  BY <1>1, <1>2

\* No sequence of calls, merges and restores, by any number of profiles, makes a
\* book from_state refuses, and every merge claims the inputs its backup's device
\* signed for: IInv is inductive because each method keeps a valid book valid.
THEOREM BooksSafety ==
    ASSUME QiCustodyAssumption
    PROVE  Spec => []BooksReload
<1>1. Init => IInv
  BY Zenon DEF Init, IInv
<1>2. IInv => BooksReload
  <2> SUFFICES ASSUME IInv PROVE BooksReload
    OBVIOUS
  <2>1. TypeOK
    BY Zenon DEF IInv, TypeOK, IsBook
  <2>2. ReloadAccepts
    BY Zenon DEF IInv, ReloadAccepts, Reload, Good, IsBook, QiCustodyAssumption
  <2>3. MergeClaimsSigned
    <3> SUFFICES ASSUME NEW p \in Profiles, book[p] # None, NEW backup \in Backups,
                        MergeBackup(book[p], backup) # Refused
                 PROVE  LET merged == MergeBackup(book[p], backup) IN
                        \A id \in Used(backup) :
                              /\ Candidates(backup.ops[id]) \subseteq Candidates(merged.ops[id])
                              /\ backup.ops[id].transaction # None =>
                                   /\ merged.ops[id].claims = backup.ops[id].claims
                                   /\ merged.ops[id].checkpoint = None /\ merged.ops[id].inclusion = None
                              /\ backup.ops[id].state \in {"submitted", "confirmed"}
                                   => merged.ops[id].state = "submitted"
      BY Zenon DEF MergeClaimsSigned
    <3> DEFINE m == MergeBackup(book[p], backup)
    <3>1. Good(book[p]) /\ Good(backup) /\ m = MergeBackup(book[p], backup) /\ m # Refused
      BY Zenon, BackupsGood DEF IInv
    <3> HIDE DEF m
    <3> QED
      BY SMTT(60), <3>1, MergeBackupKeeps
  <2> QED
    BY <2>1, <2>2, <2>3 DEF BooksReload
<1> QED
  BY <1>1, <1>2, StepIInv, PTL DEF Spec

\* No call and no merge of an older backup takes back a signature, a candidate
\* or an input a signature spends, or claims that input for another operation.
THEOREM SignedSafety ==
    ASSUME QiCustodyAssumption
    PROVE  Spec => [][SignedHoldsInputs]_book
<1>1. Init => IInv
  BY Zenon DEF Init, IInv
<1>2. IInv /\ Next => SignedHoldsInputs
  <2> SUFFICES ASSUME IInv, Next PROVE SignedHoldsInputs
    OBVIOUS
  <2>0. PICK p \in Profiles : \E c : book' = [book EXCEPT ![p] = c] /\ Successor(p, c)
    BY Zenon, NextSucceeds
  <2>1. PICK c : book' = [book EXCEPT ![p] = c] /\ Successor(p, c)
    BY Zenon, <2>0
  <2>2. book'[p] = c /\ \A q \in Profiles : q # p => book'[q] = book[q]
    BY Zenon, <2>1 DEF IInv
  <2>3. ASSUME NEW q \in Profiles, book[q] # None
        PROVE  Keeps(book[q], book'[q]) /\ Good(book'[q])
    <3>1. CASE q = p
      BY Zenon, <2>1, <2>2, <2>3, <3>1 DEF Successor
    <3>2. CASE q # p
      BY Zenon, <2>2, <2>3, <3>2, UnmovedAdvances DEF IInv, Advances
    <3> QED
      BY <3>1, <3>2
  <2>4. ASSUME NEW q \in Profiles, NEW id \in Ids, book[q] # None, In(book[q], id, Signed)
        PROVE  /\ In(book'[q], id, Signed)
               /\ book'[q].ops[id].claims = book[q].ops[id].claims
               /\ book'[q].ops[id].transaction = book[q].ops[id].transaction
               /\ Candidates(book[q].ops[id]) \subseteq Candidates(book'[q].ops[id])
               /\ \A other \in Used(book'[q]) \ {id} :
                    book'[q].ops[other].claims \cap book[q].ops[id].claims = {}
    <3>1. id \in Used(book[q]) /\ book[q].ops[id].state \in Signed
      BY Zenon, <2>4 DEF In, Used
    <3>2. id \in Used(book'[q]) /\ KeepsOperation(book[q].ops[id], book'[q].ops[id])
      BY Zenon, <2>3, <2>4, <3>1 DEF Keeps
    <3>3. \A x, y \in Used(book'[q]) : x # y => book'[q].ops[x].claims \cap book'[q].ops[y].claims = {}
      BY Zenon, <2>3, <2>4 DEF Good, Valid
    <3>4. /\ book'[q].ops[id].state \in Signed
          /\ book'[q].ops[id].claims = book[q].ops[id].claims
          /\ book'[q].ops[id].transaction = book[q].ops[id].transaction
          /\ Candidates(book[q].ops[id]) \subseteq Candidates(book'[q].ops[id])
      BY Zenon, <3>1, <3>2 DEF KeepsOperation
    <3>5. In(book'[q], id, Signed)
      BY Zenon, <3>2, <3>4 DEF In, Used
    <3> QED
      BY Zenon, <3>2, <3>3, <3>4, <3>5
  <2> QED
    BY ZenonT(60), <2>4 DEF SignedHoldsInputs
<1> QED
  BY <1>1, <1>2, StepIInv, PTL DEF Spec

=============================================================================
