---------------------------- MODULE AccountBooks ----------------------------
(***************************************************************************)
(* One Quai account's operation book (quai-wallet account_custody.rs), the *)
(* value a browser keeps in one IndexedDB snapshot, and what a browser     *)
(* promises of it: every profile that holds the account has a book of its  *)
(* own, every call changes it atomically, and backups of one profile are   *)
(* restored into another.  BrowserAccounts implements this with reads and  *)
(* compare-and-swap writes from several tabs.                              *)
(*                                                                         *)
(* Every method takes the book and answers with the changed book, or with  *)
(* Refused, an error that leaves it alone.  A transaction and its hash are *)
(* one value; of its fields only the nonce and the gas price matter here.  *)
(* An older backup is the book of a profile that stood still since, or a   *)
(* file.                                                                   *)
(***************************************************************************)
EXTENDS Naturals, FiniteSetTheorems, TLAPS

CONSTANTS
    Ids,            \* ReservationIds
    Fees,           \* gas prices
    Blocks,         \* checkpoints of an inclusion
    MaxNonce,       \* u64::MAX
    MaxOperations,  \* MAX_ACCOUNT_OPERATIONS
    MaxVariants,    \* replacement edges of one operation
    None, Refused,
    Profiles,
    Files       \* backup files other devices wrote

Tx == [nonce : 0..MaxNonce, fee : Fees]

Signed == {"signed", "submitted", "confirmed"}

AccountOperation ==
    [nonce : 0..MaxNonce, state : Signed \cup {"reserved", "released"},
     transaction : Tx \cup {None}, payload : Tx \cup {None},
     replacements : SUBSET [parent : Tx, payload : Tx],
     inclusion : (Tx \X Blocks) \cup {None}]

AccountBook == [next : 0..MaxNonce, ops : [Ids -> AccountOperation \cup {None}]]
IsBook(b) == b \in AccountBook

New(first) == [next |-> first, ops |-> [id \in Ids |-> None]]

Used(b) == {id \in Ids : b.ops[id] # None}
In(b, id, states) == b.ops[id] # None /\ b.ops[id].state \in states

\* The root's hash, or the hash of a replacement's bytes (contains_candidate).
Candidates(op) ==
    ({op.transaction} \ {None}) \cup {edge.payload : edge \in op.replacements}

\* validate_family: distinct payloads that descend from the root, each at a
\* higher price than its parent and with its nonce.
ValidFamily(root, edges) ==
    /\ Cardinality(edges) <= MaxVariants
    /\ \A edge \in edges :
         /\ edge.parent \in {root} \cup {other.payload : other \in edges}
         /\ edge.payload.nonce = edge.parent.nonce /\ edge.payload.fee > edge.parent.fee
         /\ \A other \in edges : other.payload = edge.payload => other = edge

ValidOperation(b, op) ==
    /\ op.nonce < b.next
    /\ (op.state \in Signed) <=> (op.transaction # None)
    /\ (op.state = "confirmed") <=> (op.inclusion # None)
    /\ op.payload # None => op.payload = op.transaction /\ op.payload.nonce = op.nonce
    /\ IF op.payload = None THEN op.replacements = {} ELSE ValidFamily(op.payload, op.replacements)
    /\ op.inclusion # None => op.inclusion[1] \in Candidates(op)

Valid(b) ==
    /\ Cardinality(Used(b)) <= MaxOperations
    /\ \A id \in Used(b) : ValidOperation(b, b.ops[id])
    /\ \A x, y \in Used(b) : b.ops[x].nonce = b.ops[y].nonce => x = y

\* None and Refused are no values of the journal; a file is what some device's
\* export_state wrote.
CustodyAssumption ==
    /\ IsFiniteSet(Ids) /\ Fees \subseteq Nat /\ MaxNonce \in Nat \ {0}
    /\ MaxOperations \in Nat /\ MaxVariants \in Nat
    /\ None \notin Tx /\ None \notin Tx \X Blocks /\ None \notin AccountOperation
    /\ None \notin AccountBook /\ Refused \notin AccountBook /\ Refused # None
    /\ \A file \in Files : IsBook(file) /\ Valid(file)

\* export_state and from_state: a book that is not valid cannot be read back.
Reload(b) == IF Valid(b) THEN b ELSE Refused

----------------------------------------------------------------------------

NextNonce(b, pending) == IF pending > b.next THEN pending ELSE b.next

ReserveNonce(b, id, pending) ==
    LET nonce == NextNonce(b, pending) IN
    IF b.ops[id] # None \/ Cardinality(Used(b)) >= MaxOperations \/ nonce >= MaxNonce
    THEN Refused
    ELSE [next |-> nonce + 1,
          ops |-> [b.ops EXCEPT ![id] =
                     [nonce |-> nonce, state |-> "reserved", transaction |-> None,
                      payload |-> None, replacements |-> {}, inclusion |-> None]]]

ReleaseUnsigned(b, id) ==
    IF In(b, id, {"reserved"}) THEN [b EXCEPT !.ops[id].state = "released"] ELSE Refused

ReopenUnsigned(b, id) ==
    IF In(b, id, {"released"}) THEN [b EXCEPT !.ops[id].state = "reserved"] ELSE Refused

\* The bytes of an operation whose hash alone is known complete it; bytes that
\* are already there change nothing.
CommitSigned(b, id, tx) ==
    IF \/ b.ops[id] = None
       \/ tx.nonce # b.ops[id].nonce
       \/ b.ops[id].state = "released"
       \/ b.ops[id].transaction \notin {None, tx}
    THEN Refused
    ELSE [b EXCEPT !.ops[id] =
            [b.ops[id] EXCEPT !.payload = tx, !.transaction = tx,
                              !.state = IF @ = "reserved" THEN "signed" ELSE @]]

CommitReplacement(b, id, parent, tx) ==
    LET edge == [parent |-> parent, payload |-> tx] IN
    IF ~In(b, id, {"signed", "submitted"}) THEN Refused
    ELSE IF b.ops[id].payload = None THEN Refused
    ELSE IF ~ValidFamily(b.ops[id].payload, b.ops[id].replacements \cup {edge}) THEN Refused
    ELSE [b EXCEPT !.ops[id].replacements = @ \cup {edge}]

MarkSubmitted(b, id) ==
    IF In(b, id, {"signed", "submitted"}) THEN [b EXCEPT !.ops[id].state = "submitted"] ELSE Refused

ObserveInclusion(b, id, tx, block) ==
    IF In(b, id, {"confirmed"}) /\ b.ops[id].inclusion = <<tx, block>> THEN b
    ELSE IF ~In(b, id, {"signed", "submitted"}) THEN Refused
    ELSE IF tx \notin Candidates(b.ops[id]) THEN Refused
    ELSE [b EXCEPT !.ops[id] = [@ EXCEPT !.state = "confirmed", !.inclusion = <<tx, block>>]]

InvalidateInclusion(b, id, expected) ==
    IF In(b, id, {"confirmed"}) /\ b.ops[id].inclusion = expected
    THEN [b EXCEPT !.ops[id] = [@ EXCEPT !.state = "submitted", !.inclusion = None]] ELSE Refused

----------------------------------------------------------------------------
\* An inclusion is never taken from a backup.
Unconfirmed(op) ==
    [op EXCEPT !.inclusion = None, !.state = IF @ = "confirmed" THEN "submitted" ELSE @]

FromBackup(backup) ==
    [backup EXCEPT !.ops = [id \in Ids |-> IF @[id] = None THEN None ELSE Unconfirmed(@[id])]]

Agree(live, source) ==
    /\ live.nonce = source.nonce
    /\ None \in {live.transaction, source.transaction} \/ live.transaction = source.transaction
    /\ None \in {live.payload, source.payload} \/ live.payload = source.payload

\* Mutant: the backup's state overwrites the live one.
MergedTrusting(live, source) ==
    [source EXCEPT !.replacements = @ \cup live.replacements]

\* Both know the operation: what either signed stays signed.
Merged(live, source) ==
    LET tx == IF live.transaction # None THEN live.transaction ELSE source.transaction IN
    Unconfirmed(
        [live EXCEPT
            !.transaction = tx,
            !.payload = IF @ = None THEN source.payload ELSE @,
            !.replacements = @ \cup source.replacements,
            !.state = IF tx = None THEN @
                      ELSE IF @ \in {"submitted", "confirmed"} \/ source.state = "submitted"
                        THEN "submitted" ELSE "signed"])

\* Mutant: the nonce cursor stays where it is.
MergedNextLive(b, incoming) == b.next

MergedNext(b, incoming) == IF incoming.next > b.next THEN incoming.next ELSE b.next

MergedOperation(live, source) ==
    IF source = None /\ live = None THEN None
    ELSE IF source = None THEN Unconfirmed(live)
    ELSE IF live = None THEN source ELSE Merged(live, source)

MergeBackup(b, backup) ==
    LET incoming == FromBackup(backup)
        merged == [next |-> MergedNext(b, incoming),
                   ops |-> [id \in Ids |-> MergedOperation(b.ops[id], incoming.ops[id])]]
    IN  IF /\ \A id \in Used(b) \cap Used(incoming) : Agree(b.ops[id], incoming.ops[id])
           /\ Valid(merged)
        THEN merged ELSE Refused

\* Snapshot::inclusion: an inclusion gives way to the one observed now.
Reconciled(b, id, next) ==
    LET old == b.ops[id].inclusion
        cleared == IF old = None THEN b ELSE InvalidateInclusion(b, id, old)
    IN  IF old = next THEN b
        ELSE IF next = None \/ cleared = Refused THEN cleared
        ELSE ObserveInclusion(cleared, id, next[1], next[2])

----------------------------------------------------------------------------
VARIABLE book     \* book[p]: the profile's book, None before it is initialised

TypeOK == \A p \in Profiles : book[p] = None \/ IsBook(book[p])

Init == book = [p \in Profiles |-> None]

\* A capture of a whole profile.  A native wallet may know of an operation only
\* the hash it signed (mark_signed), and captures that.
Capture(b, hashesOnly) ==
    LET bare(op) == IF op = None THEN None
                    ELSE [Unconfirmed(op) EXCEPT !.payload = None, !.replacements = {}]
    IN  IF hashesOnly THEN [b EXCEPT !.ops = [id \in Ids |-> bare(@[id])]] ELSE b

Backups ==
    Files \cup {Capture(book[p], bare) : p \in {q \in Profiles : book[q] # None}, bare \in BOOLEAN}

Initialize(p, first) ==
    /\ book[p] = None
    /\ book' = [book EXCEPT ![p] = New(first)]

InitializeFromBackup(p, backup) ==
    /\ book[p] = None
    /\ book' = [book EXCEPT ![p] = FromBackup(backup)]

Changed(p, result) ==
    /\ book[p] # None /\ result # Refused
    /\ book' = [book EXCEPT ![p] = result]

OperateOn(p, id, op) ==
    \/ Changed(p, ReleaseUnsigned(book[p], id))
    \/ Changed(p, ReopenUnsigned(book[p], id))
    \/ \E tx \in Tx : Changed(p, CommitSigned(book[p], id, tx))
    \/ \E parent \in Candidates(op), tx \in Tx : Changed(p, CommitReplacement(book[p], id, parent, tx))
    \/ Changed(p, MarkSubmitted(book[p], id))
    \/ \E tx \in Candidates(op), block \in Blocks :
         \/ Changed(p, ObserveInclusion(book[p], id, tx, block))
         \/ Changed(p, InvalidateInclusion(book[p], id, <<tx, block>>))
    \/ \E next \in (Candidates(op) \X Blocks) \cup {None} :
         op.state \in Signed /\ Changed(p, Reconciled(book[p], id, next))

Operate(p, id) ==
    \/ \E pending \in 0..MaxNonce : Changed(p, ReserveNonce(book[p], id, pending))
    \/ id \in Used(book[p]) /\ OperateOn(p, id, book[p].ops[id])

Next ==
    \E p \in Profiles :
        \/ \E first \in {0, 1} : Initialize(p, first)
        \/ \E backup \in Backups : InitializeFromBackup(p, backup)
        \/ book[p] # None /\ \E backup \in Backups : Changed(p, MergeBackup(book[p], backup))
        \/ book[p] # None /\ \E id \in Ids : Operate(p, id)

Spec == Init /\ [][Next]_book

----------------------------------------------------------------------------
\* The bytes every call leaves behind are bytes from_state accepts: no sequence
\* of calls and merges, half of which check nothing themselves, locks the
\* account out of its own journal at the next read.
ReloadAccepts == \A p \in Profiles : book[p] # None => Reload(book[p]) # Refused

\* What was signed stays: no call and no merge of an older backup releases a
\* signed operation, changes its root, loses a replacement, or gives its nonce
\* to another operation.
SignedKept ==
    \A p \in Profiles, id \in Ids :
      (book[p] # None /\ In(book[p], id, Signed)) =>
          /\ In(book'[p], id, Signed)
          /\ book'[p].ops[id].nonce = book[p].ops[id].nonce
          /\ book'[p].ops[id].transaction = book[p].ops[id].transaction
          /\ Candidates(book[p].ops[id]) \subseteq Candidates(book'[p].ops[id])

\* A nonce is handed out once: the cursor never goes back, and an operation that
\* appears takes a nonce the cursor had not passed, unless a merge brings it.
NonceForward ==
    \A p \in Profiles :
      book[p] # None =>
          /\ book'[p].next >= book[p].next
          /\ \A id \in Used(book'[p]) \ Used(book[p]) :
               \/ book'[p].ops[id].nonce >= book[p].next
               \/ \E backup \in Backups :
                    id \in Used(backup) /\ backup.ops[id].nonce = book'[p].ops[id].nonce

\* A merge that is accepted knows everything the backup knew: its signatures, its
\* replacements and the nonces it had passed; nothing is confirmed on its word.
MergeKnowsBackup ==
    \A p \in Profiles : \A backup \in Backups :
        LET merged == MergeBackup(book[p], backup) IN
        (book[p] # None /\ merged # Refused) =>
            /\ merged.next >= backup.next
            /\ \A id \in Used(backup) :
                 /\ id \in Used(merged)
                 /\ Candidates(backup.ops[id]) \subseteq Candidates(merged.ops[id])
                 /\ backup.ops[id].state \in {"submitted", "confirmed"}
                      => merged.ops[id].state = "submitted"

\* The account journal's part of what every restart finds.
BooksReload == TypeOK /\ ReloadAccepts /\ MergeKnowsBackup
\* The account journal's part of what no step undoes.
SignaturesKept == SignedKept /\ NonceForward

----------------------------------------------------------------------------
(* What one method makes of one book.                                      *)

Good(b) == IsBook(b) /\ Valid(b)

\* What a method keeps of an operation, and of a book.
KeepsOperation(old, new) ==
    /\ new.nonce = old.nonce
    /\ old.state \in Signed =>
         /\ new.state \in Signed /\ new.transaction = old.transaction
         /\ Candidates(old) \subseteq Candidates(new)
    /\ old.state \in {"submitted", "confirmed"} => new.state \in {"submitted", "confirmed"}

Keeps(b, c) ==
    /\ c.next >= b.next
    /\ \A id \in Used(b) : id \in Used(c) /\ KeepsOperation(b.ops[id], c.ops[id])

\* And an operation that appears takes a nonce the cursor had not passed.
Advances(b, c) ==
    /\ Good(c) /\ Keeps(b, c)
    /\ \A id \in Used(c) \ Used(b) : c.ops[id].nonce >= b.next

\* An operation of a book, by its fields.
LEMMA OperationFields ==
    ASSUME CustodyAssumption, NEW b, IsBook(b), NEW id \in Ids, b.ops[id] # None
    PROVE  /\ b.ops[id] \in AccountOperation
           /\ b.ops[id].nonce \in 0..MaxNonce /\ b.ops[id].state \in Signed \cup {"reserved", "released"}
           /\ b.ops[id].transaction \in Tx \cup {None} /\ b.ops[id].payload \in Tx \cup {None}
           /\ b.ops[id].replacements \in SUBSET [parent : Tx, payload : Tx]
           /\ b.ops[id].inclusion \in (Tx \X Blocks) \cup {None}
BY DEF IsBook, AccountBook, AccountOperation

\* The book with one operation changed, and the operation in another state.
With(b, id, op) == [b EXCEPT !.ops[id] = op]
InState(op, state) == [op EXCEPT !.state = state]

\* Most methods change one operation.  When the new one is valid and keeps what
\* the old one was, so does the book.
LEMMA OneOperation ==
    ASSUME CustodyAssumption, NEW b, Good(b), NEW id \in Used(b), NEW op \in AccountOperation,
           ValidOperation(b, op), KeepsOperation(b.ops[id], op)
    PROVE  LET c == With(b, id, op)
           IN  Advances(b, c) /\ Used(c) = Used(b) /\ c.ops[id] = op
<1> DEFINE c == With(b, id, op)
<1>1. /\ b.next \in 0..MaxNonce /\ c.next = b.next
      /\ b.ops \in [Ids -> AccountOperation \cup {None}]
      /\ c = [next |-> b.next, ops |-> [b.ops EXCEPT ![id] = op]]
  BY DEF Good, IsBook, AccountBook, With
<1>2. id \in Ids /\ b.ops[id] # None /\ op # None
  BY DEF Used, CustodyAssumption
<1>3. \A x \in Ids : c.ops[x] = IF x = id THEN op ELSE b.ops[x]
  BY <1>1
<1> HIDE DEF c
<1>4. IsBook(c)
  <2>1. [b.ops EXCEPT ![id] = op] \in [Ids -> AccountOperation \cup {None}]
    BY Zenon, <1>1
  <2> QED
    BY <1>1, <2>1 DEF IsBook, AccountBook
<1>5. Used(c) = Used(b)
  BY <1>2, <1>3 DEF Used
<1>6. \A x \in Used(b) : c.ops[x].nonce = b.ops[x].nonce
  BY <1>3 DEF KeepsOperation, Used
<1>7. \A x \in Used(c) : ValidOperation(c, c.ops[x])
  <2> SUFFICES ASSUME NEW x \in Used(b) PROVE ValidOperation(c, c.ops[x])
    BY <1>5
  <2>1. ValidOperation(b, c.ops[x])
    BY <1>3 DEF Good, Valid, Used
  <2> QED
    BY <2>1, <1>1 DEF ValidOperation
<1>8. Valid(c)
  BY Zenon, <1>5, <1>6, <1>7 DEF Valid, Good
<1>9. Keeps(b, c)
  <2>1. \A x \in Used(b) : KeepsOperation(b.ops[x], c.ops[x])
    BY <1>3 DEF KeepsOperation, Used
  <2> QED
    BY <1>1, <1>5, <2>1 DEF Keeps
<1> QED
  BY Zenon, <1>2, <1>3, <1>4, <1>5, <1>8, <1>9 DEF c, Good, Advances

\* reserve_nonce: the one method that adds an operation.
LEMMA ReserveNonceAdvances ==
    ASSUME CustodyAssumption, NEW b, Good(b), NEW id \in Ids, NEW pending \in Nat,
           NEW c, c = ReserveNonce(b, id, pending), c # Refused
    PROVE  /\ Advances(b, c) /\ b.ops[id] = None
           /\ c.ops[id] # None /\ c.ops[id].nonce = NextNonce(b, pending)
<1> DEFINE nonce == NextNonce(b, pending)
           op == [nonce |-> nonce, state |-> "reserved", transaction |-> None,
                  payload |-> None, replacements |-> {}, inclusion |-> None]
           d == [next |-> nonce + 1, ops |-> [b.ops EXCEPT ![id] = op]]
<1>1. /\ b.ops[id] = None /\ Cardinality(Used(b)) < MaxOperations /\ nonce < MaxNonce
      /\ c = d
  <2>1. IsFiniteSet(Used(b))
    BY FS_Subset DEF Used, CustodyAssumption
  <2>2. Cardinality(Used(b)) \in Nat
    BY <2>1, FS_CardinalityType
  <2>3. nonce \in Nat
    BY DEF NextNonce, Good, IsBook, AccountBook
  <2> QED
    BY <2>2, <2>3 DEF ReserveNonce, CustodyAssumption
<1>2. b.next \in 0..MaxNonce /\ b.ops \in [Ids -> AccountOperation \cup {None}] /\ nonce \in Nat /\ nonce >= b.next
  BY DEF NextNonce, Good, IsBook, AccountBook
<1>3. op \in AccountOperation /\ op # None
  BY <1>1, <1>2 DEF AccountOperation, CustodyAssumption
<1>4. /\ c.next = nonce + 1 /\ c.next \in 0..MaxNonce
      /\ \A x \in Ids : c.ops[x] = IF x = id THEN op ELSE b.ops[x]
  BY <1>1, <1>2 DEF CustodyAssumption
<1>5. IsBook(c)
  BY <1>1, <1>2, <1>3, <1>4 DEF IsBook, AccountBook
<1>6. op.nonce = nonce /\ op.state = "reserved" /\ op.transaction = None /\ op.payload = None
      /\ op.replacements = {} /\ op.inclusion = None
  OBVIOUS
<1> HIDE DEF d, op, nonce
<1>7. Used(c) = Used(b) \cup {id} /\ id \notin Used(b)
  BY <1>1, <1>3, <1>4 DEF Used
<1>8. Cardinality(Used(c)) <= MaxOperations
  <2>1. IsFiniteSet(Used(b))
    BY FS_Subset DEF Used, CustodyAssumption
  <2>2. Cardinality(Used(c)) = Cardinality(Used(b)) + 1 /\ Cardinality(Used(b)) \in Nat
    BY <2>1, <1>7, FS_AddElement, FS_CardinalityType
  <2> QED
    BY <2>2, <1>1 DEF CustodyAssumption
<1>9. \A x \in Used(b) : /\ c.ops[x] = b.ops[x] /\ ValidOperation(b, b.ops[x])
                          /\ b.ops[x].nonce < b.next /\ b.ops[x].nonce \in Nat
  <2> SUFFICES ASSUME NEW x \in Used(b)
               PROVE  /\ c.ops[x] = b.ops[x] /\ ValidOperation(b, b.ops[x])
                      /\ b.ops[x].nonce < b.next /\ b.ops[x].nonce \in Nat
    OBVIOUS
  <2>1. c.ops[x] = b.ops[x] /\ x \in Ids /\ b.ops[x] # None
    BY <1>4, <1>7 DEF Used
  <2>2. ValidOperation(b, b.ops[x])
    BY Zenon DEF Good, Valid
  <2>3. b.ops[x].nonce \in 0..MaxNonce
    BY <2>1, OperationFields DEF Good
  <2> QED
    BY <2>1, <2>2, <2>3 DEF ValidOperation, CustodyAssumption
<1>10. \A x \in Used(c) : ValidOperation(c, c.ops[x])
  <2>1. ValidOperation(c, c.ops[id])
    BY <1>2, <1>4, <1>6 DEF ValidOperation, Signed
  <2>2. ASSUME NEW x \in Used(b) PROVE ValidOperation(c, c.ops[x])
    <3>1. ValidOperation(b, b.ops[x]) /\ c.ops[x] = b.ops[x] /\ b.ops[x].nonce < c.next
      BY <1>2, <1>4, <1>9
    <3> QED
      BY <3>1 DEF ValidOperation
  <2> QED
    BY Zenon, <2>1, <2>2, <1>7
<1>11. \A x, y \in Used(c) : c.ops[x].nonce = c.ops[y].nonce => x = y
  <2>1. \A x \in Used(b) : c.ops[x].nonce # c.ops[id].nonce
    BY <1>2, <1>4, <1>6, <1>9
  <2>2. \A x, y \in Used(b) : c.ops[x].nonce = c.ops[y].nonce => x = y
    BY Zenon, <1>9 DEF Good, Valid
  <2> QED
    BY ZenonT(60), <1>7, <2>1, <2>2
<1>12. Good(c)
  BY Zenon, <1>5, <1>8, <1>10, <1>11 DEF Good, Valid
<1>13. Keeps(b, c)
  <2>1. \A x \in Used(b) : x \in Used(c) /\ KeepsOperation(b.ops[x], c.ops[x])
    BY Zenon, <1>7, <1>9 DEF KeepsOperation
  <2>2. c.next >= b.next
    BY <1>2, <1>4
  <2> QED
    BY <2>1, <2>2 DEF Keeps
<1>14. \A x \in Used(c) \ Used(b) : c.ops[x].nonce >= b.next
  BY <1>2, <1>4, <1>6, <1>7
<1> QED
  BY Zenon, <1>1, <1>3, <1>4, <1>6, <1>12, <1>13, <1>14 DEF Advances, nonce

\* The methods that only move an operation from one state to another.
LEMMA StateAdvances ==
    ASSUME CustodyAssumption, NEW b, Good(b), NEW id \in Used(b),
           NEW state \in {"reserved", "released", "signed", "submitted"},
           state \in Signed <=> b.ops[id].state \in Signed, b.ops[id].state # "confirmed",
           b.ops[id].state = "submitted" => state = "submitted",
           NEW c, c = With(b, id, InState(b.ops[id], state))
    PROVE  /\ Advances(b, c) /\ c.ops[id].state = state
           /\ Candidates(c.ops[id]) = Candidates(b.ops[id])
<1> DEFINE old == b.ops[id]
           op == InState(b.ops[id], state)
<1>1. id \in Ids /\ old # None /\ old \in AccountOperation /\ ValidOperation(b, old)
  BY OperationFields DEF Used, Good, Valid
<1>2. /\ op.nonce = old.nonce /\ op.state = state /\ op.transaction = old.transaction
      /\ op.payload = old.payload /\ op.replacements = old.replacements
      /\ op.inclusion = old.inclusion /\ op \in AccountOperation
  BY <1>1 DEF AccountOperation, Signed, InState
<1> HIDE DEF op, old
<1>3. Candidates(op) = Candidates(old)
  BY Zenon, <1>2 DEF Candidates
<1>4. ValidOperation(b, op)
  BY <1>1, <1>2, <1>3 DEF ValidOperation, old
<1>5. KeepsOperation(old, op)
  BY <1>2, <1>3 DEF KeepsOperation, old, Signed
<1>6. Advances(b, With(b, id, op)) /\ With(b, id, op).ops[id] = op
  BY ZenonT(60), <1>2, <1>4, <1>5, OneOperation DEF old
<1> QED
  BY Zenon, <1>2, <1>3, <1>6 DEF op, old

LEMMA ReleaseUnsignedAdvances ==
    ASSUME CustodyAssumption, NEW b, Good(b), NEW id \in Ids,
           NEW c, c = ReleaseUnsigned(b, id), c # Refused
    PROVE  Advances(b, c)
<1>1. id \in Used(b) /\ b.ops[id].state = "reserved"
      /\ c = With(b, id, InState(b.ops[id], "released"))
  BY Zenon DEF With, InState, ReleaseUnsigned, In, Used
<1>2. /\ "released" \in Signed <=> b.ops[id].state \in Signed
      /\ "released" \in {"reserved", "released", "signed", "submitted"}
      /\ b.ops[id].state # "confirmed"
      /\ b.ops[id].state = "submitted" => "released" = "submitted"
  BY <1>1 DEF Signed
<1> QED
  BY Zenon, <1>1, <1>2, StateAdvances

LEMMA ReopenUnsignedAdvances ==
    ASSUME CustodyAssumption, NEW b, Good(b), NEW id \in Ids,
           NEW c, c = ReopenUnsigned(b, id), c # Refused
    PROVE  Advances(b, c)
<1>1. id \in Used(b) /\ b.ops[id].state = "released"
      /\ c = With(b, id, InState(b.ops[id], "reserved"))
  BY Zenon DEF With, InState, ReopenUnsigned, In, Used
<1>2. /\ "reserved" \in Signed <=> b.ops[id].state \in Signed
      /\ "reserved" \in {"reserved", "released", "signed", "submitted"}
      /\ b.ops[id].state # "confirmed"
      /\ b.ops[id].state = "submitted" => "reserved" = "submitted"
  BY <1>1 DEF Signed
<1> QED
  BY Zenon, <1>1, <1>2, StateAdvances

LEMMA MarkSubmittedAdvances ==
    ASSUME CustodyAssumption, NEW b, Good(b), NEW id \in Ids, 
           NEW c, c = MarkSubmitted(b, id), c # Refused
    PROVE  /\ Advances(b, c) /\ id \in Used(b) /\ c.ops[id].state = "submitted"
           /\ Candidates(c.ops[id]) = Candidates(b.ops[id])
<1>1. id \in Used(b) /\ b.ops[id].state \in {"signed", "submitted"}
      /\ c = With(b, id, InState(b.ops[id], "submitted"))
  BY Zenon DEF With, InState, MarkSubmitted, In, Used
<1>2. /\ "submitted" \in Signed <=> b.ops[id].state \in Signed
      /\ "submitted" \in {"reserved", "released", "signed", "submitted"}
      /\ b.ops[id].state # "confirmed"
      /\ b.ops[id].state = "submitted" => "submitted" = "submitted"
  BY <1>1 DEF Signed
<1> QED
  BY SMTT(40), <1>1, <1>2, StateAdvances

\* commit_signed: the bytes make the operation signed, with their root.
LEMMA CommitSignedAdvances ==
    ASSUME CustodyAssumption, NEW b, Good(b), NEW id \in Ids, NEW tx \in Tx,
           NEW c, c = CommitSigned(b, id, tx), c # Refused
    PROVE  /\ Advances(b, c) /\ id \in Used(b) /\ c.ops[id] # None
           /\ tx \in Candidates(c.ops[id])
<1> DEFINE old == b.ops[id]
           op == [b.ops[id] EXCEPT !.payload = tx, !.transaction = tx,
                                   !.state = IF @ = "reserved" THEN "signed" ELSE @]
<1>1. /\ id \in Used(b) /\ old # None /\ tx.nonce = old.nonce /\ old.state # "released"
      /\ old.transaction \in {None, tx} /\ c = With(b, id, op)
  BY Zenon DEF CommitSigned, With, Used
<1>2. old \in AccountOperation /\ ValidOperation(b, old) /\ tx # None
  BY <1>1, OperationFields DEF Good, Valid, CustodyAssumption
<1>3. /\ op.nonce = old.nonce /\ op.state = (IF old.state = "reserved" THEN "signed" ELSE old.state)
      /\ op.transaction = tx /\ op.payload = tx /\ op.replacements = old.replacements
      /\ op.inclusion = old.inclusion /\ op \in AccountOperation
      /\ old.state \in Signed \cup {"reserved", "released"}
  BY ZenonT(40), <1>2 DEF AccountOperation, Signed
<1> HIDE DEF op, old
<1>4. /\ op.state \in Signed /\ (op.state = "confirmed" <=> old.state = "confirmed")
      /\ old.state \in {"submitted", "confirmed"} => op.state \in {"submitted", "confirmed"}
  BY <1>1, <1>3 DEF Signed
<1>5. Candidates(old) \subseteq Candidates(op) /\ tx \in Candidates(op)
  BY <1>1, <1>2, <1>3 DEF Candidates
<1>6. ValidFamily(tx, op.replacements)
  <2>1. CASE old.payload = None
    <3>1. op.replacements = {}
      BY <1>2, <1>3, <2>1 DEF ValidOperation
    <3> QED
      BY <3>1, FS_EmptySet DEF ValidFamily, CustodyAssumption
  <2>2. CASE old.payload # None
    BY <1>1, <1>2, <1>3, <2>2 DEF ValidOperation, CustodyAssumption
  <2> QED
    BY <2>1, <2>2
<1>7. ValidOperation(b, op)
  <2>1. op.inclusion # None => op.inclusion[1] \in Candidates(op)
    BY Zenon, <1>2, <1>3, <1>5 DEF ValidOperation
  <2>2. op.state = "confirmed" <=> op.inclusion # None
    BY Zenon, <1>2, <1>3, <1>4 DEF ValidOperation
  <2>3. op.nonce < b.next
    BY Zenon, <1>2, <1>3 DEF ValidOperation
  <2> QED
    BY Zenon, <1>1, <1>2, <1>3, <1>4, <1>6, <2>1, <2>2, <2>3 DEF ValidOperation
<1>8. KeepsOperation(old, op)
  <2>1. old.state \in Signed => old.transaction = tx
    BY Zenon, <1>1, <1>2 DEF ValidOperation
  <2> QED
    BY Zenon, <1>3, <1>4, <1>5, <2>1 DEF KeepsOperation
<1>9. Advances(b, With(b, id, op)) /\ With(b, id, op).ops[id] = op
  BY Zenon, <1>1, <1>3, <1>7, <1>8, OneOperation DEF old
<1> QED
  BY <1>1, <1>3, <1>5, <1>9 DEF CustodyAssumption

\* commit_replacement: one more candidate.
LEMMA CommitReplacementAdvances ==
    ASSUME CustodyAssumption, NEW b, Good(b), NEW id \in Ids, NEW parent \in Tx, NEW tx \in Tx,
           NEW c, c = CommitReplacement(b, id, parent, tx), c # Refused
    PROVE  /\ Advances(b, c) /\ id \in Used(b) /\ c.ops[id] # None
           /\ tx \in Candidates(c.ops[id])
<1> DEFINE old == b.ops[id]
           edge == [parent |-> parent, payload |-> tx]
           op == [b.ops[id] EXCEPT !.replacements = @ \cup {edge}]
<1>1. /\ id \in Used(b) /\ old # None /\ old.state \in {"signed", "submitted"}
      /\ old.payload # None /\ ValidFamily(old.payload, old.replacements \cup {edge})
      /\ c = With(b, id, op)
  BY Zenon DEF CommitReplacement, With, Used, In
<1>2. old \in AccountOperation /\ ValidOperation(b, old) /\ edge \in [parent : Tx, payload : Tx]
      /\ edge.payload = tx
  BY <1>1, OperationFields DEF Good, Valid
<1> HIDE DEF edge
<1>3. /\ op.nonce = old.nonce /\ op.state = old.state /\ op.transaction = old.transaction
      /\ op.payload = old.payload /\ op.replacements = old.replacements \cup {edge}
      /\ op.inclusion = old.inclusion /\ op \in AccountOperation
  BY <1>2 DEF AccountOperation
<1> HIDE DEF op, old
<1>4. Candidates(old) \subseteq Candidates(op) /\ tx \in Candidates(op)
  BY <1>2, <1>3 DEF Candidates
<1>5. ValidOperation(b, op)
  <2>1. op.inclusion # None => op.inclusion[1] \in Candidates(op)
    BY Zenon, <1>2, <1>3, <1>4 DEF ValidOperation
  <2> QED
    BY Zenon, <1>1, <1>2, <1>3, <2>1 DEF ValidOperation
<1>6. KeepsOperation(old, op)
  BY Zenon, <1>3, <1>4 DEF KeepsOperation
<1>7. Advances(b, With(b, id, op)) /\ With(b, id, op).ops[id] = op
  BY SMTT(40), <1>1, <1>3, <1>5, <1>6, OneOperation DEF old
<1> QED
  BY <1>1, <1>3, <1>4, <1>7 DEF CustodyAssumption

LEMMA UnmovedAdvances ==
    ASSUME CustodyAssumption, NEW b, Good(b)
    PROVE  Advances(b, b)
<1>1. b.next >= b.next
  BY DEF Good, IsBook, AccountBook
<1> QED
  BY Zenon, <1>1 DEF Advances, Keeps, KeepsOperation

LEMMA AdvancesTransitive ==
    ASSUME CustodyAssumption, NEW a, NEW b, NEW c, Good(a), Advances(a, b), Advances(b, c)
    PROVE  Advances(a, c)
<1>1. a.next \in Nat /\ b.next \in Nat /\ c.next \in Nat
  BY DEF Good, IsBook, AccountBook, Advances
<1>2. \A id \in Used(b) : b.ops[id].nonce \in Nat
  BY OperationFields DEF Used, Advances, Good
<1>3. \A id \in Used(c) : c.ops[id].nonce \in Nat
  BY OperationFields DEF Used, Advances, Good
<1>4. b.next >= a.next /\ c.next >= b.next /\ Good(b) /\ Good(c)
  BY Zenon DEF Advances, Keeps
<1>5. \A id \in Used(a) : /\ id \in Used(b) /\ id \in Used(c)
                          /\ KeepsOperation(a.ops[id], b.ops[id]) /\ KeepsOperation(b.ops[id], c.ops[id])
  BY Zenon DEF Advances, Keeps
<1>6. \A id \in Used(a) : KeepsOperation(a.ops[id], c.ops[id])
  BY Zenon, <1>5 DEF KeepsOperation
<1>7. c.next >= a.next
  BY <1>1, <1>4
<1>8. ASSUME NEW id \in Used(c) \ Used(a) PROVE c.ops[id].nonce >= a.next
  <2>1. CASE id \in Used(b)
    <3>1. b.ops[id].nonce >= a.next /\ c.ops[id].nonce = b.ops[id].nonce
      BY Zenon, <2>1 DEF Advances, Keeps, KeepsOperation
    <3> QED
      BY Zenon, <3>1
  <2>2. CASE id \notin Used(b)
    <3>1. c.ops[id].nonce >= b.next
      BY Zenon, <2>2 DEF Advances
    <3> QED
      BY <3>1, <1>1, <1>3, <1>4
  <2> QED
    BY <2>1, <2>2
<1> QED
  BY Zenon, <1>4, <1>5, <1>6, <1>7, <1>8 DEF Advances, Keeps

LEMMA CandidatesAreTransactions ==
    ASSUME CustodyAssumption, NEW op \in AccountOperation
    PROVE  Candidates(op) \subseteq Tx
<1>1. op.transaction \in Tx \cup {None} /\ op.replacements \in SUBSET [parent : Tx, payload : Tx]
  BY DEF AccountOperation
<1> QED
  BY <1>1 DEF Candidates

\* observe_inclusion and invalidate_inclusion: the operation stays signed and
\* its inclusion is one of its candidates.
LEMMA ObserveInclusionAdvances ==
    ASSUME CustodyAssumption, NEW b, Good(b), NEW id \in Ids, NEW tx \in Tx, NEW block \in Blocks,
           NEW c, c = ObserveInclusion(b, id, tx, block), c # Refused
    PROVE  Advances(b, c)
<1> DEFINE old == b.ops[id]
           op == [b.ops[id] EXCEPT !.state = "confirmed", !.inclusion = <<tx, block>>]
<1>1. CASE c = b
  BY Zenon, <1>1, UnmovedAdvances
<1>2. CASE c # b
  <2>1. /\ id \in Used(b) /\ old # None /\ old.state \in {"signed", "submitted"}
        /\ tx \in Candidates(old) /\ c = With(b, id, op)
    BY Zenon, <1>2 DEF ObserveInclusion, With, Used, In
  <2>2. old \in AccountOperation /\ ValidOperation(b, old) /\ <<tx, block>> \in Tx \X Blocks
        /\ <<tx, block>> # None /\ <<tx, block>>[1] = tx
    BY <2>1, OperationFields DEF Good, Valid, CustodyAssumption
  <2>3. /\ op.nonce = old.nonce /\ op.state = "confirmed" /\ op.transaction = old.transaction
        /\ op.payload = old.payload /\ op.replacements = old.replacements
        /\ op.inclusion = <<tx, block>> /\ op \in AccountOperation
    BY Zenon, <2>2 DEF AccountOperation, Signed
  <2> HIDE DEF op, old
  <2>4. Candidates(op) = Candidates(old)
    BY Zenon, <2>3 DEF Candidates
  <2>5. old.state \in Signed /\ op.state \in Signed
    BY <2>1, <2>3 DEF Signed
  <2>6. ValidOperation(b, op)
    <3>1. op.inclusion # None /\ op.inclusion[1] \in Candidates(op)
      BY <2>1, <2>2, <2>3, <2>4
    <3> QED
      BY Zenon, <2>2, <2>3, <2>5, <3>1 DEF ValidOperation
  <2>7. KeepsOperation(old, op)
    BY Zenon, <2>3, <2>4, <2>5 DEF KeepsOperation
  <2> QED
    BY ZenonT(60), <2>1, <2>3, <2>6, <2>7, OneOperation DEF old
<1> QED
  BY <1>1, <1>2

LEMMA InvalidateInclusionAdvances ==
    ASSUME CustodyAssumption, NEW b, Good(b), NEW id \in Ids, NEW expected,
           NEW c, c = InvalidateInclusion(b, id, expected), c # Refused
    PROVE  Advances(b, c)
<1> DEFINE old == b.ops[id]
           op == [b.ops[id] EXCEPT !.state = "submitted", !.inclusion = None]
<1>1. id \in Used(b) /\ old # None /\ old.state = "confirmed" /\ c = With(b, id, op)
  BY Zenon DEF InvalidateInclusion, With, Used, In
<1>2. old \in AccountOperation /\ ValidOperation(b, old)
  BY <1>1, OperationFields DEF Good, Valid
<1>3. /\ op.nonce = old.nonce /\ op.state = "submitted" /\ op.transaction = old.transaction
      /\ op.payload = old.payload /\ op.replacements = old.replacements
      /\ op.inclusion = None /\ op \in AccountOperation
  BY Zenon, <1>2 DEF AccountOperation, Signed
<1> HIDE DEF op, old
<1>4. Candidates(op) = Candidates(old)
  BY Zenon, <1>3 DEF Candidates
<1>5. old.state \in Signed /\ op.state \in Signed /\ op.state # "confirmed"
  BY <1>1, <1>3 DEF Signed
<1>6. ValidOperation(b, op)
  BY Zenon, <1>2, <1>3, <1>5 DEF ValidOperation
<1>7. KeepsOperation(old, op)
  BY Zenon, <1>3, <1>4, <1>5 DEF KeepsOperation
<1> QED
  BY Zenon, <1>1, <1>3, <1>6, <1>7, OneOperation DEF old

\* Snapshot::inclusion: both of them, one after the other.
LEMMA ReconciledAdvances ==
    ASSUME CustodyAssumption, NEW b, Good(b), NEW id \in Used(b),
           NEW next \in (Candidates(b.ops[id]) \X Blocks) \cup {None},
           NEW c, c = Reconciled(b, id, next), c # Refused
    PROVE  Advances(b, c)
<1> DEFINE old == b.ops[id].inclusion
           cleared == IF old = None THEN b ELSE InvalidateInclusion(b, id, old)
<1>1. id \in Ids /\ Candidates(b.ops[id]) \subseteq Tx
  BY OperationFields, CandidatesAreTransactions DEF Used, Good
<1>2. next # None => next[1] \in Tx /\ next[2] \in Blocks
  BY <1>1
<1>3. /\ c = IF old = next THEN b
             ELSE IF next = None \/ cleared = Refused THEN cleared
             ELSE ObserveInclusion(cleared, id, next[1], next[2])
  BY Zenon DEF Reconciled
<1>4. cleared # Refused => Advances(b, cleared)
  BY Zenon, <1>1, UnmovedAdvances, InvalidateInclusionAdvances
<1> HIDE DEF cleared, old
<1>5. CASE old = next
  BY Zenon, <1>3, <1>5, UnmovedAdvances
<1>6. CASE old # next /\ (next = None \/ cleared = Refused)
  BY Zenon, <1>3, <1>4, <1>6
<1>7. CASE old # next /\ next # None /\ cleared # Refused
  <2>1. Good(cleared) /\ Advances(b, cleared)
    BY Zenon, <1>4, <1>7 DEF Advances
  <2>2. Advances(cleared, c)
    BY Zenon, <1>1, <1>2, <1>3, <1>7, <2>1, ObserveInclusionAdvances
  <2> QED
    BY Zenon, <2>1, <2>2, AdvancesTransitive
<1> QED
  BY <1>5, <1>6, <1>7

----------------------------------------------------------------------------
(* All the methods.                                                        *)

\* initialize: an account that has sent nothing, or one transaction.
LEMMA NewGood ==
    ASSUME CustodyAssumption, NEW first \in {0, 1}
    PROVE  Good(New(first))
<1>1. /\ New(first).next = first /\ first \in 0..MaxNonce /\ IsBook(New(first))
      /\ \A id \in Ids : New(first).ops[id] = None
  BY DEF New, IsBook, AccountBook, CustodyAssumption
<1>2. Used(New(first)) = {}
  BY Zenon, <1>1 DEF Used
<1> QED
  BY <1>1, <1>2, FS_EmptySet DEF Good, Valid, CustodyAssumption

\* Only a signed operation has candidates.
LEMMA CandidatesAreSigned ==
    ASSUME CustodyAssumption, NEW b, Good(b), NEW id \in Used(b), NEW tx \in Candidates(b.ops[id])
    PROVE  b.ops[id].state \in Signed
<1> SUFFICES ASSUME b.ops[id].state \notin Signed PROVE FALSE
  OBVIOUS
<1>1. ValidOperation(b, b.ops[id])
  BY Zenon DEF Good, Valid
<1>2. b.ops[id].transaction = None /\ b.ops[id].payload = None
  BY Zenon, <1>1 DEF ValidOperation
<1>3. b.ops[id].replacements = {}
  BY Zenon, <1>1, <1>2 DEF ValidOperation
<1> QED
  BY <1>2, <1>3 DEF Candidates

\* What a call on one operation may make of the book.
Call(b, id, c) ==
    \/ \E pending \in 0..MaxNonce : c = ReserveNonce(b, id, pending)
    \/ /\ id \in Used(b)
       /\ \/ c = ReleaseUnsigned(b, id) \/ c = ReopenUnsigned(b, id) \/ c = MarkSubmitted(b, id)
          \/ \E tx \in Tx : c = CommitSigned(b, id, tx)
          \/ \E parent \in Candidates(b.ops[id]), tx \in Tx : c = CommitReplacement(b, id, parent, tx)
          \/ \E tx \in Candidates(b.ops[id]), block \in Blocks :
               c = ObserveInclusion(b, id, tx, block) \/ c = InvalidateInclusion(b, id, <<tx, block>>)
          \/ \E next \in (Candidates(b.ops[id]) \X Blocks) \cup {None} :
               b.ops[id].state \in Signed /\ c = Reconciled(b, id, next)

LEMMA CallAdvances ==
    ASSUME CustodyAssumption, NEW b, Good(b), NEW id \in Ids, NEW c, Call(b, id, c), c # Refused
    PROVE  Advances(b, c)
<1> DEFINE op == b.ops[id]
<1>1. ASSUME NEW pending \in 0..MaxNonce, c = ReserveNonce(b, id, pending)
      PROVE  Advances(b, c)
  <2>1. pending \in Nat
    BY DEF CustodyAssumption
  <2> QED
    BY Zenon, <1>1, <2>1, ReserveNonceAdvances
<1>2. ASSUME id \in Used(b) PROVE op # None /\ op \in AccountOperation /\ Candidates(op) \subseteq Tx
  BY <1>2, OperationFields, CandidatesAreTransactions DEF Used, Good
<1> HIDE DEF op
<1>3. ASSUME c = ReleaseUnsigned(b, id) \/ c = ReopenUnsigned(b, id) \/ c = MarkSubmitted(b, id)
      PROVE  Advances(b, c)
  BY Zenon, <1>3, ReleaseUnsignedAdvances, ReopenUnsignedAdvances, MarkSubmittedAdvances
<1>4. ASSUME NEW tx \in Tx, c = CommitSigned(b, id, tx)
      PROVE  Advances(b, c)
  BY Zenon, <1>4, CommitSignedAdvances
<1>5. ASSUME id \in Used(b), NEW parent \in Candidates(op), NEW tx \in Tx, c = CommitReplacement(b, id, parent, tx)
      PROVE  Advances(b, c)
  BY Zenon, <1>2, <1>5, CommitReplacementAdvances
<1>6. ASSUME id \in Used(b), NEW tx \in Candidates(op), NEW block \in Blocks,
             c = ObserveInclusion(b, id, tx, block) \/ c = InvalidateInclusion(b, id, <<tx, block>>)
      PROVE  Advances(b, c)
  <2>1. tx \in Tx
    BY Zenon, <1>2, <1>6
  <2> QED
    BY Zenon, <1>6, <2>1, ObserveInclusionAdvances, InvalidateInclusionAdvances
<1>7. ASSUME id \in Used(b), NEW next \in (Candidates(op) \X Blocks) \cup {None}, c = Reconciled(b, id, next)
      PROVE  Advances(b, c)
  BY Zenon, <1>7, ReconciledAdvances DEF op
<1> QED
  BY Zenon, <1>1, <1>3, <1>4, <1>5, <1>6, <1>7 DEF Call, op

----------------------------------------------------------------------------
(* Backups.                                                                *)

\* What a backup says of an operation, without its inclusion.
LEMMA UnconfirmedOperation ==
    ASSUME CustodyAssumption, NEW op \in AccountOperation, NEW u, u = Unconfirmed(op)
    PROVE  /\ u \in AccountOperation /\ u # None /\ u.nonce = op.nonce
           /\ u.transaction = op.transaction /\ u.payload = op.payload
           /\ u.replacements = op.replacements /\ u.inclusion = None
           /\ op.state = "confirmed" => u.state = "submitted"
           /\ op.state # "confirmed" => u.state = op.state
           /\ u.state # "confirmed"
           /\ u.state \in Signed <=> op.state \in Signed
           /\ Candidates(u) = Candidates(op) /\ KeepsOperation(op, u)
           /\ \A b : ValidOperation(b, op) => ValidOperation(b, u)
<1>1. /\ u \in AccountOperation /\ u.nonce = op.nonce
      /\ u.transaction = op.transaction /\ u.payload = op.payload
      /\ u.replacements = op.replacements /\ u.inclusion = None
      /\ u.state = (IF op.state = "confirmed" THEN "submitted" ELSE op.state)
  BY Zenon DEF Unconfirmed, AccountOperation, Signed
<1>2. u # None
  BY <1>1 DEF CustodyAssumption
<1>3. /\ op.state = "confirmed" => u.state = "submitted"
      /\ op.state # "confirmed" => u.state = op.state
      /\ u.state # "confirmed"
      /\ u.state \in Signed <=> op.state \in Signed
      /\ op.state \in {"submitted", "confirmed"} => u.state \in {"submitted", "confirmed"}
  BY <1>1 DEF Signed
<1>4. Candidates(u) = Candidates(op)
  BY Zenon, <1>1 DEF Candidates
<1>5. KeepsOperation(op, u)
  BY Zenon, <1>1, <1>3, <1>4 DEF KeepsOperation
<1>6. \A b : ValidOperation(b, op) => ValidOperation(b, u)
  <2> SUFFICES ASSUME NEW b, ValidOperation(b, op) PROVE ValidOperation(b, u)
    OBVIOUS
  <2> QED
    BY Zenon, <1>1, <1>3 DEF ValidOperation
<1> QED
  BY Zenon, <1>1, <1>2, <1>3, <1>4, <1>5, <1>6

\* A book that describes the same operations, each of them validly, is valid.
LEMMA SameOperations ==
    ASSUME CustodyAssumption, NEW b, Good(b), NEW d, IsBook(d), d.next = b.next,
           \A id \in Ids : b.ops[id] = None => d.ops[id] = None,
           \A id \in Used(b) : /\ d.ops[id] # None /\ d.ops[id].nonce = b.ops[id].nonce
                               /\ ValidOperation(b, d.ops[id])
    PROVE  Good(d) /\ Used(d) = Used(b)
<1>1. Used(d) = Used(b)
  BY Zenon DEF Used
<1>2. \A id \in Used(d) : ValidOperation(d, d.ops[id])
  BY Zenon, <1>1 DEF ValidOperation
<1>3. \A x, y \in Used(d) : d.ops[x].nonce = d.ops[y].nonce => x = y
  BY Zenon, <1>1 DEF Good, Valid
<1> QED
  BY Zenon, <1>1, <1>2, <1>3 DEF Good, Valid

\* initialize_from_backup, and the first half of merge_backup.
LEMMA FromBackupGood ==
    ASSUME CustodyAssumption, NEW b, Good(b), NEW d, d = FromBackup(b)
    PROVE  /\ Good(d) /\ Used(d) = Used(b) /\ d.next = b.next
           /\ \A id \in Used(b) : d.ops[id] = Unconfirmed(b.ops[id])
<1>1. b.next \in 0..MaxNonce /\ b.ops \in [Ids -> AccountOperation \cup {None}]
      /\ b = [next |-> b.next, ops |-> b.ops]
  BY DEF Good, IsBook, AccountBook
<1>2. /\ d.next = b.next
      /\ d = [next |-> b.next,
              ops |-> [id \in Ids |-> IF b.ops[id] = None THEN None ELSE Unconfirmed(b.ops[id])]]
  BY <1>1 DEF FromBackup
<1>3. \A id \in Ids : d.ops[id] = IF b.ops[id] = None THEN None ELSE Unconfirmed(b.ops[id])
  BY <1>2
<1>4. \A id \in Used(b) : b.ops[id] \in AccountOperation /\ ValidOperation(b, b.ops[id])
  BY Zenon, <1>1 DEF Used, Good, Valid
<1>5. \A id \in Used(b) :
        /\ d.ops[id] = Unconfirmed(b.ops[id]) /\ d.ops[id] \in AccountOperation /\ d.ops[id] # None
        /\ d.ops[id].nonce = b.ops[id].nonce /\ ValidOperation(b, d.ops[id])
  <2> SUFFICES ASSUME NEW id \in Used(b)
               PROVE  /\ d.ops[id] = Unconfirmed(b.ops[id]) /\ d.ops[id] \in AccountOperation
                      /\ d.ops[id] # None /\ d.ops[id].nonce = b.ops[id].nonce
                      /\ ValidOperation(b, d.ops[id])
    OBVIOUS
  <2>1. d.ops[id] = Unconfirmed(b.ops[id])
    BY Zenon, <1>3 DEF Used
  <2>2. b.ops[id] \in AccountOperation /\ ValidOperation(b, b.ops[id])
    BY Zenon, <1>4
  <2> QED
    BY SMTT(40), <2>1, <2>2, UnconfirmedOperation
<1>6. \A id \in Ids : d.ops[id] \in AccountOperation \cup {None}
  BY Zenon, <1>3, <1>5 DEF Used
<1>7. IsBook(d)
  BY <1>1, <1>2, <1>3, <1>6 DEF IsBook, AccountBook
<1> QED
  BY Zenon, <1>2, <1>3, <1>5, <1>7, SameOperations

\* A capture, also one of hashes alone.
LEMMA CaptureGood ==
    ASSUME CustodyAssumption, NEW b, Good(b), NEW hashesOnly \in BOOLEAN, NEW d, d = Capture(b, hashesOnly)
    PROVE  Good(d)
<1> DEFINE bare(op) == [Unconfirmed(op) EXCEPT !.payload = None, !.replacements = {}]
<1>1. b.next \in 0..MaxNonce /\ b.ops \in [Ids -> AccountOperation \cup {None}]
      /\ b = [next |-> b.next, ops |-> b.ops]
  BY DEF Good, IsBook, AccountBook
<1>2. CASE ~hashesOnly
  BY Zenon, <1>2 DEF Capture
<1>3. CASE hashesOnly
  <2>1. d = [next |-> b.next,
             ops |-> [id \in Ids |-> IF b.ops[id] = None THEN None ELSE bare(b.ops[id])]]
    BY Zenon, <1>1, <1>3 DEF Capture
  <2> HIDE DEF bare
  <2>2. d.next = b.next /\ \A id \in Ids : d.ops[id] = IF b.ops[id] = None THEN None ELSE bare(b.ops[id])
    BY <2>1
  <2>3. ASSUME NEW op \in AccountOperation, ValidOperation(b, op)
        PROVE  /\ bare(op) \in AccountOperation /\ bare(op) # None /\ bare(op).nonce = op.nonce
               /\ ValidOperation(b, bare(op))
    <3> DEFINE u == Unconfirmed(op)
    <3>1. /\ u \in AccountOperation /\ u.nonce = op.nonce /\ u.inclusion = None
          /\ u.state # "confirmed" /\ ValidOperation(b, u)
      BY Zenon, <2>3, UnconfirmedOperation
    <3> HIDE DEF u
    <3> DEFINE v == [u EXCEPT !.payload = None, !.replacements = {}]
    <3>2. /\ v \in AccountOperation /\ v.nonce = u.nonce /\ v.state = u.state
          /\ v.transaction = u.transaction /\ v.payload = None /\ v.replacements = {}
          /\ v.inclusion = u.inclusion
      BY ZenonT(40), <3>1 DEF AccountOperation
    <3> HIDE DEF v
    <3>3. ValidOperation(b, v)
      BY Zenon, <3>1, <3>2 DEF ValidOperation
    <3>4. v # None
      BY <3>2 DEF CustodyAssumption
    <3> QED
      BY Zenon, <3>1, <3>2, <3>3, <3>4 DEF v, u, bare
  <2>4. \A id \in Used(b) : b.ops[id] \in AccountOperation /\ ValidOperation(b, b.ops[id])
    BY Zenon, <1>1 DEF Used, Good, Valid
  <2>5. \A id \in Used(b) :
          /\ d.ops[id] \in AccountOperation /\ d.ops[id] # None
          /\ d.ops[id].nonce = b.ops[id].nonce /\ ValidOperation(b, d.ops[id])
    BY Zenon, <2>2, <2>3, <2>4 DEF Used
  <2>6. \A id \in Ids : d.ops[id] \in AccountOperation \cup {None}
    BY Zenon, <2>2, <2>5 DEF Used
  <2>7. IsBook(d)
    BY <1>1, <2>1, <2>2, <2>6 DEF IsBook, AccountBook
  <2> QED
    BY ZenonT(60), <2>2, <2>5, <2>7, SameOperations
<1> QED
  BY <1>2, <1>3

\* What either side of a merge knew of an operation is in the merged one.
LEMMA MergedOperationKnows ==
    ASSUME CustodyAssumption, NEW live \in AccountOperation, NEW source \in AccountOperation,
           NEW b, NEW d, ValidOperation(b, live), ValidOperation(d, source),
           source.state # "confirmed", Agree(live, source),
           NEW m, m = Merged(live, source)
    PROVE  /\ m \in AccountOperation /\ m # None /\ KeepsOperation(live, m)
           /\ Candidates(source) \subseteq Candidates(m)
           /\ source.state = "submitted" => m.state = "submitted"
<1> DEFINE tx == IF live.transaction # None THEN live.transaction ELSE source.transaction
           payload == IF live.payload = None THEN source.payload ELSE live.payload
           edges == live.replacements \cup source.replacements
           state == IF tx = None THEN live.state
                    ELSE IF live.state \in {"submitted", "confirmed"} \/ source.state = "submitted"
                      THEN "submitted" ELSE "signed"
           r == [live EXCEPT !.transaction = tx, !.payload = payload,
                             !.replacements = edges, !.state = state]
<1>1. m = Unconfirmed(r)
  <2>1. live = [live EXCEPT !.nonce = @]
    BY DEF AccountOperation
  <2> QED
    BY DEF Merged
<1>2. /\ tx \in Tx \cup {None} /\ payload \in Tx \cup {None}
      /\ edges \in SUBSET [parent : Tx, payload : Tx]
      /\ state \in Signed \cup {"reserved", "released"}
  BY DEF AccountOperation, Signed
<1>3. /\ live.transaction # None => tx = live.transaction
      /\ source.transaction # None => tx = source.transaction
      /\ tx = None => live.transaction = None /\ source.transaction = None
  BY DEF Agree
<1>4. /\ tx = None => state = live.state
      /\ tx # None => state \in {"signed", "submitted"}
      /\ tx # None /\ live.state \in {"submitted", "confirmed"} => state = "submitted"
      /\ tx # None /\ source.state = "submitted" => state = "submitted"
  OBVIOUS
<1> HIDE DEF tx, payload, edges, state
<1>5. /\ r \in AccountOperation /\ r.nonce = live.nonce /\ r.transaction = tx
      /\ r.replacements = edges /\ r.state = state
  BY Zenon, <1>2 DEF AccountOperation
<1> HIDE DEF r
<1>6. /\ m \in AccountOperation /\ m # None /\ m.nonce = r.nonce /\ m.transaction = r.transaction
      /\ Candidates(m) = Candidates(r)
      /\ r.state # "confirmed" => m.state = r.state
      /\ m.state \in Signed <=> r.state \in Signed
  BY SMTT(40), <1>1, <1>5, UnconfirmedOperation
<1>7. /\ live.state \in Signed <=> live.transaction # None
      /\ source.state \in Signed <=> source.transaction # None
  BY Zenon DEF ValidOperation
<1>8. Candidates(source) \subseteq Candidates(r) /\ Candidates(live) \subseteq Candidates(r)
  BY <1>3, <1>5 DEF Candidates, edges
<1>9. source.state = "submitted" => m.state = "submitted"
  BY <1>3, <1>4, <1>5, <1>6, <1>7 DEF Signed
<1>10. live.state \in Signed => m.state \in Signed /\ m.transaction = live.transaction
  BY <1>3, <1>4, <1>5, <1>6, <1>7 DEF Signed
<1>11. live.state \in {"submitted", "confirmed"} => m.state = "submitted"
  BY <1>3, <1>4, <1>5, <1>6, <1>7 DEF Signed
<1> QED
  BY Zenon, <1>5, <1>6, <1>8, <1>9, <1>10, <1>11 DEF KeepsOperation

\* merge_backup: nothing the journal or the backup knew is lost.
LEMMA MergeBackupKeeps ==
    ASSUME CustodyAssumption, NEW b, Good(b), NEW backup, Good(backup),
           NEW c, c = MergeBackup(b, backup), c # Refused
    PROVE  /\ Good(c) /\ Keeps(b, c) /\ c.next >= backup.next
           /\ \A id \in Used(c) \ Used(b) :
                id \in Used(backup) /\ backup.ops[id].nonce = c.ops[id].nonce
           /\ \A id \in Used(backup) :
                /\ id \in Used(c) /\ Candidates(backup.ops[id]) \subseteq Candidates(c.ops[id])
                /\ backup.ops[id].state \in {"submitted", "confirmed"} => c.ops[id].state = "submitted"
<1> DEFINE d == FromBackup(backup)
           merged == [next |-> MergedNext(b, d),
                      ops |-> [id \in Ids |-> MergedOperation(b.ops[id], d.ops[id])]]
<1>1. /\ \A id \in Used(b) \cap Used(d) : Agree(b.ops[id], d.ops[id])
      /\ Valid(merged) /\ c = merged
  BY Zenon DEF MergeBackup
<1>2. /\ Good(d) /\ Used(d) = Used(backup) /\ d.next = backup.next
      /\ \A id \in Used(backup) : d.ops[id] = Unconfirmed(backup.ops[id])
  BY Zenon, FromBackupGood
<1> HIDE DEF d
<1>3. /\ c.next = MergedNext(b, d)
      /\ \A id \in Ids : c.ops[id] = MergedOperation(b.ops[id], d.ops[id])
      /\ c = [next |-> c.next, ops |-> [id \in Ids |-> c.ops[id]]]
  BY <1>1
<1>4. Valid(c)
  BY Zenon, <1>1
<1> HIDE DEF merged
<1>5. \A id \in Used(b) : /\ id \in Ids /\ b.ops[id] # None /\ b.ops[id] \in AccountOperation
                          /\ ValidOperation(b, b.ops[id])
  BY Zenon, OperationFields DEF Used, Good, Valid
<1>6. \A id \in Used(backup) :
        /\ id \in Ids /\ d.ops[id] # None /\ d.ops[id] \in AccountOperation
        /\ ValidOperation(d, d.ops[id])
  BY Zenon, <1>2, OperationFields DEF Used, Good, Valid
<1>7. \A id \in Used(backup) :
        /\ d.ops[id].state # "confirmed" /\ d.ops[id].nonce = backup.ops[id].nonce
        /\ Candidates(d.ops[id]) = Candidates(backup.ops[id])
        /\ backup.ops[id].state \in {"submitted", "confirmed"} => d.ops[id].state = "submitted"
  <2> SUFFICES ASSUME NEW id \in Used(backup)
               PROVE  /\ d.ops[id].state # "confirmed" /\ d.ops[id].nonce = backup.ops[id].nonce
                      /\ Candidates(d.ops[id]) = Candidates(backup.ops[id])
                      /\ backup.ops[id].state \in {"submitted", "confirmed"} => d.ops[id].state = "submitted"
    OBVIOUS
  <2>1. backup.ops[id] \in AccountOperation /\ d.ops[id] = Unconfirmed(backup.ops[id])
    BY Zenon, <1>2, OperationFields DEF Used, Good
  <2>2. /\ d.ops[id].state # "confirmed" /\ d.ops[id].nonce = backup.ops[id].nonce
        /\ Candidates(d.ops[id]) = Candidates(backup.ops[id])
        /\ backup.ops[id].state = "confirmed" => d.ops[id].state = "submitted"
        /\ backup.ops[id].state # "confirmed" => d.ops[id].state = backup.ops[id].state
    BY SMTT(40), <2>1, UnconfirmedOperation
  <2> QED
    BY Zenon, <2>2
<1>8. \A id \in Ids : /\ id \notin Used(b) => b.ops[id] = None
                      /\ id \notin Used(backup) => d.ops[id] = None
  BY Zenon, <1>2 DEF Used
<1>9. ASSUME NEW id \in Used(b), id \notin Used(backup)
      PROVE  /\ c.ops[id] \in AccountOperation /\ c.ops[id] # None
             /\ KeepsOperation(b.ops[id], c.ops[id])
  <2>1. c.ops[id] = Unconfirmed(b.ops[id])
    BY Zenon, <1>3, <1>5, <1>8, <1>9 DEF MergedOperation
  <2> QED
    BY ZenonT(60), <1>5, <2>1, UnconfirmedOperation
<1>10. ASSUME NEW id \in Used(backup), id \notin Used(b)
       PROVE  c.ops[id] = d.ops[id]
  BY Zenon, <1>3, <1>6, <1>8, <1>10 DEF MergedOperation
<1>11. ASSUME NEW id \in Used(b), id \in Used(backup)
       PROVE  /\ c.ops[id] \in AccountOperation /\ c.ops[id] # None
              /\ KeepsOperation(b.ops[id], c.ops[id])
              /\ Candidates(d.ops[id]) \subseteq Candidates(c.ops[id])
              /\ d.ops[id].state = "submitted" => c.ops[id].state = "submitted"
  <2>1. c.ops[id] = Merged(b.ops[id], d.ops[id])
    BY Zenon, <1>3, <1>5, <1>6, <1>11 DEF MergedOperation
  <2>2. Agree(b.ops[id], d.ops[id])
    BY Zenon, <1>1, <1>2, <1>11
  <2> QED
    <3>1. /\ b.ops[id] \in AccountOperation /\ ValidOperation(b, b.ops[id])
          /\ d.ops[id] \in AccountOperation /\ ValidOperation(d, d.ops[id])
          /\ d.ops[id].state # "confirmed"
      BY Zenon, <1>5, <1>6, <1>7, <1>11
    <3> QED
      BY SMTT(40), <2>1, <2>2, <3>1, MergedOperationKnows
<1>12. ASSUME NEW id \in Ids, id \notin Used(b), id \notin Used(backup)
       PROVE  c.ops[id] = None
  BY Zenon, <1>3, <1>8, <1>12 DEF MergedOperation
<1>13. \A id \in Ids : c.ops[id] \in AccountOperation \cup {None}
  BY Zenon, <1>6, <1>9, <1>10, <1>11, <1>12
<1>14. b.next \in 0..MaxNonce /\ d.next \in 0..MaxNonce
  BY <1>2 DEF Good, IsBook, AccountBook
<1>15. c.next \in 0..MaxNonce /\ c.next >= b.next /\ c.next >= backup.next
  BY <1>2, <1>3, <1>14 DEF MergedNext
<1>16. IsBook(c)
  BY <1>3, <1>13, <1>15 DEF IsBook, AccountBook
<1>17. \A id \in Used(b) : id \in Used(c) /\ KeepsOperation(b.ops[id], c.ops[id])
  BY Zenon, <1>5, <1>9, <1>11 DEF Used
<1>18. \A id \in Used(c) \ Used(b) :
         id \in Used(backup) /\ backup.ops[id].nonce = c.ops[id].nonce
  BY Zenon, <1>7, <1>10, <1>12 DEF Used
<1>19. ASSUME NEW id \in Used(backup)
       PROVE  /\ id \in Used(c) /\ Candidates(backup.ops[id]) \subseteq Candidates(c.ops[id])
              /\ backup.ops[id].state \in {"submitted", "confirmed"} => c.ops[id].state = "submitted"
  <2>1. CASE id \in Used(b)
    BY Zenon, <1>6, <1>7, <1>11, <2>1 DEF Used
  <2>2. CASE id \notin Used(b)
    BY Zenon, <1>6, <1>7, <1>10, <2>2 DEF Used
  <2> QED
    BY <2>1, <2>2
<1> QED
  BY Zenon, <1>4, <1>15, <1>16, <1>17, <1>18, <1>19 DEF Good, Keeps

----------------------------------------------------------------------------
(* The books of all profiles.                                              *)

\* Every book is valid: half of the methods check nothing, but each leaves a
\* valid book valid.
IInv ==
    /\ book \in [Profiles -> AccountBook \cup {None}]
    /\ \A p \in Profiles : book[p] # None => Good(book[p])

\* What a step may make of the book of p.
Successor(p, c) ==
    /\ Good(c)
    /\ book[p] # None =>
         /\ Keeps(book[p], c)
         /\ \A id \in Used(c) \ Used(book[p]) :
              \/ c.ops[id].nonce >= book[p].next
              \/ \E backup \in Backups : id \in Used(backup) /\ backup.ops[id].nonce = c.ops[id].nonce

LEMMA BackupsGood ==
    ASSUME CustodyAssumption, IInv, NEW backup \in Backups
    PROVE  Good(backup)
<1>1. CASE backup \in Files
  BY Zenon, <1>1 DEF CustodyAssumption, Good
<1>2. CASE backup \notin Files
  <2>1. PICK p \in {q \in Profiles : book[q] # None}, bare \in BOOLEAN : backup = Capture(book[p], bare)
    BY SMT, <1>2 DEF Backups
  <2>2. Good(book[p])
    BY Zenon DEF IInv
  <2> QED
    BY Zenon, <2>1, <2>2, CaptureGood
<1> QED
  BY <1>1, <1>2

LEMMA AdvancesSucceeds ==
    ASSUME CustodyAssumption, IInv, NEW p \in Profiles, book[p] # None, NEW c, Advances(book[p], c)
    PROVE  Successor(p, c)
BY Zenon DEF Successor, Advances

\* A call on one operation of the book of p is one of those.
LEMMA OperateCalls ==
    ASSUME NEW p \in Profiles, book[p] # None, NEW id \in Ids
    PROVE  Operate(p, id) <=> \E c : Call(book[p], id, c) /\ Changed(p, c)
<1> DEFINE b == book[p]
<1>1. ASSUME Operate(p, id) PROVE \E c : Call(b, id, c) /\ Changed(p, c)
  <2> HIDE DEF b
  <2>1. ASSUME NEW pending \in 0..MaxNonce, Changed(p, ReserveNonce(b, id, pending))
        PROVE  \E c : Call(b, id, c) /\ Changed(p, c)
    BY Zenon, <2>1 DEF Call
  <2>2. ASSUME id \in Used(b), OperateOn(p, id, b.ops[id])
        PROVE  \E c : Call(b, id, c) /\ Changed(p, c)
    BY ZenonT(60), <2>2 DEF Call, OperateOn, b
  <2> QED
    BY Zenon, <1>1, <2>1, <2>2 DEF Operate, b
<1>2. ASSUME NEW c, Call(b, id, c), Changed(p, c) PROVE Operate(p, id)
  BY ZenonT(60), <1>2 DEF Call, Operate, OperateOn
<1> QED
  BY Zenon, <1>1, <1>2

LEMMA OperateSucceeds ==
    ASSUME CustodyAssumption, IInv, NEW p \in Profiles, book[p] # None, NEW id \in Ids, Operate(p, id)
    PROVE  \E c : book' = [book EXCEPT ![p] = c] /\ Successor(p, c)
<1>1. PICK c : Call(book[p], id, c) /\ Changed(p, c)
  BY Zenon, OperateCalls
<1>2. Good(book[p])
  BY Zenon DEF IInv
<1>3. c # Refused /\ book' = [book EXCEPT ![p] = c]
  BY Zenon, <1>1 DEF Changed
<1>4. Advances(book[p], c)
  BY Zenon, <1>1, <1>2, <1>3, CallAdvances
<1> QED
  BY Zenon, <1>3, <1>4, AdvancesSucceeds

LEMMA NextSucceeds ==
    ASSUME CustodyAssumption, IInv, Next
    PROVE  \E p \in Profiles : \E c : book' = [book EXCEPT ![p] = c] /\ Successor(p, c)
<1>1. PICK p \in Profiles :
        \/ \E first \in {0, 1} : Initialize(p, first)
        \/ \E backup \in Backups : InitializeFromBackup(p, backup)
        \/ book[p] # None /\ \E backup \in Backups : Changed(p, MergeBackup(book[p], backup))
        \/ book[p] # None /\ \E id \in Ids : Operate(p, id)
  BY Zenon DEF Next
<1>2. ASSUME NEW first \in {0, 1}, Initialize(p, first)
      PROVE  book' = [book EXCEPT ![p] = New(first)] /\ Successor(p, New(first))
  BY Zenon, <1>2, NewGood DEF Initialize, Successor
<1>3. ASSUME NEW backup \in Backups, InitializeFromBackup(p, backup)
      PROVE  book' = [book EXCEPT ![p] = FromBackup(backup)] /\ Successor(p, FromBackup(backup))
  BY Zenon, <1>3, BackupsGood, FromBackupGood DEF InitializeFromBackup, Successor
<1>4. ASSUME book[p] # None, NEW backup \in Backups, Changed(p, MergeBackup(book[p], backup))
      PROVE  /\ book' = [book EXCEPT ![p] = MergeBackup(book[p], backup)]
             /\ Successor(p, MergeBackup(book[p], backup))
  <2>1. Good(book[p]) /\ Good(backup) /\ MergeBackup(book[p], backup) # Refused
    BY Zenon, <1>4, BackupsGood DEF IInv, Changed
  <2> QED
    BY Zenon, <1>4, <2>1, MergeBackupKeeps DEF Successor, Changed
<1> QED
  BY Zenon, <1>1, <1>2, <1>3, <1>4, OperateSucceeds

LEMMA StepIInv ==
    ASSUME CustodyAssumption, IInv, [Next]_book
    PROVE  IInv'
<1>1. CASE UNCHANGED book
  BY Zenon, <1>1 DEF IInv
<1>2. CASE Next
  <2>0. PICK p \in Profiles : \E c : book' = [book EXCEPT ![p] = c] /\ Successor(p, c)
    BY Zenon, <1>2, NextSucceeds
  <2>1. PICK c : book' = [book EXCEPT ![p] = c] /\ Successor(p, c)
    BY Zenon, <2>0
  <2>2. c \in AccountBook /\ Good(c)
    BY Zenon, <2>1 DEF Successor, Good, IsBook
  <2>3. book' \in [Profiles -> AccountBook \cup {None}]
    BY Zenon, <2>1, <2>2 DEF IInv
  <2>4. \A q \in Profiles : book'[q] = book[q] \/ book'[q] = c
    BY Zenon, <2>1 DEF IInv
  <2> QED
    BY Zenon, <2>2, <2>3, <2>4 DEF IInv
<1> QED
  BY <1>1, <1>2

\* No sequence of calls, merges and restores, by any number of profiles, makes a
\* book from_state refuses, and every merge knows what its backup knew: IInv is
\* inductive because each method keeps a valid book valid.
THEOREM BooksSafety ==
    ASSUME CustodyAssumption
    PROVE  Spec => []BooksReload
<1>1. Init => IInv
  BY Zenon DEF Init, IInv
<1>2. IInv => BooksReload
  <2> SUFFICES ASSUME IInv PROVE BooksReload
    OBVIOUS
  <2>1. TypeOK
    BY Zenon DEF IInv, TypeOK, IsBook
  <2>2. ReloadAccepts
    BY Zenon DEF IInv, ReloadAccepts, Reload, Good, IsBook, CustodyAssumption
  <2>3. MergeKnowsBackup
    <3> SUFFICES ASSUME NEW p \in Profiles, NEW backup \in Backups, book[p] # None,
                        MergeBackup(book[p], backup) # Refused
                 PROVE  LET merged == MergeBackup(book[p], backup) IN
                        /\ merged.next >= backup.next
                        /\ \A id \in Used(backup) :
                             /\ id \in Used(merged)
                             /\ Candidates(backup.ops[id]) \subseteq Candidates(merged.ops[id])
                             /\ backup.ops[id].state \in {"submitted", "confirmed"}
                                  => merged.ops[id].state = "submitted"
      BY Zenon DEF MergeKnowsBackup
    <3>1. Good(book[p]) /\ Good(backup)
      BY Zenon, BackupsGood DEF IInv
    <3> QED
      BY ZenonT(60), <3>1, MergeBackupKeeps
  <2> QED
    BY <2>1, <2>2, <2>3 DEF BooksReload
<1> QED
  BY <1>1, <1>2, StepIInv, PTL DEF Spec

\* No call and no merge of an older backup takes back a signature, a candidate
\* or a nonce.
THEOREM SignedSafety ==
    ASSUME CustodyAssumption
    PROVE  Spec => [][SignaturesKept]_book
<1>1. Init => IInv
  BY Zenon DEF Init, IInv
<1>2. IInv /\ Next => SignaturesKept
  <2> SUFFICES ASSUME IInv, Next PROVE SignaturesKept
    OBVIOUS
  <2>0. PICK p \in Profiles : \E c : book' = [book EXCEPT ![p] = c] /\ Successor(p, c)
    BY Zenon, NextSucceeds
  <2>1. PICK c : book' = [book EXCEPT ![p] = c] /\ Successor(p, c)
    BY Zenon, <2>0
  <2>2. book'[p] = c /\ \A q \in Profiles : q # p => book'[q] = book[q]
    BY Zenon, <2>1 DEF IInv
  <2>3. \A q \in Profiles : book[q] # None => book[q].next >= book[q].next
    BY DEF IInv, AccountBook
  <2>4. ASSUME NEW q \in Profiles, book[q] # None
        PROVE  /\ Keeps(book[q], book'[q])
               /\ \A id \in Used(book'[q]) \ Used(book[q]) :
                    \/ book'[q].ops[id].nonce >= book[q].next
                    \/ \E backup \in Backups :
                         id \in Used(backup) /\ backup.ops[id].nonce = book'[q].ops[id].nonce
    <3>1. CASE q = p
      BY Zenon, <2>1, <2>2, <2>4, <3>1 DEF Successor
    <3>2. CASE q # p
      BY Zenon, <2>2, <2>3, <2>4, <3>2 DEF Keeps, KeepsOperation
    <3> QED
      BY <3>1, <3>2
  <2>5. NonceForward
    BY Zenon, <2>4 DEF NonceForward, Keeps
  <2>6. SignedKept
    BY ZenonT(60), <2>4 DEF SignedKept, Keeps, KeepsOperation, In, Used
  <2> QED
    BY <2>5, <2>6 DEF SignaturesKept
<1> QED
  BY <1>1, <1>2, StepIInv, PTL DEF Spec

=============================================================================
