-------------------------- MODULE BrowserAccounts ---------------------------
(***************************************************************************)
(* The account custody of a browser: BrowserAccountBook,                   *)
(* BrowserAccountSession and BrowserRecoverySession of quai-sdk.           *)
(*                                                                         *)
(* Each call reads the journal of its profile, works on that snapshot,     *)
(* which may take any number of node requests, and writes the result       *)
(* against the revision it read.  Tabs of one profile interleave between   *)
(* the read and the write; a tab may be closed at any point, and the       *)
(* answer to a write that took effect may never arrive.                    *)
(***************************************************************************)
EXTENDS SnapshotStore, TLAPS

CONSTANTS
    Ids, Fees, Blocks, MaxNonce, MaxOperations, MaxVariants, None, Refused,   \* as in AccountBooks
    Profiles,
    Files,    \* backup files
    Tabs,
    Home      \* Home[t]: the profile whose storage the tab shares

VARIABLES
    disk,     \* disk[p]: the IndexedDB record of the profile's journal
    task,     \* task[t]: the call in progress in a tab
    sent,     \* payloads handed to the node
    returned, \* history: signed transactions a call has returned
    prepared  \* history: <<profile, id, nonce>> of the new drafts returned

vars == <<disk, task, sent, returned, prepared>>

\* The journal as one atomic book.
Stored == [p \in Profiles |-> disk[p].bytes]
Books == INSTANCE AccountBooks WITH book <- Stored

TabsAssumption == StoreAssumption /\ Books!CustodyAssumption /\ Home \in [Tabs -> Profiles]

Idle == [at |-> "idle"]
NoEffect == [kind |-> "none"]
Effects ==
    {NoEffect} \cup [kind : {"return", "send"}, tx : Books!Tx] \cup [kind : {"prepared"}, id : Ids, nonce : 0..MaxNonce]

TypeOK ==
    /\ \A p \in Profiles :
         /\ disk[p].revision \in 0..MaxRevision
         /\ IF disk[p].revision = 0 THEN disk[p].bytes = None ELSE Books!IsBook(disk[p].bytes)
    /\ \A t \in Tabs :
         \/ task[t] = Idle
         \/ /\ task[t].at \in {"write", "send"} /\ task[t].expected \in 0..MaxRevision
            /\ Books!IsBook(task[t].bytes) /\ task[t].effect \in Effects
    /\ sent \subseteq Books!Tx /\ returned \subseteq Profiles \X Books!Tx
    /\ prepared \subseteq Profiles \X Ids \X (0..MaxNonce)

Init ==
    /\ disk = [p \in Profiles |-> Absent(None)]
    /\ task = [t \in Tabs |-> Idle]
    /\ sent = {} /\ returned = {} /\ prepared = {}

----------------------------------------------------------------------------
Book(t) == disk[Home[t]].bytes
Op(t, id) == Book(t).ops[id]

\* snapshot, then the change to it, then (later) the write.
Begin(t, bytes, effect) ==
    /\ task[t] = Idle /\ bytes # Refused
    /\ Book(t) # None => Books!Reload(Book(t)) # Refused
    /\ task' = [task EXCEPT ![t] = [at |-> "write", expected |-> disk[Home[t]].revision,
                                    bytes |-> bytes, effect |-> effect]]
    /\ UNCHANGED <<disk, sent, returned, prepared>>

Change(t, bytes) == Book(t) # None /\ Begin(t, bytes, NoEffect)

\* initialize and initialize_from_backup expect that no record exists.
Initialize(t, first) == Book(t) = None /\ Begin(t, Books!New(first), NoEffect)
InitializeFromBackup(t, file) == Book(t) = None /\ Begin(t, Books!FromBackup(file), NoEffect)

MergeFile(t, file) == Book(t) # None /\ Change(t, Books!MergeBackup(Book(t), file))

\* BrowserAccountBook::reserve_nonce, release_unsigned, reopen_unsigned,
\* commit_signed, commit_replacement and mark_submitted.
Reserve(t, id, pending) == Book(t) # None /\ Change(t, Books!ReserveNonce(Book(t), id, pending))
Release(t, id) == Book(t) # None /\ Change(t, Books!ReleaseUnsigned(Book(t), id))
Reopen(t, id) == Book(t) # None /\ Change(t, Books!ReopenUnsigned(Book(t), id))
CommitExternal(t, id, tx) == Book(t) # None /\ Change(t, Books!CommitSigned(Book(t), id, tx))

\* sign and PreparedBrowserAccountReplacement::sign return the transaction they
\* signed only once it is written.
Sign(t, id, tx) ==
    /\ Book(t) # None /\ Books!In(Book(t), id, {"reserved"}) /\ tx.nonce = Op(t, id).nonce
    /\ Begin(t, Books!CommitSigned(Book(t), id, tx), [kind |-> "return", tx |-> tx])

SignReplacement(t, id, parent, tx) ==
    /\ Book(t) # None /\ Books!In(Book(t), id, {"signed", "submitted"})
    /\ parent \in Books!Candidates(Op(t, id))
    /\ Begin(t, Books!CommitReplacement(Book(t), id, parent, tx), [kind |-> "return", tx |-> tx])

\* prepare: the quote's nonce is the larger of the journal's and the node's; the
\* reservation must come to the same one.
Prepare(t, id, pending) ==
    LET nonce == Books!NextNonce(Book(t), pending) IN
    /\ Book(t) # None /\ Op(t, id) = None /\ nonce \in 0..MaxNonce
    /\ Begin(t, Books!ReserveNonce(Book(t), id, nonce), [kind |-> "prepared", id |-> id, nonce |-> nonce])

\* prepare_reserved, prepare_replacement and observe_settlement write what they
\* read, so that they fail when anything changed under them.
Touch(t, id) ==
    /\ Book(t) # None /\ Books!In(Book(t), id, {"reserved"} \cup Books!Signed)
    /\ Begin(t, Book(t), NoEffect)

\* broadcast: root or candidate, marked submitted before it is sent.
Broadcast(t, id, tx) ==
    /\ Book(t) # None /\ Books!In(Book(t), id, {"signed", "submitted"}) /\ Op(t, id).payload # None
    /\ tx \in Books!Candidates(Op(t, id))
    /\ Begin(t, Books!MarkSubmitted(Book(t), id), [kind |-> "send", tx |-> tx])

\* reconcile: what the node includes now, while an old inclusion that is still
\* canonical must not be contradicted.
Reconcile(t, id, seen, stillCanonical) ==
    LET old == Op(t, id).inclusion
        next == IF old # None /\ stillCanonical THEN old ELSE seen
    IN  /\ Book(t) # None /\ Books!In(Book(t), id, Books!Signed) /\ Op(t, id).payload # None
        /\ (old # None /\ stillCanonical) => seen \in {None, old}
        /\ Begin(t, Books!Reconciled(Book(t), id, next), NoEffect)

\* Mutant: the payload is sent whether or not it could be marked.
FinishSending(t) ==
    LET update == Update(Home[t], task[t].expected, task[t].bytes) IN
    /\ task[t].at = "write"
    /\ disk' = IF CanExchange(disk, update) THEN Exchanged(disk, update) ELSE disk
    /\ task' = [task EXCEPT ![t] = IF task[t].effect.kind = "send" THEN [@ EXCEPT !.at = "send"] ELSE Idle]
    /\ UNCHANGED <<sent, returned, prepared>>

\* compare_exchange; a conflict is an error to the caller.
Finish(t) ==
    LET update == Update(Home[t], task[t].expected, task[t].bytes)
        done == CanExchange(disk, update)
        effect == task[t].effect
    IN  /\ task[t].at = "write"
        /\ disk' = IF done THEN Exchanged(disk, update) ELSE disk
        /\ task' = [task EXCEPT ![t] = IF done /\ effect.kind = "send" THEN [@ EXCEPT !.at = "send"] ELSE Idle]
        /\ returned' = IF done /\ effect.kind = "return" THEN returned \cup {<<Home[t], effect.tx>>} ELSE returned
        /\ prepared' = IF done /\ effect.kind = "prepared"
                         THEN prepared \cup {<<Home[t], effect.id, effect.nonce>>} ELSE prepared
        /\ UNCHANGED sent

\* The write takes effect and its answer does not arrive.
FinishUnheard(t) ==
    LET update == Update(Home[t], task[t].expected, task[t].bytes) IN
    /\ task[t].at = "write" /\ CanExchange(disk, update)
    /\ disk' = Exchanged(disk, update)
    /\ task' = [task EXCEPT ![t] = Idle]
    /\ UNCHANGED <<sent, returned, prepared>>

Send(t) ==
    /\ task[t].at = "send"
    /\ sent' = sent \cup {task[t].effect.tx}
    /\ task' = [task EXCEPT ![t] = Idle]
    /\ UNCHANGED <<disk, returned, prepared>>

\* The tab is closed, or a node request of the call fails.
Stop(t) ==
    /\ task[t] # Idle
    /\ task' = [task EXCEPT ![t] = Idle]
    /\ UNCHANGED <<disk, sent, returned, prepared>>

BeginOperation(t, id) ==
    \/ \E pending \in 0..MaxNonce : Reserve(t, id, pending) \/ Prepare(t, id, pending)
    \/ Release(t, id) \/ Reopen(t, id) \/ Touch(t, id)
    \/ \E tx \in Books!Tx : CommitExternal(t, id, tx) \/ Sign(t, id, tx) \/ Broadcast(t, id, tx)
    \/ \E parent, tx \in Books!Tx : SignReplacement(t, id, parent, tx)
    \/ /\ Book(t) # None /\ Op(t, id) # None
       /\ \E seen \in (Books!Candidates(Op(t, id)) \X Blocks) \cup {None}, still \in BOOLEAN :
            Reconcile(t, id, seen, still)

Next ==
    \E t \in Tabs :
        \/ Initialize(t, 0)
        \/ \E file \in Files : InitializeFromBackup(t, file) \/ MergeFile(t, file)
        \/ \E id \in Ids : BeginOperation(t, id)
        \/ Finish(t) \/ FinishUnheard(t) \/ Send(t) \/ Stop(t)

Spec == Init /\ [][Next]_vars

----------------------------------------------------------------------------
\* The tabs of a profile, with their stale snapshots, lost answers and closed
\* windows, implement one book whose calls are atomic.
BooksInit == Books!Init
BooksStep == [Books!Next]_Stored

\* A payload given to the node is one its profile's journal holds as submitted:
\* no race lets the operation be released, or forgotten as merely signed, while
\* the network may include it.
SentIsSubmitted ==
    \A tx \in sent : \E p \in Profiles, id \in Ids :
        /\ disk[p].bytes # None /\ Books!In(disk[p].bytes, id, {"submitted", "confirmed"})
        /\ tx \in Books!Candidates(disk[p].bytes.ops[id])

\* A signature an application received is in the journal.
ReturnedIsHeld ==
    \A x \in returned : \E id \in Ids :
        /\ disk[x[1]].bytes # None /\ disk[x[1]].bytes.ops[id] # None
        /\ x[2] \in Books!Candidates(disk[x[1]].bytes.ops[id])

\* Two new drafts of one profile never carry one nonce.
PreparedOnce ==
    \A x, y \in prepared : (x[1] = y[1] /\ x[3] = y[3]) => x[2] = y[2]

\* The accounts' part of what the tabs of a profile keep.
TabsCustody == TypeOK /\ SentIsSubmitted /\ ReturnedIsHeld /\ PreparedOnce
\* The accounts' part of the refinement.
ImplementsBooks == Books!Spec

----------------------------------------------------------------------------
(* What a call writes.                                                     *)

\* What some call of the book makes of the bytes a tab read.
Outcome(b, c) ==
    /\ c # Refused
    /\ \/ b = None /\ (c = Books!New(0) \/ \E file \in Files : c = Books!FromBackup(file))
       \/ b # None /\ (c = b \/ \E file \in Files : c = Books!MergeBackup(b, file))
       \/ b # None /\ \E id \in Ids : Books!Call(b, id, c)

LEMMA OutcomeGood ==
    ASSUME TabsAssumption, NEW b, b # None => Books!Good(b), NEW c, Outcome(b, c)
    PROVE  Books!Good(c) /\ (b # None => Books!Keeps(b, c))
<1>1. Books!CustodyAssumption /\ c # Refused
  BY Zenon DEF TabsAssumption, Outcome
<1>2. \A file \in Files : Books!Good(file)
  BY Zenon, <1>1 DEF Books!CustodyAssumption, Books!Good
<1>3. CASE b = None
  <2>1. CASE c = Books!New(0)
    BY Zenon, <1>1, <1>3, <2>1, Books!NewGood
  <2>2. ASSUME NEW file \in Files, c = Books!FromBackup(file) PROVE Books!Good(c)
    BY Zenon, <1>1, <1>2, <2>2, Books!FromBackupGood
  <2> QED
    BY Zenon, <1>3, <2>1, <2>2 DEF Outcome
<1>4. CASE b # None
  <2>1. ASSUME NEW file \in Files, c = Books!MergeBackup(b, file)
        PROVE  Books!Good(c) /\ Books!Keeps(b, c)
    BY Zenon, <1>1, <1>2, <1>4, <2>1, Books!MergeBackupKeeps
  <2>2. ASSUME NEW id \in Ids, Books!Call(b, id, c)
        PROVE  Books!Good(c) /\ Books!Keeps(b, c)
    BY Zenon, <1>1, <1>4, <2>2, Books!CallAdvances DEF Books!Advances
  <2>3. ASSUME c = b
        PROVE  Books!Good(c) /\ Books!Keeps(b, c)
    BY Zenon, <1>1, <1>4, <2>3, Books!UnmovedAdvances DEF Books!Advances
  <2> QED
    BY Zenon, <1>4, <2>1, <2>2, <2>3 DEF Outcome
<1> QED
  BY <1>3, <1>4

\* The write of such bytes is a step of the book.
LEMMA OutcomeImplements ==
    ASSUME TabsAssumption, NEW p \in Profiles, NEW c, Outcome(Stored[p], c),
           Stored' = [Stored EXCEPT ![p] = c]
    PROVE  BooksStep
<1>1. Books!CustodyAssumption /\ c # Refused
  BY Zenon DEF TabsAssumption, Outcome
<1>2. CASE Stored[p] = None /\ c = Books!New(0)
  <2>1. 0 \in {0, 1} /\ Books!Initialize(p, 0)
    BY Zenon, <1>2 DEF Books!Initialize
  <2> QED
    BY Zenon, <2>1 DEF BooksStep, Books!Next
<1>3. ASSUME NEW file \in Files
      PROVE  file \in Books!Backups
  BY SMT DEF Books!Backups
<1>4. ASSUME Stored[p] = None, NEW file \in Files, c = Books!FromBackup(file)
      PROVE  BooksStep
  BY Zenon, <1>3, <1>4 DEF BooksStep, Books!Next, Books!InitializeFromBackup
<1>5. ASSUME Stored[p] # None, NEW file \in Files, c = Books!MergeBackup(Stored[p], file)
      PROVE  BooksStep
  BY Zenon, <1>1, <1>3, <1>5 DEF BooksStep, Books!Next, Books!Changed
<1>6. ASSUME Stored[p] # None, NEW id \in Ids, Books!Call(Stored[p], id, c)
      PROVE  BooksStep
  <2>1. Books!Changed(p, c)
    BY Zenon, <1>1, <1>6 DEF Books!Changed
  <2>2. Books!Operate(p, id)
    BY Zenon, <1>6, <2>1, Books!OperateCalls
  <2> QED
    BY Zenon, <1>6, <2>2 DEF BooksStep, Books!Next
<1>7. CASE c = Stored[p]
  <2>1. Stored' = Stored
    BY Zenon, <1>7 DEF Stored
  <2> QED
    BY Zenon, <2>1 DEF BooksStep
<1> QED
  BY ZenonT(60), <1>2, <1>4, <1>5, <1>6, <1>7 DEF Outcome

----------------------------------------------------------------------------
(* What the tabs rely on.                                                  *)

Submitted == {"submitted", "confirmed"}

\* A transaction that an operation of the book holds, in one of the states.
Holds(b, states, tx) ==
    b # None /\ \E id \in Ids : Books!In(b, id, states) /\ tx \in Books!Candidates(b.ops[id])

\* A draft that the book reserves.
Reserves(b, id, nonce) ==
    b # None /\ id \in Books!Used(b) /\ b.ops[id].nonce = nonce

\* What a call is about to tell or send is in the bytes it is about to write.
Covers(b, effect) ==
    /\ effect.kind = "return" => Holds(b, Books!Signed, effect.tx)
    /\ effect.kind = "send" => Holds(b, Submitted, effect.tx)
    /\ effect.kind = "prepared" => Reserves(b, effect.id, effect.nonce)

Task == [at : {"write", "send"}, expected : 0..MaxRevision, bytes : Books!AccountBook, effect : Effects]
Record == [revision : 0..MaxRevision, bytes : Books!AccountBook \cup {None}]

\* A call works on bytes that are still there, unless its write will be refused.
TaskOK(t) ==
    LET p == Home[t] IN
    /\ task[t].at = "write" =>
         /\ task[t].expected <= disk[p].revision
         /\ task[t].expected = disk[p].revision => Outcome(disk[p].bytes, task[t].bytes)
         /\ Covers(task[t].bytes, task[t].effect)
    /\ task[t].at = "send" =>
         task[t].effect.kind = "send" /\ Holds(disk[p].bytes, Submitted, task[t].effect.tx)

DiskOK ==
    /\ disk \in [Profiles -> Record]
    /\ \A p \in Profiles :
         /\ disk[p].revision = 0 <=> disk[p].bytes = None
         /\ disk[p].bytes # None => Books!Good(disk[p].bytes)

HistoryOK ==
    /\ \A tx \in sent : \E p \in Profiles : Holds(disk[p].bytes, Submitted, tx)
    /\ \A x \in returned : Holds(disk[x[1]].bytes, Books!Signed, x[2])
    /\ \A x \in prepared : Reserves(disk[x[1]].bytes, x[2], x[3])

IInv ==
    /\ DiskOK /\ HistoryOK /\ \A t \in Tabs : TaskOK(t)
    /\ task \in [Tabs -> Task \cup {Idle}]
    /\ sent \subseteq Books!Tx /\ returned \subseteq Profiles \X Books!Tx
    /\ prepared \subseteq Profiles \X Ids \X (0..MaxNonce)

\* What no step does to a record: lose what the book keeps, or change it under
\* its revision.
Forward(p) ==
    \/ disk'[p] = disk[p]
    \/ /\ disk[p].revision < disk'[p].revision
       /\ disk[p].bytes # None => disk'[p].bytes # None /\ Books!Keeps(disk[p].bytes, disk'[p].bytes)

LEMMA HoldsForward ==
    ASSUME NEW p \in Profiles, Forward(p), NEW tx, NEW states \in {Books!Signed, Submitted},
           Holds(disk[p].bytes, states, tx)
    PROVE  Holds(disk'[p].bytes, states, tx)
<1>1. CASE disk'[p] = disk[p]
  BY Zenon, <1>1
<1>2. CASE disk'[p] # disk[p]
  <2> DEFINE b == disk[p].bytes
             c == disk'[p].bytes
  <2>1. b # None /\ c # None /\ Books!Keeps(b, c)
    BY Zenon, <1>2 DEF Forward, Holds
  <2> HIDE DEF b, c
  <2>2. PICK id \in Ids : Books!In(b, id, states) /\ tx \in Books!Candidates(b.ops[id])
    BY Zenon DEF Holds, b
  <2>3. id \in Books!Used(c) /\ Books!KeepsOperation(b.ops[id], c.ops[id])
    BY Zenon, <2>1, <2>2 DEF Books!Keeps, Books!Used, Books!In
  <2>4. b.ops[id].state \in Books!Signed
    BY Zenon, <2>2 DEF Books!In, Books!Signed, Submitted
  <2>5. c.ops[id].state \in states /\ tx \in Books!Candidates(c.ops[id])
    BY Zenon, <2>2, <2>3, <2>4 DEF Books!KeepsOperation, Books!In, Submitted
  <2> QED
    BY Zenon, <2>1, <2>3, <2>5 DEF Holds, Books!In, Books!Used, c
<1> QED
  BY <1>1, <1>2

LEMMA ReservesForward ==
    ASSUME NEW p \in Profiles, Forward(p), NEW id, NEW nonce, Reserves(disk[p].bytes, id, nonce)
    PROVE  Reserves(disk'[p].bytes, id, nonce)
<1>1. CASE disk'[p] = disk[p]
  BY Zenon, <1>1
<1>2. CASE disk'[p] # disk[p]
  BY Zenon, <1>2 DEF Forward, Reserves, Books!Keeps, Books!KeepsOperation
<1> QED
  BY <1>1, <1>2

\* While records move forward, a call that stands still and what was told and
\* sent stay covered.
LEMMA TaskForward ==
    ASSUME TabsAssumption, IInv, DiskOK', \A p \in Profiles : Forward(p),
           NEW t \in Tabs, task'[t] = task[t]
    PROVE  TaskOK(t)'
<1> DEFINE p == Home[t]
<1>1. p \in Profiles /\ Forward(p) /\ TaskOK(t)
  BY Zenon DEF TabsAssumption, IInv
<1>2. CASE task[t].at = "write"
  <2>1. disk[p].revision \in Nat /\ disk'[p].revision \in Nat /\ task[t].expected \in Nat
    <3>1. task[t] # Idle
      BY <1>2 DEF Idle
    <3>2. task[t] \in Task
      BY Zenon, <3>1 DEF IInv
    <3> QED
      BY <1>1, <3>2 DEF IInv, DiskOK, Record, Task
  <2>2. /\ task[t].expected <= disk[p].revision
        /\ task[t].expected = disk[p].revision => Outcome(disk[p].bytes, task[t].bytes)
        /\ Covers(task[t].bytes, task[t].effect)
    BY Zenon, <1>1, <1>2 DEF TaskOK
  <2>3. /\ task[t].expected <= disk'[p].revision
        /\ task[t].expected = disk'[p].revision => disk'[p] = disk[p]
    BY <1>1, <2>1, <2>2 DEF Forward
  <2> QED
    BY Zenon, <1>2, <2>2, <2>3 DEF TaskOK
<1>3. CASE task[t].at = "send"
  <2>1. task[t].effect.kind = "send" /\ Holds(disk[p].bytes, Submitted, task[t].effect.tx)
    BY Zenon, <1>1, <1>3 DEF TaskOK
  <2>2. Holds(disk'[p].bytes, Submitted, task[t].effect.tx)
    BY Zenon, <1>1, <2>1, HoldsForward
  <2> QED
    BY Zenon, <1>3, <2>1, <2>2 DEF TaskOK
<1>4. CASE task[t].at \notin {"write", "send"}
  BY Zenon, <1>4 DEF TaskOK
<1> QED
  BY <1>2, <1>3, <1>4

LEMMA HistoryForward ==
    ASSUME TabsAssumption, IInv, \A p \in Profiles : Forward(p)
    PROVE  /\ \A tx \in sent : \E p \in Profiles : Holds(disk'[p].bytes, Submitted, tx)
           /\ \A x \in returned : Holds(disk'[x[1]].bytes, Books!Signed, x[2])
           /\ \A x \in prepared : Reserves(disk'[x[1]].bytes, x[2], x[3])
<1>1. \A tx \in sent : \E p \in Profiles : Holds(disk'[p].bytes, Submitted, tx)
  BY Zenon, HoldsForward DEF IInv, HistoryOK
<1>2. \A x \in returned : Holds(disk'[x[1]].bytes, Books!Signed, x[2])
  <2> SUFFICES ASSUME NEW x \in returned PROVE Holds(disk'[x[1]].bytes, Books!Signed, x[2])
    OBVIOUS
  <2>1. x[1] \in Profiles /\ Holds(disk[x[1]].bytes, Books!Signed, x[2])
    BY Zenon DEF IInv, HistoryOK
  <2> QED
    BY Zenon, <2>1, HoldsForward
<1>3. \A x \in prepared : Reserves(disk'[x[1]].bytes, x[2], x[3])
  <2> SUFFICES ASSUME NEW x \in prepared PROVE Reserves(disk'[x[1]].bytes, x[2], x[3])
    OBVIOUS
  <2>1. x[1] \in Profiles /\ Reserves(disk[x[1]].bytes, x[2], x[3])
    BY DEF IInv, HistoryOK
  <2> QED
    BY Zenon, <2>1, ReservesForward
<1> QED
  BY Zenon, <1>1, <1>2, <1>3

----------------------------------------------------------------------------
(* The steps.                                                              *)

\* Nothing is written.
LEMMA DiskStill ==
    ASSUME TabsAssumption, IInv, disk' = disk
    PROVE  DiskOK' /\ (\A p \in Profiles : Forward(p)) /\ BooksStep
<1>1. DiskOK'
  BY Zenon DEF IInv, DiskOK
<1>2. Stored' = Stored
  BY Zenon DEF Stored
<1> QED
  BY Zenon, <1>1, <1>2 DEF Forward, BooksStep

\* A call that has read its profile's journal.
LEMMA BeginStep ==
    ASSUME TabsAssumption, IInv, NEW t \in Tabs, NEW bytes, NEW effect \in Effects,
           Begin(t, bytes, effect), Outcome(Book(t), bytes), Covers(bytes, effect)
    PROVE  IInv' /\ BooksStep
<1> DEFINE p == Home[t]
           new == [at |-> "write", expected |-> disk[p].revision, bytes |-> bytes, effect |-> effect]
<1>1. /\ disk' = disk /\ sent' = sent /\ returned' = returned /\ prepared' = prepared
      /\ task' = [task EXCEPT ![t] = new]
  BY Zenon DEF Begin
<1>2. DiskOK' /\ (\A q \in Profiles : Forward(q)) /\ BooksStep
  BY Zenon, <1>1, DiskStill
<1>3. p \in Profiles /\ disk[p] \in Record /\ (disk[p].bytes # None => Books!Good(disk[p].bytes))
  BY Zenon DEF TabsAssumption, IInv, DiskOK
<1>4. bytes \in Books!AccountBook
  BY Zenon, <1>3, OutcomeGood DEF Book, Books!Good, Books!IsBook
<1>5. new \in Task /\ new.at = "write" /\ new.expected = disk[p].revision /\ new.bytes = bytes /\ new.effect = effect
  BY <1>3, <1>4 DEF Task, Record
<1> HIDE DEF new
<1>6. task' \in [Tabs -> Task \cup {Idle}] /\ task'[t] = new
  BY <1>1, <1>5 DEF IInv
<1>7. TaskOK(t)'
  <2>1. disk[p].revision <= disk[p].revision
    BY <1>3 DEF Record
  <2> QED
    BY ZenonT(60), <1>1, <1>5, <1>6, <2>1 DEF TaskOK, Book
<1>8. \A u \in Tabs : TaskOK(u)'
  <2> SUFFICES ASSUME NEW u \in Tabs, u # t PROVE TaskOK(u)'
    BY Zenon, <1>7
  <2>1. task'[u] = task[u]
    BY <1>1 DEF IInv
  <2> QED
    BY Zenon, <1>2, <2>1, TaskForward
<1>9. HistoryOK'
  BY Zenon, <1>1 DEF IInv, HistoryOK
<1> QED
  BY ZenonT(60), <1>1, <1>2, <1>6, <1>8, <1>9 DEF IInv

\* A call that ends, and tells or sends only what is covered.
LEMMA EndStep ==
    ASSUME TabsAssumption, IInv, NEW t \in Tabs, DiskOK', \A p \in Profiles : Forward(p),
           task' = [task EXCEPT ![t] = Idle],
           sent' \subseteq Books!Tx, returned' \subseteq Profiles \X Books!Tx,
           prepared' \subseteq Profiles \X Ids \X (0..MaxNonce),
           \A tx \in sent' \ sent : \E p \in Profiles : Holds(disk'[p].bytes, Submitted, tx),
           \A x \in returned' \ returned : Holds(disk'[x[1]].bytes, Books!Signed, x[2]),
           \A x \in prepared' \ prepared : Reserves(disk'[x[1]].bytes, x[2], x[3])
    PROVE  IInv'
<1>1. task' \in [Tabs -> Task \cup {Idle}] /\ task'[t] = Idle
  BY DEF IInv
<1>2. HistoryOK'
  BY Zenon, HistoryForward DEF HistoryOK
<1>3. \A u \in Tabs : TaskOK(u)'
  <2> SUFFICES ASSUME NEW u \in Tabs PROVE TaskOK(u)'
    OBVIOUS
  <2>1. CASE u = t
    <3>1. task'[u].at = "idle"
      BY Zenon, <1>1, <2>1 DEF Idle
    <3> QED
      BY Zenon, <3>1 DEF TaskOK
  <2>2. CASE u # t
    <3>1. task'[u] = task[u]
      BY <2>2 DEF IInv
    <3> QED
      BY Zenon, <3>1, TaskForward
  <2> QED
    BY <2>1, <2>2
<1> QED
  BY Zenon, <1>1, <1>2, <1>3 DEF IInv

\* compare_exchange succeeds only against the revision the call read, so that
\* what it writes is what a call makes of the bytes that are there.
LEMMA WriteStep ==
    ASSUME TabsAssumption, IInv, NEW t \in Tabs, task[t].at = "write",
           CanExchange(disk, Update(Home[t], task[t].expected, task[t].bytes)),
           disk' = Exchanged(disk, Update(Home[t], task[t].expected, task[t].bytes))
    PROVE  /\ DiskOK' /\ (\A p \in Profiles : Forward(p)) /\ BooksStep
           /\ Home[t] \in Profiles /\ disk'[Home[t]].bytes = task[t].bytes
           /\ task[t] \in Task /\ Covers(task[t].bytes, task[t].effect)
<1> DEFINE p == Home[t]
           b == disk[p].bytes
           c == task[t].bytes
           new == [revision |-> disk[p].revision + 1, bytes |-> c]
           update == Update(p, task[t].expected, c)
<1>1. /\ p \in Profiles /\ TaskOK(t) /\ disk \in [Profiles -> Record] /\ disk[p] \in Record
      /\ (b # None => Books!Good(b))
  BY Zenon DEF TabsAssumption, IInv, DiskOK
<1>2. task[t] \in Task
  <2>1. task[t] # Idle
    BY DEF Idle
  <2> QED
    BY Zenon, <2>1 DEF IInv
<1>3. DOMAIN update = {p} /\ update[p].expected = task[t].expected /\ update[p].bytes = c
  BY DEF Update
<1>4. disk[p].revision = task[t].expected /\ disk[p].revision < MaxRevision
  BY Zenon, <1>3 DEF CanExchange
<1>5. Outcome(b, c) /\ Covers(c, task[t].effect)
  BY Zenon, <1>1, <1>4 DEF TaskOK
<1>6. Books!Good(c) /\ (b # None => Books!Keeps(b, c))
  BY ZenonT(60), <1>1, <1>5, OutcomeGood
<1>7. c # None /\ c \in Books!AccountBook
  BY <1>6 DEF Books!Good, Books!IsBook, TabsAssumption, Books!CustodyAssumption
<1>8. /\ new \in Record /\ new.bytes = c /\ new.revision = disk[p].revision + 1
      /\ new.revision # 0 /\ disk[p].revision < new.revision
  BY <1>1, <1>4, <1>7 DEF Record, TabsAssumption, StoreAssumption
<1> HIDE DEF update
<1>9. disk' = [disk EXCEPT ![p] = new]
  <2>1. disk' = [s \in Profiles |-> IF s \in {p} THEN [revision |-> disk[s].revision + 1, bytes |-> update[s].bytes]
                                    ELSE disk[s]]
    BY Zenon, <1>1, <1>3 DEF Exchanged, update
  <2> QED
    BY ZenonT(40), <1>1, <1>3, <2>1
<1> HIDE DEF new
<1>10. disk' \in [Profiles -> Record] /\ disk'[p] = new /\ \A q \in Profiles \ {p} : disk'[q] = disk[q]
  BY <1>1, <1>8, <1>9
<1>11. DiskOK'
  <2> SUFFICES ASSUME NEW q \in Profiles
               PROVE  /\ disk'[q].revision = 0 <=> disk'[q].bytes = None
                      /\ disk'[q].bytes # None => Books!Good(disk'[q].bytes)
    BY Zenon, <1>10 DEF DiskOK
  <2>1. CASE q = p
    BY ZenonT(60), <1>6, <1>7, <1>8, <1>10, <2>1
  <2>2. CASE q # p
    BY Zenon, <1>10, <2>2 DEF IInv, DiskOK
  <2> QED
    BY <2>1, <2>2
<1>12. \A q \in Profiles : Forward(q)
  BY ZenonT(60), <1>6, <1>7, <1>8, <1>10 DEF Forward
<1>13. Stored[p] = b /\ Stored' = [Stored EXCEPT ![p] = c]
  BY <1>1, <1>8, <1>9, <1>10 DEF Stored
<1>14. BooksStep
  BY ZenonT(60), <1>1, <1>5, <1>13, OutcomeImplements
<1> QED
  BY ZenonT(60), <1>1, <1>2, <1>5, <1>8, <1>10, <1>11, <1>12, <1>14

LEMMA EffectFields ==
    ASSUME NEW effect \in Effects
    PROVE  /\ effect.kind \in {"return", "send"} => effect.tx \in Books!Tx
           /\ effect.kind = "prepared" => effect.id \in Ids /\ effect.nonce \in 0..MaxNonce
BY SMTT(40) DEF Effects, NoEffect

LEMMA FinishStep ==
    ASSUME TabsAssumption, IInv, NEW t \in Tabs, Finish(t)
    PROVE  IInv' /\ BooksStep
<1> DEFINE update == Update(Home[t], task[t].expected, task[t].bytes)
           done == CanExchange(disk, update)
           p == Home[t]
           effect == task[t].effect
<1>1. /\ task[t].at = "write" /\ sent' = sent
      /\ disk' = IF done THEN Exchanged(disk, update) ELSE disk
      /\ task' = [task EXCEPT ![t] = IF done /\ effect.kind = "send" THEN [task[t] EXCEPT !.at = "send"] ELSE Idle]
      /\ returned' = IF done /\ effect.kind = "return" THEN returned \cup {<<p, effect.tx>>} ELSE returned
      /\ prepared' = IF done /\ effect.kind = "prepared"
                       THEN prepared \cup {<<p, effect.id, effect.nonce>>} ELSE prepared
  BY Zenon DEF Finish
<1>2. CASE ~done
  <2>1. /\ disk' = disk /\ task' = [task EXCEPT ![t] = Idle]
        /\ sent' = sent /\ returned' = returned /\ prepared' = prepared
    BY Zenon, <1>1, <1>2
  <2>2. DiskOK' /\ (\A q \in Profiles : Forward(q)) /\ BooksStep
    BY Zenon, <2>1, DiskStill
  <2>3. /\ sent \subseteq Books!Tx /\ returned \subseteq Profiles \X Books!Tx
        /\ prepared \subseteq Profiles \X Ids \X (0..MaxNonce)
    BY Zenon DEF IInv
  <2> QED
    BY ZenonT(60), <2>1, <2>2, <2>3, EndStep
<1>3. CASE done
  <2>1. disk' = Exchanged(disk, update)
    BY Zenon, <1>1, <1>3
  <2>2. /\ DiskOK' /\ (\A q \in Profiles : Forward(q)) /\ BooksStep
        /\ p \in Profiles /\ disk'[p].bytes = task[t].bytes
        /\ task[t] \in Task /\ Covers(task[t].bytes, effect)
    BY ZenonT(60), <1>1, <1>3, <2>1, WriteStep
  <2>3. effect \in Effects
    BY <2>2 DEF Task
  <2>4. /\ sent \subseteq Books!Tx /\ returned \subseteq Profiles \X Books!Tx
        /\ prepared \subseteq Profiles \X Ids \X (0..MaxNonce)
    BY Zenon DEF IInv
  <2> HIDE DEF update, done
  <2>5. CASE effect.kind = "send"
    <3> DEFINE new == [task[t] EXCEPT !.at = "send"]
    <3>1. task' = [task EXCEPT ![t] = new] /\ returned' = returned /\ prepared' = prepared
      BY Zenon, <1>1, <1>3, <2>5
    <3>2. new \in Task /\ new.at = "send" /\ new.effect = effect
      BY <2>2 DEF Task
    <3> HIDE DEF new
    <3>3. task' \in [Tabs -> Task \cup {Idle}] /\ task'[t] = new
      BY <3>1, <3>2 DEF IInv
    <3>4. TaskOK(t)'
      BY ZenonT(60), <2>2, <2>5, <3>2, <3>3 DEF TaskOK, Covers
    <3>5. \A u \in Tabs : TaskOK(u)'
      <4> SUFFICES ASSUME NEW u \in Tabs, u # t PROVE TaskOK(u)'
        BY Zenon, <3>4
      <4>1. task'[u] = task[u]
        BY <3>1 DEF IInv
      <4> QED
        BY Zenon, <2>2, <4>1, TaskForward
    <3>6. HistoryOK'
      BY ZenonT(60), <1>1, <2>2, <3>1, HistoryForward DEF HistoryOK
    <3> QED
      BY ZenonT(60), <1>1, <2>2, <3>1, <3>3, <3>5, <3>6 DEF IInv
  <2>6. CASE effect.kind # "send"
    <3>1. task' = [task EXCEPT ![t] = Idle]
      BY Zenon, <1>1, <2>6
    <3>2. /\ returned' \subseteq Profiles \X Books!Tx
          /\ \A x \in returned' \ returned : Holds(disk'[x[1]].bytes, Books!Signed, x[2])
      <4>1. CASE effect.kind = "return"
        <5>1. effect.tx \in Books!Tx /\ Holds(disk'[p].bytes, Books!Signed, effect.tx)
          BY ZenonT(60), <2>2, <2>3, <4>1, EffectFields DEF Covers
        <5>2. returned' = returned \cup {<<p, effect.tx>>}
          BY ZenonT(60), <1>1, <1>3, <4>1
        <5> QED
          BY SMTT(40), <2>2, <2>4, <5>1, <5>2
      <4>2. CASE effect.kind # "return"
        BY ZenonT(60), <1>1, <2>4, <4>2
      <4> QED
        BY <4>1, <4>2
    <3>3. /\ prepared' \subseteq Profiles \X Ids \X (0..MaxNonce)
          /\ \A x \in prepared' \ prepared : Reserves(disk'[x[1]].bytes, x[2], x[3])
      <4>1. CASE effect.kind = "prepared"
        <5>1. effect.id \in Ids /\ effect.nonce \in 0..MaxNonce /\ Reserves(disk'[p].bytes, effect.id, effect.nonce)
          BY ZenonT(60), <2>2, <2>3, <4>1, EffectFields DEF Covers
        <5>2. prepared' = prepared \cup {<<p, effect.id, effect.nonce>>}
          BY ZenonT(60), <1>1, <1>3, <4>1
        <5> QED
          BY SMTT(40), <2>2, <2>4, <5>1, <5>2
      <4>2. CASE effect.kind # "prepared"
        BY ZenonT(60), <1>1, <2>4, <4>2
      <4> QED
        BY SMTT(40), <4>1, <4>2
    <3> QED
      BY ZenonT(60), <1>1, <2>2, <2>4, <3>1, <3>2, <3>3, EndStep
  <2> QED
    BY <2>5, <2>6
<1> QED
  BY <1>2, <1>3

\* The answer to the write is lost, the payload is sent, the tab is closed.
LEMMA OtherEnds ==
    ASSUME TabsAssumption, IInv, NEW t \in Tabs, FinishUnheard(t) \/ Send(t) \/ Stop(t)
    PROVE  IInv' /\ BooksStep
<1>1. /\ sent \subseteq Books!Tx /\ returned \subseteq Profiles \X Books!Tx
      /\ prepared \subseteq Profiles \X Ids \X (0..MaxNonce)
  BY Zenon DEF IInv
<1>2. CASE FinishUnheard(t)
  <2>1. DiskOK' /\ (\A q \in Profiles : Forward(q)) /\ BooksStep
    BY Zenon, <1>2, WriteStep DEF FinishUnheard
  <2> QED
    BY ZenonT(60), <1>1, <1>2, <2>1, EndStep DEF FinishUnheard
<1>3. CASE Send(t)
  <2>1. DiskOK' /\ (\A q \in Profiles : Forward(q)) /\ BooksStep
    BY Zenon, <1>3, DiskStill DEF Send
  <2>2. /\ disk' = disk /\ task' = [task EXCEPT ![t] = Idle] /\ sent' = sent \cup {task[t].effect.tx}
        /\ returned' = returned /\ prepared' = prepared /\ task[t].at = "send"
    BY Zenon, <1>3 DEF Send
  <2>3. task[t].effect.kind = "send" /\ Holds(disk'[Home[t]].bytes, Submitted, task[t].effect.tx) /\ Home[t] \in Profiles
    BY Zenon, <2>2 DEF IInv, TaskOK, TabsAssumption
  <2>4. task[t].effect.tx \in Books!Tx
    <3>1. task[t] # Idle
      BY <2>2 DEF Idle
    <3>2. task[t] \in Task
      BY Zenon, <3>1 DEF IInv
    <3>3. task[t].effect \in Effects
      BY <3>2 DEF Task
    <3> QED
      BY ZenonT(60), <2>3, <3>3, EffectFields
  <2>5. /\ sent' \subseteq Books!Tx
        /\ \A tx \in sent' \ sent : \E q \in Profiles : Holds(disk'[q].bytes, Submitted, tx)
    BY ZenonT(60), <1>1, <2>2, <2>3, <2>4
  <2> QED
    BY ZenonT(60), <1>1, <2>1, <2>2, <2>5, EndStep
<1>4. CASE Stop(t)
  <2>1. DiskOK' /\ (\A q \in Profiles : Forward(q)) /\ BooksStep
    BY Zenon, <1>4, DiskStill DEF Stop
  <2> QED
    BY ZenonT(60), <1>1, <1>4, <2>1, EndStep DEF Stop
<1> QED
  BY <1>2, <1>3, <1>4

\* Every call makes of the journal what some call of the book would, and what it
\* will tell or send is covered by what it will write.
LEMMA OperationBegins ==
    ASSUME TabsAssumption, IInv, NEW t \in Tabs, NEW id \in Ids, BeginOperation(t, id)
    PROVE  \E bytes : \E effect \in Effects :
             Begin(t, bytes, effect) /\ Outcome(Book(t), bytes) /\ Covers(bytes, effect)
<1> DEFINE b == Book(t)
           Begun(bytes, effect) == Begin(t, bytes, effect) /\ Outcome(b, bytes) /\ Covers(bytes, effect)
<1> SUFFICES \E bytes : \E effect \in Effects : Begun(bytes, effect)
  BY Zenon
<1>1. Books!CustodyAssumption /\ Home[t] \in Profiles /\ (b # None => Books!Good(b))
  BY Zenon DEF TabsAssumption, IInv, DiskOK, Book
<1>2. \A bytes, effect : Begin(t, bytes, effect) => bytes # Refused
  BY Zenon DEF Begin
<1>3. NoEffect \in Effects /\ \A bytes : Covers(bytes, NoEffect)
  BY DEF Effects, Covers, NoEffect
<1>4. /\ \A tx \in Books!Tx, kind \in {"return", "send"} : [kind |-> kind, tx |-> tx] \in Effects
      /\ \A nonce \in 0..MaxNonce : [kind |-> "prepared", id |-> id, nonce |-> nonce] \in Effects
  BY DEF Effects
<1> HIDE DEF b
<1>5. ASSUME NEW bytes, b # None, Books!Call(b, id, bytes), Begin(t, bytes, NoEffect)
      PROVE  \E c : \E effect \in Effects : Begun(c, effect)
  BY Zenon, <1>2, <1>3, <1>5 DEF Outcome
<1>6. ASSUME NEW c, Books!Good(c), c # None, NEW tx \in Books!Candidates(c.ops[id]), id \in Books!Used(c)
      PROVE  Covers(c, [kind |-> "return", tx |-> tx])
  <2>1. c.ops[id].state \in Books!Signed
    BY Zenon, <1>1, <1>6, Books!CandidatesAreSigned
  <2>2. Holds(c, Books!Signed, tx)
    BY Zenon, <1>6, <2>1 DEF Holds, Books!In, Books!Used
  <2> QED
    BY <2>2 DEF Covers
<1>7. ASSUME NEW c, Books!Good(c) PROVE c # None
  BY Zenon, <1>1, <1>7 DEF Books!Good, Books!IsBook, Books!CustodyAssumption
<1>8. ASSUME NEW pending \in 0..MaxNonce, Reserve(t, id, pending)
      PROVE  \E c : \E effect \in Effects : Begun(c, effect)
  BY Zenon, <1>5, <1>8 DEF Reserve, Change, Books!Call, b
<1>9. ASSUME NEW pending \in 0..MaxNonce, Prepare(t, id, pending)
      PROVE  \E c : \E effect \in Effects : Begun(c, effect)
  <2> DEFINE nonce == Books!NextNonce(b, pending)
             c == Books!ReserveNonce(b, id, nonce)
             effect == [kind |-> "prepared", id |-> id, nonce |-> nonce]
  <2>1. b # None /\ nonce \in 0..MaxNonce /\ Begin(t, c, effect)
    BY Zenon, <1>9 DEF Prepare, b
  <2>2. c # Refused
    BY Zenon, <1>2, <2>1
  <2>3. nonce \in Nat /\ Books!NextNonce(b, nonce) = nonce
    BY <1>1, <2>1 DEF Books!NextNonce, Books!Good, Books!IsBook, Books!AccountBook, Books!CustodyAssumption
  <2>4. effect \in Effects /\ effect.kind = "prepared" /\ effect.id = id /\ effect.nonce = nonce
    BY Zenon, <1>4, <2>1
  <2> HIDE DEF nonce, effect
  <2>5. c = Books!ReserveNonce(b, id, nonce) /\ Outcome(b, c)
    BY Zenon, <2>1, <2>2 DEF Outcome, Books!Call
  <2> HIDE DEF c
  <2>6. Books!Advances(b, c) /\ c.ops[id] # None /\ c.ops[id].nonce = nonce
    BY ZenonT(60), <1>1, <2>1, <2>2, <2>3, <2>5, Books!ReserveNonceAdvances
  <2>7. c # None
    BY Zenon, <1>7, <2>6 DEF Books!Advances
  <2>8. Covers(c, effect)
    BY <2>4, <2>6, <2>7 DEF Covers, Reserves, Books!Used
  <2> QED
    BY ZenonT(60), <2>1, <2>4, <2>5, <2>8
<1>10. ASSUME Release(t, id) \/ Reopen(t, id)
       PROVE  \E c : \E effect \in Effects : Begun(c, effect)
  <2>1. CASE Release(t, id)
    <3>1. b # None /\ Begin(t, Books!ReleaseUnsigned(b, id), NoEffect)
      BY Zenon, <2>1 DEF Release, Change, b
    <3>2. id \in Books!Used(b)
      BY Zenon, <1>2, <3>1 DEF Books!ReleaseUnsigned, Books!In, Books!Used
    <3> QED
      BY Zenon, <1>5, <3>1, <3>2 DEF Books!Call
  <2>2. CASE Reopen(t, id)
    <3>1. b # None /\ Begin(t, Books!ReopenUnsigned(b, id), NoEffect)
      BY Zenon, <2>2 DEF Reopen, Change, b
    <3>2. id \in Books!Used(b)
      BY ZenonT(60), <1>2, <3>1 DEF Books!ReopenUnsigned, Books!In, Books!Used
    <3> QED
      BY ZenonT(60), <1>5, <3>1, <3>2 DEF Books!Call
  <2> QED
    BY Zenon, <1>10, <2>1, <2>2
<1>11. ASSUME Touch(t, id)
       PROVE  \E c : \E effect \in Effects : Begun(c, effect)
  BY ZenonT(60), <1>2, <1>3, <1>11 DEF Touch, Outcome, b
<1>12. ASSUME NEW tx \in Books!Tx, NEW effect, b # None, Begin(t, Books!CommitSigned(b, id, tx), effect)
       PROVE  LET c == Books!CommitSigned(b, id, tx)
              IN  /\ Outcome(b, c) /\ Books!Good(c) /\ id \in Books!Used(c)
                  /\ tx \in Books!Candidates(c.ops[id])
  <2> DEFINE c == Books!CommitSigned(b, id, tx)
  <2>1. c # Refused
    BY ZenonT(60), <1>2, <1>12
  <2>2. /\ Books!Advances(b, c) /\ id \in Books!Used(b) /\ c.ops[id] # None
        /\ tx \in Books!Candidates(c.ops[id])
    BY ZenonT(60), <1>1, <1>12, <2>1, Books!CommitSignedAdvances
  <2>3. Outcome(b, c)
    BY ZenonT(60), <1>12, <2>1, <2>2 DEF Outcome, Books!Call
  <2> HIDE DEF c
  <2>4. Books!Good(c) /\ id \in Books!Used(c)
    BY Zenon, <2>2 DEF Books!Advances, Books!Used
  <2> QED
    BY ZenonT(60), <2>2, <2>3, <2>4 DEF c
<1>13. ASSUME NEW tx \in Books!Tx, CommitExternal(t, id, tx) \/ Sign(t, id, tx)
       PROVE  \E c : \E effect \in Effects : Begun(c, effect)
  <2>1. CASE CommitExternal(t, id, tx)
    <3>1. b # None /\ Begin(t, Books!CommitSigned(b, id, tx), NoEffect)
      BY Zenon, <2>1 DEF CommitExternal, Change, b
    <3> QED
      BY ZenonT(60), <1>3, <1>12, <3>1
  <2>2. CASE Sign(t, id, tx)
    <3>1. b # None /\ Begin(t, Books!CommitSigned(b, id, tx), [kind |-> "return", tx |-> tx])
      BY Zenon, <2>2 DEF Sign, b
    <3> QED
      BY ZenonT(60), <1>4, <1>6, <1>7, <1>12, <3>1
  <2> QED
    BY ZenonT(60), <1>13, <2>1, <2>2
<1>14. ASSUME NEW parent \in Books!Tx, NEW tx \in Books!Tx, SignReplacement(t, id, parent, tx)
       PROVE  \E c : \E effect \in Effects : Begun(c, effect)
  <2> DEFINE c == Books!CommitReplacement(b, id, parent, tx)
  <2>1. b # None /\ parent \in Books!Candidates(b.ops[id]) /\ Begin(t, c, [kind |-> "return", tx |-> tx])
    BY Zenon, <1>14 DEF SignReplacement, Op, b
  <2>2. c # Refused
    BY ZenonT(60), <1>2, <2>1
  <2>3. /\ Books!Advances(b, c) /\ id \in Books!Used(b) /\ c.ops[id] # None
        /\ tx \in Books!Candidates(c.ops[id])
    BY ZenonT(60), <1>1, <2>1, <2>2, Books!CommitReplacementAdvances
  <2>4. Outcome(b, c)
    BY ZenonT(60), <2>1, <2>2, <2>3 DEF Outcome, Books!Call
  <2> HIDE DEF c
  <2>5. Books!Good(c) /\ id \in Books!Used(c)
    BY Zenon, <2>3 DEF Books!Advances, Books!Used
  <2> QED
    BY ZenonT(60), <1>4, <1>6, <1>7, <2>1, <2>3, <2>4, <2>5
<1>15. ASSUME NEW tx \in Books!Tx, Broadcast(t, id, tx)
       PROVE  \E c : \E effect \in Effects : Begun(c, effect)
  <2> DEFINE c == Books!MarkSubmitted(b, id)
             effect == [kind |-> "send", tx |-> tx]
  <2>1. b # None /\ tx \in Books!Candidates(b.ops[id]) /\ Begin(t, c, effect)
    BY Zenon, <1>15 DEF Broadcast, Op, b
  <2>2. c # Refused
    BY Zenon, <1>2, <2>1
  <2>3. /\ Books!Advances(b, c) /\ id \in Books!Used(b) /\ c.ops[id].state = "submitted"
        /\ Books!Candidates(c.ops[id]) = Books!Candidates(b.ops[id])
    BY ZenonT(60), <1>1, <2>1, <2>2, Books!MarkSubmittedAdvances
  <2>4. Outcome(b, c)
    BY ZenonT(60), <2>1, <2>2, <2>3 DEF Outcome, Books!Call
  <2> HIDE DEF c
  <2>5. c # None /\ id \in Books!Used(c) /\ id \in Ids /\ c.ops[id] # None
    BY ZenonT(60), <1>7, <2>3 DEF Books!Advances, Books!Keeps, Books!Used
  <2>6. effect \in Effects /\ effect.kind = "send" /\ effect.tx = tx
    BY Zenon, <1>4
  <2> HIDE DEF effect
  <2>7. Holds(c, Submitted, tx)
    BY ZenonT(60), <2>1, <2>3, <2>5 DEF Holds, Books!In, Submitted
  <2>8. Covers(c, effect)
    BY <2>6, <2>7 DEF Covers
  <2> QED
    BY ZenonT(60), <2>1, <2>4, <2>6, <2>8
<1>16. ASSUME b # None, NEW seen \in (Books!Candidates(b.ops[id]) \X Blocks) \cup {None}, NEW still \in BOOLEAN,
              Reconcile(t, id, seen, still)
       PROVE  \E c : \E effect \in Effects : Begun(c, effect)
  <2> DEFINE old == b.ops[id].inclusion
             next == IF old # None /\ still THEN old ELSE seen
  <2>1. Books!In(b, id, Books!Signed) /\ Begin(t, Books!Reconciled(b, id, next), NoEffect)
    BY Zenon, <1>16 DEF Reconcile, Op, b
  <2>2. id \in Books!Used(b) /\ b.ops[id] # None /\ b.ops[id].state \in Books!Signed
    BY ZenonT(60), <2>1 DEF Books!In, Books!Used
  <2>3. old \in (Books!Candidates(b.ops[id]) \X Blocks) \cup {None}
    <3>1. old \in (Books!Tx \X Blocks) \cup {None}
      BY ZenonT(60), <1>1, <1>16, <2>2, Books!OperationFields DEF Books!Good
    <3>2. old # None => old[1] \in Books!Candidates(b.ops[id])
      BY ZenonT(60), <1>1, <1>16, <2>2 DEF Books!Good, Books!Valid, Books!ValidOperation
    <3> QED
      BY <3>1, <3>2
  <2>4. next \in (Books!Candidates(b.ops[id]) \X Blocks) \cup {None}
    BY ZenonT(60), <1>16, <2>3
  <2> HIDE DEF next, old
  <2> QED
    BY ZenonT(60), <1>5, <1>16, <2>1, <2>2, <2>4 DEF Books!Call
<1> QED
  BY ZenonT(60), <1>8, <1>9, <1>10, <1>11, <1>13, <1>14, <1>15, <1>16 DEF BeginOperation, Op, b

LEMMA StepIInv ==
    ASSUME TabsAssumption, IInv, [Next]_vars
    PROVE  IInv' /\ BooksStep
<1>1. CASE UNCHANGED vars
  <2>1. /\ disk' = disk /\ task' = task /\ sent' = sent /\ returned' = returned /\ prepared' = prepared
    BY Zenon, <1>1 DEF vars
  <2>2. DiskOK' /\ (\A p \in Profiles : Forward(p)) /\ BooksStep
    BY Zenon, <2>1, DiskStill
  <2>3. \A t \in Tabs : TaskOK(t)'
    BY ZenonT(60), <2>1, <2>2, TaskForward
  <2>4. HistoryOK'
    BY ZenonT(60), <2>1, <2>2, HistoryForward DEF HistoryOK
  <2> QED
    BY ZenonT(60), <2>1, <2>2, <2>3, <2>4 DEF IInv
<1>2. CASE Next
  <2>1. PICK t \in Tabs :
          \/ Initialize(t, 0)
          \/ \E file \in Files : InitializeFromBackup(t, file) \/ MergeFile(t, file)
          \/ \E id \in Ids : BeginOperation(t, id)
          \/ Finish(t) \/ FinishUnheard(t) \/ Send(t) \/ Stop(t)
    BY Zenon, <1>2 DEF Next
  <2>2. NoEffect \in Effects /\ \A bytes : Covers(bytes, NoEffect)
    BY DEF Effects, Covers, NoEffect
  <2>3. \A bytes, effect : Begin(t, bytes, effect) => bytes # Refused
    BY Zenon DEF Begin
  <2>4. CASE Initialize(t, 0)
    BY ZenonT(60), <2>2, <2>3, <2>4, BeginStep DEF Initialize, Outcome
  <2>5. ASSUME NEW file \in Files, InitializeFromBackup(t, file) PROVE IInv' /\ BooksStep
    BY ZenonT(60), <2>2, <2>3, <2>5, BeginStep DEF InitializeFromBackup, Outcome
  <2>6. ASSUME NEW file \in Files, MergeFile(t, file) PROVE IInv' /\ BooksStep
    BY ZenonT(60), <2>2, <2>3, <2>6, BeginStep DEF MergeFile, Change, Outcome
  <2>7. ASSUME NEW id \in Ids, BeginOperation(t, id) PROVE IInv' /\ BooksStep
    <3>1. PICK bytes : \E effect \in Effects : Begin(t, bytes, effect) /\ Outcome(Book(t), bytes) /\ Covers(bytes, effect)
      BY Zenon, <2>7, OperationBegins
    <3>2. PICK effect \in Effects : Begin(t, bytes, effect) /\ Outcome(Book(t), bytes) /\ Covers(bytes, effect)
      BY Zenon, <3>1
    <3> QED
      BY Zenon, <3>2, BeginStep
  <2> QED
    BY ZenonT(60), <2>1, <2>4, <2>5, <2>6, <2>7, FinishStep, OtherEnds
<1> QED
  BY Zenon, <1>1, <1>2

LEMMA InitIInv ==
    ASSUME TabsAssumption, Init
    PROVE  IInv /\ BooksInit
<1>1. disk = [p \in Profiles |-> [revision |-> 0, bytes |-> None]] /\ task = [t \in Tabs |-> Idle]
  BY Zenon DEF Init, Absent
<1>2. DiskOK
  BY <1>1 DEF DiskOK, Record, TabsAssumption, StoreAssumption
<1>3. \A t \in Tabs : task[t].at = "idle"
  BY <1>1 DEF Idle
<1>4. \A t \in Tabs : TaskOK(t)
  BY <1>3 DEF TaskOK
<1>5. task \in [Tabs -> Task \cup {Idle}]
  BY <1>1
<1>6. HistoryOK /\ sent = {} /\ returned = {} /\ prepared = {}
  BY Zenon DEF Init, HistoryOK
<1>7. BooksInit
  BY <1>1 DEF BooksInit, Stored, Books!Init
<1> QED
  BY SMTT(40), <1>2, <1>4, <1>5, <1>6, <1>7 DEF IInv

\* The tabs implement the book: every write that succeeds is one call of the
\* book, made on the bytes it then holds, and nothing else changes it.  The
\* invariant it rests on is that a call in progress either works on the bytes
\* that are still there or will be refused (TaskOK).
THEOREM TabsImplementBooks ==
    ASSUME TabsAssumption
    PROVE  Spec => ImplementsBooks
<1>1. Init => IInv /\ Books!Init
  BY Zenon, InitIInv DEF BooksInit
<1>2. IInv /\ [Next]_vars => IInv' /\ [Books!Next]_Stored
  BY Zenon, StepIInv DEF BooksStep
<1> QED
  BY <1>1, <1>2, PTL DEF Spec, ImplementsBooks, Books!Spec

\* Whatever snapshots the tabs hold and whichever answers are lost, what was sent
\* is held as submitted, what was returned is held, and no two drafts carry one
\* nonce: the journal keeps what it holds (Forward), and what a call tells is in
\* what it has written (Covers).
THEOREM TabsSafety ==
    ASSUME TabsAssumption
    PROVE  Spec => []TabsCustody
<1>1. Init => IInv
  BY Zenon, InitIInv
<1>2. IInv /\ [Next]_vars => IInv'
  BY Zenon, StepIInv
<1>3. IInv => TabsCustody
  <2> SUFFICES ASSUME IInv PROVE TabsCustody
    OBVIOUS
  <2>1. TypeOK
    <3>1. ASSUME NEW p \in Profiles
          PROVE  /\ disk[p].revision \in 0..MaxRevision
                 /\ IF disk[p].revision = 0 THEN disk[p].bytes = None ELSE Books!IsBook(disk[p].bytes)
      <4>1. disk[p] \in Record /\ (disk[p].revision = 0 <=> disk[p].bytes = None)
        BY Zenon DEF IInv, DiskOK
      <4> QED
        BY <4>1 DEF Record, Books!IsBook
    <3>2. ASSUME NEW t \in Tabs, task[t] # Idle
          PROVE  /\ task[t].at \in {"write", "send"} /\ task[t].expected \in 0..MaxRevision
                 /\ Books!IsBook(task[t].bytes) /\ task[t].effect \in Effects
      <4>1. task[t] \in Task
        BY Zenon, <3>2 DEF IInv
      <4> QED
        BY <4>1 DEF Task, Books!IsBook
    <3> QED
      BY Zenon, <3>1, <3>2 DEF TypeOK, IInv
  <2>2. SentIsSubmitted
    BY Zenon DEF IInv, HistoryOK, SentIsSubmitted, Holds, Submitted
  <2>3. ReturnedIsHeld
    BY Zenon DEF IInv, HistoryOK, ReturnedIsHeld, Holds, Books!In
  <2>4. PreparedOnce
    <3> SUFFICES ASSUME NEW x \in prepared, NEW y \in prepared, x[1] = y[1], x[3] = y[3]
                 PROVE  x[2] = y[2]
      BY Zenon DEF PreparedOnce
    <3> DEFINE b == disk[x[1]].bytes
    <3>1. x[1] \in Profiles
      BY DEF IInv
    <3>2. Reserves(b, x[2], x[3]) /\ Reserves(b, y[2], y[3])
      BY Zenon DEF IInv, HistoryOK
    <3>3. Books!Good(b)
      BY Zenon, <3>1, <3>2 DEF IInv, DiskOK, Reserves
    <3> HIDE DEF b
    <3> QED
      BY ZenonT(60), <3>2, <3>3 DEF Reserves, Books!Good, Books!Valid
  <2> QED
    BY ZenonT(60), <2>1, <2>2, <2>3, <2>4 DEF TabsCustody
<1> QED
  BY <1>1, <1>2, <1>3, PTL DEF Spec

=============================================================================
