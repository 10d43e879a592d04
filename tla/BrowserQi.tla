----------------------------- MODULE BrowserQi ------------------------------
(***************************************************************************)
(* The Qi custody of a browser profile: BrowserQiBook, BrowserQiSession    *)
(* and the Qi side of BrowserRecoverySession, in several tabs.  The        *)
(* operation journal is written against the revision a call read; a        *)
(* preparation that discovers also fences the address allocation journal,  *)
(* of which only the completed addresses matter here.                      *)
(***************************************************************************)
EXTENDS SnapshotStore, TLAPS

CONSTANTS
    Ids, Outpoints, Owner, Fees, Blocks, MaxOperations, MaxAddresses, MaxVariants, None, Refused,   \* as in QiBooks
    Tabs, Files,
    Scanned,        \* addresses the HD scan reaches (gap, explicit ranges)
    Allocatable,    \* addresses still to be allocated
    Operations, Allocations   \* the two journals

VARIABLES
    disk,      \* disk[s]: the IndexedDB records
    task,      \* task[t]: the call in progress in a tab
    sent,      \* payloads handed to the node
    returned,  \* history: signed transactions a call has returned
    missed     \* history: completed addresses that a committed preparation did not query

vars == <<disk, task, sent, returned, missed>>

\* The journal as one atomic book.
Stored == [p \in {Operations} |-> disk[p].bytes]
Books == INSTANCE QiBooks WITH Profiles <- {Operations}, book <- Stored

TabsAssumption ==
    /\ StoreAssumption /\ Books!QiCustodyAssumption /\ Operations # Allocations
    /\ Scanned \subseteq Books!Addresses /\ Allocatable \subseteq Books!Addresses

Idle == [at |-> "idle"]
NoEffect == [kind |-> "none"]
Effects == {NoEffect} \cup [kind : {"return", "send"}, tx : Books!Tx] \cup [kind : {"prepared"}, queried : SUBSET Books!Addresses]

Book == disk[Operations].bytes
Completed == disk[Allocations].bytes

TypeOK ==
    /\ \A s \in {Operations, Allocations} : disk[s].revision \in 0..MaxRevision
    /\ IF disk[Operations].revision = 0 THEN Book = None ELSE Books!IsBook(Book)
    /\ Completed \subseteq Books!Addresses
    /\ \A t \in Tabs :
         \/ task[t] = Idle
         \/ task[t].at \in {"write", "send"} /\ task[t].effect \in Effects
    /\ sent \subseteq Books!Tx /\ returned \subseteq Books!Tx /\ missed \subseteq Books!Addresses

Init ==
    /\ disk = [s \in {Operations, Allocations} |-> IF s = Operations THEN Absent(None) ELSE Absent({})]
    /\ task = [t \in Tabs |-> Idle]
    /\ sent = {} /\ returned = {} /\ missed = {}

----------------------------------------------------------------------------
\* The call has read the journals it will write, and decided what to write.
Begin(t, updates, effect) ==
    /\ task[t] = Idle
    /\ task' = [task EXCEPT ![t] = [at |-> "write", updates |-> updates, effect |-> effect]]
    /\ UNCHANGED <<disk, sent, returned, missed>>

\* snapshot, change, write.
Change(t, bytes, effect) ==
    /\ Book # None /\ Books!Reload(Book) # Refused /\ bytes # Refused
    /\ Begin(t, Update(Operations, disk[Operations].revision, bytes), effect)

Initialize(t) == Book = None /\ Begin(t, Update(Operations, 0, Books!New), NoEffect)
InitializeFromBackup(t, file) == Book = None /\ Begin(t, Update(Operations, 0, Books!FromBackup(file)), NoEffect)
MergeFile(t, file) == Book # None /\ Change(t, Books!MergeBackup(Book, file), NoEffect)

\* Another request of the allocation journal completes (BrowserAllocations).
Allocate(t, address) ==
    /\ address \notin Completed
    /\ Begin(t, Update(Allocations, disk[Allocations].revision, Completed \cup {address}), NoEffect)

\* What prepare_discovered asks the node about: the scan, the owners the operation
\* journal holds and every address the allocation journal completed.
Queried == Scanned \cup Book.addresses \cup Completed

\* prepare_discovered: coins of those addresses that no operation claims.
PrepareDiscovered(t, id, block, coins) ==
    LET reserved == Books!Reserve(Book, id, block, coins) IN
    /\ Book # None /\ Books!Reload(Book) # Refused /\ Book.ops[id] = None
    /\ Books!Owners(coins) \subseteq Queried /\ reserved # Refused
    /\ Begin(t, [s \in {Operations, Allocations} |->
                    [expected |-> disk[s].revision,
                     bytes |-> IF s = Operations THEN reserved ELSE Completed]],
             [kind |-> "prepared", queried |-> Queried])

\* reserve, reserve_discovery and prepare_observed: coins the caller observed, at a
\* revision that is still current when the call reads the journal.
ReserveObserved(t, id, block, coins) ==
    Book # None /\ Change(t, Books!Reserve(Book, id, block, coins), NoEffect)

Release(t, id) == Book # None /\ Change(t, Books!ReleaseUnsigned(Book, id), NoEffect)
CommitExternal(t, id, tx) == Book # None /\ Change(t, Books!CommitSigned(Book, id, tx), NoEffect)

Sign(t, id, tx) ==
    /\ Book # None /\ Books!In(Book, id, {"reserved"}) /\ Books!CheckInputs(Book, Book.ops[id], tx)
    /\ Change(t, Books!CommitSigned(Book, id, tx), [kind |-> "return", tx |-> tx])

\* prepare_replacement writes back what it read.
PrepareReplacement(t, id) ==
    /\ Book # None /\ Books!In(Book, id, {"signed", "submitted"}) /\ Book.ops[id].payload # None
    /\ Cardinality(Book.ops[id].replacements) < MaxVariants
    /\ Change(t, Book, NoEffect)

\* PreparedBrowserQiReplacement::sign returns a replacement that is already there.
SignReplacement(t, id, parent, tx) ==
    /\ Book # None /\ Books!In(Book, id, {"signed", "submitted"}) /\ parent \in Books!Candidates(Book.ops[id])
    /\ IF [parent |-> parent, payload |-> tx] \in Book.ops[id].replacements
       THEN /\ task[t] = Idle /\ returned' = returned \cup {tx}
            /\ UNCHANGED <<disk, task, sent, missed>>
       ELSE /\ Books!CheckInputs(Book, Book.ops[id], tx)
            /\ Change(t, Books!CommitReplacement(Book, id, parent, tx), [kind |-> "return", tx |-> tx])

Broadcast(t, id, tx) ==
    /\ Book # None /\ Books!In(Book, id, {"signed", "submitted"}) /\ Book.ops[id].payload # None
    /\ tx \in Books!Candidates(Book.ops[id])
    /\ Change(t, Books!MarkSubmitted(Book, id), [kind |-> "send", tx |-> tx])

\* observe_inclusion and invalidate_inclusion, which reconcile composes.
Observe(t, id, tx, block) ==
    /\ Book # None
    /\ \/ Change(t, Books!ObserveInclusion(Book, id, tx, block), NoEffect)
       \/ Change(t, Books!InvalidateInclusion(Book, id, <<tx, block>>), NoEffect)

\* compare_exchange and compare_exchange_snapshots.
Finish(t) ==
    LET done == CanExchange(disk, task[t].updates)
        effect == task[t].effect
    IN  /\ task[t].at = "write"
        /\ disk' = IF done THEN Exchanged(disk, task[t].updates) ELSE disk
        /\ task' = [task EXCEPT ![t] = IF done /\ effect.kind = "send" THEN [@ EXCEPT !.at = "send"] ELSE Idle]
        /\ returned' = IF done /\ effect.kind = "return" THEN returned \cup {effect.tx} ELSE returned
        /\ missed' = IF done /\ effect.kind = "prepared" THEN missed \cup (Completed \ effect.queried) ELSE missed
        /\ UNCHANGED sent

Send(t) ==
    /\ task[t].at = "send"
    /\ sent' = sent \cup {task[t].effect.tx}
    /\ task' = [task EXCEPT ![t] = Idle]
    /\ UNCHANGED <<disk, returned, missed>>

\* The tab is closed or a node request fails; a write may have taken effect.
Stop(t) ==
    /\ task[t] # Idle
    /\ task' = [task EXCEPT ![t] = Idle]
    /\ \/ UNCHANGED disk
       \/ /\ task[t].at = "write" /\ CanExchange(disk, task[t].updates)
          /\ disk' = Exchanged(disk, task[t].updates)
    /\ UNCHANGED <<sent, returned, missed>>

BeginOperation(t, id) ==
    \/ \E coins \in SUBSET Outpoints, block \in Blocks :
         PrepareDiscovered(t, id, block, coins) \/ ReserveObserved(t, id, block, coins)
    \/ Release(t, id) \/ PrepareReplacement(t, id)
    \/ /\ Book # None /\ Book.ops[id] # None
       /\ \E fee \in Fees :
            LET tx == [inputs |-> Book.ops[id].claims, fee |-> fee] IN
            \/ CommitExternal(t, id, tx) \/ Sign(t, id, tx) \/ Broadcast(t, id, tx)
            \/ \E parent \in Books!Candidates(Book.ops[id]) : SignReplacement(t, id, parent, tx)
            \/ \E block \in Blocks : Observe(t, id, tx, block)

Next ==
    \E t \in Tabs :
        \/ Initialize(t)
        \/ \E file \in Files : InitializeFromBackup(t, file) \/ MergeFile(t, file)
        \/ \E address \in Allocatable : Allocate(t, address)
        \/ \E id \in Ids : BeginOperation(t, id)
        \/ Finish(t) \/ Send(t) \/ Stop(t)

Spec == Init /\ [][Next]_vars

----------------------------------------------------------------------------
\* The tabs implement one operation book whose calls are atomic.
BooksInit == Books!Init
BooksStep == [Books!Next]_Stored

\* A preparation that discovers has asked about every address that had been
\* handed out when its claim was written: none is overlooked because it was
\* completed in another tab while the preparation waited for the node.
QuoteKnowsAllocations == missed = {}

\* A payload given to the node is one the journal holds as submitted, and whose
\* inputs it holds: no race lets them be claimed again while it may be included.
SentIsSubmitted ==
    \A tx \in sent : Book # None /\ \E id \in Ids :
        /\ Books!In(Book, id, {"submitted", "confirmed"})
        /\ tx \in Books!Candidates(Book.ops[id]) /\ Book.ops[id].claims = tx.inputs

\* A signature an application received is in the journal, whose inputs it holds.
ReturnedIsHeld ==
    \A tx \in returned : Book # None /\ \E id \in Ids :
        Book.ops[id] # None /\ tx \in Books!Candidates(Book.ops[id]) /\ Book.ops[id].claims = tx.inputs

\* The Qi part of what the tabs of a profile keep.
TabsCustody == TypeOK /\ SentIsSubmitted /\ ReturnedIsHeld /\ QuoteKnowsAllocations
\* The Qi part of the refinement.
ImplementsBooks == Books!Spec

----------------------------------------------------------------------------
(* What a call writes.                                                     *)

\* What some call of the book makes of the bytes a tab read.
Outcome(b, c) ==
    /\ c # Refused
    /\ \/ b = None /\ (c = Books!New \/ \E file \in Files : c = Books!FromBackup(file))
       \/ b # None /\ (c = b \/ \E file \in Files : c = Books!MergeBackup(b, file))
       \/ b # None /\ \E id \in Ids : Books!Call(b, id, c)

LEMMA OutcomeGood ==
    ASSUME TabsAssumption, NEW b, b # None => Books!Good(b), NEW c, Outcome(b, c)
    PROVE  Books!Good(c) /\ (b # None => Books!Keeps(b, c)) /\ c # None /\ c \in Books!QiBook
<1>1. Books!QiCustodyAssumption /\ c # Refused
  BY Zenon DEF TabsAssumption, Outcome
<1>2. \A file \in Files : Books!Good(file)
  BY Zenon, <1>1 DEF Books!QiCustodyAssumption, Books!Good
<1>3. Books!Good(c) /\ (b # None => Books!Keeps(b, c))
  <2>1. CASE b = None
    <3>1. CASE c = Books!New
      BY Zenon, <1>1, <2>1, <3>1, Books!NewGood
    <3>2. ASSUME NEW file \in Files, c = Books!FromBackup(file) PROVE Books!Good(c)
      BY Zenon, <1>1, <1>2, <3>2, Books!FromBackupGood
    <3> QED
      BY Zenon, <2>1, <3>1, <3>2 DEF Outcome
  <2>2. CASE b # None
    <3>1. ASSUME NEW file \in Files, c = Books!MergeBackup(b, file)
          PROVE  Books!Good(c) /\ Books!Keeps(b, c)
      BY Zenon, <1>1, <1>2, <2>2, <3>1, Books!MergeBackupKeeps
    <3>2. ASSUME NEW id \in Ids, Books!Call(b, id, c)
          PROVE  Books!Good(c) /\ Books!Keeps(b, c)
      BY Zenon, <1>1, <2>2, <3>2, Books!CallAdvances DEF Books!Advances
    <3>3. ASSUME c = b
          PROVE  Books!Good(c) /\ Books!Keeps(b, c)
      BY Zenon, <2>2, <3>3, Books!UnmovedAdvances DEF Books!Advances
    <3> QED
      BY Zenon, <2>2, <3>1, <3>2, <3>3 DEF Outcome
  <2> QED
    BY <2>1, <2>2
<1> QED
  BY Zenon, <1>1, <1>3 DEF Books!Good, Books!IsBook, Books!QiCustodyAssumption

\* The write of such bytes is a step of the book.
LEMMA OutcomeImplements ==
    ASSUME TabsAssumption, NEW c, Outcome(Book, c), disk'[Operations].bytes = c
    PROVE  BooksStep
<1> DEFINE p == Operations
<1>1. Books!QiCustodyAssumption /\ c # Refused
  BY Zenon DEF TabsAssumption, Outcome
<1>2. p \in {Operations} /\ Stored[p] = Book /\ Stored' = [Stored EXCEPT ![p] = c]
  BY DEF Stored, Book
<1> HIDE DEF p
<1>3. CASE Book = None /\ c = Books!New
  BY Zenon, <1>2, <1>3 DEF BooksStep, Books!Next, Books!Initialize
<1>4. ASSUME NEW file \in Files
      PROVE  file \in Books!Backups
  BY SMT DEF Books!Backups
<1>5. ASSUME Book = None, NEW file \in Files, c = Books!FromBackup(file)
      PROVE  BooksStep
  BY Zenon, <1>2, <1>4, <1>5 DEF BooksStep, Books!Next, Books!InitializeFromBackup
<1>6. ASSUME Book # None, NEW file \in Files, c = Books!MergeBackup(Book, file)
      PROVE  BooksStep
  BY Zenon, <1>1, <1>2, <1>4, <1>6 DEF BooksStep, Books!Next, Books!Changed
<1>7. ASSUME Book # None, NEW id \in Ids, Books!Call(Book, id, c)
      PROVE  BooksStep
  <2>1. Books!Changed(p, c)
    BY Zenon, <1>1, <1>2, <1>7 DEF Books!Changed
  <2>2. Books!Operate(p, id)
    BY Zenon, <1>2, <1>7, <2>1, Books!OperateCalls
  <2> QED
    BY Zenon, <1>2, <1>7, <2>2 DEF BooksStep, Books!Next
<1>8. CASE c = Book
  <2>1. Stored' = Stored
    BY <1>8 DEF Stored, Book
  <2> QED
    BY Zenon, <2>1 DEF BooksStep
<1> QED
  BY ZenonT(60), <1>3, <1>5, <1>6, <1>7, <1>8 DEF Outcome

----------------------------------------------------------------------------
(* What the tabs rely on.                                                  *)

Journals == {Operations, Allocations}
Submitted == {"submitted", "confirmed"}

\* A transaction that an operation of the book holds, with its inputs, in one of the states.
Holds(b, states, tx) ==
    b # None /\ \E id \in Ids :
        Books!In(b, id, states) /\ tx \in Books!Candidates(b.ops[id]) /\ b.ops[id].claims = tx.inputs

\* What a call is about to tell or send is in the bytes it is about to write; a
\* preparation fences the allocations it queried.
Covers(updates, effect) ==
    /\ effect.kind = "return" =>
         Operations \in DOMAIN updates /\ Holds(updates[Operations].bytes, Books!Signed, effect.tx)
    /\ effect.kind = "send" =>
         Operations \in DOMAIN updates /\ Holds(updates[Operations].bytes, Submitted, effect.tx)
    /\ effect.kind = "prepared" =>
         /\ Allocations \in DOMAIN updates
         /\ updates[Allocations].expected = disk[Allocations].revision => Completed \subseteq effect.queried

\* A call works on bytes that are still there, unless its write will be refused.
Pending(updates, effect) ==
    /\ DOMAIN updates \subseteq Journals
    /\ \A s \in DOMAIN updates : updates[s].expected \in Nat /\ updates[s].expected <= disk[s].revision
    /\ (Operations \in DOMAIN updates /\ updates[Operations].expected = disk[Operations].revision) =>
         Outcome(Book, updates[Operations].bytes)
    /\ Allocations \in DOMAIN updates => updates[Allocations].bytes \subseteq Books!Addresses
    /\ Covers(updates, effect)

TaskOK(t) ==
    /\ task[t].at = "write" => Pending(task[t].updates, task[t].effect)
    /\ task[t].at = "send" =>
         task[t].effect.kind = "send" /\ Holds(Book, Submitted, task[t].effect.tx)

IsTask(x) ==
    \/ x = Idle
    \/ /\ x.at \in {"write", "send"} /\ x.effect \in Effects
       /\ x = [at |-> x.at, updates |-> x.updates, effect |-> x.effect]

DiskOK ==
    /\ disk = [s \in Journals |-> disk[s]]
    /\ \A s \in Journals : disk[s].revision \in 0..MaxRevision
    /\ disk[Operations].revision = 0 <=> Book = None
    /\ Book # None => Books!Good(Book)
    /\ Completed \subseteq Books!Addresses

HistoryOK ==
    /\ \A tx \in sent : Holds(Book, Submitted, tx)
    /\ \A tx \in returned : Holds(Book, Books!Signed, tx)

IInv ==
    /\ DiskOK /\ HistoryOK /\ \A t \in Tabs : TaskOK(t)
    /\ task = [t \in Tabs |-> task[t]] /\ \A t \in Tabs : IsTask(task[t])
    /\ sent \subseteq Books!Tx /\ returned \subseteq Books!Tx /\ missed = {}

\* What no step does to a record: lose what the book keeps, or change it under
\* its revision.
Forward ==
    /\ \A s \in Journals : disk'[s] = disk[s] \/ disk[s].revision < disk'[s].revision
    /\ Book # None => Book' # None /\ Books!Keeps(Book, Book')

LEMMA HoldsForward ==
    ASSUME Forward, NEW tx, NEW states \in {Books!Signed, Submitted}, Holds(Book, states, tx)
    PROVE  Holds(Book', states, tx)
<1> DEFINE b == Book
           c == Book'
<1>1. b # None /\ c # None /\ Books!Keeps(b, c)
  BY Zenon DEF Forward, Holds
<1> HIDE DEF b, c
<1>2. PICK id \in Ids : /\ Books!In(b, id, states) /\ tx \in Books!Candidates(b.ops[id])
                        /\ b.ops[id].claims = tx.inputs
  BY Zenon DEF Holds, b
<1>3. id \in Books!Used(c) /\ Books!KeepsOperation(b.ops[id], c.ops[id])
  BY Zenon, <1>1, <1>2 DEF Books!Keeps, Books!Used, Books!In
<1>4. b.ops[id].state \in Books!Signed
  BY Zenon, <1>2 DEF Books!In, Books!Signed, Submitted
<1>5. c.ops[id].state \in states /\ tx \in Books!Candidates(c.ops[id]) /\ c.ops[id].claims = tx.inputs
  BY Zenon, <1>2, <1>3, <1>4 DEF Books!KeepsOperation, Books!In, Submitted
<1> QED
  BY Zenon, <1>1, <1>3, <1>5 DEF Holds, Books!In, Books!Used, c

\* While records move forward, a call that stands still and what was told and
\* sent stay covered.
LEMMA TaskForward ==
    ASSUME TabsAssumption, IInv, DiskOK', Forward, NEW t \in Tabs, task'[t] = task[t]
    PROVE  TaskOK(t)'
<1> DEFINE u == task[t].updates
           e == task[t].effect
<1>1. CASE task[t].at = "write"
  <2>1. Pending(u, e)
    BY Zenon, <1>1 DEF IInv, TaskOK
  <2> HIDE DEF u, e
  <2>2. DOMAIN u \subseteq Journals /\ \A s \in Journals : disk[s].revision \in Nat /\ disk'[s].revision \in Nat
    BY <2>1 DEF Pending, IInv, DiskOK
  <2>3. \A s \in DOMAIN u :
          /\ u[s].expected \in Nat /\ u[s].expected <= disk'[s].revision
          /\ u[s].expected = disk'[s].revision => disk'[s] = disk[s] /\ u[s].expected = disk[s].revision
    <3> SUFFICES ASSUME NEW s \in DOMAIN u
                 PROVE  /\ u[s].expected \in Nat /\ u[s].expected <= disk'[s].revision
                        /\ u[s].expected = disk'[s].revision =>
                             disk'[s] = disk[s] /\ u[s].expected = disk[s].revision
      OBVIOUS
    <3>1. u[s].expected \in Nat /\ u[s].expected <= disk[s].revision
      BY Zenon, <2>1 DEF Pending
    <3>2. disk[s].revision \in Nat /\ disk'[s].revision \in Nat
          /\ (disk'[s] = disk[s] \/ disk[s].revision < disk'[s].revision)
      BY Zenon, <2>2 DEF Forward
    <3> QED
      BY <3>1, <3>2
  <2>4. Pending(u, e)'
    <3>1. (Operations \in DOMAIN u /\ u[Operations].expected = disk'[Operations].revision) =>
            Outcome(Book', u[Operations].bytes)
      BY ZenonT(60), <2>1, <2>3 DEF Pending, Book
    <3>2. Allocations \in DOMAIN u => u[Allocations].bytes \subseteq Books!Addresses
      BY Zenon, <2>1 DEF Pending
    <3>3. Covers(u, e)
      BY Zenon, <2>1 DEF Pending
    <3>4. Covers(u, e)'
      BY ZenonT(60), <2>3, <3>3 DEF Covers, Completed, u, e
    <3> QED
      BY ZenonT(60), <2>2, <2>3, <3>1, <3>2, <3>4 DEF Pending, u, e
  <2> QED
    BY Zenon, <1>1, <2>4 DEF TaskOK, u, e
<1>2. CASE task[t].at = "send"
  <2>1. task[t].effect.kind = "send" /\ Holds(Book, Submitted, task[t].effect.tx)
    BY Zenon, <1>2 DEF IInv, TaskOK
  <2>2. Holds(Book', Submitted, task[t].effect.tx)
    BY Zenon, <2>1, HoldsForward
  <2> QED
    BY Zenon, <1>2, <2>1, <2>2 DEF TaskOK
<1>3. CASE task[t].at \notin {"write", "send"}
  BY Zenon, <1>3 DEF TaskOK
<1> QED
  BY <1>1, <1>2, <1>3

LEMMA HistoryForward ==
    ASSUME IInv, Forward
    PROVE  /\ \A tx \in sent : Holds(Book', Submitted, tx)
           /\ \A tx \in returned : Holds(Book', Books!Signed, tx)
BY Zenon, HoldsForward DEF IInv, HistoryOK

----------------------------------------------------------------------------
(* The steps.                                                              *)

\* Nothing is written.
LEMMA DiskStill ==
    ASSUME TabsAssumption, IInv, disk' = disk
    PROVE  DiskOK' /\ Forward /\ BooksStep
<1>1. DiskOK'
  BY Zenon DEF IInv, DiskOK, Book, Completed
<1>2. Stored' = Stored /\ Book' = Book
  BY Zenon DEF Stored, Book
<1>3. Book # None => Books!Keeps(Book, Book)
  BY Zenon, Books!UnmovedAdvances DEF IInv, DiskOK, Books!Advances
<1> QED
  BY Zenon, <1>1, <1>2, <1>3 DEF Forward, BooksStep

\* A call that has read the journals it will write.
LEMMA BeginStep ==
    ASSUME TabsAssumption, IInv, NEW t \in Tabs, NEW updates, NEW effect \in Effects,
           Begin(t, updates, effect), Pending(updates, effect)
    PROVE  IInv' /\ BooksStep
<1> DEFINE new == [at |-> "write", updates |-> updates, effect |-> effect]
<1>1. /\ disk' = disk /\ sent' = sent /\ returned' = returned /\ missed' = missed
      /\ task' = [task EXCEPT ![t] = new]
  BY Zenon DEF Begin
<1>2. DiskOK' /\ Forward /\ BooksStep
  BY Zenon, <1>1, DiskStill
<1>3. new.at = "write" /\ new.updates = updates /\ new.effect = effect /\ IsTask(new)
  BY DEF IsTask
<1> HIDE DEF new
<1>4. /\ task' = [u \in Tabs |-> task'[u]] /\ task'[t] = new
      /\ \A u \in Tabs : u # t => task'[u] = task[u]
  BY <1>1 DEF IInv
<1>5. TaskOK(t)'
  <2>1. Pending(updates, effect)'
    BY Zenon, <1>1 DEF Pending, Covers, Book, Completed
  <2> QED
    BY ZenonT(60), <1>3, <1>4, <2>1 DEF TaskOK
<1>6. \A u \in Tabs : TaskOK(u)'
  BY Zenon, <1>2, <1>4, <1>5, TaskForward
<1>7. \A u \in Tabs : IsTask(task'[u])
  BY Zenon, <1>3, <1>4 DEF IInv
<1>8. HistoryOK'
  BY Zenon, <1>1 DEF IInv, HistoryOK, Book
<1> QED
  BY ZenonT(60), <1>1, <1>2, <1>4, <1>6, <1>7, <1>8 DEF IInv

\* A call that goes on to send, or ends, and tells or sends only what is covered.
LEMMA EndStep ==
    ASSUME TabsAssumption, IInv, NEW t \in Tabs, DiskOK', Forward,
           NEW next, task' = [task EXCEPT ![t] = next], IsTask(next), next.at # "write",
           next.at = "send" => next.effect.kind = "send" /\ Holds(Book', Submitted, next.effect.tx),
           sent' \subseteq Books!Tx, returned' \subseteq Books!Tx, missed' = {},
           \A tx \in sent' \ sent : Holds(Book', Submitted, tx),
           \A tx \in returned' \ returned : Holds(Book', Books!Signed, tx)
    PROVE  IInv'
<1>1. /\ task' = [u \in Tabs |-> task'[u]] /\ task'[t] = next
      /\ \A u \in Tabs : u # t => task'[u] = task[u]
  BY DEF IInv
<1>2. HistoryOK'
  BY Zenon, HistoryForward DEF HistoryOK
<1>3. TaskOK(t)'
  BY Zenon, <1>1 DEF TaskOK
<1>4. \A u \in Tabs : TaskOK(u)'
  BY Zenon, <1>1, <1>3, TaskForward
<1>5. \A u \in Tabs : IsTask(task'[u])
  BY Zenon, <1>1 DEF IInv
<1> QED
  BY Zenon, <1>1, <1>2, <1>4, <1>5 DEF IInv

LEMMA IdleTask == IsTask(Idle) /\ Idle.at = "idle"
BY DEF IsTask, Idle

\* compare_exchange succeeds only against the revisions the call read, so that
\* what it writes is what a call makes of the bytes that are there.
LEMMA WriteStep ==
    ASSUME TabsAssumption, IInv, NEW t \in Tabs, task[t].at = "write",
           CanExchange(disk, task[t].updates), disk' = Exchanged(disk, task[t].updates)
    PROVE  /\ DiskOK' /\ Forward /\ BooksStep
           /\ task[t].effect.kind = "return" => Holds(Book', Books!Signed, task[t].effect.tx)
           /\ task[t].effect.kind = "send" => Holds(Book', Submitted, task[t].effect.tx)
           /\ task[t].effect.kind = "prepared" => Completed \subseteq task[t].effect.queried
<1> DEFINE u == task[t].updates
           e == task[t].effect
<1>1. /\ DOMAIN u \subseteq Journals
      /\ (Operations \in DOMAIN u /\ u[Operations].expected = disk[Operations].revision) =>
           Outcome(Book, u[Operations].bytes)
      /\ Allocations \in DOMAIN u => u[Allocations].bytes \subseteq Books!Addresses
      /\ Covers(u, e)
  BY Zenon DEF IInv, TaskOK, Pending
<1>2. \A s \in DOMAIN u : disk[s].revision = u[s].expected /\ disk[s].revision < MaxRevision
  BY Zenon DEF CanExchange
<1>3. /\ DOMAIN disk = Journals /\ \A s \in Journals : disk[s].revision \in 0..MaxRevision
      /\ Book # None => Books!Good(Book)
      /\ Operations \in Journals /\ Allocations \in Journals
  BY DEF IInv, DiskOK, Journals
<1>4. disk' = [s \in Journals |->
                 IF s \in DOMAIN u THEN [revision |-> disk[s].revision + 1, bytes |-> u[s].bytes] ELSE disk[s]]
  BY Zenon, <1>3 DEF Exchanged
<1> HIDE DEF u, e
<1>5. /\ disk' = [s \in Journals |-> disk'[s]]
      /\ \A s \in Journals : s \in DOMAIN u =>
           disk'[s].revision = disk[s].revision + 1 /\ disk'[s].bytes = u[s].bytes
      /\ \A s \in Journals : s \notin DOMAIN u => disk'[s] = disk[s]
  BY <1>4
<1>6. \A s \in Journals : s \in DOMAIN u => disk'[s].revision \in 0..MaxRevision /\ disk'[s].revision # 0
                                            /\ disk[s].revision < disk'[s].revision
  BY <1>2, <1>3, <1>5 DEF TabsAssumption, StoreAssumption
<1>7. ASSUME Operations \in DOMAIN u
      PROVE  /\ Outcome(Book, Book') /\ Books!Good(Book') /\ Book' # None /\ Book' = u[Operations].bytes
             /\ Book # None => Books!Keeps(Book, Book')
  <2>1. Outcome(Book, u[Operations].bytes) /\ Book' = u[Operations].bytes
    BY ZenonT(60), <1>1, <1>2, <1>3, <1>5, <1>7 DEF Book
  <2> QED
    BY ZenonT(60), <1>3, <2>1, OutcomeGood
<1>8. ASSUME Operations \notin DOMAIN u
      PROVE  Book' = Book /\ disk'[Operations] = disk[Operations]
  BY Zenon, <1>3, <1>5, <1>8 DEF Book
<1>9. Book # None => Book' # None /\ Books!Keeps(Book, Book')
  <2>1. Book # None => Books!Keeps(Book, Book)
    BY Zenon, <1>3, Books!UnmovedAdvances DEF Books!Advances
  <2> QED
    BY ZenonT(60), <1>7, <1>8, <2>1
<1>10. Forward
  BY Zenon, <1>5, <1>6, <1>9 DEF Forward
<1>11. DiskOK'
  <2>1. \A s \in Journals : disk'[s].revision \in 0..MaxRevision
    BY Zenon, <1>3, <1>5, <1>6
  <2>2. /\ disk'[Operations].revision = 0 <=> Book' = None
        /\ Book' # None => Books!Good(Book')
    <3>1. CASE Operations \in DOMAIN u
      BY Zenon, <1>3, <1>6, <1>7, <3>1
    <3>2. CASE Operations \notin DOMAIN u
      BY Zenon, <1>8, <3>2 DEF IInv, DiskOK
    <3> QED
      BY <3>1, <3>2
  <2>3. Completed' \subseteq Books!Addresses
    BY Zenon, <1>1, <1>3, <1>5 DEF Completed, IInv, DiskOK
  <2> QED
    BY Zenon, <1>5, <2>1, <2>2, <2>3 DEF DiskOK
<1>12. BooksStep
  <2>1. CASE Operations \in DOMAIN u
    <3>1. disk'[Operations].bytes = Book' /\ Outcome(Book, Book')
      BY Zenon, <1>7, <2>1 DEF Book
    <3> QED
      BY Zenon, <3>1, OutcomeImplements
  <2>2. CASE Operations \notin DOMAIN u
    <3>1. Stored' = Stored
      BY <1>8, <2>2 DEF Stored
    <3> QED
      BY Zenon, <3>1 DEF BooksStep
  <2> QED
    BY <2>1, <2>2
<1>13. /\ e.kind = "return" => Holds(Book', Books!Signed, e.tx)
       /\ e.kind = "send" => Holds(Book', Submitted, e.tx)
       /\ e.kind = "prepared" => Completed \subseteq e.queried
  BY ZenonT(60), <1>1, <1>2, <1>7 DEF Covers
<1> QED
  BY ZenonT(60), <1>10, <1>11, <1>12, <1>13 DEF e

LEMMA EffectFields ==
    ASSUME NEW effect \in Effects, effect.kind \in {"return", "send"}
    PROVE  effect.tx \in Books!Tx
BY SMTT(40) DEF Effects, NoEffect

LEMMA FinishStep ==
    ASSUME TabsAssumption, IInv, NEW t \in Tabs, Finish(t)
    PROVE  IInv' /\ BooksStep
<1> DEFINE done == CanExchange(disk, task[t].updates)
           effect == task[t].effect
           next == IF done /\ effect.kind = "send" THEN [task[t] EXCEPT !.at = "send"] ELSE Idle
<1>1. /\ task[t].at = "write" /\ sent' = sent
      /\ disk' = IF done THEN Exchanged(disk, task[t].updates) ELSE disk
      /\ task' = [task EXCEPT ![t] = next]
      /\ returned' = IF done /\ effect.kind = "return" THEN returned \cup {effect.tx} ELSE returned
      /\ missed' = IF done /\ effect.kind = "prepared" THEN missed \cup (Completed \ effect.queried) ELSE missed
  BY Zenon DEF Finish
<1>2. sent \subseteq Books!Tx /\ returned \subseteq Books!Tx /\ missed = {}
  BY Zenon DEF IInv
<1>3. effect \in Effects /\ task[t] = [at |-> "write", updates |-> task[t].updates, effect |-> effect]
  <2>1. task[t] # Idle
    BY <1>1 DEF Idle
  <2> QED
    BY Zenon, <1>1, <2>1 DEF IInv, IsTask
<1>4. CASE ~done
  <2>1. /\ disk' = disk /\ task' = [task EXCEPT ![t] = Idle]
        /\ sent' = sent /\ returned' = returned /\ missed' = missed
    BY Zenon, <1>1, <1>4
  <2>2. DiskOK' /\ Forward /\ BooksStep
    BY Zenon, <2>1, DiskStill
  <2>3. Idle.at # "write" /\ Idle.at # "send"
    BY IdleTask
  <2> QED
    BY ZenonT(60), <1>2, <2>1, <2>2, <2>3, IdleTask, EndStep
<1>5. CASE done
  <2>1. disk' = Exchanged(disk, task[t].updates)
    BY Zenon, <1>1, <1>5
  <2>2. /\ DiskOK' /\ Forward /\ BooksStep
        /\ effect.kind = "return" => Holds(Book', Books!Signed, effect.tx)
        /\ effect.kind = "send" => Holds(Book', Submitted, effect.tx)
        /\ effect.kind = "prepared" => Completed \subseteq effect.queried
    BY ZenonT(60), <1>1, <1>5, <2>1, WriteStep
  <2>3. IsTask(next) /\ next.at # "write" /\ (next.at = "send" => next.effect = effect /\ effect.kind = "send")
    <3>1. CASE effect.kind = "send"
      <4> DEFINE new == [at |-> "send", updates |-> task[t].updates, effect |-> effect]
      <4>1. next = new
        BY <1>3, <1>5, <3>1
      <4>2. new.at = "send" /\ new.effect = effect /\ IsTask(new)
        BY <1>3 DEF IsTask
      <4> HIDE DEF next, new
      <4> QED
        BY <3>1, <4>1, <4>2
    <3>2. CASE effect.kind # "send"
      BY <3>2, IdleTask
    <3> QED
      BY <3>1, <3>2
  <2> HIDE DEF done, next
  <2>4. missed' = {}
    BY <1>1, <1>2, <2>2
  <2>5. /\ returned' \subseteq Books!Tx
        /\ \A tx \in returned' \ returned : Holds(Book', Books!Signed, tx)
    <3>1. CASE effect.kind = "return"
      <4>1. effect.tx \in Books!Tx /\ Holds(Book', Books!Signed, effect.tx)
        BY Zenon, <1>3, <2>2, <3>1, EffectFields
      <4>2. returned' = returned \cup {effect.tx}
        BY Zenon, <1>1, <1>5, <3>1
      <4> QED
        BY Zenon, <1>2, <4>1, <4>2
    <3>2. CASE effect.kind # "return"
      BY Zenon, <1>1, <1>2, <3>2
    <3> QED
      BY <3>1, <3>2
  <2>6. next.at = "send" => next.effect.kind = "send" /\ Holds(Book', Submitted, next.effect.tx)
    BY Zenon, <2>2, <2>3
  <2> QED
    BY ZenonT(60), <1>1, <1>2, <2>2, <2>3, <2>4, <2>5, <2>6, EndStep
<1> QED
  BY <1>4, <1>5

\* The payload is sent, or the tab is closed, perhaps after its write took effect.
LEMMA OtherEnds ==
    ASSUME TabsAssumption, IInv, NEW t \in Tabs, Send(t) \/ Stop(t)
    PROVE  IInv' /\ BooksStep
<1>1. sent \subseteq Books!Tx /\ returned \subseteq Books!Tx /\ missed = {}
  BY Zenon DEF IInv
<1>2. IsTask(Idle) /\ Idle.at # "write" /\ Idle.at # "send"
  BY IdleTask
<1>3. CASE Send(t)
  <2>1. /\ disk' = disk /\ task' = [task EXCEPT ![t] = Idle] /\ sent' = sent \cup {task[t].effect.tx}
        /\ returned' = returned /\ missed' = missed /\ task[t].at = "send"
    BY Zenon, <1>3 DEF Send
  <2>2. DiskOK' /\ Forward /\ BooksStep /\ Book' = Book
    BY Zenon, <2>1, DiskStill DEF Book
  <2>3. task[t].effect.kind = "send" /\ Holds(Book', Submitted, task[t].effect.tx)
    BY Zenon, <2>1, <2>2 DEF IInv, TaskOK
  <2>4. task[t].effect.tx \in Books!Tx
    <3>1. task[t] # Idle
      BY <2>1 DEF Idle
    <3>2. task[t].effect \in Effects
      BY Zenon, <3>1 DEF IInv, IsTask
    <3> QED
      BY Zenon, <2>3, <3>2, EffectFields
  <2>5. /\ sent' \subseteq Books!Tx
        /\ \A tx \in sent' \ sent : Holds(Book', Submitted, tx)
    BY Zenon, <1>1, <2>1, <2>3, <2>4
  <2> QED
    BY ZenonT(60), <1>1, <1>2, <2>1, <2>2, <2>5, EndStep
<1>4. CASE Stop(t)
  <2>1. /\ task' = [task EXCEPT ![t] = Idle]
        /\ sent' = sent /\ returned' = returned /\ missed' = missed
    BY Zenon, <1>4 DEF Stop
  <2>2. DiskOK' /\ Forward /\ BooksStep
    BY Zenon, <1>4, DiskStill, WriteStep DEF Stop
  <2> QED
    BY ZenonT(60), <1>1, <1>2, <2>1, <2>2, EndStep
<1> QED
  BY <1>3, <1>4

----------------------------------------------------------------------------
(* The calls.                                                              *)

\* A call that writes the operation journal alone.
LEMMA WriteOperations ==
    ASSUME TabsAssumption, IInv, NEW t \in Tabs, NEW bytes, NEW effect \in Effects,
           Begin(t, Update(Operations, disk[Operations].revision, bytes), effect),
           Outcome(Book, bytes), effect.kind # "prepared",
           effect.kind = "return" => Holds(bytes, Books!Signed, effect.tx),
           effect.kind = "send" => Holds(bytes, Submitted, effect.tx)
    PROVE  IInv' /\ BooksStep
<1> DEFINE u == Update(Operations, disk[Operations].revision, bytes)
<1>1. /\ DOMAIN u = {Operations} /\ u[Operations].expected = disk[Operations].revision
      /\ u[Operations].bytes = bytes
  BY DEF Update
<1>2. Operations \in Journals /\ Allocations \notin DOMAIN u /\ DOMAIN u \subseteq Journals
  BY <1>1 DEF Journals, TabsAssumption
<1>3. disk[Operations].revision \in Nat /\ disk[Operations].revision <= disk[Operations].revision
  BY <1>2 DEF IInv, DiskOK
<1> HIDE DEF u
<1>4. \A s \in DOMAIN u : u[s].expected \in Nat /\ u[s].expected <= disk[s].revision
  BY Zenon, <1>1, <1>3
<1>5. Covers(u, effect)
  BY Zenon, <1>1 DEF Covers
<1>6. Pending(u, effect)
  BY Zenon, <1>1, <1>2, <1>4, <1>5 DEF Pending
<1> QED
  BY Zenon, <1>6, BeginStep DEF u

\* A call that tells nothing.
LEMMA ChangeSilently ==
    ASSUME TabsAssumption, IInv, NEW t \in Tabs, NEW bytes, Change(t, bytes, NoEffect),
           bytes # Refused => Outcome(Book, bytes)
    PROVE  IInv' /\ BooksStep
<1>1. NoEffect \in Effects /\ NoEffect.kind = "none"
  BY DEF Effects, NoEffect
<1>2. NoEffect.kind # "prepared" /\ NoEffect.kind # "return" /\ NoEffect.kind # "send"
  BY <1>1
<1> QED
  BY ZenonT(60), <1>1, <1>2, WriteOperations DEF Change

\* The address allocation completes elsewhere.
LEMMA AllocateStep ==
    ASSUME TabsAssumption, IInv, NEW t \in Tabs, NEW address \in Allocatable, Allocate(t, address)
    PROVE  IInv' /\ BooksStep
<1> DEFINE bytes == Completed \cup {address}
           u == Update(Allocations, disk[Allocations].revision, bytes)
<1>1. Begin(t, u, NoEffect) /\ NoEffect \in Effects /\ NoEffect.kind = "none"
  BY DEF Allocate, Effects, NoEffect
<1>2. /\ DOMAIN u = {Allocations} /\ u[Allocations].expected = disk[Allocations].revision
      /\ u[Allocations].bytes = bytes
  BY DEF Update
<1>3. Allocations \in Journals /\ Operations \notin DOMAIN u /\ DOMAIN u \subseteq Journals
  BY SMTT(40), <1>2 DEF Journals, TabsAssumption
<1>4. disk[Allocations].revision \in Nat /\ disk[Allocations].revision <= disk[Allocations].revision
  BY <1>3 DEF IInv, DiskOK
<1>5. bytes \subseteq Books!Addresses
  BY DEF IInv, DiskOK, TabsAssumption
<1> HIDE DEF u, bytes
<1>6. \A s \in DOMAIN u : u[s].expected \in Nat /\ u[s].expected <= disk[s].revision
  BY Zenon, <1>2, <1>4
<1>7. Covers(u, NoEffect)
  BY <1>1 DEF Covers
<1>8. Pending(u, NoEffect)
  BY ZenonT(60), <1>2, <1>3, <1>5, <1>6, <1>7 DEF Pending
<1> QED
  BY Zenon, <1>1, <1>8, BeginStep

\* prepare_discovered writes the claim and, unchanged, the allocations it queried.
LEMMA PrepareStep ==
    ASSUME TabsAssumption, IInv, NEW t \in Tabs, NEW id \in Ids, NEW block \in Blocks,
           NEW coins \in SUBSET Outpoints, PrepareDiscovered(t, id, block, coins)
    PROVE  IInv' /\ BooksStep
<1> DEFINE reserved == Books!Reserve(Book, id, block, coins)
           u == [s \in {Operations, Allocations} |->
                    [expected |-> disk[s].revision,
                     bytes |-> IF s = Operations THEN reserved ELSE Completed]]
           effect == [kind |-> "prepared", queried |-> Queried]
<1>1. Book # None /\ reserved # Refused /\ Begin(t, u, effect)
  BY Zenon DEF PrepareDiscovered
<1>2. Outcome(Book, reserved)
  BY Zenon, <1>1 DEF Outcome, Books!Call
<1> HIDE DEF reserved
<1>3. /\ DOMAIN u = Journals /\ u[Operations].bytes = reserved /\ u[Allocations].bytes = Completed
      /\ \A s \in Journals : u[s].expected = disk[s].revision
  BY DEF Journals, TabsAssumption
<1>4. \A s \in Journals : disk[s].revision \in Nat /\ disk[s].revision <= disk[s].revision
  BY DEF IInv, DiskOK
<1>5. Completed \subseteq Books!Addresses /\ Book.addresses \subseteq Books!Addresses
  BY <1>1 DEF IInv, DiskOK, Books!Good, Books!IsBook, Books!QiBook
<1>6. Completed \subseteq Queried /\ Queried \in SUBSET Books!Addresses
  BY <1>5 DEF Queried, TabsAssumption
<1>7. effect \in Effects /\ effect.kind = "prepared" /\ effect.queried = Queried
  BY <1>6 DEF Effects
<1> HIDE DEF u, effect
<1>8. \A s \in DOMAIN u : u[s].expected \in Nat /\ u[s].expected <= disk[s].revision
  BY Zenon, <1>3, <1>4
<1>9. Covers(u, effect)
  BY <1>3, <1>6, <1>7 DEF Covers, Journals
<1>10. Pending(u, effect)
  BY ZenonT(60), <1>2, <1>3, <1>5, <1>8, <1>9 DEF Pending
<1> QED
  BY ZenonT(60), <1>1, <1>7, <1>10, BeginStep

\* The transactions of an operation that holds inputs.
LEMMA BuiltTransaction ==
    ASSUME TabsAssumption, NEW b, Books!Good(b), NEW id \in Ids, b.ops[id] # None,
           b.ops[id].state # "released", NEW fee \in Fees
    PROVE  [inputs |-> b.ops[id].claims, fee |-> fee] \in Books!Tx
<1>1. Books!QiCustodyAssumption /\ Books!IsBook(b) /\ id \in Books!Used(b)
  BY Zenon DEF TabsAssumption, Books!Good, Books!Used
<1>2. b.ops[id].claims \in SUBSET Outpoints
  BY Zenon, <1>1, Books!OperationFields
<1>3. b.ops[id].claims # {}
  BY Zenon, <1>1 DEF Books!Good, Books!Valid, Books!ValidOperation
<1> QED
  BY <1>2, <1>3 DEF Books!Tx

LEMMA ReturnEffect ==
    ASSUME NEW tx \in Books!Tx, NEW kind \in {"return", "send"}
    PROVE  [kind |-> kind, tx |-> tx] \in Effects
BY DEF Effects

\* commit_signed and sign.
LEMMA SignStep ==
    ASSUME TabsAssumption, IInv, NEW t \in Tabs, NEW id \in Ids, Book # None, Book.ops[id] # None,
           NEW fee \in Fees, NEW tx, tx = [inputs |-> Book.ops[id].claims, fee |-> fee],
           CommitExternal(t, id, tx) \/ Sign(t, id, tx)
    PROVE  IInv' /\ BooksStep
<1> DEFINE b == Book
           c == Books!CommitSigned(b, id, tx)
<1>1. Books!QiCustodyAssumption /\ Books!Good(b) /\ id \in Books!Used(b)
  BY Zenon DEF TabsAssumption, IInv, DiskOK, Books!Used
<1>2. c # Refused
  BY Zenon DEF CommitExternal, Sign, Change
<1>3. b.ops[id].state # "released"
  BY Zenon, <1>2 DEF Books!CommitSigned
<1>4. tx \in Books!Tx
  BY ZenonT(60), <1>1, <1>3, BuiltTransaction
<1>5. /\ Books!Advances(b, c) /\ c.ops[id] # None
      /\ c.ops[id].state \in Books!Signed /\ c.ops[id].claims = tx.inputs
      /\ tx \in Books!Candidates(c.ops[id])
  <2>1. c = Books!CommitSigned(b, id, tx)
    OBVIOUS
  <2> HIDE DEF b, c
  <2> QED
    BY SMTT(40), <1>1, <1>2, <1>4, <2>1, Books!CommitSignedAdvances
<1>6. Outcome(b, c)
  BY ZenonT(60), <1>1, <1>2, <1>4 DEF Outcome, Books!Call
<1>7. c # None
  BY Zenon, <1>1, <1>5 DEF Books!Advances, Books!Good, Books!IsBook, Books!QiCustodyAssumption
<1>8. CASE CommitExternal(t, id, tx)
  BY ZenonT(60), <1>6, <1>8, ChangeSilently DEF CommitExternal
<1>9. CASE Sign(t, id, tx)
  <2> DEFINE effect == [kind |-> "return", tx |-> tx]
  <2>1. Begin(t, Update(Operations, disk[Operations].revision, c), effect)
    BY Zenon, <1>9 DEF Sign, Change
  <2>2. effect \in Effects /\ effect.kind = "return" /\ effect.tx = tx
    BY Zenon, <1>4, ReturnEffect
  <2> HIDE DEF effect, c
  <2>3. Holds(c, Books!Signed, tx)
    BY Zenon, <1>5, <1>7 DEF Holds, Books!In
  <2>4. effect.kind # "prepared" /\ effect.kind # "send"
    BY <2>2
  <2> QED
    BY ZenonT(60), <1>6, <2>1, <2>2, <2>3, <2>4, WriteOperations
<1> QED
  BY <1>8, <1>9

\* PreparedBrowserQiReplacement::sign, also of a replacement that is there.
LEMMA ReplaceStep ==
    ASSUME TabsAssumption, IInv, NEW t \in Tabs, NEW id \in Ids, Book # None, Book.ops[id] # None,
           NEW fee \in Fees, NEW tx, tx = [inputs |-> Book.ops[id].claims, fee |-> fee],
           NEW parent \in Books!Candidates(Book.ops[id]), SignReplacement(t, id, parent, tx)
    PROVE  IInv' /\ BooksStep
<1> DEFINE b == Book
           c == Books!CommitReplacement(b, id, parent, tx)
           edge == [parent |-> parent, payload |-> tx]
<1>1. Books!QiCustodyAssumption /\ Books!Good(b) /\ id \in Books!Used(b)
  BY Zenon DEF TabsAssumption, IInv, DiskOK, Books!Used
<1>2. b.ops[id].state \in {"signed", "submitted"}
  BY Zenon DEF SignReplacement, Books!In
<1>3. b.ops[id].state # "released" /\ b.ops[id].state \in Books!Signed
  BY <1>2 DEF Books!Signed
<1>4. tx \in Books!Tx /\ tx.inputs = b.ops[id].claims
  BY Zenon, <1>1, <1>3, BuiltTransaction
<1>5. parent \in Books!Tx
  BY Zenon, <1>1, Books!OperationFields, Books!CandidatesAreTransactions DEF Books!Good
<1>6. CASE edge \in b.ops[id].replacements
  <2>1. /\ disk' = disk /\ task' = task /\ sent' = sent /\ missed' = missed
        /\ returned' = returned \cup {tx}
    BY Zenon, <1>6 DEF SignReplacement
  <2>2. DiskOK' /\ Forward /\ BooksStep /\ Book' = Book
    BY ZenonT(60), <2>1, DiskStill DEF Book
  <2>3. tx \in Books!Candidates(b.ops[id])
    <3>1. edge.payload = tx
      OBVIOUS
    <3> HIDE DEF edge
    <3> QED
      BY <1>6, <3>1 DEF Books!Candidates
  <2>4. Holds(Book', Books!Signed, tx)
    BY ZenonT(60), <1>3, <1>4, <2>2, <2>3 DEF Holds, Books!In
  <2>5. \A u \in Tabs : TaskOK(u)'
    BY ZenonT(60), <2>1, <2>2, TaskForward
  <2>6. HistoryOK'
    BY ZenonT(60), <2>1, <2>2, <2>4, HistoryForward DEF HistoryOK
  <2>7. returned' \subseteq Books!Tx
    BY Zenon, <1>4, <2>1 DEF IInv
  <2> QED
    BY ZenonT(60), <2>1, <2>2, <2>5, <2>6, <2>7 DEF IInv
<1>7. CASE edge \notin b.ops[id].replacements
  <2> DEFINE effect == [kind |-> "return", tx |-> tx]
  <2>1. c # Refused /\ Begin(t, Update(Operations, disk[Operations].revision, c), effect)
    BY ZenonT(60), <1>7 DEF SignReplacement, Change
  <2>2. /\ Books!Advances(b, c) /\ c.ops[id] # None
        /\ c.ops[id].state \in Books!Signed /\ c.ops[id].claims = b.ops[id].claims
        /\ tx \in Books!Candidates(c.ops[id])
    <3>1. c = Books!CommitReplacement(b, id, parent, tx)
      OBVIOUS
    <3> HIDE DEF b, c
    <3> QED
      BY SMTT(40), <1>1, <1>4, <1>5, <2>1, <3>1, Books!CommitReplacementAdvances
  <2>3. Outcome(b, c)
    BY ZenonT(60), <1>1, <1>4, <2>1 DEF Outcome, Books!Call
  <2>4. c # None
    BY ZenonT(60), <1>1, <2>2 DEF Books!Advances, Books!Good, Books!IsBook, Books!QiCustodyAssumption
  <2>5. effect \in Effects /\ effect.kind = "return" /\ effect.tx = tx
    BY ZenonT(40), <1>4, ReturnEffect
  <2> HIDE DEF effect, c
  <2>6. Holds(c, Books!Signed, tx)
    BY Zenon, <1>4, <2>2, <2>4 DEF Holds, Books!In
  <2>7. effect.kind # "prepared" /\ effect.kind # "send"
    BY <2>5
  <2> QED
    BY ZenonT(60), <2>1, <2>3, <2>5, <2>6, <2>7, WriteOperations
<1> QED
  BY <1>6, <1>7

\* broadcast marks the operation before it sends.
LEMMA BroadcastStep ==
    ASSUME TabsAssumption, IInv, NEW t \in Tabs, NEW id \in Ids, Book # None, Book.ops[id] # None,
           NEW tx, tx.inputs = Book.ops[id].claims, Broadcast(t, id, tx)
    PROVE  IInv' /\ BooksStep
<1> DEFINE b == Book
           c == Books!MarkSubmitted(b, id)
           effect == [kind |-> "send", tx |-> tx]
<1>1. Books!QiCustodyAssumption /\ Books!Good(b) /\ id \in Books!Used(b)
  BY Zenon DEF TabsAssumption, IInv, DiskOK, Books!Used
<1>2. /\ tx \in Books!Candidates(b.ops[id]) /\ c # Refused
      /\ Begin(t, Update(Operations, disk[Operations].revision, c), effect)
  BY Zenon DEF Broadcast, Change
<1>3. tx \in Books!Tx /\ b.ops[id].state \in Books!Signed
  BY ZenonT(60), <1>1, <1>2, Books!OperationFields, Books!CandidatesAreTransactions, Books!CandidatesAreSigned DEF Books!Good
<1>4. /\ Books!Advances(b, c) /\ c.ops[id] # None /\ c.ops[id].state = "submitted"
      /\ Books!Candidates(c.ops[id]) = Books!Candidates(b.ops[id])
  BY ZenonT(60), <1>1, <1>2, Books!MarkSubmittedAdvances
<1>5. c.ops[id].claims = b.ops[id].claims
  BY ZenonT(60), <1>1, <1>3, <1>4 DEF Books!Advances, Books!Keeps, Books!KeepsOperation
<1>6. Outcome(b, c)
  BY ZenonT(60), <1>1, <1>2 DEF Outcome, Books!Call
<1>7. c # None
  BY ZenonT(60), <1>1, <1>4 DEF Books!Advances, Books!Good, Books!IsBook, Books!QiCustodyAssumption
<1>8. effect \in Effects /\ effect.kind = "send" /\ effect.tx = tx
  BY Zenon, <1>3, ReturnEffect
<1> HIDE DEF effect, c
<1>9. Holds(c, Submitted, tx)
  BY Zenon, <1>2, <1>4, <1>5, <1>7 DEF Holds, Books!In, Submitted
<1>10. effect.kind # "prepared" /\ effect.kind # "return"
  BY <1>8
<1> QED
  BY ZenonT(60), <1>2, <1>6, <1>8, <1>9, <1>10, WriteOperations

\* observe_inclusion and invalidate_inclusion.
LEMMA ObserveStep ==
    ASSUME TabsAssumption, IInv, NEW t \in Tabs, NEW id \in Ids, Book # None, Book.ops[id] # None,
           NEW tx, NEW block \in Blocks, Observe(t, id, tx, block)
    PROVE  IInv' /\ BooksStep
<1> DEFINE b == Book
<1>1. Books!Good(b) /\ id \in Books!Used(b)
  BY Zenon DEF IInv, DiskOK, Books!Used
<1>2. ASSUME b.ops[id].state = "confirmed", b.ops[id].inclusion = <<tx, block>>
      PROVE  tx \in Books!Candidates(b.ops[id])
  <2>1. b.ops[id].inclusion[1] \in Books!Candidates(b.ops[id])
    BY Zenon, <1>1, <1>2 DEF Books!Good, Books!Valid, Books!ValidOperation
  <2>2. <<tx, block>>[1] = tx
    OBVIOUS
  <2> QED
    BY ZenonT(60), <1>2, <2>1, <2>2
<1>3. CASE Change(t, Books!ObserveInclusion(b, id, tx, block), NoEffect)
  <2> DEFINE c == Books!ObserveInclusion(b, id, tx, block)
  <2>1. ASSUME c # Refused PROVE Outcome(b, c)
    <3>1. tx \in Books!Candidates(b.ops[id])
      BY Zenon, <1>2, <2>1 DEF Books!ObserveInclusion, Books!In
    <3> QED
      BY ZenonT(60), <1>1, <2>1, <3>1 DEF Outcome, Books!Call
  <2> QED
    BY ZenonT(60), <1>3, <2>1, ChangeSilently
<1>4. CASE Change(t, Books!InvalidateInclusion(b, id, <<tx, block>>), NoEffect)
  <2> DEFINE c == Books!InvalidateInclusion(b, id, <<tx, block>>)
  <2>1. ASSUME c # Refused PROVE Outcome(b, c)
    <3>1. tx \in Books!Candidates(b.ops[id])
      BY ZenonT(60), <1>2, <2>1 DEF Books!InvalidateInclusion, Books!In
    <3> QED
      BY ZenonT(60), <1>1, <2>1, <3>1 DEF Outcome, Books!Call
  <2> QED
    BY ZenonT(60), <1>4, <2>1, ChangeSilently
<1> QED
  BY Zenon, <1>3, <1>4 DEF Observe

LEMMA OperationStep ==
    ASSUME TabsAssumption, IInv, NEW t \in Tabs, NEW id \in Ids, BeginOperation(t, id)
    PROVE  IInv' /\ BooksStep
<1>1. ASSUME NEW coins \in SUBSET Outpoints, NEW block \in Blocks, ReserveObserved(t, id, block, coins)
      PROVE  IInv' /\ BooksStep
  <2> DEFINE c == Books!Reserve(Book, id, block, coins)
  <2>1. Book # None /\ Change(t, c, NoEffect)
    BY Zenon, <1>1 DEF ReserveObserved
  <2>2. c # Refused => Outcome(Book, c)
    BY Zenon, <1>1, <2>1 DEF Outcome, Books!Call
  <2> QED
    BY ZenonT(60), <2>1, <2>2, ChangeSilently
<1>2. CASE Release(t, id)
  <2> DEFINE c == Books!ReleaseUnsigned(Book, id)
  <2>1. Book # None /\ Change(t, c, NoEffect)
    BY Zenon, <1>2 DEF Release
  <2>2. c # Refused => id \in Books!Used(Book)
    BY Zenon DEF Books!ReleaseUnsigned, Books!In, Books!Used
  <2>3. c # Refused => Outcome(Book, c)
    BY ZenonT(60), <2>1, <2>2 DEF Outcome, Books!Call
  <2> QED
    BY ZenonT(60), <2>1, <2>3, ChangeSilently
<1>3. CASE PrepareReplacement(t, id)
  <2>1. Book # None /\ Change(t, Book, NoEffect)
    BY Zenon, <1>3 DEF PrepareReplacement
  <2>2. Book # Refused => Outcome(Book, Book)
    BY Zenon, <2>1 DEF Outcome
  <2> QED
    BY ZenonT(60), <2>1, <2>2, ChangeSilently
<1>4. ASSUME Book # None, Book.ops[id] # None, NEW fee \in Fees, NEW tx,
             tx = [inputs |-> Book.ops[id].claims, fee |-> fee],
             \/ CommitExternal(t, id, tx) \/ Sign(t, id, tx) \/ Broadcast(t, id, tx)
             \/ \E parent \in Books!Candidates(Book.ops[id]) : SignReplacement(t, id, parent, tx)
             \/ \E block \in Blocks : Observe(t, id, tx, block)
      PROVE  IInv' /\ BooksStep
  <2>1. tx.inputs = Book.ops[id].claims
    BY <1>4
  <2> QED
    BY ZenonT(60), <1>4, <2>1, SignStep, ReplaceStep, BroadcastStep, ObserveStep
<1> QED
  BY ZenonT(60), <1>1, <1>2, <1>3, <1>4, PrepareStep DEF BeginOperation

LEMMA StepIInv ==
    ASSUME TabsAssumption, IInv, [Next]_vars
    PROVE  IInv' /\ BooksStep
<1>1. CASE UNCHANGED vars
  <2>1. /\ disk' = disk /\ task' = task /\ sent' = sent /\ returned' = returned /\ missed' = missed
    BY Zenon, <1>1 DEF vars
  <2>2. DiskOK' /\ Forward /\ BooksStep
    BY Zenon, <2>1, DiskStill
  <2>3. \A t \in Tabs : TaskOK(t)'
    BY ZenonT(60), <2>1, <2>2, TaskForward
  <2>4. HistoryOK'
    BY ZenonT(60), <2>1, <2>2, HistoryForward DEF HistoryOK
  <2> QED
    BY ZenonT(60), <2>1, <2>2, <2>3, <2>4 DEF IInv
<1>2. CASE Next
  <2>1. PICK t \in Tabs :
          \/ Initialize(t)
          \/ \E file \in Files : InitializeFromBackup(t, file) \/ MergeFile(t, file)
          \/ \E address \in Allocatable : Allocate(t, address)
          \/ \E id \in Ids : BeginOperation(t, id)
          \/ Finish(t) \/ Send(t) \/ Stop(t)
    BY Zenon, <1>2 DEF Next
  <2>2. ASSUME NEW bytes, Book = None, Begin(t, Update(Operations, 0, bytes), NoEffect), Outcome(Book, bytes)
        PROVE  IInv' /\ BooksStep
    <3>1. disk[Operations].revision = 0
      BY Zenon, <2>2 DEF IInv, DiskOK
    <3>2. NoEffect \in Effects /\ NoEffect.kind = "none"
      BY DEF Effects, NoEffect
    <3>3. NoEffect.kind # "prepared" /\ NoEffect.kind # "return" /\ NoEffect.kind # "send"
      BY <3>2
    <3> QED
      BY ZenonT(60), <2>2, <3>1, <3>2, <3>3, WriteOperations
  <2>3. \A b : Books!Good(b) => b # Refused
    BY Zenon DEF TabsAssumption, Books!QiCustodyAssumption, Books!Good, Books!IsBook
  <2>4. CASE Initialize(t)
    <3>1. Books!New # Refused
      BY Zenon, <2>3, Books!NewGood DEF TabsAssumption
    <3> QED
      BY ZenonT(60), <2>2, <2>4, <3>1 DEF Initialize, Outcome
  <2>5. ASSUME NEW file \in Files, InitializeFromBackup(t, file) PROVE IInv' /\ BooksStep
    <3>1. Books!Good(file)
      BY Zenon DEF TabsAssumption, Books!QiCustodyAssumption, Books!Good
    <3>2. Books!FromBackup(file) # Refused
      BY Zenon, <2>3, <3>1, Books!FromBackupGood DEF TabsAssumption
    <3> QED
      BY ZenonT(60), <2>2, <2>5, <3>2 DEF InitializeFromBackup, Outcome
  <2>6. ASSUME NEW file \in Files, MergeFile(t, file) PROVE IInv' /\ BooksStep
    BY ZenonT(60), <2>6, ChangeSilently DEF MergeFile, Outcome
  <2> QED
    BY ZenonT(60), <2>1, <2>4, <2>5, <2>6, AllocateStep, OperationStep, FinishStep, OtherEnds
<1> QED
  BY Zenon, <1>1, <1>2

LEMMA InitIInv ==
    ASSUME TabsAssumption, Init
    PROVE  IInv /\ BooksInit
<1>1. /\ disk = [s \in Journals |-> IF s = Operations THEN [revision |-> 0, bytes |-> None]
                                   ELSE [revision |-> 0, bytes |-> {}]]
      /\ task = [t \in Tabs |-> Idle]
  BY Zenon DEF Init, Absent, Journals
<1>2. /\ disk = [s \in Journals |-> disk[s]] /\ \A s \in Journals : disk[s].revision = 0
      /\ Book = None /\ Completed = {} /\ Operations \in Journals
  BY <1>1 DEF Journals, Book, Completed, TabsAssumption
<1>3. DiskOK
  BY <1>2 DEF DiskOK, TabsAssumption, StoreAssumption
<1>4. \A t \in Tabs : task[t] = Idle
  BY <1>1
<1>5. \A t \in Tabs : TaskOK(t) /\ IsTask(task[t])
  <2>1. Idle.at # "write" /\ Idle.at # "send" /\ IsTask(Idle)
    BY IdleTask
  <2> QED
    BY Zenon, <1>4, <2>1 DEF TaskOK
<1>6. task = [t \in Tabs |-> task[t]]
  BY <1>1
<1>7. HistoryOK /\ sent = {} /\ returned = {} /\ missed = {}
  BY Zenon DEF Init, HistoryOK
<1>8. BooksInit
  BY <1>2 DEF BooksInit, Stored, Books!Init, Book
<1> QED
  BY SMTT(40), <1>3, <1>5, <1>6, <1>7, <1>8 DEF IInv

\* The tabs implement the book: every write that succeeds is one call of the
\* book, made on the bytes it then holds, and nothing else changes it.  The
\* invariant it rests on is that a call in progress either works on the bytes
\* that are still there or will be refused (Pending).
THEOREM TabsImplementBooks ==
    ASSUME TabsAssumption
    PROVE  Spec => ImplementsBooks
<1>1. Init => IInv /\ Books!Init
  BY Zenon, InitIInv DEF BooksInit
<1>2. IInv /\ [Next]_vars => IInv' /\ [Books!Next]_Stored
  BY Zenon, StepIInv DEF BooksStep
<1> QED
  BY <1>1, <1>2, PTL DEF Spec, ImplementsBooks, Books!Spec

\* Whatever snapshots the tabs hold and whichever answers are lost, what was sent
\* is held as submitted with its inputs, what was returned is held, and no
\* preparation that was written missed an address handed out before: the journal
\* keeps what it holds (Forward), and what a call tells is in what it has written
\* (Covers).
THEOREM TabsSafety ==
    ASSUME TabsAssumption
    PROVE  Spec => []TabsCustody
<1>1. Init => IInv
  BY Zenon, InitIInv
<1>2. IInv /\ [Next]_vars => IInv'
  BY Zenon, StepIInv
<1>3. IInv => TabsCustody
  <2> SUFFICES ASSUME IInv PROVE TabsCustody
    OBVIOUS
  <2>1. TypeOK
    <3>1. /\ \A s \in {Operations, Allocations} : disk[s].revision \in 0..MaxRevision
          /\ IF disk[Operations].revision = 0 THEN Book = None ELSE Books!IsBook(Book)
          /\ Completed \subseteq Books!Addresses
      BY Zenon DEF IInv, DiskOK, Journals, Books!Good
    <3>2. \A t \in Tabs : \/ task[t] = Idle
                          \/ task[t].at \in {"write", "send"} /\ task[t].effect \in Effects
      BY Zenon DEF IInv, IsTask
    <3>3. sent \subseteq Books!Tx /\ returned \subseteq Books!Tx /\ missed \subseteq Books!Addresses
      BY Zenon DEF IInv
    <3> QED
      BY Zenon, <3>1, <3>2, <3>3 DEF TypeOK
  <2>2. SentIsSubmitted
    BY Zenon DEF IInv, HistoryOK, SentIsSubmitted, Holds, Submitted
  <2>3. ReturnedIsHeld
    BY Zenon DEF IInv, HistoryOK, ReturnedIsHeld, Holds, Books!In
  <2>4. QuoteKnowsAllocations
    BY Zenon DEF IInv, QuoteKnowsAllocations
  <2> QED
    BY ZenonT(60), <2>1, <2>2, <2>3, <2>4 DEF TabsCustody
<1> QED
  BY <1>1, <1>2, <1>3, PTL DEF Spec

=============================================================================
