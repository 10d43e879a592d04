--------------------------- MODULE BrowserBackups ---------------------------
(***************************************************************************)
(* Backups of a browser profile (quai-sdk browser_backups.rs).  A capture  *)
(* reads the journals of the wallet one after another and then, once all   *)
(* of them are read, reads each again and compares revisions; a restore    *)
(* reads them one after another, merges the backup into each, and writes   *)
(* all of them in one transaction.  Other tabs write one journal, or two   *)
(* at once, between any two of these steps.  A journal holds facts, which  *)
(* the merges of the single journals keep (AccountBooks, QiBooks,          *)
(* BrowserAllocations).                                                    *)
(***************************************************************************)
EXTENDS SnapshotStore, Sequences, TLAPS

CONSTANTS
    Order,      \* the journals in the order the call is given them
    Tasks,      \* captures and restores in progress
    Facts,      \* what tabs write
    Restored    \* what the backup adds

Journals == {Order[i] : i \in DOMAIN Order}

BackupAssumption ==
    /\ MaxRevision \in Nat /\ Order \in Seq(Journals) /\ Restored \notin Facts

VARIABLES
    disk,      \* disk[j]: the record of a journal
    task,      \* task[c]: what a capture or a restore has read
    written,   \* history: <<journal, fact>> of the writes that succeeded
    instants   \* history: what the journals held at some instant

vars == <<disk, task, written, instants>>

Idle == [kind |-> "idle", at |-> 0, seen |-> <<>>]

TypeOK ==
    /\ \A j \in Journals : disk[j].revision \in 0..MaxRevision /\ disk[j].bytes \subseteq Facts \cup {Restored}
    /\ \A c \in Tasks :
         /\ task[c].kind \in {"idle", "capture", "captured", "restore"}
         /\ task[c].at \in 0..(2 * Len(Order)) /\ Len(task[c].seen) <= Len(Order)

Init ==
    /\ disk = [j \in Journals |-> [revision |-> 1, bytes |-> {}]]
    /\ task = [c \in Tasks |-> Idle]
    /\ written = {} /\ instants = {[j \in Journals |-> {}]}

Contents(d) == [j \in Journals |-> d[j].bytes]

Committed(updates) ==
    /\ CanExchange(disk, updates)
    /\ disk' = Exchanged(disk, updates)
    /\ instants' = instants \cup {Contents(disk')}

\* A tab writes one journal or, preparing a Qi transaction, two of them; its own
\* reads are current, or the write would have failed.
TabWrite(js, fact) ==
    /\ Committed([j \in js |-> [expected |-> disk[j].revision, bytes |-> disk[j].bytes \cup {fact}]])
    /\ written' = written \cup {<<j, fact>> : j \in js}
    /\ UNCHANGED task

----------------------------------------------------------------------------
Start(c, kind) ==
    /\ task[c].kind = "idle"
    /\ task' = [task EXCEPT ![c] = [kind |-> kind, at |-> 0, seen |-> <<>>]]
    /\ UNCHANGED <<disk, written, instants>>

\* The first read of each journal, in order.
ReadJournal(c) ==
    /\ task[c].kind \in {"capture", "restore"} /\ Len(task[c].seen) < Len(Order)
    /\ task' = [task EXCEPT ![c].at = @ + 1, ![c].seen = Append(@, disk[Order[task[c].at + 1]])]
    /\ UNCHANGED <<disk, written, instants>>

\* Mutant: the first and the last journal are not checked again.
CheckAgainEarly(c) ==
    /\ task[c].kind = "capture" /\ Len(task[c].seen) = Len(Order) /\ task[c].at < 2 * Len(Order)
    /\ LET i == task[c].at - Len(Order) + 1 IN
         i = Len(Order) \/ i = 1 \/ disk[Order[i]].revision = task[c].seen[i].revision
    /\ task' = [task EXCEPT ![c].at = @ + 1]
    /\ UNCHANGED <<disk, written, instants>>

\* same_revision: the checks begin only after every first read completed.
CheckAgain(c) ==
    /\ task[c].kind = "capture" /\ Len(task[c].seen) = Len(Order) /\ task[c].at < 2 * Len(Order)
    /\ LET i == task[c].at - Len(Order) + 1 IN disk[Order[i]].revision = task[c].seen[i].revision
    /\ task' = [task EXCEPT ![c].at = @ + 1]
    /\ UNCHANGED <<disk, written, instants>>

Captured(c) ==
    /\ task[c].kind = "capture" /\ task[c].at = 2 * Len(Order)
    /\ task' = [task EXCEPT ![c].kind = "captured"]
    /\ UNCHANGED <<disk, written, instants>>

\* compare_exchange_snapshots over all of them.
Restore(c) ==
    /\ task[c].kind = "restore" /\ Len(task[c].seen) = Len(Order)
    /\ Committed([j \in Journals |->
                    LET seen == task[c].seen[CHOOSE i \in DOMAIN Order : Order[i] = j] IN
                    [expected |-> seen.revision, bytes |-> seen.bytes \cup {Restored}]])
    /\ task' = [task EXCEPT ![c] = Idle]
    /\ UNCHANGED written

\* A stale revision, a conflict, an error of the browser or a closed tab.
Stop(c) ==
    /\ task[c].kind \in {"capture", "restore"}
    /\ task' = [task EXCEPT ![c] = Idle]
    /\ UNCHANGED <<disk, written, instants>>

Next ==
    \/ \E js \in SUBSET Journals, fact \in Facts : Cardinality(js) \in {1, 2} /\ TabWrite(js, fact)
    \/ \E c \in Tasks :
         \/ \E kind \in {"capture", "restore"} : Start(c, kind)
         \/ ReadJournal(c) \/ CheckAgain(c) \/ Captured(c) \/ Restore(c) \/ Stop(c)

Spec == Init /\ [][Next]_vars

----------------------------------------------------------------------------
\* What a capture returns was in the journals at one instant, although nothing
\* locks them while they are read: a backup never holds the claim of a payment
\* without the change address it was prepared with, or the reverse.
CaptureIsAnInstant ==
    \A c \in Tasks :
        task[c].kind = "captured" =>
            [j \in Journals |-> task[c].seen[CHOOSE i \in DOMAIN Order : Order[i] = j].bytes] \in instants

\* A restore reaches all of the journals or none, whatever happens in between.
RestoredTogether ==
    \A j, k \in Journals : Restored \in disk[j].bytes <=> Restored \in disk[k].bytes

\* Neither a restore nor a capture undoes a write of another tab.
NoWriteLost == \A w \in written : w[2] \in disk[w[1]].bytes

\* What backups of a profile promise: a capture of its journals was in them at one
\* instant, a restore reaches all of them or none, and neither undoes a write of
\* another tab.
JournalsTogether == TypeOK /\ CaptureIsAnInstant /\ RestoredTogether /\ NoWriteLost

----------------------------------------------------------------------------
(* The inductive invariant.                                                *)

Record == [revision : 0..MaxRevision, bytes : SUBSET (Facts \cup {Restored})]
Instants == [Journals -> SUBSET (Facts \cup {Restored})]
Task == [kind : {"idle", "capture", "captured", "restore"}, at : 0..(2 * Len(Order)), seen : Seq(Record)]

\* A task has read as many journals as it counted, until it checks them again.
Counted(c) ==
    /\ task[c].at <= Len(Order) => Len(task[c].seen) = task[c].at
    /\ task[c].at > Len(Order) => Len(task[c].seen) = Len(Order)
    /\ task[c].kind = "captured" => task[c].at = 2 * Len(Order)

\* A record that was read is not newer than the journal, and is the journal when
\* its revision is still the same.
ReadBefore(c) ==
    \A i \in 1..Len(task[c].seen) :
        LET seen == task[c].seen[i]
            now == disk[Order[i]]
        IN  seen.revision <= now.revision /\ (seen.revision = now.revision => seen = now)

\* When the last journal was read the first time there was an instant; whatever
\* is checked again, or could still be, is as it was at that instant.
ReadAtOnce(c) ==
    (task[c].kind \in {"capture", "captured"} /\ Len(task[c].seen) = Len(Order)) =>
        \E s \in instants : \A i \in 1..Len(Order) :
            \/ i <= task[c].at - Len(Order)
            \/ task[c].seen[i].revision = disk[Order[i]].revision
            => s[Order[i]] = task[c].seen[i].bytes

IInv ==
    /\ disk \in [Journals -> Record] /\ task \in [Tasks -> Task]
    /\ instants \subseteq Instants /\ Contents(disk) \in instants
    /\ written \subseteq Journals \X Facts
    /\ \A c \in Tasks : Counted(c) /\ ReadBefore(c) /\ ReadAtOnce(c)
    /\ RestoredTogether /\ NoWriteLost

\* What no write of a journal does: go back, or change it under its revision.
Forward(j) ==
    /\ disk[j].revision <= disk'[j].revision
    /\ disk[j].revision = disk'[j].revision => disk'[j] = disk[j]
    /\ disk[j].bytes \subseteq disk'[j].bytes

\* compareExchangeSnapshots moves every journal it writes forward.
LEMMA CommittedForward ==
    ASSUME BackupAssumption, IInv,
           NEW updates, DOMAIN updates \subseteq Journals, Committed(updates),
           \A j \in DOMAIN updates :
             disk[j].bytes \subseteq updates[j].bytes /\ updates[j].bytes \subseteq Facts \cup {Restored}
    PROVE  /\ disk' \in [Journals -> Record]
           /\ instants \subseteq instants' /\ instants' \subseteq Instants /\ Contents(disk') \in instants'
           /\ \A j \in Journals : Forward(j)
<1>1. disk \in [Journals -> Record]
  BY Zenon DEF IInv
<1>2. disk' = [j \in Journals |->
                IF j \in DOMAIN updates
                  THEN [revision |-> disk[j].revision + 1, bytes |-> updates[j].bytes] ELSE disk[j]]
  BY Zenon, <1>1 DEF Committed, Exchanged
<1>3. \A j \in DOMAIN updates : disk[j].revision < MaxRevision
  BY Zenon DEF Committed, CanExchange
<1>4. \A j \in Journals : disk'[j] \in Record /\ Forward(j)
  <2> SUFFICES ASSUME NEW j \in Journals PROVE disk'[j] \in Record /\ Forward(j)
    BY Zenon
  <2>1. disk[j] \in Record
    BY Zenon, <1>1
  <2>2. CASE j \in DOMAIN updates
    <3>1. disk'[j] = [revision |-> disk[j].revision + 1, bytes |-> updates[j].bytes]
      BY Zenon, <1>2, <2>2
    <3>2. disk[j].revision < MaxRevision
      BY Zenon, <1>3, <2>2
    <3>3. updates[j].bytes \subseteq Facts \cup {Restored} /\ disk[j].bytes \subseteq updates[j].bytes
      BY Zenon, <2>2
    <3> QED
      BY <2>1, <3>1, <3>2, <3>3 DEF Record, Forward, BackupAssumption
  <2>3. CASE j \notin DOMAIN updates
    BY <1>2, <2>1, <2>3 DEF Record, Forward, BackupAssumption
  <2> QED
    BY Zenon, <2>2, <2>3
<1>5. disk' \in [Journals -> Record]
  BY Zenon, <1>2, <1>4
<1>6. Contents(disk') \in Instants
  BY <1>5 DEF Contents, Instants, Record
<1> QED
  BY Zenon, <1>4, <1>5, <1>6 DEF Committed, IInv

\* A task that stands still keeps what it knows while journals move forward.
LEMMA StandsStill ==
    ASSUME BackupAssumption, IInv, NEW c \in Tasks, task'[c] = task[c],
           \A j \in Journals : Forward(j), disk' \in [Journals -> Record], instants \subseteq instants'
    PROVE  Counted(c)' /\ ReadBefore(c)' /\ ReadAtOnce(c)'
<1>1. Counted(c)'
  BY Zenon DEF IInv, Counted
<1>2. /\ task[c] \in Task /\ disk \in [Journals -> Record]
      /\ Counted(c) /\ ReadBefore(c) /\ ReadAtOnce(c)
  BY Zenon DEF IInv
<1>3. Len(task[c].seen) <= Len(Order) /\ Len(task[c].seen) \in Nat
  BY <1>2 DEF Counted, Task, BackupAssumption
<1>4. \A i \in 1..Len(Order) : Order[i] \in Journals
  BY DEF BackupAssumption
<1>5. \A i \in 1..Len(task[c].seen) :
        /\ task[c].seen[i] \in Record /\ Order[i] \in Journals
        /\ disk[Order[i]] \in Record /\ disk'[Order[i]] \in Record
  BY <1>2, <1>3, <1>4 DEF Task, BackupAssumption
<1>6. ReadBefore(c)'
  <2> SUFFICES ASSUME NEW i \in 1..Len(task[c].seen)
               PROVE  /\ task[c].seen[i].revision <= disk'[Order[i]].revision
                      /\ task[c].seen[i].revision = disk'[Order[i]].revision => task[c].seen[i] = disk'[Order[i]]
    BY Zenon DEF ReadBefore
  <2>1. /\ task[c].seen[i].revision <= disk[Order[i]].revision
        /\ task[c].seen[i].revision = disk[Order[i]].revision => task[c].seen[i] = disk[Order[i]]
    BY Zenon, <1>2 DEF ReadBefore
  <2> QED
    BY SMTT(40), <1>5, <2>1 DEF Forward, Record
<1>7. ReadAtOnce(c)'
  <2> SUFFICES ASSUME task[c].kind \in {"capture", "captured"}, Len(task[c].seen) = Len(Order)
               PROVE  \E s \in instants' : \A i \in 1..Len(Order) :
                        \/ i <= task[c].at - Len(Order)
                        \/ task[c].seen[i].revision = disk'[Order[i]].revision
                        => s[Order[i]] = task[c].seen[i].bytes
    BY Zenon DEF ReadAtOnce
  <2>1. PICK s \in instants : \A i \in 1..Len(Order) :
               \/ i <= task[c].at - Len(Order)
               \/ task[c].seen[i].revision = disk[Order[i]].revision
               => s[Order[i]] = task[c].seen[i].bytes
    BY Zenon, <1>2 DEF ReadAtOnce
  <2>2. ASSUME NEW i \in 1..Len(Order), task[c].seen[i].revision = disk'[Order[i]].revision
        PROVE  task[c].seen[i].revision = disk[Order[i]].revision
    <3>1. task[c].seen[i].revision <= disk[Order[i]].revision
      BY Zenon, <1>2 DEF ReadBefore
    <3> QED
      BY <1>5, <2>2, <3>1 DEF Forward, Record
  <2> QED
    BY Zenon, <2>1, <2>2
<1> QED
  BY Zenon, <1>1, <1>6, <1>7

\* A write that adds nothing but what tabs write, or the backup to all journals.
LEMMA CommittedTogether ==
    ASSUME BackupAssumption, IInv,
           NEW updates, DOMAIN updates \subseteq Journals, Committed(updates), task' \in [Tasks -> Task],
           \A j \in DOMAIN updates :
             disk[j].bytes \subseteq updates[j].bytes /\ updates[j].bytes \subseteq Facts \cup {Restored},
           \A c \in Tasks : task'[c] = task[c] \/ task'[c] = Idle,
           \/ \A j \in DOMAIN updates : Restored \in updates[j].bytes => Restored \in disk[j].bytes
           \/ DOMAIN updates = Journals /\ \A j \in Journals : Restored \in updates[j].bytes,
           written' \subseteq Journals \X Facts,
           \A w \in written' : w \in written \/ w[2] \in disk'[w[1]].bytes
    PROVE  IInv'
<1>1. /\ disk' \in [Journals -> Record]
      /\ instants \subseteq instants' /\ instants' \subseteq Instants /\ Contents(disk') \in instants'
      /\ \A j \in Journals : Forward(j)
  BY Zenon, CommittedForward
<1>2. \A c \in Tasks : Counted(c)' /\ ReadBefore(c)' /\ ReadAtOnce(c)'
  <2> SUFFICES ASSUME NEW c \in Tasks PROVE Counted(c)' /\ ReadBefore(c)' /\ ReadAtOnce(c)'
    BY Zenon
  <2>1. CASE task'[c] = task[c]
    BY Zenon, <1>1, <2>1, StandsStill
  <2>2. CASE task'[c] = Idle
    BY <2>2 DEF Idle, Counted, ReadBefore, ReadAtOnce, BackupAssumption
  <2> QED
    BY Zenon, <2>1, <2>2
<1>3. \A j \in Journals : disk'[j].bytes = IF j \in DOMAIN updates THEN updates[j].bytes ELSE disk[j].bytes
  BY DEF Committed, Exchanged, IInv
<1>4. RestoredTogether'
  BY ZenonT(60), <1>3 DEF RestoredTogether, IInv
<1>5. NoWriteLost'
  <2> SUFFICES ASSUME NEW w \in written' PROVE w[2] \in disk'[w[1]].bytes
    BY Zenon DEF NoWriteLost
  <2>1. CASE w \in written
    <3>1. w[1] \in Journals /\ w[2] \in disk[w[1]].bytes
      BY Zenon, <2>1 DEF IInv, NoWriteLost
    <3> QED
      BY Zenon, <1>1, <3>1 DEF Forward
  <2> QED
    BY Zenon, <2>1
<1> QED
  BY Zenon, <1>1, <1>2, <1>4, <1>5 DEF IInv

\* A tab reads and writes in one transaction.
LEMMA TabWriteStep ==
    ASSUME BackupAssumption, IInv, NEW js \in SUBSET Journals, NEW fact \in Facts, TabWrite(js, fact)
    PROVE  IInv'
<1> DEFINE updates == [j \in js |-> [expected |-> disk[j].revision, bytes |-> disk[j].bytes \cup {fact}]]
<1>1. DOMAIN updates = js /\ \A j \in js : updates[j].bytes = disk[j].bytes \cup {fact}
  BY Zenon
<1>2. Committed(updates) /\ written' = written \cup {<<j, fact>> : j \in js} /\ task' = task
  BY Zenon DEF TabWrite
<1> HIDE DEF updates
<1>3. \A j \in js : disk[j].bytes \subseteq Facts \cup {Restored}
  BY DEF IInv, Record
<1>4. \A j \in js : disk'[j].bytes = updates[j].bytes
  BY <1>1, <1>2 DEF Committed, Exchanged, IInv
<1>5. fact # Restored
  BY Zenon DEF BackupAssumption
<1>6. written' \subseteq Journals \X Facts
  BY <1>2 DEF IInv
<1>7. \A w \in written' : w \in written \/ w[2] \in disk'[w[1]].bytes
  BY <1>1, <1>2, <1>4
<1>8. task' \in [Tasks -> Task] /\ \A c \in Tasks : task'[c] = task[c]
  BY Zenon, <1>2 DEF IInv
<1>9. \A j \in js : Restored \in updates[j].bytes => Restored \in disk[j].bytes
  BY <1>1, <1>5
<1>10. \A j \in js : /\ disk[j].bytes \subseteq updates[j].bytes
                     /\ updates[j].bytes \subseteq Facts \cup {Restored}
  BY <1>1, <1>3
<1> QED
  BY Zenon, <1>1, <1>2, <1>6, <1>7, <1>8, <1>9, <1>10, CommittedTogether

\* A restore writes what it read, with the backup, while every journal still has
\* the revision it was read at.
LEMMA RestoreStep ==
    ASSUME BackupAssumption, IInv, NEW c \in Tasks, Restore(c) PROVE IInv'
<1> DEFINE index(j) == CHOOSE i \in DOMAIN Order : Order[i] = j
           updates == [j \in Journals |->
                         [expected |-> task[c].seen[index(j)].revision,
                          bytes |-> task[c].seen[index(j)].bytes \cup {Restored}]]
<1>1. /\ DOMAIN updates = Journals
      /\ \A j \in Journals : /\ updates[j].bytes = task[c].seen[index(j)].bytes \cup {Restored}
                             /\ updates[j].expected = task[c].seen[index(j)].revision
  BY Zenon
<1>2. /\ Committed(updates) /\ written' = written /\ task' = [task EXCEPT ![c] = Idle]
      /\ Len(task[c].seen) = Len(Order)
  BY Zenon DEF Restore
<1> HIDE DEF updates
<1>3. \A j \in Journals : index(j) \in 1..Len(Order) /\ Order[index(j)] = j
  BY DEF Journals, BackupAssumption
<1>4. \A j \in Journals : task[c].seen[index(j)] = disk[j]
  <2> SUFFICES ASSUME NEW j \in Journals PROVE task[c].seen[index(j)] = disk[j]
    BY Zenon
  <2>1. disk[j].revision = task[c].seen[index(j)].revision
    BY Zenon, <1>1, <1>2 DEF Committed, CanExchange
  <2>2. index(j) \in 1..Len(task[c].seen) /\ Order[index(j)] = j
    BY Zenon, <1>2, <1>3
  <2> HIDE DEF index
  <2>3. task[c].seen[index(j)].revision = disk[Order[index(j)]].revision
           => task[c].seen[index(j)] = disk[Order[index(j)]]
    BY Zenon, <2>2 DEF IInv, ReadBefore
  <2> QED
    BY Zenon, <2>1, <2>2, <2>3
<1>5. \A j \in Journals : disk[j].bytes \subseteq Facts \cup {Restored}
  BY DEF IInv, Record
<1>6. Idle \in Task
  BY DEF Idle, Task, BackupAssumption
<1>7. task' \in [Tasks -> Task] /\ \A d \in Tasks : task'[d] = task[d] \/ task'[d] = Idle
  BY Zenon, <1>2, <1>6 DEF IInv
<1> HIDE DEF index
<1>8. written' \subseteq Journals \X Facts
  BY Zenon, <1>2 DEF IInv
<1>9. \A j \in Journals : /\ disk[j].bytes \subseteq updates[j].bytes /\ Restored \in updates[j].bytes
                          /\ updates[j].bytes \subseteq Facts \cup {Restored}
  BY ZenonT(60), <1>1, <1>4, <1>5
<1> QED
  BY Zenon, <1>1, <1>2, <1>7, <1>8, <1>9, CommittedTogether

\* A step of one task that writes nothing: the others stand still.
LEMMA TaskStep ==
    ASSUME BackupAssumption, IInv, NEW c \in Tasks, NEW next \in Task,
           task' = [task EXCEPT ![c] = next], UNCHANGED <<disk, written, instants>>,
           Counted(c)', ReadBefore(c)', ReadAtOnce(c)'
    PROVE  IInv'
<1>1. \A j \in Journals : Forward(j)
  BY DEF Forward, IInv, Record
<1>2. disk' \in [Journals -> Record] /\ instants \subseteq instants'
  BY Zenon DEF IInv
<1>3. \A d \in Tasks : Counted(d)' /\ ReadBefore(d)' /\ ReadAtOnce(d)'
  <2> SUFFICES ASSUME NEW d \in Tasks, d # c PROVE Counted(d)' /\ ReadBefore(d)' /\ ReadAtOnce(d)'
    BY Zenon
  <2>1. task'[d] = task[d]
    BY Zenon DEF IInv
  <2> QED
    BY Zenon, <1>1, <1>2, <2>1, StandsStill
<1>4. task' \in [Tasks -> Task]
  BY Zenon DEF IInv
<1>5. RestoredTogether' /\ NoWriteLost' /\ Contents(disk)' \in instants'
  BY Zenon DEF IInv, RestoredTogether, NoWriteLost, Contents
<1> QED
  BY Zenon, <1>2, <1>3, <1>4, <1>5 DEF IInv

LEMMA AppendKeeps ==
    ASSUME NEW S, NEW s \in Seq(S), NEW e \in S
    PROVE  /\ Append(s, e) \in Seq(S) /\ Len(Append(s, e)) = Len(s) + 1
           /\ Append(s, e)[Len(s) + 1] = e /\ \A i \in 1..Len(s) : Append(s, e)[i] = s[i]
  OBVIOUS

\* A record is read as it is now; with the last one, the instant is now.
LEMMA ReadJournalStep ==
    ASSUME BackupAssumption, IInv, NEW c \in Tasks, ReadJournal(c) PROVE IInv'
<1> DEFINE old == task[c]
           record == disk[Order[old.at + 1]]
           next == [old EXCEPT !.at = @ + 1, !.seen = Append(@, record)]
<1>1. /\ old \in Task /\ Counted(c) /\ ReadBefore(c) /\ Len(old.seen) < Len(Order)
      /\ old.kind \in {"capture", "restore"}
      /\ disk \in [Journals -> Record]
  BY Zenon DEF ReadJournal, IInv
<1>2. Len(Order) \in Nat /\ \A i \in 1..Len(Order) : Order[i] \in Journals
  BY DEF BackupAssumption
<1>3. old.at < Len(Order) /\ Len(old.seen) = old.at /\ old.at \in Nat
  BY <1>1, <1>2 DEF Counted, Task
<1>4. record \in Record
  BY <1>1, <1>2, <1>3
<1>5. task' = [task EXCEPT ![c] = next] /\ UNCHANGED <<disk, written, instants>>
  BY DEF ReadJournal, IInv, Task
<1>6. /\ next \in Task /\ next.kind = old.kind /\ next.at = old.at + 1
      /\ next.seen = Append(old.seen, record)
  <2>1. Append(old.seen, record) \in Seq(Record)
    BY <1>1, <1>4, AppendKeeps DEF Task
  <2>2. old.at + 1 \in 0..(2 * Len(Order))
    BY <1>2, <1>3
  <2> HIDE DEF record
  <2> QED
    BY Zenon, <1>1, <2>1, <2>2 DEF Task
<1>7. task'[c] = next
  BY Zenon, <1>5 DEF IInv
<1>8. /\ Len(next.seen) = old.at + 1 /\ next.seen[old.at + 1] = record
      /\ \A i \in 1..old.at : next.seen[i] = old.seen[i]
  <2>1. old.seen \in Seq(Record)
    BY <1>1 DEF Task
  <2> HIDE DEF record, old, next
  <2>2. /\ Len(Append(old.seen, record)) = Len(old.seen) + 1
        /\ Append(old.seen, record)[Len(old.seen) + 1] = record
        /\ \A i \in 1..Len(old.seen) : Append(old.seen, record)[i] = old.seen[i]
    BY SMT, <1>4, <2>1, AppendKeeps
  <2> QED
    BY SMTT(30), <1>3, <1>6, <2>2
<1> HIDE DEF next
<1>9. Counted(c)'
  BY SMTT(40), <1>1, <1>2, <1>3, <1>6, <1>7, <1>8 DEF Counted
<1>10. ReadBefore(c)'
  <2> SUFFICES ASSUME NEW i \in 1..(old.at + 1)
               PROVE  /\ next.seen[i].revision <= disk[Order[i]].revision
                      /\ next.seen[i].revision = disk[Order[i]].revision => next.seen[i] = disk[Order[i]]
    BY <1>5, <1>7, <1>8 DEF ReadBefore
  <2>1. CASE i = old.at + 1
    BY SMTT(40), <1>4, <1>8, <2>1 DEF Record
  <2>2. CASE i \in 1..old.at
    BY Zenon, <1>1, <1>3, <1>8, <2>2 DEF ReadBefore
  <2> QED
    BY SMTT(40), <1>3, <2>1, <2>2
<1>11. ReadAtOnce(c)'
  <2> SUFFICES ASSUME Len(next.seen) = Len(Order)
               PROVE  \E s \in instants : \A i \in 1..Len(Order) :
                        \/ i <= next.at - Len(Order)
                        \/ next.seen[i].revision = disk[Order[i]].revision
                        => s[Order[i]] = next.seen[i].bytes
    BY ZenonT(60), <1>5, <1>7 DEF ReadAtOnce
  <2>1. Contents(disk) \in instants
    BY Zenon DEF IInv
  <2>2. ASSUME NEW i \in 1..Len(Order),
               \/ i <= next.at - Len(Order)
               \/ next.seen[i].revision = disk[Order[i]].revision
        PROVE  Contents(disk)[Order[i]] = next.seen[i].bytes
    <3>1. next.seen[i].revision = disk[Order[i]].revision
      <4>1. next.at = Len(Order)
        BY Zenon, <1>6, <1>8
      <4>2. ~ (i <= next.at - Len(Order))
        BY <1>2, <4>1
      <4> QED
        BY Zenon, <2>2, <4>2
    <3>2. next.seen[i] = disk[Order[i]]
      BY Zenon, <1>5, <1>7, <1>10, <3>1 DEF ReadBefore
    <3> QED
      BY Zenon, <1>2, <3>2 DEF Contents
  <2> QED
    BY Zenon, <2>1, <2>2
<1> QED
  BY Zenon, <1>5, <1>6, <1>9, <1>10, <1>11, TaskStep

\* A journal that passes its check was not written since it was read.
LEMMA CheckAgainStep ==
    ASSUME BackupAssumption, IInv, NEW c \in Tasks, CheckAgain(c) PROVE IInv'
<1> DEFINE old == task[c]
           next == [old EXCEPT !.at = @ + 1]
           checked == old.at - Len(Order) + 1
<1>1. /\ old \in Task /\ Counted(c) /\ ReadBefore(c) /\ ReadAtOnce(c)
      /\ old.kind = "capture" /\ Len(old.seen) = Len(Order) /\ old.at < 2 * Len(Order)
      /\ disk[Order[checked]].revision = old.seen[checked].revision
  BY Zenon DEF CheckAgain, IInv
<1>2. Len(Order) \in Nat
  BY DEF BackupAssumption
<1>3. old.at >= Len(Order) /\ old.at \in Nat
  BY <1>1, <1>2 DEF Counted, Task
<1>4. task' = [task EXCEPT ![c] = next] /\ UNCHANGED <<disk, written, instants>>
  BY DEF CheckAgain, IInv, Task
<1>5. next \in Task /\ next.kind = old.kind /\ next.at = old.at + 1 /\ next.seen = old.seen
  BY SMTT(40), <1>1, <1>2, <1>3 DEF Task
<1>6. task'[c] = next
  BY Zenon, <1>4 DEF IInv
<1> HIDE DEF next
<1>7. Counted(c)'
  BY SMTT(40), <1>1, <1>2, <1>3, <1>5, <1>6 DEF Counted
<1>8. ReadBefore(c)'
  BY <1>1, <1>4, <1>5, <1>6 DEF ReadBefore
<1>9. ReadAtOnce(c)'
  <2>1. PICK s \in instants : \A i \in 1..Len(Order) :
               \/ i <= old.at - Len(Order)
               \/ old.seen[i].revision = disk[Order[i]].revision
               => s[Order[i]] = old.seen[i].bytes
    BY Zenon, <1>1 DEF ReadAtOnce
  <2>2. ASSUME NEW i \in 1..Len(Order),
               \/ i <= next.at - Len(Order)
               \/ next.seen[i].revision = disk[Order[i]].revision
        PROVE  s[Order[i]] = next.seen[i].bytes
    <3>1. CASE i = checked
      BY Zenon, <1>1, <1>5, <2>1, <3>1
    <3>2. CASE i # checked
      BY SMTT(40), <1>2, <1>3, <1>5, <2>1, <2>2, <3>2
    <3> QED
      BY Zenon, <3>1, <3>2
  <2> QED
    BY ZenonT(60), <1>4, <1>6, <2>1, <2>2 DEF ReadAtOnce
<1> QED
  BY Zenon, <1>4, <1>5, <1>7, <1>8, <1>9, TaskStep

LEMMA InitIInv == ASSUME BackupAssumption, MaxRevision > 0, Init PROVE IInv
<1> USE DEF BackupAssumption
<1>1. disk \in [Journals -> Record]
  BY DEF Init, Record
<1>2. Idle \in Task
  BY DEF Idle, Task
<1>3. task \in [Tasks -> Task] /\ \A c \in Tasks : task[c] = Idle
  BY Zenon, <1>2 DEF Init
<1>4. Contents(disk) = [j \in Journals |-> {}]
  BY DEF Init, Contents
<1>5. instants \subseteq Instants
  BY DEF Init, Instants
<1>6. \A c \in Tasks : Counted(c) /\ ReadBefore(c) /\ ReadAtOnce(c)
  BY <1>3 DEF Counted, ReadBefore, ReadAtOnce, Idle
<1>7. RestoredTogether /\ NoWriteLost /\ written \subseteq Journals \X Facts
  BY DEF Init, RestoredTogether, NoWriteLost
<1>8. Contents(disk) \in instants
  BY Zenon, <1>4 DEF Init
<1> QED
  BY Zenon, <1>1, <1>3, <1>5, <1>6, <1>7, <1>8 DEF IInv

LEMMA StepIInv == ASSUME BackupAssumption, IInv, [Next]_vars PROVE IInv'
<1>1. ASSUME NEW c \in Tasks, NEW kind \in {"capture", "restore"}, Start(c, kind) PROVE IInv'
  <2> DEFINE next == [kind |-> kind, at |-> 0, seen |-> <<>>]
  <2>1. next \in Task
    BY DEF Task, BackupAssumption
  <2>2. task' = [task EXCEPT ![c] = next] /\ task'[c] = next /\ UNCHANGED <<disk, written, instants>>
    BY Zenon, <1>1 DEF Start, IInv
  <2>3. Counted(c)' /\ ReadBefore(c)'
    BY <2>2 DEF Counted, ReadBefore, BackupAssumption
  <2>4. ReadAtOnce(c)'
    BY <2>2 DEF ReadAtOnce, IInv, BackupAssumption
  <2> QED
    BY Zenon, <2>1, <2>2, <2>3, <2>4, TaskStep
<1>2. ASSUME NEW c \in Tasks, Captured(c) PROVE IInv'
  <2> DEFINE next == [task[c] EXCEPT !.kind = "captured"]
  <2>1. /\ task[c] \in Task /\ Counted(c) /\ ReadBefore(c) /\ ReadAtOnce(c)
        /\ task[c].kind = "capture" /\ task[c].at = 2 * Len(Order)
    BY Zenon, <1>2 DEF Captured, IInv
  <2>2. next \in Task /\ next.kind = "captured" /\ next.at = task[c].at /\ next.seen = task[c].seen
    BY <2>1 DEF Task
  <2>3. task' = [task EXCEPT ![c] = next] /\ task'[c] = next /\ UNCHANGED <<disk, written, instants>>
    BY <1>2 DEF Captured, IInv
  <2> HIDE DEF next
  <2>4. Counted(c)'
    BY <2>1, <2>2, <2>3 DEF Counted
  <2>5. ReadBefore(c)'
    BY <2>1, <2>2, <2>3 DEF ReadBefore
  <2>6. ReadAtOnce(c)'
    BY <2>1, <2>2, <2>3 DEF ReadAtOnce
  <2> QED
    BY Zenon, <2>2, <2>3, <2>4, <2>5, <2>6, TaskStep
<1>3. ASSUME NEW c \in Tasks, Stop(c) PROVE IInv'
  <2>1. Idle \in Task
    BY DEF Idle, Task, BackupAssumption
  <2>2. task' = [task EXCEPT ![c] = Idle] /\ task'[c] = Idle /\ UNCHANGED <<disk, written, instants>>
    BY Zenon, <1>3 DEF Stop, IInv
  <2>3. Counted(c)' /\ ReadBefore(c)' /\ ReadAtOnce(c)'
    BY <2>2 DEF Counted, ReadBefore, ReadAtOnce, Idle, BackupAssumption
  <2> QED
    BY Zenon, <2>1, <2>2, <2>3, TaskStep
<1>4. CASE UNCHANGED vars
  <2>1. \A c \in Tasks : Counted(c)' /\ ReadBefore(c)' /\ ReadAtOnce(c)'
    BY ZenonT(60), <1>4 DEF vars, IInv, Counted, ReadBefore, ReadAtOnce
  <2> QED
    BY Zenon, <1>4, <2>1 DEF vars, IInv, RestoredTogether, NoWriteLost, Contents
<1> QED
  BY Zenon, <1>1, <1>2, <1>3, <1>4, TabWriteStep, ReadJournalStep, CheckAgainStep, RestoreStep DEF Next

\* A capture that compared every revision after its last read is the profile at
\* one instant, a restore is all or nothing, and no write is lost, for any
\* journals, tabs, captures and restores.
THEOREM JournalsSafety ==
    ASSUME BackupAssumption, MaxRevision > 0
    PROVE  Spec => []JournalsTogether
<1>1. IInv => JournalsTogether
  <2> SUFFICES ASSUME IInv PROVE JournalsTogether
    BY Zenon
  <2>1. TypeOK
    <3>1. \A c \in Tasks : task[c].kind \in {"idle", "capture", "captured", "restore"} /\ task[c].at \in 0..(2 * Len(Order))
      BY DEF IInv, Task
    <3>2. \A c \in Tasks : Len(task[c].seen) <= Len(Order)
      BY <3>1 DEF IInv, Counted, BackupAssumption
    <3>3. \A j \in Journals : disk[j].revision \in 0..MaxRevision /\ disk[j].bytes \subseteq Facts \cup {Restored}
      BY DEF IInv, Record
    <3> QED
      BY Zenon, <3>1, <3>2, <3>3 DEF TypeOK
  <2>2. CaptureIsAnInstant
    <3> SUFFICES ASSUME NEW c \in Tasks, task[c].kind = "captured"
                 PROVE  [j \in Journals |-> task[c].seen[CHOOSE i \in DOMAIN Order : Order[i] = j].bytes] \in instants
      BY Zenon DEF CaptureIsAnInstant
    <3>1. task[c].at = 2 * Len(Order) /\ Len(task[c].seen) = Len(Order) /\ Len(Order) \in Nat
      BY DEF IInv, Counted, BackupAssumption
    <3>2. PICK s \in instants : \A i \in 1..Len(Order) :
                 \/ i <= task[c].at - Len(Order)
                 \/ task[c].seen[i].revision = disk[Order[i]].revision
                 => s[Order[i]] = task[c].seen[i].bytes
      BY Zenon, <3>1 DEF IInv, ReadAtOnce
    <3>3. \A i \in 1..Len(Order) : s[Order[i]] = task[c].seen[i].bytes
      BY <3>1, <3>2
    <3>4. \A j \in Journals : LET k == CHOOSE i \in DOMAIN Order : Order[i] = j IN
                              k \in 1..Len(Order) /\ Order[k] = j
      BY DEF Journals, BackupAssumption
    <3>5. s = [j \in Journals |-> s[j]]
      BY Zenon DEF IInv, Instants
    <3>6. ASSUME NEW j \in Journals
          PROVE  s[j] = task[c].seen[CHOOSE i \in DOMAIN Order : Order[i] = j].bytes
      <4> DEFINE k == CHOOSE i \in DOMAIN Order : Order[i] = j
      <4>1. k \in 1..Len(Order) /\ Order[k] = j
        BY Zenon, <3>4
      <4> HIDE DEF k
      <4>2. s[j] = task[c].seen[k].bytes
        BY Zenon, <3>3, <4>1
      <4> QED
        BY Zenon, <4>2 DEF k
    <3> QED
      BY SMT, <3>5, <3>6
  <2> QED
    BY Zenon, <2>1, <2>2 DEF JournalsTogether, IInv
<1> QED
  BY <1>1, InitIInv, StepIInv, PTL DEF Spec
=============================================================================
