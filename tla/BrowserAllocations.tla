------------------------- MODULE BrowserAllocations -------------------------
(***************************************************************************)
(* BrowserAddressBook and BrowserPaymentBook of quai-sdk: tabs that share  *)
(* one allocation journal.  A request is reserved in one write, its range  *)
(* is searched while other tabs go on, and the result is written against a *)
(* fresh snapshot.  Backups of other devices are merged meanwhile.         *)
(*                                                                         *)
(* The journals are those of quai-wallet: AddressAllocationBook            *)
(* (allocation.rs), with a receive and a change branch, and                *)
(* PaymentAllocationBook (payment_allocation.rs), the same for the one     *)
(* branch of a payment channel.  A request burns a range of child indexes, *)
(* searches it outside the journal and is completed with one of them or    *)
(* abandoned.  A method answers with the changed book or with Refused.     *)
(***************************************************************************)
EXTENDS SnapshotStore

CONSTANTS
    Ids,             \* AddressAllocationIds, PaymentAllocationIds
    Branches,
    Zoned,           \* child indexes whose address is of the scope's zone
    MaxIndex,        \* 2^31
    MaxAttempts,     \* 100,000
    MaxAllocations,  \* MAX_ADDRESS_ALLOCATIONS, MAX_PAYMENT_ALLOCATIONS
    None, Refused,
    Tabs,
    Files,     \* backups: a cursor and the addresses recorded, per branch
    Journal    \* the one record of the store

AllocationAssumption ==
    /\ MaxIndex \in Nat /\ MaxAttempts \in Nat /\ MaxAllocations \in Nat
    /\ Zoned \subseteq 0..(MaxIndex - 1)

Allocation ==
    [branch : Branches, start : 0..MaxIndex, end : 0..MaxIndex,
     status : {"pending", "completed", "abandoned"}, index : (0..MaxIndex) \cup {None}]

IsBook(b) ==
    /\ b.sealed \in BOOLEAN
    /\ b.floor \in [Branches -> 0..MaxIndex] /\ b.next \in [Branches -> 0..MaxIndex]
    /\ \A id \in Ids : b.allocations[id] = None \/ b.allocations[id] \in Allocation

New(first) ==
    IF \E branch \in Branches : first[branch] > MaxIndex THEN Refused
    ELSE [sealed |-> FALSE, floor |-> first, next |-> first, allocations |-> [id \in Ids |-> None]]

Used(b) == {id \in Ids : b.allocations[id] # None}
In(b, id, status) == b.allocations[id] # None /\ b.allocations[id].status = status
Higher(i, j) == IF i > j THEN i ELSE j

----------------------------------------------------------------------------

\* The range is cut at the end of the derivation space.
Reserve(b, id, branch, attempts) ==
    LET start == b.next[branch]
        end == IF start + attempts > MaxIndex THEN MaxIndex ELSE start + attempts
    IN  IF \/ b.allocations[id] # None \/ Cardinality(Used(b)) >= MaxAllocations
           \/ attempts \notin 1..MaxAttempts \/ start >= MaxIndex
        THEN Refused
        ELSE [b EXCEPT !.next[branch] = end,
                       !.allocations[id] = [branch |-> branch, start |-> start, end |-> end,
                                            status |-> "pending", index |-> None]]

\* Completing twice with one index changes nothing.
Complete(b, id, index) ==
    LET a == b.allocations[id] IN
    IF a = None THEN Refused
    ELSE IF a.status = "completed" THEN IF a.index = index THEN b ELSE Refused
    ELSE IF \/ a.status # "pending" \/ index < a.start \/ index >= a.end \/ index \notin Zoned
            \/ \E other \in Used(b) : b.allocations[other].branch = a.branch /\ b.allocations[other].index = index
    THEN Refused
    ELSE [b EXCEPT !.allocations[id].status = "completed", !.allocations[id].index = index]

AbandonRequest(b, id) ==
    IF In(b, id, "pending") THEN [b EXCEPT !.allocations[id].status = "abandoned"] ELSE Refused

\* from_backup: above the backup's cursor and above every address it records.
FloorOf(backup) ==
    [branch \in Branches |->
        LET above == {backup.cursor[branch]} \cup {i + 1 : i \in backup.addresses[branch]}
        IN  CHOOSE f \in above : \A g \in above : g <= f]

FromBackup(backup) == New(FloorOf(backup))

\* merge_backup: open requests are abandoned, for their ranges may hold indexes the
\* backup's device used; what was allocated so far becomes sealed history.
MergeBackup(b, backup) ==
    LET next == [branch \in Branches |-> Higher(b.next[branch], FromBackup(backup).next[branch])]
    IN  [sealed |-> TRUE, floor |-> next, next |-> next,
         allocations |-> [id \in Ids |-> IF In(b, id, "pending")
                                         THEN [b.allocations[id] EXCEPT !.status = "abandoned"]
                                         ELSE b.allocations[id]]]

----------------------------------------------------------------------------
\* from_state: ranges are disjoint, and those that do not belong to the sealed
\* history follow one another from the floor to the cursor.
ValidBranch(b, branch) ==
    LET mine == {b.allocations[id] : id \in {x \in Used(b) : b.allocations[x].branch = branch}}
        live == {a \in mine : ~(b.sealed /\ a.end <= b.floor[branch])}
    IN  /\ \A x, y \in Used(b) :
             (x # y /\ b.allocations[x].branch = branch /\ b.allocations[y].branch = branch)
                 => b.allocations[x].end <= b.allocations[y].start \/ b.allocations[y].end <= b.allocations[x].start
        /\ \A a \in mine \ live : a.status # "pending"
        /\ \A a \in live : a.start = b.floor[branch] \/ \E x \in live : x.end = a.start
        /\ b.next[branch] = b.floor[branch] \/ \E a \in live : a.end = b.next[branch]
        /\ \A a \in live : a.start >= b.floor[branch] /\ a.end <= b.next[branch]

ValidAllocation(a) ==
    /\ a.start < a.end /\ a.end <= MaxIndex /\ a.end - a.start <= MaxAttempts
    /\ a.status = "completed" => a.index \in Zoned /\ a.start <= a.index /\ a.index < a.end

\* export_state and from_state.
Reload(b) ==
    IF /\ Cardinality(Used(b)) <= MaxAllocations
       /\ \A branch \in Branches : b.floor[branch] <= MaxIndex /\ ValidBranch(b, branch)
       /\ \A id \in Used(b) : ValidAllocation(b.allocations[id])
    THEN b ELSE Refused

----------------------------------------------------------------------------
VARIABLES
    disk,      \* the IndexedDB record
    task,      \* task[t]: the call in progress in a tab
    foreign,   \* history: <<branch, index>> of the addresses merged backups record
    returned   \* history: <<id, branch, index>> of the addresses handed out

vars == <<disk, task, foreign, returned>>

Idle == [at |-> "idle"]
Book == disk[Journal].bytes

TypeOK ==
    /\ disk[Journal].revision \in 0..MaxRevision
    /\ IF disk[Journal].revision = 0 THEN Book = None ELSE IsBook(Book)
    /\ \A t \in Tabs :
         \/ task[t] = Idle
         \/ task[t].at = "search" /\ task[t].id \in Ids /\ task[t].index \in Zoned
         \/ /\ task[t].at = "write" /\ task[t].expected \in 0..MaxRevision
            /\ IsBook(task[t].bytes) /\ task[t].id \in Ids \cup {None}
    /\ foreign \subseteq Branches \X (0..MaxIndex)
    /\ returned \subseteq Ids \X Branches \X (0..MaxIndex)

Init ==
    /\ disk = [s \in {Journal} |-> Absent(None)]
    /\ task = [t \in Tabs |-> Idle]
    /\ foreign = {} /\ returned = {}

----------------------------------------------------------------------------
\* snapshot: the journal exists and can be read back.
Readable == Book # None /\ Reload(Book) # Refused

\* Start the write of a changed snapshot; id is the request whose address the call
\* returns once it is written.
Write(t, bytes, id) ==
    /\ bytes # Refused
    /\ task' = [task EXCEPT ![t] = [at |-> "write", expected |-> disk[Journal].revision,
                                    bytes |-> bytes, id |-> id]]
    /\ UNCHANGED <<disk, foreign, returned>>

Initialize(t, first) == task[t] = Idle /\ Book = None /\ Write(t, New(first), None)
InitializeFromBackup(t, file) == task[t] = Idle /\ Book = None /\ Write(t, FromBackup(file), None)
ReserveRequest(t, id, branch, attempts) ==
    task[t] = Idle /\ Readable /\ Write(t, Reserve(Book, id, branch, attempts), None)
Abandon(t, id) == task[t] = Idle /\ Readable /\ Write(t, AbandonRequest(Book, id), None)

Handed(id, b) == <<id, b.allocations[id].branch, b.allocations[id].index>>

\* resume: a completed request answers at once, a pending one is searched for the
\* first index of the zone.
Resume(t, id) ==
    /\ task[t] = Idle /\ Readable
    /\ \/ /\ In(Book, id, "completed")
          /\ returned' = returned \cup {Handed(id, Book)}
          /\ UNCHANGED task
       \/ /\ In(Book, id, "pending")
          /\ \E index \in Zoned :
               /\ Book.allocations[id].start <= index /\ index < Book.allocations[id].end
               /\ \A i \in Zoned : Book.allocations[id].start <= i => index <= i
               /\ task' = [task EXCEPT ![t] = [at |-> "search", id |-> id, index |-> index]]
          /\ UNCHANGED returned
    /\ UNCHANGED <<disk, foreign>>

\* complete reads the journal again: what the search found is not trusted alone.
CompleteFound(t) ==
    /\ task[t].at = "search" /\ Readable
    /\ IF In(Book, task[t].id, "completed") /\ Complete(Book, task[t].id, task[t].index) # Refused
       THEN /\ returned' = returned \cup {Handed(task[t].id, Book)}
            /\ task' = [task EXCEPT ![t] = Idle]
            /\ UNCHANGED <<disk, foreign>>
       ELSE Write(t, Complete(Book, task[t].id, task[t].index), task[t].id)

\* compare_exchange.
Finish(t) ==
    LET update == Update(Journal, task[t].expected, task[t].bytes)
        done == CanExchange(disk, update)
    IN  /\ task[t].at = "write"
        /\ disk' = IF done THEN Exchanged(disk, update) ELSE disk
        /\ returned' = IF done /\ task[t].id # None
                         THEN returned \cup {Handed(task[t].id, task[t].bytes)} ELSE returned
        /\ task' = [task EXCEPT ![t] = Idle]
        /\ UNCHANGED foreign

\* merge_backup; a write of another tab between its read and its own fails it.
Merge(t, file) ==
    LET update == Update(Journal, disk[Journal].revision, MergeBackup(Book, file)) IN
    /\ task[t] = Idle /\ Readable
    /\ CanExchange(disk, update) /\ disk' = Exchanged(disk, update)
    /\ foreign' = foreign \cup {x \in Branches \X Zoned : x[2] \in file.addresses[x[1]]}
    /\ UNCHANGED <<task, returned>>

\* The search is cancelled or finds nothing, the tab is closed, or the answer to a
\* write that took effect never arrives.
Stop(t) ==
    /\ task[t] # Idle
    /\ task' = [task EXCEPT ![t] = Idle]
    /\ \/ UNCHANGED disk
       \/ /\ task[t].at = "write"
          /\ LET update == Update(Journal, task[t].expected, task[t].bytes) IN
               CanExchange(disk, update) /\ disk' = Exchanged(disk, update)
    /\ UNCHANGED <<foreign, returned>>

Next ==
    \E t \in Tabs :
        \/ Initialize(t, [branch \in Branches |-> 0])
        \/ \E file \in Files : InitializeFromBackup(t, file) \/ Merge(t, file)
        \/ \E id \in Ids :
             \/ \E branch \in Branches, attempts \in 1..MaxAttempts : ReserveRequest(t, id, branch, attempts)
             \/ Resume(t, id) \/ Abandon(t, id)
        \/ CompleteFound(t) \/ Finish(t) \/ Stop(t)

Spec == Init /\ [][Next]_vars

----------------------------------------------------------------------------
\* Whatever the tabs write, from_state reads back.
ReloadAccepts == Book # None => Reload(Book) # Refused

\* No address is handed out for two requests, and one that was handed out is in
\* the journal as that request's, so that no later request can burn it again.
HandedOutOnce ==
    /\ \A x, y \in returned : (x[2] = y[2] /\ x[3] = y[3]) => x[1] = y[1]
    /\ \A x \in returned : Book # None /\ In(Book, x[1], "completed") /\ Handed(x[1], Book) = x

\* A search that was under way when a backup was merged exposes no address of the
\* device the backup comes from.
FreshWhenCompleted ==
    \A id \in Ids :
      (Book # None /\ In(Book, id, "pending") /\ In(Book', id, "completed"))
          => <<Book'.allocations[id].branch, Book'.allocations[id].index>> \notin foreign
=============================================================================
