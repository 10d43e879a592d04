------------------------- MODULE AddressAllocation --------------------------
(***************************************************************************)
(* HD address allocation on one branch of one account: the derivation      *)
(* cursor of quai-wallet's SqliteStore (storage.rs).                       *)
(*                                                                         *)
(* allocate_address burns a range of child indexes in one transaction,     *)
(* searches it for an address of the scope's zone without the write lock,  *)
(* and records the address in a second transaction that also gives the     *)
(* unexamined tail back; the process may die in between.                   *)
(* allocate_address_compact does it all under the lock.  Imports and       *)
(* discovery record addresses meanwhile.                                   *)
(***************************************************************************)
EXTENDS Integers, FiniteSets, TLAPS

CONSTANTS
    Handles,       \* open connections
    Matching,      \* child indexes whose address is in the scope's zone
    MaxIndex,      \* 2^31: the end of the derivation space
    MaxAttempts,   \* 100,000
    MaxGeneration, \* bound of the scope's generation
    MaxAddresses,  \* MAX_COINS: rows of the addresses table
    None

ASSUME ConstantsAssumption ==
    /\ MaxIndex \in Nat /\ MaxAttempts \in Nat
    /\ MaxGeneration \in Nat /\ MaxAddresses \in Nat
    /\ Matching \subseteq 0..(MaxIndex - 1)
    /\ None \notin Int

VARIABLES
    generation,  \* scopes.generation
    cursor,      \* derivation_cursors.next_index, None before the first row
    recorded,    \* addresses: the indexes of this branch
    search,      \* search[h]: the range a legacy allocation burned and searches
    issued       \* how often an index was returned by an allocation

vars == <<generation, cursor, recorded, search, issued>>

Range == [start : 0..MaxIndex, limit : 0..MaxIndex, generation : 0..MaxGeneration]

\* start = limit is no range: reserving takes at least one attempt.
NoSearch == [start |-> 0, limit |-> 0, generation |-> 0]

TypeOK ==
    /\ generation \in 0..MaxGeneration
    /\ cursor \in 0..MaxIndex \cup {None}
    /\ recorded \subseteq Matching
    /\ search \in [Handles -> Range]
    /\ issued \in [Matching -> Nat]

Init ==
    /\ generation = 0
    /\ cursor = None
    /\ recorded = {}
    /\ search = [h \in Handles |-> NoSearch]
    /\ issued = [i \in Matching |-> 0]

----------------------------------------------------------------------------
\* Without a cursor, recorded metadata is taken as exposed: start above it.
FirstIndex(start) ==
    IF cursor # None THEN start = cursor
    ELSE /\ \A i \in recorded : i < start
         /\ start # 0 => start - 1 \in recorded

\* AccountPublic::search: the first index of the zone in the range.
Found(start, limit, index) ==
    /\ index \in Matching
    /\ start <= index /\ index < limit
    /\ \A i \in Matching : start <= i => index <= i

\* insert_address raises an existing cursor above what it records.
Raised(next, index) == IF index < next THEN next ELSE index + 1

\* The end of every allocation, in one transaction: the address row, the
\* generation and the cursor, then the address is returned.
Record(index, next) ==
    /\ generation < MaxGeneration
    /\ generation' = generation + 1
    /\ Cardinality(recorded) < MaxAddresses
    /\ recorded' = recorded \cup {index}
    /\ cursor' = Raised(next, index)
    /\ issued' = [issued EXCEPT ![index] = @ + 1]

----------------------------------------------------------------------------
AllocateCompact(attempts, start, index) ==
    /\ FirstIndex(start)
    /\ start + attempts <= MaxIndex
    /\ Found(start, start + attempts, index)
    /\ Record(index, index + 1)
    /\ UNCHANGED search

\* Mutant: the burn is written after the search instead of before it.
ReserveUnburned(h, attempts, start) ==
    /\ search[h] = NoSearch
    /\ FirstIndex(start)
    /\ start + attempts <= MaxIndex
    /\ cursor' = start
    /\ search' = [search EXCEPT ![h] =
         [start |-> start, limit |-> start + attempts, generation |-> generation]]
    /\ UNCHANGED <<generation, recorded, issued>>

\* allocate_address, first transaction: the whole range is consumed.
Reserve(h, attempts, start) ==
    /\ search[h] = NoSearch
    /\ FirstIndex(start)
    /\ start + attempts <= MaxIndex
    /\ cursor' = start + attempts
    /\ search' = [search EXCEPT ![h] =
         [start |-> start, limit |-> start + attempts, generation |-> generation]]
    /\ UNCHANGED <<generation, recorded, issued>>

\* The tail goes back when nothing was recorded and no cursor moved since.
GiveBack(h) ==
    /\ cursor = search[h].limit
    /\ generation = search[h].generation

\* allocate_address, second transaction.
Complete(h, index) ==
    /\ Found(search[h].start, search[h].limit, index)
    /\ Record(index, IF GiveBack(h) THEN index + 1 ELSE cursor)
    /\ search' = [search EXCEPT ![h] = NoSearch]

\* Cancelled, exhausted, failed or killed: the second transaction never commits.
Abandon(h) ==
    /\ search[h] # NoSearch
    /\ search' = [search EXCEPT ![h] = NoSearch]
    /\ UNCHANGED <<generation, cursor, recorded, issued>>

\* insert_address for a batch: import_metadata, commit_discovery (whose reports
\* must also cover what is recorded) or, with no address, any other write that
\* moves the generation.
Import(indexes) ==
    /\ generation < MaxGeneration
    /\ generation' = generation + 1
    /\ recorded' = recorded \cup indexes
    /\ Cardinality(recorded') <= MaxAddresses
    /\ IF cursor = None THEN UNCHANGED cursor
       ELSE \/ (\A i \in indexes : i < cursor) /\ UNCHANGED cursor
            \/ \E top \in indexes :
                 /\ cursor <= top /\ \A i \in indexes : i <= top
                 /\ cursor' = top + 1
    /\ UNCHANGED <<search, issued>>

Next ==
    \/ \E attempts \in 1..MaxAttempts, start \in 0..MaxIndex :
         \/ \E index \in Matching : AllocateCompact(attempts, start, index)
         \/ \E h \in Handles : Reserve(h, attempts, start)
    \/ \E h \in Handles : Abandon(h) \/ \E index \in Matching : Complete(h, index)
    \/ \E indexes \in SUBSET Matching : Import(indexes)

Spec == Init /\ [][Next]_vars

----------------------------------------------------------------------------
\* No allocation ever returns an index that another one returned, in any handle,
\* before or after a crash, although tails are given back and searched again.
IssuedOnce == \A i \in Matching : issued[i] <= 1

\* The cursor is above every recorded index, so that no search starts below an
\* address that is in use: giving a tail back never uncovers one.
RecordedBelowCursor == cursor # None => \A i \in recorded : i < cursor

\* Documented for AllocatedAddress: "A fresh public address".  An address that
\* an import or discovery recorded while allocate_address searched for it is
\* returned all the same.
AllocatesFresh ==
    [][\A i \in Matching : issued'[i] # issued[i] => i \notin recorded]_vars

----------------------------------------------------------------------------
(***************************************************************************)
(* No index is ever issued twice, for any number of handles, any zone      *)
(* pattern and any derivation space.  The invariant that makes it          *)
(* inductive is about the ranges being searched: they are burned, they do  *)
(* not overlap, nothing in them was issued, and as long as the generation  *)
(* has not moved nothing was recorded at or above them.                    *)
(***************************************************************************)

Searching(h) == search[h].start < search[h].limit

\* A search in progress lies below the cursor, and the generation it noted is
\* not from the future.
Burned ==
    \A h \in Handles : Searching(h) =>
        /\ cursor # None /\ search[h].limit <= cursor
        /\ search[h].generation <= generation

Disjoint ==
    \A g, h \in Handles : g # h /\ Searching(g) /\ Searching(h) =>
        search[g].limit <= search[h].start \/ search[h].limit <= search[g].start

\* Nothing in a burned range was issued; nothing at or above its start was even
\* recorded while the generation stands still.
Unissued ==
    \A h \in Handles : Searching(h) =>
        /\ \A i \in Matching :
             search[h].start <= i /\ i < search[h].limit => issued[i] = 0
        /\ generation = search[h].generation => \A i \in recorded : i < search[h].start

IssuedRecorded == \A i \in Matching : issued[i] # 0 => i \in recorded

IndInv ==
    /\ TypeOK
    /\ RecordedBelowCursor
    /\ IssuedOnce
    /\ IssuedRecorded
    /\ Burned
    /\ Disjoint
    /\ Unissued

\* The invariant holds in a store that has no cursor and no address.
LEMMA InitInv == Init => IndInv
BY ConstantsAssumption DEF Init, IndInv, TypeOK, RecordedBelowCursor, IssuedOnce,
   IssuedRecorded, Burned, Disjoint, Unissued, Searching, NoSearch, Range

\* What an allocation starts from is above every recorded index and every
\* burned range.
LEMMA StartIsAbove ==
    ASSUME IndInv, NEW start \in 0..MaxIndex, FirstIndex(start)
    PROVE  /\ \A i \in recorded : i < start
           /\ \A h \in Handles : Searching(h) => search[h].limit <= start
<1>1. CASE cursor # None
  BY Zenon, <1>1 DEF IndInv, FirstIndex, RecordedBelowCursor, Burned
<1>2. CASE cursor = None
  BY Zenon, <1>2 DEF IndInv, FirstIndex, Burned
<1> QED BY Zenon, <1>1, <1>2

\* A compact allocation takes an index above everything.
LEMMA CompactStep ==
    ASSUME IndInv, NEW attempts \in 1..MaxAttempts, NEW start \in 0..MaxIndex,
           NEW index \in Matching, AllocateCompact(attempts, start, index)
    PROVE  IndInv'
<1> USE ConstantsAssumption DEF TypeOK, Range
<1>1. /\ \A i \in recorded : i < start
      /\ \A h \in Handles : Searching(h) => search[h].limit <= start
  BY Zenon, StartIsAbove DEF AllocateCompact
<1>2. /\ start <= index /\ index \in Int /\ index < MaxIndex
      /\ cursor' = index + 1
      /\ recorded' = recorded \cup {index}
      /\ generation' = generation + 1 /\ generation < MaxGeneration
      /\ issued' = [issued EXCEPT ![index] = @ + 1]
      /\ UNCHANGED search
  BY DEF AllocateCompact, Found, Record, Raised
<1>3. issued[index] = 0
  BY <1>1, <1>2 DEF IndInv, IssuedRecorded
<1>4. TypeOK'
  BY <1>2, <1>3 DEF IndInv
<1>5. RecordedBelowCursor' /\ IssuedRecorded' /\ IssuedOnce'
  BY <1>1, <1>2, <1>3 DEF IndInv, RecordedBelowCursor, IssuedRecorded, IssuedOnce
<1>6. Burned' /\ Disjoint'
  BY <1>1, <1>2 DEF IndInv, Burned, Disjoint, Searching
<1>7. Unissued'
  BY <1>1, <1>2 DEF IndInv, Unissued, Searching, Burned
<1> QED BY Zenon, <1>4, <1>5, <1>6, <1>7 DEF IndInv

\* The first transaction of allocate_address burns a range above everything.
LEMMA ReserveStep ==
    ASSUME IndInv, NEW h \in Handles, NEW attempts \in 1..MaxAttempts,
           NEW start \in 0..MaxIndex, Reserve(h, attempts, start)
    PROVE  IndInv'
<1> USE ConstantsAssumption DEF TypeOK, Range
<1>1. /\ \A i \in recorded : i < start
      /\ \A g \in Handles : Searching(g) => search[g].limit <= start
  BY Zenon, StartIsAbove DEF Reserve
<1> DEFINE range == [start |-> start, limit |-> start + attempts, generation |-> generation]
<1>2. /\ start + attempts <= MaxIndex
      /\ cursor' = start + attempts
      /\ search' = [search EXCEPT ![h] = range]
      /\ UNCHANGED <<generation, recorded, issued>>
  BY Zenon DEF Reserve
<1>3. /\ search'[h] = range
      /\ \A g \in Handles : g # h => search'[g] = search[g]
  BY Zenon, <1>2 DEF IndInv
<1>4. TypeOK'
  BY <1>2 DEF IndInv
<1>5. RecordedBelowCursor' /\ IssuedRecorded' /\ IssuedOnce'
  BY <1>1, <1>2 DEF IndInv, RecordedBelowCursor, IssuedRecorded, IssuedOnce
<1>6. Burned'
  BY <1>1, <1>2, <1>3 DEF IndInv, Burned, Searching
<1>7. Disjoint'
  BY <1>1, <1>3 DEF IndInv, Disjoint, Searching
<1>8. Unissued'
  <2> SUFFICES ASSUME NEW g \in Handles, Searching(g)'
               PROVE  /\ \A i \in Matching :
                           search'[g].start <= i /\ i < search'[g].limit => issued[i] = 0
                      /\ generation = search'[g].generation =>
                           \A i \in recorded : i < search'[g].start
    BY Zenon, <1>2 DEF Unissued
  <2>1. CASE g = h
    BY <2>1, <1>1, <1>3 DEF IndInv, IssuedRecorded
  <2>2. CASE g # h
    BY Zenon, <2>2, <1>3 DEF IndInv, Unissued, Searching
  <2> QED BY Zenon, <2>1, <2>2
<1> QED BY Zenon, <1>4, <1>5, <1>6, <1>7, <1>8 DEF IndInv

\* The second transaction: the given back tail holds nothing recorded and no
\* other search, for the generation did not move and the ranges are disjoint.
LEMMA CompleteStep ==
    ASSUME IndInv, NEW h \in Handles, NEW index \in Matching, Complete(h, index)
    PROVE  IndInv'
<1> USE ConstantsAssumption DEF TypeOK, Range
<1> DEFINE start == search[h].start
           limit == search[h].limit
<1>1. /\ start <= index /\ index < limit /\ index \in 0..(MaxIndex - 1)
      /\ Searching(h)
      /\ cursor \in 0..MaxIndex /\ limit <= cursor
  BY DEF Complete, Found, IndInv, Burned, Searching
<1>2. /\ recorded' = recorded \cup {index}
      /\ generation' = generation + 1 /\ generation < MaxGeneration
      /\ issued' = [issued EXCEPT ![index] = @ + 1]
      /\ search'[h] = NoSearch
      /\ \A g \in Handles : g # h => search'[g] = search[g]
  BY Zenon DEF Complete, Record, IndInv
<1>3. \/ cursor' = cursor
      \/ /\ cursor' = index + 1
         /\ cursor = limit /\ generation = search[h].generation
  <2>1. cursor' = Raised(IF GiveBack(h) THEN index + 1 ELSE cursor, index)
    BY Zenon DEF Complete, Record
  <2>2. search[h] \in Range
    BY Zenon DEF IndInv
  <2>3. CASE GiveBack(h)
    BY Zenon, <1>1, <2>1, <2>2, <2>3 DEF Raised, GiveBack
  <2>4. CASE ~GiveBack(h)
    BY <1>1, <2>1, <2>2, <2>4 DEF Raised
  <2> QED BY Zenon, <2>3, <2>4
<1>4. issued[index] = 0
  BY Zenon, <1>1 DEF IndInv, Unissued
<1>5. ~Searching(h)' /\ \A g \in Handles : Searching(g)' => g # h /\ Searching(g)
  BY <1>2 DEF Searching, NoSearch
<1>6. TypeOK'
  <2>1. generation' \in 0..MaxGeneration /\ recorded' \subseteq Matching
    <3>1. generation' \in 0..MaxGeneration
      BY <1>2 DEF IndInv
    <3>2. recorded' \subseteq Matching
      BY Zenon, <1>2 DEF IndInv
    <3> QED BY Zenon, <3>1, <3>2
  <2>2. issued' \in [Matching -> Nat]
    BY <1>2, <1>4 DEF IndInv
  <2>3. cursor' \in 0..MaxIndex \cup {None}
    BY <1>1, <1>3
  <2>4. search' \in [Handles -> Range]
    BY DEF Complete, NoSearch, IndInv
  <2> QED BY Zenon, <2>1, <2>2, <2>3, <2>4
<1>7. RecordedBelowCursor'
  <2>1. CASE cursor' = cursor
    BY <2>1, <1>1, <1>2 DEF IndInv, RecordedBelowCursor
  <2>2. CASE cursor' = index + 1 /\ generation = search[h].generation
    BY <2>2, <1>1, <1>2 DEF IndInv, RecordedBelowCursor, Unissued
  <2> QED BY Zenon, <1>3, <2>1, <2>2
<1>8. IssuedRecorded' /\ IssuedOnce'
  BY <1>2, <1>4 DEF IndInv, IssuedRecorded, IssuedOnce
<1>9. Burned'
  <2> SUFFICES ASSUME NEW g \in Handles, Searching(g)'
               PROVE  /\ cursor' # None /\ search[g].limit <= cursor'
                      /\ search[g].generation <= generation'
    BY Zenon, <1>2, <1>5 DEF Burned
  <2>1. g # h /\ Searching(g) /\ search[g].limit <= cursor /\ search[g].generation <= generation
    BY Zenon, <1>5 DEF IndInv, Burned
  <2>2. search[g].limit <= start \/ limit <= search[g].start
    BY Zenon, <2>1, <1>1 DEF IndInv, Disjoint
  <2>3. search[g] \in Range /\ search[h] \in Range
    BY Zenon DEF IndInv
  <2> QED BY <2>1, <2>2, <2>3, <1>1, <1>2, <1>3 DEF Searching, IndInv
<1>10. Disjoint'
  BY Zenon, <1>2, <1>5 DEF IndInv, Disjoint
<1>11. Unissued'
  <2> SUFFICES ASSUME NEW g \in Handles, Searching(g)'
               PROVE  /\ \A i \in Matching :
                           search[g].start <= i /\ i < search[g].limit => issued'[i] = 0
                      /\ generation' # search[g].generation
    BY Zenon, <1>2, <1>5 DEF Unissued
  <2>1. g # h /\ Searching(g) /\ search[g].generation <= generation
    BY Zenon, <1>5 DEF IndInv, Burned
  <2>2. search[g].limit <= start \/ limit <= search[g].start
    BY Zenon, <2>1, <1>1 DEF IndInv, Disjoint
  <2>3. search[g] \in Range /\ search[h] \in Range
    BY DEF IndInv
  <2> QED BY <2>1, <2>2, <2>3, <1>1, <1>2 DEF IndInv, Unissued
<1> QED BY Zenon, <1>6, <1>7, <1>8, <1>9, <1>10, <1>11 DEF IndInv

\* Giving up a search only forgets its range.
LEMMA AbandonStep ==
    ASSUME IndInv, NEW h \in Handles, Abandon(h)
    PROVE  IndInv'
<1> USE ConstantsAssumption DEF TypeOK, Range
<1>1. /\ search'[h] = NoSearch
      /\ \A g \in Handles : g # h => search'[g] = search[g]
      /\ UNCHANGED <<generation, cursor, recorded, issued>>
  BY Zenon DEF Abandon, IndInv
<1>2. \A g \in Handles : Searching(g)' => g # h /\ Searching(g)
  BY <1>1 DEF Searching, NoSearch
<1>3. TypeOK'
  BY DEF Abandon, NoSearch, IndInv
<1>4. RecordedBelowCursor' /\ IssuedRecorded' /\ IssuedOnce'
  BY Zenon, <1>1 DEF IndInv, RecordedBelowCursor, IssuedRecorded, IssuedOnce
<1>5. Burned' /\ Disjoint' /\ Unissued'
  BY Zenon, <1>1, <1>2 DEF IndInv, Burned, Disjoint, Unissued
<1> QED BY Zenon, <1>3, <1>4, <1>5 DEF IndInv

\* A batch moves the generation past every search's and never lowers the cursor.
LEMMA ImportStep ==
    ASSUME IndInv, NEW indexes \in SUBSET Matching, Import(indexes)
    PROVE  IndInv'
<1> USE ConstantsAssumption DEF TypeOK, Range
<1>1. /\ generation' = generation + 1 /\ generation < MaxGeneration
      /\ recorded' = recorded \cup indexes
      /\ UNCHANGED <<search, issued>>
  BY Zenon DEF Import
<1>2. CASE cursor = None
  <2>1. cursor' = None
    BY Zenon, <1>2 DEF Import
  <2> QED BY <1>1, <1>2, <2>1 DEF IndInv, RecordedBelowCursor, IssuedOnce,
             IssuedRecorded, Burned, Disjoint, Unissued, Searching
<1>3. CASE cursor # None
  <2>1. /\ cursor \in 0..MaxIndex /\ cursor' \in 0..MaxIndex /\ cursor <= cursor'
        /\ \A i \in indexes : i < cursor'
    BY <1>3 DEF Import, IndInv
  <2>2. TypeOK' /\ RecordedBelowCursor' /\ IssuedOnce' /\ IssuedRecorded'
    BY <1>1, <2>1 DEF IndInv, RecordedBelowCursor, IssuedOnce, IssuedRecorded
  <2>3. Burned' /\ Disjoint'
    BY <1>1, <2>1 DEF IndInv, Burned, Disjoint, Searching
  <2>4. Unissued'
    BY <1>1 DEF IndInv, Burned, Unissued, Searching
  <2> QED BY Zenon, <2>2, <2>3, <2>4 DEF IndInv
<1> QED BY Zenon, <1>2, <1>3

\* Every step keeps the invariant.
LEMMA StepInv == IndInv /\ [Next]_vars => IndInv'
<1> SUFFICES ASSUME IndInv, [Next]_vars PROVE IndInv'
  BY Zenon
<1>1. CASE UNCHANGED vars
  BY Zenon, <1>1 DEF vars, IndInv, TypeOK, RecordedBelowCursor, IssuedOnce, IssuedRecorded,
     Burned, Disjoint, Unissued, Searching
<1>2. CASE Next
  BY Zenon, <1>2, CompactStep, ReserveStep, CompleteStep, AbandonStep, ImportStep DEF Next
<1> QED BY Zenon, <1>1, <1>2

\* allocate_address and allocate_address_compact never return an index twice, for
\* any number of connections, crashes and concurrent imports.
THEOREM AllocationSafety == Spec => []IssuedOnce
<1>1. IndInv => IssuedOnce
  BY Zenon DEF IndInv
<1> QED BY InitInv, StepInv, <1>1, PTL DEF Spec

\* The cursor stays above every recorded address, so that none is searched again.
THEOREM CursorSafety == Spec => []RecordedBelowCursor
<1>1. IndInv => RecordedBelowCursor
  BY Zenon DEF IndInv
<1> QED BY InitInv, StepInv, <1>1, PTL DEF Spec
=============================================================================
