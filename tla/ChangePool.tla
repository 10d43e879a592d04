----------------------------- MODULE ChangePool -----------------------------
(***************************************************************************)
(* The change addresses of one Qi account, from allocation to signature:   *)
(* QiChangePool (quai-sdk qi.rs) over the released addresses of the store  *)
(* (storage/released.rs).                                                  *)
(*                                                                         *)
(* An address is named by its child index.  A pool is always used lowest   *)
(* index first: what was released is below the cursor and comes first, and *)
(* reclaiming sorts, so that a set stands for the vector.  Each call of    *)
(* the store is one transaction; other handles run between two of them.    *)
(***************************************************************************)
EXTENDS Naturals, FiniteSets

CONSTANTS
    Handles,    \* open stores, each with the pool and the drafts bound to it
    Ids,        \* ReservationIds
    MaxIndex,   \* bound of the derivation cursor
    MaxPool,    \* bound: addresses asked of one allocation
    SelfPay     \* whether a transfer may pay an own change address

PoolAssumption == MaxIndex \in Nat /\ MaxPool \in Nat /\ SelfPay \in BOOLEAN

VARIABLES
    cursor,     \* derivation_cursors.next_index of the change branch
    released,   \* released_change
    state,      \* reservations.state
    signed,     \* signed[id]: the change addresses in its signed bytes
    pool,       \* pool[h]: the addresses of the handle's pool
    wanted,     \* wanted[h]: what a pool being allocated still needs, 0 when done
    drafts,     \* PreparedQiTransaction and PreparedQiOperation values
    burned      \* history: addresses lost by a crash, a cancellation or a drop

vars == <<cursor, released, state, signed, pool, wanted, drafts, burned>>

Indexes == 0..(MaxIndex - 1)
Draft == [handle : Handles, id : Ids, outputs : SUBSET Indexes]

TypeOK ==
    /\ cursor \in 0..MaxIndex /\ released \subseteq 0..(cursor - 1)
    /\ state \in [Ids -> {"absent", "reserved", "signed", "released"}]
    /\ signed \in [Ids -> SUBSET Indexes]
    /\ pool \in [Handles -> SUBSET Indexes] /\ wanted \in [Handles -> 0..MaxPool]
    /\ drafts \subseteq Draft /\ burned \subseteq Indexes

Init ==
    /\ cursor = 0 /\ released = {} /\ burned = {} /\ drafts = {}
    /\ state = [id \in Ids |-> "absent"] /\ signed = [id \in Ids |-> {}]
    /\ pool = [h \in Handles |-> {}] /\ wanted = [h \in Handles |-> 0]

\* The n lowest of a set of indexes, or all of it.
Lowest(n, indexes) == {i \in indexes : Cardinality({j \in indexes : j < i}) < n}

Signed == UNION {signed[id] : id \in Ids}

----------------------------------------------------------------------------
\* take_released_change, under the write lock.
TakeReleased(n) == released' = released \ Lowest(n, released)

\* allocate: first what was released, in one transaction.
Allocate(h, n) ==
    /\ pool[h] = {} /\ wanted[h] = 0
    /\ TakeReleased(n)
    /\ pool' = [pool EXCEPT ![h] = Lowest(n, released)]
    /\ wanted' = [wanted EXCEPT ![h] = n - Cardinality(Lowest(n, released))]
    /\ UNCHANGED <<cursor, state, signed, drafts, burned>>

\* Then fresh ones, each an allocate_address_compact.
AllocateFresh(h) ==
    /\ wanted[h] > 0 /\ cursor < MaxIndex
    /\ pool' = [pool EXCEPT ![h] = @ \cup {cursor}]
    /\ wanted' = [wanted EXCEPT ![h] = @ - 1]
    /\ cursor' = cursor + 1
    /\ UNCHANGED <<released, state, signed, drafts, burned>>

\* Cancelled, failed or exhausted: what was taken is not given back.
AllocationFails(h) ==
    /\ wanted[h] > 0
    /\ burned' = burned \cup pool[h]
    /\ pool' = [pool EXCEPT ![h] = {}] /\ wanted' = [wanted EXCEPT ![h] = 0]
    /\ UNCHANGED <<cursor, released, state, signed, drafts>>

Drain(h, n) == pool' = [pool EXCEPT ![h] = @ \ Lowest(n, @)]

\* The end of prepare, prepare_special and prepare_sweep: the inputs are claimed
\* and the pool loses the n addresses used.  A transfer may have destinations
\* that are change addresses of this wallet, but none of its own pool's.
Prepare(h, id, n, own) ==
    /\ wanted[h] = 0 /\ n <= Cardinality(pool[h])
    /\ own \subseteq IF SelfPay THEN 0..(cursor - 1) \ pool[h] ELSE {}
    /\ state[id] = "absent"
    /\ state' = [state EXCEPT ![id] = "reserved"]
    /\ Drain(h, n)
    /\ drafts' = drafts \cup {[handle |-> h, id |-> id, outputs |-> Lowest(n, pool[h]) \cup own]}
    /\ UNCHANGED <<cursor, released, signed, wanted, burned>>

\* sign and sign_special; burn_signed is part of committing the signed bytes.
Sign(d) ==
    /\ d \in drafts /\ state[d.id] = "reserved"
    /\ state' = [state EXCEPT ![d.id] = "signed"]
    /\ signed' = [signed EXCEPT ![d.id] = d.outputs]
    /\ released' = released \ d.outputs
    /\ UNCHANGED <<cursor, pool, wanted, drafts, burned>>


\* reclaim and reclaim_operation: every output at a change address of the
\* account comes back, once release_unsigned has agreed.  The draft is consumed
\* in any case.
Reclaim(d) ==
    /\ d \in drafts /\ wanted[d.handle] = 0
    /\ drafts' = drafts \ {d}
    /\ IF state[d.id] = "reserved"
       THEN /\ state' = [state EXCEPT ![d.id] = "released"]
            /\ pool' = [pool EXCEPT ![d.handle] = @ \cup d.outputs]
            /\ UNCHANGED burned
       ELSE /\ burned' = burned \cup (IF state[d.id] = "released" THEN d.outputs ELSE {})
            /\ UNCHANGED <<state, pool>>
    /\ UNCHANGED <<cursor, released, signed, wanted>>

\* release: the store refuses the whole pool if one address was signed with.
Release(h) ==
    /\ wanted[h] = 0 /\ pool[h] # {}
    /\ pool' = [pool EXCEPT ![h] = {}]
    /\ IF pool[h] \cap Signed = {}
       THEN released' = released \cup pool[h] /\ UNCHANGED burned
       ELSE burned' = burned \cup pool[h] /\ UNCHANGED released
    /\ UNCHANGED <<cursor, state, signed, wanted, drafts>>

\* The application releases a reservation by its id, without the pool.
ReleaseUnsigned(id) ==
    /\ state[id] = "reserved"
    /\ state' = [state EXCEPT ![id] = "released"]
    /\ burned' = burned \cup UNION {d.outputs : d \in {e \in drafts : e.id = id}}
    /\ UNCHANGED <<cursor, released, signed, pool, wanted, drafts>>

\* The process dies, or drops its pool and drafts: they are bound to the
\* StoreInstance and cannot be used by another.
Crash(h) ==
    /\ burned' = burned \cup pool[h] \cup
         UNION {d.outputs : d \in {e \in drafts : e.handle = h /\ state[e.id] # "signed"}}
    /\ pool' = [pool EXCEPT ![h] = {}] /\ wanted' = [wanted EXCEPT ![h] = 0]
    /\ drafts' = {d \in drafts : d.handle # h}
    /\ UNCHANGED <<cursor, released, state, signed>>

\* restore_full_backup: another device may have signed with a released address.
Restore ==
    /\ released # {}
    /\ burned' = burned \cup released /\ released' = {}
    /\ UNCHANGED <<cursor, state, signed, pool, wanted, drafts>>

Next ==
    \/ \E h \in Handles :
         \/ \E n \in 1..MaxPool : Allocate(h, n)
         \/ AllocateFresh(h) \/ AllocationFails(h) \/ Release(h) \/ Crash(h)
         \/ \E id \in Ids, n \in 0..MaxPool, own \in {{}} \cup {{i} : i \in Indexes} :
              Prepare(h, id, n, own)
    \/ \E d \in drafts : Sign(d) \/ Reclaim(d)
    \/ \E id \in Ids : ReleaseUnsigned(id)
    \/ Restore

Spec == Init /\ [][Next]_vars

----------------------------------------------------------------------------
Live == {d \in drafts : state[d.id] = "reserved"}

Places(i) ==
    {<<"pool", h>> : h \in {h \in Handles : i \in pool[h]}}
    \cup {<<"draft", d.id>> : d \in {d \in Live : i \in d.outputs}}
    \cup {<<"signed", id>> : id \in {id \in Ids : i \in signed[id]}}
    \cup (IF i \in released THEN {<<"released">>} ELSE {})

\* No address is paid change by two transactions: it is in one pool, in the
\* released table, in one draft that can still be signed or in the signed bytes
\* of one operation, whatever the handles do between two transactions of the
\* store.
ChangeOnce == \A i \in Indexes : Cardinality(Places(i)) <= 1

\* Change stays inside the window that a restore from the seed scans: no index
\* below the cursor is lost but by a crash, a dropped pool or draft, or a
\* restore, however often drafts are prepared, reclaimed and released.
NothingLost == \A i \in 0..(cursor - 1) : Places(i) # {} \/ i \in burned
=============================================================================
