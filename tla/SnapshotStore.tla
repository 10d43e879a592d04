--------------------------- MODULE SnapshotStore ---------------------------
(***************************************************************************)
(* The IndexedDB snapshots of quai-browser (storage.rs, storage.js): one   *)
(* revisioned record per journal, and a write that takes effect only when  *)
(* every journal it names still has the revision the writer read.          *)
(* IndexedDB runs overlapping read-write transactions one after the other, *)
(* in all tabs and workers, so that each call is atomic here.              *)
(***************************************************************************)
EXTENDS Naturals, FiniteSets

CONSTANTS
    MaxRevision,    \* Number.MAX_SAFE_INTEGER
    MaxSlots        \* records of one database, 2048

StoreAssumption == MaxRevision \in Nat /\ MaxSlots \in Nat

\* A record that was never written has revision 0 here and expected -1 there.
Absent(empty) == [revision |-> 0, bytes |-> empty]


\* compareExchangeSnapshots: all of the updates or none of them.
CanExchange(disk, updates) ==
    /\ \A s \in DOMAIN updates :
         disk[s].revision = updates[s].expected /\ disk[s].revision < MaxRevision
    /\ Cardinality({s \in DOMAIN disk : disk[s].revision > 0 \/ s \in DOMAIN updates}) <= MaxSlots

Exchanged(disk, updates) ==
    [s \in DOMAIN disk |->
        IF s \in DOMAIN updates
          THEN [revision |-> disk[s].revision + 1, bytes |-> updates[s].bytes]
          ELSE disk[s]]

\* compare_exchange: one journal.
Update(s, expected, bytes) == [x \in {s} |-> [expected |-> expected, bytes |-> bytes]]
=============================================================================
