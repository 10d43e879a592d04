-------------------------- MODULE PortableBackup --------------------------
(*************************************************************************)
(* Backups captured from the portable journals of a browser profile        *)
(* (capture_portable): the allocation book of the Qi account, an account    *)
(* book, a Qi book and a payment book of one wallet, with the previous       *)
(* backup as inventory.                                                     *)
(*                                                                        *)
(* The documented life cycle: after a loss the journals start again from   *)
(* the backup, allocation journals empty above its floors, so that what     *)
(* was handed out before is known from the inventory alone.                *)
(*************************************************************************)
EXTENDS BackupDocument

CONSTANTS
    Match,      \* Match[chain]: the indexes whose address is in the zone
    PayMatch,   \* the payment indexes whose address is in the zone
    AccountIds, \* operation ids of the account book
    QiIds,      \* operation ids of the Qi book
    Captures,   \* sets of journals a capture is given
    MaxLosses   \* bound on the number of lost profiles

VARIABLES
    allocation, \* the allocation book: cursors and completed addresses
    account,    \* the account book: next nonce and operations
    qi,         \* the Qi book: operations
    payment,    \* the payment book: cursors and completed exposures
    previous,   \* the last document, Fail before the first
    losses

vars == <<allocation, account, qi, payment, previous, losses>>
Owner == Bip44("quai", 0)
QiOwner == Bip44("qi", Min(Match["qi"]))

Journals == {"allocation", "account", "qi", "payment"}

NewAllocations == [cursor |-> [c \in QiChains |-> 0], completed |-> {}]
NewPayments == [next |-> [x \in Directions |-> 0], completed |-> {}]
Init ==
    /\ allocation = NewAllocations /\ payment = NewPayments
    /\ account = [next |-> 0, ops |-> << >>]
    /\ qi = [addresses |-> {}, ops |-> << >>]
    /\ previous = Fail /\ losses = 0

Put(table, k, row) == [x \in DOMAIN table \cup {k} |-> IF x = k THEN row ELSE table[x]]

----------------------------------------------------------------------------
(* The journals' own work.                                                 *)

Allocate(chain, completed) ==
    LET found == {i \in Match[chain] : i >= allocation.cursor[chain]}
    IN /\ found # {}
       /\ allocation' = [allocation EXCEPT
              !.cursor[chain] = Min(found) + 1,
              !.completed = IF completed THEN @ \cup {Bip44(chain, Min(found))} ELSE @]
       /\ UNCHANGED <<account, qi, payment, previous, losses>>

AllocatePayment(x, completed) ==
    LET found == {i \in PayMatch : i >= payment.next[x]}
    IN /\ found # {}
       /\ payment' = [payment EXCEPT
              !.next[x] = Min(found) + 1,
              !.completed = IF completed
                            THEN @ \cup {[account |-> 0, direction |-> x, index |-> Min(found),
                                          start |-> payment.next[x], end |-> Min(found) + 1]}
                            ELSE @]
       /\ UNCHANGED <<allocation, account, qi, previous, losses>>

Operation(id, kind, claims, nonce) ==
    [id |-> id, kind |-> kind, state |-> "Reserved", transaction |-> <<>>,
     inclusion |-> <<>>, qi |-> claims, nonce |-> nonce, payload |-> <<>>,
     replacements |-> <<>>]

ReserveNonce(id) ==
    /\ id \notin DOMAIN account.ops
    /\ account' = [next |-> account.next + 1,
                   ops |-> Put(account.ops, id, Operation(id, "quai", <<>>,
                               <<[address |-> Owner, nonce |-> account.next]>>))]
    /\ UNCHANGED <<allocation, qi, payment, previous, losses>>

\* The owner of a claimed coin is an address of the book.
ReserveQi(id) ==
    /\ id \notin DOMAIN qi.ops
    /\ QiOwner \in allocation.completed \cup qi.addresses
    /\ qi' = [addresses |-> qi.addresses \cup {QiOwner},
              ops |-> Put(qi.ops, id, Operation(id, "qi", <<[out |-> id, owner |-> QiOwner]>>, <<>>))]
    /\ UNCHANGED <<allocation, account, payment, previous, losses>>

\* An operation is signed, submitted, confirmed or released.
Steps(op) ==
    CASE op.state = "Reserved" ->
           {[op EXCEPT !.state = "Signed", !.transaction = <<op.id>>,
                       !.payload = <<[hash |-> op.id, spends |-> Spends(op), price |-> 0]>>],
            [op EXCEPT !.state = "Released", !.qi = <<>>]}
      [] op.state = "Signed" -> {[op EXCEPT !.state = "Submitted"]}
      [] op.state = "Submitted" ->
           {[op EXCEPT !.state = "Confirmed", !.inclusion = <<"block">>]}
      [] OTHER -> {}

StepAccount(id) ==
    /\ id \in DOMAIN account.ops
    /\ \E op \in Steps(account.ops[id]) : account' = [account EXCEPT !.ops[id] = op]
    /\ UNCHANGED <<allocation, qi, payment, previous, losses>>
StepQi(id) ==
    /\ id \in DOMAIN qi.ops
    /\ \E op \in Steps(qi.ops[id]) : qi' = [qi EXCEPT !.ops[id] = op]
    /\ UNCHANGED <<allocation, account, payment, previous, losses>>

----------------------------------------------------------------------------
(* The capture.                                                            *)

\* record: a confirmation is not carried over, it has to be observed again.
Record(op) ==
    IF op.state = "Confirmed" THEN [op EXCEPT !.state = "Submitted", !.inclusion = <<>>] ELSE op

\* Rows carried forward from previous_inventory.
Inventory(field) == IF previous = Fail THEN {} ELSE ToSet(previous[field])

\* What each journal contributes: addresses, cursors, nonces, operations.
Nothing == [addresses |-> {}, cursors |-> {}, nonces |-> {}, operations |-> {}]
AllocationRows ==
    [Nothing EXCEPT
        !.addresses = allocation.completed,
        !.cursors = {[chain |-> c, next |-> allocation.cursor[c]] : c \in QiChains}]
AccountRows ==
    [Nothing EXCEPT
        !.addresses = {Owner}, !.nonces = {[address |-> Owner, next |-> account.next]},
        !.operations = {Record(account.ops[id]) : id \in DOMAIN account.ops}]
QiRows ==
    [Nothing EXCEPT
        !.addresses = qi.addresses, !.operations = {Record(qi.ops[id]) : id \in DOMAIN qi.ops}]
PaymentRows ==
    [Nothing EXCEPT !.addresses = {PaymentAddress(e.account, e.index) :
                        e \in {x \in payment.completed : x.direction = "receive"}}]
Rows(journals) ==
    {AllocationRows : j \in journals \cap {"allocation"}}
        \cup {AccountRows : j \in journals \cap {"account"}}
        \cup {QiRows : j \in journals \cap {"qi"}}
        \cup {PaymentRows : j \in journals \cap {"payment"}}

\* The highest cursor of every branch.
MergedCursors(old, rows) ==
    {c \in old \cup rows : \A x \in old \cup rows : x.chain = c.chain => x.next <= c.next}

\* A channel starts from the inventory's cursors and is advanced.
Channels(journals) ==
    LET old == Inventory("channels")
    IN IF "payment" \notin journals THEN old
       ELSE {[account |-> 0, next |-> [x \in Directions |->
                 Max({payment.next[x]} \cup {c.next[x] : c \in old})]]}

\* The same exposure is known to the journal and to the inventory.
Exposures(journals) ==
    Inventory("exposures") \cup (IF "payment" \in journals THEN payment.completed ELSE {})

\* capture_portable; the operations and nonces of the inventory are not copied.
Portable(journals) ==
    LET rows == Rows(journals)
    IN [origins |-> <<"seed">>,
        addresses |-> Sorted(Inventory("addresses") \cup UNION {r.addresses : r \in rows}),
        derivation |-> Sorted(MergedCursors(Inventory("derivation"), UNION {r.cursors : r \in rows})),
        nonces |-> Sorted(UNION {r.nonces : r \in rows}),
        operations |-> Sorted(UNION {r.operations : r \in rows}),
        channels |-> Sorted(Channels(journals)),
        exposures |-> Sorted(Exposures(journals))]

\* Journals may be left out, such as those of a wallet that is not open.
CapturePortable(journals) ==
    /\ Validate(Portable(journals))
    /\ previous' = Portable(journals)
    /\ UNCHANGED <<allocation, account, qi, payment, losses>>

----------------------------------------------------------------------------
(* New journals from a backup.                                             *)

\* Mutant: the floor is above the addresses alone.
AddressFloor(doc, chain) ==
    Max({0} \cup {a[4] + 1 : a \in {x \in ToSet(doc.addresses) : x = Bip44(chain, x[4])}})
\* AddressAllocationBook::from_backup starts above cursors and addresses.
Floor(doc, chain) ==
    Max({0} \cup {d.next : d \in {x \in ToSet(doc.derivation) : x.chain = chain}}
            \cup {a[4] + 1 : a \in {x \in ToSet(doc.addresses) : x = Bip44(chain, x[4])}})
AllocationsFromBackup(doc) ==
    [NewAllocations EXCEPT !.cursor = [c \in QiChains |-> Floor(doc, c)]]

Table(S) == [id \in {op.id : op \in S} |-> Record(CHOOSE op \in S : op.id = id)]
\* AccountOperationBook::from_backup
AccountFromBackup(doc) ==
    [next |-> Max({0} \cup {n.next : n \in ToSet(doc.nonces)}),
     ops |-> Table({op \in ToSet(doc.operations) : op.nonce # <<>>})]
\* QiOperationBook::from_backup
QiFromBackup(doc) ==
    [addresses |-> {a \in ToSet(doc.addresses) : IsQi(a)},
     ops |-> Table({op \in ToSet(doc.operations) : op.nonce = <<>>})]
\* PaymentAllocationBook::from_backup; without a channel the journal is new.
PaymentFromBackup(doc) ==
    [NewPayments EXCEPT !.next = IF doc.channels = <<>> THEN @ ELSE doc.channels[1].next]

\* The profile is lost and its journals start again from the last backup.
LoseProfile ==
    /\ previous # Fail /\ losses < MaxLosses
    /\ losses' = losses + 1
    /\ allocation' = AllocationsFromBackup(previous)
    /\ account' = AccountFromBackup(previous)
    /\ qi' = QiFromBackup(previous)
    /\ payment' = PaymentFromBackup(previous)
    /\ UNCHANGED previous

Next ==
    \/ \E c \in QiChains, completed \in BOOLEAN : Allocate(c, completed)
    \/ \E x \in Directions, completed \in BOOLEAN : AllocatePayment(x, completed)
    \/ \E id \in AccountIds : ReserveNonce(id) \/ StepAccount(id)
    \/ \E id \in QiIds : ReserveQi(id) \/ StepQi(id)
    \/ \E journals \in Captures : CapturePortable(journals)
    \/ LoseProfile

Spec == Init /\ [][Next]_vars

----------------------------------------------------------------------------
\* Journals of one wallet and its own earlier backup always make a document
\* that validates, whichever journals are left out; only the
\* addresses of a Qi book need the cursors they were allocated from.  No mixture of floors, exposures and claims from before and after
\* a loss is refused.
PortableValid ==
    \A journals \in Captures :
        ("qi" \in journals => "allocation" \in journals) => Validate(Portable(journals))

NextOf(doc, chain) ==
    Max({0} \cup {d.next : d \in {x \in ToSet(doc.derivation) : x.chain = chain}})
SentOf(doc, x) == Max({0} \cup {c.next[x] : c \in ToSet(doc.channels)})

\* Documented for capture_portable: "All burned cursors survive, including
\* pending/abandoned ranges" and completed addresses and exposures stay in the
\* inventory.  Every later document covers the one before, also when journals
\* are left out or the profile was lost in between.
InventoryGrows ==
    previous # Fail =>
      /\ ToSet(previous.addresses) \subseteq ToSet(previous'.addresses)
      /\ ToSet(previous.exposures) \subseteq ToSet(previous'.exposures)
      /\ \A c \in QiChains : NextOf(previous, c) <= NextOf(previous', c)
      /\ \A x \in Directions : SentOf(previous, x) <= SentOf(previous', x)

\* An address or a payment index the last backup knows is never handed out
\* again, neither by the profile nor by the one that replaced it.
NotHandedOutAgain ==
    previous # Fail =>
        /\ \A c \in QiChains : NextOf(previous, c) <= allocation.cursor[c]
        /\ \A x \in Directions : SentOf(previous, x) <= payment.next[x]
        /\ \A c \in QiChains : \A a \in ToSet(previous.addresses) :
               a = Bip44(c, a[4]) => a[4] < allocation.cursor[c]
====
