----------------------------- MODULE FullBackup -----------------------------
(*************************************************************************)
(* Devices that hold the same seed, each with its own SQLite store, and    *)
(* the encrypted backups they exchange.  A store derives addresses, pays   *)
(* over payment channels and carries operations through their states; a    *)
(* capture reads it in one transaction, and a restore merges a document    *)
(* into it in one transaction, whatever the store did since.               *)
(*************************************************************************)
EXTENDS BackupDocument

CONSTANTS
    Devices,      \* devices with the same seed
    Ids,          \* reservation ids, drawn at random: each by one device
    DrawnBy,      \* DrawnBy[id]: the device that draws it
    KindOf,       \* KindOf[id]: "quai" or "qi"
    Outs,         \* spendable outpoints of the wallet's first Qi address
    Match,        \* Match[chain]: the indexes whose address is in the zone
    PayMatch,     \* the payment indexes whose address is in the zone
    MaxVariants,  \* bound on replacements of one operation
    MaxMoves,     \* MaxMoves[d]: bound on the moves of operations made on d
    OriginSets,   \* the origin lists a caller captures with
    KeyHolders    \* devices that also hold the imported private key

VARIABLES
    store,        \* store[d]: the public state of the device
    file          \* the envelope written last, which the devices share

vars == <<store, file>>

None == [version |-> 0]
Unobserved == {<<>>}
Operations(s) == {s.ops[id] : id \in DOMAIN s.ops}
EmptyStore ==
    [addresses |-> {}, cursor |-> << >>, nonces |-> << >>, ops |-> << >>,
     channels |-> << >>, exposures |-> {}, snapshot |-> Unobserved, moves |-> 0]

Init == store = [d \in Devices |-> EmptyStore] /\ file = None

\* A row set or replaced in a table keyed by k.
Put(table, k, row) == [x \in DOMAIN table \cup {k} |-> IF x = k THEN row ELSE table[x]]
Get(table, k, default) == IF k \in DOMAIN table THEN table[k] ELSE default

----------------------------------------------------------------------------
(* The store's own work.                                                   *)

\* Indexes of the stored addresses of a chain, each with its successor's index.
Above(addresses, chain) == {a[4] + 1 : a \in {x \in addresses : x = Bip44(chain, x[4])}}

\* allocate_address starts at the cursor, or above what is recorded when there
\* is none, and the cursor passes what it searched.  A search that is abandoned
\* leaves no address.
Derive(d, chain, abandoned) ==
    LET s == store[d]
        start == IF chain \in DOMAIN s.cursor THEN s.cursor[chain]
                 ELSE Max({0} \cup Above(s.addresses, chain))
        found == {i \in Match[chain] : i >= start}
    IN /\ found # {}
       /\ store' = [store EXCEPT
              ![d].addresses = IF abandoned THEN @ ELSE @ \cup {Bip44(chain, Min(found))},
              ![d].cursor = Put(@, chain, Min(found) + 1),
              ![d].snapshot = Unobserved]
       /\ UNCHANGED file

\* import_metadata records an address of the chain; an existing cursor passes it.
Discover(d, chain, index) ==
    /\ Bip44(chain, index) \notin store[d].addresses
    /\ store' = [store EXCEPT
           ![d].addresses = @ \cup {Bip44(chain, index)},
           ![d].cursor = IF chain \in DOMAIN @ /\ @[chain] <= index
                         THEN Put(@, chain, index + 1) ELSE @,
           ![d].snapshot = Unobserved]
    /\ UNCHANGED file

Import(d) ==
    /\ d \in KeyHolders /\ ImportedKey \notin store[d].addresses
    /\ store' = [store EXCEPT ![d].addresses = @ \cup {ImportedKey}, ![d].snapshot = Unobserved]
    /\ UNCHANGED file

\* allocate_payment_address: the channel is registered, the searched range is
\* burned and the address exposed.
AllocatePayment(d, account, direction) ==
    LET s == store[d]
        row == Get(s.channels, account, [x \in Directions |-> 0])
        found == {i \in PayMatch : i >= row[direction]}
    IN /\ found # {}
       /\ store' = [store EXCEPT
              ![d].channels = Put(@, account, [row EXCEPT ![direction] = Min(found) + 1]),
              ![d].exposures = @ \cup {[account |-> account, direction |-> direction,
                                        index |-> Min(found), start |-> row[direction],
                                        end |-> Min(found) + 1]},
              ![d].addresses = IF direction = "receive"
                               THEN @ \cup {PaymentAddress(account, Min(found))} ELSE @,
              ![d].snapshot = Unobserved]
       /\ UNCHANGED file

\* A refresh stores the coins of the addresses the store holds; it matters once
\* there is a Qi address.
Refresh(d) ==
    /\ store[d].snapshot = Unobserved /\ \E a \in store[d].addresses : IsQi(a)
    /\ store' = [store EXCEPT ![d].snapshot = store[d].addresses]
    /\ UNCHANGED file

AccountAddress == Bip44("quai", Min(Match["quai"]))
QiAddress == Bip44("qi", Min(Match["qi"]))
Fresh(d, id) == DrawnBy[id] = d /\ id \notin DOMAIN store[d].ops

NewOperation(id, qi, nonce) ==
    [id |-> id, kind |-> KindOf[id], state |-> "Reserved", transaction |-> <<>>,
     inclusion |-> <<>>, qi |-> qi, nonce |-> nonce, payload |-> <<>>,
     replacements |-> <<>>]

ReserveNonce(d, id) ==
    LET next == Get(store[d].nonces, AccountAddress, 0)
    IN /\ Fresh(d, id) /\ KindOf[id] = "quai" /\ AccountAddress \in store[d].addresses
       /\ store' = [store EXCEPT
              ![d].ops = Put(@, id, NewOperation(id, <<>>,
                                <<[address |-> AccountAddress, nonce |-> next]>>)),
              ![d].nonces = Put(@, AccountAddress, next + 1)]
       /\ UNCHANGED file

Claimed(s) == UNION {{c.out : c \in ToSet(op.qi)} : op \in Operations(s)}

\* Coins are only known from a stored snapshot.
ReserveQi(d, id, out) ==
    /\ Fresh(d, id) /\ KindOf[id] = "qi" /\ QiAddress \in store[d].addresses
    /\ store[d].snapshot # Unobserved /\ out \notin Claimed(store[d])
    /\ store' = [store EXCEPT ![d].ops =
           Put(@, id, NewOperation(id, <<[out |-> out, owner |-> QiAddress]>>, <<>>))]
    /\ UNCHANGED file

Transaction(op, n) ==
    [hash |-> <<op.id, n>>, spends |-> Spends(op), price |-> n]

\* A step of a stored operation, from a state it may leave.
Move(d, id, states, Becomes(_)) ==
    /\ id \in DOMAIN store[d].ops /\ store[d].ops[id].state \in states
    /\ store[d].moves < MaxMoves[d]
    /\ store' = [store EXCEPT ![d].ops[id] = Becomes(@), ![d].moves = @ + 1]
    /\ UNCHANGED file

\* With the signed payload, or with its hash alone.
Sign(d, id, held) ==
    Move(d, id, {"Reserved"}, LAMBDA op :
        [op EXCEPT !.state = "Signed", !.transaction = <<<<id, 0>>>>,
                   !.payload = IF held THEN <<Transaction(op, 0)>> ELSE <<>>])

\* A replacement needs the root's payload and follows the last candidate.
Replace(d, id) ==
    /\ id \in DOMAIN store[d].ops /\ store[d].ops[id].payload # <<>>
    /\ Len(store[d].ops[id].replacements) < MaxVariants
    /\ Move(d, id, {"Signed", "Submitted"}, LAMBDA op :
           LET n == Len(op.replacements)
           IN [op EXCEPT !.replacements =
                   Append(@, [parent |-> <<id, n>>, payload |-> Transaction(op, n + 1)])])

Submit(d, id) == Move(d, id, {"Signed"}, LAMBDA op : [op EXCEPT !.state = "Submitted"])
Confirm(d, id) ==
    Move(d, id, {"Submitted"}, LAMBDA op :
        [op EXCEPT !.state = "Confirmed", !.inclusion = <<"block">>])

\* The inclusion block left the chain.
Reorganize(d, id) ==
    Move(d, id, {"Confirmed"}, LAMBDA op :
        [op EXCEPT !.state = "Submitted", !.inclusion = <<>>])

\* Inputs are given back; a nonce stays claimed, and may be reopened.
Release(d, id) ==
    Move(d, id, {"Reserved"}, LAMBDA op : [op EXCEPT !.state = "Released", !.qi = <<>>])
Reopen(d, id) ==
    /\ KindOf[id] = "quai"
    /\ Move(d, id, {"Released"}, LAMBDA op : [op EXCEPT !.state = "Reserved"])

----------------------------------------------------------------------------
(* Backups.                                                                *)

Rows(table, Row(_)) == Sorted({Row(k) : k \in DOMAIN table})

\* capture_public_state: one transaction reads every table.
Document(s, origins) ==
    [origins |-> origins,
     addresses |-> Sorted(s.addresses),
     derivation |-> Rows(s.cursor, LAMBDA c : [chain |-> c, next |-> s.cursor[c]]),
     nonces |-> Rows(s.nonces, LAMBDA a : [address |-> a, next |-> s.nonces[a]]),
     operations |-> Rows(s.ops, LAMBDA id : s.ops[id]),
     channels |-> Rows(s.channels, LAMBDA a : [account |-> a, next |-> s.channels[a]]),
     exposures |-> Sorted(s.exposures)]

\* WalletBackup::capture and encrypt
Capture(d, origins, password) ==
    LET doc == Document(store[d], origins)
    IN /\ Validate(doc) /\ PasswordValid(password)
       /\ file' = Encrypt(doc, password)
       /\ UNCHANGED store

Conflict == [id |-> "conflict"]
ClaimFree(s, op) ==
    /\ {c.out : c \in ToSet(op.qi)} \cap Claimed(s) = {}
    /\ op.nonce = <<>> \/ \A o \in Operations(s) : o.nonce # op.nonce

\* Mutant: the document's version of a stored operation wins.
MergedOverwrites(s, op) ==
    IF op.id \notin DOMAIN s.ops /\ ~ClaimFree(s, op) THEN Conflict ELSE op

\* A stored operation must be the same; a new one must find its outpoints and
\* its nonce unclaimed (the primary keys of qi_claims and nonce_claims).
MergedOperation(s, op) ==
    IF op.id \in DOMAIN s.ops THEN IF s.ops[op.id] = op THEN op ELSE Conflict
    ELSE IF ClaimFree(s, op) THEN op ELSE Conflict

\* The higher cursor, above every address the store will hold.
RestoredCursor(s, doc, chain) ==
    LET incoming == {r.next : r \in {x \in ToSet(doc.derivation) : x.chain = chain}}
    IN Max(incoming \cup Above(s.addresses \cup ToSet(doc.addresses), chain)
               \cup {Get(s.cursor, chain, 0)})

RestoredNonce(s, doc, address) ==
    LET incoming == {r.next : r \in {x \in ToSet(doc.nonces) : x.address = address}}
    IN Max(incoming \cup {Get(s.nonces, address, 0)})

\* restore_channels
RestoredChannel(s, doc, account) ==
    LET incoming == {r.next : r \in {x \in ToSet(doc.channels) : x.account = account}}
                        \cup {Get(s.channels, account, [x \in Directions |-> 0])}
    IN [x \in Directions |-> Max({n[x] : n \in incoming})]

\* insert_exposure accepts a stored child only when the rows are identical.
AdmitsExposure(s, e) ==
    \A f \in s.exposures :
        <<e.account, e.direction, e.index>> = <<f.account, f.direction, f.index>> => e = f

\* clear_snapshot and head_state::clear
ClearSnapshot(s) == Unobserved

\* restore_public_state: everything the document says is merged in, what was
\* observed of the chain is dropped.
Restored(s, doc) ==
    [addresses |-> s.addresses \cup ToSet(doc.addresses),
     cursor |-> [c \in DOMAIN s.cursor \cup {r.chain : r \in ToSet(doc.derivation)} |->
                     RestoredCursor(s, doc, c)],
     nonces |-> [a \in DOMAIN s.nonces \cup {r.address : r \in ToSet(doc.nonces)} |->
                     RestoredNonce(s, doc, a)],
     ops |-> [id \in DOMAIN s.ops \cup {op.id : op \in ToSet(doc.operations)} |->
                 LET given == {op \in ToSet(doc.operations) : op.id = id}
                 IN IF given = {} THEN s.ops[id]
                    ELSE MergedOperation(s, CHOOSE op \in given : TRUE)],
     channels |-> [a \in DOMAIN s.channels \cup {r.account : r \in ToSet(doc.channels)} |->
                       RestoredChannel(s, doc, a)],
     exposures |-> s.exposures \cup ToSet(doc.exposures),
     snapshot |-> ClearSnapshot(s),
     moves |-> s.moves]

\* A conflict fails the whole transaction, and nothing changes.
RestoreDocument(d, doc) ==
    /\ doc # Fail
    /\ \A op \in ToSet(doc.operations) : MergedOperation(store[d], op) # Conflict
    /\ \A x \in ToSet(doc.exposures) : AdmitsExposure(store[d], x)
    /\ store' = [store EXCEPT ![d] = Restored(@, doc)]
Restore(d, password) ==
    /\ file # None
    /\ RestoreDocument(d, Decrypt(file, password))
    /\ UNCHANGED file

Next ==
    \E d \in Devices :
        \/ \E c \in Chains, abandoned \in BOOLEAN : Derive(d, c, abandoned)
        \/ \E c \in Chains : \E i \in Match[c] : Discover(d, c, i)
        \/ Import(d)
        \/ \E a \in PayAccounts, x \in Directions : AllocatePayment(d, a, x)
        \/ Refresh(d)
        \/ \E id \in Ids : \/ ReserveNonce(d, id)
                           \/ \E out \in Outs : ReserveQi(d, id, out)
                           \/ \E held \in BOOLEAN : Sign(d, id, held)
                           \/ Replace(d, id)
                           \/ Submit(d, id) \/ Confirm(d, id)
                           \/ Release(d, id) \/ Reopen(d, id)
                           \/ Reorganize(d, id)
        \/ \E o \in OriginSets, p \in Passwords : Capture(d, o, p)
        \/ \E p \in Passwords : Restore(d, p)

Spec == Init /\ [][Next]_vars

----------------------------------------------------------------------------
EveryOrigin == <<"seed", "imported">>

Nonces(s) == {op.nonce[1] : op \in {o \in Operations(s) : o.nonce # <<>>}}
TypeOK ==
    /\ file = None \/ file.version \in 1..5
    /\ \A d \in Devices :
        LET s == store[d]
        IN /\ DOMAIN s.cursor \subseteq Chains /\ DOMAIN s.ops \subseteq Ids
           /\ \A c \in DOMAIN s.cursor : s.cursor[c] \in 0..End
           /\ \A a \in DOMAIN s.nonces : s.nonces[a] \in 0..Cardinality(Ids)
           /\ \A a \in DOMAIN s.channels : s.channels[a] \in [Directions -> 0..End]

\* Whatever the store went through, restores of older and of other devices'
\* backups included, a capture with the wallet's keys passes validate: cursors
\* are above the addresses and the claims, and no two operations compete.
CaptureValid ==
    \A d \in Devices : Validate(Document(store[d], EveryOrigin))

\* A document that can be captured is read back as it was written: the version
\* in the header always announces every section the document has.
RoundTrips ==
    \A d \in Devices, o \in OriginSets, p \in Passwords \ {""} :
        LET doc == Document(store[d], o)
        IN Validate(doc) => Decrypt(Encrypt(doc, p), p) = doc

\* What a store has promised it keeps.
Keeps(s, t) ==
    /\ s.addresses \subseteq t.addresses /\ s.exposures \subseteq t.exposures
    /\ \A c \in DOMAIN s.cursor : s.cursor[c] <= t.cursor[c]
    /\ \A a \in DOMAIN s.nonces : s.nonces[a] <= t.nonces[a]
    /\ \A a \in DOMAIN s.channels : \A x \in Directions : s.channels[a][x] <= t.channels[a][x]
    /\ \A id \in DOMAIN s.ops :
           /\ s.ops[id].transaction # <<>> =>
                  /\ t.ops[id].transaction = s.ops[id].transaction
                  /\ t.ops[id].payload = s.ops[id].payload /\ t.ops[id].qi = s.ops[id].qi
                  /\ IsPrefix(s.ops[id].replacements, t.ops[id].replacements)
           /\ s.ops[id].nonce = t.ops[id].nonce

\* No step, a restore of a stale document included, lowers a cursor, forgets an
\* address or gives up what an operation signed.
NothingLost == \A d \in Devices : Keeps(store[d], store'[d])

\* A stored coin snapshot has observed every address of the store: a restore
\* that adds addresses never leaves the old snapshot to spend from.
SnapshotWatchesAll ==
    \A d \in Devices : store[d].snapshot # Unobserved => store[d].addresses \subseteq store[d].snapshot

----------------------------------------------------------------------------
(*************************************************************************)
(* The plaintext JSON of quais.js wallets: export_quais_json writes one    *)
(* coin of a backup, import_quais_json rebuilds a backup from it.  The     *)
(* JSON has addresses and no cursors: what was burned beyond the exported   *)
(* addresses cannot be written down.                                       *)
(*                                                                        *)
(* A row is a record of the address list; path is "none" (Quai), a BIP44    *)
(* branch, "key" (the private key in hexadecimal) or "peer" (the payment    *)
(* code).  There is one peer: sent is <<>> when the peer is not listed.     *)
(*************************************************************************)

Coins == {"quai", "qi"}
ChainsOf(coin) == IF coin = "qi" THEN QiChains ELSE Chains \ QiChains
IsChange(chain) == chain \in {"quaichange", "qichange"}
Refused == [coin |-> "refused", rows |-> {}, sent |-> <<>>]

\* make_row
Row(coin, account, index, path, change) ==
    [account |-> account, index |-> index, path |-> path,
     change |-> IF coin = "qi" THEN <<change>> ELSE <<>>]

BranchPath(coin, chain) ==
    IF coin = "quai" THEN "none" ELSE IF IsChange(chain) THEN "BIP44:change" ELSE "BIP44:external"

\* The row of an address of the coin's ledger.
ExportRow(coin, a) ==
    CASE a[1] = "bip44" -> Row(coin, a[3], a[4], BranchPath(coin, a[2]), IsChange(a[2]))
      [] a = ImportedKey -> Row(coin, 0, -1, "key", FALSE)
      [] OTHER -> Row(coin, a[3], a[4], "peer", FALSE)

LedgerAddresses(doc, coin) == {a \in ToSet(doc.addresses) : IsQi(a) = (coin = "qi")}

\* What the JSON cannot say of the address list.
RowRefused(doc, coin, a) ==
    \/ coin = "quai" /\ (a[1] = "imported" \/ IsChange(a[2]))
    \/ a = ImportedKey /\ "imported" \notin ToSet(doc.origins)

Tail0(indexes) == Max({0} \cup {i + 1 : i \in indexes})

\* The cursor is where an importer of the rows would put it.
HdTail(doc, d) ==
    d.next = Tail0({a[4] : a \in {x \in ToSet(doc.addresses) : x = Bip44(d.chain, x[4])}})

Retained(doc, c) == {e \in ToSet(doc.exposures) : e.account = c.account}

\* So are the cursors of a channel, in both directions; an account above 0 is
\* only known from its exposures.
ChannelTail(doc, c) ==
    /\ c.account > 0 => Retained(doc, c) # {}
    /\ \A x \in Directions :
           c.next[x] = Tail0({e.index : e \in {y \in Retained(doc, c) : y.direction = x}})

\* export_quais_json
Export(doc, coin) ==
    IF \/ "seed" \notin ToSet(doc.origins) \/ ~Validate(doc)
       \/ doc.operations # <<>> \/ \E n \in ToSet(doc.nonces) : n.next > 0
       \/ \E d \in ToSet(doc.derivation) : d.chain \in ChainsOf(coin) /\ ~HdTail(doc, d)
       \/ \E a \in LedgerAddresses(doc, coin) : RowRefused(doc, coin, a)
       \/ coin = "qi" /\ \E c \in ToSet(doc.channels) : ~ChannelTail(doc, c)
    THEN Refused
    ELSE [coin |-> coin,
          rows |-> {ExportRow(coin, a) : a \in LedgerAddresses(doc, coin)},
          sent |-> IF coin = "quai" \/ doc.channels = <<>> THEN <<>>
                   ELSE <<{Row(coin, e.account, e.index, "peer", FALSE) :
                              e \in {x \in ToSet(doc.exposures) : x.direction = "send"}}>>]

----------------------------------------------------------------------------
\* row_public and the row's place in the document.
RowValid(coin, row) ==
    /\ (coin = "qi") = (row.change # <<>>) /\ (coin = "qi") = (row.path # "none")
    /\ row.path = "key" => row.index = -1 /\ row.account = 0 /\ row.change = <<FALSE>>
    /\ row.path # "key" => row.index \in 0..(End - 1)
    /\ row.path = "BIP44:change" => row.change = <<TRUE>>
    /\ row.path \in {"BIP44:external", "peer"} => row.change = <<FALSE>>

ChainOf(coin, row) ==
    CHOOSE c \in ChainsOf(coin) : IsChange(c) = (row.path = "BIP44:change")
IsHd(row) == row.path \in {"none", "BIP44:external", "BIP44:change"}

\* The key of a row is proved from the seed, the private key or the channel.
ImportRow(coin, row) ==
    CASE IsHd(row) -> Bip44(ChainOf(coin, row), row.index)
      [] row.path = "key" -> ImportedKey
      [] OTHER -> PaymentAddress(row.account, row.index)

\* Channels::exposure: an imported exposure burns its own index.
ImportExposure(direction, row) ==
    [account |-> row.account, direction |-> direction, index |-> row.index,
     start |-> row.index, end |-> row.index + 1]

ImportExposures(json) ==
    {ImportExposure("receive", r) : r \in {x \in json.rows : x.path = "peer"}}
        \cup (IF json.sent = <<>> THEN {}
              ELSE {ImportExposure("send", r) : r \in json.sent[1]})

\* Channels::open: from the exposures, and account 0 for a peer without any.
ImportAccounts(json) ==
    LET named == {e.account : e \in ImportExposures(json)}
    IN IF named = {} /\ json.sent # <<>> THEN {0} ELSE named

ImportCursor(json, chain) ==
    Max({r.index + 1 : r \in {x \in json.rows : IsHd(x) /\ ChainOf(json.coin, x) = chain}})

\* import_quais_json
ImportJson(json) ==
    LET hd == {ChainOf(json.coin, r) : r \in {x \in json.rows : IsHd(x)}}
        exposures == ImportExposures(json)
        doc == [origins |-> <<"seed">> \o (IF \E r \in json.rows : r.path = "key"
                                           THEN <<"imported">> ELSE <<>>),
                addresses |-> Sorted({ImportRow(json.coin, r) : r \in json.rows}),
                derivation |-> Sorted({[chain |-> c, next |-> ImportCursor(json, c)] : c \in hd}),
                nonces |-> <<>>, operations |-> <<>>,
                channels |-> Sorted({[account |-> a,
                    next |-> [x \in Directions |-> Tail0({e.index : e \in
                        {y \in exposures : y.account = a /\ y.direction = x}})]] :
                    a \in ImportAccounts(json)}),
                exposures |-> Sorted(exposures)]
    IN IF json # Refused /\ (\A r \in json.rows : RowValid(json.coin, r)) /\ Validate(doc)
       THEN doc ELSE Fail

\* A payment channel is registered before anything is exposed on it.
RegisterChannel(d, account) ==
    /\ account \notin DOMAIN store[d].channels
    /\ store' = [store EXCEPT ![d].channels = Put(@, account, [x \in Directions |-> 0])]
    /\ UNCHANGED file

\* A payment search that found nothing, or was abandoned, has burned its range.
BurnPayment(d, account, direction) ==
    /\ account \in DOMAIN store[d].channels
    /\ store[d].channels[account][direction] < End
    /\ store' = [store EXCEPT ![d].channels[account][direction] = @ + 1]
    /\ UNCHANGED file

LegacyNext ==
    \/ Next
    \/ \E d \in Devices, a \in PayAccounts :
           RegisterChannel(d, a) \/ \E x \in Directions : BurnPayment(d, a, x)

LegacySpec == Init /\ [][LegacyNext]_vars

----------------------------------------------------------------------------
NextOf(doc, chain) == Max({0} \cup {d.next : d \in {x \in ToSet(doc.derivation) : x.chain = chain}})
ChannelNext(doc, account, x) ==
    Max({0} \cup {c.next[x] : c \in {y \in ToSet(doc.channels) : y.account = account}})

Exportable(doc, coin) == Export(doc, coin) # Refused
KeepsCursors(doc, back, coin) ==
    /\ back # Fail
    /\ ToSet(back.addresses) = LedgerAddresses(doc, coin)
    /\ \A c \in ChainsOf(coin) : NextOf(doc, c) <= NextOf(back, c)
    /\ coin = "qi" => \A a \in PayAccounts, x \in Directions :
           ChannelNext(doc, a, x) = ChannelNext(back, a, x)

\* Documented for export_quais_json: state it cannot write "rejects instead of
\* silently weakening recovery".  An accepted export is imported again, proves
\* every address of the coin, and no cursor of the coin comes back lower.
LegacyKeepsCursors ==
    \A d \in Devices, coin \in Coins :
        LET doc == Document(store[d], EveryOrigin)
        IN Exportable(doc, coin) => KeepsCursors(doc, ImportJson(Export(doc, coin)), coin)

\* What an import built can be exported again, to the same document: imports
\* invent no state that the JSON could not carry.
LegacyFixpoint ==
    \A d \in Devices, coin \in Coins :
        LET json == Export(Document(store[d], EveryOrigin), coin)
        IN json # Refused => Export(ImportJson(json), coin) = json
=============================================================================
