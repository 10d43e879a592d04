-------------------------- MODULE BackupDocument --------------------------
(*************************************************************************)
(* The encrypted wallet backup of one network scope: what a document      *)
(* holds, when it is valid, how it is written and read back, and the       *)
(* envelope around it.                                                     *)
(*                                                                        *)
(* A plaintext is a sequence of tokens: a count or a flag is one token, a  *)
(* row of fixed size is one token.  What a reader makes of a token depends *)
(* on its place alone, as in the code.  Keys stand for themselves: an      *)
(* address row is <<origin, branch, account, index>>, and a BIP44 row is    *)
(* derived from the seed, an imported one from the imported key ("key") or *)
(* from a payment channel ("pay").                                         *)
(*************************************************************************)
EXTENDS Integers, Sequences, FiniteSets, SequencesExt, FiniteSetsExt

CONSTANTS
    Chains,       \* derivation branches of the wallet's account: coin and change
    QiChains,     \* those of the Qi coin; the others are Quai
    End,          \* the first index that cannot be derived
    PayAccounts,  \* payment-code accounts with a channel to the peer
    XprvAccount,  \* the account a payment-account origin holds
    Passwords,    \* passwords a caller may use; "" is the empty one
    MaxRecords    \* MAX_RECORDS

DocumentAssumption ==
    /\ End \in Nat \ {0} /\ MaxRecords \in Nat
    /\ QiChains \subseteq Chains

Directions == {"send", "receive"}
\* A document no reader accepts: every failed read or check ends here.
Fail == [origins |-> <<>>]

\* BackupOriginKind; a seed and a master key derive the same accounts.
OriginKinds == {"seed", "imported", "paymentAccount"}

Unsigned == {"Reserved", "Released"}
Bip44(chain, index) == <<"bip44", chain, 0, index>>
ImportedKey == <<"imported", "key", 0, 0>>
PaymentAddress(account, index) == <<"imported", "pay", account, index>>
IsQi(a) == a[2] \notin (Chains \ QiChains)

\* A sequence of the elements of a set in the order the queries sort them in.
Sorted(S) == FoldSet(LAMBDA x, s : Append(s, x), <<>>, S)

----------------------------------------------------------------------------
(* Validation.                                                             *)

\* BackupOrigin::payment_code: the origins that own a payment account.
OwnsAccount(origin, account) ==
    origin = "seed" \/ (origin = "paymentAccount" /\ account = XprvAccount)

\* payment_proof: channels are owned and unique, exposures belong to a
\* channel whose cursor has passed them, received ones to a stored address.
PaymentProof(doc) ==
    /\ \A c \in ToSet(doc.channels) :
           \E o \in ToSet(doc.origins) : OwnsAccount(o, c.account)
    /\ \A i, j \in DOMAIN doc.channels :
           doc.channels[i].account = doc.channels[j].account => i = j
    /\ \A i, j \in DOMAIN doc.exposures :
           LET e == doc.exposures[i]
               f == doc.exposures[j]
           IN <<e.account, e.direction, e.index>> = <<f.account, f.direction, f.index>>
              => i = j
    /\ \A e \in ToSet(doc.exposures) :
           /\ e.start <= e.index /\ e.index < e.end /\ e.end <= End
           /\ \E c \in ToSet(doc.channels) :
                  c.account = e.account /\ e.end <= c.next[e.direction]
           /\ e.direction = "receive" =>
                  PaymentAddress(e.account, e.index) \in ToSet(doc.addresses)

\* The key of an address is derived from an origin or from a received payment.
Owned(doc, a) ==
    CASE a[1] = "bip44" -> "seed" \in ToSet(doc.origins)
      [] a = ImportedKey -> "imported" \in ToSet(doc.origins)
      [] OTHER -> \E e \in ToSet(doc.exposures) :
                      e.direction = "receive" /\ a = PaymentAddress(e.account, e.index)

\* The transactions of a family in the order they were signed.
Family(root, variants) ==
    <<root>> \o [i \in DOMAIN variants |-> variants[i].payload]

\* validate_family and validate_qi_family: every variant replaces an earlier
\* member, spends the same and pays more.
ValidFamily(root, variants) ==
    LET f == Family(root, variants)
    IN \A i \in DOMAIN variants :
           /\ \E j \in 1..i : /\ f[j].hash = variants[i].parent
                              /\ f[i + 1].spends = f[j].spends
                              /\ f[i + 1].price > f[j].price
           /\ \A j \in 1..i : f[j].hash # f[i + 1].hash

\* What an operation's payload must spend: its claims or its nonce.
Spends(op) == IF op.kind = "qi" THEN ToSet(op.qi) ELSE ToSet(op.nonce)

ValidOperation(doc, op) ==
    /\ op.replacements # <<>> =>
           op.payload # <<>> /\ ValidFamily(op.payload[1], op.replacements)
    /\ (op.state \in Unsigned) = (op.transaction = <<>>)
    /\ (op.state = "Confirmed") = (op.inclusion # <<>>)
    /\ op.state \in Unsigned => op.payload = <<>>
    /\ IF op.kind = "qi"
       THEN /\ op.nonce = <<>>
            /\ (op.state = "Released") = (op.qi = <<>>)
            /\ \A c \in ToSet(op.qi) : c.owner \in ToSet(doc.addresses) /\ IsQi(c.owner)
       ELSE /\ op.qi = <<>> /\ op.nonce # <<>>
            /\ \E n \in ToSet(doc.nonces) :
                   n.address = op.nonce[1].address /\ op.nonce[1].nonce < n.next
    /\ op.payload # <<>> =>
           /\ op.payload[1].spends = Spends(op)
           /\ <<op.payload[1].hash>> = op.transaction

\* No two operations share an id, an outpoint or a nonce.
DisjointOperations(ops) ==
    \A i, j \in DOMAIN ops :
        i # j => /\ ops[i].id # ops[j].id
                 /\ {c.out : c \in ToSet(ops[i].qi)} \cap {c.out : c \in ToSet(ops[j].qi)} = {}
                 /\ ops[i].nonce = <<>> \/ ops[i].nonce # ops[j].nonce

Records(doc) ==
    Len(doc.addresses) + Len(doc.derivation) + Len(doc.nonces) + Len(doc.operations)
        + Len(doc.channels) + Len(doc.exposures)
        + FoldLeft(LAMBDA n, op : n + Len(op.qi), 0, doc.operations)

\* WalletBackup::validate
Validate(doc) ==
    /\ doc.origins # <<>>
    /\ Records(doc) <= MaxRecords
    /\ PaymentProof(doc)
    /\ IsInjective(doc.addresses)
    /\ \A a \in ToSet(doc.addresses) : Owned(doc, a) /\ a[4] < End
    /\ \A i, j \in DOMAIN doc.derivation :
           doc.derivation[i].chain = doc.derivation[j].chain => i = j
    /\ \A d \in ToSet(doc.derivation) :
           /\ d.next <= End /\ "seed" \in ToSet(doc.origins)
           /\ \A a \in ToSet(doc.addresses) :
                  a = Bip44(d.chain, a[4]) => a[4] < d.next
    /\ \A n \in ToSet(doc.nonces) : n.address \in ToSet(doc.addresses)
    /\ \A i, j \in DOMAIN doc.nonces :
           doc.nonces[i].address = doc.nonces[j].address => i = j
    /\ DisjointOperations(doc.operations)
    /\ \A op \in ToSet(doc.operations) : ValidOperation(doc, op)

----------------------------------------------------------------------------
(* The plaintext.                                                          *)

\* WalletBackup::version: the oldest reader that understands the document.
Version(doc) ==
    LET replaced(kinds) == \E op \in ToSet(doc.operations) :
                               op.kind \in kinds /\ op.replacements # <<>>
    IN IF replaced({"qi"}) THEN 5
       ELSE IF replaced({"qi", "quai"}) THEN 4
       ELSE IF "paymentAccount" \in ToSet(doc.origins) THEN 3
       ELSE IF doc.channels = <<>> /\ doc.exposures = <<>> THEN 1 ELSE 2

\* A count and its rows.  An optional field is a row behind a flag, a payload
\* the bytes behind their length: both are counted rows of length 0 or 1.
Counted(rows) == <<Len(rows)>> \o rows
Extension(version) == IF version >= 2 THEN 1 ELSE 0

WriteVariants(variants) ==
    <<Len(variants)>>
        \o FlattenSeq([i \in DOMAIN variants |->
                           <<variants[i].parent>> \o Counted(<<variants[i].payload>>)])

WriteOperation(op, version) ==
    <<op.id, op.kind, op.state>>
        \o Counted(op.transaction) \o Counted(op.inclusion) \o Counted(op.qi)
        \o Counted(op.nonce) \o Counted(op.payload)
        \o (IF version >= 4 THEN WriteVariants(op.replacements) ELSE <<>>)

\* encode_payments
WritePayments(doc, version) ==
    IF version = 1 THEN <<>> ELSE Counted(doc.channels) \o Counted(doc.exposures)

\* write_plaintext
Encode(doc, version) ==
    <<Extension(version)>>
        \o Counted(doc.origins) \o Counted(doc.addresses) \o Counted(doc.derivation)
        \o Counted(doc.nonces) \o <<Len(doc.operations)>>
        \o FlattenSeq([i \in DOMAIN doc.operations |->
                           WriteOperation(doc.operations[i], version)])
        \o WritePayments(doc, version)

\* A reader holds the tokens left, the record budget left and the value of the
\* last read; bad is set by the first read that fails, and sticks.
Reader(tokens) == [rest |-> tokens, budget |-> MaxRecords, got |-> <<>>, bad |-> FALSE]
Broken(r) == [r EXCEPT !.rest = <<>>, !.got = <<>>, !.bad = TRUE]

\* Reader::take of one token.
Take(r) ==
    IF r.bad \/ r.rest = <<>> THEN Broken(r)
    ELSE [r EXCEPT !.rest = Tail(@), !.got = <<Head(r.rest)>>]

\* A count followed by that many rows; cost is what a row takes of the budget.
CountIn(c) == IF c.bad THEN 0 ELSE c.got[1]
RowsAfter(c, n, cost) ==
    IF c.bad \/ n > Len(c.rest) \/ n * cost > c.budget THEN Broken(c)
    ELSE [c EXCEPT !.rest = SubSeq(@, n + 1, Len(@)), !.budget = @ - n * cost,
                   !.got = SubSeq(c.rest, 1, n)]
TakeRows(c, cost) == RowsAfter(c, CountIn(c), cost)
TakeCounted(r, cost) == TakeRows(Take(r), cost)

\* The fields of a record are read one after another, each with its cost or as
\* one Plain token; the readers that took them hold the record.
Plain == -1
ReadField(readers, cost) ==
    Append(readers, IF cost = Plain THEN Take(Last(readers)) ELSE TakeCounted(Last(readers), cost))
ReadFields(r, costs) == Tail(FoldLeft(ReadField, <<r>>, costs))

\* A parent and the payload it is replaced by, which may not be empty.
VariantOf(acc, fields) ==
    IF fields[2].got = <<>> THEN [acc EXCEPT !.reader = Broken(fields[2])]
    ELSE [reader |-> fields[2],
          out |-> Append(acc.out, [parent |-> fields[1].got[1], payload |-> fields[2].got[1]])]
ReadVariant(acc, i) == VariantOf(acc, ReadFields(acc.reader, <<Plain, 0>>))

\* Variants follow an operation only from version 4 on.
VariantsAfter(c) == FoldLeft(ReadVariant, [reader |-> c, out |-> <<>>], [i \in 1..CountIn(c) |-> i])
ReadVariants(r, version) ==
    IF version < 4 THEN [reader |-> r, out |-> <<>>] ELSE VariantsAfter(Take(r))

\* The last field is a payload; a Qi operation has variants from version 5 on.
OperationOf(acc, version, f, variants) ==
    IF variants.reader.bad \/ (version < 5 /\ f[2].got = <<"qi">> /\ variants.out # <<>>)
    THEN [acc EXCEPT !.reader = Broken(variants.reader)]
    ELSE [reader |-> variants.reader,
          out |-> Append(acc.out,
              [id |-> f[1].got[1], kind |-> f[2].got[1], state |-> f[3].got[1],
               transaction |-> f[4].got, inclusion |-> f[5].got, qi |-> f[6].got,
               nonce |-> f[7].got, payload |-> f[8].got, replacements |-> variants.out])]
ReadVariantsOf(acc, version, fields) ==
    OperationOf(acc, version, fields, ReadVariants(Last(fields), version))
ReadOperation(acc, version) ==
    ReadVariantsOf(acc, version, ReadFields(acc.reader, <<Plain, Plain, Plain, 0, 0, 1, 0, 0>>))

OperationsAfter(c, version) ==
    FoldLeft(LAMBDA acc, i : ReadOperation(acc, version),
             [reader |-> IF CountIn(c) > c.budget THEN Broken(c)
                         ELSE [c EXCEPT !.budget = @ - CountIn(c)],
              out |-> <<>>],
             [i \in 1..CountIn(c) |-> i])
ReadOperations(r, version) == OperationsAfter(Take(r), version)

\* decode_payments: the channels and the exposures.
ReadPayments(r, version) == IF version = 1 THEN <<>> ELSE ReadFields(r, <<1, 1>>)
PaymentsRead(payments, field) == IF payments = <<>> THEN <<>> ELSE payments[field].got

\* decode_version: nothing may be left over, and the document is validated.
Checked(doc, extension, last, version) ==
    IF \/ last.bad \/ last.rest # <<>>
       \/ extension # <<Extension(version)>>
       \/ ("paymentAccount" \in ToSet(doc.origins) /\ version < 3)
       \/ ~Validate(doc)
    THEN Fail ELSE doc
DocumentOf(f, operations, payments, version) ==
    Checked([origins |-> f[2].got, addresses |-> f[3].got, derivation |-> f[4].got,
             nonces |-> f[5].got, operations |-> operations.out,
             channels |-> PaymentsRead(payments, 1), exposures |-> PaymentsRead(payments, 2)],
            f[1].got, IF payments = <<>> THEN operations.reader ELSE Last(payments), version)
DecodePayments(f, operations, version) ==
    DocumentOf(f, operations, ReadPayments(operations.reader, version), version)
DecodeOperations(f, version) == DecodePayments(f, ReadOperations(Last(f), version), version)
Decode(tokens, version) ==
    DecodeOperations(ReadFields(Reader(tokens), <<Plain, 0, 1, 1, 1>>), version)

----------------------------------------------------------------------------
(* The envelope.  The cipher opens a plaintext only with the password and   *)
(* the header it was sealed with.                                          *)

PasswordValid(password) == password # ""

\* WalletBackup::encrypt
Sealed(version, plaintext, password) ==
    [version |-> version, length |-> Len(plaintext), password |-> password, plaintext |-> plaintext]
Encrypt(doc, password) == Sealed(Version(doc), Encode(doc, Version(doc)), password)

\* header
HeaderValid(envelope) ==
    /\ envelope.version \in 1..5
    /\ envelope.length > 0 /\ envelope.length = Len(envelope.plaintext)

\* EncryptedWalletBackup::decrypt
Decrypt(envelope, password) ==
    IF PasswordValid(password) /\ HeaderValid(envelope) /\ password = envelope.password
    THEN Decode(envelope.plaintext, envelope.version) ELSE Fail
====
