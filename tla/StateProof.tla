----------------------------- MODULE StateProof -----------------------------
(***************************************************************************)
(* Merkle-Patricia state proofs of quai-provider: the walk of a proof      *)
(* (state_proof.rs) and the check of a reported account and its storage    *)
(* against a trusted state root (account_proof.rs).  A hash is the node it *)
(* commits to, which is what a collision-free hash over canonically        *)
(* decoded nodes (below) gives.  A branch has Arity children     *)
(* instead of sixteen, a byte is a pair of nibbles, and a key has KeyLen   *)
(* nibbles.  Nodes no longer than Inline are embedded in their parents.    *)
(***************************************************************************)
EXTENDS Integers, SequencesExt

CONSTANTS Arity, KeyLen, Inline, MaxProofNodes, Maps, Keys,
          Addresses, Slots, KeyOf, Worlds, SlotLists, PageWeight, TargetLists,
          Single, Short, Sizes, MaxDepth, MaxBytes, Items

ProofAssumption == /\ Arity \in Nat \ {0, 1}
                   /\ KeyLen \in Nat /\ KeyLen % 2 = 0
                   /\ Inline \in Nat /\ MaxProofNodes \in Nat
                   /\ {Single, Short, Sizes, MaxDepth, MaxBytes} \subseteq Nat

VARIABLES input, output

vars == <<input, output>>

Nothing == [ok |-> FALSE]
Pending == [ok |-> FALSE, asked |-> TRUE]
Absent == [n |-> 0]
From(s, n) == SubSeq(s, n + 1, Len(s))

----------------------------------------------------------------------------
(* The chain's side, from the trie the tests build: hex-prefix paths and   *)
(* the proofs made from them.  A map gives every key a value or Absent.    *)
(* The nonce and the size of an account are compared as its balance is.    *)

None == [ref |-> "none"]
Value(v) == [ref |-> "value", value |-> v]
EmptyTrieRoot == None

Pairs(nibbles) == [i \in 1..(Len(nibbles) \div 2) |-> <<nibbles[2 * i - 1], nibbles[2 * i]>>]
Compact(leaf, nibbles) ==
    LET odd == Len(nibbles) % 2
    IN  <<<<(IF leaf THEN 2 ELSE 0) + odd, IF odd = 1 THEN nibbles[1] ELSE 0>>>>
        \o Pairs(From(nibbles, odd))

SmallNode(node) == node.kind = "short" /\ Len(node.encoded) <= Inline /\ node.value.ref = "value"
Refer(node) == [ref |-> IF SmallNode(node) THEN "inline" ELSE "hash", node |-> node]

\* The node of a nonempty map from path suffixes to values.
RECURSIVE Build(_)
Build(entries) ==
    LET paths  == DOMAIN entries
        common == LongestCommonPrefix(paths)
        Below(prefix) == [s \in {From(p, Len(prefix)) : p \in {q \in paths : IsPrefix(prefix, q)}} |->
                            entries[prefix \o s]]
    IN  IF Cardinality(paths) = 1
        THEN [kind |-> "short", encoded |-> Compact(TRUE, common), value |-> Value(entries[common])]
        ELSE IF common # <<>>
        THEN [kind |-> "short", encoded |-> Compact(FALSE, common), value |-> Refer(Build(Below(common)))]
        ELSE [kind |-> "branch",
              children |-> [n \in 0..(Arity - 1) |->
                              IF \E p \in paths : p[1] = n THEN Refer(Build(Below(<<n>>))) ELSE None]]

Present(map) == {k \in DOMAIN map : map[k] # Absent}
Root(map) == IF Present(map) = {} THEN EmptyTrieRoot
             ELSE [ref |-> "hash", node |-> Build([k \in Present(map) |-> map[k]])]
At(map, k) == IF k \in DOMAIN map THEN map[k] ELSE Absent

\* The hashed nodes on the way to a key, as a node reports them.
RECURSIVE Along(_, _)
Along(ref, rest) ==
    IF ref.ref \in {"none", "value"} THEN <<>>
    ELSE LET node  == ref.node
             first == IF ref.ref = "hash" THEN <<node>> ELSE <<>>
             skip  == {n \in 0..Len(rest) : node.kind = "short"
                         /\ node.encoded = Compact(FALSE, SubSeq(rest, 1, n))}
         IN  first \o CASE node.kind = "branch" -> Along(node.children[rest[1]], Tail(rest))
                        [] node.kind = "short" /\ skip # {} ->
                             Along(node.value, From(rest, CHOOSE n \in skip : TRUE))
                        [] OTHER -> <<>>
ProofFor(map, k) == Along(Root(map), k)

----------------------------------------------------------------------------
(* The walk.                                                               *)

HexPrefix(encoded) ==
    LET flag == encoded[1][1]
    IN  IF encoded = <<>> \/ flag > 3 \/ (flag % 2 = 0 /\ encoded[1][2] # 0) THEN Nothing
        ELSE [ok |-> TRUE, leaf |-> flag >= 2,
              nibbles |-> (IF flag % 2 = 1 THEN <<encoded[1][2]>> ELSE <<>>)
                          \o FlattenSeq(Tail(encoded))]

\* A reference to follow: a hash of the next proof node, or an embedded node.
Follows(ref) == ref.ref \in {"hash", "inline"}

Found(v, used) == [ok |-> TRUE, value |-> v, used |-> used]

IsNode(raw, expected) == raw = expected.node

RECURSIVE WalkFrom(_, _, _, _, _)
WalkBranch(child, path, at, used, proof) ==
    IF child = None THEN Found(Absent, used)
    ELSE IF ~Follows(child) THEN Nothing
    ELSE WalkFrom(child, path, at + 1, used, proof)

WalkShort(value, hp, rest, path, at, used, proof) ==
    IF ~hp.ok \/ (hp.ok /\ hp.leaf /\ Len(hp.nibbles) # Len(rest)) THEN Nothing
    ELSE IF ~IsPrefix(hp.nibbles, rest) THEN Found(Absent, used)
    ELSE IF hp.leaf THEN IF value.ref = "value" THEN Found(value.value, used) ELSE Nothing
    ELSE IF hp.nibbles = <<>> \/ at + Len(hp.nibbles) = Len(path) \/ ~Follows(value) THEN Nothing
    ELSE WalkFrom(value, path, at + Len(hp.nibbles), used, proof)

WalkNode(node, path, at, used, proof) ==
    IF node.kind = "branch"
    THEN IF at = Len(path) THEN Nothing ELSE WalkBranch(node.children[path[at + 1]], path, at, used, proof)
    ELSE WalkShort(node.value, HexPrefix(node.encoded), From(path, at), path, at, used, proof)

WalkFrom(next, path, at, used, proof) ==
    IF next.ref # "hash" THEN WalkNode(next.node, path, at, used, proof)
    ELSE IF used = Len(proof) THEN Nothing
    ELSE IF ~IsNode(proof[used + 1], next) THEN Nothing
    ELSE WalkNode(proof[used + 1], path, at, used + 1, proof)

UsedUp(w, proof) == IF w.ok /\ w.used = Len(proof) THEN [ok |-> TRUE, value |-> w.value] ELSE Nothing
Walk(root, path, proof) ==
    IF Len(proof) > MaxProofNodes THEN Nothing
    ELSE IF proof = <<>>
    THEN IF root = EmptyTrieRoot THEN [ok |-> TRUE, value |-> Absent] ELSE Nothing
    ELSE IF root = EmptyTrieRoot THEN Nothing
    ELSE UsedUp(WalkFrom(root, path, 0, 0, proof), proof)

----------------------------------------------------------------------------
(* Accounts.  A world gives an address an account, with its storage as a   *)
(* map, or Absent; a state trie's leaf holds the storage root instead.     *)

SlotMap(storage) == [k \in {KeyOf[s] : s \in Slots} |->
                       storage[CHOOSE s \in Slots : KeyOf[s] = k]]
Leaf(account) == IF account = Absent THEN Absent
                 ELSE [balance |-> account.balance, code |-> account.code,
                       root |-> Root(SlotMap(account.storage))]
StateMap(world) == [k \in {KeyOf[a] : a \in Addresses} |->
                      Leaf(world[CHOOSE a \in Addresses : KeyOf[a] = k])]
StateRoot(world) == Root(StateMap(world))

EmptyAccount == [balance |-> 0, code |-> "empty", root |-> EmptyTrieRoot]
FieldsOf(leaf) == IF leaf = Absent THEN EmptyAccount ELSE leaf
StorageOf(account) == IF account = Absent THEN [s \in Slots |-> Absent] ELSE account.storage

\* What a node reports of an address: the fields, the proof and the slots.
Report(world, a, slots) ==
    LET storage == StorageOf(world[a])
    IN  [address |-> a, fields |-> FieldsOf(Leaf(world[a])),
         proof |-> ProofFor(StateMap(world), KeyOf[a]),
         storage |-> [i \in DOMAIN slots |->
                        [key |-> slots[i], value |-> storage[slots[i]],
                         proof |-> ProofFor(SlotMap(storage), KeyOf[slots[i]])]]]

VerifyAccountProof(root, a, proof) == Walk(root, KeyOf[a], proof)
VerifyStorageProof(root, s, proof) == Walk(root, KeyOf[s], proof)

Agrees(reported, expected) == reported = expected

\* One reported account against a trusted state root.
ProvenStorage(account, slots, reported, proven) ==
    IF \E i \in DOMAIN slots : \/ reported.storage[i].key # slots[i]
                                \/ ~proven[i].ok
    THEN Nothing
    ELSE IF \E i \in DOMAIN slots : proven[i].value # reported.storage[i].value THEN Nothing
    ELSE [ok |-> TRUE, account |-> account, fields |-> reported.fields,
          storage |-> [i \in DOMAIN slots |-> proven[i].value]]

ProvenAccount(account, expected, slots, reported) ==
    IF ~Agrees(reported.fields, expected) THEN Nothing
    ELSE ProvenStorage(account, slots, reported,
             [i \in DOMAIN slots |->
                 VerifyStorageProof(expected.root, slots[i], reported.storage[i].proof)])

ProveWith(account, slots, reported) ==
    IF account.ok THEN ProvenAccount(account.value, FieldsOf(account.value), slots, reported) ELSE Nothing

Prove(root, a, slots, reported) ==
    IF reported.address # a \/ Len(reported.storage) # Len(slots) THEN Nothing
    ELSE ProveWith(VerifyAccountProof(root, a, reported.proof), slots, reported)

\* Targets, given by their numbers of slots, split into pages of bounded weight.
AccountWeight == 2
Weight(page) == FoldLeft(LAMBDA w, n : w + AccountWeight + n, 0, page)
Overflows(page, n) == Weight(page) + AccountWeight + n > PageWeight
Pages(targets) ==
    FoldLeft(LAMBDA pages, n : LET last == pages[Len(pages)]
                               IN  IF last # <<>> /\ Overflows(last, n) THEN Append(pages, <<n>>)
                                   ELSE [pages EXCEPT ![Len(pages)] = Append(last, n)],
             <<<<>>>>, targets)

----------------------------------------------------------------------------
(* One call.  A walk is given the proof of any map, with nodes missing or  *)
(* added; an account the report of any world, or the storage of one with   *)
(* the account of another.                                                 *)

Altered(proof, other) == {proof, proof \o other, From(other, 1) \o proof}
                         \cup {SubSeq(proof, 1, n) : n \in 0..Len(proof)}

Init ==
    /\ output = Pending
    /\ \/ \E m, w \in Maps, k \in Keys : \E p \in Altered(ProofFor(w, k), ProofFor(m, k)) :
            input = [op |-> "walk", map |-> m, key |-> k, proof |-> p]
       \/ \E w, v \in Worlds, a, b \in Addresses, s, t \in SlotLists, mixed \in BOOLEAN :
            LET r == Report(v, b, t)
            IN  input = [op |-> "prove", world |-> w, address |-> a, slots |-> s,
                         honest |-> v = w /\ a = b /\ s = t,
                         reported |-> IF mixed
                                      THEN [r EXCEPT !.proof = ProofFor(StateMap(w), KeyOf[a]),
                                                     !.fields.balance = FieldsOf(Leaf(w[a])).balance]
                                      ELSE r]
       \/ \E t \in TargetLists : input = [op |-> "pages", targets |-> t]

WalkCall == /\ input.op = "walk"
            /\ output' = Walk(Root(input.map), input.key, input.proof)

ProveCall == /\ input.op = "prove"
             /\ output' = Prove(StateRoot(input.world), input.address, input.slots, input.reported)

PagesCall == /\ input.op = "pages"
             /\ output' = [ok |-> TRUE, pages |-> Pages(input.targets)]

Next == /\ WalkCall \/ ProveCall \/ PagesCall
        /\ UNCHANGED input

Spec == Init /\ [][Next]_vars

----------------------------------------------------------------------------
\* An accepted proof is the truth: the value the walk returns is the one the
\* root's map holds for the key, absence included, and the proof is exactly
\* the nodes on the way, none missing, foreign or left over.
ProofsAreSound ==
    (input.op = "walk" /\ output.ok) =>
        /\ output.value = At(input.map, input.key)
        /\ input.proof = ProofFor(input.map, input.key)

\* The proof a node makes from its trie is accepted, for present and absent
\* keys alike, whichever nodes are embedded and whatever the parity of the
\* paths.
ProofsAreComplete ==
    (input.op = "walk" /\ output # Pending /\ input.proof = ProofFor(input.map, input.key)) => output.ok

\* What prove returns of an account and of every slot asked for is the state
\* under the trusted root, whatever the node mixed into its report, and an
\* honest report is accepted.
ProvenIsState ==
    (input.op = "prove" /\ output # Pending) =>
        LET account == input.world[input.address]
        IN  /\ output.ok =>
                  /\ output.account = Leaf(account)
                  /\ output.storage = [i \in DOMAIN input.slots |-> StorageOf(account)[input.slots[i]]]
            /\ input.honest => output.ok

\* The fields a report claims beside its proof never survive a contradiction:
\* a returned account's balance, code and storage root are those proven.
ClaimsAreProven ==
    (input.op = "prove" /\ output.ok) => output.fields = FieldsOf(Leaf(input.world[input.address]))

\* The pages of a request are its targets in order, and no page of more than
\* one account outweighs the limit of a batch.
PagesBounded ==
    (input.op = "pages" /\ output.ok) =>
        /\ FlattenSeq(output.pages) = input.targets
        /\ \A i \in DOMAIN output.pages : LET page == output.pages[i]
                                          IN  page # <<>> /\ (Len(page) > 1 => Weight(page) <= PageWeight)

----------------------------------------------------------------------------
(***************************************************************************)
(* The RLP reader of the state proofs (quai-provider state_proof.rs): the  *)
(* strict decoder under which a hashed trie node has one meaning.  The     *)
(* prefix byte's ranges are scaled: a byte below Single stands for itself, *)
(* a string or list of at most Short bytes has its length in the prefix,   *)
(* and a longer one has the length in up to Sizes further bytes (128, 55   *)
(* and 8 in the code).                                                     *)
(***************************************************************************)

StringLong == Single + Short + 1
List == StringLong + Sizes
ListLong == List + Short + 1
Bytes == 0..(ListLong + Sizes - 1)
Base == ListLong + Sizes

First(s, n) == SubSeq(s, 1, n)

Number(bs) == FoldLeft(LAMBDA n, b : n * Base + b, 0, bs)

LengthCanonical(bytes) == bytes[1] # 0 /\ Number(bytes) > Short

Deeper(depth) == depth + 1

\* The length and the body behind a long prefix.
Long(rest, size) ==
    IF Len(rest) >= size /\ LengthCanonical(First(rest, size))
    THEN [ok |-> TRUE, length |-> Number(First(rest, size)), body |-> From(rest, size)]
    ELSE Nothing

\* What the prefix announces: a list or a string, its length and its body.
Announced(prefix, after) ==
    CASE prefix < StringLong -> [ok |-> TRUE, list |-> FALSE, length |-> prefix - Single, body |-> after]
      [] prefix \in StringLong..(List - 1) ->
           LET l == Long(after, prefix - StringLong + 1)
           IN  IF l.ok THEN [ok |-> TRUE, list |-> FALSE, length |-> l.length, body |-> l.body] ELSE Nothing
      [] prefix \in List..(ListLong - 1) ->
           [ok |-> TRUE, list |-> TRUE, length |-> prefix - List, body |-> after]
      [] OTHER ->
           LET l == Long(after, prefix - ListLong + 1)
           IN  IF l.ok THEN [ok |-> TRUE, list |-> TRUE, length |-> l.length, body |-> l.body] ELSE Nothing

RECURSIVE Item(_, _)
RECURSIVE ItemsOf(_, _)
RECURSIVE ItemsAfter(_, _)
Preceded(item, rest) == IF rest.ok THEN [ok |-> TRUE, items |-> <<item>> \o rest.items] ELSE Nothing
ItemsAfter(one, depth) == IF one.ok THEN Preceded(one.item, ItemsOf(one.rest, depth)) ELSE Nothing

\* The items of a list's content, until nothing remains.
ItemsOf(content, depth) ==
    IF content = <<>> THEN [ok |-> TRUE, items |-> <<>>] ELSE ItemsAfter(Item(content, depth), depth)

StringItem(content, rest) ==
    IF Len(content) = 1 /\ content[1] < Single THEN Nothing
    ELSE [ok |-> TRUE, item |-> [list |-> FALSE, bytes |-> content], rest |-> rest]
ListItem(inner, rest) ==
    IF inner.ok THEN [ok |-> TRUE, item |-> [list |-> TRUE, items |-> inner.items], rest |-> rest]
    ELSE Nothing
ItemFrom(a, depth) ==
    IF ~a.ok THEN Nothing
    ELSE IF Len(a.body) < a.length THEN Nothing
    ELSE IF a.list THEN ListItem(ItemsOf(First(a.body, a.length), Deeper(depth)), From(a.body, a.length))
    ELSE StringItem(First(a.body, a.length), From(a.body, a.length))

Item(bytes, depth) ==
    IF depth > MaxDepth \/ bytes = <<>> THEN Nothing
    ELSE IF bytes[1] < Single
    THEN [ok |-> TRUE, item |-> [list |-> FALSE, bytes |-> <<bytes[1]>>], rest |-> From(bytes, 1)]
    ELSE ItemFrom(Announced(bytes[1], From(bytes, 1)), depth)

Whole(i) == IF i.ok /\ i.rest = <<>> THEN [ok |-> TRUE, item |-> i.item] ELSE Nothing
Decode(bytes) == Whole(Item(bytes, 0))

\* An integer has no leading zero byte; zero is the empty string.
Uint(bytes) == IF bytes # <<>> /\ bytes[1] = 0 THEN Nothing
               ELSE [ok |-> TRUE, value |-> Number(bytes)]

----------------------------------------------------------------------------
(* The encoder, from the trie the tests build.                             *)

RECURSIVE BigEndian(_)
BigEndian(n) == IF n = 0 THEN <<>> ELSE Append(BigEndian(n \div Base), n % Base)

Prefixed(content, start) ==
    IF Len(content) <= Short THEN <<start + Len(content)>> \o content
    ELSE LET n == BigEndian(Len(content)) IN <<start + Short + Len(n)>> \o n \o content

RECURSIVE Reference(_)
Reference(item) ==
    IF item.list THEN Prefixed(FlattenSeq([i \in DOMAIN item.items |-> Reference(item.items[i])]), List)
    ELSE IF Len(item.bytes) = 1 /\ item.bytes[1] < Single THEN item.bytes
    ELSE Prefixed(item.bytes, Single)

RECURSIVE Nesting(_)
Nesting(item) == IF item.list /\ item.items # <<>>
                 THEN 1 + Max({Nesting(item.items[i]) : i \in DOMAIN item.items}) ELSE 0

----------------------------------------------------------------------------
\* Any bytes are read, and every item's encoding.
RlpInit == /\ output = Pending
        /\ \/ \E n \in 0..MaxBytes, op \in {"decode", "uint"} : \E b \in [1..n -> Bytes] :
                input = [op |-> op, bytes |-> b]
           \/ \E i \in Items : input = [op |-> "item", item |-> i]

ReadBytes == /\ input.op = "decode"
             /\ output' = Decode(input.bytes)

ReadItem == /\ input.op = "item"
            /\ output' = Decode(Reference(input.item))

ReadUint == /\ input.op = "uint"
            /\ output' = Uint(input.bytes)

RlpNext == /\ ReadBytes \/ ReadItem \/ ReadUint
        /\ UNCHANGED input

RlpSpec == RlpInit /\ [][RlpNext]_vars

----------------------------------------------------------------------------
\* A hash commits to one item: the bytes decode accepts are exactly the
\* encoding of the item it returns, so no two byte strings, and hence no two
\* hashed nodes, read as the same trie node.
OneEncodingPerItem ==
    (input.op = "decode" /\ output.ok) => Reference(output.item) = input.bytes

\* Every item nested no deeper than the limit is read back from its encoding,
\* long strings, long lists and single bytes included; a deeper one is refused.
ItemsReadBack ==
    input.op = "item" => output'.ok = (Nesting(input.item) <= MaxDepth)
                         /\ (output'.ok => output'.item = input.item)

\* An integer field has one spelling: the bytes accepted are the shortest
\* big-endian form of the value, so a proven balance or nonce is not
\* spelled in two ways under two hashes.
IntegersShortest ==
    (input.op = "uint" /\ output.ok) => BigEndian(output.value) = input.bytes
=============================================================================
