---------------------------- MODULE AccountQuote ----------------------------
(*************************************************************************)
(* Account preflight (quai-sdk account_preflight.rs) and replacement quotes *)
(* (account_replacement.rs): the reads a quote is made of, in order, over a *)
(* chain that grows and reorganizes, a price and a transaction pool that    *)
(* move, and an endpoint that may lead to another network, between any two. *)
(*                                                                        *)
(* A block that was replaced does not become canonical again.               *)
(*************************************************************************)
EXTENDS Integers, Sequences, FiniteSets

CONSTANTS
    Kinds,       \* "call", "conversion", "deployment", "replacement"
    Pinned,      \* AccountObservationPolicy::PinnedLatest
    Discover,    \* AccountAccessListPolicy::Discover
    Slots,       \* what an access list may name
    Required,    \* the access list of the intent
    Floor,       \* the caller's nonce: at least, exactly, or the parent's
    Value,       \* value transferred
    OldPrice, OldGas,  \* of the transaction to be replaced
    BumpPercent, \* minimum_price_bump_percent
    MaxGas, MaxPrice, MaxFee, MarginBps,  \* FeePolicy
    Word,        \* the largest amount, U256::MAX
    Nonces, Balances, Prices, Estimates,  \* what the node may report
    MaxMoves, MaxSwitches                 \* bounds on the surroundings

QuoteAssumption ==
    /\ MaxGas \in Nat \ {0} /\ MarginBps \in 0..10000 /\ BumpPercent \in 1..1000
    /\ MaxFee <= Word /\ OldGas \in Nat /\ OldPrice \in Nat

VARIABLES
    chain,    \* the canonical blocks, as [id, nonce, balance] with the sender's state
    moves,    \* how often the chain moved
    onNetwork, switches,
    q         \* the quote in preparation

vars == <<chain, moves, onNetwork, switches, q>>

NoState == [id |-> 0, nonce |-> 0, balance |-> 0]
NoTx == [nonce |-> 0, price |-> 0, gas |-> 0, access |-> {}]
Fresh ==
    [kind |-> "none", i |-> 0, header |-> NoState, number |-> 0, confirmed |-> NoState,
     height |-> 0, state |-> NoState, tx |-> NoTx, estimate |-> 0, estimated |-> NoTx,
     at |-> 0, canonical |-> NoState, off |-> FALSE, began |-> 0, result |-> "none"]

Block(id, nonce, balance) == [id |-> id, nonce |-> nonce, balance |-> balance]

Init ==
    /\ \E n \in Nonces, b \in Balances : chain = <<Block(1, n, b)>>
    /\ moves = 0 /\ onNetwork = TRUE /\ switches = 0 /\ q = Fresh

----------------------------------------------------------------------------
(* The reads of a quote.                                                   *)

\* quote_operation
QuoteScript(kind) ==
    <<"price">> \o (IF Pinned THEN <<"header">> ELSE <<>>) \o <<"state">>
        \o (IF Discover /\ kind = "call" THEN <<"access">> ELSE <<>>) \o <<"estimate">>
        \o (IF Pinned THEN <<"headerAgain">> ELSE <<>>) \o <<"network">>
\* quote_account_replacement
ReplacementScript ==
    <<"network", "confirmed", "count">> \o (IF Pinned THEN <<"header">> ELSE <<>>)
        \o <<"bump", "estimate", "balance">>
        \o (IF Pinned THEN <<"headerAgain">> ELSE <<>>) \o <<"confirmedAgain", "network">>
Script(kind) == IF kind = "replacement" THEN ReplacementScript ELSE QuoteScript(kind)

\* The transaction a quote starts from.
Start(kind) ==
    /\ q.i = 0
    /\ q' = [Fresh EXCEPT !.kind = kind, !.i = 1, !.began = switches,
             !.tx = [nonce |-> Floor, price |-> IF kind = "replacement" THEN OldPrice ELSE Word,
                     gas |-> IF kind = "replacement" THEN OldGas ELSE MaxGas, access |-> Required],
             !.result = IF kind = "replacement" /\ (OldGas = 0 \/ OldGas > MaxGas) THEN "FeeLimit"
                        ELSE "none"]
    /\ UNCHANGED <<chain, moves, onNetwork, switches>>

Tip == chain[Len(chain)]
\* The state a read with the quote's block tag is answered from: the pool's
\* when it is "pending", else the canonical block of that number.
States ==
    IF ~Pinned THEN {Block(Tip.id, n, b) : n \in {x \in Nonces : x >= Tip.nonce}, b \in Balances}
    ELSE IF q.number <= Len(chain) THEN {chain[q.number]} ELSE {}

CeilDiv(a, b) == (a + b - 1) \div b
\* FeePolicy::margin_gas
MarginGas(estimate) == CeilDiv(estimate * (10000 + MarginBps), 10000)

Largest(S) == CHOOSE x \in S : \A y \in S : y <= x
\* The node's price, the percentage and strictly more than the parent's.
Bumped(price) == Largest({price, CeilDiv(OldPrice * (100 + BumpPercent), 100), OldPrice + 1})

----------------------------------------------------------------------------
\* What a read makes of the quote; every read is answered at one instant.
Fails(f, why) == [f EXCEPT !.result = why]
Read(f) == [f EXCEPT !.i = @ + 1, !.off = @ \/ ~onNetwork]

\* gas_price_on_network asks for the genesis with the price.
ReadPrice(price) ==
    IF ~onNetwork THEN Fails(q, "NetworkMismatch")
    ELSE IF price > MaxPrice THEN Fails(q, "FeeLimit")
    ELSE [Read(q) EXCEPT !.tx.price = price]

ReadHeader == [Read(q) EXCEPT !.header = Tip, !.number = Len(chain)]

\* AccountNonce: a floor is raised to the account's nonce, an exact one is not.
NonceFor(f, remote) == IF f.kind = "deployment" THEN Floor ELSE Largest({Floor, remote})

ReadState(s) ==
    IF q.kind = "deployment" /\ Floor < s.nonce THEN Fails(q, "Invalid")
    ELSE [Read(q) EXCEPT !.state = s, !.tx.nonce = NonceFor(q, s.nonce)]

\* populate_access: what the node generates has to cover what was required.
ReadAccess(generated) ==
    IF ~(Required \subseteq generated) THEN Fails(q, "Invalid")
    ELSE [Read(q) EXCEPT !.tx.access = generated]

\* FeePolicy::bound
WithinBound(gas) ==
    gas \in 1..MaxGas /\ q.tx.price * gas <= MaxFee /\ q.tx.price * gas + Value <= Word
\* A replacement keeps its parent's limit, which has to cover the estimate.
ParentLimit(estimate) == estimate <= q.tx.gas

ReadEstimate(estimate, s) ==
    LET gas == IF q.kind = "replacement" THEN q.tx.gas ELSE MarginGas(estimate)
        fits == IF q.kind = "replacement" THEN ParentLimit(estimate) ELSE WithinBound(gas)
    IN IF ~fits THEN Fails(q, "FeeLimit")
       ELSE IF q.kind # "replacement" /\ q.tx.price * gas + Value > q.state.balance
       THEN Fails(q, "InsufficientBalance")
       ELSE [Read(q) EXCEPT !.estimate = estimate, !.at = s.id, !.tx.gas = gas,
                            !.estimated = [q.tx EXCEPT !.gas = 0]]

\* The sampled head is still the head.
SameHead(before, number) == number = Len(chain) /\ before.id = Tip.id

ReadHeaderAgain ==
    IF SameHead(q.header, q.number) THEN Read(q) ELSE Fails(q, "ObservationChanged")

\* check_network
CheckNetwork(f) == IF onNetwork THEN Read(f) ELSE Fails(f, "NetworkMismatch")

ReadConfirmed == [Read(q) EXCEPT !.confirmed = Tip, !.height = Len(chain)]

\* transaction_count at the confirmed height.
ReadCount ==
    IF q.height > Len(chain) THEN Fails(q, "Provider")
    ELSE IF chain[q.height].nonce > Floor THEN Fails(q, "Invalid")
    ELSE [Read(q) EXCEPT !.canonical = chain[q.height]]

ReadBump(price) ==
    IF Bumped(price) > MaxPrice \/ Bumped(price) * OldGas > MaxFee THEN Fails(q, "FeeLimit")
    ELSE [Read(q) EXCEPT !.tx.price = Bumped(price)]

ReadBalance(s) ==
    IF q.tx.price * OldGas + Value > s.balance THEN Fails(q, "InsufficientBalance")
    ELSE [Read(q) EXCEPT !.state = s]

\* header_at: the confirmed block is still canonical.
StillConfirmed == q.height <= Len(chain) /\ chain[q.height].id = q.confirmed.id

ReadConfirmedAgain ==
    IF StillConfirmed THEN [Read(q) EXCEPT !.canonical = chain[q.height]]
    ELSE Fails(q, "ObservationChanged")

\* The next read is answered.
Step ==
    /\ q.i \in DOMAIN Script(q.kind) /\ q.result = "none"
    /\ LET request == Script(q.kind)[q.i]
       IN q' \in CASE request = "price" -> {ReadPrice(p) : p \in Prices}
                   [] request = "header" -> {ReadHeader}
                   [] request = "state" -> {ReadState(s) : s \in States} \cup {Fails(q, "Provider")}
                   [] request = "access" -> {ReadAccess(g) : g \in SUBSET Slots}
                   [] request = "estimate" ->
                          {ReadEstimate(e, s) : e \in Estimates, s \in States} \cup {Fails(q, "Provider")}
                   [] request = "headerAgain" -> {ReadHeaderAgain}
                   [] request = "network" -> {CheckNetwork(q)}
                   [] request = "confirmed" -> {ReadConfirmed}
                   [] request = "count" -> {ReadCount}
                   [] request = "bump" -> {ReadBump(p) : p \in Prices}
                   [] request = "balance" -> {ReadBalance(s) : s \in States} \cup {Fails(q, "Provider")}
                   [] request = "confirmedAgain" -> {ReadConfirmedAgain}
    /\ UNCHANGED <<chain, moves, onNetwork, switches>>

\* The quote is returned.
Return ==
    /\ q.i > Len(Script(q.kind)) /\ q.kind # "none" /\ q.result = "none"
    /\ q' = [q EXCEPT !.result = "ok"]
    /\ UNCHANGED <<chain, moves, onNetwork, switches>>

----------------------------------------------------------------------------
(* The surroundings.                                                       *)

\* The chain grows, or its last block is replaced.
MoveChain(keep, n, b) ==
    /\ moves < MaxMoves /\ moves' = moves + 1
    /\ LET below == SubSeq(chain, 1, keep)
       IN /\ keep > 0 => chain[keep].nonce <= n
          /\ chain' = Append(below, Block(moves + 2, n, b))
    /\ UNCHANGED <<onNetwork, switches, q>>

SwitchNetwork ==
    /\ switches < MaxSwitches
    /\ onNetwork' = ~onNetwork /\ switches' = switches + 1
    /\ UNCHANGED <<chain, moves, q>>

Next ==
    \/ \E kind \in Kinds : Start(kind)
    \/ Step \/ Return
    \/ \E keep \in {Len(chain) - 1, Len(chain)}, n \in Nonces, b \in Balances : MoveChain(keep, n, b)
    \/ SwitchNetwork

Spec == Init /\ [][Next]_vars

----------------------------------------------------------------------------
Ok == q.result = "ok"

\* "PinnedLatest observes a numeric block and rejects any sampled head change":
\* nonce, balance and estimate are those of one block, the sampled head.
QuoteIsOneBlock ==
    Ok /\ Pinned => q.state.id = q.header.id /\ q.at = q.header.id

\* A quote keeps every limit of the policy and the observed balance, and its
\* gas really carries the margin over the estimate, rounded up.
WithinLimits ==
    Ok => /\ q.tx.gas <= MaxGas /\ q.tx.price <= MaxPrice /\ q.tx.price * q.tx.gas <= MaxFee
          /\ q.tx.price * q.tx.gas + Value <= q.state.balance
          /\ q.tx.gas >= q.estimate
          /\ q.kind # "replacement" => q.tx.gas * 10000 >= q.estimate * (10000 + MarginBps)

\* The estimate is of the transaction that will be signed, gas apart, and its
\* access list names everything the caller required.
EstimatedAsSigned == Ok => q.estimated = [q.tx EXCEPT !.gas = 0] /\ Required \subseteq q.tx.access

\* A quote's nonce is not below the account's at the observation, and an exact
\* nonce is never changed.
NonceFits ==
    Ok /\ q.kind # "replacement" =>
        /\ q.tx.nonce >= Floor /\ q.tx.nonce >= q.state.nonce
        /\ q.kind = "deployment" => q.tx.nonce = Floor

\* A replacement outbids its parent by the percentage and by at least one, and
\* the parent's nonce was unused at a block canonical when it was checked last.
Outbids ==
    Ok /\ q.kind = "replacement" =>
        /\ q.tx.price > OldPrice /\ q.tx.price * 100 >= OldPrice * (100 + BumpPercent)
        /\ q.tx.nonce = Floor /\ q.canonical.nonce <= Floor

\* "Chain/genesis checks surround the observations": a quote with a value of
\* another network takes a switch away and a switch back.
OneNetworkSwitchSeen == Ok /\ q.off => switches >= q.began + 2
====
