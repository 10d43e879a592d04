---------------------------- MODULE CoinSelection ----------------------------
(***************************************************************************)
(* The Qi coin selection of quai-wallet (selection.rs and                  *)
(* selection/aggregation.rs): ordinary and converting selections, the fee  *)
(* rounds, sweeps, threshold aggregation and the denomination check.       *)
(*                                                                         *)
(* A coin is known by its position in the snapshot.  A call answers with a *)
(* selection or with an error; Init ranges over the snapshots and the      *)
(* requests, and estimate is the caller's, so that any quote may come.     *)
(***************************************************************************)
EXTENDS Integers, Sequences, FiniteSets, SequencesExt, FiniteSetsExt

CONSTANTS
    Values,       \* Denomination::VALUES, from index 0 on
    Snapshots,    \* sequences of candidate coins
    Checked,      \* those whose denominations are checked against one another
    Targets, Fees, Quotes,
    MaxFee, MaxInputs, MaxOutputs, MaxRounds,
    MaxMessages,  \* MAX_TRANSACTION_MESSAGES
    Height,       \* the candidate height
    Policies,     \* <<maximum_input, maximum_output>> of an aggregation
    None

VARIABLES
    coins, mode, target, outputs,  \* the call
    fee, round, quoted,            \* the fee rounds
    result                         \* None, an error or a selection

vars == <<coins, mode, target, outputs, fee, round, quoted, result>>

Denominations == DOMAIN Values
Modes == {"fewest", "converting", "rounds", "preserve", "aggregate", "threshold", "check"}
Error(name) == [error |-> name]
Selection(ins, spend, change) == [error |-> "no", inputs |-> ins, spend |-> spend, change |-> change]

Worth(denominations) == FoldLeft(LAMBDA sum, d : sum + Values[d], 0, denominations)
Of(positions) == [i \in DOMAIN positions |-> coins[positions[i]].denomination]

\* validate_and_bucket; the zone and the hash of a coin are the snapshot's.
Eligible(coin) ==
    /\ ~coin.reserved /\ coin.unlock <= Height
    /\ coin.expires # None => Height < coin.expires

\* The positions of the eligible coins, bucket by bucket in snapshot order.
Bucketed ==
    LET bucket(d) == SelectSeq([p \in DOMAIN coins |-> p],
                               LAMBDA p : coins[p].denomination = d /\ Eligible(coins[p]))
    IN  FoldLeft(LAMBDA order, d : order \o bucket(d - 1), <<>>, [d \in 1..Cardinality(Denominations) |-> d])

Capacity(denominations) ==
    [d \in Denominations |-> Cardinality({i \in DOMAIN denominations : denominations[i] = d})]

----------------------------------------------------------------------------

\* One coin of denomination d out of one of the source's, which is split step by step.
Split(capacity, d, source) ==
    [e \in Denominations |->
        capacity[e] + (IF d <= e /\ e < source THEN Values[e + 1] \div Values[e] ELSE 0)
                    - (IF d <= e /\ e <= source THEN 1 ELSE 0)]

\* denominate_largest, and the output loops of the sweeps: no inventory, at most max.
RECURSIVE Largest(_, _, _)
Largest(value, d, out) ==
    IF d < 0 THEN out
    ELSE Largest(value % Values[d], d - 1, out \o [i \in 1..(value \div Values[d]) |-> d])

RECURSIVE Denominate(_, _, _, _, _)
Denominate(value, capacity, d, out, limit) ==
    IF d < 0 THEN [error |-> IF value = 0 THEN "no" ELSE "insufficient", out |-> out, capacity |-> capacity]
    ELSE LET sources == {e \in Denominations : d <= e /\ capacity[e] > 0} IN
         IF value < Values[d] \/ sources = {} THEN Denominate(value, capacity, d - 1, out, limit)
         ELSE IF Len(out) = limit THEN [error |-> "limit", out |-> out, capacity |-> capacity]
         ELSE Denominate(value - Values[d], Split(capacity, d, Min(sources)), d, Append(out, d), limit)

\* denominate_available
Available(value, capacity, limit) == Denominate(value, capacity, Max(Denominations), <<>>, limit)

RECURSIVE Greedy(_, _, _)
Greedy(order, required, chosen) ==
    IF Worth(Of(chosen)) >= required \/ order = <<>> THEN chosen
    ELSE Greedy(Front(order), required, Append(chosen, Last(order)))

\* choose: the smallest coin that suffices, or else the largest first.
Chosen(required) ==
    LET enough == SelectSeq(Bucketed, LAMBDA p : Values[coins[p].denomination] >= required)
    IN  IF enough # <<>> THEN <<Head(enough)>> ELSE Greedy(Bucketed, required, <<>>)

\* The outputs: what is spent, and the change out of what that leaves.
Spendable(capacity, converting) ==
    IF converting
    THEN LET largest == Largest(target, Max(Denominations), <<>>)
         IN  [error |-> IF Len(largest) > MaxOutputs THEN "limit" ELSE "no",
              out |-> largest, capacity |-> capacity]
    ELSE Available(target, capacity, MaxOutputs)

Finished(chosen, spend, change) ==
    IF change.error # "no" THEN Error(change.error)
    ELSE IF Len(chosen) * 3 + Len(spend.out) + Len(change.out) + 3 > MaxMessages THEN Error("limit")
    ELSE Selection(chosen, spend.out, change.out)

WithChange(chosen, rest, spend) ==
    IF spend.error # "no" THEN Error(spend.error)
    ELSE Finished(chosen, spend, Available(rest, spend.capacity, MaxOutputs - Len(spend.out)))

ChooseFrom(chosen, total, required, converting) ==
    IF Len(chosen) > MaxInputs THEN Error("limit")
    ELSE IF total < required THEN Error("insufficient")
    ELSE WithChange(chosen, total - required, Spendable(Capacity(Of(chosen)), converting))

ChooseOf(chosen, required, converting) == ChooseFrom(chosen, Worth(Of(chosen)), required, converting)
Choose(required, converting) == ChooseOf(Chosen(required), required, converting)

\* select_sweep without a threshold: everything that is eligible, minus the fee.
Sweep(preserve, maximum) ==
    LET inputs == SelectSeq([p \in DOMAIN coins |-> p], LAMBDA p : Eligible(coins[p]))
        total == Worth(Of(inputs))
        kept == Available(total - fee, Capacity(Of(inputs)), MaxOutputs)
        merged == Largest(total - fee, maximum, <<>>)
        out == IF preserve THEN kept.out ELSE merged
    IN  IF Len(inputs) > MaxInputs THEN Error("limit")
        ELSE IF total <= fee THEN Error("insufficient")
        ELSE IF preserve /\ kept.error # "no" THEN Error(kept.error)
        ELSE IF Len(out) > MaxOutputs THEN Error("limit")
        ELSE IF ~preserve /\ Len(out) >= Len(inputs) THEN Error("invalid")
        ELSE IF Len(inputs) * 3 + Len(out) + 3 > MaxMessages THEN Error("limit")
        ELSE Selection(inputs, out, <<>>)

\* The smallest coins are given up until the others cover the fee.
AggregatedStart(order, end) ==
    Min({s \in 0..end : Worth(Of(order)) - Worth(Of(SubSeq(order, s + 1, end))) >= fee})

\* A sweep of given inputs into given outputs.
Merged(inputs, out, reduce) ==
    IF Len(inputs) > MaxInputs \/ Len(out) > MaxOutputs THEN Error("limit")
    ELSE IF out = <<>> \/ (reduce /\ Len(out) >= Len(inputs)) THEN Error("invalid")
    ELSE IF Len(inputs) * 3 + Len(out) + 3 > MaxMessages THEN Error("limit")
    ELSE Selection(inputs, out, <<>>)

\* The payers of the fee come from the coins that are not aggregated.
AggregatePaid(swept, payers, maxOutput, reduce) ==
    IF Worth(Of(payers)) < fee THEN Error("insufficient")
    ELSE Merged(payers \o swept,
                Largest(Worth(Of(swept)), maxOutput, <<>>)
                    \o Largest(Worth(Of(payers)) - fee, maxOutput, <<>>),
                reduce)

Payers(rest) ==
    SubSeq(rest, 1, Min({n \in 0..Len(rest) : Worth(Of(SubSeq(rest, 1, n))) >= fee \/ n = Len(rest)}))

AggregateRange(order, start, end, maxOutput, reduce) ==
    AggregatePaid(SubSeq(order, start + 1, end),
                  Payers(SubSeq(order, 1, start) \o SubSeq(order, end + 1, Len(order))),
                  maxOutput, reduce)

AggregateUpTo(order, end, maxOutput, reduce) ==
    AggregateRange(order, AggregatedStart(order, end), end, maxOutput, reduce)

\* The small coins, less what the others are short of the fee.
AggregateSmall(order, total, small, maxOutput, reduce) ==
    LET short == IF fee > total - small THEN fee - (total - small) ELSE 0
    IN  IF total <= fee \/ small = 0 THEN Error("insufficient")
        ELSE AggregateUpTo(order, Min({e \in 0..Len(order) :
                                          Worth(Of(SubSeq(order, 1, e))) >= small - short}),
                           maxOutput, reduce)

\* select_aggregate
Aggregate(maxInput, maxOutput, reduce) ==
    AggregateSmall(Bucketed, Worth(Of(Bucketed)),
                   Worth(Of(SelectSeq(Bucketed, LAMBDA p : coins[p].denomination <= maxInput))),
                   maxOutput, reduce)

\* preserves_denominations: the largest output first, each from what is left.
RECURSIVE Preserves(_, _)
Preserves(out, capacity) ==
    IF out = <<>> THEN TRUE
    ELSE LET next == Available(Values[Head(out)], capacity, 1) IN
         next.error = "no" /\ next.out = <<Head(out)>> /\ Preserves(Tail(out), next.capacity)

----------------------------------------------------------------------------
Init ==
    /\ coins \in Snapshots /\ mode \in Modes /\ fee \in Fees
    /\ target \in IF mode \in {"fewest", "converting", "rounds"} THEN Targets ELSE {0}
    /\ outputs \in IF mode = "check" THEN {[i \in DOMAIN s |-> s[i].denomination] : s \in Checked} ELSE {<<>>}
    /\ mode = "check" => fee = Min(Fees) /\ coins \in Checked
    /\ round = 0 /\ quoted = 0 /\ result = None

\* Mutant: a transfer is denominated like a conversion.
SelectFewestConverting ==
    /\ mode \in {"fewest", "converting"} /\ result = None
    /\ result' = Choose(target + fee, TRUE)
    /\ UNCHANGED <<fee, round, quoted>>

SelectFewest ==
    /\ mode \in {"fewest", "converting"} /\ result = None
    /\ result' = Choose(target + fee, mode = "converting")
    /\ UNCHANGED <<fee, round, quoted>>

\* select_with_fee, one round.
Quoted(selection) ==
    IF selection.error # "no" THEN result' = selection /\ UNCHANGED <<fee, quoted>>
    ELSE \E quote \in Quotes :
           /\ quoted' = quote
           /\ IF quote <= fee THEN result' = selection /\ UNCHANGED fee
              ELSE IF quote > MaxFee THEN result' = Error("budget") /\ UNCHANGED fee
              ELSE fee' = quote /\ UNCHANGED result
Round ==
    /\ mode = "rounds" /\ result = None /\ round < MaxRounds
    /\ round' = round + 1
    /\ Quoted(Choose(target + fee, FALSE))

NotConverged ==
    /\ mode = "rounds" /\ result = None /\ round = MaxRounds
    /\ result' = Error("did not converge")
    /\ UNCHANGED <<fee, round, quoted>>

SelectSweep ==
    /\ mode \in {"preserve", "aggregate", "threshold"} /\ result = None
    /\ \E policy \in Policies :
         result' = IF mode = "threshold" THEN Aggregate(policy[1], policy[2], TRUE)
                   ELSE Sweep(mode = "preserve", policy[2])
    /\ UNCHANGED <<fee, round, quoted>>

PreservesDenominations ==
    /\ mode = "check" /\ result = None
    /\ result' = Error(IF Preserves(SortSeq(outputs, LAMBDA d, e : d > e), Capacity(Of([p \in DOMAIN coins |-> p])))
                       THEN "no" ELSE "invalid")
    /\ UNCHANGED <<fee, round, quoted>>

Next ==
    /\ SelectFewest \/ Round \/ NotConverged \/ SelectSweep \/ PreservesDenominations
    /\ UNCHANGED <<coins, mode, target, outputs>>

Spec == Init /\ [][Next]_vars

----------------------------------------------------------------------------
Selected == result # None /\ mode # "check" /\ result.error = "no"

TypeOK ==
    /\ round \in 0..MaxRounds /\ fee <= MaxFee
    /\ Selected => /\ Len(result.inputs) <= MaxInputs
                   /\ Len(result.spend) + Len(result.change) <= MaxOutputs

\* Every selection balances to the Qit, and its inputs are different coins that can
\* be spent at the candidate height.
Conserved ==
    Selected =>
        /\ Worth(Of(result.inputs)) = Worth(result.spend) + Worth(result.change) + fee
        /\ IsInjective(result.inputs)
        /\ \A p \in ToSet(result.inputs) :
             /\ ~coins[p].reserved /\ coins[p].unlock <= Height
             /\ coins[p].expires = None \/ Height < coins[p].expires

\* The node's rule: at every denomination, what the outputs are worth above it comes
\* from inputs above it.
Splits(ins, outs) ==
    \A d \in Denominations :
        LET above(s) == SelectSeq(s, LAMBDA e : e >= d)
        IN  Worth(above(outs)) <= Worth(above(ins))

\* Outputs that stay in the Qi ledger never combine smaller inputs; what a sweep
\* aggregates does, by intent.
NoCombining ==
    (Selected /\ mode \notin {"aggregate", "threshold"}) =>
        Splits(Of(result.inputs), IF mode = "converting" THEN result.change ELSE result.spend \o result.change)

\* No selection with fewer coins would do.
FewestInputs ==
    (Selected /\ mode \in {"fewest", "converting", "rounds"}) =>
        \A ps \in SUBSET ToSet(Bucketed) :
            MapThenSumSet(LAMBDA p : Values[coins[p].denomination], ps) >= target + fee
                => Cardinality(ps) >= Len(result.inputs)

\* Funds are reported missing only when they are: splitting, the change and the
\* fee's coins never fail for want of a denomination.
ShortOnlyIfPoor ==
    (result # None /\ mode # "check" /\ result.error = "insufficient") =>
        LET total == Worth(Of(Bucketed)) IN
        \/ total < target + fee
        \/ target = 0 /\ total = fee
        \/ mode = "threshold" /\ \E policy \in Policies : \A p \in ToSet(Bucketed) : coins[p].denomination > policy[1]

\* The fee of a selection covers the quote for that very selection.
QuoteCovered == (Selected /\ mode = "rounds") => quoted <= fee

\* A sweep that aggregates leaves fewer coins than it spends, none of them above the
\* maximum; a threshold's refund is all that is left of coins that are not small.
AggregationReduces ==
    (Selected /\ mode \in {"aggregate", "threshold"}) =>
        /\ Len(result.spend) < Len(result.inputs)
        /\ \E policy \in Policies : \A i \in DOMAIN result.spend : result.spend[i] <= policy[2]

\* preserves_denominations accepts exactly the outputs that can be cut out of the
\* inputs, each from one coin.
ChecksPacking ==
    (mode = "check" /\ result # None) =>
        (result.error = "no" <=>
            \E cut \in [DOMAIN outputs -> DOMAIN coins] :
                \A p \in DOMAIN coins :
                    MapThenSumSet(LAMBDA i : Values[outputs[i]], {i \in DOMAIN outputs : cut[i] = p})
                        <= Values[coins[p].denomination])

=============================================================================
