----------------------------- MODULE QiPrepare ------------------------------
(***************************************************************************)
(* Building a Qi transaction against a node and a coin snapshot that both  *)
(* change meanwhile: prepare, prepare_special, prepare_sweep and           *)
(* prepare_replacement of QiSession (qi.rs, qi/), and their portable forms *)
(* quote_qi, quote_qi_replacement and include_known_qi_addresses, whose    *)
(* snapshot is the caller's (qi_preflight.rs, qi_replacement.rs).          *)
(*                                                                         *)
(* One preparation at a time, another handle of the store, and the zone's  *)
(* chain.  A checkpoint is its block.  Selection is any choice that covers *)
(* the amount and the fee; the change addresses are those of ChangePool.   *)
(***************************************************************************)
EXTENDS ChainView, FiniteSets, FiniteSetsExt

CONSTANTS
    Outpoints, Value,   \* coins and what they are worth
    Unlock, Expires,    \* heights from which a coin may, and may not, be spent
    Created,            \* the block that creates a coin
    Amount, Quotes,     \* what is asked, and the fees a node may name
    MaxFee, MaxRounds, MaxAge,  \* QiPolicy
    MaxCandidates,      \* bound: signed bytes of one operation
    MaxGeneration,      \* bound of the scope's generation
    Kinds               \* the preparations of this instance

PrepareAssumption ==
    /\ Kinds \subseteq {"estimated", "sweep", "explicit", "replacement", "quote", "requote", "include"}
    /\ Value \in [Outpoints -> Nat] /\ Unlock \in [Outpoints -> Nat]
    /\ Expires \in [Outpoints -> Nat] /\ Created \in [Outpoints -> Blocks]
    /\ Quotes \subseteq Nat /\ {Amount, MaxFee, MaxRounds, MaxAge, MaxCandidates, MaxGeneration} \subseteq Nat

VARIABLES
    store,      \* generation, checkpoint and coins of the scope
    claims,     \* qi_claims: outpoints held, by this operation or by another
    state,      \* the state of this operation's reservation
    sent,       \* whether the node was handed signed bytes of it
    candidates, \* its signed bytes: the root and replacements, numbered as signed
    task,       \* the preparation in progress
    draft       \* the draft the application holds, if any

custody == <<claims, state, sent, candidates>>
vars == <<chain, store, custody, task, draft>>

\* A transfer's fee is estimated; a conversion or a wrapping may have an explicit
\* one.
Session == {"estimated", "sweep", "explicit", "replacement"}
Portable == {"quote", "requote", "include"}
Idle == [pc |-> "idle"]
NoDraft == [kind |-> "none"]
Held == {o \in Outpoints : claims[o] = "ours"}

TypeOK ==
    /\ ChainTypeOK
    /\ store.generation \in 0..MaxGeneration
    /\ store.checkpoint \in Blocks \cup {NoBlock} /\ store.coins \subseteq Outpoints
    /\ store.checkpoint = NoBlock => store.coins = {}
    /\ claims \in [Outpoints -> {"free", "ours", "other"}]
    /\ state \in {"absent", "reserved", "signed", "submitted"} /\ sent \in BOOLEAN
    /\ (state = "absent") <=> (Held = {})
    /\ (state \in {"absent", "reserved"}) <=> (candidates = {})

Init ==
    /\ ChainInit(Genesis)
    /\ store = [generation |-> 0, checkpoint |-> NoBlock, coins |-> {}]
    /\ claims = [o \in Outpoints |-> "free"]
    /\ state = "absent" /\ sent = FALSE /\ candidates = {} /\ task = Idle /\ draft = NoDraft

CoinsAt(b) == {o \in Outpoints : Created[o] \in Branch[b]}

Spendable(o, height) == Unlock[o] <= height /\ height < Expires[o]

Worth(inputs) == MapThenSumSet(LAMBDA o : Value[o], inputs)

----------------------------------------------------------------------------
(* The chain and another handle.                                           *)

Move == MoveChain /\ UNCHANGED <<store, custody, task, draft>>

\* replace_snapshot at the head: the same coins keep the generation.
Discover ==
    /\ store.generation < MaxGeneration
    /\ store.checkpoint # NoBlock => /\ Number[store.checkpoint] <= Number[head]
                                     /\ Number[store.checkpoint] = Number[head] => store.checkpoint = head
    /\ store' = [generation |-> IF store.checkpoint # NoBlock /\ store.coins = CoinsAt(head)
                                THEN store.generation ELSE store.generation + 1,
                 checkpoint |-> head, coins |-> CoinsAt(head)]
    /\ UNCHANGED <<chain, custody, task, draft>>

Invalidated == [generation |-> store.generation + 1, checkpoint |-> NoBlock, coins |-> {}]

\* The other handle reconciles too.
Invalidate ==
    /\ store.generation < MaxGeneration
    /\ store.checkpoint # NoBlock /\ ~IsCanonical(store.checkpoint)
    /\ store' = Invalidated
    /\ UNCHANGED <<chain, custody, task, draft>>

\* And claims coins.
Claim(o) ==
    /\ o \in store.coins /\ claims[o] = "free"
    /\ claims' = [claims EXCEPT ![o] = "other"]
    /\ UNCHANGED <<chain, store, state, sent, candidates, task, draft>>

----------------------------------------------------------------------------
(* The preparation.                                                        *)

Stop == task' = Idle

\* A snapshot is read from the store, by a session, or was taken earlier and is
\* held by the caller.
Begin(kind, retried) ==
    /\ store.checkpoint # NoBlock
    /\ task' = [pc |-> "canonical", kind |-> kind, snapshot |-> store, retried |-> retried,
                final |-> FALSE, height |-> 0, fee |-> 0, round |-> 1,
                inputs |-> {}, quote |-> 0, parent |-> 0, seen |-> NoBlock,
                at |-> NoBlock]  \* history: the chain when the checkpoint was found canonical

Prepare(kind) ==
    /\ task = Idle
    /\ kind \in Session \ {"replacement"} => state = "absent"
    /\ kind \in {"replacement", "requote"} => state \in {"signed", "submitted"}
    /\ Begin(kind, FALSE) /\ Watch
    /\ draft' = NoDraft
    /\ UNCHANGED <<store, custody>>

\* StorageError::StaleSnapshot: the whole preparation starts again, once.
LostRace ==
    IF task.retried \/ store.checkpoint = NoBlock THEN Stop ELSE Begin(task.kind, TRUE)

\* candidate_height, its first read: the checkpoint must be canonical.
ReadCanonical ==
    /\ task.pc = "canonical"
    /\ LET b == HeaderAt(Number[task.snapshot.checkpoint]) IN
       IF b = task.snapshot.checkpoint
       THEN task' = [task EXCEPT !.pc = "tip", !.at = head]
       ELSE task' = IF task.kind \in Portable THEN Idle
                    ELSE [task EXCEPT !.pc = "reconcile", !.seen = b]
    /\ UNCHANGED <<chain, store, custody, draft>>

\* reconcile_checkpoint with what was read.
Reconcile ==
    /\ task.pc = "reconcile"
    /\ IF store.generation # task.snapshot.generation
       THEN LostRace /\ UNCHANGED store
       ELSE /\ Stop
            /\ store' = IF \/ store.checkpoint = NoBlock \/ store.generation = MaxGeneration
                           \/ task.seen = store.checkpoint
                           \/ task.seen # NoBlock /\ Number[task.seen] # Number[store.checkpoint]
                        THEN store ELSE Invalidated
    /\ UNCHANGED <<chain, custody, draft>>

Fresh(b) == Number[b] <= Number[head] /\ Number[head] - Number[b] <= MaxAge

\* candidate_height, its second read: the height the transaction may have.
ReadTip ==
    /\ task.pc = "tip"
    /\ IF Fresh(task.snapshot.checkpoint)
       THEN task' = [task EXCEPT !.height = Number[head] + 1,
                      !.pc = CASE task.final -> "finish"
                               [] task.kind = "include" -> "outpoints"
                               [] task.kind \in {"replacement", "requote"} -> "inputs"
                               [] OTHER -> "select"]
       ELSE Stop
    /\ UNCHANGED <<chain, store, custody, draft>>

\* include_known_qi_addresses: outputs of owners that discovery had missed, as
\* they are now.
ReadOutpoints ==
    /\ task.pc = "outpoints"
    /\ task' = [task EXCEPT !.inputs = CoinsAt(head) \ task.snapshot.coins,
                            !.seen = head, !.pc = "canonical", !.final = TRUE]
    /\ UNCHANGED <<chain, store, custody, draft>>

Usable == {o \in task.snapshot.coins : Spendable(o, task.height)}

\* What select_fewest or select_fewest_converting may choose.
Covering == {s \in SUBSET Usable : s # {} /\ Worth(s) >= Amount + task.fee}

Select ==
    /\ task.pc = "select" /\ task.kind # "sweep"
    /\ IF Covering = {} THEN Stop
       ELSE \E s \in Covering : task' = [task EXCEPT !.inputs = s, !.pc = "quote"]
    /\ UNCHANGED <<chain, store, custody, draft>>

\* A sweep takes every spendable coin.
SelectSweep ==
    /\ task.pc = "select" /\ task.kind = "sweep"
    /\ IF Usable = {} \/ Worth(Usable) < task.fee THEN Stop
       ELSE task' = [task EXCEPT !.inputs = Usable, !.pc = "quote"]
    /\ UNCHANGED <<chain, store, custody, draft>>

\* A replacement gives up change of a signed candidate, its parent, so that its
\* fee is higher, and spends what the operation claims.
ReplacedFee(parent, fee) == parent \in candidates /\ fee \in (parent.fee + 1)..MaxFee

\* The snapshot must still have those coins.
Inputs ==
    /\ task.pc = "inputs"
    /\ IF Held \subseteq Usable /\ \E c \in candidates : c.fee < MaxFee
       THEN \E parent \in candidates, fee \in 1..MaxFee :
              /\ ReplacedFee(parent, fee)
              /\ task' = [task EXCEPT !.inputs = Held, !.fee = fee, !.parent = parent.number,
                                       !.pc = "quote"]
       ELSE Stop
    /\ UNCHANGED <<chain, store, custody, draft>>

\* Mutant: rounds are not counted, and the fee is not raised.
RaiseForever(quote) == task' = [task EXCEPT !.pc = "select"]

\* The next round selects for the fee the node asks.
Raise(quote) ==
    task' = IF task.round = MaxRounds THEN Idle
            ELSE [task EXCEPT !.fee = quote, !.round = @ + 1, !.pc = "select"]

\* estimate_qi_fee or estimate_qi_special_fee of this very shape.
Quote(quote) ==
    /\ task.pc = "quote" /\ task.kind \in {"sweep", "estimated", "quote"}
    /\ CASE quote > MaxFee -> Stop
         [] quote > task.fee /\ quote <= MaxFee -> Raise(quote)
         [] OTHER -> task' = [task EXCEPT !.quote = quote, !.at = NoBlock, !.final = TRUE, !.pc = "canonical"]
    /\ UNCHANGED <<chain, store, custody, draft>>

\* An explicit fee and that of a replacement are fixed: they are compared with
\* the quote, and with the floor that miners apply where there is one.
QuoteFixed(quote) ==
    /\ task.pc = "quote" /\ task.kind \in {"explicit", "replacement", "requote"}
    /\ IF quote > task.fee THEN Stop
       ELSE task' = [task EXCEPT !.quote = quote, !.at = NoBlock, !.final = TRUE, !.pc = "canonical"]
    /\ UNCHANGED <<chain, store, custody, draft>>

Return == draft' = [kind |-> task.kind, inputs |-> task.inputs, fee |-> task.fee, quote |-> task.quote,
                    height |-> task.height, checkpoint |-> task.snapshot.checkpoint,
                    parent |-> task.parent, seen |-> task.seen, at |-> task.at]

StillSpendable == task.kind = "include" \/ \A o \in task.inputs : Spendable(o, task.height)

\* A portable preparation has nothing to compare its snapshot with.
FinishPortable ==
    /\ task.pc = "finish" /\ task.kind \in Portable
    /\ IF StillSpendable THEN Return ELSE UNCHANGED draft
    /\ Stop /\ UNCHANGED <<chain, store, custody>>

FinishReplacement ==
    /\ task.pc = "finish" /\ task.kind = "replacement"
    /\ IF /\ StillSpendable
          /\ store.generation = task.snapshot.generation
          /\ store.checkpoint = task.snapshot.checkpoint
       THEN Return ELSE UNCHANGED draft
    /\ Stop /\ UNCHANGED <<chain, store, custody>>

\* reserve_qi.
Reserve ==
    /\ task.pc = "finish" /\ task.kind \in Session \ {"replacement"}
    /\ CASE ~StillSpendable -> Stop /\ UNCHANGED <<claims, state, draft>>
         [] StillSpendable /\ (\/ store.generation # task.snapshot.generation
                               \/ store.checkpoint = NoBlock
                               \/ Number[store.checkpoint] > task.height) ->
              LostRace /\ UNCHANGED <<claims, state, draft>>
         [] OTHER ->
              /\ Stop
              /\ IF state = "absent" /\ \A o \in task.inputs : o \in store.coins /\ claims[o] = "free"
                 THEN /\ claims' = [o \in Outpoints |-> IF o \in task.inputs THEN "ours" ELSE claims[o]]
                      /\ state' = "reserved" /\ Return
                 ELSE UNCHANGED <<claims, state, draft>>
    /\ UNCHANGED <<chain, store, sent, candidates>>

\* A read fails, the network is another one, or the caller gives up.
Fail ==
    /\ task # Idle /\ Stop
    /\ UNCHANGED <<chain, store, custody, draft>>

----------------------------------------------------------------------------
(* From draft to node.                                                     *)

\* sign and sign_special: the inputs must be exactly what is claimed.
Sign ==
    /\ task = Idle /\ state = "reserved" /\ draft.kind \in Session
    /\ draft.inputs = Held
    /\ state' = "signed" /\ candidates' = {[fee |-> draft.fee, parent |-> 0, number |-> 1]}
    /\ UNCHANGED <<chain, store, claims, sent, task, draft>>

\* sign_replacement: a nonce is fresh, so that a draft that was signed must not
\* be signed again.
SignReplacement ==
    /\ task = Idle /\ draft.kind = "replacement" /\ Cardinality(candidates) < MaxCandidates
    /\ ~\E c \in candidates : c.parent = draft.parent /\ c.fee = draft.fee
    /\ candidates' = candidates \cup
         {[fee |-> draft.fee, parent |-> draft.parent, number |-> Cardinality(candidates) + 1]}
    /\ UNCHANGED <<chain, store, claims, state, sent, task, draft>>


\* broadcast and broadcast_candidate: mark_submitted, then the request.
MarkSubmitted ==
    /\ task = Idle /\ state \in {"signed", "submitted"}
    /\ state' = "submitted" /\ task' = [pc |-> "send"]
    /\ UNCHANGED <<chain, store, claims, sent, candidates, draft>>

Send ==
    /\ task.pc = "send" /\ sent' = TRUE /\ Stop
    /\ UNCHANGED <<chain, store, claims, state, candidates, draft>>

Step ==
    \/ ReadCanonical \/ Reconcile \/ ReadTip \/ ReadOutpoints \/ Select \/ SelectSweep \/ Inputs
    \/ \E quote \in Quotes : Quote(quote) \/ QuoteFixed(quote)
    \/ FinishPortable \/ FinishReplacement \/ Reserve \/ Send

Next ==
    \/ Move \/ Discover \/ Invalidate \/ (\E o \in Outpoints : Claim(o))
    \/ (\E kind \in Kinds : Prepare(kind)) \/ Step \/ Fail
    \/ Sign \/ SignReplacement \/ MarkSubmitted

\* The node answers; a preparation that was begun is carried on.
Spec == Init /\ [][Next]_vars /\ WF_vars(Step)

----------------------------------------------------------------------------
\* What a draft spends was worth spending after its last quote: the snapshot's
\* checkpoint was still canonical and young enough, and no input is locked or
\* expired at the height then read, although the fee loop took several requests
\* and another handle kept changing the snapshot.
SpendableLate ==
    draft.kind \in (Session \cup {"quote", "requote"}) =>
        /\ draft.at # NoBlock /\ draft.checkpoint \in Branch[draft.at]
        /\ \A o \in draft.inputs : Created[o] \in Branch[draft.checkpoint] /\ Spendable(o, draft.height)
        /\ draft.height <= Number[draft.checkpoint] + MaxAge + 1

\* The fee of a draft covers the node's answer for the inputs it was asked
\* about, within the policy, and the inputs cover amount and fee.
FeeCovered ==
    draft.kind \in (Session \cup {"quote", "requote"}) =>
        /\ draft.quote <= draft.fee /\ draft.fee <= MaxFee
        /\ draft.kind \in {"explicit", "estimated", "quote"} =>
             Worth(draft.inputs) >= Amount + draft.fee

\* Coins added to a source were read from a chain that has its checkpoint.
IncludedOnBranch == draft.kind = "include" => draft.checkpoint \in Branch[draft.seen]

\* A draft is never signed twice: a second signature would be another hash that
\* spends the same coins.
SignedOnce == \A c, d \in candidates : c.parent = d.parent /\ c.fee = d.fee => c = d

\* What the node may have is recorded: no crash between the two leaves a sent
\* transaction that looks unsent.
SentIsSubmitted == sent => state = "submitted"

\* Fee rounds and retries are bounded: every preparation ends.
Rests == task = Idle
=============================================================================
