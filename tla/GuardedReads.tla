---------------------------- MODULE GuardedReads ----------------------------
(*************************************************************************)
(* Provider reads over the HTTP transport: HttpTransport's permits, request *)
(* IDs and batches (quai-rpc http.rs), and the guarded reads of             *)
(* quai-provider lib.rs, where a chain-ID guard leads every batch or, on a  *)
(* transport without batching, precedes every request.                      *)
(*                                                                        *)
(* A load balancer hands every exchange to a backend of some network; one   *)
(* exchange is answered by one backend.  Rows may come back in any order,   *)
(* doubled, missing or with the ID of another call.                         *)
(*************************************************************************)
EXTENDS Integers, Sequences, FiniteSets, SequencesExt

CONSTANTS
    Callers,
    Networks,      \* [chain, genesis] of the backends behind the endpoint
    Expected,      \* the configured chain ID
    Trusted,       \* the genesis the caller expects
    Batching,      \* whether the transport batches
    PageCalls,     \* MAX_BATCH_CALLS - 1
    Blocks,        \* headers asked for after the genesis
    MaxInFlight,   \* max_in_flight
    MaxId,         \* the last request ID, u64::MAX
    MaxReads       \* bound on the operations started

ReadAssumption == PageCalls \in Nat \ {0} /\ MaxInFlight \in Nat \ {0} /\ MaxId \in Nat

VARIABLES
    nextId,   \* next_id
    permits,  \* free permits of the semaphore
    op,       \* op[c]: the read a caller is in
    reads     \* operations started so far

vars == <<nextId, permits, op, reads>>

Idle ==
    [pc |-> "idle", kind |-> "none", asked |-> <<>>, todo |-> <<>>, sent |-> <<>>,
     first |-> 0, values |-> <<>>, result |-> "none"]
\* A call that failed, in place of a row or of a whole exchange.
Error == [method |-> "error", network |-> [chain |-> 0, genesis |-> 0], status |-> "error"]

\* HttpTransport::new
Init ==
    /\ nextId = 1 /\ permits = MaxInFlight /\ reads = 0
    /\ op = [c \in Callers |-> Idle]

----------------------------------------------------------------------------
(* What an operation asks, as a sequence of exchanges.                      *)

\* guarded_batch: one exchange led by the guard; otherwise a guard for each.
Guarded(page) ==
    IF Batching THEN <<<<"chainId">> \o page>>
    ELSE FlattenSeq([i \in DOMAIN page |-> <<<<"chainId">>, <<page[i]>>>>])

Pages(methods) ==
    LET n == (Len(methods) + PageCalls - 1) \div PageCalls
        last(i) == IF i * PageCalls < Len(methods) THEN i * PageCalls ELSE Len(methods)
    IN [i \in 1..n |-> SubSeq(methods, (i - 1) * PageCalls + 1, last(i))]

\* read_header_values
PagedReads(methods) ==
    FlattenSeq([i \in DOMAIN Pages(methods) |-> Guarded(Pages(methods)[i])])

\* Provider::balance, transaction_count, code, storage_at, call, estimate_gas:
\* one guarded read each.  A lookup by hash may also find nothing.
SimpleReads == {"balance", "lookup"}

Asks(kind) ==
    CASE kind = "headers" -> <<"genesis">> \o Blocks
      [] kind = "price" -> <<"genesis", "price">>
      [] OTHER -> <<kind>>

Start(c, kind) ==
    /\ op[c].pc = "idle" /\ reads < MaxReads
    /\ reads' = reads + 1
    /\ op' = [op EXCEPT ![c] = [Idle EXCEPT
           !.pc = "waiting", !.kind = kind, !.asked = Asks(kind),
           !.todo = IF kind = "headers" THEN PagedReads(Asks(kind)) ELSE Guarded(Asks(kind))]]
    /\ UNCHANGED <<nextId, permits>>

----------------------------------------------------------------------------
(* An exchange of the transport.                                           *)

End(f, result) == [f EXCEPT !.pc = "ended", !.sent = <<>>, !.todo = <<>>, !.result = result]

\* A permit, then the IDs: one for every call of the exchange.
Send(c) ==
    LET count == Len(Head(op[c].todo))
    IN /\ op[c].pc = "waiting" /\ permits > 0
       /\ IF nextId + count > MaxId
          THEN op' = [op EXCEPT ![c] = End(@, "RequestIdExhausted")] /\ UNCHANGED <<nextId, permits>>
          ELSE /\ op' = [op EXCEPT ![c] = [@ EXCEPT !.pc = "sent", !.sent = Head(op[c].todo),
                                                    !.todo = Tail(@), !.first = nextId]]
               /\ nextId' = nextId + count /\ permits' = permits - 1
    /\ UNCHANGED reads

Row(id, method, network, status) ==
    [id |-> id, value |-> [method |-> method, network |-> network, status |-> status]]

\* What a server answers to an exchange: the rows in some order, with at most
\* one that is odd, and possibly one with another ID.
Answers(f, network) ==
    LET n == Len(f.sent)
        row(i, status) == Row(f.first + i - 1, f.sent[i], network, status)
        plain == {[i \in 1..n |-> row(p[i], "ok")] : p \in {q \in [1..n -> 1..n] :
                      q = [i \in 1..n |-> i] \/ q = [i \in 1..n |-> n + 1 - i]}}
        odd == {[i \in 1..n |-> row(i, IF i = k THEN s ELSE "ok")] :
                    k \in 1..n, s \in {"remote", "null", "mismatch"}}
        misnumbered == {[row(1, "ok") EXCEPT !.id = k] : k \in 1..(nextId - 1)}
    IN plain \cup odd \cup {[i \in 1..n |-> IF i = 1 THEN r ELSE row(i, "ok")] : r \in misnumbered}
           \cup {[i \in 1..(n - 1) |-> row(i, "ok")]}

\* decode_batch, and decode_response for a single call: exactly the rows asked
\* for, put in the order of the calls, or nothing.
DecodeBatch(rows, first, count) ==
    IF \/ Len(rows) # count
       \/ {rows[i].id : i \in DOMAIN rows} # first..(first + count - 1)
    THEN <<Error>>
    ELSE [i \in 1..count |-> (CHOOSE r \in ToSet(rows) : r.id = first + i - 1).value]

----------------------------------------------------------------------------
(* The provider's side of an answer.                                       *)

\* check_chain_id
GuardPasses(value) == value.status = "ok" /\ value.network.chain = Expected

\* The answers up to the first remote error, which ends the reading.
UpToError(values) ==
    LET bad == {i \in DOMAIN values : values[i].status \in {"remote", "error"}}
    IN IF bad = {} THEN values
       ELSE SubSeq(values, 1, (CHOOSE i \in bad : \A j \in bad : i <= j) - 1) \o <<Error>>

\* The values an exchange adds: the guard has to pass first.
Added(f, values) ==
    IF values = <<Error>> THEN <<Error>>
    ELSE IF f.sent[1] # "chainId" THEN UpToError(values)
    ELSE IF GuardPasses(values[1]) THEN UpToError(Tail(values)) ELSE <<Error>>

Failed(values) == values # <<>> /\ values[Len(values)] = Error
OtherGenesis(values) == values # <<>> /\ values[1].method = "genesis"
                        /\ values[1].status = "ok" /\ values[1].network.genesis # Trusted

\* gas_price_on_network asks for the genesis alone first when it cannot batch.
StopsEarly(f, values) == Failed(values) \/ (f.kind = "price" /\ OtherGenesis(values))

\* parse_zone_header, transaction, receipt: nothing, or what was asked for.
Parsed(value) == value.status \in {"ok", "null"}

\* headers_on_network and gas_price_on_network look at the genesis first.
Verdict(f, values) ==
    IF values[1] = Error THEN "error"
    ELSE IF values[1].method = "genesis" /\ values[1].status # "ok" THEN "error"
    ELSE IF OtherGenesis(values) THEN "otherNetwork"
    ELSE IF Failed(values) \/ Len(values) # Len(f.asked)
            \/ \E i \in DOMAIN values : ~Parsed(values[i]) THEN "error"
    ELSE "ok"

\* The exchange is answered: the permit is returned and the read goes on.
Answer(c, rows) ==
    LET f == op[c]
        values == f.values \o Added(f, DecodeBatch(rows, f.first, Len(f.sent)))
        over == f.todo = <<>> \/ StopsEarly(f, values)
    IN /\ permits' = permits + 1
       /\ op' = [op EXCEPT ![c] =
              IF over THEN [End(@, Verdict(f, values)) EXCEPT !.values = values]
              ELSE [@ EXCEPT !.pc = "waiting", !.sent = <<>>, !.values = values]]
       /\ UNCHANGED <<nextId, reads>>

\* A permit is released however the exchange ends.
PermitReturned(c) == IF op[c].pc = "sent" THEN permits + 1 ELSE permits

\* post_json fails, the total deadline passes, or the caller drops the future;
\* waiting for a permit counts towards the deadline.
GiveUp(c) ==
    /\ op[c].pc \in {"waiting", "sent"}
    /\ permits' = PermitReturned(c)
    /\ op' = [op EXCEPT ![c] = [End(@, "Timeout") EXCEPT !.values = @ \o <<Error>>]]
    /\ UNCHANGED <<nextId, reads>>

Next ==
    \E c \in Callers :
        \/ \E kind \in SimpleReads \cup {"headers", "price"} : Start(c, kind)
        \/ Send(c)
        \/ op[c].pc = "sent" /\ \E n \in Networks : \E rows \in Answers(op[c], n) : Answer(c, rows)
        \/ GiveUp(c)

Spec == Init /\ [][Next]_vars

----------------------------------------------------------------------------
Sending == {c \in Callers : op[c].pc = "sent"}

\* The semaphore's permits are exactly those no exchange holds, and exchanges
\* in flight never share an ID.
PermitsAndIds ==
    /\ permits + Cardinality(Sending) = MaxInFlight
    /\ \A c, d \in Sending : c # d =>
           (op[c].first..(op[c].first + Len(op[c].sent) - 1))
               \cap (op[d].first..(op[d].first + Len(op[d].sent) - 1)) = {}

\* "Results retain request order even when the server reorders responses":
\* a value is always the answer to the call at its place, of this operation.
OwnAnswers ==
    \A c \in Callers : \A i \in DOMAIN op[c].values :
        op[c].values[i] # Error => op[c].values[i].method = op[c].asked[i]

\* "a chain mismatch is never reported as a successful read": with batches,
\* every value comes from a backend of the expected chain.
ValuesOfChain ==
    \A c \in Callers : \A i \in DOMAIN op[c].values :
        op[c].values[i] # Error => op[c].values[i].network.chain = Expected

\* "a wrong network is reported as such rather than as a bad or missing header":
\* once the genesis of another network was read, nothing later, no error in
\* another row or page included, changes the verdict; and "ok" has every row.
NetworkVerdict ==
    \A c \in Callers : op[c].pc = "ended" /\ op[c].result # "Timeout" =>
        /\ OtherGenesis(op[c].values) => op[c].result = "otherNetwork"
        /\ op[c].result = "ok" => Len(op[c].values) = Len(op[c].asked)

\* "the genesis first, so a wrong network is never asked for anything else":
\* without batches the price is not requested once the genesis did not match.
WrongNetworkNotAsked ==
    \A c \in Callers : op[c].kind = "price" /\ OtherGenesis(op[c].values) => op[c].pc = "ended"
====
