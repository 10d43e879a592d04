------------------------------- MODULE MCNode -------------------------------
(***************************************************************************)
(* Small instances of what stands between the SDK and a node or a wallet:  *)
(* event hub, WebSocket session, fetch client, HTTP reads, injected        *)
(* wallet, remote signer, fee quotes, ABI codec and state proofs.  They    *)
(* share no state, so a behaviour is of one of them, chosen at the start.  *)
(***************************************************************************)
EXTENDS Integers, Sequences, FiniteSets

CONSTANTS
    Machines,   \* those a run composes
    Nil, k1, k2, e1, e2, a, b

VARIABLES
    machine,   \* the one this behaviour is of
    r1, r2, r3, r4, r5, r6, r7, r8, r9, r10, r11, r12, r13   \* its variables

vars == <<machine, r1, r2, r3, r4, r5, r6, r7, r8, r9, r10, r11, r12, r13>>

\* A machine of n variables has the first n registers; the others are not used.
Blank(n) ==
    /\ (IF n < 1 THEN r1 = 0 ELSE TRUE) /\ (IF n < 2 THEN r2 = 0 ELSE TRUE)
    /\ (IF n < 3 THEN r3 = 0 ELSE TRUE) /\ (IF n < 4 THEN r4 = 0 ELSE TRUE)
    /\ (IF n < 5 THEN r5 = 0 ELSE TRUE) /\ (IF n < 6 THEN r6 = 0 ELSE TRUE)
    /\ (IF n < 7 THEN r7 = 0 ELSE TRUE) /\ (IF n < 8 THEN r8 = 0 ELSE TRUE)
    /\ (IF n < 9 THEN r9 = 0 ELSE TRUE) /\ (IF n < 10 THEN r10 = 0 ELSE TRUE)
    /\ (IF n < 11 THEN r11 = 0 ELSE TRUE) /\ (IF n < 12 THEN r12 = 0 ELSE TRUE)
    /\ (IF n < 13 THEN r13 = 0 ELSE TRUE)
Keep(n) ==
    /\ UNCHANGED machine
    /\ (IF n < 1 THEN r1' = 0 ELSE TRUE) /\ (IF n < 2 THEN r2' = 0 ELSE TRUE)
    /\ (IF n < 3 THEN r3' = 0 ELSE TRUE) /\ (IF n < 4 THEN r4' = 0 ELSE TRUE)
    /\ (IF n < 5 THEN r5' = 0 ELSE TRUE) /\ (IF n < 6 THEN r6' = 0 ELSE TRUE)
    /\ (IF n < 7 THEN r7' = 0 ELSE TRUE) /\ (IF n < 8 THEN r8' = 0 ELSE TRUE)
    /\ (IF n < 9 THEN r9' = 0 ELSE TRUE) /\ (IF n < 10 THEN r10' = 0 ELSE TRUE)
    /\ (IF n < 11 THEN r11' = 0 ELSE TRUE) /\ (IF n < 12 THEN r12' = 0 ELSE TRUE)
    /\ (IF n < 13 THEN r13' = 0 ELSE TRUE)

----------------------------------------------------------------------------
\* Two listeners that may have one key; two events, so that one queue and the
\* shared limit fill up.
Hub == INSTANCE EventHub WITH
    Keys <- {k1, k2}, Events <- {e1, e2}, MaxListeners <- 2, Capacity <- 2, MaxQueued <- 3,
    MaxId <- 3, MaxEmits <- 2, None <- Nil, listeners <- r1, nextId <- r2, queued <- r3,
    paused <- r4, closed <- r5, emitted <- r6, since <- r7, got <- r8
ASSUME Hub!LimitsAssumption

----------------------------------------------------------------------------
\* A subscription, its cancellation and one more request, with a queue of one
\* notification.
Ws == INSTANCE WsSession WITH
    MaxId <- 3, MaxInFlight <- 2, MaxSubscriptions <- 1, Capacity <- 1, MaxRecent <- 1,
    MaxOpened <- 1, MaxNotes <- 2, None <- Nil, req <- r1, commands <- r2, subs <- r3,
    recent <- r4, sub <- r5, shutdown <- r6, closed <- r7, toServer <- r8, toClient <- r9,
    opened <- r10, live <- r11, made <- r12, written <- r13

----------------------------------------------------------------------------
\* The same with two requests, whose steps are fair.
WsEnds == INSTANCE WsSession WITH
    MaxId <- 2, MaxInFlight <- 2, MaxSubscriptions <- 1, Capacity <- 1, MaxRecent <- 1,
    MaxOpened <- 1, MaxNotes <- 2, None <- Nil, req <- r1, commands <- r2, subs <- r3,
    recent <- r4, sub <- r5, shutdown <- r6, closed <- r7, toServer <- r8, toClient <- r9,
    opened <- r10, live <- r11, made <- r12, written <- r13

----------------------------------------------------------------------------
\* A read and a write with credentials and a resource the gateway resolves;
\* two attempts, a redirect and a deadline of three ticks.
Request(scheme, method) ==
    [scheme |-> scheme, origin |-> "a", method |-> method, body |-> method = "POST",
     auth |-> scheme = "https", insecure |-> FALSE]
Fetch == INSTANCE FetchClient WITH
    Calls <- {"c1"},
    Requests <- {Request("https", "GET"), Request("https", "POST"), Request("ipfs", "GET")},
    Origins <- {"a", "b"}, RetryAfters <- {-1, 1}, Second <- 2, Timeout <- 3,
    RetryDelay <- 1, MaxAttempts <- 2, MaxRedirects <- 1, RetryNonIdempotent <- FALSE,
    MaxTime <- 3, token <- r1, call <- r2, wire <- r3, now <- r4
ASSUME Fetch!ConfigAssumption

----------------------------------------------------------------------------
\* Two calls that are given one cancellation token.
Token == INSTANCE FetchClient WITH
    Calls <- {"c1", "c2"}, Requests <- {Request("https", "GET"), Request("data", "GET")},
    Origins <- {"a"}, RetryAfters <- {-1}, Second <- 2, Timeout <- 1, RetryDelay <- 1,
    MaxAttempts <- 1, MaxRedirects <- 0, RetryNonIdempotent <- FALSE, MaxTime <- 1,
    token <- r1, call <- r2, wire <- r3, now <- r4

----------------------------------------------------------------------------
\* Two callers and a batching transport, before the expected network, another
\* chain, or a fork with the same chain ID.
Networks ==
    {[chain |-> 1, genesis |-> 1], [chain |-> 2, genesis |-> 2], [chain |-> 1, genesis |-> 3]}
Reads == INSTANCE GuardedReads WITH
    Callers <- {"a", "b"}, Expected <- 1, Trusted <- 1, Batching <- TRUE, PageCalls <- 2,
    Blocks <- <<"h1", "h2">>, MaxInFlight <- 1, MaxId <- 12, MaxReads <- 2, nextId <- r1,
    permits <- r2, op <- r3, reads <- r4
ASSUME Reads!ReadAssumption

----------------------------------------------------------------------------
\* One caller and a transport that does not batch.
OneCaller == INSTANCE GuardedReads WITH
    Callers <- {"a"}, Expected <- 1, Trusted <- 1, Batching <- FALSE, PageCalls <- 2,
    Blocks <- <<"h1", "h2">>, MaxInFlight <- 1, MaxId <- 12, MaxReads <- 1, nextId <- r1,
    permits <- r2, op <- r3, reads <- r4

----------------------------------------------------------------------------
\* A wallet that reports its switches, and switches more often than the
\* revision counts.
Injected == INSTANCE InjectedWallet WITH
    Callers <- {"a"}, Kinds <- {"chain", "read", "accounts", "sign", "send", "submit"},
    Monitors <- TRUE, MaxInFlight <- 1, MaxRevision <- 1, MaxChanges <- 3, MaxOps <- 2,
    wallet <- r1, port <- r2, revision <- r3, active <- r4, op <- r5, switches <- r6,
    ops <- r7
ASSUME Injected!WalletAssumption

----------------------------------------------------------------------------
\* A wallet that answers requests and reports nothing.
RequestOnly == INSTANCE InjectedWallet WITH
    Callers <- {"a"}, Kinds <- {"read", "requestAccounts", "sign", "send", "submit"},
    Monitors <- FALSE, MaxInFlight <- 1, MaxRevision <- 2, MaxChanges <- 2, MaxOps <- 2,
    wallet <- r1, port <- r2, revision <- r3, active <- r4, op <- r5, switches <- r6,
    ops <- r7

----------------------------------------------------------------------------
\* Two callers for one permit.
Senders == INSTANCE InjectedWallet WITH
    Callers <- {"a", "b"}, Kinds <- {"read", "send"}, Monitors <- FALSE, MaxInFlight <- 1,
    MaxRevision <- 2, MaxChanges <- 1, MaxOps <- 2, wallet <- r1, port <- r2,
    revision <- r3, active <- r4, op <- r5, switches <- r6, ops <- r7

----------------------------------------------------------------------------
\* Two tasks of a page, one subscription, and notifications of one and two
\* bytes.
Socket == INSTANCE BrowserSocket WITH
    Tasks <- {a, b}, MaxFlight <- 2, MaxSubs <- 1, MaxQueue <- 1, MaxBytes <- 3,
    MaxIds <- 3, MaxNotes <- 3, closed <- r1, nextId <- r2, pending <- r3, subs <- r4,
    queuedBytes <- r5, pendingSubs <- r6, active <- r7, task <- r8, toNode <- r9,
    toPage <- r10, remote <- r11, noted <- r12
ASSUME Socket!SocketAssumption

----------------------------------------------------------------------------
\* Three calls over an endpoint without TLS, whose node is exchanged
\* meanwhile.
Signer == INSTANCE RemoteSigner WITH
    Kinds <- {"account", "sign", "unlock", "send"}, Secure <- FALSE, AllowInsecure <- FALSE,
    MaxCalls <- 3, MaxSwitches <- 3, node <- r1, switches <- r2, call <- r3, calls <- r4,
    sent <- r5, seen <- r6

----------------------------------------------------------------------------
\* A pinned quote with a discovered access list; prices, gas and fees reach
\* each limit and the largest amount.
Quote == INSTANCE AccountQuote WITH
    Kinds <- {"call", "deployment"}, Pinned <- TRUE, Discover <- TRUE, Slots <- {"x", "y"},
    Required <- {"x"}, Floor <- 1, Value <- 1, OldPrice <- 0, OldGas <- 0, BumpPercent <- 1,
    MaxGas <- 4, MaxPrice <- 2, MaxFee <- 7, MarginBps <- 2500, Word <- 8, Nonces <- {1, 2},
    Balances <- {6, 9}, Prices <- {1, 2, 3}, Estimates <- {0, 1, 3}, MaxMoves <- 1,
    MaxSwitches <- 1, chain <- r1, moves <- r2, onNetwork <- r3, switches <- r4, q <- r5
ASSUME Quote!QuoteAssumption

----------------------------------------------------------------------------
\* A replacement whose price bump is not a whole number.
Requote == INSTANCE AccountQuote WITH
    Kinds <- {"replacement", "conversion"}, Pinned <- FALSE, Discover <- FALSE,
    Slots <- {"x"}, Required <- {"x"}, Floor <- 1, Value <- 1, OldPrice <- 7, OldGas <- 2,
    BumpPercent <- 10, MaxGas <- 3, MaxPrice <- 9, MaxFee <- 18, MarginBps <- 5000,
    Word <- 20, Nonces <- {0, 1, 2}, Balances <- {15, 19}, Prices <- {5, 9},
    Estimates <- {1, 2, 3}, MaxMoves <- 1, MaxSwitches <- 0, chain <- r1, moves <- r2,
    onNetwork <- r3, switches <- r4, q <- r5
ASSUME Requote!QuoteAssumption

----------------------------------------------------------------------------
\* Words of four binary bytes and schemas of depth two.
Integer(signed, size) == [kind |-> "int", signed |-> signed, size |-> size]
Bool == [kind |-> "bool"]
Fixed(size) == [kind |-> "fixed", size |-> size]
Bytes == [kind |-> "bytes"]
Text == [kind |-> "string"]
Array(child, count) == [kind |-> "array", child |-> child, n |-> count]
Tuple(fields) == [kind |-> "tuple", fields |-> fields]
AnyLength == -1
Schemas ==
    { <<>>, <<Integer(TRUE, 2), Integer(FALSE, 3)>>, <<Bytes, Bool>>, <<Text, Bytes>>,
      <<Array(Fixed(1), 2), Integer(TRUE, 4)>>, <<Array(Integer(TRUE, 1), AnyLength)>>,
      <<Array(Array(Bool, AnyLength), AnyLength)>>, <<Tuple(<<Bytes, Fixed(2)>>)>>,
      <<Array(Tuple(<<>>), AnyLength), Bool>>, <<Array(Bytes, 0), Array(Bytes, 1)>>,
      <<Array(Bool, 5)>>, <<Array(Tuple(<<Array(Bool, 2)>>), 1)>> }
Abi == INSTANCE AbiCodec WITH
    WordLen <- 4, Base <- 2, MaxNodes <- 6, MaxDepth <- 2, MaxData <- 16, MaxWords <- 3,
    Ints <- {-9, -3, -2, -1, 0, 1, 3, 7, 8},
    Blobs <- {<<>>, <<0>>, <<1>>, <<0, 1>>, <<0, 0, 0, 0>>, <<0, 0, 0, 0, 0>>}, input <- r1,
    output <- r2
ASSUME Abi!CodecAssumption

----------------------------------------------------------------------------
\* Binary tries with keys of four nibbles, and worlds of two accounts with
\* two slots.
N(k) == [n |-> k]
TrieKeys == {<<0, 0, 0, 0>>, <<0, 0, 1, 0>>, <<0, 0, 1, 1>>, <<0, 1, 1, 0>>, <<1, 0, 0, 1>>}
Twins == {<<0, 0, 1, 0>>, <<0, 0, 1, 1>>}
MapKeys == {e \in SUBSET TrieKeys : Cardinality(e) <= 2} \cup {Twins \cup {k} : k \in TrieKeys}
Maps == {[k \in d |-> N(IF k \in two THEN 2 ELSE 1)] : d \in MapKeys, two \in {{}, {<<0, 0, 1, 0>>}}}
KeyOf == [x \in {"a", "b", "s", "t"} |->
            CASE x \in {"a", "s"} -> <<0, 0, 1, 1>> [] x = "b" -> <<0, 0, 1, 0>> [] x = "t" -> <<1, 0, 0, 1>>]
Nobody == [n |-> 0]
Accounts == {Nobody} \cup {[balance |-> c, code |-> "c", storage |-> s] :
                             c \in {0, 1}, s \in [{"s", "t"} -> {N(0), N(1)}]}
Plain == [balance |-> 1, code |-> "empty", storage |-> [s \in {"s", "t"} |-> N(0)]]
Worlds == [{"a", "b"} -> {Nobody, Plain}]
          \cup {[x \in {"a", "b"} |-> IF x = "a" THEN account ELSE Nobody] : account \in Accounts}
Strings == {[list |-> FALSE, bytes |-> s] : s \in UNION {[1..k -> {0, 1, 3}] : k \in 0..4}}
ListsOf(S, most) == {[list |-> TRUE, items |-> x] : x \in UNION {[1..k -> S] : k \in 0..most}}
Flat == ListsOf({[list |-> FALSE, bytes |-> s] : s \in {<<>>, <<1>>, <<3>>, <<1, 3, 1>>}}, 2)
Nested == ListsOf(Flat, 1)
Items == Strings \cup ListsOf(Strings, 1) \cup Flat \cup ListsOf(Flat, 2) \cup ListsOf(Nested, 1)
         \cup ListsOf(ListsOf(Nested, 1), 1)
Proof == INSTANCE StateProof WITH
    Arity <- 2, KeyLen <- 4, Inline <- 1, MaxProofNodes <- 5, Keys <- TrieKeys,
    Addresses <- {"a", "b"}, Slots <- {"s", "t"},
    SlotLists <- {<<>>, <<"s">>, <<"t">>, <<"s", "t">>}, PageWeight <- 8,
    TargetLists <- UNION {[1..k -> 0..4] : k \in 1..3}, Single <- 3, Short <- 2, Sizes <- 2,
    MaxDepth <- 3, MaxBytes <- 3, input <- r1, output <- r2
ASSUME Proof!ProofAssumption

----------------------------------------------------------------------------
\* Every byte string of up to three bytes, strings of up to four bytes and
\* lists nested past the limit.
Rlp == INSTANCE StateProof WITH
    Arity <- 2, KeyLen <- 4, Inline <- 1, MaxProofNodes <- 5, Keys <- TrieKeys,
    Addresses <- {"a", "b"}, Slots <- {"s", "t"},
    SlotLists <- {<<>>, <<"s">>, <<"t">>, <<"s", "t">>}, PageWeight <- 8,
    TargetLists <- UNION {[1..k -> 0..4] : k \in 1..3}, Single <- 3, Short <- 2, Sizes <- 2,
    MaxDepth <- 3, MaxBytes <- 3, input <- r1, output <- r2

----------------------------------------------------------------------------
Init ==
    /\ machine \in Machines
    /\ \/ machine = "hub" /\ Hub!Init /\ Blank(8)
       \/ machine = "ws" /\ Ws!Init /\ Blank(13)
       \/ machine = "ws ends" /\ WsEnds!Init /\ Blank(13)
       \/ machine = "fetch" /\ Fetch!Init /\ Blank(4)
       \/ machine = "token" /\ Token!Init /\ Blank(4)
       \/ machine = "reads" /\ Reads!Init /\ Blank(4)
       \/ machine = "single" /\ OneCaller!Init /\ Blank(4)
       \/ machine = "injected" /\ Injected!Init /\ Blank(7)
       \/ machine = "request only" /\ RequestOnly!Init /\ Blank(7)
       \/ machine = "two senders" /\ Senders!Init /\ Blank(7)
       \/ machine = "socket" /\ Socket!Init /\ Blank(12)
       \/ machine = "signer" /\ Signer!Init /\ Blank(6)
       \/ machine = "quote" /\ Quote!Init /\ Blank(5)
       \/ machine = "requote" /\ Requote!Init /\ Blank(5)
       \/ machine = "abi" /\ Abi!Init /\ Blank(2)
       \/ machine = "proof" /\ Proof!Init /\ Blank(2)
       \/ machine = "rlp" /\ Rlp!RlpInit /\ Blank(2)

Next ==
    \/ machine = "hub" /\ Hub!Next /\ Keep(8)
    \/ machine = "ws" /\ Ws!Next /\ Keep(13)
    \/ machine = "ws ends" /\ WsEnds!Next /\ Keep(13)
    \/ machine = "fetch" /\ Fetch!Next /\ Keep(4)
    \/ machine = "token" /\ Token!Next /\ Keep(4)
    \/ machine = "reads" /\ Reads!Next /\ Keep(4)
    \/ machine = "single" /\ OneCaller!Next /\ Keep(4)
    \/ machine = "injected" /\ Injected!Next /\ Keep(7)
    \/ machine = "request only" /\ RequestOnly!Next /\ Keep(7)
    \/ machine = "two senders" /\ Senders!Next /\ Keep(7)
    \/ machine = "socket" /\ Socket!Next /\ Keep(12)
    \/ machine = "signer" /\ Signer!Next /\ Keep(6)
    \/ machine = "quote" /\ Quote!Next /\ Keep(5)
    \/ machine = "requote" /\ Requote!Next /\ Keep(5)
    \/ machine = "abi" /\ Abi!Next /\ Keep(2)
    \/ machine = "proof" /\ Proof!Next /\ Keep(2)
    \/ machine = "rlp" /\ Rlp!RlpNext /\ Keep(2)

\* The fairness of each machine, as its module justifies it.
Fairness ==
    /\ WF_vars(machine = "ws ends" /\ WsEnds!Cleanup /\ Keep(13))
    /\ WF_vars(machine = "ws ends" /\ WsEnds!Send /\ Keep(13))
    /\ WF_vars(machine = "ws ends" /\ WsEnds!Respond /\ Keep(13))
    /\ WF_vars(machine = "ws ends" /\ WsEnds!Notify /\ Keep(13))
    /\ \A i \in 1..2 : WF_vars(machine = "ws ends" /\ (WsEnds!Take(i) \/ WsEnds!Abandon(i)) /\ Keep(13))
    /\ WF_vars(machine = "fetch" /\ (Fetch!FirstPoll("c1") \/ Fetch!Finish("c1")) /\ Keep(4))
    /\ WF_vars(machine = "fetch" /\ Fetch!WakeByCancel("c1") /\ Keep(4))
    /\ WF_vars(machine = "fetch" /\ Fetch!WakeByDeadline("c1") /\ Keep(4))
    /\ \A c \in {"c1", "c2"} : WF_vars(machine = "token" /\ (Token!FirstPoll(c) \/ Token!Finish(c) \/ Token!WakeByCancel(c) \/ Token!WakeByDeadline(c)) /\ Keep(4))

Spec == Init /\ [][Next]_vars

FairSpec == Spec /\ Fairness

----------------------------------------------------------------------------
\* Every registration has received, or still has queued, exactly what it was
\* promised, in order: nothing is lost, repeated or delivered to some of the
\* matching listeners only, and the counter that the limits are checked against
\* is what the queues hold.
DeliversExactly ==
    machine = "hub" => Hub!TypeOK /\ Hub!QueuedIsExact /\ Hub!DeliversExactly

\* An open session, native or in a page, leaves no subscription running unseen
\* on the node, loses no notification without saying so, counts what it queues,
\* is not ended by a notification that comes late, and settles every caller
\* when it closes.
SubscriptionsKept ==
    /\ machine = "ws" =>
         /\ Ws!TypeOK /\ Ws!NoHiddenSubscription /\ Ws!NoSilentGap
         /\ Ws!ToleratesLateNotes
    /\ machine = "socket" =>
         /\ Socket!NoHiddenSubscription /\ Socket!Accounted /\ Socket!NoGap
         /\ Socket!ClosedSettles


\* A remote send is executed once however often a caller repeats what was not
\* dispatched, and the hash that a node or a wallet acknowledged is reported
\* whatever a check after the send finds.
SendsKnown ==
    /\ machine = "signer" =>
         /\ Signer!SentOnce /\ Signer!NetworkBracketed /\ Signer!HashKept
    /\ machine = "two senders" => Senders!SendOutcome /\ Senders!HashKept




\* However a fetch is redirected, retried and cancelled, its exchanges stay
\* within what was configured, its credentials stay with their origin, a wait
\* that was asked for is honoured, its token is held by one call, and it
\* returns in time.
FetchBounded ==
    /\ [](/\ machine = "fetch" =>
               /\ Fetch!TypeOK /\ Fetch!ExchangesBounded
               /\ Fetch!CredentialsStayHome /\ Fetch!RetryAfterHonoured
          /\ machine = "token" => Token!TokenIsHeld)
    /\ [][machine = "fetch" => Fetch!ReturnedInTime]_vars

\* A request over the socket is answered, refused or given up, a subscription
\* whose owner is gone ends, and the deadline or a cancellation ends a fetch
\* wherever it waits, whether or not the backend answers.
CallsEnd ==
    /\ \A i \in 1..2 : (machine = "ws ends" /\ WsEnds!Asked(i)) ~> (machine = "ws ends" /\ WsEnds!Gone(i))
    /\ (machine = "ws ends" /\ WsEnds!Orphan(1)) ~> (machine = "ws ends" /\ WsEnds!Left(1))
    /\ (machine = "fetch" /\ Fetch!Late) ~> (machine = "fetch" /\ Fetch!Gone)
    /\ (machine = "token" /\ Token!Cancelled) ~> (machine = "token" /\ Token!Free)
=============================================================================
