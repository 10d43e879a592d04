---------------------------- MODULE RemoteSigner ----------------------------
(*************************************************************************)
(* RpcAccountSigner (quai-sdk rpc_signer.rs): signing, unlocking and        *)
(* sending with an account a node holds, and the observation of what was    *)
(* sent.  A caller repeats a call while its error says that nothing was     *)
(* dispatched, as ErrorClass invites it to.                                 *)
(*                                                                        *)
(* The endpoint's node is external: between two requests another may take   *)
(* its place, of another network or without the account.  A request or its  *)
(* answer may be lost.                                                      *)
(*************************************************************************)
EXTENDS Integers, Sequences, FiniteSets

CONSTANTS
    Kinds,        \* "account", "sign", "unlock", "send"
    Secure,       \* the endpoint's scheme is https or wss
    AllowInsecure,\* allow_insecure_unlock
    MaxCalls,     \* bound on the caller's attempts
    MaxSwitches   \* bound on the changes of node

VARIABLES
    node,      \* [network, exposed]: whether it is on the scope's network and has the account
    switches,
    call,      \* the call in progress
    calls,     \* attempts so far
    sent,      \* sends a node of the network executed
    seen       \* observation of an acknowledged send

vars == <<node, switches, call, calls, sent, seen>>

Nodes == [network : BOOLEAN, exposed : BOOLEAN]
Idle ==
    [pc |-> "idle", kind |-> "none", i |-> 0, reply |-> "none", asked |-> FALSE, off |-> FALSE,
     began |-> 0, dispatched |-> FALSE, hash |-> "none", result |-> "none"]

Init ==
    /\ node = [network |-> TRUE, exposed |-> TRUE] /\ switches = 0
    /\ call = Idle /\ calls = 0 /\ sent = 0 /\ seen = Idle

----------------------------------------------------------------------------
\* check_before and check_after: the network next to the request on each side.
CheckBefore == <<"accounts", "network">>
CheckAfter == <<"network", "accounts">>

\* dispatch and send_transaction; check_account; observe.
Script(kind) ==
    CASE kind = "account" -> <<"network", "accounts", "network">>
      [] kind = "observe" -> <<"network", "transaction", "network">>
      [] OTHER -> CheckBefore \o <<kind>> \o CheckAfter
Dispatches(kind) == kind \in {"sign", "unlock", "send"}
Main(kind) == IF Dispatches(kind) THEN Len(CheckBefore) + 1 ELSE 2

\* Mutant: a lost answer counts as not dispatched.
DispatchedByAnswer(f) == Dispatches(f.kind) /\ f.i > Main(f.kind)
\* RpcSignerError::before and after
Dispatched(f) == Dispatches(f.kind) /\ f.i >= Main(f.kind)

\* The hash of an answer that parses, of this zone or not.
ReportedHash(f) == IF f.kind = "send" /\ f.reply \in {"asked", "other"} THEN f.reply ELSE "none"

End(f, why) ==
    [f EXCEPT !.pc = "ended", !.result = why, !.hash = ReportedHash(f), !.dispatched = Dispatched(f)]

\* What is refused before anything is asked.
Refused(kind) == kind = "unlock" /\ ~Secure /\ ~AllowInsecure

\* A first call, or another after a failure without a dispatch.
Call(kind) ==
    /\ \/ call.pc = "idle"
       \/ call.pc = "ended" /\ call.result # "ok" /\ ~call.dispatched /\ call.kind = kind
    /\ calls < MaxCalls /\ calls' = calls + 1
    /\ call' = LET f == [Idle EXCEPT !.pc = "asking", !.kind = kind, !.i = 1, !.began = switches]
               IN IF Refused(kind) THEN End(f, "InsecureTransport") ELSE f
    /\ UNCHANGED <<node, switches, sent, seen>>

\* The verification of a signature, a signed transaction or a reported hash.
Result(f) == IF f.reply = "asked" \/ f.kind = "account" THEN "ok" ELSE "InvalidResponse"

Further(f) == IF f.i = Len(Script(f.kind)) THEN End(f, Result(f)) ELSE [f EXCEPT !.i = @ + 1]

\* A check or the request itself is answered by the node there is now.
Answered(f, reply) ==
    LET request == Script(f.kind)[f.i]
    IN IF request = "network" THEN IF node.network THEN Further(f) ELSE End(f, "NetworkMismatch")
       ELSE IF request = "accounts"
       THEN IF node.exposed THEN Further(f) ELSE End(f, "AccountUnavailable")
       ELSE Further([f EXCEPT !.reply = reply, !.off = ~node.network, !.asked = TRUE])

Executes == call.kind = "send" /\ call.i = Main("send") /\ node.network /\ node.exposed

\* The request reaches the node and its answer comes back.
Answer(reply) ==
    /\ call.pc = "asking"
    /\ call' = Answered(call, reply)
    /\ sent' = IF Executes THEN sent + 1 ELSE sent
    /\ UNCHANGED <<node, switches, calls, seen>>

\* The request is lost, or executed and its answer lost.
Lose ==
    /\ call.pc = "asking"
    /\ call' = [End(call, "Rpc") EXCEPT !.asked = @ \/ call.i = Main(call.kind)]
    /\ sent' \in {sent, IF Executes THEN sent + 1 ELSE sent}
    /\ UNCHANGED <<node, switches, calls, seen>>

----------------------------------------------------------------------------
(* RemoteSendAcknowledgement::observe                                      *)

Observe ==
    /\ call.kind = "send" /\ call.result = "ok" /\ seen.pc = "idle"
    /\ seen' = [Idle EXCEPT !.pc = "asking", !.kind = "observe", !.i = 1, !.began = switches]
    /\ UNCHANGED <<node, switches, call, calls, sent>>

\* The node knows the requested transaction, another under that hash, or none.
ObserveAnswer(reply) ==
    /\ seen.pc = "asking"
    /\ seen' = Answered(seen, reply)
    /\ UNCHANGED <<node, switches, call, calls, sent>>

\* Another node answers from now on.
Switch(n) ==
    /\ n # node /\ switches < MaxSwitches
    /\ node' = n /\ switches' = switches + 1
    /\ UNCHANGED <<call, calls, sent, seen>>

Replies == {"asked", "other", "junk"}
Next ==
    \/ \E kind \in Kinds : Call(kind)
    \/ \E reply \in Replies : Answer(reply) \/ ObserveAnswer(reply)
    \/ Lose \/ Observe
    \/ \E n \in Nodes : Switch(n)

Spec == Init /\ [][Next]_vars

----------------------------------------------------------------------------
\* Repeating a send while its error says "not dispatched" executes it at most
\* once, whatever was lost and whichever node answered.
SentOnce == sent <= 1

\* "The pair brackets" the request: a result from another network takes a
\* switch away after one check and a switch back before the other.
NetworkBracketed ==
    \A f \in {call, seen} : f.result = "ok" /\ f.off => switches >= f.began + 2

\* Whatever fails after a node reported a hash, the error still has it.
HashKept ==
    /\ call.result \notin {"none", "ok"} /\ call.kind = "send" /\ call.reply \in {"asked", "other"}
    => call.hash # "none"
====
