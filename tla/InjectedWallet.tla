--------------------------- MODULE InjectedWallet ---------------------------
(*************************************************************************)
(* InjectedProvider (quai-browser browser.rs, browser/submission.rs and     *)
(* browser/wallet_send.rs) over a page's wallet: reads, account requests,   *)
(* signatures, wallet sends and raw submissions, each a script of requests  *)
(* with checks of the wallet's context between them.                        *)
(*                                                                        *)
(* The wallet is external.  Its user switches chain and accounts at any     *)
(* time; its replies and its change events reach the page through one port, *)
(* in order, and it may never reply.                                        *)
(*************************************************************************)
EXTENDS Integers, Sequences, FiniteSets

CONSTANTS
    Callers,
    Kinds,        \* the operations a caller may start
    Monitors,     \* whether the wallet emits change events
    MaxInFlight,  \* max_in_flight
    MaxRevision,  \* the revision's ceiling, 0xffffffff
    MaxChanges, MaxOps  \* bounds on switches and on operations

WalletAssumption == MaxInFlight \in Nat \ {0} /\ MaxRevision \in Nat /\ Monitors \in BOOLEAN

VARIABLES
    wallet,   \* the wallet's context: on the expected chain, exposing the account
    port,     \* messages from the wallet to the page
    revision, \* ProviderWatch's counter
    active,   \* requests in flight
    op,       \* op[c]: the operation of a caller
    switches, ops

vars == <<wallet, port, revision, active, op, switches, ops>>

Contexts == [chain : BOOLEAN, account : BOOLEAN]
Good == [chain |-> TRUE, account |-> TRUE]
NoReply == [at |-> Good, form |-> "none"]
Idle ==
    [pc |-> "idle", kind |-> "none", i |-> 0, revision |-> 0, asked |-> FALSE,
     main |-> NoReply, reply |-> NoReply, began |-> 0, result |-> "none", reported |-> "none"]

\* InjectedProvider::new
Init ==
    /\ wallet = Good /\ port = <<>> /\ revision = 0 /\ active = 0
    /\ op = [c \in Callers |-> Idle] /\ switches = 0 /\ ops = 0

----------------------------------------------------------------------------
(* The operations as scripts.                                              *)

\* Kinds that act for one account.
ForAccount == {"sign", "send"}
\* personal_sign, sign_typed_data and sign_quai_transaction share their steps.
SignScript == <<"chainId", "accounts", "sign">>

\* verify_context asks a wallet without events again.
Recheck(kind) ==
    IF Monitors THEN <<>>
    ELSE IF kind \in ForAccount THEN <<"chainId", "accounts">> ELSE <<"chainId">>

Script(kind) ==
    CASE kind = "chain" -> <<"chainId">>
      [] kind = "read" -> <<"chainId", "read">> \o Recheck(kind)
      [] kind = "accounts" -> <<"chainId", "accounts">> \o Recheck(kind)
      [] kind = "requestAccounts" -> <<"chainId", "requestAccounts", "chainId">>
      [] kind = "sign" -> SignScript \o Recheck(kind)
      [] kind = "send" -> <<"chainId", "accounts", "send">> \o Recheck(kind)
      [] kind = "submit" -> <<"chainId", "submit">> \o Recheck(kind)

\* The step whose reply the operation returns.
Main(kind) ==
    CASE kind = "chain" -> 1 [] kind \in ForAccount -> 3 [] OTHER -> 2

\* The steps after which provider_changed is asked: before a write, after the
\* main reply and after the recheck.
CheckedAfter(kind) ==
    CASE kind = "requestAccounts" -> {}
      [] kind \in {"sign", "send", "submit"} -> {Main(kind) - 1, Main(kind), Len(Script(kind))}
      [] OTHER -> {Main(kind), Len(Script(kind))}

----------------------------------------------------------------------------
(* The wallet.                                                             *)

\* The user switches; a wallet with events announces it.
Switch(context) ==
    /\ context # wallet /\ switches < MaxChanges
    /\ wallet' = context /\ switches' = switches + 1
    /\ port' = IF Monitors THEN Append(port, [type |-> "event"]) ELSE port
    /\ UNCHANGED <<revision, active, op, ops>>

\* The forms a reply takes: what was asked for, something else that parses, or junk.
Forms(request) ==
    IF request \in {"sign", "send"} THEN {"asked", "other", "junk", "refused"} ELSE {"asked", "refused"}

\* The wallet answers in the context it has then.
Serve(c, form) ==
    /\ op[c].pc = "asking"
    /\ op' = [op EXCEPT ![c].pc = "served"]
    /\ port' = Append(port, [type |-> "reply", to |-> c, value |-> [at |-> wallet, form |-> form]])
    /\ UNCHANGED <<wallet, revision, active, switches, ops>>

\* The page takes the next message; a reply nobody waits for is dropped.
Deliver ==
    /\ port # <<>> /\ port' = Tail(port)
    /\ LET m == Head(port)
       IN IF m.type = "event"
          THEN /\ revision' = IF revision < MaxRevision THEN revision + 1 ELSE revision
               /\ UNCHANGED op
          ELSE /\ op' = [op EXCEPT ![m.to] = IF op[m.to].pc = "served"
                             THEN [op[m.to] EXCEPT !.pc = "answered", !.reply = m.value] ELSE @]
               /\ UNCHANGED revision
    /\ UNCHANGED <<wallet, active, switches, ops>>

----------------------------------------------------------------------------
(* The operations.                                                         *)

\* provider_changed
Changed(f) == revision = MaxRevision \/ revision # f.revision

\* WalletSendError: from the send request on, acceptance is ambiguous.
Outcome(f, why) ==
    IF f.kind # "send" THEN why ELSE IF f.i >= Main("send") THEN "ambiguous" ELSE "preflight"

\* The hash the wallet reported, well formed or not of this zone.
Reported(f) == IF f.main.form \in {"asked", "other"} THEN f.main.form ELSE "none"

End(f, why) ==
    [f EXCEPT !.pc = "ended", !.reply = NoReply, !.revision = 0, !.i = 0,
              !.result = IF why = "ok" THEN why ELSE Outcome(f, why),
              !.reported = IF f.kind = "send" THEN Reported(f) ELSE "none"]

\* raw: a permit for the request at f.i, or Busy.  held is what is in flight besides.
Ask(c, f, held) ==
    IF held >= MaxInFlight
    THEN op' = [op EXCEPT ![c] = End(f, "Busy")] /\ active' = held
    ELSE /\ op' = [op EXCEPT ![c] = [f EXCEPT !.pc = "asking", !.asked = @ \/ f.i = Main(f.kind)]]
         /\ active' = held + 1

Start(c, kind) ==
    /\ op[c].pc = "idle" /\ ops < MaxOps /\ ops' = ops + 1
    /\ Ask(c, [Idle EXCEPT !.kind = kind, !.i = 1, !.revision = revision, !.began = switches], active)
    /\ UNCHANGED <<wallet, port, revision, switches>>

\* What the reply to the request at f.i is refused for.
Refusal(f) ==
    LET request == Script(f.kind)[f.i]
    IN CASE f.reply.form = "refused" -> "Provider"
         [] request = "chainId" /\ ~f.reply.at.chain -> "ChainMismatch"
         [] request = "accounts" /\ f.kind \in ForAccount /\ ~f.reply.at.account -> "AccountUnavailable"
         [] f.i \in CheckedAfter(f.kind) /\ Changed(f) -> "ContextChanged"
         [] OTHER -> "none"

\* verified_signature, the signed transaction's comparison and valid_hash.
Released(f) == IF f.main.form = "asked" THEN "ok" ELSE "InvalidResult"

\* The operation's future is polled with a reply.
Step(c) ==
    LET f == [op[c] EXCEPT !.main = IF op[c].i = Main(op[c].kind) THEN op[c].reply ELSE @]
    IN /\ op[c].pc = "answered"
       /\ IF Refusal(f) # "none"
          THEN op' = [op EXCEPT ![c] = End(f, Refusal(f))] /\ active' = active - 1
          ELSE IF f.i = Len(Script(f.kind))
          THEN op' = [op EXCEPT ![c] = End(f, Released(f))] /\ active' = active - 1
          ELSE Ask(c, [f EXCEPT !.i = @ + 1], active - 1)
       /\ UNCHANGED <<wallet, port, revision, switches, ops>>

InFlight == {"asking", "served", "answered"}

\* The request times out; the guard aborts it.
TimeOut(c) ==
    /\ op[c].pc \in {"asking", "served"}
    /\ op' = [op EXCEPT ![c] = End(@, "Timeout")] /\ active' = active - 1
    /\ UNCHANGED <<wallet, port, revision, switches, ops>>

\* Permit::drop
PermitDropped == active - 1

\* The caller drops the operation's future.
Drop(c) ==
    /\ op[c].pc \in InFlight
    /\ op' = [op EXCEPT ![c] = [@ EXCEPT !.pc = "ended", !.result = "dropped"]]
    /\ active' = PermitDropped
    /\ UNCHANGED <<wallet, port, revision, switches, ops>>

\* The caller has taken the result.
Forget(c) ==
    /\ op[c].pc = "ended" /\ \A i \in DOMAIN port : port[i].type = "reply" => port[i].to # c
    /\ op' = [op EXCEPT ![c] = Idle]
    /\ UNCHANGED <<wallet, port, revision, active, switches, ops>>

Next ==
    \/ \E context \in Contexts : Switch(context)
    \/ Deliver
    \/ \E c \in Callers :
           \/ \E kind \in Kinds : Start(c, kind)
           \/ op[c].pc = "asking" /\ \E form \in Forms(Script(op[c].kind)[op[c].i]) : Serve(c, form)
           \/ Step(c) \/ TimeOut(c) \/ Drop(c) \/ Forget(c)

Spec == Init /\ [][Next]_vars

----------------------------------------------------------------------------
\* What an operation returned was served outside the context it was asked in.
OutOfContext(f) ==
    f.result = "ok" /\ (~f.main.at.chain \/ (f.kind \in ForAccount /\ ~f.main.at.account))

\* With a wallet that announces changes, a value, signature or acknowledgement
\* is never returned when the wallet served it on another chain or without the
\* account, however briefly it was switched and however late the event came.
ServedInContext ==
    \A c \in Callers : op[c].kind # "requestAccounts" => ~OutOfContext(op[c])

\* "Request-only providers cannot report transient changes": a value out of
\* context takes a switch away and a switch back during the operation.
OneSwitchSeen ==
    \A c \in Callers : OutOfContext(op[c]) => switches >= op[c].began + 2

\* "Preflight": the wallet was never asked to send, whatever failed; from the
\* moment it was asked, every failure says that acceptance is ambiguous.
SendOutcome ==
    \A c \in Callers : op[c].kind = "send" /\ op[c].pc = "ended" /\ op[c].asked =>
        op[c].result \in {"ok", "ambiguous", "dropped"}

\* A hash the wallet reported is never lost with the failure of a later check.
HashKept ==
    \A c \in Callers : op[c].result = "ambiguous" /\ op[c].main.form \in {"asked", "other"} =>
        op[c].reported # "none"

\* max_in_flight bounds the requests at the wallet, and every way an operation
\* ends gives its permit back.
PermitsExact ==
    /\ active = Cardinality({c \in Callers : op[c].pc \in InFlight})
    /\ active <= MaxInFlight
====
