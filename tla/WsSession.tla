------------------------------ MODULE WsSession ------------------------------
(***************************************************************************)
(* One multiplexed WebSocket session (quai-rpc's websocket.rs): callers,   *)
(* the session task `run` with its `dispatch`, and a node that answers     *)
(* requests in any order and writes notifications when it gets to them.    *)
(*                                                                         *)
(* A request's deadline and the cancellation of its future are one step,   *)
(* Abandon: both drop the receiving end of its reply, and the task treats  *)
(* a closed reply and a past deadline alike.                               *)
(***************************************************************************)
EXTENDS Integers, FiniteSets, SequencesExt

CONSTANTS
    MaxId,              \* bound of request identities
    MaxInFlight,        \* config.max_in_flight
    MaxSubscriptions,   \* config.max_subscriptions
    Capacity,           \* config.subscription_capacity
    MaxRecent,          \* MAX_RECENTLY_UNSUBSCRIBED
    MaxOpened,          \* bound of the subscriptions the node accepts
    MaxNotes,           \* bound: notifications the node makes per subscription
    None

VARIABLES
    req,        \* the requests issued, by identity
    commands,   \* the channel from callers to the task
    subs,       \* the task's `subscriptions`
    recent,     \* recently_unsubscribed
    sub,        \* per subscription: its handle, terminal error and queue
    shutdown, closed,
    toServer, toClient,
    opened, live,   \* the node's subscriptions: how many so far, which still
    made, written   \* notifications it has made, and put on the wire

task == <<subs, recent>>
node == <<toServer, toClient, opened, live, made, written>>
vars == <<req, commands, task, sub, shutdown, closed, node>>

Ids == 1..MaxId
SubIds == 1..MaxOpened
Issued == {i \in Ids : req[i].phase # "none"}
NextId == Cardinality(Issued) + 1
InFlight == {i \in Ids : req[i].phase \in {"queued", "pending"}}
Pending == {i \in Ids : req[i].phase = "pending"}

\* Registrations hold a permit from the request on.
Registrations ==
    Cardinality(subs) + Cardinality({i \in InFlight : req[i].kind = "subscribe"})

Request == [kind : {"call", "subscribe", "unsubscribe", "lagged"}, sub : SubIds \cup {None},
            waiting : BOOLEAN, phase : {"none", "queued", "pending", "answered", "gone"},
            value : {"own", "error", "closed", "timeout", None}]
Subscription == [handle : {"none", "held", "leaving", "gone"},
                 terminal : {"closed", "lagged", "failed", None},
                 queue : Seq(1..MaxNotes), got : 0..MaxNotes]

TypeOK ==
    /\ req \in [Ids -> Request] /\ sub \in [SubIds -> Subscription]
    /\ subs \subseteq SubIds /\ Cardinality(InFlight) <= MaxInFlight
    /\ shutdown \in BOOLEAN /\ closed \in {"failed", "invalid", None}

Init ==
    /\ req = [i \in Ids |-> [kind |-> "call", sub |-> None, waiting |-> FALSE,
                             phase |-> "none", value |-> None]]
    /\ commands = <<>> /\ subs = {} /\ recent = <<>>
    /\ sub = [s \in SubIds |-> [handle |-> "none", terminal |-> None, queue |-> <<>>,
                                got |-> 0]]
    /\ shutdown = FALSE /\ closed = None
    /\ toServer = {} /\ toClient = <<>> /\ opened = 0 /\ live = {}
    /\ made = [s \in SubIds |-> 0] /\ written = [s \in SubIds |-> 0]

----------------------------------------------------------------------------
(* Callers *)

Issue(kind, s) ==
    /\ ~shutdown /\ closed = None
    /\ Cardinality(InFlight) < MaxInFlight
    /\ NextId <= MaxId
    /\ req' = [req EXCEPT ![NextId] = [kind |-> kind, sub |-> s, waiting |-> TRUE,
                                       phase |-> "queued", value |-> None]]
    /\ commands' = Append(commands, NextId)

Call == Issue("call", None) /\ UNCHANGED <<task, sub, shutdown, closed, node>>

Subscribe ==
    /\ Registrations < MaxSubscriptions
    /\ Issue("subscribe", None)
    /\ UNCHANGED <<task, sub, shutdown, closed, node>>

\* A lagged subscription is left without a request.
Unsubscribe(s) ==
    /\ sub[s].handle = "held"
    /\ \/ /\ sub[s].terminal # "lagged"
          /\ Issue("unsubscribe", s)
          /\ sub' = [sub EXCEPT ![s].handle = "leaving"]
       \/ /\ sub[s].terminal = "lagged"
          /\ sub' = [sub EXCEPT ![s].handle = "gone"]
          /\ UNCHANGED <<req, commands>>
    /\ UNCHANGED <<task, shutdown, closed, node>>

\* Drop of an armed handle: the session ends unless it ended this one already.
Dropped(s) ==
    /\ sub' = [sub EXCEPT ![s].handle = "gone", ![s].queue = <<>>]
    /\ shutdown' = (shutdown \/ sub[s].terminal = None)

DropHandle(s) ==
    /\ sub[s].handle = "held"
    /\ Dropped(s)
    /\ UNCHANGED <<req, commands, task, closed, node>>

\* recv: a terminal error has priority over buffered values.
Receive(s) ==
    /\ sub[s].handle = "held"
    /\ sub[s].terminal = None /\ closed = None
    /\ sub[s].queue # <<>>
    /\ sub' = [sub EXCEPT ![s].queue = Tail(@), ![s].got = Head(sub[s].queue)]
    /\ UNCHANGED <<req, commands, task, shutdown, closed, node>>

\* The caller takes its reply: a handle for an accepted subscription, and for
\* an unsubscribe that was not acknowledged, the drop of its handle.
Take(i) ==
    LET r == req[i]
    IN  /\ r.phase = "answered" /\ r.waiting
        /\ req' = [req EXCEPT ![i].phase = "gone", ![i].waiting = FALSE]
        /\ CASE r.kind = "subscribe" /\ r.value = "own" ->
                  /\ sub' = [sub EXCEPT ![r.sub].handle = "held"]
                  /\ UNCHANGED shutdown
             [] r.kind = "unsubscribe" /\ r.value = "own" ->
                  /\ sub' = [sub EXCEPT ![r.sub].handle = "gone", ![r.sub].queue = <<>>]
                  /\ UNCHANGED shutdown
             [] r.kind = "unsubscribe" /\ r.value # "own" -> Dropped(r.sub)
             [] OTHER -> UNCHANGED <<sub, shutdown>>
        /\ UNCHANGED <<commands, task, closed, node>>

\* The deadline passes or the future is dropped, before the reply or just
\* before the caller would have read it.
Abandon(i) ==
    LET r == req[i]
    IN  /\ r.waiting
        /\ req' = [req EXCEPT ![i].waiting = FALSE,
                              ![i].phase = IF @ = "answered" THEN "gone" ELSE @]
        /\ CASE r.kind = "subscribe" /\ r.phase = "answered" /\ r.value = "own" ->
                  /\ sub' = [sub EXCEPT ![r.sub].handle = "gone"]
                  /\ UNCHANGED shutdown
             [] r.kind = "unsubscribe" -> Dropped(r.sub)
             [] OTHER -> UNCHANGED <<sub, shutdown>>
        /\ UNCHANGED <<commands, task, closed, node>>

Shutdown ==
    /\ ~shutdown /\ closed = None
    /\ shutdown' = TRUE
    /\ UNCHANGED <<req, commands, task, sub, closed, node>>

----------------------------------------------------------------------------
(* The session task *)

Answer(r, value) ==
    [r EXCEPT !.phase = IF r.waiting THEN "answered" ELSE "gone", !.value = value]

\* The end of `run`: every pending and queued request and every subscription
\* learns of it.
End(failure) ==
    /\ req' = [i \in Ids |-> IF i \in InFlight THEN Answer(req[i], "closed") ELSE req[i]]
    /\ sub' = [s \in SubIds |-> IF s \in subs THEN [sub[s] EXCEPT !.terminal = "failed"]
                                ELSE sub[s]]
    /\ subs' = {} /\ commands' = <<>>
    /\ closed' = failure

\* Shutdown was asked for, the socket failed, or the keepalive found it dead.
Break ==
    /\ closed = None
    /\ End("failed")
    /\ UNCHANGED <<recent, shutdown, node>>

Orphaned == {s \in subs : sub[s].handle = "gone"}
Abandoned == {i \in Pending : ~req[i].waiting}

\* Mutant: an abandoned registration is forgotten like any other request.
CleanupForgets ==
    /\ closed = None
    /\ Orphaned \cup Abandoned # {}
    /\ \/ /\ Orphaned # {}
          /\ End("failed")
          /\ UNCHANGED <<recent, shutdown, node>>
       \/ /\ Orphaned = {}
          /\ req' = [i \in Ids |-> IF i \in Abandoned THEN Answer(req[i], "timeout") ELSE req[i]]
          /\ UNCHANGED <<commands, task, sub, shutdown, closed, node>>

\* Mutant: only subscriptions are looked after.
CleanupOrphansOnly ==
    /\ closed = None
    /\ Orphaned # {}
    /\ End("failed")
    /\ UNCHANGED <<recent, shutdown, node>>

\* The cleanup tick.
Cleanup ==
    /\ closed = None
    /\ Orphaned \cup Abandoned # {}
    /\ \/ /\ Orphaned # {} \/ \E i \in Abandoned : req[i].kind # "call"
          /\ End("failed")
          /\ UNCHANGED <<recent, shutdown, node>>
       \/ /\ Orphaned = {} /\ \A i \in Abandoned : req[i].kind = "call"
          /\ req' = [i \in Ids |-> IF i \in Abandoned THEN Answer(req[i], "timeout") ELSE req[i]]
          /\ UNCHANGED <<commands, task, sub, shutdown, closed, node>>

\* A command that is abandoned already is never sent.
Send ==
    /\ closed = None /\ commands # <<>>
    /\ commands' = Tail(commands)
    /\ LET i == Head(commands)
       IN  \/ /\ ~req[i].waiting
              /\ req' = [req EXCEPT ![i] = Answer(@, "timeout")]
              /\ UNCHANGED toServer
           \/ /\ req[i].waiting
              /\ req' = [req EXCEPT ![i].phase = "pending"]
              /\ toServer' = toServer \cup {i}
    /\ UNCHANGED <<task, sub, shutdown, closed, toClient, opened, live, made, written>>

Remembered(s) == IF Len(recent) = MaxRecent THEN Append(Tail(recent), s) ELSE Append(recent, s)

\* A response in turn: one to a request no longer pending is late and ignored.
Respond ==
    /\ closed = None /\ toClient # <<>> /\ Head(toClient).type = "reply"
    /\ toClient' = Tail(toClient)
    /\ LET frame == Head(toClient)
           r == req[frame.id]
           value == IF frame.ok THEN "own" ELSE "error"
           acknowledged == r.kind = "unsubscribe" /\ frame.ok /\ r.sub \in subs
       IN  CASE frame.id \notin Pending ->
                  UNCHANGED <<req, commands, task, sub, closed>>
             [] frame.id \in Pending /\ r.kind = "subscribe" /\ ~r.waiting ->
                  End("failed") /\ UNCHANGED recent
             [] OTHER ->
                  /\ req' = [req EXCEPT ![frame.id] = [Answer(@, value) EXCEPT !.sub =
                               IF r.kind = "subscribe" THEN frame.sub ELSE @]]
                  /\ subs' = CASE r.kind = "subscribe" /\ frame.ok -> subs \cup {frame.sub}
                               [] acknowledged -> subs \ {r.sub}
                               [] OTHER -> subs
                  /\ sub' = IF acknowledged THEN [sub EXCEPT ![r.sub].terminal = "closed"] ELSE sub
                  /\ recent' = IF acknowledged THEN Remembered(r.sub) ELSE recent
                  /\ UNCHANGED <<commands, closed>>
    /\ UNCHANGED <<shutdown, toServer, opened, live, made, written>>

\* A subscriber that is behind is ended, alone, and unsubscribed on the node by
\* a request whose reply nobody waits for.
Lag(s) ==
    /\ NextId <= MaxId
    /\ sub' = [sub EXCEPT ![s].terminal = "lagged"]
    /\ subs' = subs \ {s}
    /\ recent' = Remembered(s)
    /\ req' = [req EXCEPT ![NextId] = [kind |-> "lagged", sub |-> s, waiting |-> FALSE,
                                       phase |-> "gone", value |-> None]]
    /\ toServer' = toServer \cup {NextId}
    /\ UNCHANGED <<commands, closed>>

\* A notification in turn.
Notify ==
    /\ closed = None /\ toClient # <<>> /\ Head(toClient).type = "note"
    /\ toClient' = Tail(toClient)
    /\ LET s == Head(toClient).sub
       IN  CASE s \notin subs /\ s \in Range(recent) ->
                  UNCHANGED <<req, commands, task, sub, closed, toServer>>
             [] s \notin subs /\ s \notin Range(recent) ->
                  End("invalid") /\ UNCHANGED <<recent, toServer>>
             [] s \in subs /\ sub[s].handle = "gone" ->
                  End("failed") /\ UNCHANGED <<recent, toServer>>
             [] s \in subs /\ sub[s].handle # "gone" /\ Len(sub[s].queue) < Capacity ->
                  /\ sub' = [sub EXCEPT ![s].queue = Append(@, Head(toClient).note)]
                  /\ UNCHANGED <<req, commands, task, closed, toServer>>
             [] OTHER -> Lag(s)
    /\ UNCHANGED <<shutdown, opened, live, made, written>>

----------------------------------------------------------------------------
(* The node *)

Reply(i, ok, s) == [type |-> "reply", id |-> i, ok |-> ok, sub |-> s, note |-> 0]

\* Any request it has received. A subscription identifier is never used twice.
Serve(i) ==
    /\ closed = None /\ i \in toServer
    /\ toServer' = toServer \ {i}
    /\ \/ /\ req[i].kind = "call"
          /\ \E ok \in BOOLEAN : toClient' = Append(toClient, Reply(i, ok, None))
          /\ UNCHANGED <<opened, live>>
       \/ /\ req[i].kind = "subscribe"
          /\ \/ /\ opened < MaxOpened
                /\ opened' = opened + 1
                /\ live' = live \cup {opened + 1}
                /\ toClient' = Append(toClient, Reply(i, TRUE, opened + 1))
             \/ /\ toClient' = Append(toClient, Reply(i, FALSE, None))
                /\ UNCHANGED <<opened, live>>
       \/ /\ req[i].kind \in {"unsubscribe", "lagged"}
          /\ live' = live \ {req[i].sub}
          /\ toClient' = Append(toClient, Reply(i, req[i].sub \in live, None))
          /\ UNCHANGED opened
    /\ UNCHANGED <<req, commands, task, sub, shutdown, closed, made, written>>

Make(s) ==
    /\ closed = None /\ s \in live /\ made[s] < MaxNotes
    /\ made' = [made EXCEPT ![s] = @ + 1]
    /\ UNCHANGED <<req, commands, task, sub, shutdown, closed, toServer, toClient, opened, live, written>>

\* What was made before an unsubscribe may be written after its answer.
Write(s) ==
    /\ closed = None /\ written[s] < made[s]
    /\ written' = [written EXCEPT ![s] = @ + 1]
    /\ toClient' = Append(toClient, [type |-> "note", id |-> 0, ok |-> TRUE, sub |-> s,
                                     note |-> written[s] + 1])
    /\ UNCHANGED <<req, commands, task, sub, shutdown, closed, toServer, opened, live, made>>

Task == Break \/ Cleanup \/ Send \/ Respond \/ Notify
Callers ==
    \/ Call \/ Subscribe \/ Shutdown
    \/ \E s \in SubIds : Unsubscribe(s) \/ DropHandle(s) \/ Receive(s)
    \/ \E i \in Ids : Take(i) \/ Abandon(i)
Node ==
    \/ \E i \in Ids : Serve(i)
    \/ \E s \in SubIds : Make(s) \/ Write(s)

Next == Task \/ Callers \/ Node

Spec == Init /\ [][Next]_vars

\* The task runs, callers read their replies and deadlines pass; the node owes
\* nothing.
FairSpec ==
    /\ Spec
    /\ WF_vars(Cleanup) /\ WF_vars(Send) /\ WF_vars(Respond) /\ WF_vars(Notify)
    /\ \A i \in Ids : WF_vars(Take(i) \/ Abandon(i))

----------------------------------------------------------------------------
\* An open session leaves no subscription running unseen on the node: each is
\* registered here, about to be registered by a reply that its request still
\* waits for, or about to be cancelled by an unsubscribe that is on its way,
\* whatever was abandoned, dropped or lagged at whatever moment.
NoHiddenSubscription ==
    closed = None => \A s \in live :
        \/ s \in subs
        \/ \E k \in DOMAIN toClient : toClient[k].sub = s /\ toClient[k].id \in Pending
        \/ \E i \in toServer : req[i].kind \in {"unsubscribe", "lagged"} /\ req[i].sub = s

NotesFor(s) == SelectSeq(toClient, LAMBDA f : f.type = "note" /\ f.sub = s)

\* A registered subscription has lost nothing: after what its owner received
\* come the queued notifications, then those on the wire, without a gap.
NoSilentGap ==
    closed = None => \A s \in subs \ Orphaned :
        LET onWire == NotesFor(s)
            ahead == sub[s].queue \o [k \in DOMAIN onWire |-> onWire[k].note]
        IN  /\ \A k \in DOMAIN ahead : ahead[k] = sub[s].got + k
            /\ sub[s].got + Len(ahead) = written[s]

\* A node that follows the protocol never ends the session: a notification
\* that arrives after its subscription was left is expected.
ToleratesLateNotes == closed # "invalid"

\* A request is answered, refused or given up; none waits for ever: Asked leads
\* to Gone.
Asked(i) == req[i].phase # "none"
Gone(i) == req[i].phase = "gone"

\* A subscription whose owner is gone without an unsubscribe ends the session:
\* Orphan leads to Left.
Orphan(s) == s \in subs /\ sub[s].handle = "gone"
Left(s) == s \notin subs
===============================================================================
