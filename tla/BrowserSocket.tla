---------------------------- MODULE BrowserSocket ----------------------------
(*************************************************************************)
(* BrowserWebSocketTransport and BrowserSubscription (quai-browser          *)
(* socket.rs) on their session in socket.js.  A promise of the session is   *)
(* settled by a message, a timer or an abort; the Rust future is polled     *)
(* later and may be dropped in between, which aborts its signal.            *)
(*                                                                        *)
(* The node is external: it answers in order over a reliable connection     *)
(* that may break, and notifies the subscriptions it has.                   *)
(*************************************************************************)
EXTENDS Integers, Sequences, FiniteSets, SequencesExt, FiniteSetsExt

CONSTANTS
    Tasks,
    MaxFlight,  \* max_in_flight
    MaxSubs,    \* max_subscriptions
    MaxQueue,   \* max_notifications
    MaxBytes,   \* max_queued_bytes
    MaxIds,     \* bound on the requests
    MaxNotes    \* bound on the notifications of a subscription

SocketAssumption == MaxFlight \in Nat \ {0} /\ MaxSubs \in Nat /\ MaxQueue \in Nat

VARIABLES
    closed, nextId,
    pending,   \* pending[id]: [kind, task, sub] of the requests without an answer
    subs,      \* subs[r]: [queue, waiter, ended, delivery, provisional]
    queuedBytes, pendingSubs,
    active,    \* the transport's own count of requests
    task,      \* task[t]: [pc, kind, id, sub, value, got]
    toNode, toPage, remote, noted

vars == <<closed, nextId, pending, subs, queuedBytes, pendingSubs, active, task, toNode, toPage,
          remote, noted>>
session == <<closed, nextId, pending, subs, queuedBytes, pendingSubs>>
node == <<toNode, toPage, remote, noted>>

Nobody == "nobody"
Drop(f, keys) == [k \in DOMAIN f \ keys |-> f[k]]
Put(f, k, v) == [x \in DOMAIN f \cup {k} |-> IF x = k THEN v ELSE f[x]]
Size(note) == 1 + (note % 2)

Idle == [pc |-> "idle", kind |-> "none", id |-> 0, sub |-> 0, value |-> "none", got |-> <<>>]

\* BrowserWebSocketTransport::connect
Init ==
    /\ closed = FALSE /\ nextId = 1 /\ pending = <<>> /\ subs = <<>>
    /\ queuedBytes = 0 /\ pendingSubs = 0 /\ active = 0
    /\ task = [t \in Tasks |-> Idle]
    /\ toNode = <<>> /\ toPage = <<>> /\ remote = {} /\ noted = <<>>

----------------------------------------------------------------------------
(* The session's own steps, as what they make of its parts.                 *)

QueueSize(q) == FoldSeq(LAMBDA n, total : total + Size(n), 0, q)

\* clearQueue
BytesWithout(r) == queuedBytes - QueueSize(subs[r].queue)

\* endSub
EndedSub(sub) == [sub EXCEPT !.queue = <<>>, !.waiter = Nobody, !.ended = TRUE, !.delivery = FALSE]

\* What a close makes of the tasks whose promise it rejects.
Rejected(ts) ==
    [t \in Tasks |-> IF t \in ts
        THEN [task[t] EXCEPT !.pc = IF @ = "waiting" THEN "holding" ELSE "resolved", !.value = "failed"]
        ELSE task[t]]
Waiting == {t \in Tasks : task[t].pc \in {"pending", "waiting"}}

\* A subscription given up in the closing step is forgotten before it.
Kept(t) == DOMAIN subs \ (IF t \in Tasks /\ task[t].pc = "holding" THEN {task[t].sub} ELSE {})

\* close: every promise is rejected and every subscription ends; next is the
\* closing task's own state.
CloseWith(except, next) ==
    /\ closed' = TRUE
    /\ pending' = <<>> /\ pendingSubs' = 0 /\ queuedBytes' = 0
    /\ subs' = [r \in Kept(except) |-> [EndedSub(subs[r]) EXCEPT !.provisional = FALSE]]
    /\ task' = [t \in Tasks |-> IF t = except THEN next ELSE Rejected(Waiting)[t]]
    /\ toNode' = <<>> /\ toPage' = <<>> /\ remote' = {}
    /\ UNCHANGED <<nextId, noted>>

Closing(t, next) ==
    IF closed THEN task' = [task EXCEPT ![t] = next] /\ UNCHANGED <<session, node>>
    ELSE CloseWith(t, next)

\* forgetSubscription
Forget(r) ==
    IF r \in DOMAIN subs
    THEN subs' = Drop(subs, {r}) /\ queuedBytes' = BytesWithout(r)
    ELSE UNCHANGED <<subs, queuedBytes>>

SubsFull(kind) == kind = "subscribe" /\ Cardinality(DOMAIN subs) + pendingSubs >= MaxSubs

Room(kind) == Cardinality(DOMAIN pending) < MaxFlight /\ ~SubsFull(kind)

\* socketRequest
Enqueue(t, kind, r) ==
    /\ pending' = Put(pending, nextId, [kind |-> kind, task |-> t, sub |-> r])
    /\ pendingSubs' = pendingSubs + (IF kind = "subscribe" THEN 1 ELSE 0)
    /\ nextId' = nextId + 1
    /\ toNode' = Append(toNode, [id |-> nextId, kind |-> kind, sub |-> r])
    /\ UNCHANGED <<closed, toPage, remote, noted>>

----------------------------------------------------------------------------
(* Requests of a task.                                                     *)

\* send: the transport's limit first, then the session's.
Send(t, kind) ==
    /\ task[t].pc = "idle" /\ ~closed /\ nextId <= MaxIds
    /\ active < MaxFlight /\ Room(kind)
    /\ Enqueue(t, kind, 0)
    /\ task' = [task EXCEPT ![t] = [Idle EXCEPT !.pc = "pending", !.kind = kind, !.id = nextId]]
    /\ active' = active + 1 /\ UNCHANGED <<subs, queuedBytes>>

\* A request ends without an answer: its timer, or its signal.
WithoutAnswer(t) == Drop(pending, {task[t].id})

\* A subscribe may exist at the node under an unknown ID.
GiveUpCloses(t) == task[t].kind = "subscribe"

RequestTimeout(t) ==
    /\ task[t].pc = "pending"
    /\ LET next == [task[t] EXCEPT !.pc = "resolved", !.value = "failed"]
       IN IF GiveUpCloses(t) THEN CloseWith(t, next)
          ELSE /\ pending' = WithoutAnswer(t) /\ task' = [task EXCEPT ![t] = next]
               /\ UNCHANGED <<closed, nextId, subs, queuedBytes, node>>
               /\ pendingSubs' = pendingSubs - (IF task[t].kind = "subscribe" THEN 1 ELSE 0)
    /\ UNCHANGED active

\* The future of a request is polled with its answer; a malformed answer closes.
Poll(t) ==
    LET f == task[t]
        ok == f.value = "ok"
    IN /\ f.pc = "resolved" /\ f.kind \in {"request", "subscribe"}
       /\ active' = active - 1
       /\ IF f.value = "malformed" THEN Closing(t, Idle)
          ELSE IF ok /\ f.kind = "subscribe"
          THEN /\ task' = [task EXCEPT ![t] = [Idle EXCEPT !.pc = "holding", !.sub = f.sub]]
               /\ subs' = [subs EXCEPT ![f.sub].provisional = FALSE]
               /\ UNCHANGED <<closed, nextId, pending, queuedBytes, pendingSubs, node>>
          ELSE task' = [task EXCEPT ![t] = Idle] /\ UNCHANGED <<session, node>>

\* The listener of a provisional subscription.
Provisional(t) == task[t].kind = "subscribe" /\ task[t].value = "ok"
                  /\ task[t].sub \in DOMAIN subs /\ subs[task[t].sub].provisional

\* The future of a request is dropped, before its answer or before it is polled.
DropRequest(t) ==
    /\ task[t].pc \in {"pending", "resolved"} /\ task[t].kind \in {"request", "subscribe"}
    /\ active' = active - 1
    /\ IF task[t].pc = "pending"
       THEN IF GiveUpCloses(t) THEN CloseWith(t, Idle)
            ELSE /\ pending' = WithoutAnswer(t) /\ task' = [task EXCEPT ![t] = Idle]
                 /\ pendingSubs' = pendingSubs - (IF task[t].kind = "subscribe" THEN 1 ELSE 0)
                 /\ UNCHANGED <<closed, nextId, subs, queuedBytes, node>>
       ELSE IF Provisional(t) THEN Closing(t, Idle)
       ELSE task' = [task EXCEPT ![t] = Idle] /\ UNCHANGED <<session, node>>

----------------------------------------------------------------------------
(* Subscriptions.                                                          *)

\* BrowserSubscription::next up to its promise.
NextCall(t) ==
    LET r == task[t].sub
    IN /\ task[t].pc = "holding" /\ ~closed /\ r \in DOMAIN subs /\ ~subs[r].ended
       /\ IF subs[r].queue # <<>>
          THEN /\ task' = [task EXCEPT ![t].pc = "delivered", ![t].value = Head(subs[r].queue)]
               /\ subs' = [subs EXCEPT ![r].queue = Tail(@), ![r].delivery = TRUE]
               /\ queuedBytes' = queuedBytes - Size(Head(subs[r].queue))
          ELSE /\ task' = [task EXCEPT ![t].pc = "waiting"]
               /\ subs' = [subs EXCEPT ![r].waiter = t] /\ UNCHANGED queuedBytes
       /\ UNCHANGED <<closed, nextId, pending, pendingSubs, active, node>>

\* The timer or a drop ends a wait before anything was delivered.
NextGivenUp(t) ==
    /\ task[t].pc = "waiting"
    /\ task' = [task EXCEPT ![t].pc = "holding"]
    /\ subs' = [subs EXCEPT ![task[t].sub].waiter = Nobody]
    /\ UNCHANGED <<closed, nextId, pending, queuedBytes, pendingSubs, active, node>>

\* acknowledge_notification: only a delivery that still stands is returned.
NextPoll(t) ==
    LET r == task[t].sub
        stands == r \in DOMAIN subs /\ ~subs[r].ended /\ subs[r].delivery
    IN /\ task[t].pc = "delivered"
       /\ task' = [task EXCEPT ![t].pc = "holding", ![t].value = "none",
                               ![t].got = IF stands THEN Append(@, task[t].value) ELSE @]
       /\ subs' = IF stands THEN [subs EXCEPT ![r].delivery = FALSE] ELSE subs
       /\ UNCHANGED <<closed, nextId, pending, queuedBytes, pendingSubs, active, node>>

\* The delivery's listener ends the subscription.
DeliveryAborted(r) == [subs EXCEPT ![r] = EndedSub(@)]

\* The future of next is dropped after its promise was resolved.
NextDropped(t) ==
    LET r == task[t].sub
        stands == r \in DOMAIN subs /\ subs[r].delivery
    IN /\ task[t].pc = "delivered"
       /\ task' = [task EXCEPT ![t].pc = "holding", ![t].value = "none"]
       /\ IF stands THEN subs' = DeliveryAborted(r) /\ queuedBytes' = BytesWithout(r)
          ELSE UNCHANGED <<subs, queuedBytes>>
       /\ UNCHANGED <<closed, nextId, pending, pendingSubs, active, node>>

\* BrowserSubscription::drop: a request of the session itself, or a close.
DropSub(t) ==
    LET r == task[t].sub
    IN /\ task[t].pc = "holding" /\ nextId <= MaxIds /\ UNCHANGED active
       /\ IF closed THEN Forget(r) /\ task' = [task EXCEPT ![t] = Idle]
                         /\ UNCHANGED <<closed, nextId, pending, pendingSubs, node>>
          ELSE IF ~Room("request") THEN CloseWith(t, Idle)
          ELSE /\ Forget(r) /\ Enqueue(Nobody, "unsubscribe", r)
               /\ task' = [task EXCEPT ![t] = Idle]

\* unsubscribe: forgotten first, then asked for.
Unsubscribe(t) ==
    LET r == task[t].sub
    IN /\ task[t].pc = "holding" /\ nextId <= MaxIds /\ ~closed
       /\ IF active >= MaxFlight \/ ~Room("request")
          THEN CloseWith(t, Idle) /\ UNCHANGED active
          ELSE /\ Forget(r) /\ Enqueue(t, "unsubscribe", r) /\ active' = active + 1
               /\ task' = [task EXCEPT ![t] = [Idle EXCEPT !.pc = "pending", !.sub = r,
                                               !.kind = "unsubscribe", !.id = nextId]]

\* Anything but true closes.
UnsubscribePoll(t) ==
    /\ task[t].pc = "resolved" /\ task[t].kind = "unsubscribe" /\ active' = active - 1
    /\ IF task[t].value = "ok" THEN task' = [task EXCEPT ![t] = Idle] /\ UNCHANGED <<session, node>>
       ELSE Closing(t, Idle)

\* The future of unsubscribe is dropped: its request is given up and the
\* subscription, still active, is dropped in turn.
UnsubscribeDropped(t) ==
    /\ task[t].pc \in {"pending", "resolved"} /\ task[t].kind = "unsubscribe" /\ nextId <= MaxIds
    /\ active' = active - 1
    /\ LET left == WithoutAnswer(t)
       IN IF closed THEN task' = [task EXCEPT ![t] = Idle] /\ UNCHANGED <<session, node>>
          ELSE IF Cardinality(DOMAIN left) >= MaxFlight THEN CloseWith(t, Idle)
          ELSE /\ pending' = Put(left, nextId, [kind |-> "unsubscribe", task |-> Nobody, sub |-> task[t].sub])
               /\ nextId' = nextId + 1
               /\ toNode' = Append(toNode, [id |-> nextId, kind |-> "unsubscribe", sub |-> task[t].sub])
               /\ task' = [task EXCEPT ![t] = Idle]
               /\ UNCHANGED <<closed, subs, queuedBytes, pendingSubs, toPage, remote, noted>>

\* The timer of a request the session made for a dropped subscription.
DroppedTimeout(id) ==
    /\ pending[id].task = Nobody
    /\ CloseWith(Nobody, Idle) /\ UNCHANGED active

----------------------------------------------------------------------------
(* Messages.                                                               *)

Resolve(p, value, r) ==
    [task EXCEPT ![p.task] = [@ EXCEPT !.pc = "resolved", !.value = value, !.sub = IF r = 0 THEN @ ELSE r]]

\* An answer; one that nobody waits for is not given to another request.
ReceiveAnswer(m) ==
    IF m.id \notin DOMAIN pending
    THEN toPage' = Tail(toPage) /\ UNCHANGED <<session, active, task, toNode, remote, noted>>
    ELSE LET p == pending[m.id]
         IN IF p.task = Nobody /\ m.value # "ok" THEN CloseWith(Nobody, Idle) /\ UNCHANGED active
            ELSE /\ pending' = Drop(pending, {m.id})
                 /\ pendingSubs' = pendingSubs - (IF p.kind = "subscribe" THEN 1 ELSE 0)
                 /\ subs' = IF p.kind = "subscribe" /\ m.value = "ok"
                            THEN Put(subs, m.sub, [queue |-> <<>>, waiter |-> Nobody, ended |-> FALSE,
                                                   delivery |-> FALSE, provisional |-> TRUE])
                            ELSE subs
                 /\ task' = IF p.task = Nobody THEN task ELSE Resolve(p, m.value, m.sub)
                 /\ toPage' = Tail(toPage)
                 /\ UNCHANGED <<closed, nextId, queuedBytes, active, toNode, remote, noted>>

\* A full queue ends the subscription.
Lagged(r) == subs' = [subs EXCEPT ![r] = EndedSub(@)] /\ queuedBytes' = BytesWithout(r)

\* A notification: to the waiter, into the queue, or the end of the subscription.
ReceiveNote(m) ==
    LET r == m.sub
    IN /\ toPage' = Tail(toPage)
       /\ UNCHANGED <<closed, nextId, pending, pendingSubs, active, toNode, remote, noted>>
       /\ IF r \notin DOMAIN subs \/ subs[r].ended THEN UNCHANGED <<subs, queuedBytes, task>>
          ELSE IF subs[r].waiter # Nobody
          THEN /\ task' = [task EXCEPT ![subs[r].waiter] = [@ EXCEPT !.pc = "delivered", !.value = m.note]]
               /\ subs' = [subs EXCEPT ![r].waiter = Nobody, ![r].delivery = TRUE]
               /\ UNCHANGED queuedBytes
          ELSE /\ UNCHANGED task
               /\ IF Len(subs[r].queue) >= MaxQueue \/ queuedBytes + Size(m.note) > MaxBytes
                  THEN Lagged(r)
                  ELSE /\ subs' = [subs EXCEPT ![r].queue = Append(@, m.note)]
                       /\ queuedBytes' = queuedBytes + Size(m.note)

Receive ==
    /\ ~closed /\ toPage # <<>>
    /\ LET m == Head(toPage) IN IF m.type = "answer" THEN ReceiveAnswer(m) ELSE ReceiveNote(m)

\* The connection breaks, or the application closes it.
Close == ~closed /\ CloseWith(Nobody, Idle) /\ UNCHANGED active

----------------------------------------------------------------------------
(* The node.                                                               *)

Answer(m, value, r) == [type |-> "answer", id |-> m.id, value |-> value, sub |-> r]

NodeAnswers ==
    /\ toNode # <<>> /\ toNode' = Tail(toNode)
    /\ LET m == Head(toNode)
       IN \/ /\ m.kind = "subscribe" /\ remote' = remote \cup {m.id}
             /\ noted' = Put(noted, m.id, 0)
             /\ toPage' = Append(toPage, Answer(m, "ok", m.id))
          \/ /\ m.kind = "unsubscribe" /\ remote' = remote \ {m.sub}
             /\ toPage' = Append(toPage, Answer(m, IF m.sub \in remote THEN "ok" ELSE "error", 0))
             /\ UNCHANGED noted
          \/ /\ m.kind = "request" /\ \E v \in {"ok", "malformed"} : toPage' = Append(toPage, Answer(m, v, 0))
             /\ UNCHANGED <<remote, noted>>
          \/ /\ m.kind # "request" /\ toPage' = Append(toPage, Answer(m, "error", 0))
             /\ UNCHANGED <<remote, noted>>
    /\ UNCHANGED <<session, active, task>>

NodeNotifies(r) ==
    /\ r \in remote /\ noted[r] < MaxNotes
    /\ noted' = [noted EXCEPT ![r] = @ + 1]
    /\ toPage' = Append(toPage, [type |-> "note", sub |-> r, note |-> noted[r] + 1])
    /\ UNCHANGED <<session, active, task, toNode, remote>>

Next ==
    \/ \E t \in Tasks :
           \/ \E kind \in {"request", "subscribe"} : Send(t, kind)
           \/ RequestTimeout(t) \/ Poll(t) \/ DropRequest(t)
           \/ NextCall(t) \/ NextGivenUp(t) \/ NextPoll(t) \/ NextDropped(t)
           \/ DropSub(t) \/ Unsubscribe(t) \/ UnsubscribePoll(t) \/ UnsubscribeDropped(t)
    \/ \E id \in DOMAIN pending : DroppedTimeout(id)
    \/ Receive \/ Close \/ NodeAnswers
    \/ \E r \in remote : NodeNotifies(r)

Spec == Init /\ [][Next]_vars

----------------------------------------------------------------------------
\* The limits hold and the counters are what they count, whatever a step of a
\* task, the timers or the node ended.
Accounted ==
    /\ active = Cardinality({t \in Tasks : task[t].pc \in {"pending", "resolved"}})
    /\ queuedBytes = FoldSet(LAMBDA r, total : total + QueueSize(subs[r].queue), 0, DOMAIN subs)
    /\ pendingSubs = Cardinality({id \in DOMAIN pending : pending[id].kind = "subscribe"})
    /\ Cardinality(DOMAIN pending) <= MaxFlight
    /\ ~closed => Cardinality(DOMAIN subs) + pendingSubs <= MaxSubs

\* A session that is open knows every subscription the node keeps for it: a
\* task has or is about to get it, or the node is being asked to end it.
NoHiddenSubscription ==
    \A r \in remote :
        \/ \E t \in Tasks : task[t].sub = r /\ task[t].pc # "idle"
        \/ r \in DOMAIN pending
        \/ \E id \in DOMAIN pending : pending[id].kind = "unsubscribe" /\ pending[id].sub = r

\* What next returns has no gap: a notification that could not be queued, or
\* was delivered to a future that was dropped, ends the subscription.
NoGap ==
    \A t \in Tasks : \A i \in DOMAIN task[t].got : task[t].got[i] = i

\* Closing leaves nobody waiting for a message that will not come.
ClosedSettles == closed => \A t \in Tasks : task[t].pc \notin {"pending", "waiting"}
====
