------------------------------- MODULE EventHub -------------------------------
(***************************************************************************)
(* Bounded local fan-out: quai-provider's EventHub (event_hub.rs).         *)
(*                                                                         *)
(* One action per method that changes the hub; a method that returns an    *)
(* error or finds nothing to do changes nothing and is no step.            *)
(***************************************************************************)
EXTENDS Integers, SequencesExt

CONSTANTS
    Keys, Events,
    MaxListeners,   \* config.max_listeners
    Capacity,       \* config.capacity_per_listener
    MaxQueued,      \* config.max_queued_items
    MaxId,          \* u64::MAX: identities never wrap
    MaxEmits,       \* bound of the history
    None

LimitsAssumption ==
    /\ MaxListeners \in Nat \ {0} /\ Capacity \in Nat \ {0}
    /\ MaxQueued \in Nat \ {0} /\ MaxId \in Nat /\ MaxEmits \in Nat

VARIABLES
    listeners,  \* Vec<Listener>, in registration order
    nextId, queued, paused, closed,
    emitted,    \* history: the events the hub accepted, with their keys
    since,      \* history: how many were accepted before a listener registered
    got         \* history: what a listener's polls returned

hub == <<listeners, nextId, queued, paused, closed>>
history == <<emitted, since, got>>
vars == <<hub, history>>

Ids == 1..MaxId
Listener == [id : Ids, key : Keys, once : BOOLEAN, active : BOOLEAN, queue : Seq(Events)]

TypeOK ==
    /\ listeners \in Seq(Listener) /\ Len(listeners) <= MaxListeners
    /\ nextId \in 1..MaxId
    /\ queued \in 0..MaxQueued
    /\ paused \in {"buffer", "drop", None}
    /\ closed \in BOOLEAN

Init ==
    /\ listeners = <<>> /\ nextId = 1 /\ queued = 0 /\ paused = None /\ closed = FALSE
    /\ emitted = <<>> /\ since = [i \in Ids |-> 0] /\ got = [i \in Ids |-> <<>>]

----------------------------------------------------------------------------
\* on and once.
Register(key, once) ==
    /\ ~closed
    /\ Len(listeners) < MaxListeners
    /\ nextId < MaxId
    /\ nextId' = nextId + 1
    /\ listeners' = Append(listeners, [id |-> nextId, key |-> key, once |-> once,
                                       active |-> TRUE, queue |-> <<>>])
    /\ since' = [since EXCEPT ![nextId] = Len(emitted)]
    /\ UNCHANGED <<queued, paused, closed, emitted, got>>

QueuedIn(list) == FoldLeft(LAMBDA n, l : n + Len(l.queue), 0, list)

\* Registrations go with their queued events.
Discard(removed) ==
    /\ listeners' = SelectSeq(listeners, LAMBDA l : l \notin removed)
    /\ queued' = queued - QueuedIn(SelectSeq(listeners, LAMBDA l : l \in removed))

\* Mutant: the events of a removed registration stay counted.
OffUncounted(id) ==
    /\ \E l \in Range(listeners) : l.id = id
    /\ listeners' = SelectSeq(listeners, LAMBDA l : l.id # id)
    /\ UNCHANGED <<nextId, queued, paused, closed, history>>

Off(id) ==
    /\ \E l \in Range(listeners) : l.id = id
    /\ Discard({l \in Range(listeners) : l.id = id})
    /\ UNCHANGED <<nextId, paused, closed, history>>

RemoveAll(key) ==
    /\ \E l \in Range(listeners) : key \in {None, l.key}
    /\ Discard({l \in Range(listeners) : key \in {None, l.key}})
    /\ UNCHANGED <<nextId, paused, closed, history>>

\* The oldest event; a one-shot listener closes with it.
Poll(index) ==
    LET l == listeners[index]
        rest == [l EXCEPT !.queue = Tail(@)]
    IN  /\ ~closed /\ paused = None
        /\ l.queue # <<>>
        /\ queued' = queued - 1
        /\ listeners' = IF ~l.active /\ rest.queue = <<>> THEN RemoveAt(listeners, index)
                        ELSE [listeners EXCEPT ![index] = rest]
        /\ got' = [got EXCEPT ![l.id] = Append(@, Head(l.queue))]
        /\ UNCHANGED <<nextId, paused, closed, emitted, since>>

Pause(mode) ==
    /\ ~closed /\ paused = None
    /\ paused' = mode
    /\ UNCHANGED <<listeners, nextId, queued, closed, history>>

Resume ==
    /\ ~closed /\ paused # None
    /\ paused' = None
    /\ UNCHANGED <<listeners, nextId, queued, closed, history>>

Close ==
    /\ ~closed
    /\ listeners' = <<>> /\ queued' = 0 /\ closed' = TRUE /\ paused' = None
    /\ UNCHANGED <<nextId, history>>

Matches(l, key) == l.active /\ l.key = key

\* Either limit, over all matching listeners, before any queue changes.
AtCapacity(key) ==
    \/ queued + Len(SelectSeq(listeners, LAMBDA l : Matches(l, key))) > MaxQueued
    \/ \E l \in Range(listeners) : Matches(l, key) /\ Len(l.queue) >= Capacity

Deliver(l, event) == [l EXCEPT !.queue = Append(@, event), !.active = ~l.once]

Emit(key, event) ==
    /\ ~closed /\ paused # "drop"
    /\ ~AtCapacity(key)
    /\ Len(emitted) < MaxEmits
    /\ listeners' = [i \in DOMAIN listeners |->
         IF Matches(listeners[i], key) THEN Deliver(listeners[i], event) ELSE listeners[i]]
    /\ queued' = queued + Len(SelectSeq(listeners, LAMBDA l : Matches(l, key)))
    /\ emitted' = Append(emitted, [key |-> key, event |-> event])
    /\ UNCHANGED <<nextId, paused, closed, since, got>>

Next ==
    \/ \E key \in Keys, once \in BOOLEAN : Register(key, once)
    \/ \E id \in Ids : Off(id)
    \/ \E key \in Keys \cup {None} : RemoveAll(key)
    \/ \E index \in DOMAIN listeners : Poll(index)
    \/ \E mode \in {"buffer", "drop"} : Pause(mode)
    \/ Resume
    \/ Close
    \/ \E key \in Keys, event \in Events : Emit(key, event)

Spec == Init /\ [][Next]_vars

----------------------------------------------------------------------------
\* The shared counter is exactly what the queues hold, so it never underflows
\* and the limits it guards are the limits the configuration names.
QueuedIsExact ==
    /\ queued = QueuedIn(listeners)
    /\ \A l \in Range(listeners) : Len(l.queue) <= Capacity

\* What a listener was promised: the accepted events of its key since it
\* registered, the first one only if it is one-shot.
Promised(l) ==
    LET mine == SelectSeq(SubSeq(emitted, since[l.id] + 1, Len(emitted)),
                          LAMBDA e : e.key = l.key)
        values == [i \in DOMAIN mine |-> mine[i].event]
    IN  IF l.once THEN SubSeq(values, 1, IF values = <<>> THEN 0 ELSE 1) ELSE values

\* Every registration has received, or still has queued, exactly what it was
\* promised, in order: nothing is lost, repeated or delivered to some of the
\* matching listeners only, whatever the others' queues, pauses and removals.
DeliversExactly ==
    \A l \in Range(listeners) : got[l.id] \o l.queue = Promised(l)
===============================================================================
