---------------------------- MODULE MailboxLogs ----------------------------
(*************************************************************************)
(* PaymentMailbox::notifications_in_blocks: the senders announced in a     *)
(* settled block range, read from event logs in chunks that halve when an  *)
(* answer is too large and grow back afterwards.  Each request may reach   *)
(* another backend of the endpoint, which may lag behind; the chain may    *)
(* reorganize between any two requests.                                    *)
(*************************************************************************)
EXTENDS Integers, Sequences, FiniteSets, FiniteSetsExt, SequencesExt

CONSTANTS
    Logs,       \* Logs[branch][block]: the mailbox's log entries, in order
    Blocks,     \* the block heights of the requested range, from..to
    Codes,      \* the entries that are valid payment codes for this receiver
    MaxWidth,   \* MAILBOX_LOG_BLOCKS
    MaxAnswer,  \* entries one response may carry
    MaxNotes,   \* MAX_MAILBOX_NOTIFICATIONS
    Kept,       \* UNDECODABLE_KEPT
    MaxFaults   \* bound on lagging answers

VARIABLES
    branch,  \* the canonical branch of the zone
    pc, anchor, next, width,
    out,     \* the Collector
    result,  \* "none", "ok" or the error
    faults

vars == <<branch, pc, anchor, next, width, out, result, faults>>

from == Min(Blocks)
to == Max(Blocks)
Branches == DOMAIN Logs
Junk == "junk"    \* a log that does not decode
Other == "other"  \* announced to another receiver
Empty == [senders |-> <<>>, invalid |-> 0, duplicates |-> 0, undecodable |-> 0]

Init ==
    /\ branch \in Branches
    /\ pc = "begin" /\ anchor = branch /\ next = from /\ width = MaxWidth
    /\ out = Empty /\ result = "none" /\ faults = 0

----------------------------------------------------------------------------
(* The collector.                                                          *)

Add(o, entry) ==
    IF entry = Other THEN o
    ELSE IF entry = Junk
    THEN [o EXCEPT !.undecodable = @ + 1,
                   !.invalid = IF o.undecodable < Kept THEN @ + 1 ELSE @]
    ELSE IF entry \notin Codes THEN [o EXCEPT !.invalid = @ + 1]
    ELSE IF entry \in Range(o.senders) THEN [o EXCEPT !.duplicates = @ + 1]
    ELSE [o EXCEPT !.senders = Append(@, entry)]

\* Collector::len: what counts toward the limit leaves undecodable logs out.
Count(o) == Len(o.senders) + o.invalid + o.duplicates - Min({o.undecodable, Kept})

----------------------------------------------------------------------------
(* The chunk loop.                                                         *)

Finish(r) == pc' = "done" /\ result' = r

Begin ==
    /\ pc = "begin"
    /\ anchor' = branch
    /\ pc' = "chunk"
    /\ UNCHANGED <<branch, next, width, out, result, faults>>

\* The range is not settled yet, or a header is missing.
Unsettled ==
    /\ pc = "begin" /\ faults < MaxFaults /\ faults' = faults + 1
    /\ Finish("changed")
    /\ UNCHANGED <<branch, anchor, next, width, out>>

ChunkEnd == Min({to, next + width - 1})

Entries(b, a, z) == FoldLeft(LAMBDA acc, i : acc \o Logs[b][i], <<>>,
                             [k \in 1..(z - a + 1) |-> a + k - 1])

\* (end - next).div_ceil(2), of a chunk of end - next + 1 blocks.
Halved(end) == (end - next + 1) \div 2

TooLarge ==
    /\ pc = "chunk" /\ Len(Entries(branch, next, ChunkEnd)) > MaxAnswer
    /\ IF ChunkEnd > next
       THEN width' = Halved(ChunkEnd) /\ UNCHANGED <<pc, result>>
       ELSE Finish("too_large") /\ UNCHANGED width
    /\ UNCHANGED <<branch, anchor, next, out, faults>>

\* Growing back after a dense stretch.
Grown == Min({2 * width, MaxWidth})

AfterChunk(end) == end + 1

\* logs_served_through: answered by a backend whose chain reaches the chunk's
\* end, which the header in the same batch shows.
ReadChunk ==
    LET entries == Entries(branch, next, ChunkEnd)
        o == FoldLeft(Add, out, entries)
    IN
    /\ pc = "chunk" /\ Len(entries) <= MaxAnswer
    /\ out' = o
    /\ IF \E k \in 0..Len(entries) : Count(FoldLeft(Add, out, SubSeq(entries, 1, k))) > MaxNotes
       THEN Finish("invalid") /\ UNCHANGED <<next, width>>
       ELSE /\ UNCHANGED result
            /\ IF ChunkEnd = to
               THEN pc' = "close" /\ UNCHANGED <<next, width>>
               ELSE /\ next' = AfterChunk(ChunkEnd)
                    /\ width' = Grown
                    /\ UNCHANGED pc
    /\ UNCHANGED <<branch, anchor, faults>>

\* A backend whose head is below the chunk has no header for its end.
Lagging ==
    /\ pc = "chunk" /\ faults < MaxFaults /\ faults' = faults + 1
    /\ Finish("changed")
    /\ UNCHANGED <<branch, anchor, next, width, out>>

\* The range's last block must still be the one the read began with.
Close ==
    /\ pc = "close"
    /\ Finish(IF branch = anchor THEN "ok" ELSE "changed")
    /\ UNCHANGED <<branch, anchor, next, width, out, faults>>

\* A reorganization below the range's end; branches do not come back.
Reorganize ==
    /\ pc # "done" /\ branch + 1 \in Branches
    /\ branch' = branch + 1
    /\ UNCHANGED <<pc, anchor, next, width, out, result, faults>>

Done == pc = "done" /\ UNCHANGED vars

Read == Begin \/ TooLarge \/ ReadChunk \/ Close

Next == Read \/ Unsettled \/ Lagging \/ Reorganize \/ Done

\* The read is one polled async call.
Spec == Init /\ [][Next]_vars /\ WF_vars(Read)

----------------------------------------------------------------------------
\* Loop variables stay in range.
TypeOK ==
    /\ next \in Blocks /\ width \in 1..MaxWidth
    /\ out.duplicates \in Nat /\ out.invalid \in Nat
    /\ pc = "done" <=> result # "none"

\* A returned reading is the one of a single branch: every block of the range
\* counted once, whatever the chunk sizes were.
ReturnedIsOneBranch ==
    result = "ok" => out = FoldLeft(Add, Empty, Entries(anchor, from, to))

\* Logs that do not decode, which anyone can emit, never make the read fail.
JunkNeverFails ==
    result = "invalid" /\ anchor = branch =>
        Len(SelectSeq(Entries(anchor, from, to), LAMBDA e : e \notin {Junk, Other}))
          > MaxNotes

\* Only a single block that does not fit one answer defeats the halving.
TooLargeIsOneBlock ==
    result = "too_large" => Len(Logs[branch][next]) > MaxAnswer

\* The chunk loop ends.
Ended == pc = "done"
============================================================================
