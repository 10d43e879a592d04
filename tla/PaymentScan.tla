---------------------------- MODULE PaymentScan ----------------------------
(*************************************************************************)
(* Finding the payments of announced senders: discover_mailbox_channels    *)
(* walks one page of the announced payment codes, scans each channel in    *)
(* gap-limited windows (scan_channel), registers the funded ones and       *)
(* rebuilds the coin snapshot once at the end.  A caller follows           *)
(* next_start from page to page and repeats a page that failed.  Another   *)
(* process may register a channel in the store meanwhile.                  *)
(*************************************************************************)
EXTENDS Integers, Sequences, FiniteSets, FiniteSetsExt, SequencesExt

CONSTANTS
    Announced,     \* the senders the mailbox reports, in order, each once
    Owner,         \* the wallet's own payment code
    Used,          \* Used[s]: receive indexes of s that hold an output
    Zone,          \* indexes whose address falls in the scope's zone
    Options,       \* the scan options a caller may ask for: end, gap, max
    ProbeGap,      \* MAILBOX_PROBE_GAP
    MaxWindow,     \* MAX_SCAN_WINDOW
    PageSize,      \* max_channels
    MinFunded,     \* min_funded; every output is worth one
    ChannelLimit,  \* channels the store file may hold
    MaxFaults      \* bound on failed requests and cancellations

VARIABLES
    request,    \* the options, the registration policy and the page's start
    pc,         \* where the page is
    at,         \* position in Announced of the sender being scanned
    scan,       \* the channel scan in progress
    imported,   \* a channel or its indexes were stored by this page
    failure,    \* the error that ended the page early
    scanned,    \* report.scanned of this page
    visited,    \* history: how often each sender was reported by a page that returned
    channels,   \* registered channels of the store
    watched,    \* receive indexes stored per sender
    snapshot,   \* "fresh" or "cleared"
    cleared,    \* history: this page's writes cleared the snapshot
    refreshed,  \* the page tried to rebuild the snapshot
    faults      \* faults so far

vars == <<request, pc, at, scan, imported, failure, scanned, visited, channels, watched,
          snapshot, cleared, refreshed, faults>>
storeVars == <<channels, watched, snapshot, cleared>>

Codes == Range(Announced)
NoScan == [kind |-> "none"]

Init ==
    /\ request \in [options : Options, register : BOOLEAN, start : {0}]
    /\ pc = "page" /\ at = 1 /\ scan = NoScan
    /\ imported = FALSE /\ failure = "none" /\ scanned = <<>>
    /\ visited = [s \in Codes |-> 0]
    /\ channels = {} /\ watched = [s \in Codes |-> {}]
    /\ snapshot = "fresh" /\ cleared = FALSE /\ refreshed = FALSE /\ faults = 0

----------------------------------------------------------------------------
(* The options of the probe and of a full scan.                            *)

Probe ==
    IF request.options.gap = 0 THEN request.options
    ELSE [request.options EXCEPT !.gap = Min({@, ProbeGap}),
                                 !.max = Min({@, 2 * ProbeGap})]

\* A probe as wide as the full scan already is the full scan.
ProbeIsFull ==
    Probe.gap = request.options.gap /\ Probe.max = request.options.max

StartScan(kind) ==
    [kind |-> kind, next |-> 0, indexes |-> <<>>, unused |-> 0, found |-> 0,
     asked |-> {}, stopped |-> "none"]

OptionsOf(s) == IF s.kind = "probe" THEN Probe ELSE request.options

----------------------------------------------------------------------------
(* scan_channel.                                                           *)

\* Mutant: the window ignores the unused addresses already seen.
WindowWhole(s, o) ==
    LET budget == o.max - Len(s.indexes)
        guaranteed == IF o.gap = 0 THEN budget ELSE o.gap
    IN Min({guaranteed, budget, MaxWindow})

\* GapCounter::window: as many addresses as the scan is sure to examine.
Window(s, o) ==
    LET budget == o.max - Len(s.indexes)
        guaranteed == IF o.gap = 0 THEN budget ELSE o.gap - s.unused
    IN Max({1, Min({guaranteed, budget, MaxWindow})})

\* The matching indexes from a cursor, in order, cut to a count.
Matching(from, end, count) ==
    LET all == SelectSeq([i \in 1..(end - from) |-> from + i - 1], LAMBDA i : i \in Zone)
    IN SubSeq(all, 1, Min({count, Len(all)}))

\* One observed address; nothing more is taken once the gap limit is reached.
Observe(sender, o, s, i) ==
    IF s.stopped # "none" THEN s
    ELSE LET used == i \in Used[sender]
             unused == IF used THEN 0 ELSE s.unused + 1
         IN [s EXCEPT !.unused = unused, !.indexes = Append(@, i), !.next = i + 1,
                      !.found = IF used THEN @ + 1 ELSE @,
                      !.stopped = IF o.gap # 0 /\ unused >= o.gap THEN "gap" ELSE @]

\* One turn of scan_channel's loop: a window of addresses read together.
ScanWindow(sender, s, o) ==
    LET found == Matching(s.next, o.end, Window(s, o))
        asked == [s EXCEPT !.asked = @ \cup Range(found)]
        after == FoldLeft(LAMBDA acc, i : Observe(sender, o, acc, i), asked, found)
        cursor == IF Len(found) = Window(s, o) THEN Last(found) + 1 ELSE o.end
    IN IF after.stopped = "gap" THEN after ELSE [after EXCEPT !.next = cursor]

ScanOver(s, o) ==
    s.stopped = "gap" \/ s.next >= o.end \/ Len(s.indexes) = o.max

\* Why the scan ended: the order of the loop's own tests.
Stopped(s, o) ==
    IF s.stopped = "gap" THEN "gap" ELSE IF s.next >= o.end THEN "range" ELSE "limit"

----------------------------------------------------------------------------
(* One page.                                                               *)

Sender == Announced[at]
PageEnd == Min({request.start + PageSize, Len(Announced)})

Fail(error) ==
    /\ failure' = error
    /\ pc' = "finish"
    /\ faults' = faults + 1
    /\ scan' = NoScan
    /\ UNCHANGED <<request, at, imported, scanned, visited, storeVars, refreshed>>

\* Any await may fail and any cancellation point may answer yes.
Fault ==
    /\ pc \in {"sender", "scan", "import"} /\ faults < MaxFaults
    /\ \E error \in {"transport", "cancelled"} : Fail(error)

\* The page starts: the senders are read, the network checked.
BeginPage ==
    /\ pc = "page"
    /\ at' = request.start + 1
    /\ pc' = IF request.start >= Len(Announced) THEN "finish" ELSE "sender"
    /\ imported' = FALSE /\ failure' = "none" /\ scanned' = <<>> /\ refreshed' = FALSE
    /\ cleared' = FALSE
    /\ UNCHANGED <<request, scan, visited, channels, watched, snapshot, faults>>

\* On to the next sender of the page, or to its end.
Advance ==
    /\ at' = at + 1
    /\ pc' = IF at = PageEnd THEN "finish" ELSE "sender"
    /\ scan' = NoScan

Report(registration) ==
    scanned' = Append(scanned, [sender |-> Sender, registration |-> registration])

\* The wallet's own code is reported invalid, not scanned.
SkipOwn ==
    /\ pc = "sender" /\ Sender = Owner
    /\ Advance
    /\ UNCHANGED <<request, imported, failure, scanned, visited, storeVars, refreshed,
                   faults>>

\* A registered channel is scanned in full, an unknown one only probed.
StartSender ==
    /\ pc = "sender" /\ Sender # Owner
    /\ scan' = StartScan(IF Sender \in channels THEN "existing" ELSE "probe")
    /\ pc' = "scan"
    /\ UNCHANGED <<request, at, imported, failure, scanned, visited, storeVars, refreshed,
                   faults>>

ReadWindow ==
    /\ pc = "scan" /\ ~ScanOver(scan, OptionsOf(scan))
    /\ scan' = ScanWindow(Sender, scan, OptionsOf(scan))
    /\ UNCHANGED <<request, pc, at, imported, failure, scanned, visited, storeVars,
                   refreshed, faults>>

Worth == scan.found > 0 /\ scan.found >= MinFunded /\ request.register

ScanDone(kind) == pc = "scan" /\ scan.kind = kind /\ ScanOver(scan, OptionsOf(scan))

\* The probe found too little, or the caller only asked for a report.
ProbeUnregistered ==
    /\ ScanDone("probe") /\ ~Worth
    /\ Report("unregistered")
    /\ Advance
    /\ UNCHANGED <<request, imported, failure, visited, storeVars, refreshed, faults>>

\* write_channel refuses a row past the file's limit.
Room == Cardinality(channels) < ChannelLimit

\* import_payment_channel of a fresh channel: refused at the store's limit,
\* an error when another process registered it after this page looked.
ProbeRefused ==
    /\ ScanDone("probe") /\ Worth
    /\ Sender \notin channels /\ ~Room
    /\ Report("refused")
    /\ Advance
    /\ UNCHANGED <<request, imported, failure, visited, storeVars, refreshed, faults>>

ProbeRaced ==
    /\ ScanDone("probe") /\ Worth /\ Sender \in channels
    /\ failure' = "stale" /\ pc' = "finish" /\ scan' = NoScan
    /\ UNCHANGED <<request, at, imported, scanned, visited, storeVars, refreshed, faults>>

\* Registering alone already cleared the snapshot.
ImportedByRegistering == TRUE

ProbeRegisters ==
    /\ ScanDone("probe") /\ Worth
    /\ Sender \notin channels /\ Room
    /\ channels' = channels \cup {Sender}
    /\ snapshot' = "cleared" /\ cleared' = TRUE
    /\ imported' = ImportedByRegistering
    /\ IF ProbeIsFull THEN pc' = "import" /\ scan' = [scan EXCEPT !.kind = "full"]
       ELSE pc' = "scan" /\ scan' = StartScan("full")
    /\ UNCHANGED <<request, at, failure, scanned, visited, watched, refreshed, faults>>

FullScanDone ==
    /\ ScanDone("existing") \/ ScanDone("full")
    /\ pc' = "import"
    /\ UNCHANGED <<request, at, scan, imported, failure, scanned, visited, storeVars,
                   refreshed, faults>>

\* import_payment_receive_indexes clears the snapshot.
ImportScan ==
    /\ pc = "import"
    /\ watched' = [watched EXCEPT ![Sender] = @ \cup Range(scan.indexes)]
    /\ snapshot' = "cleared" /\ cleared' = TRUE
    /\ imported' = TRUE
    /\ Report(IF scan.kind = "existing" THEN "existing" ELSE "registered")
    /\ Advance
    /\ UNCHANGED <<request, failure, visited, channels, refreshed, faults>>

\* Imports cleared the snapshot: rebuild it, even after a failure, unless the
\* caller cancelled.
NeedsRefresh == imported /\ failure # "cancelled" /\ ~refreshed

Refresh ==
    /\ pc = "finish" /\ NeedsRefresh
    /\ refreshed' = TRUE
    /\ \/ snapshot' = "fresh" /\ UNCHANGED <<failure, faults>>
       \/ /\ faults < MaxFaults /\ faults' = faults + 1
          /\ failure' = IF failure = "none" THEN "transport" ELSE failure
          /\ UNCHANGED snapshot
    /\ UNCHANGED <<request, pc, at, scan, imported, scanned, visited, channels, watched,
                   cleared>>

NextStart == request.start + PageSize

\* The page returns.  The caller repeats a failed page and follows next_start
\* until nothing is deferred.
ReturnPage ==
    /\ pc = "finish" /\ ~NeedsRefresh
    /\ IF failure = "none"
       THEN /\ visited' = [s \in Codes |-> visited[s]
                             + Quantify(DOMAIN scanned, LAMBDA k : scanned[k].sender = s)]
            /\ pc' = IF PageEnd < Len(Announced) THEN "page" ELSE "done"
            /\ request' = [request EXCEPT !.start = NextStart]
       ELSE pc' = "page" /\ UNCHANGED <<visited, request>>
    /\ UNCHANGED <<at, scan, imported, failure, scanned, storeVars, refreshed, faults>>

\* Another process registers a channel and clears the snapshot, or rebuilds it.
OtherRegisters ==
    /\ faults < MaxFaults /\ faults' = faults + 1
    /\ \E s \in Codes \ (channels \cup {Owner}) :
         Room /\ channels' = channels \cup {s}
    /\ snapshot' = "cleared"
    /\ UNCHANGED <<request, pc, at, scan, imported, failure, scanned, visited, watched,
                   cleared, refreshed>>

Done == pc = "done" /\ UNCHANGED vars

PageNext ==
    \/ BeginPage \/ SkipOwn \/ StartSender \/ ReadWindow
    \/ ProbeUnregistered \/ ProbeRefused \/ ProbeRaced \/ ProbeRegisters
    \/ FullScanDone \/ ImportScan \/ Refresh \/ ReturnPage

Next == PageNext \/ Fault \/ OtherRegisters \/ Done

\* The page's own steps are taken: it is one async call that is polled.
Spec == Init /\ [][Next]_vars /\ WF_vars(PageNext)

----------------------------------------------------------------------------
\* Program counters and reports hold values of their types.
TypeOK ==
    /\ pc \in {"page", "sender", "scan", "import", "finish", "done"}
    /\ at \in 1..(Len(Announced) + 1)
    /\ failure \in {"none", "transport", "cancelled", "stale"}
    /\ channels \subseteq Codes /\ Cardinality(channels) <= ChannelLimit
    /\ \A s \in Codes : watched[s] \subseteq Zone
    /\ scan.kind = "none" \/ Len(scan.indexes) <= OptionsOf(scan).max

\* The scan that reads one address at a time: it stops after the first run of
\* gap unused addresses, at the address limit, or at the end of the range.
SequentialScan(sender, o) ==
    LET all == Matching(0, o.end, o.end)
        gapAt(k) == o.gap # 0 /\ k >= o.gap
                      /\ \A j \in (k - o.gap + 1)..k : all[j] \notin Used[sender]
        ends == {k \in 1..Len(all) : gapAt(k)} \cup {Min({o.max, Len(all)})}
        k == Min(ends)
    IN SubSeq(all, 1, k)

\* However the windows fall, a finished channel scan examined exactly the
\* addresses the one-at-a-time scan examines, so no funded address before the
\* gap is missed and nothing past it is disclosed to the node.
WindowsAreSequential ==
    scan.kind # "none" /\ ScanOver(scan, OptionsOf(scan)) =>
        /\ scan.indexes = SequentialScan(Sender, OptionsOf(scan))
        /\ scan.asked = Range(scan.indexes)
        /\ scan.found = Quantify(Range(scan.indexes), LAMBDA i : i \in Used[Sender])
        /\ Stopped(scan, OptionsOf(scan)) = "limit" => Len(scan.indexes) = OptionsOf(scan).max

\* A channel this page registered holds at least min_funded in the probed
\* addresses, and the caller asked for registration.
RegisteredIsFunded ==
    \A k \in DOMAIN scanned :
        scanned[k].registration = "registered" =>
            /\ request.register
            /\ Cardinality(Used[scanned[k].sender]
                             \cap Range(SequentialScan(scanned[k].sender, Probe)))
                 >= Max({1, MinFunded})

\* A page that is not cancelled never returns with the snapshot its own imports
\* cleared, unless it tried to rebuild it.
SnapshotRebuilt ==
    pc = "finish" /\ ~NeedsRefresh /\ cleared /\ failure # "cancelled" => refreshed

\* Following next_start, with failed pages repeated, every announced sender but
\* the owner is reported by exactly one returned page.
PagesCover ==
    pc = "done" => \A s \in Codes : visited[s] = IF s = Owner THEN 0 ELSE 1

\* With bounded faults the caller's walk over the announced senders ends.
Ended == pc = "done"
============================================================================
