------------------------------ MODULE AddressScan ------------------------------
(***************************************************************************)
(* The three gap-limited scans of an account's address branches: the       *)
(* wallet's `discover` (account state pinned at a checkpoint), `scan_qi`    *)
(* (no checkpoint) and `discover_qi` (latest outpoints, bracketed by the    *)
(* tip).  All derive a window of addresses, read the window in one request  *)
(* and consume the answers in index order.  Cancellation may arrive at any  *)
(* point, also while a window is being ground; the chain may grow or        *)
(* reorganise between two requests.                                         *)
(***************************************************************************)
EXTENDS Integers, Sequences, SequencesExt, FiniteSets

CONSTANTS
    Layouts,        \* what each index of the two branches is, a set of pairs of sequences
    Requests,       \* gap limit (None for none), max_addresses and grinding asked for
    Hardened,       \* first hardened child index
    Slice,          \* candidates ground between two yields
    Chunk,          \* candidates a parallel grind derives between two cancellation checks
    MaxWindow,      \* MAX_SCAN_WINDOW
    MaxBlocks,      \* bound on chain changes
    None

Branches == 1..2
Kinds == {"discover", "scan_qi", "discover_qi"}
\* An index derives no address of the zone, an unused address, a used one, or
\* one whose answer fails validation.
Classes == {"miss", "empty", "used", "bad"}
Stops == {"RangeEnd", "GapLimit", "AddressLimit", "Cancelled"}

VARIABLES
    kind, layout, request,
    phase,          \* the request the scan waits for, or the step it is at
    branch, unused, \* the branch being scanned and its GapCounter
    coverage,       \* per branch: cursor, skipped ranges, stop
    window,         \* the window being ground or consumed
    at,             \* block the window's answers describe
    recorded,       \* the report's addresses, with the block each was read at
    checkpoint, canonical, error,
    disclosed,      \* addresses sent to the node
    cancelled,
    chain           \* block at the checkpoint's height, and the latest block

vars == <<kind, layout, request, phase, branch, unused, coverage, window, at, recorded,
          checkpoint, canonical, error, disclosed, cancelled, chain>>

End(b) == Len(layout[b])
ClassOf(b, i) == layout[b][i + 1]
Recorded(b) == {recorded[k].index : k \in {n \in DOMAIN recorded : recorded[n].branch = b}}

-----------------------------------------------------------------------------
(* GapCounter *)

Observed(used) == IF used THEN 0 ELSE unused + 1
ReachedGap(n) == request.gap # None /\ n >= request.gap

WindowSize ==
    LET budget == request.max - Len(recorded)
        bound == IF request.gap = None THEN budget
                 ELSE IF request.gap - unused < budget THEN request.gap - unused ELSE budget
    IN  IF bound < 1 THEN 1 ELSE IF bound > MaxWindow THEN MaxWindow ELSE bound

-----------------------------------------------------------------------------
(* Grinding a window: each slice examines candidates in index order until    *)
(* the window is full, its attempts are spent, or cancellation is seen.      *)

NextIndex(i) == IF i + 1 < Hardened THEN i + 1 ELSE None

\* What one slice of at most `limit` candidates from `start` yields when
\* cancellation is seen before candidate number `cut` (None: not seen).
SearchWindow(start, limit, wanted, cut) ==
    LET hits(n) == SelectSeq([k \in 1..n |-> start + k - 1], LAMBDA i : ClassOf(branch, i) # "miss")
        full == {n \in 1..limit : Len(hits(n)) = wanted}
        last == IF full = {} THEN limit ELSE CHOOSE n \in full : \A o \in full : n <= o
        stop == IF cut # None /\ cut < last THEN "Cancelled" ELSE IF full # {} THEN "Filled" ELSE "Exhausted"
        n == IF stop = "Cancelled" THEN cut ELSE last
    IN  [addresses |-> hits(n), attempts |-> n, stop |-> stop,
         next |-> IF n = 0 THEN start ELSE NextIndex(start + n - 1)]

\* The cancellation points of a slice: before every candidate, or before
\* every chunk when the grind is parallel.
Cuts(limit) ==
    LET points == IF request.parallel THEN {n \in 0..(limit - 1) : n % Chunk = 0} ELSE 0..(limit - 1)
    IN  IF cancelled THEN {0} ELSE points \cup {None}

SearchSlice ==
    /\ phase = "search"
    /\ LET limit == IF window.left < Slice THEN window.left ELSE Slice
       IN  \E cut \in Cuts(limit) :
           LET part == SearchWindow(window.next, limit, window.wanted - Len(window.addresses), cut)
               left == window.left - part.attempts
               done == part.stop # "Exhausted" \/ left = 0 \/ part.next = None
           IN  /\ window' = [window EXCEPT !.addresses = @ \o part.addresses, !.left = left,
                                           !.next = part.next, !.stop = part.stop]
               /\ cancelled' = (cancelled \/ part.stop = "Cancelled")
               /\ phase' = IF done THEN "found" ELSE "search"
    /\ UNCHANGED <<kind, layout, request, branch, unused, coverage, at, recorded, checkpoint,
                   canonical, error, disclosed, chain>>

-----------------------------------------------------------------------------
(* Steps the three scans share. *)

NoWindow == [addresses |-> <<>>, left |-> 0, wanted |-> 0, next |-> None, stop |-> "Exhausted"]

\* Start grinding the next window of the branch.
Grind ==
    /\ phase' = "search"
    /\ window' = [addresses |-> <<>>, wanted |-> WindowSize, next |-> coverage[branch].next,
                  left |-> End(branch) - coverage[branch].next, stop |-> "Exhausted"]

\* Leave the branch with coverage c; the last branch is followed by the close.
Leave(c, closing) ==
    /\ coverage' = c
    /\ window' = NoWindow
    /\ IF branch = 1
       THEN branch' = 2 /\ unused' = 0 /\ phase' = "branch"
       ELSE phase' = closing /\ UNCHANGED <<branch, unused>>

\* fill(): the branch and those after it carry the stop.
Filled(stop) == [b \in Branches |-> IF b >= branch THEN [coverage[b] EXCEPT !.stop = stop] ELSE coverage[b]]

Finish(c) == coverage' = c /\ phase' = "done" /\ window' = NoWindow /\ UNCHANGED <<branch, unused>>
Fail(what) == error' = what /\ phase' = "done" /\ UNCHANGED <<branch, unused, coverage, window, recorded>>

\* skip(): the mismatches up to `to` are a skipped range.
Skip(c, to) ==
    IF to > c.next THEN [c EXCEPT !.skipped = Append(@, <<c.next, to>>), !.next = to] ELSE c

Row(i) == [branch |-> branch, index |-> i, at |-> at]
Head1 == window.addresses[1]
Consumed == [window EXCEPT !.addresses = Tail(@)]

-----------------------------------------------------------------------------
(* discover: the wallet's scan over an ObservationSource. *)

DiscoverBegin ==
    /\ phase = "begin" /\ kind = "discover"
    /\ IF cancelled
       THEN error' = "Cancelled" /\ phase' = "done" /\ UNCHANGED checkpoint
       ELSE checkpoint' = chain /\ phase' = "branch" /\ UNCHANGED error
    /\ UNCHANGED <<kind, layout, request, branch, unused, coverage, window, at, recorded, canonical,
                   disclosed, cancelled, chain>>

\* The head of the branch loop.
DiscoverBranch ==
    /\ phase = "branch" /\ kind = "discover"
    /\ LET c == coverage[branch] IN
       \/ /\ c.next < End(branch) /\ ~cancelled /\ Len(recorded) < request.max
          /\ Grind /\ UNCHANGED <<branch, unused, coverage>>
       \/ /\ c.next < End(branch) /\ ~cancelled /\ Len(recorded) >= request.max
          /\ Leave([coverage EXCEPT ![branch].stop = "AddressLimit"], "close")
       \/ /\ c.next < End(branch) /\ cancelled
          /\ Finish(Filled("Cancelled"))
       \/ c.next >= End(branch) /\ Leave(coverage, "close")
    /\ UNCHANGED <<kind, layout, request, at, recorded, checkpoint, canonical, error, disclosed,
                   cancelled, chain>>

\* A window without addresses ends the branch; a cancelled one is discarded
\* unobserved; otherwise it is sent to the source.
DiscoverFound ==
    /\ phase = "found" /\ kind = "discover"
    /\ LET to == IF window.next = None THEN Hardened ELSE window.next
           skipped == [coverage EXCEPT ![branch] = Skip(@, to)]
       IN  \/ /\ window.addresses = <<>> /\ window.stop = "Cancelled"
              /\ Finish([b \in Branches |-> IF b >= branch THEN [skipped[b] EXCEPT !.stop = "Cancelled"]
                                            ELSE skipped[b]])
              /\ UNCHANGED disclosed
           \/ /\ window.addresses = <<>> /\ window.stop # "Cancelled"
              /\ Leave(skipped, "close") /\ UNCHANGED disclosed
           \/ /\ window.addresses # <<>> /\ (window.stop = "Cancelled" \/ cancelled)
              /\ Finish(Filled("Cancelled")) /\ UNCHANGED disclosed
           \/ /\ window.addresses # <<>> /\ window.stop # "Cancelled" /\ ~cancelled
              /\ phase' = "pin"
              /\ disclosed' = disclosed \cup {<<branch, i>> : i \in Range(window.addresses)}
              /\ UNCHANGED <<branch, unused, coverage, window>>
    /\ UNCHANGED <<kind, layout, request, at, recorded, checkpoint, canonical, error, cancelled, chain>>

\* AccountRpcSource::observe_many: the pinned header, the states by height,
\* and the pinned header again.
ObservePin ==
    /\ phase = "pin"
    /\ IF chain.pinned # checkpoint.pinned
       THEN Fail("Changed")
       ELSE phase' = "states" /\ UNCHANGED <<error, branch, unused, coverage, window, recorded>>
    /\ UNCHANGED <<kind, layout, request, at, checkpoint, canonical, disclosed, cancelled, chain>>

ObserveStates ==
    /\ phase = "states"
    /\ at' = chain.pinned /\ phase' = "unpin"
    /\ UNCHANGED <<kind, layout, request, branch, unused, coverage, window, recorded, checkpoint,
                   canonical, error, disclosed, cancelled, chain>>

ObserveUnpin ==
    /\ phase = "unpin"
    /\ IF chain.pinned # checkpoint.pinned
       THEN Fail("Changed")
       ELSE phase' = "consume" /\ UNCHANGED <<error, branch, unused, coverage, window, recorded>>
    /\ UNCHANGED <<kind, layout, request, at, checkpoint, canonical, disclosed, cancelled, chain>>

\* One answer: validate, count, record, then cancellation before the gap stop.
DiscoverConsume ==
    /\ phase = "consume" /\ kind = "discover" /\ window.addresses # <<>>
    /\ LET class == ClassOf(branch, Head1)
           n == Observed(class = "used")
           c == [Skip(coverage[branch], Head1) EXCEPT !.next = Head1 + 1]
       IN  \/ class = "bad" /\ Fail("Bad")
           \/ /\ class # "bad" /\ recorded' = Append(recorded, Row(Head1)) /\ UNCHANGED error
              /\ \/ /\ cancelled
                    /\ Finish([b \in Branches |->
                                 IF b < branch THEN coverage[b]
                                 ELSE [IF b = branch THEN c ELSE coverage[b] EXCEPT !.stop = "Cancelled"]])
                 \/ /\ ~cancelled /\ ReachedGap(n)
                    /\ Leave([coverage EXCEPT ![branch] = [c EXCEPT !.stop = "GapLimit"]], "close")
                 \/ /\ ~cancelled /\ ~ReachedGap(n)
                    /\ unused' = n /\ coverage' = [coverage EXCEPT ![branch] = c]
                    /\ window' = Consumed /\ UNCHANGED <<phase, branch>>
    /\ UNCHANGED <<kind, layout, request, at, checkpoint, canonical, disclosed, cancelled, chain>>

\* The window is consumed: an exhausted search ends the branch.
DiscoverNext ==
    /\ phase = "consume" /\ kind = "discover" /\ window.addresses = <<>>
    /\ IF window.stop = "Exhausted"
       THEN Leave([coverage EXCEPT ![branch] = Skip(@, IF window.next = None THEN Hardened ELSE window.next)],
                  "close")
       ELSE phase' = "branch" /\ window' = NoWindow /\ UNCHANGED <<branch, unused, coverage>>
    /\ UNCHANGED <<kind, layout, request, at, recorded, checkpoint, canonical, error, disclosed,
                   cancelled, chain>>

DiscoverClose ==
    /\ phase = "close" /\ kind = "discover"
    /\ canonical' = IF chain.pinned = checkpoint.pinned THEN "Matches" ELSE "Changed"
    /\ phase' = "done"
    /\ UNCHANGED <<kind, layout, request, branch, unused, coverage, window, at, recorded, checkpoint,
                   error, disclosed, cancelled, chain>>

-----------------------------------------------------------------------------
(* scan_qi and discover_qi: outpoints are latest-only.  Every row of a       *)
(* window is validated first; the rows before a failure are still recorded.  *)

ScanQiBegin ==
    /\ phase = "begin" /\ kind = "scan_qi"
    /\ IF cancelled THEN error' = "Cancelled" /\ phase' = "done"
       ELSE phase' = "branch" /\ UNCHANGED error
    /\ UNCHANGED <<kind, layout, request, branch, unused, coverage, window, at, recorded, checkpoint,
                   canonical, disclosed, cancelled, chain>>

DiscoverQiBegin ==
    /\ phase = "begin" /\ kind = "discover_qi"
    /\ IF cancelled
       THEN error' = "Cancelled" /\ phase' = "done" /\ UNCHANGED checkpoint
       ELSE checkpoint' = chain /\ phase' = "branch" /\ UNCHANGED error
    /\ UNCHANGED <<kind, layout, request, branch, unused, coverage, window, at, recorded, canonical,
                   disclosed, cancelled, chain>>

\* scan_qi returns at the address limit; discover_qi goes on to its close.
AfterLimit == IF kind = "discover_qi" THEN "close" ELSE "done"

QiBranch ==
    /\ phase = "branch" /\ kind # "discover"
    /\ LET c == coverage[branch] IN
       \/ /\ c.next < End(branch) /\ cancelled
          /\ Finish(Filled("Cancelled"))
       \/ /\ c.next < End(branch) /\ ~cancelled /\ Len(recorded) = request.max
          /\ coverage' = Filled("AddressLimit") /\ phase' = AfterLimit
          /\ window' = NoWindow /\ UNCHANGED <<branch, unused>>
       \/ /\ c.next < End(branch) /\ ~cancelled /\ Len(recorded) # request.max
          /\ Grind /\ UNCHANGED <<branch, unused, coverage>>
       \/ c.next >= End(branch) /\ Leave(coverage, AfterLimit)
    /\ UNCHANGED <<kind, layout, request, at, recorded, checkpoint, canonical, error, disclosed,
                   cancelled, chain>>

QiFound ==
    /\ phase = "found" /\ kind # "discover"
    /\ LET to == IF window.next = None THEN End(branch) ELSE window.next IN
       \/ /\ window.stop = "Cancelled" \/ cancelled
          /\ Finish(IF window.addresses = <<>>
                    THEN [Filled("Cancelled") EXCEPT ![branch].next = to] ELSE Filled("Cancelled"))
          /\ UNCHANGED disclosed
       \/ /\ window.stop # "Cancelled" /\ ~cancelled /\ window.addresses = <<>>
          /\ Leave([coverage EXCEPT ![branch].next = End(branch)], AfterLimit)
          /\ UNCHANGED disclosed
       \/ /\ window.stop # "Cancelled" /\ ~cancelled /\ window.addresses # <<>>
          /\ phase' = "outpoints"
          /\ disclosed' = disclosed \cup {<<branch, i>> : i \in Range(window.addresses)}
          /\ UNCHANGED <<branch, unused, coverage, window>>
    /\ UNCHANGED <<kind, layout, request, at, recorded, checkpoint, canonical, error, cancelled, chain>>

\* outpoints_many answers the whole window from the latest block.
QiOutpoints ==
    /\ phase = "outpoints"
    /\ at' = chain.latest /\ phase' = "consume"
    /\ UNCHANGED <<kind, layout, request, branch, unused, coverage, window, recorded, checkpoint,
                   canonical, error, disclosed, cancelled, chain>>

\* One validated row, its use hint awaited: the gap stop before cancellation.
QiConsume ==
    /\ phase = "consume" /\ kind # "discover" /\ window.addresses # <<>>
    /\ LET class == ClassOf(branch, Head1)
           n == Observed(class = "used")
           c == [coverage[branch] EXCEPT !.next = Head1 + 1]
       IN  \/ class = "bad" /\ Fail("Bad")
           \/ /\ class # "bad" /\ recorded' = Append(recorded, Row(Head1)) /\ UNCHANGED error
              /\ \/ /\ ReachedGap(n)
                    /\ Leave([coverage EXCEPT ![branch] = [c EXCEPT !.stop = "GapLimit"]], AfterLimit)
                 \/ /\ ~ReachedGap(n) /\ cancelled
                    /\ Finish([Filled("Cancelled") EXCEPT ![branch].next = c.next])
                 \/ /\ ~ReachedGap(n) /\ ~cancelled
                    /\ unused' = n /\ coverage' = [coverage EXCEPT ![branch] = c]
                    /\ window' = Consumed /\ UNCHANGED <<phase, branch>>
    /\ UNCHANGED <<kind, layout, request, at, checkpoint, canonical, disclosed, cancelled, chain>>

\* Mutant: a filled window ends the branch like an exhausted one.
QiNextEnds ==
    /\ phase = "consume" /\ kind # "discover" /\ window.addresses = <<>>
    /\ Leave([coverage EXCEPT ![branch].next = IF window.next = None THEN End(branch) ELSE window.next], AfterLimit)
    /\ UNCHANGED <<kind, layout, request, at, recorded, checkpoint, canonical, error, disclosed,
                   cancelled, chain>>

QiNext ==
    /\ phase = "consume" /\ kind # "discover" /\ window.addresses = <<>>
    /\ IF window.stop = "Exhausted"
       THEN Leave([coverage EXCEPT ![branch].next = End(branch)], AfterLimit)
       ELSE phase' = "branch" /\ window' = NoWindow /\ UNCHANGED <<branch, unused, coverage>>
    /\ UNCHANGED <<kind, layout, request, at, recorded, checkpoint, canonical, error, disclosed,
                   cancelled, chain>>

\* The close of discover_qi: a late cancellation marks every branch; the
\* observation matches only if the tip never moved.
DiscoverQiClose ==
    /\ phase = "close" /\ kind = "discover_qi"
    /\ phase' = "done"
    /\ IF cancelled
       THEN coverage' = [b \in Branches |-> [coverage[b] EXCEPT !.stop = "Cancelled"]] /\ UNCHANGED canonical
       ELSE canonical' = (IF chain = checkpoint THEN "Matches" ELSE "Changed") /\ UNCHANGED coverage
    /\ UNCHANGED <<kind, layout, request, branch, unused, window, at, recorded, checkpoint, error,
                   disclosed, cancelled, chain>>

-----------------------------------------------------------------------------
(* The caller and the chain. *)

Cancel ==
    /\ ~cancelled /\ phase # "done" /\ cancelled' = TRUE
    /\ UNCHANGED <<kind, layout, request, phase, branch, unused, coverage, window, at, recorded,
                   checkpoint, canonical, error, disclosed, chain>>

\* A new block; with a reorg the block at the checkpoint's height is another one.
Advance ==
    /\ phase # "done" /\ chain.latest < MaxBlocks
    /\ \E reorg \in BOOLEAN :
         chain' = [pinned |-> IF reorg THEN chain.latest + 1 ELSE chain.pinned, latest |-> chain.latest + 1]
    /\ UNCHANGED <<kind, layout, request, phase, branch, unused, coverage, window, at, recorded,
                   checkpoint, canonical, error, disclosed, cancelled>>

Init ==
    /\ kind \in Kinds /\ layout \in Layouts
    /\ request \in Requests
    /\ phase = "begin" /\ branch = 1 /\ unused = 0
    /\ coverage = [b \in Branches |-> [next |-> 0, skipped |-> <<>>, stop |-> "RangeEnd"]]
    /\ window = NoWindow /\ at = None /\ recorded = <<>>
    /\ checkpoint = None /\ canonical = "NotChecked" /\ error = None
    /\ disclosed = {} /\ cancelled = FALSE
    /\ chain = [pinned |-> 0, latest |-> 0]

Next ==
    \/ SearchSlice
    \/ DiscoverBegin \/ DiscoverBranch \/ DiscoverFound \/ ObservePin \/ ObserveStates \/ ObserveUnpin
    \/ DiscoverConsume \/ DiscoverNext \/ DiscoverClose
    \/ ScanQiBegin \/ DiscoverQiBegin \/ QiBranch \/ QiFound \/ QiOutpoints \/ QiConsume \/ QiNext
    \/ DiscoverQiClose
    \/ Cancel \/ Advance

Spec == Init /\ [][Next]_vars

-----------------------------------------------------------------------------
(* Properties. *)

TypeOK ==
    /\ kind \in Kinds /\ branch \in Branches /\ unused \in Nat /\ cancelled \in BOOLEAN
    /\ phase \in {"begin", "branch", "search", "found", "pin", "states", "unpin", "outpoints",
                  "consume", "close", "done"}
    /\ \A b \in Branches : coverage[b].next \in 0..End(b) /\ coverage[b].stop \in Stops
    /\ Len(recorded) <= request.max /\ Len(window.addresses) <= window.wanted
    /\ canonical \in {"NotChecked", "Matches", "Changed"}
    /\ error \in {None, "Bad", "Changed", "Cancelled"}

\* The scan that derives and reads one address at a time, over a layout; no
\* cancellation.  An invalid answer counts as unused when `trusting`.
Sequential(l, trusting) ==
    LET step(s, p) ==
            LET class == l[p[1]][p[2] + 1]
                used == class = "used"
                n == IF p[1] # s.branch THEN (IF used THEN 0 ELSE 1) ELSE IF used THEN 0 ELSE s.unused + 1
            IN  IF s.error \/ s.stops[p[1]] # "RangeEnd" THEN s
                ELSE IF Len(s.seen) = request.max
                THEN [s EXCEPT !.stops = [b \in Branches |->
                          IF b = p[1] \/ (kind # "discover" /\ b > p[1]) THEN "AddressLimit" ELSE @[b]]]
                ELSE IF class = "miss" THEN s
                ELSE IF class = "bad" /\ ~trusting THEN [s EXCEPT !.error = TRUE]
                ELSE [s EXCEPT !.seen = Append(@, p), !.unused = n, !.branch = p[1],
                               !.stops[p[1]] = IF ReachedGap(n) THEN "GapLimit" ELSE @]
        points == [k \in 1..(Len(l[1]) + Len(l[2])) |->
                      IF k <= Len(l[1]) THEN <<1, k - 1>> ELSE <<2, k - 1 - Len(l[1])>>]
    IN  FoldLeft(step, [seen |-> <<>>, unused |-> 0, branch |-> 1, error |-> FALSE,
                        stops |-> [b \in Branches |-> "RangeEnd"]], points)

SeenPairs == [k \in DOMAIN recorded |-> <<recorded[k].branch, recorded[k].index>>]
StopsOf == [b \in Branches |-> coverage[b].stop]
Cut == \E b \in Branches : coverage[b].stop = "Cancelled"

\* Reading windows never changes a scan's result: what a scan that was not
\* cancelled reports, its stops and its validation failure are those of the
\* scan that reads one address at a time; a cancelled one reports a prefix.
BatchedIsSequential ==
    phase = "done" =>
        LET reference == Sequential(layout, FALSE) IN
        /\ error = "Bad" => reference.error
        /\ error = None /\ ~Cut => ~reference.error /\ SeenPairs = reference.seen /\ StopsOf = reference.stops
        /\ error = None /\ Cut => IsPrefix(SeenPairs, reference.seen)

\* A window never discloses an address the scan is not bound to examine: every
\* address sent to the node is one the sequential scan reads when no answer
\* before it is refused.
NothingSpeculative ==
    phase \in {"pin", "outpoints"} => disclosed \subseteq Range(Sequential(layout, TRUE).seen)

\* At every moment the cursor of a branch has exactly the recorded addresses
\* behind it: an error or a cancellation never leaves it past an unread address,
\* so a scan resumed there misses nothing and repeats nothing.
CursorIsResumable ==
    \A b \in Branches :
        Recorded(b) = {i \in 0..(coverage[b].next - 1) : ClassOf(b, i) # "miss"}

\* The ranges `discover` reports as skipped are exactly the mismatching indices
\* behind the cursor, disjoint and in order.
SkippedExactly ==
    kind = "discover" => \A b \in Branches :
        LET ranges == coverage[b].skipped IN
        /\ UNION {ranges[k][1]..(ranges[k][2] - 1) : k \in DOMAIN ranges}
             = {i \in 0..(coverage[b].next - 1) : ClassOf(b, i) = "miss"}
        /\ \A k \in DOMAIN ranges : ranges[k][1] < ranges[k][2]
                                    /\ (k > 1 => ranges[k - 1][2] <= ranges[k][1])

\* A report marked as matching describes one block: each of its addresses was
\* read at the checkpoint, whatever the chain did between the requests.
MatchesIsOneBlock ==
    canonical = "Matches" =>
        \A k \in DOMAIN recorded :
            recorded[k].at = IF kind = "discover" THEN checkpoint.pinned ELSE checkpoint.latest

\* `discover` never keeps an observation of another block, even in a report it
\* ends up marking as changed or not checked.
RowsArePinned ==
    kind = "discover" => \A k \in DOMAIN recorded : recorded[k].at = checkpoint.pinned
=============================================================================
