------------------------------ MODULE QiAddressUse ------------------------------
(***************************************************************************)
(* The in-memory QiAddressBook and its refresh from the node: imports under  *)
(* an origin, attempted use, and observations staged over several requests   *)
(* and recorded all together, while the chain moves and the caller cancels.  *)
(***************************************************************************)
EXTENDS Naturals, FiniteSets

CONSTANTS
    Addresses,
    Origins,        \* origins a caller may claim for an address
    Blocks, Height, Entropy,
    Owned,          \* Owned[b][a]: the address has outputs after block b (or a use hint)
    Refused,        \* addresses whose answer the refresh refuses
    MaxRecords,     \* MAX_QI_ADDRESS_RECORDS
    None

Statuses == {"Unknown", "Unused", "Used", "AttemptedUse"}

VARIABLES
    head,
    book,       \* address -> record, or None
    pc, tip, todo, staged, failed,
    seenUsed    \* addresses some recorded observation saw in use since the last invalidation

vars == <<head, book, pc, tip, todo, staged, failed, seenUsed>>

Known == {a \in Addresses : book[a] # None}

Init ==
    /\ head \in {b \in Blocks : \A c \in Blocks : Entropy[b] <= Entropy[c]}
    /\ book = [a \in Addresses |-> None]
    /\ pc = "idle" /\ tip = None /\ todo = {} /\ staged = [a \in {} |-> FALSE] /\ failed = FALSE
    /\ seenUsed = {}

-----------------------------------------------------------------------------
(* The book.  The refresh borrows it exclusively, so these wait for it. *)

\* insert: idempotent for the same origin, refused for another, and at the limit.
Insert(a, origin) ==
    /\ pc = "idle"
    /\ book[a] = None /\ Cardinality(Known) < MaxRecords
    /\ book' = [book EXCEPT ![a] = [origin |-> origin, status |-> "Unknown", checkpoint |-> None]]
    /\ UNCHANGED <<head, pc, tip, todo, staged, failed, seenUsed>>

MarkAttempted(a) ==
    /\ pc = "idle" /\ book[a] # None
    /\ book' = [book EXCEPT ![a].status = IF @ = "Used" THEN @ ELSE "AttemptedUse"]
    /\ UNCHANGED <<head, pc, tip, todo, staged, failed, seenUsed>>

InvalidateObservations ==
    /\ pc = "idle"
    /\ book' = [a \in Addresses |->
                  IF book[a] = None THEN None ELSE [book[a] EXCEPT !.status = "Unknown", !.checkpoint = None]]
    /\ seenUsed' = {}
    /\ UNCHANGED <<head, pc, tip, todo, staged, failed>>

\* A record's checkpoint may not go back, nor sideways at one height.
Stale(a, cp) ==
    LET old == book[a].checkpoint IN
    old # None /\ (Height[old] > Height[cp] \/ (Height[old] = Height[cp] /\ old # cp))

StatusAfter(old, used) ==
    IF used \/ old = "Used" THEN "Used" ELSE IF old = "AttemptedUse" THEN "AttemptedUse" ELSE "Unused"

\* record_observations: all rows are checked before any is written.
RecordObservations(cp, rows) ==
    IF \E a \in DOMAIN rows : Stale(a, cp)
    THEN UNCHANGED <<book, seenUsed>>
    ELSE /\ book' = [a \in Addresses |->
                       IF a \in DOMAIN rows
                       THEN [book[a] EXCEPT !.status = StatusAfter(@, rows[a]), !.checkpoint = cp] ELSE book[a]]
         /\ seenUsed' = seenUsed \cup {a \in DOMAIN rows : rows[a]}

-----------------------------------------------------------------------------
(* refresh_qi_address_book: one request per step; any of them may be the     *)
(* last, as the caller may cancel before each.                               *)

RefreshBegin ==
    /\ pc = "idle"
    /\ pc' = "pages" /\ tip' = head /\ todo' = Known /\ staged' = [a \in {} |-> FALSE] /\ failed' = FALSE
    /\ UNCHANGED <<head, book, seenUsed>>

\* A page of the outpoints of the book's addresses, at the latest block.
RefreshPage ==
    /\ pc = "pages"
    /\ \E a \in todo :
         /\ todo' = todo \ {a}
         /\ staged' = [x \in DOMAIN staged \cup {a} |-> IF x = a THEN Owned[head][a] ELSE staged[x]]
         /\ failed' = (failed \/ a \in Refused)
    /\ UNCHANGED <<head, book, pc, tip, seenUsed>>

\* Every row valid, the tip unmoved: the staged rows are recorded.
RefreshClose ==
    /\ pc = "pages" /\ todo = {}
    /\ pc' = "idle"
    /\ IF failed \/ head # tip THEN UNCHANGED <<book, seenUsed>> ELSE RecordObservations(tip, staged)
    /\ UNCHANGED <<head, tip, todo, staged, failed>>

RefreshCancelled ==
    /\ pc = "pages" /\ pc' = "idle"
    /\ UNCHANGED <<head, book, tip, todo, staged, failed, seenUsed>>

Advance ==
    /\ \E b \in Blocks : Entropy[b] > Entropy[head] /\ head' = b
    /\ UNCHANGED <<book, pc, tip, todo, staged, failed, seenUsed>>

Next ==
    \/ \E a \in Addresses : (\E o \in Origins : Insert(a, o)) \/ MarkAttempted(a)
    \/ InvalidateObservations
    \/ RefreshBegin \/ RefreshPage \/ RefreshClose \/ RefreshCancelled
    \/ Advance

Spec == Init /\ [][Next]_vars

-----------------------------------------------------------------------------
(* Properties. *)

TypeOK ==
    /\ head \in Blocks /\ pc \in {"idle", "pages"}
    /\ \A a \in Known : book[a].origin \in Origins /\ book[a].status \in Statuses
                        /\ book[a].checkpoint \in Blocks \cup {None}
    /\ Cardinality(Known) <= MaxRecords

\* An address offered for reuse (Unused, as the gap lists return it) had no
\* outputs at the very block its record names, and no observation since the
\* last invalidation saw it used.
UnusedIsObserved ==
    \A a \in Known : book[a].status = "Unused" =>
        book[a].checkpoint # None /\ ~Owned[book[a].checkpoint][a] /\ a \notin seenUsed

\* An address once seen in use stays Used, whatever is observed or marked later,
\* until the observations are invalidated.
UsedSticks == \A a \in seenUsed : book[a].status = "Used"

\* An attempted use is never taken back by an observation.
AttemptSticks ==
    \A a \in Known :
      book[a].status = "AttemptedUse"
        => (book'[a].status \in {"AttemptedUse", "Used"} \/ book'[a].checkpoint = None)

\* One refresh updates the whole book at one block or nothing.
RecordedTogether ==
    (\E a \in Known : book'[a].checkpoint # book[a].checkpoint)
      => (\A a, b \in Known : book'[a].checkpoint = book'[b].checkpoint)
=============================================================================
