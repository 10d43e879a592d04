--------------------------- MODULE PaymentStore ---------------------------
(*************************************************************************)
(* One BIP47 payment channel of a SQLite wallet, shared by processes that *)
(* each have their own connection: the cursors and generation of          *)
(* payment_channels, the rows of payment_exposures, the imported          *)
(* addresses of the scope and the coin snapshot they invalidate.          *)
(*                                                                        *)
(* Child indexes stand for the keys derived from them, Match for the      *)
(* indexes whose key falls in the scope's zone.  End is the number of     *)
(* non-hardened indexes: a cursor of End is the exhausted cursor (None).  *)
(*************************************************************************)
EXTENDS Integers, FiniteSets, FiniteSetsExt, WellFoundedInduction, TLAPS

CONSTANTS
    Procs,          \* processes, one connection each
    Match,          \* Match[direction]: the indexes that derive to the zone
    End,            \* the first index that cannot be derived
    Attempts,       \* the search budgets callers ask for
    MaxGeneration,  \* bound on the number of writes to the channel row
    MaxScope        \* bound on the scope's generation

Directions == {"send", "receive"}
Indexes == 0..(End - 1)
NoChannel == [generation |-> -1, next |-> [d \in Directions |-> 0]]

ConstantsAssumption ==
    /\ End \in Nat /\ MaxGeneration \in Nat /\ MaxScope \in Nat
    /\ Match \in [Directions -> SUBSET Indexes]
    /\ Attempts \subseteq Nat

VARIABLES
    channel,      \* the payment_channels row, NoChannel before registration
    exposures,    \* payment_exposures
    addresses,    \* imported receive addresses of the scope
    scopeGen,     \* scopes.generation
    snapshot,     \* the addresses the stored coin snapshot observed, or {-1}
    held,         \* each process's PaymentChannel value, read or advanced
    work,         \* what each process is in the middle of
    backup,       \* the last captured rows
    handed,       \* history: <<direction, index>> with the number of times handed out
    burned        \* history: index ranges consumed by committed allocations

vars == <<channel, exposures, addresses, scopeGen, snapshot, held, work, backup,
          handed, burned>>

Unobserved == {-1}
Idle == [step |-> "idle"]

Init ==
    /\ channel = NoChannel /\ exposures = {} /\ addresses = {}
    /\ scopeGen = 0 /\ snapshot = {}
    /\ held = [p \in Procs |-> NoChannel] /\ work = [p \in Procs |-> Idle]
    /\ backup = [channel |-> NoChannel, exposures |-> {}, addresses |-> {}]
    /\ handed = [k \in Directions \X Indexes |-> 0] /\ burned = {}

----------------------------------------------------------------------------
(* The in-memory channel.                                                  *)

\* PrivatePaymentCode::search: the first match in the budget, -1 when the
\* budget or the index space ends first.
Search(d, start, attempts) ==
    LET found == {i \in Match[d] : start <= i /\ i < start + attempts}
    IN IF found = {} THEN -1 ELSE Min(found)

\* Where a search leaves the cursor.
SearchEnd(d, start, attempts) ==
    IF Search(d, start, attempts) # -1 THEN Search(d, start, attempts) + 1
    ELSE Min({start + attempts, End})

\* PaymentChannel::advance_cursor refuses to lower a cursor or to revive an
\* exhausted one.
AdvanceCursor(row, d, next) ==
    [row EXCEPT !.next[d] = next]
CanAdvance(row, d, next) == next <= End /\ row.next[d] <= next

\* PaymentChannel::reserve_next: the cursor moves past everything searched,
\* found or not.  The address is exposed only once the channel is stored.
ReserveNext(p, d, attempts) ==
    /\ work[p] = Idle
    /\ held[p].generation >= 0 /\ held[p].next[d] < End
    /\ held' = [held EXCEPT
         ![p] = AdvanceCursor(@, d, SearchEnd(d, @.next[d], attempts))]
    /\ work' = [work EXCEPT ![p] =
         [step |-> "reserved", direction |-> d,
          index |-> Search(d, held[p].next[d], attempts)]]
    /\ UNCHANGED <<channel, exposures, addresses, scopeGen, snapshot, backup, handed,
                   burned>>

----------------------------------------------------------------------------
(* The scope's coin snapshot.                                              *)

\* Every stored row of coins goes with the addresses it was observed for.
ClearSnapshot == scopeGen' = scopeGen + 1 /\ snapshot' = Unobserved

RefreshStart(p) ==
    /\ work[p] = Idle
    /\ work' = [work EXCEPT ![p] =
         [step |-> "refresh", generation |-> scopeGen, over |-> addresses]]
    /\ UNCHANGED <<channel, exposures, addresses, scopeGen, snapshot, held, backup,
                   handed, burned>>

RefreshCommit(p) ==
    /\ work[p].step = "refresh"
    /\ work' = [work EXCEPT ![p] = Idle]
    /\ IF work[p].generation = scopeGen
       THEN snapshot' = work[p].over /\ scopeGen' = scopeGen + 1
       ELSE UNCHANGED <<snapshot, scopeGen>>
    /\ UNCHANGED <<channel, exposures, addresses, held, backup, handed, burned>>

----------------------------------------------------------------------------
(* Reading and importing the channel row.                                  *)

\* payment_channel: the stored row with its generation.
ReadChannel(p) ==
    /\ work[p] = Idle /\ channel # NoChannel
    /\ held' = [held EXCEPT ![p] = channel]
    /\ UNCHANGED <<channel, exposures, addresses, scopeGen, snapshot, work, backup,
                   handed, burned>>

\* Mutant: the generation of the caller's view is not compared.
CursorFence(incoming, expected) ==
    channel # NoChannel => \A d \in Directions : incoming[d] >= channel.next[d]

\* import_payment_channel: the expected generation must be the stored one
\* (none for a new row) and no cursor may move back.
ImportFence(incoming, expected) ==
    /\ expected = channel.generation
    /\ channel # NoChannel => \A d \in Directions : incoming[d] >= channel.next[d]

\* Storing a reserved channel: the reserved address is handed out when the
\* import succeeds and dropped when it does not.
ImportChannel(p) ==
    /\ work[p] = Idle \/ work[p].step = "reserved"
    /\ channel.generation < MaxGeneration
    /\ IF ImportFence(held[p].next, held[p].generation)
       THEN /\ channel' = [held[p] EXCEPT !.generation = channel.generation + 1]
            /\ held' = [held EXCEPT ![p] = channel']
            /\ ClearSnapshot
            /\ handed' =
                 IF work[p] # Idle /\ work[p].index # -1
                 THEN [handed EXCEPT ![<<work[p].direction, work[p].index>>] = @ + 1]
                 ELSE handed
       ELSE /\ held' = [held EXCEPT ![p] = NoChannel]
            /\ UNCHANGED <<channel, scopeGen, snapshot, handed>>
    /\ work' = [work EXCEPT ![p] = Idle]
    /\ UNCHANGED <<exposures, addresses, backup, burned>>

----------------------------------------------------------------------------
(* Exposure rows.                                                          *)

Exposure(d, i, start, end) == [direction |-> d, index |-> i, start |-> start, end |-> end]

\* The primary key of payment_exposures.
Exposed(d, i) == \E e \in exposures : e.direction = d /\ e.index = i

\* insert_exposure: a row that exists is accepted only when it is identical
\* and the caller allows that.
InsertsExposure(e, allowIdentical) ==
    Exposed(e.direction, e.index) => allowIdentical /\ e \in exposures

\* The receive side of an allocation also watches the imported address.
Watch(d, i) ==
    IF d = "receive"
    THEN addresses' = addresses \cup {i} /\ ClearSnapshot
    ELSE UNCHANGED <<addresses, scopeGen, snapshot>>

CanExpose(d, i, start, end) ==
    /\ InsertsExposure(Exposure(d, i, start, end), FALSE)
    /\ d = "receive" => i \notin addresses

\* allocate_payment_address_compact: one transaction searches, moves the
\* cursor just past the match and writes the exposure; nothing is kept of a
\* search that fails or is cancelled.
AllocateCompact(p, d, attempts) ==
    LET start == channel.next[d]
        i == Search(d, start, attempts)
    IN
    /\ work[p] = Idle /\ channel # NoChannel
    /\ start + attempts <= End
    /\ channel.generation < MaxGeneration
    /\ i # -1 /\ CanExpose(d, i, start, i + 1)
    /\ channel' = [AdvanceCursor(channel, d, i + 1) EXCEPT !.generation = @ + 1]
    /\ exposures' = exposures \cup {Exposure(d, i, start, i + 1)}
    /\ burned' = burned \cup {[direction |-> d, start |-> start, end |-> i + 1]}
    /\ handed' = [handed EXCEPT ![<<d, i>>] = @ + 1]
    /\ Watch(d, i)
    /\ UNCHANGED <<held, work, backup>>

\* The cursor the first transaction of allocate_payment_address commits.
BurnEnd(start, attempts) == start + attempts

\* allocate_payment_address, first transaction: the whole budget is burned
\* before anything is derived.
AllocateBurn(p, d, attempts) ==
    LET start == channel.next[d]
        end == BurnEnd(start, attempts)
    IN
    /\ work[p] = Idle /\ channel # NoChannel
    /\ start < End /\ start + attempts <= End /\ CanAdvance(channel, d, end)
    /\ channel.generation < MaxGeneration
    /\ channel' = [AdvanceCursor(channel, d, end) EXCEPT !.generation = @ + 1]
    /\ burned' = burned \cup {[direction |-> d, start |-> start, end |-> start + attempts]}
    /\ work' = [work EXCEPT ![p] =
         [step |-> "derive", direction |-> d, start |-> start, end |-> start + attempts]]
    /\ UNCHANGED <<exposures, addresses, scopeGen, snapshot, held, backup, handed>>

\* allocate_payment_address, second transaction: the address is derived
\* outside any lock, and exposed if nothing else exposed it meanwhile.
AllocateExpose(p) ==
    LET w == work[p]
        i == Search(w.direction, w.start, w.end - w.start)
    IN
    /\ w.step = "derive"
    /\ work' = [work EXCEPT ![p] = Idle]
    /\ IF i # -1 /\ channel.next[w.direction] >= w.end
             /\ CanExpose(w.direction, i, w.start, w.end)
       THEN /\ exposures' = exposures \cup {Exposure(w.direction, i, w.start, w.end)}
            /\ handed' = [handed EXCEPT ![<<w.direction, i>>] = @ + 1]
            /\ Watch(w.direction, i)
       ELSE UNCHANGED <<exposures, handed, addresses, scopeGen, snapshot>>
    /\ UNCHANGED <<channel, held, backup, burned>>

\* Cancelled or crashed between the two transactions, or while holding an
\* unstored reservation.
Abandon(p) ==
    /\ work[p] # Idle
    /\ work' = [work EXCEPT ![p] = Idle]
    /\ held' = [held EXCEPT ![p] = NoChannel]
    /\ UNCHANGED <<channel, exposures, addresses, scopeGen, snapshot, backup, handed,
                   burned>>

\* The row an imported index gets: the range it already had, or its own.
ImportedRow(i) ==
    IF Exposed("receive", i)
    THEN CHOOSE e \in exposures : e.direction = "receive" /\ e.index = i
    ELSE Exposure("receive", i, i, i + 1)

ImportedCursor(indexes) == Max({channel.next["receive"]} \cup {i + 1 : i \in indexes})

\* import_payment_receive_indexes: the indexes a channel scan found.
ImportIndexes(p, indexes) ==
    /\ work[p] = Idle /\ channel # NoChannel
    /\ channel.generation < MaxGeneration
    /\ CanAdvance(channel, "receive", ImportedCursor(indexes))
    /\ exposures' = exposures \cup {ImportedRow(i) : i \in indexes}
    /\ addresses' = addresses \cup indexes
    /\ channel' = [AdvanceCursor(channel, "receive", ImportedCursor(indexes))
                     EXCEPT !.generation = @ + 1]
    /\ ClearSnapshot
    /\ UNCHANGED <<held, work, backup, handed, burned>>

----------------------------------------------------------------------------
(* Backup rows.                                                            *)

\* capture_channels, with the scope's imported addresses.
CaptureChannels ==
    /\ channel # NoChannel
    /\ backup' = [channel |-> channel, exposures |-> exposures, addresses |-> addresses]
    /\ UNCHANGED <<channel, exposures, addresses, scopeGen, snapshot, held, work, handed,
                   burned>>

\* restore_channels keeps the higher of the two cursors.
MergedCursor(d) == Max({channel.next[d], backup.channel.next[d]})

RestoreChannels ==
    /\ backup.channel # NoChannel
    /\ channel.generation < MaxGeneration
    /\ \A e \in backup.exposures : InsertsExposure(e, TRUE)
    /\ channel' = IF channel = NoChannel THEN [backup.channel EXCEPT !.generation = 0]
                  ELSE [generation |-> channel.generation + 1,
                        next |-> [d \in Directions |-> MergedCursor(d)]]
    /\ exposures' = exposures \cup backup.exposures
    /\ addresses' = addresses \cup backup.addresses
    /\ ClearSnapshot
    /\ UNCHANGED <<held, work, backup, handed, burned>>

----------------------------------------------------------------------------
\* The first import of a channel, with fresh cursors (PaymentChannel::new).
Register(p) ==
    /\ work[p] = Idle /\ channel = NoChannel
    /\ channel' = [NoChannel EXCEPT !.generation = 0]
    /\ ClearSnapshot
    /\ UNCHANGED <<exposures, addresses, held, work, backup, handed, burned>>

ProcessNext(p) ==
    \/ Register(p)
    \/ ReadChannel(p)
    \/ \E d \in Directions, a \in Attempts : ReserveNext(p, d, a)
    \/ ImportChannel(p)
    \/ \E d \in Directions, a \in Attempts : AllocateCompact(p, d, a)
    \/ \E d \in Directions, a \in Attempts : AllocateBurn(p, d, a)
    \/ AllocateExpose(p)
    \/ Abandon(p)
    \/ \E s \in SUBSET Match["receive"] : s # {} /\ ImportIndexes(p, s)
    \/ RefreshStart(p)
    \/ RefreshCommit(p)

Next ==
    \/ \E p \in Procs : ProcessNext(p)
    \/ CaptureChannels
    \/ RestoreChannels

Spec == Init /\ [][Next]_vars

\* State constraint: named bounds on the two generations.
Bounded == channel.generation <= MaxGeneration /\ scopeGen <= MaxScope

----------------------------------------------------------------------------
Rows == [generation : -1..MaxGeneration, next : [Directions -> 0..End]]

\* Rows and process records hold values of their columns' types.
TypeOK ==
    /\ channel \in Rows
    /\ \A e \in exposures : e.start <= e.index /\ e.index < e.end /\ e.end <= End
    /\ addresses \subseteq Match["receive"]
    /\ held \in [Procs -> Rows]
    /\ \A p \in Procs : work[p].step \in {"idle", "reserved", "derive", "refresh"}

\* No payment address is handed out twice, whichever of the three ways of
\* obtaining one (stored reserve_next, two-step or compact allocation) the
\* processes mix, and whatever is imported or restored in between.
HandedOutOnce == \A k \in DOMAIN handed : handed[k] <= 1

\* Index ranges consumed by allocations never overlap: an allocation that was
\* cancelled between its two transactions loses its range for good.
RangesDisjoint ==
    \A a, b \in burned :
        a # b /\ a.direction = b.direction => a.end <= b.start \/ b.end <= a.start

\* The channel's cursor stays above every exposed range, which is what backup
\* validation (payment_proof) demands of a captured wallet.
CursorAboveExposures ==
    \A e \in exposures : e.end <= channel.next[e.direction]

\* Every receive exposure is a watched address, and a coin snapshot that is
\* present observed every watched address.
SnapshotWatchesAll ==
    /\ \A e \in exposures : e.direction = "receive" => e.index \in addresses
    /\ snapshot # Unobserved => snapshot = addresses

\* What the processes that share a channel may rely on.
PaymentsApart ==
    TypeOK /\ HandedOutOnce /\ RangesDisjoint /\ CursorAboveExposures /\ SnapshotWatchesAll

----------------------------------------------------------------------------
(* The inductive invariant.                                                *)

ExposureRow == [direction : Directions, index : Indexes, start : 0..End, end : 0..End]

Work ==
    {Idle}
    \cup [step : {"reserved"}, direction : Directions, index : Indexes \cup {-1}]
    \cup [step : {"derive"}, direction : Directions, start : 0..End, end : 0..End]
    \cup [step : {"refresh"}, generation : Nat, over : SUBSET Match["receive"]]

StateOK ==
    /\ channel \in Rows /\ exposures \subseteq ExposureRow
    /\ addresses \subseteq Match["receive"] /\ scopeGen \in Nat
    /\ held \in [Procs -> Rows] /\ work \in [Procs -> Work]
    /\ backup \in [channel : Rows, exposures : SUBSET ExposureRow,
                   addresses : SUBSET Match["receive"]]
    /\ handed \in [Directions \X Indexes -> Nat]
    /\ burned \subseteq [direction : Directions, start : 0..End, end : 0..End]

\* Exposed ranges are below the row's cursors, and what is received is watched.
RowsKept(row, rows, watched) ==
    \A e \in rows :
        /\ e.start <= e.index /\ e.index < e.end /\ e.end <= row.next[e.direction]
        /\ e.direction = "receive" => e.index \in watched

\* A view of the current generation is at least as far as the stored row, and
\* what was reserved in it lies in between.
HeldOK(p) ==
    /\ held[p].generation <= channel.generation
    /\ held[p].generation = channel.generation =>
         \A d \in Directions : channel.next[d] <= held[p].next[d]

ReservedOK(p) ==
    work[p].step = "reserved" /\ work[p].index # -1
        /\ held[p].generation = channel.generation =>
      /\ channel.next[work[p].direction] <= work[p].index
      /\ work[p].index < held[p].next[work[p].direction]

Deriving(p, d, i) ==
    /\ work[p].step = "derive" /\ work[p].direction = d
    /\ work[p].start <= i /\ i < work[p].end

\* A range that was burned is its process's own until it was derived.
DeriveOK(p) ==
    /\ work[p].step = "derive" => work[p].end <= channel.next[work[p].direction]
    /\ \A d \in Directions, i \in Indexes : Deriving(p, d, i) => handed[<<d, i>>] = 0

Apart(p, q) ==
    \A d \in Directions, i \in Indexes : ~ (Deriving(p, d, i) /\ Deriving(q, d, i))

HandedBelow ==
    \A d \in Directions, i \in Indexes :
        handed[<<d, i>>] <= 1 /\ (handed[<<d, i>>] = 1 => i < channel.next[d])

BurnedBelow == \A b \in burned : b.end <= channel.next[b.direction]

IndexesOK ==
    /\ HandedBelow /\ BurnedBelow /\ RangesDisjoint
    /\ \A p \in Procs : HeldOK(p) /\ ReservedOK(p) /\ DeriveOK(p)
    /\ \A p, q \in Procs : p # q => Apart(p, q)

\* Nothing was watched since a refresh of the current generation began.
RefreshOK(p) ==
    work[p].step = "refresh" =>
        /\ work[p].generation <= scopeGen
        /\ work[p].generation = scopeGen => work[p].over = addresses

WatchOK ==
    /\ \A p \in Procs : RefreshOK(p)
    /\ snapshot # Unobserved => snapshot = addresses

\* The stored rows have a generation.
Registered == channel.generation = -1 => channel = NoChannel

IInv ==
    /\ StateOK /\ Registered /\ IndexesOK /\ WatchOK
    /\ RowsKept(channel, exposures, addresses)
    /\ RowsKept(backup.channel, backup.exposures, backup.addresses)

----------------------------------------------------------------------------
(* The operators.                                                          *)

\* A set of naturals has a least element.
LEMMA MinIsLeast ==
    ASSUME NEW S \in SUBSET Nat, S # {}
    PROVE  Min(S) \in S /\ \A y \in S : Min(S) <= y
<1> DEFINE R == OpToRel(<, Nat)
<1>1. IsWellFoundedOn(R, Nat)
  BY NatLessThanWellFounded
<1>2. \A a, b \in Nat : a < b => <<a, b>> \in R
  BY DEF OpToRel
<1> HIDE DEF R
<1>3. PICK x \in S : \A y \in S : ~ (<<y, x>> \in R)
  BY <1>1, WFMin
<1>4. ASSUME NEW y \in S PROVE x <= y
  <2>1. x \in Nat /\ y \in Nat
    OBVIOUS
  <2>2. ~ (y < x)
    BY Zenon, <2>1, <1>2, <1>3
  <2> QED
    BY <2>1, <2>2
<1> QED
  BY Zenon, <1>4 DEF Min

\* And a bounded one has a greatest element.
LEMMA MaxIsGreatest ==
    ASSUME NEW n \in Nat, NEW S \in SUBSET (0..n), S # {}
    PROVE  Max(S) \in S /\ \A y \in S : y <= Max(S)
<1> DEFINE T == {n - x : x \in S}
<1>1. T \in SUBSET Nat /\ T # {}
  <2>1. PICK x \in S : TRUE
    OBVIOUS
  <2>2. n - x \in T
    BY <2>1
  <2>3. \A y \in S : n - y \in Nat
    OBVIOUS
  <2>4. T \subseteq Nat
    BY <2>3
  <2> HIDE DEF T
  <2> QED
    BY <2>2, <2>4
<1>2. PICK m \in T : \A y \in T : m <= y
  <2> HIDE DEF T
  <2> QED
    BY Zenon, <1>1, MinIsLeast
<1>3. PICK x \in S : m = n - x
  OBVIOUS
<1>4. \A y \in S : x >= y
  BY <1>2, <1>3
<1>5. Max(S) \in S /\ \A y \in S : Max(S) >= y
  BY Zenon, <1>4 DEF Max
<1> QED
  BY <1>5

\* What a search finds is in the zone and in the budget, and it leaves the cursor
\* above it.
LEMMA SearchFinds ==
    ASSUME ConstantsAssumption, NEW d \in Directions, NEW start \in 0..End, NEW attempts \in Int
    PROVE  \/ Search(d, start, attempts) = -1
           \/ /\ Search(d, start, attempts) \in Match[d] \cap Indexes
              /\ start <= Search(d, start, attempts)
              /\ Search(d, start, attempts) < start + attempts
<1> DEFINE found == {i \in Match[d] : start <= i /\ i < start + attempts}
<1>1. Match[d] \subseteq Indexes /\ found \in SUBSET Nat
  BY DEF ConstantsAssumption, Indexes
<1>2. Search(d, start, attempts) = IF found = {} THEN -1 ELSE Min(found)
  BY Zenon DEF Search
<1>3. found # {} => Min(found) \in found
  <2> HIDE DEF found
  <2> QED
    BY Zenon, <1>1, MinIsLeast
<1> QED
  BY <1>1, <1>2, <1>3

\* A search leaves the cursor above what it found and never past the end.
LEMMA SearchEnds ==
    ASSUME ConstantsAssumption, NEW d \in Directions, NEW start \in 0..End, NEW attempts \in Nat
    PROVE  /\ SearchEnd(d, start, attempts) \in start..End
           /\ Search(d, start, attempts) # -1 =>
                Search(d, start, attempts) < SearchEnd(d, start, attempts)
<1> DEFINE last == {start + attempts, End}
<1>1. last \in SUBSET Nat /\ last # {}
  BY DEF ConstantsAssumption
<1>2. Min(last) \in last /\ \A y \in last : Min(last) <= y
  <2> HIDE DEF last
  <2> QED
    BY Zenon, <1>1, MinIsLeast
<1>3. Min(last) \in start..End
  BY <1>2 DEF ConstantsAssumption
<1>4. SearchEnd(d, start, attempts) =
        IF Search(d, start, attempts) # -1 THEN Search(d, start, attempts) + 1 ELSE Min(last)
  BY Zenon DEF SearchEnd
<1> QED
  BY <1>3, <1>4, SearchFinds DEF ConstantsAssumption, Indexes

\* A generation in its bounds and cursors in the index space are a row.
LEMMA RowIs ==
    ASSUME NEW g \in -1..MaxGeneration, NEW n \in [Directions -> 0..End]
    PROVE  [generation |-> g, next |-> n] \in Rows
BY DEF Rows

\* advance_cursor moves one cursor; storing the row raises its generation.
Advanced(row, d, n) == [AdvanceCursor(row, d, n) EXCEPT !.generation = @ + 1]

\* One cursor and the generation change, the other cursor does not.
LEMMA RowAdvances ==
    ASSUME NEW row \in Rows, NEW d \in Directions, NEW n \in 0..End,
           row.generation + 1 <= MaxGeneration, ConstantsAssumption
    PROVE  /\ Advanced(row, d, n) \in Rows
           /\ Advanced(row, d, n).generation = row.generation + 1
           /\ Advanced(row, d, n).next[d] = n
           /\ \A x \in Directions \ {d} : Advanced(row, d, n).next[x] = row.next[x]
<1> DEFINE next == [row.next EXCEPT ![d] = n]
           new == Advanced(row, d, n)
<1>1. /\ row.generation \in -1..MaxGeneration /\ row.next \in [Directions -> 0..End]
      /\ row = [generation |-> row.generation, next |-> row.next]
  BY DEF Rows
<1>2. AdvanceCursor(row, d, n) = [generation |-> row.generation, next |-> next]
  BY <1>1 DEF AdvanceCursor
<1>3. /\ next \in [Directions -> 0..End] /\ next[d] = n
      /\ \A x \in Directions \ {d} : next[x] = row.next[x]
  BY <1>1
<1> HIDE DEF next
<1>4. new = [generation |-> row.generation + 1, next |-> next]
  BY <1>2 DEF Advanced
<1> HIDE DEF new
<1>5. row.generation + 1 \in -1..MaxGeneration
  BY <1>1 DEF ConstantsAssumption
<1>6. new.generation = row.generation + 1 /\ new.next = next
  BY <1>4
<1>7. new \in Rows
  BY Zenon, <1>3, <1>4, <1>5, RowIs
<1> QED
  BY <1>3, <1>6, <1>7 DEF new

\* The fields of what a process is in the middle of.
LEMMA WorkFields ==
    ASSUME NEW w \in Work
    PROVE  /\ w.step \in {"idle", "reserved", "derive", "refresh"}
           /\ w.step = "idle" <=> w = Idle
           /\ w.step = "reserved" => w.direction \in Directions /\ w.index \in Indexes \cup {-1}
           /\ w.step = "derive" => w.direction \in Directions /\ w.start \in 0..End /\ w.end \in 0..End
           /\ w.step = "refresh" => w.generation \in Nat /\ w.over \subseteq Match["receive"]
BY DEF Work, Idle

\* The fields of a row.
LEMMA RowFields ==
    ASSUME NEW row \in Rows, ConstantsAssumption
    PROVE  /\ row.generation \in Int /\ row.generation >= -1 /\ row.generation <= MaxGeneration
           /\ row.next \in [Directions -> 0..End]
           /\ \A d \in Directions : row.next[d] \in Nat /\ row.next[d] <= End
BY DEF Rows, ConstantsAssumption

----------------------------------------------------------------------------
(* What a step of the channel may do.                                      *)

\* The row is stored again with a new generation, and no cursor lower.
Advances ==
    \/ channel' = channel
    \/ /\ channel.generation < channel'.generation
       /\ \A d \in Directions : channel.next[d] <= channel'.next[d]

\* An index is handed out that is fresh, or in the range the process derives.
HandsOut(p) ==
    \/ handed' = handed
    \/ /\ p \in Procs => work'[p].step # "derive"
       /\ \E d \in Directions, i \in Indexes :
            /\ handed' = [handed EXCEPT ![<<d, i>>] = @ + 1]
            /\ i < channel'.next[d]
            /\ channel.next[d] <= i \/ (p \in Procs /\ Deriving(p, d, i))

\* At most one range is burned, and it begins at the cursor.
Burns ==
    /\ burned \subseteq burned'
    /\ \A b \in burned' \ burned :
         /\ channel.next[b.direction] <= b.start /\ b.end <= channel'.next[b.direction]
         /\ burned' = burned \cup {b}

\* Only process p moves, and it derives in what it just burned.
StepsAlone(p) ==
    \A q \in Procs :
        \/ held'[q] = held[q] /\ work'[q] = work[q]
        \/ /\ q = p /\ HeldOK(q)' /\ ReservedOK(q)'
           /\ work'[q].step = "derive" =>
                /\ channel.next[work'[q].direction] <= work'[q].start
                /\ work'[q].end <= channel'.next[work'[q].direction]

\* An index at or above the cursor was never handed out and nobody derives it.
LEMMA FreshAbove ==
    ASSUME ConstantsAssumption, StateOK, IndexesOK,
           NEW d \in Directions, NEW i \in Indexes, channel.next[d] <= i
    PROVE  handed[<<d, i>>] = 0 /\ \A q \in Procs : ~ Deriving(q, d, i)
<1>1. channel \in Rows /\ handed[<<d, i>>] \in Nat /\ i \in Nat
  BY DEF StateOK, Indexes, ConstantsAssumption
<1>2. channel.next[d] \in Nat
  BY Zenon, <1>1, RowFields
<1>3. handed[<<d, i>>] = 0
  <2>1. handed[<<d, i>>] <= 1 /\ (handed[<<d, i>>] = 1 => i < channel.next[d])
    BY Zenon DEF IndexesOK, HandedBelow
  <2> QED
    BY <1>1, <1>2, <2>1
<1>4. ASSUME NEW q \in Procs, Deriving(q, d, i) PROVE FALSE
  <2>1. DeriveOK(q) /\ work[q] \in Work
    BY Zenon DEF IndexesOK, StateOK
  <2>2. work[q].step = "derive" /\ work[q].direction = d /\ i < work[q].end
    BY Zenon, <1>4 DEF Deriving
  <2>3. work[q].end <= channel.next[d] /\ work[q].end \in 0..End
    BY Zenon, <2>1, <2>2, WorkFields DEF DeriveOK
  <2> QED
    BY <1>1, <1>2, <2>2, <2>3
<1> QED
  BY Zenon, <1>3, <1>4

\* The cursors and the generation never go back.
LEMMA AdvancesFields ==
    ASSUME ConstantsAssumption, StateOK, StateOK', Advances
    PROVE  /\ channel.generation \in Int /\ channel'.generation \in Int
           /\ channel.generation <= channel'.generation
           /\ channel.generation = channel'.generation => channel' = channel
           /\ \A d \in Directions :
                channel.next[d] \in Nat /\ channel'.next[d] \in Nat
                /\ channel.next[d] <= channel'.next[d]
<1>1. channel \in Rows /\ channel' \in Rows
  BY Zenon DEF StateOK
<1>2. /\ channel.generation \in Int /\ \A d \in Directions : channel.next[d] \in Nat
      /\ channel'.generation \in Int /\ \A d \in Directions : channel'.next[d] \in Nat
  BY Zenon, <1>1, RowFields
<1> QED
  BY <1>2 DEF Advances

\* What is handed out was not before, and lies below the cursor from then on.
LEMMA HandedStep ==
    ASSUME ConstantsAssumption, StateOK, StateOK', IndexesOK, Advances, NEW p, HandsOut(p)
    PROVE  HandedBelow'
<1> SUFFICES ASSUME NEW d \in Directions, NEW i \in Indexes
             PROVE  handed'[<<d, i>>] <= 1 /\ (handed'[<<d, i>>] = 1 => i < channel'.next[d])
  BY DEF HandedBelow
<1>1. /\ channel.next[d] \in Nat /\ channel'.next[d] \in Nat
      /\ channel.next[d] <= channel'.next[d] /\ i \in Nat
  BY AdvancesFields DEF Indexes, ConstantsAssumption
<1>2. handed[<<d, i>>] <= 1 /\ (handed[<<d, i>>] = 1 => i < channel.next[d])
  BY Zenon DEF IndexesOK, HandedBelow
<1>3. CASE handed'[<<d, i>>] = handed[<<d, i>>]
  BY <1>1, <1>2, <1>3
<1>4. CASE handed'[<<d, i>>] # handed[<<d, i>>]
  <2>1. PICK x \in Directions, j \in Indexes :
          /\ handed' = [handed EXCEPT ![<<x, j>>] = @ + 1]
          /\ j < channel'.next[x]
          /\ channel.next[x] <= j \/ (p \in Procs /\ Deriving(p, x, j))
    BY Zenon, <1>4 DEF HandsOut
  <2>2. handed \in [Directions \X Indexes -> Nat] /\ <<d, i>> \in Directions \X Indexes
    BY DEF StateOK
  <2>3. x = d /\ j = i
    BY <1>4, <2>1, <2>2
  <2>4. handed[<<d, i>>] = 0
    <3>1. CASE channel.next[d] <= i
      BY Zenon, <3>1, FreshAbove
    <3>2. CASE p \in Procs /\ Deriving(p, d, i)
      BY Zenon, <3>2 DEF IndexesOK, DeriveOK
    <3> QED
      BY Zenon, <2>1, <2>3, <3>1, <3>2
  <2>5. handed'[<<d, i>>] = 1
    BY <2>1, <2>2, <2>3, <2>4
  <2> QED
    BY <2>1, <2>3, <2>5
<1> QED
  BY Zenon, <1>3, <1>4

\* Burned ranges stay below the cursor, and a new one overlaps none of them.
LEMMA BurnedStep ==
    ASSUME ConstantsAssumption, StateOK, StateOK', IndexesOK, Advances, Burns
    PROVE  BurnedBelow' /\ RangesDisjoint'
<1>1. ASSUME NEW b \in burned'
      PROVE  b.direction \in Directions /\ b.start \in Nat /\ b.end \in Nat
  BY <1>1 DEF StateOK, ConstantsAssumption
<1>2. ASSUME NEW b \in burned PROVE b.end <= channel.next[b.direction] /\ b \in burned'
  BY Zenon DEF IndexesOK, BurnedBelow, Burns
<1>3. ASSUME NEW b \in burned' PROVE b.end <= channel'.next[b.direction]
  <2>1. CASE b \in burned
    BY <1>1, <1>2, <2>1, AdvancesFields
  <2>2. CASE b \notin burned
    BY Zenon, <2>2 DEF Burns
  <2> QED
    BY Zenon, <2>1, <2>2
<1>4. ASSUME NEW a \in burned', NEW b \in burned', a # b, a.direction = b.direction
      PROVE  a.end <= b.start \/ b.end <= a.start
  <2>1. CASE a \in burned /\ b \in burned
    BY Zenon, <1>4, <2>1 DEF IndexesOK, RangesDisjoint
  <2>2. CASE a \in burned /\ b \notin burned
    <3>1. a.end <= channel.next[b.direction] /\ channel.next[b.direction] <= b.start
      BY Zenon, <1>2, <1>4, <2>2 DEF Burns
    <3> QED
      BY <1>1, <3>1, AdvancesFields
  <2>3. CASE a \notin burned /\ b \in burned
    <3>1. b.end <= channel.next[a.direction] /\ channel.next[a.direction] <= a.start
      BY Zenon, <1>2, <1>4, <2>3 DEF Burns
    <3> QED
      BY <1>1, <3>1, AdvancesFields
  <2>4. CASE a \notin burned /\ b \notin burned
    <3>1. burned' = burned \cup {a}
      BY Zenon, <2>4 DEF Burns
    <3> QED
      BY <1>4, <2>4, <3>1
  <2> QED
    BY Zenon, <2>1, <2>2, <2>3, <2>4
<1> QED
  BY Zenon, <1>3, <1>4 DEF BurnedBelow, RangesDisjoint

\* What a process derives was its own before, or is fresh.
LEMMA DerivesFresh ==
    ASSUME ConstantsAssumption, StateOK, StateOK', IndexesOK, Advances,
           NEW p, StepsAlone(p), NEW q \in Procs,
           NEW d \in Directions, NEW i \in Indexes, Deriving(q, d, i)'
    PROVE  Deriving(q, d, i) \/ (q = p /\ channel.next[d] <= i)
<1>1. work'[q] \in Work
  BY DEF StateOK
<1>2. /\ work'[q].step = "derive" /\ work'[q].direction = d
      /\ work'[q].start <= i /\ i < work'[q].end
  BY Zenon DEF Deriving
<1>3. work'[q].start \in Nat /\ i \in Nat /\ channel.next[d] \in Nat
  BY <1>1, <1>2, WorkFields, AdvancesFields DEF ConstantsAssumption, Indexes
<1>4. CASE work'[q] = work[q]
  BY Zenon, <1>2, <1>4 DEF Deriving
<1>5. CASE q = p /\ channel.next[d] <= work'[q].start
  BY <1>2, <1>3, <1>5
<1> QED
  BY Zenon, <1>2, <1>4, <1>5 DEF StepsAlone

\* A range being derived stays its process's own.
LEMMA DeriveStep ==
    ASSUME ConstantsAssumption, StateOK, StateOK', IndexesOK, Advances,
           NEW p, HandsOut(p), StepsAlone(p), NEW q \in Procs
    PROVE  DeriveOK(q)'
<1>1. work'[q] \in Work
  BY DEF StateOK
<1>2. ASSUME work'[q].step = "derive"
      PROVE  work'[q].end <= channel'.next[work'[q].direction]
  <2>1. work'[q].direction \in Directions /\ work'[q].end \in Nat
    BY <1>1, <1>2, WorkFields DEF ConstantsAssumption
  <2>2. CASE work'[q] = work[q]
    <3>1. work'[q].end <= channel.next[work'[q].direction]
      BY Zenon, <1>2, <2>2 DEF IndexesOK, DeriveOK
    <3> QED
      BY <2>1, <3>1, AdvancesFields
  <2> QED
    BY Zenon, <1>2, <2>2 DEF StepsAlone
<1>3. ASSUME NEW d \in Directions, NEW i \in Indexes, Deriving(q, d, i)'
      PROVE  handed'[<<d, i>>] = 0
  <2>1. /\ work'[q].step = "derive" /\ work'[q].direction = d
        /\ work'[q].start <= i /\ i < work'[q].end
    BY Zenon, <1>3 DEF Deriving
  <2>4. Deriving(q, d, i) \/ (q = p /\ channel.next[d] <= i)
    BY Zenon, <1>3, DerivesFresh
  <2>5. handed[<<d, i>>] = 0
    BY Zenon, <2>4, FreshAbove DEF IndexesOK, DeriveOK
  <2>6. CASE handed'[<<d, i>>] = handed[<<d, i>>]
    BY Zenon, <2>5, <2>6
  <2>7. CASE handed'[<<d, i>>] # handed[<<d, i>>]
    <3>1. p \in Procs => work'[p].step # "derive"
      BY Zenon, <2>7 DEF HandsOut
    <3>2. PICK x \in Directions, j \in Indexes :
            /\ handed' = [handed EXCEPT ![<<x, j>>] = @ + 1]
            /\ channel.next[x] <= j \/ (p \in Procs /\ Deriving(p, x, j))
      BY Zenon, <2>7 DEF HandsOut
    <3>3. handed \in [Directions \X Indexes -> Nat] /\ <<d, i>> \in Directions \X Indexes
      BY DEF StateOK
    <3>4. x = d /\ j = i
      BY <2>7, <3>2, <3>3
    <3>5. q # p /\ Deriving(q, d, i)
      BY Zenon, <2>1, <2>4, <3>1
    <3>6. CASE channel.next[d] <= i
      BY Zenon, <3>5, <3>6, FreshAbove
    <3>7. CASE p \in Procs /\ Deriving(p, d, i)
      BY Zenon, <3>5, <3>7 DEF IndexesOK, Apart
    <3> QED
      BY Zenon, <3>2, <3>4, <3>6, <3>7
  <2> QED
    BY Zenon, <2>6, <2>7
<1> QED
  BY Zenon, <1>2, <1>3 DEF DeriveOK

\* No two processes derive one index.
LEMMA ApartStep ==
    ASSUME ConstantsAssumption, StateOK, StateOK', IndexesOK, Advances,
           NEW p, StepsAlone(p), NEW q \in Procs, NEW r \in Procs, q # r
    PROVE  Apart(q, r)'
<1> SUFFICES ASSUME NEW d \in Directions, NEW i \in Indexes,
                    Deriving(q, d, i)', Deriving(r, d, i)'
             PROVE  FALSE
  BY Zenon DEF Apart
<1>1. Deriving(q, d, i) \/ (q = p /\ channel.next[d] <= i)
  BY Zenon, DerivesFresh
<1>2. Deriving(r, d, i) \/ (r = p /\ channel.next[d] <= i)
  BY Zenon, DerivesFresh
<1>3. ~ (Deriving(q, d, i) /\ Deriving(r, d, i))
  BY Zenon DEF IndexesOK, Apart
<1>4. channel.next[d] <= i => ~ Deriving(q, d, i) /\ ~ Deriving(r, d, i)
  BY Zenon, FreshAbove
<1> QED
  BY Zenon, <1>1, <1>2, <1>3, <1>4

\* A view that was not touched stays behind the row or at it.
LEMMA HeldStep ==
    ASSUME ConstantsAssumption, StateOK, StateOK', IndexesOK, Advances,
           NEW q \in Procs, held'[q] = held[q]
    PROVE  /\ HeldOK(q)'
           /\ held'[q].generation = channel'.generation => channel' = channel
<1>1. held[q] \in Rows
  BY DEF StateOK
<1>2. HeldOK(q) /\ held[q].generation \in Int
  BY Zenon, <1>1, RowFields DEF IndexesOK
<1>3. held[q].generation <= channel.generation
  BY Zenon, <1>2 DEF HeldOK
<1>4. held[q].generation = channel'.generation => channel' = channel
  BY <1>2, <1>3, AdvancesFields
<1>5. held[q].generation <= channel'.generation
  BY <1>2, <1>3, AdvancesFields
<1>6. ASSUME held'[q].generation = channel'.generation
      PROVE  \A d \in Directions : channel'.next[d] <= held'[q].next[d]
  BY Zenon, <1>2, <1>4, <1>6 DEF HeldOK
<1> QED
  BY Zenon, <1>4, <1>5, <1>6 DEF HeldOK

\* What was reserved in a view of the current generation stays above the row.
LEMMA ReservedStep ==
    ASSUME ConstantsAssumption, StateOK, StateOK', IndexesOK, Advances,
           NEW q \in Procs, held'[q] = held[q], work'[q] = work[q]
    PROVE  ReservedOK(q)'
<1>1. held'[q].generation = channel'.generation => channel' = channel
  BY Zenon, HeldStep
<1>2. ReservedOK(q)
  BY Zenon DEF IndexesOK
<1> QED
  BY Zenon, <1>1, <1>2 DEF ReservedOK

\* A step of these kinds keeps the indexes apart.
LEMMA IndexesStep ==
    ASSUME ConstantsAssumption, StateOK, StateOK', IndexesOK, Advances, Burns,
           NEW p, HandsOut(p), StepsAlone(p)
    PROVE  IndexesOK'
<1>1. HandedBelow' /\ BurnedBelow' /\ RangesDisjoint'
  BY Zenon, HandedStep, BurnedStep
<1>2. ASSUME NEW q \in Procs PROVE HeldOK(q)' /\ ReservedOK(q)' /\ DeriveOK(q)'
  <2>1. CASE held'[q] = held[q] /\ work'[q] = work[q]
    BY Zenon, <2>1, HeldStep, ReservedStep, DeriveStep
  <2>2. CASE HeldOK(q)' /\ ReservedOK(q)'
    BY Zenon, <2>2, DeriveStep
  <2> QED
    BY Zenon, <2>1, <2>2 DEF StepsAlone
<1>3. \A q, r \in Procs : q # r => Apart(q, r)'
  BY Zenon, ApartStep
<1> QED
  BY Zenon, <1>1, <1>2, <1>3 DEF IndexesOK

\* Exposed rows stay covered while cursors rise and addresses are watched.
LEMMA RowsStep ==
    ASSUME ConstantsAssumption, NEW row \in Rows, NEW new \in Rows,
           NEW rows \in SUBSET ExposureRow, NEW more, NEW watched, NEW also,
           RowsKept(row, rows, watched), watched \subseteq also,
           \A d \in Directions : row.next[d] <= new.next[d],
           RowsKept(new, more, also)
    PROVE  RowsKept(new, rows \cup more, also)
<1> SUFFICES ASSUME NEW e \in rows
             PROVE  /\ e.start <= e.index /\ e.index < e.end /\ e.end <= new.next[e.direction]
                    /\ e.direction = "receive" => e.index \in also
  BY DEF RowsKept
<1>1. e.direction \in Directions /\ e.end \in Nat
  BY DEF ExposureRow, ConstantsAssumption
<1>2. /\ e.start <= e.index /\ e.index < e.end /\ e.end <= row.next[e.direction]
      /\ e.direction = "receive" => e.index \in watched
  BY Zenon DEF RowsKept
<1>3. row.next[e.direction] \in Nat /\ new.next[e.direction] \in Nat
  BY Zenon, <1>1, RowFields
<1> QED
  BY <1>1, <1>2, <1>3

\* The snapshot goes whenever an address is watched.
LEMMA WatchStep ==
    ASSUME StateOK, StateOK', WatchOK,
           \/ scopeGen' = scopeGen + 1 /\ snapshot' = Unobserved
           \/ scopeGen' = scopeGen + 1 /\ snapshot' = addresses /\ addresses' = addresses
           \/ UNCHANGED <<scopeGen, snapshot, addresses>>,
           \A q \in Procs :
               \/ work'[q] = work[q] \/ work'[q].step # "refresh"
               \/ work'[q].generation = scopeGen' /\ work'[q].over = addresses'
    PROVE  WatchOK'
<1>1. ASSUME NEW q \in Procs PROVE RefreshOK(q)'
  <2>1. work'[q] \in Work /\ scopeGen \in Nat /\ scopeGen' \in Nat /\ RefreshOK(q)
    BY Zenon DEF StateOK, WatchOK
  <2>2. CASE work'[q].step = "refresh"
    <3>1. work'[q].generation \in Nat
      BY Zenon, <2>1, <2>2, WorkFields
    <3>2. CASE work'[q] = work[q]
      BY <2>1, <2>2, <3>1, <3>2 DEF RefreshOK
    <3>3. CASE work'[q].generation = scopeGen' /\ work'[q].over = addresses'
      BY <2>1, <3>3 DEF RefreshOK
    <3> QED
      BY Zenon, <2>2, <3>2, <3>3
  <2> QED
    BY Zenon, <2>2 DEF RefreshOK
<1>2. snapshot' # Unobserved => snapshot' = addresses'
  BY DEF WatchOK
<1> QED
  BY Zenon, <1>1, <1>2 DEF WatchOK

----------------------------------------------------------------------------
(* The actions.                                                            *)

\* A step that keeps the backup rows.
LEMMA ChannelStep ==
    ASSUME ConstantsAssumption, IInv, StateOK', Advances, Burns,
           NEW p, HandsOut(p), StepsAlone(p),
           \/ scopeGen' = scopeGen + 1 /\ snapshot' = Unobserved
           \/ scopeGen' = scopeGen + 1 /\ snapshot' = addresses /\ addresses' = addresses
           \/ UNCHANGED <<scopeGen, snapshot, addresses>>,
           \A q \in Procs :
               \/ work'[q] = work[q] \/ work'[q].step # "refresh"
               \/ work'[q].generation = scopeGen' /\ work'[q].over = addresses',
           RowsKept(channel', exposures', addresses'), backup' = backup
    PROVE  IInv'
<1>1. StateOK /\ IndexesOK /\ WatchOK
  BY Zenon DEF IInv
<1>2. IndexesOK'
  BY Zenon, <1>1, IndexesStep
<1>3. WatchOK'
  BY Zenon, <1>1, WatchStep
<1>4. RowsKept(channel, exposures, addresses)'
  BY Zenon DEF RowsKept
<1>5. RowsKept(backup.channel, backup.exposures, backup.addresses)'
  BY Zenon DEF RowsKept, IInv
<1>6. Registered'
  <2>1. channel \in Rows
    BY DEF IInv, StateOK
  <2> QED
    BY <1>1, <2>1, RowFields, AdvancesFields DEF IInv, Registered, Advances
<1> QED
  BY Zenon, <1>2, <1>3, <1>4, <1>5, <1>6 DEF IInv

\* The rows already exposed stay covered by a row that advances.
LEMMA ExposedKept ==
    ASSUME ConstantsAssumption, IInv, StateOK', Advances, NEW more,
           exposures' = exposures \cup more, addresses \subseteq addresses',
           RowsKept(channel', more, addresses')
    PROVE  RowsKept(channel', exposures', addresses')
<1>1. /\ channel \in Rows /\ channel' \in Rows /\ exposures \in SUBSET ExposureRow
      /\ RowsKept(channel, exposures, addresses) /\ StateOK
  BY Zenon DEF IInv, StateOK
<1>2. \A d \in Directions : channel.next[d] <= channel'.next[d]
  BY Zenon, <1>1, AdvancesFields
<1>3. RowsKept(channel', exposures \cup more, addresses')
  BY Zenon, <1>1, <1>2, RowsStep
<1> QED
  BY Zenon, <1>3

\* Nothing exposed, nothing watched.
LEMMA NothingExposed ==
    ASSUME ConstantsAssumption, IInv, StateOK', Advances, UNCHANGED <<exposures, addresses>>
    PROVE  RowsKept(channel', exposures', addresses')
<1>1. exposures' = exposures \cup {} /\ addresses \subseteq addresses'
  OBVIOUS
<1>2. RowsKept(channel', {}, addresses')
  BY DEF RowsKept
<1> QED
  BY Zenon, <1>1, <1>2, ExposedKept

\* Idle is a state of a process.
LEMMA IdleWork == Idle \in Work /\ Idle.step = "idle"
BY DEF Idle, Work

\* Before registration, and just after it, the cursors are at zero.
LEMMA NoChannelRow ==
    ASSUME ConstantsAssumption
    PROVE  /\ NoChannel \in Rows /\ NoChannel.generation = -1
           /\ \A d \in Directions : NoChannel.next[d] = 0
           /\ [NoChannel EXCEPT !.generation = 0] \in Rows
           /\ [NoChannel EXCEPT !.generation = 0].generation = 0
           /\ \A d \in Directions : [NoChannel EXCEPT !.generation = 0].next[d] = 0
<1>1. -1 \in -1..MaxGeneration /\ 0 \in -1..MaxGeneration /\ 0 \in 0..End
  BY DEF ConstantsAssumption
<1> DEFINE zero == [d \in Directions |-> 0]
<1>2. zero \in [Directions -> 0..End] /\ \A d \in Directions : zero[d] = 0
  BY <1>1
<1>3. NoChannel = [generation |-> -1, next |-> zero]
  BY DEF NoChannel
<1> HIDE DEF zero
<1>4. [NoChannel EXCEPT !.generation = 0] = [generation |-> 0, next |-> zero]
  BY <1>3
<1>5. NoChannel \in Rows /\ [NoChannel EXCEPT !.generation = 0] \in Rows
  BY Zenon, <1>1, <1>2, <1>3, <1>4, RowIs
<1>6. NoChannel.generation = -1 /\ NoChannel.next = zero
  BY <1>3
<1>7. /\ [NoChannel EXCEPT !.generation = 0].generation = 0
      /\ [NoChannel EXCEPT !.generation = 0].next = zero
  BY <1>4
<1> QED
  BY Zenon, <1>2, <1>5, <1>6, <1>7

\* A process that goes idle, with the view it had or one of no generation.
LEMMA GoesIdle ==
    ASSUME ConstantsAssumption, IInv, StateOK', Advances, NEW p \in Procs,
           held'[p] \in {held[p], NoChannel}, work'[p] = Idle,
           \A q \in Procs \ {p} : held'[q] = held[q] /\ work'[q] = work[q]
    PROVE  StepsAlone(p) /\ \A q \in Procs : work'[q] = work[q] \/ work'[q].step # "refresh"
<1>1. work'[p].step = "idle"
  BY Zenon, IdleWork
<1>2. HeldOK(p)'
  <2>1. CASE held'[p] = held[p]
    BY Zenon, <2>1, HeldStep DEF IInv
  <2>2. CASE held'[p] = NoChannel
    <3>1. channel' \in Rows
      BY DEF StateOK
    <3>2. /\ channel'.generation \in Int /\ channel'.generation >= -1
          /\ \A d \in Directions : channel'.next[d] \in Nat
      BY Zenon, <3>1, RowFields
    <3>3. CASE channel'.generation = -1
      <4>1. channel \in Rows
        BY DEF IInv, StateOK
      <4>2. channel' = channel
        BY <3>3, <4>1, RowFields DEF Advances
      <4>3. channel' = NoChannel
        BY Zenon, <3>3, <4>2 DEF IInv, Registered
      <4> QED
        BY <2>2, <3>2, <3>3, <4>3, NoChannelRow DEF HeldOK
    <3>4. CASE channel'.generation # -1
      BY <2>2, <3>2, <3>4, NoChannelRow DEF HeldOK
    <3> QED
      BY Zenon, <3>3, <3>4
  <2> QED
    BY Zenon, <2>1, <2>2
<1>3. ReservedOK(p)' /\ work'[p].step # "derive" /\ work'[p].step # "refresh"
  BY <1>1 DEF ReservedOK
<1> QED
  BY Zenon, <1>2, <1>3 DEF StepsAlone


\* Registration starts both cursors at zero.
LEMMA RegisterStep ==
    ASSUME ConstantsAssumption, IInv, NEW p \in Procs, Register(p)
    PROVE  IInv'
<1>1. /\ channel = NoChannel /\ channel' = [NoChannel EXCEPT !.generation = 0]
      /\ scopeGen' = scopeGen + 1 /\ snapshot' = Unobserved
      /\ UNCHANGED <<exposures, addresses, held, work, backup, handed, burned>>
  BY DEF Register, ClearSnapshot
<1>2. StateOK'
  BY <1>1, NoChannelRow DEF IInv, StateOK
<1>3. Advances
  BY <1>1, NoChannelRow DEF Advances
<1>4. Burns /\ HandsOut(p) /\ StepsAlone(p)
  BY <1>1 DEF Burns, HandsOut, StepsAlone
<1>5. RowsKept(channel', exposures', addresses')
  BY Zenon, <1>1, <1>2, <1>3, NothingExposed
<1> QED
  BY Zenon, <1>1, <1>2, <1>3, <1>4, <1>5, ChannelStep

\* A view that was just read is the row.
LEMMA ReadChannelStep ==
    ASSUME ConstantsAssumption, IInv, NEW p \in Procs, ReadChannel(p)
    PROVE  IInv'
<1>1. /\ work[p] = Idle /\ held' = [held EXCEPT ![p] = channel]
      /\ UNCHANGED <<channel, exposures, addresses, scopeGen, snapshot, work, backup,
                     handed, burned>>
  BY DEF ReadChannel
<1>2. channel \in Rows /\ held \in [Procs -> Rows]
  BY DEF IInv, StateOK
<1>3. StateOK'
  BY <1>1, <1>2 DEF IInv, StateOK
<1>4. Advances /\ Burns /\ HandsOut(p)
  BY <1>1 DEF Advances, Burns, HandsOut
<1>5. held'[p] = channel /\ \A q \in Procs \ {p} : held'[q] = held[q]
  BY <1>1, <1>2
<1>6. HeldOK(p)'
  <2>1. channel' = channel /\ held'[p] = channel
    BY <1>1, <1>5
  <2> QED
    BY <1>2, <2>1, RowFields DEF HeldOK
<1>7. work'[p].step = "idle"
  BY Zenon, <1>1, IdleWork
<1>8. ReservedOK(p)'
  BY <1>7 DEF ReservedOK
<1>9. StepsAlone(p)
  BY <1>1, <1>5, <1>6, <1>7, <1>8 DEF StepsAlone
<1>10. RowsKept(channel', exposures', addresses')
  BY Zenon, <1>1, <1>3, <1>4, NothingExposed
<1> QED
  BY Zenon, <1>1, <1>3, <1>4, <1>9, <1>10, ChannelStep

\* A crash between two transactions gives nothing back.
LEMMA AbandonStep ==
    ASSUME ConstantsAssumption, IInv, NEW p \in Procs, Abandon(p)
    PROVE  IInv'
<1>1. /\ work' = [work EXCEPT ![p] = Idle] /\ held' = [held EXCEPT ![p] = NoChannel]
      /\ UNCHANGED <<channel, exposures, addresses, scopeGen, snapshot, backup, handed,
                     burned>>
  BY DEF Abandon
<1>2. held \in [Procs -> Rows] /\ work \in [Procs -> Work]
  BY DEF IInv, StateOK
<1>3. StateOK'
  BY <1>1, <1>2, NoChannelRow, IdleWork DEF IInv, StateOK
<1>4. Advances /\ Burns /\ HandsOut(p)
  BY <1>1 DEF Advances, Burns, HandsOut
<1>5. /\ held'[p] = NoChannel /\ work'[p] = Idle
      /\ \A q \in Procs \ {p} : held'[q] = held[q] /\ work'[q] = work[q]
  BY <1>1, <1>2
<1>6. StepsAlone(p) /\ \A q \in Procs : work'[q] = work[q] \/ work'[q].step # "refresh"
  BY <1>3, <1>4, <1>5, GoesIdle
<1>7. RowsKept(channel', exposures', addresses')
  BY Zenon, <1>1, <1>3, <1>4, NothingExposed
<1> QED
  BY Zenon, <1>1, <1>3, <1>4, <1>6, <1>7, ChannelStep

\* A refresh begins over what is watched.
LEMMA RefreshStartStep ==
    ASSUME ConstantsAssumption, IInv, NEW p \in Procs, RefreshStart(p)
    PROVE  IInv'
<1> DEFINE w == [step |-> "refresh", generation |-> scopeGen, over |-> addresses]
<1>1. /\ work' = [work EXCEPT ![p] = w]
      /\ UNCHANGED <<channel, exposures, addresses, scopeGen, snapshot, held, backup,
                     handed, burned>>
  BY DEF RefreshStart
<1>2. work \in [Procs -> Work] /\ scopeGen \in Nat /\ addresses \subseteq Match["receive"]
  BY DEF IInv, StateOK
<1>3. w \in Work /\ w.step = "refresh" /\ w.generation = scopeGen /\ w.over = addresses
  BY <1>2 DEF Work
<1> HIDE DEF w
<1>4. StateOK'
  BY <1>1, <1>2, <1>3 DEF IInv, StateOK
<1>5. Advances /\ Burns /\ HandsOut(p)
  BY <1>1 DEF Advances, Burns, HandsOut
<1>6. work'[p] = w /\ \A q \in Procs \ {p} : work'[q] = work[q]
  BY <1>1, <1>2
<1>7. HeldOK(p)'
  BY Zenon, <1>1, <1>4, <1>5, HeldStep DEF IInv
<1>8. ReservedOK(p)' /\ work'[p].step # "derive"
  BY <1>3, <1>6 DEF ReservedOK
<1>9. StepsAlone(p)
  BY Zenon, <1>1, <1>6, <1>7, <1>8 DEF StepsAlone
<1>10. \A q \in Procs :
           work'[q] = work[q] \/ (work'[q].generation = scopeGen' /\ work'[q].over = addresses')
  BY <1>1, <1>3, <1>6
<1>11. RowsKept(channel', exposures', addresses')
  BY Zenon, <1>1, <1>4, <1>5, NothingExposed
<1> QED
  BY Zenon, <1>1, <1>4, <1>5, <1>9, <1>10, <1>11, ChannelStep

\* A refresh commits if the scope's generation is the one it began with.
LEMMA RefreshCommitStep ==
    ASSUME ConstantsAssumption, IInv, NEW p \in Procs, RefreshCommit(p)
    PROVE  IInv'
<1>1. /\ work[p].step = "refresh" /\ work' = [work EXCEPT ![p] = Idle]
      /\ UNCHANGED <<channel, exposures, addresses, held, backup, handed, burned>>
  BY DEF RefreshCommit
<1>2. work \in [Procs -> Work] /\ scopeGen \in Nat
  BY DEF IInv, StateOK
<1>3. \/ scopeGen' = scopeGen + 1 /\ snapshot' = addresses /\ addresses' = addresses
      \/ UNCHANGED <<scopeGen, snapshot, addresses>>
  <2>1. CASE work[p].generation = scopeGen
    <3>1. work[p].over = addresses
      BY Zenon, <1>1, <2>1 DEF IInv, WatchOK, RefreshOK
    <3> QED
      BY <1>1, <2>1, <3>1 DEF RefreshCommit
  <2>2. CASE work[p].generation # scopeGen
    BY <1>1, <2>2 DEF RefreshCommit
  <2> QED
    BY Zenon, <2>1, <2>2
<1>4. StateOK'
  BY <1>1, <1>2, <1>3, IdleWork DEF IInv, StateOK
<1>5. Advances /\ Burns /\ HandsOut(p)
  BY <1>1 DEF Advances, Burns, HandsOut
<1>6. /\ held'[p] = held[p] /\ work'[p] = Idle
      /\ \A q \in Procs \ {p} : held'[q] = held[q] /\ work'[q] = work[q]
  BY <1>1, <1>2
<1>7. StepsAlone(p) /\ \A q \in Procs : work'[q] = work[q] \/ work'[q].step # "refresh"
  BY <1>4, <1>5, <1>6, GoesIdle
<1>8. RowsKept(channel', exposures', addresses')
  BY Zenon, <1>1, <1>4, <1>5, NothingExposed
<1> QED
  BY Zenon, <1>1, <1>3, <1>4, <1>5, <1>7, <1>8, ChannelStep

\* reserve_next moves only the process's own view.
LEMMA ReserveNextStep ==
    ASSUME ConstantsAssumption, IInv, NEW p \in Procs,
           NEW d \in Directions, NEW a \in Attempts, ReserveNext(p, d, a)
    PROVE  IInv'
<1> DEFINE start == held[p].next[d]
           end == SearchEnd(d, start, a)
           i == Search(d, start, a)
           view == AdvanceCursor(held[p], d, end)
           w == [step |-> "reserved", direction |-> d, index |-> i]
<1>1. /\ held' = [held EXCEPT ![p] = view] /\ work' = [work EXCEPT ![p] = w]
      /\ UNCHANGED <<channel, exposures, addresses, scopeGen, snapshot, backup, handed,
                     burned>>
  BY DEF ReserveNext
<1>2. held \in [Procs -> Rows] /\ work \in [Procs -> Work] /\ channel \in Rows /\ a \in Int /\ a \in Nat
  BY DEF IInv, StateOK, ConstantsAssumption
<1>3. held[p] \in Rows
  BY <1>2
<1>4. start \in 0..End
  BY Zenon, <1>3, RowFields
<1>5. end \in start..End /\ (i # -1 => i < end)
  <2> HIDE DEF start
  <2> QED
    BY Zenon, <1>2, <1>4, SearchEnds
<1>6. i = -1 \/ (i \in Indexes /\ start <= i)
  <2> HIDE DEF start
  <2> QED
    BY Zenon, <1>2, <1>4, SearchFinds
<1>7. w \in Work /\ w.step = "reserved" /\ w.direction = d /\ w.index = i
  <2> HIDE DEF i
  <2> QED
    BY <1>6 DEF Work
<1>8. /\ view \in Rows /\ view.generation = held[p].generation /\ view.next[d] = end
      /\ \A x \in Directions \ {d} : view.next[x] = held[p].next[x]
  <2>1. end \in 0..End
    BY <1>4, <1>5
  <2> HIDE DEF start, end
  <2> QED
    BY <1>3, <2>1 DEF AdvanceCursor, Rows
<1> HIDE DEF start, end, i, view, w
<1>9. StateOK'
  BY <1>1, <1>2, <1>7, <1>8 DEF IInv, StateOK
<1>10. Advances /\ Burns /\ HandsOut(p)
  BY <1>1 DEF Advances, Burns, HandsOut
<1>11. /\ held'[p] = view /\ work'[p] = w
       /\ \A q \in Procs \ {p} : held'[q] = held[q] /\ work'[q] = work[q]
  BY <1>1, <1>2
<1>12. /\ HeldOK(p) /\ channel.generation \in Int /\ held[p].generation \in Int
       /\ \A x \in Directions : channel.next[x] \in Nat /\ held[p].next[x] \in Nat
  BY Zenon, <1>2, <1>3, RowFields DEF IInv, IndexesOK
<1>13. start = held[p].next[d]
  BY DEF start
<1>14. /\ view.generation <= channel.generation
       /\ view.generation = channel.generation =>
            \A x \in Directions : channel.next[x] <= held[p].next[x]
  BY Zenon, <1>8, <1>12 DEF HeldOK
<1>15. HeldOK(p)'
  <2>1. ASSUME NEW x \in Directions, view.generation = channel.generation
        PROVE  channel.next[x] <= view.next[x]
    <3>1. CASE x = d
      BY <1>4, <1>5, <1>8, <1>12, <1>13, <1>14, <2>1, <3>1
    <3>2. CASE x # d
      BY <1>8, <1>14, <2>1, <3>2
    <3> QED
      BY Zenon, <3>1, <3>2
  <2> QED
    BY Zenon, <1>1, <1>11, <1>14, <2>1 DEF HeldOK
<1>16. ReservedOK(p)'
  <2>1. ASSUME view.generation = channel.generation, i # -1
        PROVE  channel.next[d] <= i /\ i < view.next[d]
    BY <1>4, <1>5, <1>6, <1>8, <1>12, <1>13, <1>14, <2>1 DEF Indexes, ConstantsAssumption
  <2> QED
    BY Zenon, <1>1, <1>7, <1>11, <2>1 DEF ReservedOK
<1>17. work'[p].step # "derive" /\ work'[p].step # "refresh"
  BY <1>7, <1>11
<1>18. StepsAlone(p) /\ \A q \in Procs : work'[q] = work[q] \/ work'[q].step # "refresh"
  BY Zenon, <1>11, <1>15, <1>16, <1>17 DEF StepsAlone
<1>19. RowsKept(channel', exposures', addresses')
  BY Zenon, <1>1, <1>9, <1>10, NothingExposed
<1> QED
  BY Zenon, <1>1, <1>9, <1>10, <1>18, <1>19, ChannelStep

\* A stored reservation: the fence makes the view the row's successor, so that
\* what was reserved in it is fresh.
LEMMA ImportChannelStep ==
    ASSUME ConstantsAssumption, IInv, NEW p \in Procs, ImportChannel(p)
    PROVE  IInv'
<1>1. /\ work[p] = Idle \/ work[p].step = "reserved"
      /\ work' = [work EXCEPT ![p] = Idle] /\ channel.generation < MaxGeneration
      /\ UNCHANGED <<exposures, addresses, backup, burned>>
  BY DEF ImportChannel
<1>2. /\ held \in [Procs -> Rows] /\ work \in [Procs -> Work] /\ channel \in Rows
      /\ handed \in [Directions \X Indexes -> Nat] /\ scopeGen \in Nat
  BY DEF IInv, StateOK
<1>3. held[p] \in Rows /\ work[p] \in Work
  BY <1>2
<1>4. work'[p] = Idle /\ \A q \in Procs \ {p} : work'[q] = work[q]
  BY <1>1, <1>2
<1>5. CASE ~ ImportFence(held[p].next, held[p].generation)
  <2>1. held' = [held EXCEPT ![p] = NoChannel] /\ UNCHANGED <<channel, scopeGen, snapshot, handed>>
    BY Zenon, <1>5 DEF ImportChannel
  <2>2. StateOK'
    BY <1>1, <1>2, <2>1, NoChannelRow, IdleWork DEF IInv, StateOK
  <2>3. Advances /\ Burns /\ HandsOut(p)
    BY <1>1, <2>1 DEF Advances, Burns, HandsOut
  <2>4. /\ held'[p] = NoChannel /\ work'[p] = Idle
        /\ \A q \in Procs \ {p} : held'[q] = held[q] /\ work'[q] = work[q]
    BY <1>2, <1>4, <2>1
  <2>5. StepsAlone(p) /\ \A q \in Procs : work'[q] = work[q] \/ work'[q].step # "refresh"
    BY <2>2, <2>3, <2>4, GoesIdle
  <2>6. RowsKept(channel', exposures', addresses')
    BY Zenon, <1>1, <2>2, <2>3, NothingExposed
  <2> QED
    BY Zenon, <1>1, <2>1, <2>2, <2>3, <2>5, <2>6, ChannelStep
<1>6. CASE ImportFence(held[p].next, held[p].generation)
  <2>1. /\ channel' = [held[p] EXCEPT !.generation = channel.generation + 1]
        /\ held' = [held EXCEPT ![p] = channel']
        /\ scopeGen' = scopeGen + 1 /\ snapshot' = Unobserved
    BY Zenon, <1>6 DEF ImportChannel, ClearSnapshot
  <2>2. handed' = IF work[p] # Idle /\ work[p].index # -1
                  THEN [handed EXCEPT ![<<work[p].direction, work[p].index>>] = @ + 1]
                  ELSE handed
    BY Zenon, <1>6 DEF ImportChannel
  <2>3. channel' \in Rows /\ channel'.generation = channel.generation + 1
        /\ channel'.next = held[p].next
    <3>1. channel.generation + 1 \in -1..MaxGeneration
      BY <1>1, <1>2, RowFields DEF ConstantsAssumption
    <3>2. held[p] = [generation |-> held[p].generation, next |-> held[p].next]
          /\ held[p].next \in [Directions -> 0..End]
      BY <1>3 DEF Rows
    <3>3. channel' = [generation |-> channel.generation + 1, next |-> held[p].next]
      BY <2>1, <3>2
    <3>4. channel' \in Rows
      BY Zenon, <3>1, <3>2, <3>3, RowIs
    <3> QED
      BY <3>3, <3>4
  <2>4. held[p].generation = channel.generation
    BY Zenon, <1>6 DEF ImportFence
  <2>5. HeldOK(p) /\ ReservedOK(p)
    BY Zenon DEF IInv, IndexesOK
  <2>6. \A x \in Directions : channel.next[x] <= channel'.next[x]
    BY Zenon, <2>3, <2>4, <2>5 DEF HeldOK
  <2>7. Advances
    BY <1>2, <2>3, <2>6, RowFields DEF Advances
  <2>8. work[p] # Idle => /\ work[p].step = "reserved" /\ work[p].direction \in Directions
                          /\ work[p].index \in Indexes \cup {-1}
    BY Zenon, <1>1, <1>3, WorkFields
  <2>9. handed' \in [Directions \X Indexes -> Nat]
    BY <1>2, <2>2, <2>8
  <2>10. StateOK'
    BY <1>1, <1>2, <2>1, <2>3, <2>9, IdleWork DEF IInv, StateOK
  <2>11. work'[p].step = "idle"
    BY Zenon, <1>4, IdleWork
  <2>12. HandsOut(p)
    <3>1. CASE work[p] # Idle /\ work[p].index # -1
      <4>1. /\ work[p].direction \in Directions /\ work[p].index \in Indexes
            /\ handed' = [handed EXCEPT ![<<work[p].direction, work[p].index>>] = @ + 1]
        BY <2>2, <2>8, <3>1
      <4>2. channel.next[work[p].direction] <= work[p].index
            /\ work[p].index < channel'.next[work[p].direction]
        BY Zenon, <2>3, <2>4, <2>5, <2>8, <3>1 DEF ReservedOK
      <4>3. work'[p].step # "derive"
        BY <2>11
      <4> QED
        BY Zenon, <4>1, <4>2, <4>3 DEF HandsOut
    <3>2. CASE ~ (work[p] # Idle /\ work[p].index # -1)
      BY Zenon, <2>2, <3>2 DEF HandsOut
    <3> QED
      BY Zenon, <3>1, <3>2
  <2>13. Burns
    BY <1>1 DEF Burns
  <2>14. held'[p] = channel' /\ \A q \in Procs \ {p} : held'[q] = held[q]
    BY <1>2, <2>1
  <2>15. HeldOK(p)'
    BY <2>3, <2>14, RowFields DEF HeldOK
  <2>16. ReservedOK(p)' /\ work'[p].step # "derive" /\ work'[p].step # "refresh"
    BY <2>11 DEF ReservedOK
  <2>17. StepsAlone(p) /\ \A q \in Procs : work'[q] = work[q] \/ work'[q].step # "refresh"
    BY Zenon, <1>4, <2>14, <2>15, <2>16 DEF StepsAlone
  <2>18. RowsKept(channel', exposures', addresses')
    BY Zenon, <1>1, <2>7, <2>10, NothingExposed
  <2> QED
    BY Zenon, <1>1, <2>1, <2>7, <2>10, <2>12, <2>13, <2>17, <2>18, ChannelStep
<1> QED
  BY Zenon, <1>5, <1>6

\* The fields of an exposure row.
LEMMA ExposureFields ==
    ASSUME NEW d, NEW i, NEW start, NEW end
    PROVE  /\ Exposure(d, i, start, end).direction = d /\ Exposure(d, i, start, end).index = i
           /\ Exposure(d, i, start, end).start = start /\ Exposure(d, i, start, end).end = end
           /\ d \in Directions /\ i \in Indexes /\ start \in 0..End /\ end \in 0..End =>
                Exposure(d, i, start, end) \in ExposureRow
BY DEF Exposure, ExposureRow

\* What is exposed is in its range, below the cursor and watched.
LEMMA ExposedRow ==
    ASSUME NEW d, NEW i, NEW start, NEW end, NEW row, NEW watched,
           start <= i, i < end, end <= row.next[d], d = "receive" => i \in watched
    PROVE  RowsKept(row, {Exposure(d, i, start, end)}, watched)
<1> SUFFICES ASSUME NEW e, e = Exposure(d, i, start, end)
             PROVE  /\ e.start <= e.index /\ e.index < e.end /\ e.end <= row.next[e.direction]
                    /\ e.direction = "receive" => e.index \in watched
  BY Zenon DEF RowsKept
<1>1. e.direction = d /\ e.index = i /\ e.start = start /\ e.end = end
  BY DEF Exposure
<1> QED
  BY Zenon, <1>1

\* Watching an address clears the snapshot; a sent-to address is not watched.
LEMMA WatchesAddress ==
    ASSUME ConstantsAssumption, IInv, NEW d \in Directions, NEW i \in Match[d], Watch(d, i)
    PROVE  /\ addresses' \subseteq Match["receive"] /\ addresses \subseteq addresses'
           /\ scopeGen' \in Nat /\ (d = "receive" => i \in addresses')
           /\ \/ scopeGen' = scopeGen + 1 /\ snapshot' = Unobserved
              \/ UNCHANGED <<scopeGen, snapshot, addresses>>
<1>1. addresses \subseteq Match["receive"] /\ scopeGen \in Nat
  BY DEF IInv, StateOK
<1> QED
  BY <1>1 DEF Watch, ClearSnapshot

\* The first transaction of an allocation burns a fresh range.
LEMMA AllocateBurnStep ==
    ASSUME ConstantsAssumption, IInv, NEW p \in Procs,
           NEW d \in Directions, NEW a \in Attempts, AllocateBurn(p, d, a)
    PROVE  IInv'
<1> DEFINE start == channel.next[d]
           range == [direction |-> d, start |-> start, end |-> start + a]
           w == [step |-> "derive", direction |-> d, start |-> start, end |-> start + a]
<1>1. /\ start + a <= End /\ channel.generation < MaxGeneration
      /\ channel' = [AdvanceCursor(channel, d, start + a) EXCEPT !.generation = @ + 1]
      /\ burned' = burned \cup {range} /\ work' = [work EXCEPT ![p] = w]
      /\ UNCHANGED <<exposures, addresses, scopeGen, snapshot, held, backup, handed>>
  BY DEF AllocateBurn, BurnEnd
<1>2. work \in [Procs -> Work] /\ channel \in Rows /\ a \in Nat
  BY DEF IInv, StateOK, ConstantsAssumption
<1>3. /\ start \in Nat /\ channel.generation \in Int
      /\ \A x \in Directions : channel.next[x] \in Nat
  BY Zenon, <1>2, RowFields
<1>4. start \in 0..End /\ start + a \in 0..End /\ channel.generation + 1 <= MaxGeneration
  BY <1>1, <1>2, <1>3 DEF ConstantsAssumption
<1>5. /\ w \in Work /\ w.step = "derive" /\ w.direction = d
      /\ w.start = start /\ w.end = start + a
  <2> HIDE DEF start
  <2> QED
    BY <1>4 DEF Work
<1>6. /\ range \in [direction : Directions, start : 0..End, end : 0..End]
      /\ range.direction = d /\ range.start = start /\ range.end = start + a
  <2> HIDE DEF start
  <2> QED
    BY <1>4
<1> HIDE DEF w, range
<1>7. /\ channel' \in Rows /\ channel'.generation = channel.generation + 1
      /\ channel'.next[d] = start + a
      /\ \A x \in Directions \ {d} : channel'.next[x] = channel.next[x]
  <2>1. channel' = Advanced(channel, d, start + a)
    BY <1>1 DEF Advanced
  <2> HIDE DEF start
  <2> QED
    BY <1>2, <1>4, <2>1, RowAdvances
<1>8. StateOK'
  BY <1>1, <1>2, <1>5, <1>6, <1>7 DEF IInv, StateOK
<1>9. Advances
  BY <1>2, <1>3, <1>7 DEF Advances
<1>10. HandsOut(p)
  BY <1>1 DEF HandsOut
<1>11. start <= start /\ start + a <= start + a
  BY <1>2, <1>3
<1>12. Burns
  <2>1. ASSUME NEW b \in burned' \ burned PROVE b = range
    BY <1>1
  <2> QED
    BY Zenon, <1>1, <1>6, <1>7, <1>11, <2>1 DEF Burns
<1>13. work'[p] = w /\ \A q \in Procs \ {p} : work'[q] = work[q]
  BY <1>1, <1>2
<1>14. HeldOK(p)'
  BY Zenon, <1>1, <1>8, <1>9, HeldStep DEF IInv
<1>15. ReservedOK(p)' /\ work'[p].step # "refresh"
  BY <1>5, <1>13 DEF ReservedOK
<1>16. StepsAlone(p) /\ \A q \in Procs : work'[q] = work[q] \/ work'[q].step # "refresh"
  <2>1. /\ channel.next[work'[p].direction] <= work'[p].start
        /\ work'[p].end <= channel'.next[work'[p].direction]
    BY <1>5, <1>7, <1>11, <1>13
  <2>2. \A q \in Procs : held'[q] = held[q]
    BY Zenon, <1>1
  <2> QED
    BY Zenon, <1>13, <1>14, <1>15, <2>1, <2>2 DEF StepsAlone
<1>17. RowsKept(channel', exposures', addresses')
  BY Zenon, <1>1, <1>8, <1>9, NothingExposed
<1> QED
  BY Zenon, <1>1, <1>8, <1>9, <1>10, <1>12, <1>16, <1>17, ChannelStep

\* The second exposes an index of that range.
LEMMA AllocateExposeStep ==
    ASSUME ConstantsAssumption, IInv, NEW p \in Procs, AllocateExpose(p)
    PROVE  IInv'
<1> DEFINE d == work[p].direction
           start == work[p].start
           end == work[p].end
           i == Search(d, start, end - start)
           takes == i # -1 /\ channel.next[d] >= end /\ CanExpose(d, i, start, end)
<1>1. /\ work[p].step = "derive" /\ work' = [work EXCEPT ![p] = Idle]
      /\ UNCHANGED <<channel, held, backup, burned>>
  BY DEF AllocateExpose
<1>2. /\ takes => /\ exposures' = exposures \cup {Exposure(d, i, start, end)}
                  /\ handed' = [handed EXCEPT ![<<d, i>>] = @ + 1]
                  /\ Watch(d, i)
      /\ ~ takes => UNCHANGED <<exposures, handed, addresses, scopeGen, snapshot>>
  BY Zenon DEF AllocateExpose
<1>3. /\ held \in [Procs -> Rows] /\ work \in [Procs -> Work] /\ channel \in Rows
      /\ handed \in [Directions \X Indexes -> Nat] /\ exposures \subseteq ExposureRow
  BY DEF IInv, StateOK
<1>4. work[p] \in Work
  BY <1>3
<1>5. d \in Directions /\ start \in 0..End /\ end \in 0..End
  BY Zenon, <1>1, <1>4, WorkFields
<1>6. /\ held'[p] = held[p] /\ work'[p] = Idle /\ work'[p].step = "idle"
      /\ \A q \in Procs \ {p} : held'[q] = held[q] /\ work'[q] = work[q]
  BY <1>1, <1>3, IdleWork
<1>7. Advances /\ Burns
  BY <1>1 DEF Advances, Burns
<1>8. end - start \in Int
  BY <1>5 DEF ConstantsAssumption
<1>9. i = -1 \/ (i \in Match[d] /\ i \in Indexes /\ start <= i /\ i < start + (end - start))
  <2> HIDE DEF d, start, end
  <2> QED
    BY Zenon, <1>5, <1>8, SearchFinds
<1>10. channel.next[d] \in Nat
  BY Zenon, <1>3, <1>5, RowFields
<1>11. Deriving(p, d, i) <=> (start <= i /\ i < end)
  BY Zenon, <1>1 DEF Deriving
<1> HIDE DEF d, start, end, i
<1>12. CASE ~ takes
  <2>1. UNCHANGED <<exposures, handed, addresses, scopeGen, snapshot>>
    BY Zenon, <1>2, <1>12
  <2>2. StateOK'
    BY <1>1, <1>3, <2>1, IdleWork DEF IInv, StateOK
  <2>3. HandsOut(p)
    BY <2>1 DEF HandsOut
  <2>4. StepsAlone(p) /\ \A q \in Procs : work'[q] = work[q] \/ work'[q].step # "refresh"
    BY <1>6, <1>7, <2>2, GoesIdle
  <2>5. RowsKept(channel', exposures', addresses')
    BY Zenon, <1>7, <2>1, <2>2, NothingExposed
  <2> QED
    BY Zenon, <1>1, <1>7, <2>1, <2>2, <2>3, <2>4, <2>5, ChannelStep
<1>13. CASE takes
  <2>1. /\ exposures' = exposures \cup {Exposure(d, i, start, end)}
        /\ handed' = [handed EXCEPT ![<<d, i>>] = @ + 1]
        /\ Watch(d, i)
    BY Zenon, <1>2, <1>13
  <2>2. i \in Match[d] /\ i \in Indexes /\ start <= i /\ i < end /\ end <= channel.next[d]
    BY <1>5, <1>9, <1>10, <1>13 DEF ConstantsAssumption, Indexes
  <2>3. /\ addresses' \subseteq Match["receive"] /\ addresses \subseteq addresses'
        /\ scopeGen' \in Nat /\ (d = "receive" => i \in addresses')
        /\ \/ scopeGen' = scopeGen + 1 /\ snapshot' = Unobserved
           \/ UNCHANGED <<scopeGen, snapshot, addresses>>
    BY Zenon, <1>5, <2>1, <2>2, WatchesAddress
  <2>4. Exposure(d, i, start, end) \in ExposureRow
    BY Zenon, <1>5, <2>2, ExposureFields
  <2>5. handed' \in [Directions \X Indexes -> Nat]
    BY <1>3, <1>5, <2>1, <2>2
  <2>6. StateOK'
    BY <1>1, <1>3, <2>1, <2>3, <2>4, <2>5, IdleWork DEF IInv, StateOK
  <2>7. HandsOut(p)
    <3>1. work'[p].step # "derive"
      BY <1>6
    <3>2. i < channel'.next[d]
      BY <1>1, <1>5, <1>10, <2>2 DEF Indexes, ConstantsAssumption
    <3> QED
      BY Zenon, <1>5, <1>11, <2>1, <2>2, <3>1, <3>2 DEF HandsOut
  <2>8. StepsAlone(p) /\ \A q \in Procs : work'[q] = work[q] \/ work'[q].step # "refresh"
    BY <1>6, <1>7, <2>6, GoesIdle
  <2>9. RowsKept(channel', {Exposure(d, i, start, end)}, addresses')
    BY Zenon, <1>1, <2>2, <2>3, ExposedRow
  <2>10. RowsKept(channel', exposures', addresses')
    BY Zenon, <1>7, <2>1, <2>3, <2>6, <2>9, ExposedKept
  <2> QED
    BY Zenon, <1>1, <1>7, <2>3, <2>6, <2>7, <2>8, <2>10, ChannelStep
<1> QED
  BY Zenon, <1>12, <1>13

\* One transaction: the index found is at or above the cursor.
LEMMA AllocateCompactStep ==
    ASSUME ConstantsAssumption, IInv, NEW p \in Procs,
           NEW d \in Directions, NEW a \in Attempts, AllocateCompact(p, d, a)
    PROVE  IInv'
<1> DEFINE start == channel.next[d]
           i == Search(d, start, a)
           range == [direction |-> d, start |-> start, end |-> i + 1]
<1>1. /\ work[p] = Idle /\ channel.generation < MaxGeneration /\ i # -1
      /\ channel' = [AdvanceCursor(channel, d, i + 1) EXCEPT !.generation = @ + 1]
      /\ exposures' = exposures \cup {Exposure(d, i, start, i + 1)}
      /\ burned' = burned \cup {range}
      /\ handed' = [handed EXCEPT ![<<d, i>>] = @ + 1]
      /\ Watch(d, i) /\ UNCHANGED <<held, work, backup>>
  BY DEF AllocateCompact
<1>2. /\ channel \in Rows /\ a \in Int /\ handed \in [Directions \X Indexes -> Nat]
      /\ exposures \subseteq ExposureRow
  BY DEF IInv, StateOK, ConstantsAssumption
<1>3. /\ start \in Nat /\ start <= End /\ channel.generation \in Int
      /\ \A x \in Directions : channel.next[x] \in Nat
  BY Zenon, <1>2, RowFields
<1>4. start \in 0..End /\ channel.generation + 1 <= MaxGeneration
  BY <1>1, <1>2, <1>3 DEF ConstantsAssumption
<1>5. i \in Match[d] /\ i \in Indexes /\ start <= i
  <2> HIDE DEF start
  <2> QED
    BY Zenon, <1>1, <1>2, <1>4, SearchFinds
<1>6. i \in Nat /\ i + 1 \in 0..End /\ i < i + 1 /\ start <= i + 1 /\ i + 1 <= i + 1
  BY <1>3, <1>5 DEF Indexes, ConstantsAssumption
<1>7. /\ range \in [direction : Directions, start : 0..End, end : 0..End]
      /\ range.direction = d /\ range.start = start /\ range.end = i + 1
  <2> HIDE DEF start, i
  <2> QED
    BY <1>4, <1>6
<1> HIDE DEF range, i
<1>8. /\ channel' \in Rows /\ channel'.generation = channel.generation + 1
      /\ channel'.next[d] = i + 1
      /\ \A x \in Directions \ {d} : channel'.next[x] = channel.next[x]
  <2>1. channel' = Advanced(channel, d, i + 1)
    BY <1>1 DEF Advanced
  <2> QED
    BY <1>2, <1>4, <1>6, <2>1, RowAdvances
<1>9. /\ addresses' \subseteq Match["receive"] /\ addresses \subseteq addresses'
      /\ scopeGen' \in Nat /\ (d = "receive" => i \in addresses')
      /\ \/ scopeGen' = scopeGen + 1 /\ snapshot' = Unobserved
         \/ UNCHANGED <<scopeGen, snapshot, addresses>>
  BY Zenon, <1>1, <1>5, WatchesAddress
<1>10. Exposure(d, i, start, i + 1) \in ExposureRow
  BY Zenon, <1>4, <1>5, <1>6, ExposureFields
<1>11. handed' \in [Directions \X Indexes -> Nat]
  BY <1>1, <1>2, <1>5
<1>12. StateOK'
  BY <1>1, <1>2, <1>7, <1>8, <1>9, <1>10, <1>11 DEF IInv, StateOK
<1>13. Advances
  BY <1>2, <1>3, <1>6, <1>8 DEF Advances
<1>14. HandsOut(p)
  <2>1. work'[p].step # "derive"
    BY <1>1, IdleWork
  <2> QED
    BY Zenon, <1>1, <1>5, <1>6, <1>8, <2>1 DEF HandsOut
<1>15. Burns
  <2>1. ASSUME NEW b \in burned' \ burned PROVE b = range
    BY <1>1
  <2>2. start <= start
    BY <1>3
  <2> QED
    BY Zenon, <1>1, <1>6, <1>7, <1>8, <2>1, <2>2 DEF Burns
<1>16. StepsAlone(p)
  BY Zenon, <1>1 DEF StepsAlone
<1>17. RowsKept(channel', {Exposure(d, i, start, i + 1)}, addresses')
  BY Zenon, <1>5, <1>6, <1>8, <1>9, ExposedRow
<1>18. RowsKept(channel', exposures', addresses')
  BY Zenon, <1>1, <1>9, <1>12, <1>13, <1>17, ExposedKept
<1> QED
  BY Zenon, <1>1, <1>9, <1>12, <1>13, <1>14, <1>15, <1>16, <1>18, ChannelStep

\* The rows of imported indexes are the ones they had, or their own.
LEMMA ImportedRows ==
    ASSUME ConstantsAssumption, IInv, NEW s \in SUBSET Match["receive"]
    PROVE  \A i \in s : \/ ImportedRow(i) \in exposures
                        \/ ImportedRow(i) = Exposure("receive", i, i, i + 1)
<1> SUFFICES ASSUME NEW i \in s
             PROVE  \/ ImportedRow(i) \in exposures
                    \/ ImportedRow(i) = Exposure("receive", i, i, i + 1)
  OBVIOUS
<1>1. CASE Exposed("receive", i)
  <2>1. PICK e \in exposures : e.direction = "receive" /\ e.index = i
    BY Zenon, <1>1 DEF Exposed
  <2> QED
    BY Zenon, <1>1, <2>1 DEF ImportedRow
<1>2. CASE ~ Exposed("receive", i)
  BY Zenon, <1>2 DEF ImportedRow
<1> QED
  BY Zenon, <1>1, <1>2

\* import_payment_receive_indexes moves the receive cursor past all of them.
LEMMA ImportIndexesStep ==
    ASSUME ConstantsAssumption, IInv, NEW p \in Procs,
           NEW s \in SUBSET Match["receive"], ImportIndexes(p, s)
    PROVE  IInv'
<1> DEFINE cursor == ImportedCursor(s)
           more == {ImportedRow(i) : i \in s}
           own == {Exposure("receive", i, i, i + 1) : i \in s}
           all == {channel.next["receive"]} \cup {i + 1 : i \in s}
<1>1. /\ channel.generation < MaxGeneration
      /\ exposures' = exposures \cup more /\ addresses' = addresses \cup s
      /\ channel' = Advanced(channel, "receive", cursor)
      /\ scopeGen' = scopeGen + 1 /\ snapshot' = Unobserved
      /\ UNCHANGED <<held, work, backup, handed, burned>>
  BY DEF ImportIndexes, ClearSnapshot, Advanced
<1>2. /\ channel \in Rows /\ exposures \subseteq ExposureRow
      /\ addresses \subseteq Match["receive"] /\ scopeGen \in Nat
      /\ RowsKept(channel, exposures, addresses)
  BY DEF IInv, StateOK
<1>3. /\ channel.next["receive"] \in Nat /\ channel.next["receive"] <= End
      /\ channel.generation \in Int /\ \A x \in Directions : channel.next[x] \in Nat
  BY <1>2, RowFields DEF Directions
<1>4. \A i \in s : i \in Indexes /\ i \in Nat /\ i \in 0..End /\ i + 1 \in 0..End
  BY DEF ConstantsAssumption, Indexes, Directions
<1>5. all \in SUBSET (0..End) /\ all # {} /\ End \in Nat
  BY <1>3, <1>4 DEF ConstantsAssumption
<1>6. cursor \in all /\ \A y \in all : y <= cursor
  <2>1. cursor = Max(all)
    BY DEF ImportedCursor
  <2> HIDE DEF all, cursor
  <2> QED
    BY Zenon, <1>5, <2>1, MaxIsGreatest
<1>7. /\ cursor \in 0..End /\ cursor \in Nat /\ channel.next["receive"] <= cursor
      /\ \A i \in s : i + 1 <= cursor
  <2> HIDE DEF cursor
  <2> QED
    BY <1>5, <1>6
<1> HIDE DEF cursor
<1>8. "receive" \in Directions /\ channel.generation + 1 <= MaxGeneration
  BY <1>1, <1>3 DEF Directions, ConstantsAssumption
<1>9. /\ channel' \in Rows /\ channel'.generation = channel.generation + 1
      /\ channel'.next["receive"] = cursor
      /\ \A x \in Directions \ {"receive"} : channel'.next[x] = channel.next[x]
  BY <1>1, <1>2, <1>7, <1>8, RowAdvances
<1>10. Advances
  BY <1>3, <1>7, <1>9 DEF Advances
<1>11. own \subseteq ExposureRow
  <2>1. ASSUME NEW i \in s PROVE Exposure("receive", i, i, i + 1) \in ExposureRow
    BY Zenon, <1>4, <1>8, ExposureFields
  <2> QED
    BY <2>1
<1>12. more \subseteq exposures \cup own
  BY ImportedRows
<1> HIDE DEF more, own, all
<1>13. StateOK'
  BY <1>1, <1>2, <1>9, <1>11, <1>12 DEF IInv, StateOK
<1>14. RowsKept(channel', own, addresses')
  <2>1. ASSUME NEW i \in s
        PROVE  RowsKept(channel', {Exposure("receive", i, i, i + 1)}, addresses')
    <3>1. i <= i /\ i < i + 1 /\ i + 1 <= channel'.next["receive"] /\ i \in addresses'
      BY <1>1, <1>4, <1>7, <1>9
    <3> QED
      BY Zenon, <3>1, ExposedRow
  <2> QED
    BY <2>1 DEF RowsKept, own
<1>15. RowsKept(channel', exposures \cup own, addresses')
  <2>1. addresses \subseteq addresses'
    BY <1>1
  <2>2. \A x \in Directions : channel.next[x] <= channel'.next[x]
    BY <1>3, <1>7, <1>9
  <2> QED
    BY Zenon, <1>2, <1>9, <1>14, <2>1, <2>2, RowsStep
<1>16. RowsKept(channel', exposures', addresses')
  <2>1. exposures' \subseteq exposures \cup own
    BY <1>1, <1>12
  <2> QED
    BY Zenon, <1>15, <2>1 DEF RowsKept
<1>17. Burns /\ HandsOut(p) /\ StepsAlone(p)
  BY <1>1 DEF Burns, HandsOut, StepsAlone
<1> QED
  BY Zenon, <1>1, <1>10, <1>13, <1>16, <1>17, ChannelStep

\* The captured rows are the stored ones.
LEMMA CaptureChannelsStep ==
    ASSUME ConstantsAssumption, IInv, CaptureChannels
    PROVE  IInv'
<1>1. /\ backup' = [channel |-> channel, exposures |-> exposures, addresses |-> addresses]
      /\ UNCHANGED <<channel, exposures, addresses, scopeGen, snapshot, held, work, handed,
                     burned>>
  BY DEF CaptureChannels
<1>2. /\ backup'.channel = channel /\ backup'.exposures = exposures
      /\ backup'.addresses = addresses
  BY <1>1
<1>3. StateOK'
  BY <1>1 DEF IInv, StateOK
<1>4. Advances /\ Burns /\ HandsOut(0) /\ StepsAlone(0)
  BY <1>1 DEF Advances, Burns, HandsOut, StepsAlone
<1>5. IndexesOK' /\ WatchOK'
  <2>1. IndexesOK'
    BY Zenon, <1>3, <1>4, IndexesStep DEF IInv
  <2>2. \A q \in Procs : work'[q] = work[q]
    BY Zenon, <1>1
  <2>3. WatchOK'
    BY Zenon, <1>1, <1>3, <2>2, WatchStep DEF IInv
  <2> QED
    BY Zenon, <2>1, <2>3
<1>6. Registered'
  BY <1>1 DEF IInv, Registered
<1>7. /\ RowsKept(channel', exposures', addresses')
      /\ RowsKept(backup'.channel, backup'.exposures, backup'.addresses)
  BY Zenon, <1>1, <1>2 DEF IInv
<1> QED
  BY Zenon, <1>3, <1>5, <1>6, <1>7 DEF IInv, RowsKept

\* restore_channels: the higher of two cursors is above what either covered.
LEMMA RestoreChannelsStep ==
    ASSUME ConstantsAssumption, IInv, RestoreChannels
    PROVE  IInv'
<1> DEFINE merged == [d \in Directions |-> MergedCursor(d)]
<1>1. /\ channel.generation < MaxGeneration
      /\ exposures' = exposures \cup backup.exposures
      /\ addresses' = addresses \cup backup.addresses
      /\ scopeGen' = scopeGen + 1 /\ snapshot' = Unobserved
      /\ UNCHANGED <<held, work, backup, handed, burned>>
  BY DEF RestoreChannels, ClearSnapshot
<1>2. /\ channel = NoChannel => channel' = [backup.channel EXCEPT !.generation = 0]
      /\ channel # NoChannel => channel' = [generation |-> channel.generation + 1, next |-> merged]
  BY Zenon DEF RestoreChannels
<1>3. /\ channel \in Rows /\ exposures \subseteq ExposureRow
      /\ addresses \subseteq Match["receive"] /\ scopeGen \in Nat
      /\ backup \in [channel : Rows, exposures : SUBSET ExposureRow,
                     addresses : SUBSET Match["receive"]]
  BY DEF IInv, StateOK
<1>4. /\ backup.channel \in Rows /\ backup.exposures \in SUBSET ExposureRow
      /\ backup.addresses \in SUBSET Match["receive"]
  BY <1>3
<1>5. /\ channel.generation \in Int /\ channel.generation >= -1
      /\ \A d \in Directions : /\ channel.next[d] \in 0..End
                               /\ backup.channel.next[d] \in 0..End
  BY Zenon, <1>3, <1>4, RowFields
<1>6. /\ channel' \in Rows /\ channel.generation < channel'.generation
      /\ \A d \in Directions : /\ channel.next[d] <= channel'.next[d]
                               /\ backup.channel.next[d] <= channel'.next[d]
  <2>1. CASE channel = NoChannel
    <3> DEFINE old == backup.channel
    <3>1. old = [generation |-> old.generation, next |-> old.next]
          /\ old.next \in [Directions -> 0..End]
      BY <1>4 DEF Rows
    <3> HIDE DEF old
    <3>2. channel' = [generation |-> 0, next |-> old.next]
      BY <1>2, <2>1, <3>1 DEF old
    <3>3. 0 \in -1..MaxGeneration
      BY DEF ConstantsAssumption
    <3>4. channel' \in Rows
      BY Zenon, <3>1, <3>2, <3>3, RowIs
    <3>5. channel'.generation = 0 /\ channel'.next = backup.channel.next
      BY <3>2 DEF old
    <3> QED
      BY <1>5, <2>1, <3>4, <3>5, NoChannelRow
  <2>2. CASE channel # NoChannel
    <3>1. ASSUME NEW d \in Directions
          PROVE  /\ merged[d] \in 0..End
                 /\ channel.next[d] <= merged[d] /\ backup.channel.next[d] <= merged[d]
      <4> DEFINE both == {channel.next[d], backup.channel.next[d]}
      <4>1. both \in SUBSET (0..End) /\ both # {} /\ End \in Nat
        BY <1>5 DEF ConstantsAssumption
      <4>2. merged[d] = Max(both)
        BY DEF MergedCursor
      <4>3. Max(both) \in both /\ \A y \in both : y <= Max(both)
        <5> HIDE DEF both
        <5> QED
          BY Zenon, <4>1, MaxIsGreatest
      <4> HIDE DEF merged
      <4> QED
        BY <1>5, <4>2, <4>3
    <3>2. merged \in [Directions -> 0..End]
      BY <3>1
    <3> HIDE DEF merged
    <3>3. channel' = [generation |-> channel.generation + 1, next |-> merged]
      BY Zenon, <1>2, <2>2
    <3>4. channel.generation + 1 \in -1..MaxGeneration
      BY <1>1, <1>5 DEF ConstantsAssumption
    <3>5. channel' \in Rows
      BY Zenon, <3>2, <3>3, <3>4, RowIs
    <3>6. channel'.generation = channel.generation + 1 /\ channel'.next = merged
      BY <3>3
    <3> QED
      BY <1>5, <3>1, <3>5, <3>6
  <2> QED
    BY Zenon, <2>1, <2>2
<1> HIDE DEF merged
<1>7. StateOK'
  BY <1>1, <1>3, <1>4, <1>6 DEF IInv, StateOK
<1>8. Advances /\ Burns /\ HandsOut(0) /\ StepsAlone(0)
  BY <1>1, <1>6 DEF Advances, Burns, HandsOut, StepsAlone
<1>9. RowsKept(channel', backup.exposures, addresses')
  <2>1. RowsKept(backup.channel, backup.exposures, backup.addresses)
    BY Zenon DEF IInv
  <2>2. backup.addresses \subseteq addresses' /\ RowsKept(channel', {}, addresses')
    BY <1>1 DEF RowsKept
  <2>3. RowsKept(channel', backup.exposures \cup {}, addresses')
    BY Zenon, <1>4, <1>6, <2>1, <2>2, RowsStep
  <2> QED
    BY <2>3
<1>10. RowsKept(channel', exposures', addresses')
  <2>1. addresses \subseteq addresses'
    BY <1>1
  <2> QED
    BY Zenon, <1>1, <1>7, <1>8, <1>9, <2>1, ExposedKept
<1>11. \A q \in Procs : work'[q] = work[q]
  BY Zenon, <1>1
<1> QED
  BY Zenon, <1>1, <1>7, <1>8, <1>10, <1>11, ChannelStep

\* The invariant is preserved by every action of every process.
LEMMA StepIInv ==
    ASSUME ConstantsAssumption, IInv, [Next]_vars
    PROVE  IInv'
<1>1. CASE UNCHANGED vars
  <2>1. UNCHANGED <<channel, exposures, addresses, scopeGen, snapshot, held, work, backup,
                    handed, burned>>
    BY Zenon, <1>1 DEF vars
  <2>2. StateOK'
    BY <2>1 DEF IInv, StateOK
  <2>3. Advances /\ Burns /\ HandsOut(0) /\ StepsAlone(0)
    BY <2>1 DEF Advances, Burns, HandsOut, StepsAlone
  <2>4. RowsKept(channel', exposures', addresses')
    BY Zenon, <2>1, <2>2, <2>3, NothingExposed
  <2>5. \A q \in Procs : work'[q] = work[q]
    BY Zenon, <2>1
  <2> QED
    BY Zenon, <2>1, <2>2, <2>3, <2>4, <2>5, ChannelStep
<1>2. ASSUME NEW p \in Procs, ProcessNext(p) PROVE IInv'
  BY Zenon, <1>2, RegisterStep, ReadChannelStep, ReserveNextStep, ImportChannelStep,
     AllocateCompactStep, AllocateBurnStep, AllocateExposeStep, AbandonStep,
     ImportIndexesStep, RefreshStartStep, RefreshCommitStep DEF ProcessNext
<1> QED
  BY Zenon, <1>1, <1>2, CaptureChannelsStep, RestoreChannelsStep DEF Next

\* It holds of an empty store.
LEMMA InitIInv ==
    ASSUME ConstantsAssumption, Init
    PROVE  IInv
<1>1. /\ channel = NoChannel /\ exposures = {} /\ addresses = {} /\ scopeGen = 0
      /\ snapshot = {} /\ held = [p \in Procs |-> NoChannel] /\ work = [p \in Procs |-> Idle]
      /\ backup = [channel |-> NoChannel, exposures |-> {}, addresses |-> {}]
      /\ handed = [k \in Directions \X Indexes |-> 0] /\ burned = {}
  BY DEF Init
<1>2. StateOK
  BY <1>1, NoChannelRow, IdleWork DEF StateOK
<1>3. /\ \A d \in Directions, i \in Indexes : handed[<<d, i>>] = 0
      /\ \A p \in Procs : held[p] = NoChannel /\ work[p] = Idle /\ work[p].step = "idle"
  BY <1>1, IdleWork
<1>4. HandedBelow /\ BurnedBelow /\ RangesDisjoint
  BY <1>1, <1>3 DEF HandedBelow, BurnedBelow, RangesDisjoint
<1>5. ASSUME NEW p \in Procs PROVE HeldOK(p)
  BY <1>1, <1>3, NoChannelRow DEF HeldOK
<1>6. ASSUME NEW p \in Procs PROVE ReservedOK(p) /\ DeriveOK(p) /\ RefreshOK(p)
  BY <1>3 DEF ReservedOK, DeriveOK, RefreshOK, Deriving
<1>7. \A p, q \in Procs : Apart(p, q)
  BY <1>3 DEF Apart, Deriving
<1>8. /\ RowsKept(channel, exposures, addresses)
      /\ RowsKept(backup.channel, backup.exposures, backup.addresses)
  BY <1>1 DEF RowsKept
<1>9. snapshot # Unobserved => snapshot = addresses
  BY <1>1
<1>10. Registered
  BY <1>1 DEF Registered
<1> QED
  BY Zenon, <1>2, <1>4, <1>5, <1>6, <1>7, <1>8, <1>9, <1>10 DEF IInv, IndexesOK, WatchOK

\* And it implies what the processes rely on.
LEMMA IInvImplies ==
    ASSUME ConstantsAssumption, IInv
    PROVE  PaymentsApart
<1>1. /\ channel \in Rows /\ addresses \subseteq Match["receive"] /\ held \in [Procs -> Rows]
      /\ work \in [Procs -> Work] /\ exposures \subseteq ExposureRow
      /\ handed \in [Directions \X Indexes -> Nat]
  BY DEF IInv, StateOK
<1>2. ASSUME NEW e \in exposures
      PROVE  /\ e.start <= e.index /\ e.index < e.end /\ e.end <= channel.next[e.direction]
             /\ e.direction = "receive" => e.index \in addresses
  BY Zenon DEF IInv, RowsKept
<1>3. ASSUME NEW e \in exposures PROVE e.end <= End
  <2>1. e.direction \in Directions /\ e.end \in 0..End
    BY <1>1 DEF ExposureRow
  <2> QED
    BY <2>1 DEF ConstantsAssumption
<1>4. ASSUME NEW p \in Procs PROVE work[p].step \in {"idle", "reserved", "derive", "refresh"}
  <2>1. work[p] \in Work
    BY <1>1
  <2> QED
    BY Zenon, <2>1, WorkFields
<1>5. TypeOK
  BY Zenon, <1>1, <1>2, <1>3, <1>4 DEF TypeOK
<1>6. HandedOutOnce
  <2>1. ASSUME NEW k \in DOMAIN handed PROVE handed[k] <= 1
    <3>1. PICK d \in Directions, i \in Indexes : k = <<d, i>>
      BY <1>1
    <3> QED
      BY Zenon, <3>1 DEF IInv, IndexesOK, HandedBelow
  <2> QED
    BY Zenon, <2>1 DEF HandedOutOnce
<1>7. RangesDisjoint /\ CursorAboveExposures
  BY Zenon, <1>2 DEF IInv, IndexesOK, CursorAboveExposures
<1>8. SnapshotWatchesAll
  BY Zenon, <1>2 DEF IInv, WatchOK, SnapshotWatchesAll
<1> QED
  BY Zenon, <1>5, <1>6, <1>7, <1>8 DEF PaymentsApart

\* No payment address is handed out twice, burned ranges never overlap, the
\* cursors stay above what was exposed and a coin snapshot observed every watched
\* address, for any number of processes that reserve and store, allocate in one
\* transaction or in two, import, restore and crash between two transactions.
THEOREM PaymentsSafety ==
    ASSUME ConstantsAssumption
    PROVE  Spec => []PaymentsApart
<1>1. Init => IInv
  BY Zenon, InitIInv
<1>2. IInv /\ [Next]_vars => IInv'
  BY Zenon, StepIInv
<1>3. IInv => PaymentsApart
  BY Zenon, IInvImplies
<1> QED
  BY <1>1, <1>2, <1>3, PTL DEF Spec

============================================================================
