----------------------------- MODULE Settlement -----------------------------
(***************************************************************************)
(* Settlement of a signed operation whose effect is executed by an         *)
(* external transaction, often in another zone (settlement.rs and          *)
(* settlement/resume.rs over external_tracking.rs, conversion_tracking.rs  *)
(* and qi_credit.rs).  An observer reads two chains that move, then writes *)
(* one row of the store's cache by compare-and-exchange; another handle    *)
(* writes the same row, and a restore of the store deletes it.             *)
(***************************************************************************)
EXTENDS BlockTree, Sequences

CONSTANTS
    NoBlock, MaxMoves,
    SameZone,       \* a conversion: origin and destination are one zone
    Origins,        \* origin-zone blocks that include the signed transaction
    Executions,     \* destination-zone blocks that execute the external one
    Starts,         \* the heights an application starts a scan at
    PageSize,       \* 256 in the code
    MaxRevision,    \* bound: how often the row is written
    MaxRestores     \* bound

SettlementAssumption ==
    /\ SameZone \in BOOLEAN /\ PageSize \in Nat \ {0}
    /\ Origins \subseteq Blocks \ {Genesis} /\ Executions \subseteq Blocks \ {Genesis}
    /\ \A s \in {Origins, Executions} : \A b \in s : Branch[b] \cap s = {b}

VARIABLES
    ohead, ogone, dhead, dgone, moves,  \* the two chains
    row, generation,    \* the cache row and the store's generation
    obs                 \* the observer: where it is and what it has read

zones == <<ohead, ogone, dhead, dgone, moves>>
vars == <<zones, row, generation, obs>>

Origin == INSTANCE ChainView WITH head <- ohead, gone <- ogone
Other == INSTANCE ChainView WITH head <- dhead, gone <- dgone
Dest == INSTANCE ChainView WITH
    head <- IF SameZone THEN ohead ELSE dhead, gone <- IF SameZone THEN ogone ELSE dgone

DestHead == IF SameZone THEN ohead ELSE dhead

Maybe == Blocks \cup {NoBlock}

\* The payload, with history: the heads it was read at, the start of the range
\* and whether an execution was read again on the way.  <<>> is SQL NULL.
Payload == [origin : Maybe, from : Nat, last : Maybe, execution : Maybe,
            at : Seq(Blocks), base : Nat, reread : BOOLEAN]

NoRow == [revision |-> 0, payload |-> <<>>]

Idle == [pc |-> "idle", mode |-> "fresh", generation |-> 0, expected |-> 0,
         cursor |-> <<>>, request |-> <<>>, left |-> <<>>, at |-> <<>>,
         origin |-> NoBlock, last |-> NoBlock, execution |-> NoBlock, tip |-> NoBlock]

TypeOK ==
    /\ {ohead, dhead} \subseteq Blocks /\ moves \in 0..MaxMoves
    /\ row.revision \in 0..MaxRevision /\ (row.payload = <<>> \/ row.payload \in Payload)
    /\ row.revision = 0 => row.payload = <<>>
    /\ generation \in 0..MaxRestores
    /\ obs.generation \in 0..MaxRestores /\ obs.expected \in 0..MaxRevision
    /\ {obs.origin, obs.last, obs.execution, obs.tip} \subseteq Maybe
    /\ obs.pc = "idle" => obs = Idle

Init ==
    /\ ohead \in Blocks /\ dhead \in (IF SameZone THEN {Genesis} ELSE Blocks)
    /\ ogone = {} /\ dgone = {} /\ moves = 0
    /\ row = NoRow /\ generation = 0 /\ obs = Idle

MoveOrigin == Origin!MoveChain /\ UNCHANGED <<dhead, dgone, row, generation, obs>>
MoveDest == ~SameZone /\ Other!MoveChain /\ UNCHANGED <<ohead, ogone, row, generation, obs>>

----------------------------------------------------------------------------
\* compare_exchange_observation_scoped

Current == generation = obs.generation /\ row.revision = obs.expected

Exchange(payload) ==
    row' = IF Current THEN [revision |-> row.revision + 1, payload |-> payload] ELSE row

\* One step of the observer: the row and the chains stay.
Step(o) == obs' = o /\ UNCHANGED row
Goto(p) == Step([obs EXCEPT !.pc = p])

\* An error clears the row that this observer read, if it is still there.
Failed == obs' = Idle /\ Exchange(<<>>)

At(p) == obs.pc = p /\ UNCHANGED <<zones, generation>>

----------------------------------------------------------------------------
\* track_settlement: an explicit page; or track of a revalidated cursor.
Begin(o) ==
    /\ row.revision < MaxRevision
    /\ obs' = o /\ ogone' = {} /\ dgone' = {}
    /\ UNCHANGED <<ohead, dhead, moves, row, generation>>

Request(from, to, preceding, base, reread) ==
    [from |-> from, to |-> to, preceding |-> preceding, base |-> base, reread |-> reread]

Track(from) ==
    /\ obs.pc = "idle"
    /\ Begin([Idle EXCEPT !.pc = "generation",
                          !.request = Request(from, from + PageSize - 1, NoBlock, from, FALSE)])

\* SettlementCursor::request and track: a known execution is read again alone.
Resume ==
    /\ obs.pc = "cursor"
    /\ LET c == obs.cursor
       IN  Begin([Idle EXCEPT !.pc = "generation", !.mode = "resume", !.cursor = c,
             !.request =
               IF c.execution # NoBlock
               THEN Request(Number[c.execution], Number[c.execution], NoBlock, c.base, TRUE)
               ELSE Request(Number[c.last] + 1, Number[c.last] + PageSize, c.last, c.base, c.reread)])

DropCursor == obs.pc = "cursor" /\ obs' = Idle /\ UNCHANGED <<zones, row, generation>>

ReadGeneration ==
    At("generation") /\ Step([obs EXCEPT !.pc = "row", !.generation = generation])

\* A cursor of an older revision fails before any request to the node.
ReadRow ==
    /\ At("row")
    /\ Step(IF obs.mode = "resume" /\ row.revision # obs.cursor.revision THEN Idle
            ELSE [obs EXCEPT !.pc = "receipt", !.expected = row.revision])

----------------------------------------------------------------------------
\* observe_external, observe_conversion.  An origin that is absent or not
\* canonical is an answer, without a scan.
ReadReceipt ==
    /\ At("receipt")
    /\ \E b \in Origin!Inclusions(Origins) :
         Step([obs EXCEPT !.origin = b, !.pc = IF b = NoBlock THEN "commit" ELSE "origin"])

ReadOrigin ==
    /\ At("origin")
    /\ IF Origin!IsCanonical(obs.origin) THEN Goto("scan")
       ELSE Step([obs EXCEPT !.pc = "commit", !.origin = NoBlock])

\* scan_external_transactions, block by block; a block that is not there ends
\* the page.
Prior == IF obs.last # NoBlock THEN obs.last ELSE obs.request.preceding

ScanBlock ==
    /\ At("scan")
    /\ LET n == IF obs.last = NoBlock THEN obs.request.from ELSE Number[obs.last] + 1
           b == Dest!HeaderAt(n)
       IN  IF n > obs.request.to \/ b = NoBlock THEN Goto("end")
           ELSE IF Prior # NoBlock /\ Parent[b] # Prior THEN Failed
           ELSE Step([obs EXCEPT !.last = b, !.execution = IF b \in Executions THEN b ELSE @])

EndScan ==
    /\ At("end")
    /\ IF Prior # NoBlock /\ ~Dest!IsCanonical(Prior) THEN Failed
       ELSE Step([obs EXCEPT !.pc = "reorigin", !.at = <<ohead, DestHead>>])

AfterOrigin == Goto(IF obs.execution # NoBlock THEN "head" ELSE "commit")

\* Mutant: the origin is not read again.
RereadOriginTrusting == At("reorigin") /\ AfterOrigin

\* The execution may not predate its origin where the zones are one.
RereadOrigin ==
    /\ At("reorigin")
    /\ IF \/ SameZone /\ obs.execution # NoBlock /\ Number[obs.execution] < Number[obs.origin]
          \/ ~Origin!IsCanonical(obs.origin)
       THEN Failed ELSE AfterOrigin

----------------------------------------------------------------------------
\* qi_credit: the outputs indexed at the head, then every anchor again.
CreditHead ==
    /\ At("head")
    /\ IF Number[DestHead] < Number[obs.execution] THEN Failed
       ELSE Step([obs EXCEPT !.pc = "outputs", !.tip = DestHead])

CreditOutputs ==
    /\ At("outputs")
    /\ Step([obs EXCEPT !.pc = "anchors", !.at = Append(@, DestHead),
               !.left = << <<"origin", obs.origin>>, <<"dest", obs.execution>>, <<"dest", obs.tip>> >>])

\* The next of several anchors is read again; the first that changed fails.
Recheck(next) ==
    IF obs.left = <<>> THEN Goto(next)
    ELSE LET a == Head(obs.left)
         IN  IF IF a[1] = "origin" THEN Origin!IsCanonical(a[2]) ELSE Dest!IsCanonical(a[2])
             THEN Step([obs EXCEPT !.left = Tail(@)]) ELSE Failed

CreditAnchor == At("anchors") /\ Recheck("latest")

CreditLatest == At("latest") /\ (IF DestHead = obs.tip THEN Goto("commit") ELSE Failed)

Commit ==
    /\ At("commit")
    /\ Exchange([origin |-> obs.origin, from |-> obs.request.from, last |-> obs.last,
                 execution |-> obs.execution, at |-> obs.at,
                 base |-> obs.request.base, reread |-> obs.request.reread])
    /\ obs' = Idle

Reads == {"receipt", "origin", "scan", "end", "reorigin", "head", "outputs", "anchors", "latest", "revalidate"}

ReadFails == obs.pc \in Reads /\ Failed /\ UNCHANGED <<zones, generation>>

----------------------------------------------------------------------------
\* revalidate_settlement_cursor.  A payload without a scanned block is kept,
\* and gives no cursor.
Revalidate ==
    /\ obs.pc = "idle" /\ row.payload # <<>>
    /\ row.payload.origin # NoBlock /\ row.payload.last # NoBlock
    /\ LET p == row.payload
       IN  Begin([Idle EXCEPT !.pc = "revalidate", !.generation = generation, !.expected = row.revision,
             !.cursor = [revision |-> row.revision, last |-> p.last, execution |-> p.execution,
                         base |-> p.base, reread |-> p.reread],
             !.left = << <<"origin", p.origin>>, <<"dest", p.last>> >>
                      \o (IF p.execution = NoBlock THEN <<>> ELSE << <<"dest", p.execution>> >>)
                      \o << <<"origin", p.origin>> >>])

RevalidateAnchor == At("revalidate") /\ Recheck("cursor")

----------------------------------------------------------------------------
\* Another handle tracks a page of its own, or invalidates the row.
Rival(from) ==
    /\ row.revision < MaxRevision - 1
    /\ \/ row.revision > 0 /\ row' = [revision |-> row.revision + 1, payload |-> <<>>]
       \/ LET o == Origins \cap Branch[ohead]
              page == {b \in Branch[DestHead] : Number[b] \in from..(from + PageSize - 1)}
              e == page \cap Executions
          IN  /\ o # {} /\ page # {}
              /\ row' = [revision |-> row.revision + 1,
                         payload |-> [origin |-> CHOOSE b \in o : TRUE, from |-> from,
                                      last |-> CHOOSE b \in page : \A c \in page : Number[c] <= Number[b],
                                      execution |-> IF e = {} THEN NoBlock ELSE CHOOSE b \in e : TRUE,
                                      at |-> <<ohead, DestHead>>, base |-> from, reread |-> FALSE]]
    /\ UNCHANGED <<zones, generation, obs>>

\* restore_full_backup deletes the cache rows under a new generation.
Restore ==
    /\ generation < MaxRestores /\ generation' = generation + 1 /\ row' = NoRow
    /\ UNCHANGED <<zones, obs>>

Next ==
    \/ MoveOrigin \/ MoveDest \/ Restore
    \/ \E f \in Starts : Track(f) \/ Rival(f)
    \/ Resume \/ DropCursor \/ ReadGeneration \/ ReadRow \/ ReadReceipt \/ ReadOrigin
    \/ ScanBlock \/ EndScan \/ RereadOrigin
    \/ CreditHead \/ CreditOutputs \/ CreditAnchor \/ CreditLatest
    \/ Commit \/ ReadFails \/ Revalidate \/ RevalidateAnchor

Spec == Init /\ [][Next]_vars

----------------------------------------------------------------------------
\* A cached observation names an origin and a scanned page that were canonical
\* in their zones at one moment, and an execution on that page's branch.
CachedTogether ==
    row.payload # <<>> /\ row.payload.last # NoBlock =>
        /\ row.payload.origin \in Branch[row.payload.at[1]]
        /\ row.payload.last \in Branch[row.payload.at[2]]
        /\ row.payload.execution # NoBlock => row.payload.execution \in Branch[row.payload.last]

\* The credited outputs are those indexed at the head that is reported.
CreditAtHead == obs.pc = "commit" /\ obs.execution # NoBlock => obs.at[3] = obs.tip

\* An observer changes a row only if nobody has written or deleted it since the
\* observer read it.
RacedRowsSurvive ==
    row' # row /\ obs' # obs => generation = obs.generation /\ row.revision = obs.expected

\* An observation that failed leaves no payload which it had read before: the
\* row is cleared, or another handle has written it meanwhile.
FailureClears ==
    (obs.pc \in Reads /\ obs'.pc = "idle" /\ row'.payload # <<>>) =>
      (row.revision # obs.expected \/ generation # obs.generation)

\* No execution on the branch of a scan lies below the cursor that follows it,
\* from the start of the range that the application chose.
Unskipped ==
    row.payload # <<>> /\ row.payload.last # NoBlock /\ row.payload.execution = NoBlock =>
        \A b \in Branch[row.payload.last] : Number[b] >= row.payload.base => b \notin Executions

\* The same for the pages that follow one another, with no reread of an
\* execution among them.
PagesUnskipped == row.payload # <<>> /\ ~row.payload.reread => Unskipped
=============================================================================
