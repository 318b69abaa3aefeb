------------------------------ MODULE EventFeed ------------------------------
(***************************************************************************)
(* The events of one session on their way to its clients: the feed, a task *)
(* that projects committed batches and pushes frames                       *)
(* (komo-gateway/src/service/durable/feed.rs), the hub with a bounded      *)
(* buffer for every subscriber (komo-gateway/src/sse.rs), the handler of   *)
(* one connection, which back-fills from the storage and then follows the  *)
(* hub (komo-gateway/src/http/v2/events.rs), and the clients with their    *)
(* cursors (komo-client/src/sse.rs, packages/api/src/sse.ts).              *)
(*                                                                         *)
(* A record is an entry of one of the session's branches or a submission.  *)
(* Its ID comes from one counter and grows with the order of the commits;  *)
(* here it is the record's place in `records'.  A record is projected to a *)
(* few events, whose number on the wire (`Seq') is the ID shifted, plus    *)
(* the place of the event in its record.                                   *)
(*                                                                         *)
(* To read a session is to read one table after the other, each in a       *)
(* transaction of its own: the entries of every branch, and the            *)
(* submissions last.  Commits go on between the reads.                     *)
(***************************************************************************)
EXTENDS Integers, Sequences, FiniteSets, SequencesExt

CONSTANTS
    Client,
    NBranches,    \* conversations of the session
    Slots,        \* event numbers a record has (1 << FRAME_BITS)
    Frames,       \* events a record of a table is projected to
    Capacity,     \* frames the hub keeps for a subscriber (CHANNEL_CAPACITY)
    PageLimit,    \* events in a page
    NRecords,     \* bound on the records
    MaxBatch,     \* bound on the new records of a commit
    MaxExtras,    \* bound on the commits without new records
    MaxQueued,    \* bound on the batches in the queue of the feed
    MaxTroubles   \* bound on evictions, failing reads, cut connections, restarts

Submissions == NBranches + 1  \* the table that is read last
Table == 1 .. Submissions

ASSUME SlotsAssumption == Slots \in Nat \ {0} /\ Frames \in [Table -> 1 .. Slots]
ASSUME BoundsAssumption ==
    /\ NBranches \in Nat \ {0} /\ Capacity \in Nat \ {0} /\ PageLimit \in Nat \ {0}
    /\ {NRecords, MaxBatch, MaxExtras, MaxQueued, MaxTroubles} \subseteq Nat

VARIABLES
    records,       \* the table of every record, by ID
    publications,  \* batches the feed has not taken yet
    floor,         \* the largest ID in the batches the feed has taken
    projection,    \* the feed's projection of the session, if it has one
    handling,      \* what the feed does with the batch it has taken
    connection,    \* the state of every client's request or connection
    habit,         \* whose cursor a client keeps
    cursor,        \* the cursor a client asks from
    got,           \* the events a client has received, in their order
    mishaps,       \* what has gone wrong so far
    extras, troubles

vars == <<records, publications, floor, projection, handling, connection, habit,
          cursor, got, mishaps, extras, troubles>>
feed == <<publications, floor, projection, handling>>
client == <<habit, cursor, got>>
bounds == <<extras, troubles>>

-----------------------------------------------------------------------------
(* Records and their events *)

EventSeq(i, k) == i * Slots + k
RecordOf(s) == s \div Slots
EventsOf(ids) == UNION {{EventSeq(i, k) : k \in 0 .. Frames[records[i]] - 1} : i \in ids}

InTable(t) == {i \in DOMAIN records : records[i] = t}
Frame == [kind : {"event", "status", "delta"}, seq : Nat]

\* What the hub is given for an event: the event, and for the first of a record
\* the status that is derived from it, under the same number.  (In the code only
\* some events change the status; here each record has one that does.)
FramesOf(s) ==
    <<[kind |-> "event", seq |-> s]>>
        \o (IF s % Slots = 0 THEN <<[kind |-> "status", seq |-> s]>> ELSE <<>>)

Larger(a, b) == IF a < b THEN b ELSE a
Largest(S) ==
    LET tops == {m \in S : \A e \in S : e <= m}
    IN  IF tops = {} THEN 0 ELSE CHOOSE m \in tops : TRUE

\* A session that is read table by table may hold a record without one before it.
IsTorn(found) == found # 1 .. Largest(found)

\* The kinds of mishap that may cost a client an event.
Costly == {"torn read", "failed read"}
TornRead(found) == IF IsTorn(found) THEN mishaps \cup {"torn read"} ELSE mishaps

Trouble ==
    /\ troubles < MaxTroubles
    /\ troubles' = troubles + 1
    /\ UNCHANGED extras

FailedRead == Trouble /\ mishaps' = mishaps \cup {"failed read"}

-----------------------------------------------------------------------------
(* States *)

\* A commit as the feed sees it: the IDs of the records it wrote, new ones and
\* submissions it wrote again, and whether the partial answer has grown.
Batch == [ids : SUBSET (1 .. NRecords), delta : BOOLEAN]

\* The largest entry ID and the submissions that were projected, and the largest
\* number of an event, which goes out with a delta.
NoProjection == [on |-> FALSE, entry |-> 0, submissions |-> {}, seq |-> 0]

\* A read of the session: the next table and what was found in the others.
Read(table, found) == [table |-> table, found |-> found]

\* The feed has taken a batch: it reads the session, if it has no projection of
\* it, and pushes events one by one.
Idle == [phase |-> "idle", batch |-> [ids |-> {}, delta |-> FALSE], read |-> Read(1, {}),
         retry |-> FALSE, events |-> {}]

\* A client that has not opened the session, or is between two pages of it.
Fresh == [phase |-> "new", read |-> Read(1, {}), queue |-> {}, more |-> FALSE,
          last |-> 0, status |-> 0, live |-> <<>>, lagged |-> FALSE]
\* A client that wants to subscribe.
Off == [Fresh EXCEPT !.phase = "off"]

Connected == {"reading", "open", "catching"}
Reading == {"paging", "reading", "catching"}

ReadState == [table : Table, found : SUBSET (1 .. NRecords)]
ProjectionState ==
    [on : BOOLEAN, entry : 0 .. NRecords, submissions : SUBSET (1 .. NRecords), seq : Nat]
HandlingState ==
    [phase : {"idle", "reading", "pushing"}, batch : Batch, read : ReadState,
     retry : BOOLEAN, events : SUBSET Nat]
ConnectionState ==
    [phase : {"new", "page", "off", "open"} \cup Reading, read : ReadState,
     queue : SUBSET Nat, more : BOOLEAN, last : Nat,
     status : Nat, live : Seq(Frame), lagged : BOOLEAN]

\* The type invariant.
TypeOK ==
    /\ records \in Seq(Table) /\ Len(records) <= NRecords
    /\ publications \in Seq(Batch)
    /\ floor \in 0 .. NRecords
    /\ projection \in ProjectionState
    /\ handling \in HandlingState
    /\ connection \in [Client -> ConnectionState]
    /\ habit \in [Client -> {"desktop", "tui"}]
    /\ cursor \in [Client -> Nat]
    /\ got \in [Client -> Seq(Nat)]
    /\ mishaps \subseteq Costly \cup {"evicted ahead"}
    /\ extras \in 0 .. MaxExtras /\ troubles \in 0 .. MaxTroubles

Init ==
    /\ records = <<>>
    /\ publications = <<>> /\ floor = 0
    /\ projection = NoProjection /\ handling = Idle
    /\ connection = [c \in Client |-> Fresh]
    /\ habit \in [Client -> {"desktop", "tui"}]
    /\ cursor = [c \in Client |-> 0]
    /\ got = [c \in Client |-> <<>>]
    /\ mishaps = {}
    /\ extras = 0 /\ troubles = 0

-----------------------------------------------------------------------------
(* Commits *)

\* The engine commits new records, writes a submission again (it is placed or
\* settled), or stores more of a partial answer.
Commit(new, again, delta) ==
    /\ Len(publications) < MaxQueued
    /\ Len(records) + Len(new) <= NRecords
    /\ records' = records \o new
    /\ LET ids == again \cup (Len(records) + 1 .. Len(records) + Len(new))
       IN  /\ ids # {} \/ delta
           /\ publications' = Append(publications, [ids |-> ids, delta |-> delta])
    /\ IF new = <<>> THEN extras < MaxExtras /\ extras' = extras + 1 ELSE UNCHANGED extras
    /\ UNCHANGED <<floor, projection, handling, connection, client, mishaps,
                   troubles>>

NewRecords == UNION {[1 .. n -> Table] : n \in 0 .. MaxBatch}
OneOrNone(S) == {{}} \cup {{i} : i \in S}

-----------------------------------------------------------------------------
(* The feed *)

LastFrames(frames) ==
    IF Len(frames) <= Capacity THEN frames
    ELSE SubSeq(frames, Len(frames) - Capacity + 1, Len(frames))

\* The hub sends frames to the connections that are subscribed; a buffer that
\* is full loses its oldest frames.
Push(frames) ==
    [c \in Client |->
        IF connection[c].phase \in Connected
        THEN [connection[c] EXCEPT
                  !.live = LastFrames(@ \o frames),
                  !.lagged = @ \/ Len(connection[c].live) + Len(frames) > Capacity]
        ELSE connection[c]]

\* The records of a batch the projection has not seen: entries by their ID,
\* submissions by name.
Unseen(ids) ==
    {i \in ids : IF records[i] = Submissions THEN i \notin projection.submissions
                 ELSE i > projection.entry}

\* The projection after a set of records.
Projected(p, ids) ==
    [p EXCEPT !.on = TRUE,
              !.entry = Larger(@, Largest(ids \ InTable(Submissions))),
              !.submissions = @ \cup (ids \cap InTable(Submissions))]

\* A batch for a session whose projection is there.
Handle ==
    /\ handling.phase = "idle" /\ projection.on /\ publications # <<>>
    /\ LET batch == Head(publications)
       IN  /\ projection' = Projected(projection, Unseen(batch.ids))
           /\ handling' = [Idle EXCEPT !.phase = "pushing", !.batch = batch,
                                       !.events = EventsOf(Unseen(batch.ids))]
    /\ publications' = Tail(publications)
    /\ UNCHANGED <<records, floor, connection, client, mishaps, bounds>>

\* A batch for a session without one: the feed begins to read the session.
BeginSeed ==
    /\ handling.phase = "idle" /\ ~projection.on /\ publications # <<>>
    /\ handling' = [Idle EXCEPT !.phase = "reading", !.batch = Head(publications)]
    /\ publications' = Tail(publications)
    /\ UNCHANGED <<records, floor, projection, connection, client, mishaps, bounds>>

\* One table of the session.
Found(read) == read.found \cup InTable(read.table)
NextRead(read) == Read(read.table + 1, Found(read))

SeedRead ==
    /\ handling.phase = "reading" /\ handling.read.table # Submissions
    /\ handling' = [handling EXCEPT !.read = NextRead(@)]
    /\ UNCHANGED <<records, publications, floor, projection, connection, client,
                   mishaps, bounds>>

\* Mutant of Pushed: the whole session goes out again.
PushedAll(found) == EventsOf(found)

\* Mutant of Pushed: only the batch goes out, and what was read ahead is not.
PushedBatch(found) == EventsOf(found \cap handling.batch.ids)

\* The events of a new projection that go out: not those of records an earlier
\* batch had, but those of records whose batch is still in the queue.
Pushed(found) == EventsOf({i \in found : i > floor})

\* The last table: the projection is made.
Seed ==
    /\ handling.phase = "reading" /\ handling.read.table = Submissions
    /\ LET found == Found(handling.read)
       IN  /\ projection' = [Projected(NoProjection, found)
                                 EXCEPT !.seq = Largest(EventsOf(found))]
           /\ handling' = [handling EXCEPT !.phase = "pushing", !.read = Read(1, {}),
                                           !.events = Pushed(found)]
           /\ mishaps' = TornRead(found)
    /\ UNCHANGED <<records, publications, floor, connection, client, bounds>>

\* The next event of the batch goes to the hub.
PushEvent ==
    /\ handling.phase = "pushing"
    /\ \E s \in handling.events :
        /\ \A e \in handling.events : s <= e
        /\ handling' = [handling EXCEPT !.events = @ \ {s}]
        /\ projection' = [projection EXCEPT !.seq = Larger(@, s)]
        /\ connection' = Push(FramesOf(s))
    /\ UNCHANGED <<records, publications, floor, client, mishaps, bounds>>

\* The batch is done, and a delta goes out under the number of the last event.
EndBatch(seq) ==
    /\ handling' = Idle
    /\ floor' = Larger(floor, Largest(handling.batch.ids))
    /\ connection' = IF handling.batch.delta THEN Push(<<[kind |-> "delta", seq |-> seq]>>)
                     ELSE connection
    /\ UNCHANGED <<records, publications, projection, client>>

BatchDone ==
    /\ handling.phase = "pushing" /\ handling.events = {}
    /\ EndBatch(projection.seq)
    /\ UNCHANGED <<mishaps, bounds>>

\* A read fails: the events of the batch are not pushed.  For the delta in the
\* batch the session is read again; if that fails too, the delta has no number.
SeedFails ==
    /\ handling.phase = "reading"
    /\ FailedRead
    /\ IF handling.batch.delta /\ handling.batch.ids # {} /\ ~handling.retry
       THEN /\ handling' = [handling EXCEPT !.read = Read(1, {}), !.retry = TRUE]
            /\ UNCHANGED <<records, publications, floor, projection, connection, client>>
       ELSE EndBatch(0)

\* Batches of other sessions push the projection out of the cache (`evict').
Evict ==
    /\ handling.phase = "idle" /\ projection.on
    /\ Trouble
    /\ projection' = NoProjection
    /\ mishaps' = IF RecordOf(projection.seq) > floor THEN mishaps \cup {"evicted ahead"}
                  ELSE mishaps
    /\ UNCHANGED <<records, publications, floor, handling, connection, client>>

-----------------------------------------------------------------------------
(* Clients and their connections *)

Set(c, state) == connection' = [connection EXCEPT ![c] = state]

\* A frame reaches the client.  The desktop's cursor is the largest number of an
\* event, the terminal's the number of the last frame of any kind.
Receive(c, frame) ==
    /\ got' = IF frame.kind = "event" THEN [got EXCEPT ![c] = Append(@, frame.seq)] ELSE got
    /\ cursor' =
           [cursor EXCEPT ![c] =
                IF habit[c] = "tui" THEN frame.seq
                ELSE IF frame.kind = "event" THEN Larger(@, frame.seq) ELSE @]
    /\ UNCHANGED habit

\* The client asks for the next page of the session's events.
AskPage(c) ==
    /\ connection[c].phase = "new"
    /\ Set(c, [Fresh EXCEPT !.phase = "paging"])
    /\ UNCHANGED <<records, feed, client, mishaps, bounds>>

\* The client connects with its cursor: first the subscription of the hub, then
\* the read of the session.
Subscribe(c) ==
    /\ connection[c].phase = "off"
    /\ Set(c, [Off EXCEPT !.phase = "reading", !.last = cursor[c]])
    /\ UNCHANGED <<records, feed, client, mishaps, bounds>>

\* A request or a connection reads one table of the session.
ReadTable(c) ==
    /\ connection[c].phase \in Reading
    /\ connection[c].read.table # Submissions
    /\ Set(c, [connection[c] EXCEPT !.read = NextRead(@)])
    /\ UNCHANGED <<records, feed, client, mishaps, bounds>>

\* The events behind a number (`backfill').
After(found, s) == {e \in EventsOf(found) : e > s}
FirstOf(events) == {e \in events : Cardinality({d \in events : d < e}) < PageLimit}

\* The last table: a page is cut off, a connection is given the events behind
\* the last one it sent.
ReadSession(c) ==
    /\ connection[c].phase \in Reading
    /\ connection[c].read.table = Submissions
    /\ LET found == Found(connection[c].read)
           paging == connection[c].phase = "paging"
           events == After(found, IF paging THEN cursor[c] ELSE connection[c].last)
           page == IF paging THEN FirstOf(events) ELSE events
       IN  /\ Set(c, [connection[c] EXCEPT !.phase = IF paging THEN "page" ELSE "open",
                                           !.read = Read(1, {}), !.queue = page,
                                           !.more = page # events])
           /\ mishaps' = TornRead(found)
    /\ UNCHANGED <<records, feed, client, bounds>>

\* The next event that was read.
HandOut(c) ==
    /\ \E s \in connection[c].queue :
        /\ \A e \in connection[c].queue : s <= e
        /\ Set(c, [connection[c] EXCEPT !.queue = @ \ {s}, !.last = Larger(@, s)])
        /\ Receive(c, [kind |-> "event", seq |-> s])
    /\ UNCHANGED <<records, feed, mishaps, bounds>>

\* The client has taken the page: there is another one, or it may subscribe.
TurnPage(c) ==
    /\ connection[c].phase = "page" /\ connection[c].queue = {}
    /\ Set(c, IF connection[c].more THEN Fresh ELSE Off)
    /\ UNCHANGED <<records, feed, client, mishaps, bounds>>

\* Mutant of AlreadySent: the end of the back-fill is sent again.
AlreadySentBefore(frame, last) == frame.kind = "event" /\ frame.seq < last

\* An event the client has from the back-fill.  A status has the number of an
\* event and is not in the back-fill.
AlreadySent(frame, last) == frame.kind = "event" /\ frame.seq <= last

\* The connection takes the next frame of the hub.
TakeFrame(c) ==
    /\ connection[c].phase = "open" /\ connection[c].queue = {}
    /\ ~connection[c].lagged /\ connection[c].live # <<>>
    /\ LET frame == Head(connection[c].live)
           rest == [connection[c] EXCEPT !.live = Tail(@)]
       IN  IF AlreadySent(frame, rest.last)
           THEN Set(c, rest) /\ UNCHANGED client
           ELSE /\ Set(c, [rest EXCEPT !.last = Larger(@, frame.seq),
                                       !.status = IF frame.kind = "status" THEN frame.seq
                                                  ELSE @])
                /\ Receive(c, frame)
    /\ UNCHANGED <<records, feed, mishaps, bounds>>

\* Mutant of CatchUp: what was lost is not read.
GoOn(c) ==
    /\ connection[c].phase = "open" /\ connection[c].queue = {} /\ connection[c].lagged
    /\ Set(c, [connection[c] EXCEPT !.lagged = FALSE])
    /\ UNCHANGED <<records, feed, client, mishaps, bounds>>

\* The hub has dropped frames of the connection (`Lagged'): it reads the session
\* again before it goes on with what the hub has kept.
CatchUp(c) ==
    /\ connection[c].phase = "open" /\ connection[c].queue = {} /\ connection[c].lagged
    /\ Set(c, [connection[c] EXCEPT !.phase = "catching", !.lagged = FALSE])
    /\ UNCHANGED <<records, feed, client, mishaps, bounds>>

\* A read fails.  A connection that was catching up goes on without; a request
\* is refused.
ReadFails(c) ==
    /\ connection[c].phase \in Reading
    /\ IF connection[c].phase = "catching" THEN FailedRead ELSE Trouble /\ UNCHANGED mishaps
    /\ Set(c, CASE connection[c].phase = "catching" ->
                       [connection[c] EXCEPT !.phase = "open", !.read = Read(1, {})]
                [] connection[c].phase = "reading" -> Off
                [] connection[c].phase = "paging" -> Fresh)
    /\ UNCHANGED <<records, feed, client>>

\* A connection is cut; the client asks again with its cursor.
Disconnect(c) ==
    /\ connection[c].phase \in Connected
    /\ Trouble
    /\ Set(c, Off)
    /\ UNCHANGED <<records, feed, client, mishaps>>

\* The gateway is restarted: the feed begins anew with an ID larger than all,
\* requests and connections are gone.
Restart ==
    /\ Trouble
    /\ publications' = <<>> /\ floor' = Len(records)
    /\ projection' = NoProjection /\ handling' = Idle
    /\ connection' = [c \in Client |->
                          CASE connection[c].phase \in Connected -> Off
                            [] connection[c].phase = "paging" -> Fresh
                            [] OTHER -> connection[c]]
    /\ UNCHANGED <<records, client, mishaps>>

-----------------------------------------------------------------------------
FeedStep == Handle \/ BeginSeed \/ SeedRead \/ Seed \/ PushEvent \/ BatchDone
ClientStep(c) ==
    \/ AskPage(c) \/ Subscribe(c) \/ ReadTable(c) \/ ReadSession(c)
    \/ HandOut(c) \/ TurnPage(c) \/ TakeFrame(c) \/ CatchUp(c)

Next ==
    \/ \E new \in NewRecords, again \in OneOrNone(InTable(Submissions)), delta \in BOOLEAN :
           Commit(new, again, delta)
    \/ FeedStep \/ SeedFails \/ Evict
    \/ \E c \in Client : ClientStep(c) \/ ReadFails(c) \/ Disconnect(c)
    \/ Restart

Spec == Init /\ [][Next]_vars

-----------------------------------------------------------------------------
(* Properties *)

AllEvents == EventsOf(DOMAIN records)

\* The client will not be given an event up to here again.
Position(c) == IF connection[c].phase \in Connected THEN connection[c].last ELSE cursor[c]
HasAllBehind(c) == \A s \in AllEvents : s <= Position(c) => s \in ToSet(got[c])

\* No event is passed over: whatever pages, back-fills, live frames, overflows,
\* reconnections and restarts a client's events come from, it has every event
\* up to the number it will ask from.  Only a read that failed and a read that
\* met commits may cost it one.
NothingSkipped == mishaps \cap Costly = {} => \A c \in Client : HasAllBehind(c)

\* What the module comment of http/v2/events.rs promises without exception.
NoEventMissed == \A c \in Client : HasAllBehind(c)

\* A client that keeps the largest number of an event as its cursor receives
\* every event at most once and in order, over all its connections, also when
\* the back-fill and the live frames overlap, and whatever goes wrong.
OnceInOrder ==
    \A c \in Client : habit[c] = "desktop" =>
        \A i, j \in DOMAIN got[c] : i < j => got[c][i] < got[c][j]

\* The statuses a connection has sent and is about to send, in that order.
Statuses(c) ==
    <<connection[c].status>>
        \o [j \in DOMAIN connection[c].live |->
               LET frame == connection[c].live[j]
               IN  IF frame.kind = "status" THEN frame.seq ELSE 0]

\* The status of runs does not go back on a connection: the new projection of a
\* session that was evicted or is met again after a restart does not send again
\* what was sent before, nor does a batch whose records were read ahead.
StatusForward ==
    mishaps = {} =>
        \A c \in Client : \A i, j \in DOMAIN Statuses(c) :
            i < j /\ Statuses(c)[j] # 0 => Statuses(c)[i] < Statuses(c)[j]

\* Nothing is on its way to the client.
Quiet(c) ==
    /\ publications = <<>> /\ handling = Idle
    /\ connection[c].phase = "open" /\ connection[c].queue = {}
    /\ connection[c].live = <<>> /\ ~connection[c].lagged

\* Nothing is left behind: when the feed has taken every batch and a connection
\* has nothing more to send, its client has every event of the session.  An
\* event that was neither read nor pushed would never be asked for.
NothingLeftBehind ==
    mishaps \cap Costly = {} =>
        \A c \in Client : Quiet(c) => AllEvents \subseteq ToSet(got[c])
=============================================================================
