-------------------------- MODULE EventFeedSafety --------------------------
(***************************************************************************)
(* Theorems about the event feed, for any number of clients, branches and  *)
(* records, any buffer and page, and any failures: the types, the order of *)
(* what a client receives, that it is passed over by no event and is left  *)
(* without none, and that the status of runs does not go back.             *)
(***************************************************************************)
EXTENDS EventFeed, SequenceTheorems, FiniteSetTheorems, WellFoundedInduction, TLAPS

Ids == 1 .. NRecords

-----------------------------------------------------------------------------
(* The values that are built.                                              *)

USE DEF Ids

\* The largest of a set of numbers, or 0.
LEMMA LargestType ==
    ASSUME NEW N, NEW S \in SUBSET N
    PROVE  Largest(S) \in {0} \cup N
  BY DEF Largest

LEMMA EventsAreNumbers ==
    ASSUME NEW ids \in SUBSET Ids
    PROVE  EventsOf(ids) \subseteq Nat
  <1>1. SUFFICES ASSUME NEW i \in ids, NEW k \in 0 .. Frames[records[i]] - 1
                 PROVE  EventSeq(i, k) \in Nat
    BY DEF EventsOf
  <1>2. i \in Nat /\ Slots \in Nat
    BY SlotsAssumption
  <1>3. k \in Nat
    BY SMT
  <1> QED
    BY <1>2, <1>3 DEF EventSeq

LEMMA FramesType ==
    ASSUME NEW s \in Nat
    PROVE  FramesOf(s) \in Seq(Frame)
  <1>1. \A kind \in {"event", "status"} : <<[kind |-> kind, seq |-> s]>> \in Seq(Frame)
    BY DEF Frame
  <1> QED
    BY <1>1, ConcatProperties, EmptySeq DEF FramesOf

LEMMA LastFramesType ==
    ASSUME NEW frames \in Seq(Frame)
    PROVE  LastFrames(frames) \in Seq(Frame)
  <1> DEFINE from == Len(frames) - Capacity + 1
  <1>1. Len(frames) \in Nat /\ Capacity \in Nat
    BY LenProperties, BoundsAssumption
  <1>2. CASE Len(frames) <= Capacity
    BY <1>2 DEF LastFrames
  <1>3. CASE ~(Len(frames) <= Capacity)
    <2>1. \A i \in from .. Len(frames) : frames[i] \in Frame
      BY <1>1, <1>3, ElementOfSeq
    <2>2. SubSeq(frames, from, Len(frames)) \in Seq(Frame)
      BY <1>1, <2>1, SubSeqProperties
    <2> QED
      BY <1>3, <2>2 DEF LastFrames
  <1> QED
    BY <1>2, <1>3

\* A push changes nothing of a connection but what is on its way to it.
LEMMA PushKeeps ==
    ASSUME NEW frames \in Seq(Frame), connection \in [Client -> ConnectionState]
    PROVE  /\ Push(frames) \in [Client -> ConnectionState]
           /\ \A c \in Client :
                /\ Push(frames)[c].phase = connection[c].phase
                /\ Push(frames)[c].queue = connection[c].queue
                /\ Push(frames)[c].last = connection[c].last
  <1>1. ASSUME NEW c \in Client
        PROVE  /\ Push(frames)[c] \in ConnectionState
               /\ Push(frames)[c].phase = connection[c].phase
               /\ Push(frames)[c].queue = connection[c].queue
               /\ Push(frames)[c].last = connection[c].last
    <2>1. connection[c].live \o frames \in Seq(Frame)
      BY <1>1, ConcatProperties DEF ConnectionState
    <2>2. LastFrames(connection[c].live \o frames) \in Seq(Frame)
      BY <2>1, LastFramesType
    <2>3. (connection[c].lagged \/ Len(connection[c].live) + Len(frames) > Capacity) \in BOOLEAN
      OBVIOUS
    <2> QED
      BY <2>2, <2>3 DEF Push, ConnectionState
  <1> QED
    BY <1>1 DEF Push
-----------------------------------------------------------------------------
(* Types.                                                                  *)

LEMMA StartTypes ==
    /\ NRecords \in Nat /\ MaxExtras \in Nat /\ MaxTroubles \in Nat
    /\ 1 \in Table /\ Submissions \in Table
    /\ Read(1, {}) \in ReadState
    /\ Idle.batch \in Batch
    /\ Fresh \in ConnectionState /\ Off \in ConnectionState
  <1>1. 1 \in Table /\ Submissions \in Table
    BY BoundsAssumption DEF Table, Submissions
  <1>2. <<>> \in Seq(Frame)
    BY EmptySeq
  <1>3. Read(1, {}) \in ReadState
    BY <1>1 DEF Read, ReadState
  <1> QED
    BY <1>1, <1>2, <1>3, BoundsAssumption
       DEF Idle, Batch, Fresh, Off, ConnectionState, Reading

LEMMA InitTypes == Init => TypeOK
  <1> SUFFICES ASSUME Init PROVE TypeOK
    OBVIOUS
  <1>1. records \in Seq(Table) /\ Len(records) <= NRecords /\ publications \in Seq(Batch)
    BY StartTypes, EmptySeq DEF Init
  <1>2. got \in [Client -> Seq(Nat)]
    BY EmptySeq DEF Init
  <1>3. /\ floor \in 0 .. NRecords
        /\ projection \in ProjectionState
    BY StartTypes DEF Init, NoProjection, ProjectionState
  <1>4. handling \in HandlingState
    BY StartTypes DEF Init, Idle, HandlingState
  <1> QED
    BY <1>1, <1>2, <1>3, <1>4, StartTypes DEF Init, TypeOK

\* What a read of one more table finds.
LEMMA FoundType ==
    ASSUME TypeOK, NEW read \in ReadState
    PROVE  /\ Found(read) \in SUBSET Ids
           /\ read.table # Submissions => NextRead(read) \in ReadState
  <1>1. DOMAIN records \subseteq Ids
    <2>1. records \in Seq(Table) /\ Len(records) <= NRecords
      BY DEF TypeOK
    <2>2. DOMAIN records = 1 .. Len(records) /\ Len(records) \in Nat
      BY <2>1, LenProperties
    <2> QED
      BY <2>1, <2>2, StartTypes
  <1>2. Found(read) \in SUBSET Ids
    BY <1>1 DEF Found, InTable, ReadState
  <1>3. read.table # Submissions => read.table + 1 \in Table
    BY BoundsAssumption DEF ReadState, Table, Submissions
  <1> QED
    BY <1>2, <1>3 DEF NextRead, Read, ReadState

LEMMA ProjectedType ==
    ASSUME TypeOK, NEW ids \in SUBSET Ids,
           NEW p \in ProjectionState
    PROVE  Projected(p, ids) \in ProjectionState
  <1>1. Largest(ids \ InTable(Submissions)) \in 0 .. NRecords
    <2>1. ids \ InTable(Submissions) \in SUBSET Ids
      OBVIOUS
    <2>2. {0} \cup Ids \subseteq 0 .. NRecords
      BY StartTypes
    <2> QED
      BY <2>1, <2>2, LargestType
  <1>2. Larger(p.entry, Largest(ids \ InTable(Submissions))) \in 0 .. NRecords
    BY <1>1 DEF Larger, ProjectionState
  <1>3. p.submissions \cup (ids \cap InTable(Submissions)) \in SUBSET (1 .. NRecords)
    BY DEF ProjectionState
  <1> QED
    BY <1>2, <1>3 DEF Projected, ProjectionState

LEMMA CommitTypes ==
    ASSUME TypeOK, NEW new \in NewRecords, NEW again \in OneOrNone(InTable(Submissions)),
           NEW delta \in BOOLEAN, Commit(new, again, delta)
    PROVE  TypeOK'
  <1>1. new \in Seq(Table)
    BY BoundsAssumption DEF NewRecords
  <1>2. /\ records \o new \in Seq(Table)
        /\ Len(records \o new) = Len(records) + Len(new)
        /\ Len(records) \in Nat /\ Len(new) \in Nat
    BY <1>1, ConcatProperties, LenProperties DEF TypeOK
  <1> DEFINE ids == again \cup (Len(records) + 1 .. Len(records) + Len(new))
  <1>3. again \subseteq 1 .. Len(records)
    BY LenProperties DEF TypeOK, OneOrNone, InTable
  <1>4. ids \in SUBSET Ids
    <2>1. Len(records) + Len(new) <= NRecords
      BY DEF Commit
    <2>2. again \subseteq Ids
      BY <1>2, <1>3, <2>1, StartTypes
    <2>3. Len(records) + 1 .. Len(records) + Len(new) \subseteq Ids
      BY <1>2, <2>1, StartTypes
    <2> QED
      BY <2>2, <2>3
  <1>5. [ids |-> ids, delta |-> delta] \in Batch
    BY <1>4 DEF Batch
  <1>6. publications' \in Seq(Batch)
    <2>1. publications \in Seq(Batch)
      BY DEF TypeOK
    <2>2. publications' = Append(publications, [ids |-> ids, delta |-> delta])
      BY DEF Commit
    <2> QED
      BY <1>5, <2>1, <2>2
  <1>7. extras' \in 0 .. MaxExtras
    <2>1. (extras < MaxExtras /\ extras' = extras + 1) \/ extras' = extras
      BY DEF Commit
    <2>2. extras \in 0 .. MaxExtras
      BY DEF TypeOK
    <2> QED
      BY <2>1, <2>2, StartTypes
  <1>8. records' \in Seq(Table) /\ Len(records') <= NRecords
    BY <1>2 DEF Commit
  <1> QED
    BY <1>6, <1>7, <1>8 DEF Commit, TypeOK, client

LEMMA EndBatchTypes ==
    ASSUME TypeOK, NEW seq \in Nat, EndBatch(seq)
    PROVE  /\ handling' \in HandlingState
           /\ floor' \in 0 .. NRecords
           /\ connection' \in [Client -> ConnectionState]
  <1>1. handling' \in HandlingState
    BY StartTypes DEF EndBatch, Idle, HandlingState
  <1>2. Largest(handling.batch.ids) \in 0 .. NRecords
    <2>1. handling.batch.ids \in SUBSET Ids
      BY DEF TypeOK, HandlingState, Batch
    <2> QED
      BY <2>1, StartTypes, LargestType
  <1>3. floor' \in 0 .. NRecords
    BY <1>2 DEF EndBatch, TypeOK, Larger
  <1>4. <<[kind |-> "delta", seq |-> seq]>> \in Seq(Frame)
    BY DEF Frame
  <1>5. connection' \in [Client -> ConnectionState]
    BY <1>4, PushKeeps DEF EndBatch, TypeOK
  <1> QED
    BY <1>1, <1>3, <1>5

\* A step of the feed: its own variables and the connections.
LEMMA FeedTypes ==
    ASSUME TypeOK, FeedStep
    PROVE  TypeOK'
  <1>1. ASSUME Handle PROVE TypeOK'
    <2>1. publications # <<>> /\ publications \in Seq(Batch)
      BY <1>1 DEF Handle, TypeOK
    <2>2. Head(publications) \in Batch /\ publications' \in Seq(Batch)
      BY <1>1, <2>1, HeadTailProperties DEF Handle
    <2>3. Unseen(Head(publications).ids) \in SUBSET Ids
      BY <2>2 DEF Unseen, Batch
    <2>4. EventsOf(Unseen(Head(publications).ids)) \in SUBSET Nat
      BY <2>3, EventsAreNumbers
    <2>5. handling' \in HandlingState
      BY <1>1, <2>2, <2>4, StartTypes DEF Handle, Idle, HandlingState
    <2>6. projection' \in ProjectionState
      BY <1>1, <2>3, ProjectedType DEF Handle, TypeOK
    <2> QED
      BY <1>1, <2>2, <2>5, <2>6 DEF Handle, TypeOK, client, bounds
  <1>2. ASSUME BeginSeed PROVE TypeOK'
    <2>1. publications # <<>> /\ publications \in Seq(Batch)
      BY <1>2 DEF BeginSeed, TypeOK
    <2>2. Head(publications) \in Batch /\ publications' \in Seq(Batch)
      BY <1>2, <2>1, HeadTailProperties DEF BeginSeed
    <2>3. handling' \in HandlingState
      BY <1>2, <2>2, StartTypes DEF BeginSeed, Idle, HandlingState
    <2> QED
      BY <1>2, <2>2, <2>3 DEF BeginSeed, TypeOK, client, bounds
  <1>3. ASSUME SeedRead PROVE TypeOK'
    <2>1. NextRead(handling.read) \in ReadState
      BY <1>3, FoundType DEF SeedRead, TypeOK, HandlingState
    <2> QED
      BY <1>3, <2>1 DEF SeedRead, TypeOK, HandlingState, client, bounds
  <1>4. ASSUME Seed PROVE TypeOK'
    <2> DEFINE found == Found(handling.read)
    <2>1. found \in SUBSET Ids
      BY FoundType DEF TypeOK, HandlingState
    <2>2. EventsOf(found) \in SUBSET Nat /\ Pushed(found) \in SUBSET Nat
      BY <2>1, EventsAreNumbers DEF Pushed
    <2>3. Largest(EventsOf(found)) \in Nat
      BY <2>2, LargestType
    <2>4. NoProjection \in ProjectionState
      BY StartTypes DEF NoProjection, ProjectionState
    <2>5. Projected(NoProjection, found) \in ProjectionState
      BY <2>1, <2>4, ProjectedType
    <2>6. projection' \in ProjectionState
      BY <1>4, <2>3, <2>5 DEF Seed, ProjectionState
    <2>7. handling' \in HandlingState
      BY <1>4, <2>2, StartTypes DEF Seed, TypeOK, HandlingState
    <2>8. mishaps' \subseteq Costly \cup {"evicted ahead"}
      BY <1>4 DEF Seed, TornRead, TypeOK, Costly
    <2> QED
      BY <1>4, <2>6, <2>7, <2>8 DEF Seed, TypeOK, client, bounds
  <1>5. ASSUME PushEvent PROVE TypeOK'
    <2>1. PICK s \in handling.events :
              /\ handling' = [handling EXCEPT !.events = @ \ {s}]
              /\ projection' = [projection EXCEPT !.seq = Larger(@, s)]
              /\ connection' = Push(FramesOf(s))
      BY <1>5 DEF PushEvent
    <2>2. s \in Nat
      BY <2>1 DEF TypeOK, HandlingState
    <2>3. connection' \in [Client -> ConnectionState]
      BY <2>1, <2>2, FramesType, PushKeeps DEF TypeOK
    <2>4. projection' \in ProjectionState
      BY <2>1, <2>2 DEF TypeOK, Larger, ProjectionState
    <2>5. handling' \in HandlingState
      BY <2>1 DEF TypeOK, HandlingState
    <2> QED
      BY <1>5, <2>3, <2>4, <2>5 DEF PushEvent, TypeOK, client, bounds
  <1>6. ASSUME BatchDone PROVE TypeOK'
    <2>1. projection.seq \in Nat /\ EndBatch(projection.seq)
      BY <1>6 DEF BatchDone, TypeOK, ProjectionState
    <2> QED
      BY <1>6, <2>1, EndBatchTypes DEF BatchDone, EndBatch, TypeOK, client, bounds
  <1> QED
    BY <1>1, <1>2, <1>3, <1>4, <1>5, <1>6 DEF FeedStep

LEMMA TroubleBound ==
    ASSUME TypeOK, Trouble
    PROVE  troubles' \in 0 .. MaxTroubles /\ extras' = extras
  <1>1. troubles < MaxTroubles /\ troubles' = troubles + 1 /\ extras' = extras
    BY DEF Trouble
  <1>2. troubles \in 0 .. MaxTroubles
    BY DEF TypeOK
  <1> QED
    BY <1>1, <1>2, StartTypes

\* A step that fails, of the feed or of everything.
LEMMA TroubleTypes ==
    ASSUME TypeOK, SeedFails \/ Evict \/ Restart
    PROVE  TypeOK'
  <1>1. Trouble => troubles' \in 0 .. MaxTroubles /\ extras' \in 0 .. MaxExtras
    BY TroubleBound DEF TypeOK
  <1>2. ASSUME SeedFails PROVE TypeOK'
    <2>1. Trouble /\ mishaps' = mishaps \cup {"failed read"}
      BY <1>2 DEF SeedFails, FailedRead
    <2>2. mishaps' \subseteq Costly \cup {"evicted ahead"}
      BY <2>1 DEF TypeOK, Costly
    <2>3. CASE EndBatch(0)
      BY <1>1, <2>1, <2>2, <2>3, EndBatchTypes DEF EndBatch, TypeOK, client
    <2>4. CASE /\ handling' = [handling EXCEPT !.read = Read(1, {}), !.retry = TRUE]
               /\ UNCHANGED <<records, publications, floor, projection, connection, client>>
      <3>1. handling' \in HandlingState
        BY <2>4, StartTypes DEF TypeOK, HandlingState
      <3> QED
        BY <1>1, <2>1, <2>2, <2>4, <3>1 DEF TypeOK, client
    <2> QED
      BY <1>2, <2>3, <2>4 DEF SeedFails
  <1>3. ASSUME Evict PROVE TypeOK'
    <2>0. NoProjection \in ProjectionState
      BY StartTypes DEF NoProjection, ProjectionState
    <2>1. Trouble /\ projection' \in ProjectionState
      BY <1>3, <2>0 DEF Evict
    <2>2. mishaps' \subseteq Costly \cup {"evicted ahead"}
      BY <1>3 DEF Evict, TypeOK
    <2> QED
      BY <1>1, <1>3, <2>1, <2>2 DEF Evict, TypeOK, client
  <1>4. ASSUME Restart PROVE TypeOK'
    <2>0. NoProjection \in ProjectionState
      BY StartTypes DEF NoProjection, ProjectionState
    <2>1. Trouble /\ projection' \in ProjectionState
      BY <1>4, <2>0 DEF Restart
    <2>2. handling' \in HandlingState
      BY <1>4, StartTypes DEF Restart, Idle, HandlingState
    <2>3. connection' \in [Client -> ConnectionState]
      BY <1>4, StartTypes DEF Restart, TypeOK
    <2>4. floor' \in 0 .. NRecords
      <3>1. Len(records) \in Nat /\ Len(records) <= NRecords
        BY LenProperties DEF TypeOK
      <3> QED
        BY <1>4, <3>1, StartTypes DEF Restart
    <2>5. publications' \in Seq(Batch)
      BY <1>4, EmptySeq DEF Restart
    <2> QED
      BY <1>1, <1>4, <2>1, <2>2, <2>3, <2>4, <2>5 DEF Restart, TypeOK, client
  <1> QED
    BY <1>2, <1>3, <1>4

\* A frame that reaches a client.
LEMMA ReceiveTypes ==
    ASSUME TypeOK, NEW c \in Client, NEW frame \in Frame, Receive(c, frame)
    PROVE  /\ got' \in [Client -> Seq(Nat)]
           /\ cursor' \in [Client -> Nat]
           /\ habit' \in [Client -> {"desktop", "tui"}]
  <1>1. frame.seq \in Nat
    BY DEF Frame
  <1>2. Append(got[c], frame.seq) \in Seq(Nat)
    <2>1. got[c] \in Seq(Nat)
      BY DEF TypeOK
    <2> QED
      BY <1>1, <2>1
  <1> QED
    BY <1>1, <1>2 DEF Receive, TypeOK, Larger

\* A step of a client or of its connection keeps the types if it leaves the
\* rest alone and its own variables are typed.
LEMMA SetTypes ==
    ASSUME TypeOK, NEW c \in Client, NEW state \in ConnectionState, Set(c, state)
    PROVE  connection' \in [Client -> ConnectionState]
  BY DEF Set, TypeOK

LEMMA ClientTypes ==
    ASSUME TypeOK, NEW c \in Client, ClientStep(c) \/ ReadFails(c) \/ Disconnect(c)
    PROVE  TypeOK'
  <1> USE DEF client, feed, bounds
  <1> DEFINE con == connection[c]
  <1>0. con \in ConnectionState
    BY DEF TypeOK
  <1>1. ASSUME AskPage(c) PROVE TypeOK'
    <2>1. [Fresh EXCEPT !.phase = "paging"] \in ConnectionState
      BY StartTypes DEF Fresh, ConnectionState, Reading
    <2> QED
      BY <1>1, <2>1, SetTypes DEF AskPage, TypeOK
  <1>2. ASSUME Subscribe(c) PROVE TypeOK'
    <2>1. [Off EXCEPT !.phase = "reading", !.last = cursor[c]] \in ConnectionState
      BY StartTypes DEF TypeOK, ConnectionState, Reading
    <2> QED
      BY <1>2, <2>1, SetTypes DEF Subscribe, TypeOK
  <1>3. ASSUME ReadTable(c) PROVE TypeOK'
    <2>1. NextRead(con.read) \in ReadState
      BY <1>0, <1>3, FoundType DEF ReadTable, ConnectionState
    <2>2. [con EXCEPT !.read = NextRead(@)] \in ConnectionState
      BY <1>0, <2>1 DEF ConnectionState
    <2> QED
      BY <1>3, <2>2, SetTypes DEF ReadTable, TypeOK
  <1>4. ASSUME ReadSession(c) PROVE TypeOK'
    <2> DEFINE found == Found(con.read)
               paging == con.phase = "paging"
               events == After(found, IF paging THEN cursor[c] ELSE con.last)
               page == IF paging THEN FirstOf(events) ELSE events
               state == [con EXCEPT !.phase = IF paging THEN "page" ELSE "open",
                                    !.read = Read(1, {}), !.queue = page,
                                    !.more = page # events]
    <2>1. found \in SUBSET Ids
      BY <1>0, FoundType DEF ConnectionState
    <2>2. page \in SUBSET Nat
      BY <2>1, EventsAreNumbers DEF After, FirstOf
    <2>3. (page # events) \in BOOLEAN
      OBVIOUS
    <2>4. state \in ConnectionState
      <3> HIDE DEF found, events, page
      <3> QED
        BY <1>0, <2>2, <2>3, StartTypes, ZenonT(60) DEF ConnectionState
    <2>5. connection' \in [Client -> ConnectionState]
      BY <1>4, <2>4, SetTypes DEF ReadSession
    <2>6. mishaps' \subseteq Costly \cup {"evicted ahead"}
      BY <1>4 DEF ReadSession, TornRead, TypeOK, Costly
    <2> QED
      BY <1>4, <2>5, <2>6 DEF ReadSession, TypeOK
  <1>5. ASSUME HandOut(c) PROVE TypeOK'
    <2>1. PICK s \in con.queue :
              /\ Set(c, [con EXCEPT !.queue = @ \ {s}, !.last = Larger(@, s)])
              /\ Receive(c, [kind |-> "event", seq |-> s])
      BY <1>5 DEF HandOut
    <2>2. s \in Nat /\ [kind |-> "event", seq |-> s] \in Frame
      BY <1>0 DEF ConnectionState, Frame
    <2>3. [con EXCEPT !.queue = @ \ {s}, !.last = Larger(@, s)] \in ConnectionState
      BY <1>0, <2>2 DEF ConnectionState, Larger
    <2> QED
      BY <1>5, <2>1, <2>2, <2>3, SetTypes, ReceiveTypes DEF HandOut, TypeOK
  <1>6. ASSUME TurnPage(c) PROVE TypeOK'
    BY <1>6, StartTypes, SetTypes DEF TurnPage, TypeOK
  <1>7. ASSUME TakeFrame(c) PROVE TypeOK'
    <2> DEFINE frame == Head(con.live)
               rest == [con EXCEPT !.live = Tail(@)]
               sent == [rest EXCEPT !.last = Larger(@, frame.seq),
                                    !.status = IF frame.kind = "status" THEN frame.seq ELSE @]
    <2>1. con.live # <<>> /\ con.live \in Seq(Frame)
      BY <1>0, <1>7 DEF TakeFrame, ConnectionState
    <2>2. frame \in Frame /\ Tail(con.live) \in Seq(Frame) /\ frame.seq \in Nat
      <3>1. frame \in Frame /\ Tail(con.live) \in Seq(Frame)
        BY <2>1, HeadTailProperties
      <3> QED
        BY <3>1 DEF Frame
    <2>3. rest \in ConnectionState
      BY <1>0, <2>2 DEF ConnectionState
    <2>4. sent \in ConnectionState
      BY <2>2, <2>3 DEF ConnectionState, Larger
    <2>5. CASE Set(c, rest) /\ UNCHANGED client
      BY <1>7, <2>3, <2>5, SetTypes DEF TakeFrame, TypeOK
    <2>6. CASE Set(c, sent) /\ Receive(c, frame)
      BY <1>7, <2>2, <2>4, <2>6, SetTypes, ReceiveTypes DEF TakeFrame, TypeOK
    <2> QED
      BY <1>7, <2>5, <2>6 DEF TakeFrame
  <1>8. ASSUME CatchUp(c) PROVE TypeOK'
    <2>1. [con EXCEPT !.phase = "catching", !.lagged = FALSE] \in ConnectionState
      BY <1>0 DEF ConnectionState, Reading
    <2> QED
      BY <1>8, <2>1, SetTypes DEF CatchUp, TypeOK
  <1>9. ASSUME ReadFails(c) PROVE TypeOK'
    <2>1. [con EXCEPT !.phase = "open", !.read = Read(1, {})] \in ConnectionState
      BY <1>0, StartTypes DEF ConnectionState
    <2>2. connection' \in [Client -> ConnectionState]
      BY <1>9, <2>1, StartTypes, SetTypes DEF ReadFails, Reading
    <2>3. mishaps' \subseteq Costly \cup {"evicted ahead"}
      BY <1>9 DEF ReadFails, FailedRead, TypeOK, Costly
    <2>4. troubles' \in 0 .. MaxTroubles /\ extras' = extras
      BY <1>9, TroubleBound DEF ReadFails, FailedRead
    <2> QED
      BY <1>9, <2>2, <2>3, <2>4 DEF ReadFails, TypeOK
  <1>10. ASSUME Disconnect(c) PROVE TypeOK'
    <2>1. troubles' \in 0 .. MaxTroubles /\ extras' = extras
      BY <1>10, TroubleBound DEF Disconnect
    <2> QED
      BY <1>10, <2>1, StartTypes, SetTypes DEF Disconnect, TypeOK
  <1> QED
    BY <1>1, <1>2, <1>3, <1>4, <1>5, <1>6, <1>7, <1>8, <1>9, <1>10 DEF ClientStep

LEMMA TypesKept == TypeOK /\ [Next]_vars => TypeOK'
  <1>1. CASE UNCHANGED vars
    BY <1>1 DEF TypeOK, vars, client, bounds
  <1>2. ASSUME TypeOK, Next PROVE TypeOK'
    BY <1>2, CommitTypes, FeedTypes, TroubleTypes, ClientTypes DEF Next
  <1> QED
    BY <1>1, <1>2

\* Every variable of the feed and of its clients keeps its type.
THEOREM FeedTypeCorrect == Spec => []TypeOK
  BY InitTypes, TypesKept, PTL DEF Spec

-----------------------------------------------------------------------------
(* The order of what a client receives.                                    *)

Ascending(events) == \A i, j \in DOMAIN events : i < j => events[i] < events[j]
UpTo(events, s) == \A i \in DOMAIN events : events[i] <= s

\* What a client that keeps the largest number has, wherever its connection is:
\* nothing behind its cursor, and nothing on its way that is not.
Orderly(con, s, events) ==
    /\ Ascending(events) /\ UpTo(events, s)
    /\ con.phase \in Connected => s <= con.last
    /\ con.phase = "page" => \A e \in con.queue : s < e
    /\ con.phase = "open" => \A e \in con.queue : con.last < e
    /\ con.phase \notin {"page", "open"} => con.queue = {}

Ordered(c) == habit[c] = "desktop" => Orderly(connection[c], cursor[c], got[c])

IInv == TypeOK /\ \A c \in Client : Ordered(c)

\* One more event, behind all that was received.
LEMMA OneMore ==
    ASSUME NEW events \in Seq(Nat), NEW s \in Nat, NEW t \in Nat,
           Ascending(events), UpTo(events, s), s < t
    PROVE  Ascending(Append(events, t)) /\ UpTo(Append(events, t), t)
  <1> DEFINE more == Append(events, t)
  <1>1. /\ DOMAIN more = 1 .. Len(events) + 1 /\ Len(events) \in Nat
        /\ DOMAIN events = 1 .. Len(events)
        /\ more[Len(events) + 1] = t
        /\ \A i \in 1 .. Len(events) : more[i] = events[i] /\ events[i] \in Nat
    BY LenProperties
  <1> HIDE DEF more
  <1>2. \A i \in 1 .. Len(events) : more[i] \in Nat /\ more[i] <= s
    BY <1>1 DEF UpTo
  <1>3. UpTo(more, t)
    BY <1>1, <1>2 DEF UpTo
  <1>4. ASSUME NEW i \in DOMAIN more, NEW j \in DOMAIN more, i < j
        PROVE  more[i] < more[j]
    <2>1. CASE j = Len(events) + 1
      BY <1>1, <1>2, <1>4, <2>1
    <2>2. CASE j # Len(events) + 1
      BY <1>1, <1>4, <2>2 DEF Ascending
    <2> QED
      BY <2>1, <2>2
  <1> QED
    BY <1>3, <1>4 DEF Ascending, more

\* A client whose request or connection is neither handing out nor receiving.
LEMMA Waiting ==
    ASSUME NEW con, NEW s, NEW events, NEW next, Orderly(con, s, events),
           next.phase \in {"new", "off", "paging", "reading", "catching"},
           next.queue = {},
           next.phase \in {"reading", "catching"} => s <= next.last
    PROVE  Orderly(next, s, events)
  BY DEF Orderly, Connected

\* An event that is handed out, or that the hub has sent and is not known yet.
LEMMA GivenOut ==
    ASSUME TypeOK, NEW c \in Client, habit[c] = "desktop", NEW s \in Nat,
           Ascending(got[c]), UpTo(got[c], cursor[c]), cursor[c] < s,
           Receive(c, [kind |-> "event", seq |-> s])
    PROVE  /\ cursor'[c] = s
           /\ Ascending(got'[c]) /\ UpTo(got'[c], s)
  <1>1. got'[c] = Append(got[c], s) /\ cursor'[c] = Larger(cursor[c], s)
    BY DEF Receive, TypeOK
  <1>2. got[c] \in Seq(Nat) /\ cursor[c] \in Nat
    BY DEF TypeOK
  <1>3. cursor'[c] = s
    BY <1>1, <1>2 DEF Larger
  <1> QED
    BY <1>1, <1>2, <1>3, OneMore

LEMMA OthersKept ==
    ASSUME TypeOK, NEW c \in Client, ClientStep(c) \/ ReadFails(c) \/ Disconnect(c),
           NEW d \in Client \ {c}
    PROVE  /\ connection'[d] = connection[d] /\ habit'[d] = habit[d]
           /\ cursor'[d] = cursor[d] /\ got'[d] = got[d]
  <1>1. ASSUME NEW state, Set(c, state) PROVE connection'[d] = connection[d]
    BY <1>1 DEF Set, TypeOK
  <1>2. ASSUME NEW frame, Receive(c, frame)
        PROVE  habit'[d] = habit[d] /\ cursor'[d] = cursor[d] /\ got'[d] = got[d]
    BY <1>2 DEF Receive, TypeOK
  <1>3. connection'[d] = connection[d]
    BY <1>1 DEF ClientStep, AskPage, Subscribe, ReadTable, ReadSession, HandOut, TurnPage,
                TakeFrame, CatchUp, ReadFails, Disconnect
  <1>4. habit'[d] = habit[d] /\ cursor'[d] = cursor[d] /\ got'[d] = got[d]
    BY <1>2 DEF ClientStep, AskPage, Subscribe, ReadTable, ReadSession, HandOut, TurnPage,
                TakeFrame, CatchUp, ReadFails, Disconnect, client
  <1> QED
    BY <1>3, <1>4

\* What a step of a client leaves of its own cursor and events.
LEMMA OrderedNext ==
    ASSUME TypeOK, NEW c \in Client, NEW next, Set(c, next), UNCHANGED client,
           Orderly(next, cursor[c], got[c])
    PROVE  Ordered(c)'
  <1>1. connection'[c] = next
    BY DEF Set, TypeOK
  <1> QED
    BY <1>1 DEF Ordered, client

LEMMA ClientOrder ==
    ASSUME IInv, NEW c \in Client, ClientStep(c) \/ ReadFails(c) \/ Disconnect(c),
           habit[c] = "desktop"
    PROVE  Ordered(c)'
  <1> DEFINE con == connection[c]
  <1>0. /\ con \in ConnectionState /\ cursor[c] \in Nat /\ got[c] \in Seq(Nat)
        /\ Orderly(con, cursor[c], got[c])
        /\ TypeOK
    BY DEF IInv, TypeOK, Ordered
  <1>1. ASSUME AskPage(c) PROVE Ordered(c)'
    <2>1. Orderly([Fresh EXCEPT !.phase = "paging"], cursor[c], got[c])
      BY <1>0, Waiting DEF Fresh
    <2> QED
      BY <1>0, <1>1, <2>1, OrderedNext DEF AskPage
  <1>2. ASSUME Subscribe(c) PROVE Ordered(c)'
    <2> DEFINE next == [Off EXCEPT !.phase = "reading", !.last = cursor[c]]
    <2>1. next.phase = "reading" /\ next.queue = {} /\ next.last = cursor[c]
      BY DEF Off, Fresh
    <2>2. Orderly(next, cursor[c], got[c])
      <3> HIDE DEF next
      <3> QED
        BY <1>0, <2>1, Waiting
    <2> QED
      BY <1>0, <1>2, <2>2, OrderedNext DEF Subscribe
  <1>3. ASSUME ReadTable(c) PROVE Ordered(c)'
    <2> DEFINE next == [con EXCEPT !.read = NextRead(@)]
    <2>1. next.phase = con.phase /\ next.queue = con.queue /\ next.last = con.last
      BY <1>0 DEF ConnectionState
    <2>2. Orderly(next, cursor[c], got[c])
      <3> HIDE DEF next
      <3> QED
        BY <1>0, <2>1 DEF Orderly
    <2> QED
      BY <1>0, <1>3, <2>2, OrderedNext DEF ReadTable
  <1>4. ASSUME ReadSession(c) PROVE Ordered(c)'
    <2> DEFINE found == Found(con.read)
               paging == con.phase = "paging"
               events == After(found, IF paging THEN cursor[c] ELSE con.last)
               page == IF paging THEN FirstOf(events) ELSE events
               next == [con EXCEPT !.phase = IF paging THEN "page" ELSE "open",
                                   !.read = Read(1, {}), !.queue = page,
                                   !.more = page # events]
    <2>1. Set(c, next) /\ UNCHANGED client /\ con.phase \in Reading
      BY <1>4 DEF ReadSession
    <2>2. \A e \in page : IF paging THEN cursor[c] < e ELSE con.last < e
      BY DEF After, FirstOf
    <2>3. /\ next.phase = IF paging THEN "page" ELSE "open"
          /\ next.queue = page /\ next.last = con.last
      <3> HIDE DEF found, events, page
      <3> QED
        BY <1>0 DEF ConnectionState
    <2>4. ~paging => cursor[c] <= con.last
      BY <1>0, <2>1 DEF Orderly, Reading, Connected
    <2>5. Orderly(next, cursor[c], got[c])
      <3> HIDE DEF page, next
      <3> QED
        BY <1>0, <2>2, <2>3, <2>4 DEF Orderly, Connected
    <2> QED
      BY <1>0, <2>1, <2>5, OrderedNext
  <1>5. ASSUME HandOut(c) PROVE Ordered(c)'
    <2>1. PICK s \in con.queue :
              /\ \A e \in con.queue : s <= e
              /\ Set(c, [con EXCEPT !.queue = @ \ {s}, !.last = Larger(@, s)])
              /\ Receive(c, [kind |-> "event", seq |-> s])
      BY <1>5 DEF HandOut
    <2>2. s \in Nat /\ con.queue \subseteq Nat /\ con.last \in Nat
      BY <1>0 DEF ConnectionState
    <2>3. con.phase \in {"page", "open"} /\ cursor[c] < s
      BY <1>0, <2>2 DEF Orderly, Connected
    <2>4. cursor'[c] = s /\ Ascending(got'[c]) /\ UpTo(got'[c], s)
      BY <1>0, <2>1, <2>2, <2>3, GivenOut DEF Orderly
    <2>5. /\ connection'[c].phase = con.phase
          /\ connection'[c].queue = con.queue \ {s}
          /\ connection'[c].last = Larger(con.last, s)
      BY <1>0, <2>1, ZenonT(60) DEF Set, TypeOK, ConnectionState
    <2>6. \A e \in con.queue \ {s} : s < e
      BY <2>1, <2>2
    <2>7. con.phase = "open" => Larger(con.last, s) = s
      BY <1>0, <2>2 DEF Orderly, Larger
    <2>8. s <= s /\ Larger(con.last, s) \in Nat
      BY <2>2 DEF Larger
    <2>9. Orderly(connection'[c], s, got'[c])
      BY <2>3, <2>4, <2>5, <2>6, <2>7, <2>8 DEF Orderly, Connected
    <2> QED
      BY <2>4, <2>9 DEF Ordered
  <1>6. ASSUME TurnPage(c) PROVE Ordered(c)'
    <2>1. Orderly(Fresh, cursor[c], got[c]) /\ Orderly(Off, cursor[c], got[c])
      BY <1>0, Waiting, SMTT(30) DEF Fresh, Off
    <2> QED
      BY <1>0, <1>6, <2>1, OrderedNext DEF TurnPage
  <1>7. ASSUME TakeFrame(c) PROVE Ordered(c)'
    <2> DEFINE frame == Head(con.live)
               rest == [con EXCEPT !.live = Tail(@)]
               sent == [rest EXCEPT !.last = Larger(@, frame.seq),
                                    !.status = IF frame.kind = "status" THEN frame.seq ELSE @]
    <2>1. con.phase = "open" /\ con.queue = {} /\ con.live # <<>> /\ con.live \in Seq(Frame)
      BY <1>0, <1>7 DEF TakeFrame, ConnectionState
    <2>2. frame \in Frame /\ frame.seq \in Nat
      <3>1. frame \in Frame
        BY <2>1, HeadTailProperties
      <3> QED
        BY <3>1 DEF Frame
    <2>3. cursor[c] <= con.last /\ con.last \in Nat
      BY <1>0, <2>1 DEF Orderly, Connected, ConnectionState
    <2>4. rest.phase = "open" /\ rest.queue = {} /\ rest.last = con.last
      BY <1>0, <2>1 DEF ConnectionState
    <2>5. /\ sent.phase = "open" /\ sent.queue = {}
          /\ sent.last = Larger(con.last, frame.seq)
      BY <1>0, <2>1 DEF ConnectionState
    <2>6. CASE Set(c, rest) /\ UNCHANGED client
      <3>1. Orderly(rest, cursor[c], got[c])
        <4> HIDE DEF rest
        <4> QED
          BY <1>0, <2>3, <2>4 DEF Orderly, Connected
      <3> QED
        BY <1>0, <2>6, <3>1, OrderedNext
    <2>7. CASE ~AlreadySent(frame, con.last) /\ Set(c, sent) /\ Receive(c, frame)
      <3>1. connection'[c] = sent
        BY <1>0, <2>7 DEF Set, TypeOK
      <3>2. CASE frame.kind = "event"
        <4>1. cursor[c] < frame.seq /\ Larger(con.last, frame.seq) = frame.seq
          BY <2>2, <2>3, <2>7, <3>2, <1>0 DEF AlreadySent, Larger
        <4>2. frame = [kind |-> "event", seq |-> frame.seq]
          BY <2>2, <3>2 DEF Frame
        <4>3. /\ cursor'[c] = frame.seq
              /\ Ascending(got'[c]) /\ UpTo(got'[c], frame.seq)
          <5> HIDE DEF frame
          <5> QED
            BY <1>0, <2>2, <2>7, <4>1, <4>2, GivenOut DEF Orderly
        <4>4. Orderly(sent, frame.seq, got'[c])
          <5> HIDE DEF sent, frame
          <5> QED
            BY <2>2, <2>5, <4>1, <4>3 DEF Orderly, Connected
        <4> QED
          BY <3>1, <4>3, <4>4 DEF Ordered
      <3>3. CASE frame.kind # "event"
        <4>1. cursor'[c] = cursor[c] /\ got' = got
          BY <1>0, <2>7, <3>3 DEF Receive, TypeOK
        <4>2. cursor[c] <= Larger(con.last, frame.seq)
          BY <1>0, <2>2, <2>3 DEF Larger
        <4>3. Orderly(sent, cursor[c], got[c])
          <5> HIDE DEF sent, frame
          <5> QED
            BY <1>0, <2>5, <4>2 DEF Orderly, Connected
        <4> QED
          BY <3>1, <4>1, <4>3 DEF Ordered
      <3> QED
        BY <3>2, <3>3
    <2> QED
      BY <1>7, <2>4, <2>6, <2>7 DEF TakeFrame
  <1>8. ASSUME CatchUp(c) PROVE Ordered(c)'
    <2> DEFINE next == [con EXCEPT !.phase = "catching", !.lagged = FALSE]
    <2>1. next.phase = "catching" /\ next.queue = {} /\ next.last = con.last
      BY <1>0, <1>8 DEF ConnectionState, CatchUp
    <2>2. cursor[c] <= con.last
      BY <1>0, <1>8 DEF CatchUp, Orderly, Connected
    <2>3. Orderly(next, cursor[c], got[c])
      <3> HIDE DEF next
      <3> QED
        BY <1>0, <2>1, <2>2, Waiting
    <2> QED
      BY <1>0, <1>8, <2>3, OrderedNext DEF CatchUp
  <1>9. ASSUME ReadFails(c) PROVE Ordered(c)'
    <2> DEFINE back == [con EXCEPT !.phase = "open", !.read = Read(1, {})]
    <2>1. UNCHANGED client /\ con.phase \in Reading
      BY <1>9 DEF ReadFails
    <2>2. con.queue = {} /\ (con.phase = "catching" => cursor[c] <= con.last)
      BY <1>0, <2>1 DEF Orderly, Reading, Connected
    <2>3. back.phase = "open" /\ back.queue = con.queue /\ back.last = con.last
      BY <1>0 DEF ConnectionState
    <2>4. con.phase = "catching" => Orderly(back, cursor[c], got[c])
      <3> HIDE DEF back
      <3> QED
        BY <1>0, <2>2, <2>3 DEF Orderly, Connected
    <2>5. Orderly(Fresh, cursor[c], got[c]) /\ Orderly(Off, cursor[c], got[c])
      BY <1>0, Waiting, SMTT(30) DEF Fresh, Off
    <2>6. \/ con.phase = "catching" /\ Set(c, back)
          \/ Set(c, Off)
          \/ Set(c, Fresh)
      BY <1>9, <2>1 DEF ReadFails, Reading
    <2> HIDE DEF back
    <2> QED
      BY <1>0, <2>1, <2>4, <2>5, <2>6, OrderedNext
  <1>10. ASSUME Disconnect(c) PROVE Ordered(c)'
    <2>1. Orderly(Off, cursor[c], got[c])
      BY <1>0, Waiting DEF Fresh, Off
    <2> QED
      BY <1>0, <1>10, <2>1, OrderedNext DEF Disconnect
  <1> QED
    BY <1>1, <1>2, <1>3, <1>4, <1>5, <1>6, <1>7, <1>8, <1>9, <1>10 DEF ClientStep

\* A push of the feed, or a restart.
LEMMA FeedOrder ==
    ASSUME IInv, FeedStep \/ SeedFails \/ Evict \/ Restart, NEW c \in Client
    PROVE  Ordered(c)'
  <1>0. TypeOK /\ Ordered(c)
    BY DEF IInv
  <1>1. UNCHANGED client
    BY DEF FeedStep, Handle, BeginSeed, SeedRead, Seed, PushEvent, BatchDone, EndBatch,
           SeedFails, Evict, Restart, client
  <1>2. CASE UNCHANGED connection
    BY <1>0, <1>1, <1>2 DEF Ordered, client
  <1>3. ASSUME NEW frames \in Seq(Frame), connection' = Push(frames)
        PROVE  Ordered(c)'
    <2>1. /\ connection'[c].phase = connection[c].phase
          /\ connection'[c].queue = connection[c].queue
          /\ connection'[c].last = connection[c].last
      BY <1>0, <1>3, PushKeeps DEF TypeOK
    <2>2. habit' = habit /\ cursor' = cursor /\ got' = got
      BY <1>1 DEF client
    <2> QED
      BY <1>0, <2>1, <2>2 DEF Ordered, Orderly
  <1>4. ASSUME NEW seq \in Nat, EndBatch(seq) PROVE Ordered(c)'
    <2>1. <<[kind |-> "delta", seq |-> seq]>> \in Seq(Frame)
      BY DEF Frame
    <2> QED
      BY <1>2, <1>3, <1>4, <2>1 DEF EndBatch
  <1>5. ASSUME PushEvent PROVE Ordered(c)'
    <2>1. PICK s \in handling.events : connection' = Push(FramesOf(s))
      BY <1>5 DEF PushEvent
    <2>2. s \in Nat
      BY <1>0, <2>1 DEF TypeOK, HandlingState
    <2> QED
      BY <1>3, <2>1, <2>2, FramesType
  <1>6. ASSUME Restart PROVE Ordered(c)'
    <2> DEFINE con == connection[c]
    <2>1. connection'[c] = CASE con.phase \in Connected -> Off
                             [] con.phase = "paging" -> Fresh
                             [] OTHER -> con
      BY <1>6 DEF Restart
    <2>2. connection'[c] = Off \/ connection'[c] = Fresh \/ connection'[c] = con
      BY <2>1
    <2>3. ASSUME Orderly(con, cursor[c], got[c])
          PROVE  Orderly(Fresh, cursor[c], got[c]) /\ Orderly(Off, cursor[c], got[c])
      BY <2>3, Waiting DEF Fresh, Off
    <2>4. habit' = habit /\ cursor' = cursor /\ got' = got
      BY <1>1 DEF client
    <2> QED
      BY <1>0, <2>2, <2>3, <2>4 DEF Ordered
  <1>7. ASSUME SeedFails PROVE Ordered(c)'
    BY <1>2, <1>4, <1>7 DEF SeedFails
  <1>8. projection.seq \in Nat
    BY <1>0 DEF TypeOK, ProjectionState
  <1>9. ASSUME BatchDone PROVE Ordered(c)'
    BY <1>4, <1>8, <1>9 DEF BatchDone
  <1>10. ASSUME Handle \/ BeginSeed \/ SeedRead \/ Seed \/ Evict PROVE Ordered(c)'
    BY <1>2, <1>10 DEF Handle, BeginSeed, SeedRead, Seed, Evict
  <1> QED
    BY <1>5, <1>6, <1>7, <1>9, <1>10 DEF FeedStep

LEMMA OrderKept == IInv /\ [Next]_vars => IInv'
  <1> SUFFICES ASSUME IInv, [Next]_vars PROVE IInv'
    OBVIOUS
  <1>1. TypeOK'
    BY TypesKept DEF IInv
  <1>2. ASSUME NEW c \in Client PROVE Ordered(c)'
    <2>1. CASE UNCHANGED <<connection, client>>
      BY <2>1 DEF IInv, Ordered, client
    <2>2. ASSUME NEW d \in Client, ClientStep(d) \/ ReadFails(d) \/ Disconnect(d)
          PROVE  Ordered(c)'
      <3>1. CASE c = d
        <4>1. habit' = habit
          BY <2>2 DEF ClientStep, AskPage, Subscribe, ReadTable, ReadSession, HandOut,
                      TurnPage, TakeFrame, CatchUp, ReadFails, Disconnect, Receive, client
        <4>2. CASE habit[c] = "desktop"
          BY <2>2, <3>1, <4>2, ClientOrder
        <4> QED
          BY <4>1, <4>2 DEF Ordered
      <3>2. CASE c # d
        <4>1. /\ connection'[c] = connection[c] /\ habit'[c] = habit[c]
              /\ cursor'[c] = cursor[c] /\ got'[c] = got[c]
          BY <2>2, <3>2, OthersKept DEF IInv
        <4> QED
          BY <4>1 DEF IInv, Ordered
      <3> QED
        BY <3>1, <3>2
    <2>3. ASSUME FeedStep \/ SeedFails \/ Evict \/ Restart PROVE Ordered(c)'
      BY <2>3, FeedOrder
    <2>4. CASE \E new \in NewRecords, again \in OneOrNone(InTable(Submissions)),
                  delta \in BOOLEAN : Commit(new, again, delta)
      <3>1. UNCHANGED <<connection, client>>
        BY <2>4 DEF Commit
      <3> QED
        BY <2>1, <3>1
    <2>5. CASE UNCHANGED vars
      BY <2>1, <2>5 DEF vars, client
    <2>6. CASE \E d \in Client : ClientStep(d) \/ ReadFails(d) \/ Disconnect(d)
      BY <2>2, <2>6
    <2>7. Next \/ UNCHANGED vars
      OBVIOUS
    <2> QED
      BY <2>3, <2>4, <2>5, <2>6, <2>7 DEF Next
  <1> QED
    BY <1>1, <1>2 DEF IInv

\* A client that keeps the largest number of an event as its cursor receives no
\* event twice and none out of order, over any pages, back-fills, overflows,
\* reconnections, failing reads and restarts, whatever the feed pushes.
THEOREM EventsInOrder == Spec => []OnceInOrder
  <1>1. Init => IInv
    <2> SUFFICES ASSUME Init PROVE IInv
      OBVIOUS
    <2>1. ASSUME NEW c \in Client PROVE Orderly(connection[c], cursor[c], got[c])
      BY <2>1 DEF Init, Fresh, Orderly, Ascending, UpTo, Connected
    <2> QED
      BY <2>1, InitTypes DEF IInv, Ordered
  <1>2. IInv => OnceInOrder
    BY DEF IInv, Ordered, Orderly, Ascending, OnceInOrder
  <1> QED
    BY <1>1, <1>2, OrderKept, PTL DEF Spec

\* A set of natural numbers has a least one.
LEMMA Least ==
    ASSUME NEW S \in SUBSET Nat, S # {}
    PROVE  \E m \in S : \A e \in S : m <= e
  <1> DEFINE Less == {pair \in Nat \X Nat : pair[1] < pair[2]}
  <1>1. IsWellFoundedOn(Less, Nat)
    BY NatLessThanWellFounded DEF OpToRel
  <1>2. PICK m \in S : \A e \in S : ~(<<e, m>> \in Less)
    <2> HIDE DEF Less
    <2> QED
      BY <1>1, WFMin
  <1>3. ASSUME NEW e \in S PROVE m <= e
    <2>1. <<e, m>> \in Nat \X Nat /\ <<e, m>>[1] = e /\ <<e, m>>[2] = m
      OBVIOUS
    <2>2. ~(e < m)
      BY <1>2, <2>1
    <2>3. m \in Nat /\ e \in Nat
      OBVIOUS
    <2> QED
      BY <2>2, <2>3
  <1> QED
    BY <1>3

\* A set of numbers with a bound has a greatest one, which `Largest' is.
LEMMA LargestBounds ==
    ASSUME NEW n \in Nat, NEW S \in SUBSET (0 .. n)
    PROVE  /\ Largest(S) \in 0 .. n
           /\ \A e \in S : e <= Largest(S)
           /\ S = {} => Largest(S) = 0
           /\ S # {} => Largest(S) \in S
  <1>1. CASE S = {}
    BY <1>1 DEF Largest
  <1>2. CASE S # {}
    <2> DEFINE gaps == {n - e : e \in S}
    <2>1. gaps \in SUBSET Nat
      OBVIOUS
    <2>2. gaps # {}
      <3>1. PICK e \in S : TRUE
        BY <1>2
      <3> QED
        BY <3>1
    <2>3. PICK gap \in gaps : \A g \in gaps : gap <= g
      <3> HIDE DEF gaps
      <3> QED
        BY <2>1, <2>2, Least
    <2>4. PICK m \in S : gap = n - m
      OBVIOUS
    <2>5. \A e \in S : n - m <= n - e
      BY <2>3, <2>4
    <2>6. \A e \in S : e <= m
      BY <2>5
    <2> DEFINE tops == {t \in S : \A e \in S : e <= t}
    <2>7. m \in tops
      BY <2>6
    <2>8. Largest(S) \in tops
      BY <2>7 DEF Largest
    <2> QED
      BY <1>2, <2>8
  <1> QED
    BY <1>1, <1>2

\* The numbers of a record's events lie between its own and that of the next.
LEMMA EventBounds ==
    ASSUME NEW i \in Nat, NEW k \in 0 .. Slots - 1, NEW n \in Nat
    PROVE  EventSeq(i, k) \in Nat /\ (EventSeq(i, k) < EventSeq(n, 0) <=> i < n)
  <1>1. Slots \in Nat \ {0} /\ k \in Nat
    BY SlotsAssumption, SMT
  <1>2. i * Slots \in Nat /\ n * Slots \in Nat
    BY <1>1
  <1>3. (i + 1) * Slots = i * Slots + Slots
    BY <1>1
  <1>4. CASE i < n
    <2>1. (i + 1) * Slots <= n * Slots
      BY <1>1, <1>4
    <2> QED
      BY <1>1, <1>2, <1>3, <1>4, <2>1 DEF EventSeq
  <1>5. CASE n <= i
    <2>1. n * Slots <= i * Slots
      BY <1>1, <1>5
    <2> QED
      BY <1>1, <1>2, <1>5, <2>1 DEF EventSeq
  <1> QED
    BY <1>4, <1>5

\* The events of some records of a table of records.
EventsIn(rec, ids) == UNION {{EventSeq(i, k) : k \in 0 .. Frames[rec[i]] - 1} : i \in ids}

\* An event has one record: it is an event of a set of records if its record is
\* one of them, and it comes before another record's if its record does.
LEMMA EventHasRecord ==
    ASSUME NEW rec \in Seq(Table), NEW s \in EventsIn(rec, DOMAIN rec)
    PROVE  /\ s \in Nat
           /\ \E i \in DOMAIN rec :
                /\ \A ids \in SUBSET DOMAIN rec : s \in EventsIn(rec, ids) <=> i \in ids
                /\ \A n \in Nat : s < EventSeq(n, 0) <=> i < n
  <1>1. DOMAIN rec \subseteq Nat \ {0} /\ \A i \in DOMAIN rec : rec[i] \in Table
    BY LenProperties, ElementOfSeq
  <1>2. \A i \in DOMAIN rec : Frames[rec[i]] \in 1 .. Slots
    BY <1>1, SlotsAssumption
  <1>3. PICK i \in DOMAIN rec : \E k \in 0 .. Frames[rec[i]] - 1 : s = EventSeq(i, k)
    BY DEF EventsIn
  <1>4. \A j \in DOMAIN rec : \A l \in 0 .. Frames[rec[j]] - 1 : l \in 0 .. Slots - 1
    BY <1>2, SlotsAssumption
  <1>5. s \in Nat /\ \A n \in Nat : s < EventSeq(n, 0) <=> i < n
    BY <1>1, <1>3, <1>4, EventBounds
  <1>6. ASSUME NEW ids \in SUBSET DOMAIN rec, s \in EventsIn(rec, ids)
        PROVE  i \in ids
    <2>1. PICK j \in ids : \E l \in 0 .. Frames[rec[j]] - 1 : s = EventSeq(j, l)
      BY <1>6 DEF EventsIn
    <2>2. \A n \in Nat : s < EventSeq(n, 0) <=> j < n
      BY <1>1, <1>4, <2>1, EventBounds
    <2>3. i < j + 1 /\ j < i + 1
      <3>1. i \in Nat /\ j \in Nat
        BY <1>1
      <3>2. i + 1 \in Nat /\ j + 1 \in Nat
        BY <3>1
      <3>3. (s < EventSeq(i + 1, 0) <=> i < i + 1) /\ (s < EventSeq(i + 1, 0) <=> j < i + 1)
        BY <1>5, <2>2, <3>2
      <3>4. (s < EventSeq(j + 1, 0) <=> i < j + 1) /\ (s < EventSeq(j + 1, 0) <=> j < j + 1)
        BY <1>5, <2>2, <3>2
      <3> QED
        BY <3>1, <3>3, <3>4
    <2>4. i = j
      BY <1>1, <2>3
    <2> QED
      BY <2>4
  <1>7. \A ids \in SUBSET DOMAIN rec : i \in ids => s \in EventsIn(rec, ids)
    BY <1>3 DEF EventsIn
  <1> QED
    BY <1>5, <1>6, <1>7

\* An event comes before the events of a later record, and a set of records
\* that holds its record holds it.
LEMMA EventPlaces ==
    ASSUME NEW rec \in Seq(Table), NEW s \in EventsIn(rec, DOMAIN rec), NEW n \in Nat
    PROVE  /\ s \in Nat
           /\ s < EventSeq(n + 1, 0) <=> s \in EventsIn(rec, {i \in DOMAIN rec : i <= n})
           /\ ~(s < EventSeq(n + 1, 0)) <=> s \in EventsIn(rec, {i \in DOMAIN rec : i > n})
  <1>1. PICK i \in DOMAIN rec :
            /\ \A ids \in SUBSET DOMAIN rec : s \in EventsIn(rec, ids) <=> i \in ids
            /\ \A m \in Nat : s < EventSeq(m, 0) <=> i < m
    BY EventHasRecord
  <1>2. i \in Nat /\ n + 1 \in Nat
    BY LenProperties
  <1>3. s < EventSeq(n + 1, 0) <=> i <= n
    BY <1>1, <1>2
  <1> QED
    BY <1>1, <1>2, <1>3, EventHasRecord

\* The events of records that are there stay what they are.
LEMMA EventsStay ==
    ASSUME NEW rec, NEW next, NEW ids, \A i \in ids : next[i] = rec[i]
    PROVE  EventsIn(next, ids) = EventsIn(rec, ids)
  BY DEF EventsIn

-----------------------------------------------------------------------------
(* The events a client has, and those on their way.                        *)

\* The number behind the events of the first records.
First(n) == EventSeq(n + 1, 0)

Unharmed == mishaps \cap Costly = {}

\* The feed has taken the batches up to here.
Taken == Larger(floor, Largest(handling.batch.ids))

\* Behind what the feed has taken, the batches of the queue hold every record,
\* and none before one with a smaller ID.
QueueWhole ==
    /\ handling.phase = "idle" => handling = Idle
    /\ floor <= Len(records) /\ handling.batch.ids \subseteq DOMAIN records
    /\ \A p \in DOMAIN publications : publications[p].ids \subseteq DOMAIN records
    /\ \A p \in DOMAIN publications : \A i \in publications[p].ids, j \in DOMAIN records :
           Taken < j /\ j <= i => \E q \in 1 .. p : j \in publications[q].ids
    /\ \A j \in DOMAIN records :
           Taken < j => \E p \in DOMAIN publications : j \in publications[p].ids

\* The projection has seen the records up to here, whatever table they are in.
LevelOf(p) == Larger(p.entry, Largest(p.submissions))
Sees(p, i) == IF records[i] = Submissions THEN i \in p.submissions ELSE i <= p.entry
SeesUpTo(p, n) ==
    /\ n = LevelOf(p) /\ n <= Len(records) /\ p.submissions \subseteq DOMAIN records
    /\ \A i \in DOMAIN records : i <= n <=> Sees(p, i)

Level == LevelOf(projection)

\* What a read has found, and what it will find of the records that are there.
WillFind(read) == read.found \cup {i \in DOMAIN records : records[i] >= read.table}

\* The projection is no further behind than the batches that were taken, and
\* what is pushed does not run ahead of it.
ProjectionWhole ==
    /\ handling.phase = "pushing" => projection.on
    /\ handling.phase = "reading" =>
           /\ ~projection.on
           /\ 1 .. Taken \subseteq WillFind(handling.read)
           /\ handling.read.found \subseteq DOMAIN records
    /\ handling.phase # "pushing" => handling.events = {}
    /\ projection.on =>
           /\ Taken <= Level /\ SeesUpTo(projection, Level)
           /\ projection.seq < First(Level)
           /\ \A s \in handling.events : s \in AllEvents /\ s < First(Level)

\* Events that are not yet pushed.
Ahead == {s \in AllEvents : First(IF projection.on THEN Level ELSE floor) <= s}
Unsent == handling.events \cup Ahead

\* Events that a client has, or that its connection has read or will read.
Coming(con) ==
    IF con.phase \in {"reading", "catching"} THEN EventsOf(WillFind(con.read)) ELSE {}
Has(c) == ToSet(got[c]) \cup connection[c].queue \cup Coming(connection[c])

InLive(live, n, s) == \E k \in 1 .. n : live[k].kind = "event" /\ live[k].seq = s

\* No frame of the hub comes to a connection before an event with a smaller
\* number, and no event is lost between storage and hub.
Follows(con, all, has, unsent) ==
    con.phase \in Connected /\ ~con.lagged =>
        /\ \A j \in DOMAIN con.live : \A s \in all :
               s <= con.live[j].seq => s \in has \/ InLive(con.live, j, s)
        /\ \A s \in all : s \in has \cup unsent \/ InLive(con.live, Len(con.live), s)

\* Nothing is missing behind what is handed out, behind the cursor and behind
\* the last number a connection has sent.
Gapless(con, all, has, at, top) ==
    /\ \A q \in con.queue : q < top /\ \A s \in all : s < q => s \in has \cup con.queue
    /\ at < top /\ \A s \in all : s <= at => s \in has
    /\ con.phase \in Connected =>
           con.last < top /\ \A s \in all : s <= con.last => s \in has
    /\ \A j \in DOMAIN con.live : con.live[j].seq < top
    /\ con.phase \notin {"page", "open"} => con.queue = {}
    /\ con.phase \notin Reading => con.read = Read(1, {})

Served(c) ==
    /\ Follows(connection[c], AllEvents, Has(c), Unsent)
    /\ Gapless(connection[c], AllEvents, ToSet(got[c]), cursor[c], First(Len(records)))
    /\ connection[c].read.found \subseteq DOMAIN records

Whole == ProjectionWhole /\ \A c \in Client : Served(c)

WInv == TypeOK /\ QueueWhole /\ (Unharmed => Whole)

-----------------------------------------------------------------------------
(* What the parts of the invariant depend on.                              *)

\* What a connection has, or will be pushed, may grow.
LEMMA FollowsOn ==
    ASSUME NEW con, NEW next, NEW all, NEW all_, NEW has, NEW has_, NEW unsent, NEW unsent_,
           Follows(con, all, has, unsent),
           next.phase \in Connected /\ ~next.lagged =>
               con.phase \in Connected /\ ~con.lagged /\ next.live = con.live,
           has \subseteq has_, unsent \subseteq has_ \cup unsent_,
           \A s \in all_ \ all :
               s \in unsent_ /\ \A j \in DOMAIN con.live : ~(s <= con.live[j].seq)
    PROVE  Follows(next, all_, has_, unsent_)
  BY DEF Follows

\* A connection that has every event, or will read it, misses none.
LEMMA FollowsAll ==
    ASSUME NEW con, NEW all, NEW has, NEW unsent, all \subseteq has
    PROVE  Follows(con, all, has, unsent)
  BY DEF Follows

\* A push to a connection that has not lost a frame.
LEMMA FollowsPush ==
    ASSUME NEW con \in ConnectionState, NEW next, NEW frames \in Seq(Frame),
           NEW all, NEW has, NEW unsent, NEW unsent_,
           Follows(con, all, has, unsent),
           next.phase = con.phase,
           next.phase \in Connected => next.live = LastFrames(con.live \o frames),
           next.phase \in Connected =>
               next.lagged = (con.lagged \/ Len(con.live) + Len(frames) > Capacity),
           \A j \in DOMAIN frames : \A s \in all :
               s <= frames[j].seq => s \notin unsent \/ InLive(frames, j, s),
           \A s \in unsent : s \in unsent_ \/ InLive(frames, Len(frames), s)
    PROVE  Follows(next, all, has, unsent_)
  <1> SUFFICES ASSUME next.phase \in Connected, ~next.lagged
               PROVE  /\ \A j \in DOMAIN next.live : \A s \in all :
                             s <= next.live[j].seq => s \in has \/ InLive(next.live, j, s)
                      /\ \A s \in all :
                             s \in has \cup unsent_ \/ InLive(next.live, Len(next.live), s)
    BY DEF Follows
  <1> DEFINE live == con.live
             n == Len(live)
             m == Len(frames)
             both == live \o frames
  <1>1. /\ live \in Seq(Frame) /\ n \in Nat /\ m \in Nat
        /\ DOMAIN live = 1 .. n /\ DOMAIN frames = 1 .. m
        /\ both \in Seq(Frame) /\ Len(both) = n + m /\ DOMAIN both = 1 .. n + m
        /\ \A k \in 1 .. n : both[k] = live[k]
        /\ \A k \in 1 .. m : both[n + k] = frames[k]
    <2>1. live \in Seq(Frame)
      BY DEF ConnectionState
    <2>2. n \in Nat /\ m \in Nat /\ DOMAIN live = 1 .. n /\ DOMAIN frames = 1 .. m
      BY <2>1, LenProperties
    <2>3. /\ both \in Seq(Frame) /\ Len(both) = n + m
          /\ \A k \in 1 .. n + m : both[k] = IF k <= n THEN live[k] ELSE frames[k - n]
      BY <2>1, ConcatProperties
    <2>4. \A k \in 1 .. n : both[k] = live[k]
      BY <2>2, <2>3
    <2>5. ASSUME NEW k \in 1 .. m PROVE both[n + k] = frames[k]
      <3>1. n + k \in 1 .. n + m /\ ~(n + k <= n) /\ n + k - n = k
        BY <2>2
      <3> QED
        BY <2>3, <3>1
    <2> HIDE DEF both
    <2> QED
      BY <2>1, <2>2, <2>3, <2>4, <2>5, LenProperties
  <1>2. ~con.lagged /\ n + m <= Capacity
    <2>1. ~(n + m > Capacity) /\ ~con.lagged
      OBVIOUS
    <2> QED
      BY <1>1, <2>1, BoundsAssumption
  <1>3. next.live = both
    BY <1>1, <1>2 DEF LastFrames
  <1>4. /\ \A j \in DOMAIN live : \A s \in all :
               s <= live[j].seq => s \in has \/ InLive(live, j, s)
        /\ \A s \in all : s \in has \cup unsent \/ InLive(live, n, s)
    BY <1>2 DEF Follows
  <1> HIDE DEF both, live, n, m
  <1>5. \A s, j : j \in 0 .. n /\ InLive(live, j, s) => InLive(both, j, s)
    BY <1>1 DEF InLive
  <1>6. \A s, j, k : j \in 1 .. n + m /\ k \in 0 .. j /\ InLive(both, k, s) => InLive(both, j, s)
    BY <1>1 DEF InLive
  <1>7. ASSUME NEW s, NEW j \in 0 .. m, InLive(frames, j, s) PROVE InLive(both, n + j, s)
    <2>1. PICK k \in 1 .. j : frames[k].kind = "event" /\ frames[k].seq = s
      BY <1>7 DEF InLive
    <2>2. n + k \in 1 .. n + j /\ both[n + k] = frames[k]
      BY <1>1
    <2> QED
      BY <2>1, <2>2 DEF InLive
  <1>8. ASSUME NEW j \in 1 .. n + m, NEW s \in all, s <= both[j].seq
        PROVE  s \in has \/ InLive(both, j, s)
    <2>1. CASE j <= n
      <3>1. j \in 1 .. n /\ both[j] = live[j]
        BY <1>1, <2>1
      <3> QED
        BY <1>1, <1>4, <1>5, <1>8, <3>1
    <2>2. CASE n < j
      <3> DEFINE k == j - n
      <3>1. k \in 1 .. m /\ n + k = j
        BY <1>1, <2>2
      <3>2. both[j] = frames[k]
        BY <1>1, <3>1
      <3>3. s \notin unsent \/ InLive(frames, k, s)
        BY <1>1, <1>8, <3>1, <3>2
      <3>4. CASE InLive(frames, k, s)
        BY <1>1, <1>7, <3>1, <3>4
      <3>5. CASE s \notin unsent
        <4>1. s \in has \/ InLive(live, n, s)
          BY <1>4, <3>5
        <4>2. InLive(live, n, s) => InLive(both, n, s)
          BY <1>1, <1>5
        <4>3. n \in 0 .. j
          BY <1>1, <2>2
        <4> QED
          BY <1>6, <4>1, <4>2, <4>3
      <3> QED
        BY <3>3, <3>4, <3>5
    <2> QED
      BY <1>1, <2>1, <2>2
  <1>9. ASSUME NEW s \in all
        PROVE  s \in has \cup unsent_ \/ InLive(both, n + m, s)
    <2>1. CASE s \in has
      BY <2>1
    <2>2. CASE InLive(live, n, s)
      <3>1. InLive(both, n, s) /\ n \in 0 .. n + m
        BY <1>1, <1>5, <2>2
      <3>2. n + m \in 1 .. n + m
        <4>1. PICK k \in 1 .. n : TRUE
          BY <2>2 DEF InLive
        <4> QED
          BY <1>1, <4>1
      <3>3. InLive(both, n + m, s)
        BY <1>6, <3>1, <3>2
      <3> QED
        BY <3>3
    <2>3. CASE s \in unsent
      BY <1>1, <1>7, <2>3
    <2> QED
      BY <1>4, <2>1, <2>2, <2>3
  <1> QED
    BY <1>1, <1>3, <1>8, <1>9

\* The hub keeps the last of the frames.
LEMMA LastFramesBelow ==
    ASSUME NEW frames \in Seq(Frame), NEW top, \A k \in DOMAIN frames : frames[k].seq < top
    PROVE  \A j \in DOMAIN LastFrames(frames) : LastFrames(frames)[j].seq < top
  <1> DEFINE n == Len(frames)
             from == n - Capacity + 1
             kept == SubSeq(frames, from, n)
  <1>1. n \in Nat /\ DOMAIN frames = 1 .. n /\ Capacity \in Nat
    BY LenProperties, BoundsAssumption
  <1>2. CASE n <= Capacity
    BY <1>2 DEF LastFrames
  <1>3. CASE ~(n <= Capacity)
    <2>1. from \in 1 .. n + 1
      BY <1>1, <1>3
    <2>2. /\ kept \in Seq(Frame)
          /\ Len(kept) = n - from + 1
          /\ \A j \in 1 .. n - from + 1 : kept[j] = frames[from + j - 1]
      <3>1. \A j \in from .. n : frames[j] \in Frame
        BY <1>1, <2>1, ElementOfSeq
      <3> QED
        BY <1>1, <2>1, <3>1, SubSeqProperties
    <2>3. \A j \in 1 .. n - from + 1 : from + j - 1 \in 1 .. n
      BY <1>1, <2>1
    <2>4. DOMAIN kept = 1 .. n - from + 1
      BY <2>2, LenProperties
    <2>5. \A j \in DOMAIN kept : kept[j].seq < top
      <3> HIDE DEF kept, from
      <3> QED
        BY <1>1, <2>2, <2>3, <2>4
    <2>6. LastFrames(frames) = kept
      BY <1>3 DEF LastFrames
    <2> QED
      BY <2>5, <2>6
  <1> QED
    BY <1>2, <1>3

\* Frames below a number, behind frames below it.
LEMMA ConcatBelow ==
    ASSUME NEW live \in Seq(Frame), NEW frames \in Seq(Frame), NEW top,
           \A j \in DOMAIN live : live[j].seq < top,
           \A j \in DOMAIN frames : frames[j].seq < top
    PROVE  \A j \in DOMAIN LastFrames(live \o frames) : LastFrames(live \o frames)[j].seq < top
  <1> DEFINE n == Len(live)
             m == Len(frames)
             both == live \o frames
  <1>1. n \in Nat /\ m \in Nat /\ DOMAIN live = 1 .. n /\ DOMAIN frames = 1 .. m
    BY LenProperties
  <1>2. /\ both \in Seq(Frame) /\ Len(both) = n + m
        /\ \A k \in 1 .. n + m : both[k] = IF k <= n THEN live[k] ELSE frames[k - n]
    BY ConcatProperties
  <1>3. DOMAIN both = 1 .. n + m
    BY <1>2, LenProperties
  <1>4. ASSUME NEW k \in 1 .. n + m PROVE both[k].seq < top
    <2>1. CASE k <= n
      <3>1. k \in 1 .. n
        BY <1>1, <2>1
      <3> QED
        BY <1>1, <1>2, <2>1, <3>1
    <2>2. CASE ~(k <= n)
      <3>1. k - n \in 1 .. m
        BY <1>1, <2>2
      <3> QED
        BY <1>1, <1>2, <2>2, <3>1
    <2> QED
      BY <2>1, <2>2
  <1> QED
    BY <1>2, <1>3, <1>4, LastFramesBelow

\* The IDs of the records are the numbers up to how many there are.
LEMMA RecordsAre ==
    ASSUME TypeOK
    PROVE  /\ records \in Seq(Table) /\ Len(records) \in 0 .. NRecords
           /\ DOMAIN records = 1 .. Len(records)
           /\ DOMAIN records \subseteq Ids
           /\ \A i \in DOMAIN records : records[i] \in Table
           /\ Table \subseteq Nat /\ NRecords \in Nat
           /\ AllEvents = EventsIn(records, DOMAIN records)
  <1>1. records \in Seq(Table) /\ Len(records) <= NRecords
    BY DEF TypeOK
  <1>2. DOMAIN records = 1 .. Len(records) /\ Len(records) \in Nat
    BY <1>1, LenProperties
  <1>3. \A i \in DOMAIN records : records[i] \in Table
    BY <1>1, <1>2, ElementOfSeq
  <1>4. Table \subseteq Nat
    BY BoundsAssumption DEF Table, Submissions
  <1>5. AllEvents = EventsIn(records, DOMAIN records)
    BY DEF AllEvents, EventsOf, EventsIn
  <1>6. NRecords \in Nat /\ Len(records) \in 0 .. NRecords
    BY <1>1, <1>2, StartTypes
  <1>7. DOMAIN records \subseteq Ids
    <2>1. \A i \in 1 .. Len(records) : i \in 1 .. NRecords
      BY <1>6
    <2> QED
      BY <1>2, <2>1
  <1> QED
    BY <1>1, <1>2, <1>3, <1>4, <1>5, <1>6, <1>7

\* Numbers of events grow with the records.
LEMMA FirstGrows ==
    ASSUME NEW m \in Nat, NEW n \in Nat
    PROVE  First(n) \in Nat /\ 0 < First(n) /\ (m <= n <=> First(m) <= First(n))
  <1>1. 0 \in 0 .. Slots - 1 /\ m + 1 \in Nat /\ n + 1 \in Nat
    BY SlotsAssumption
  <1>2. /\ First(n) \in Nat /\ First(m) \in Nat
        /\ First(n) < First(m) <=> n + 1 < m + 1
    BY <1>1, EventBounds DEF First
  <1>3. EventSeq(0, 0) \in Nat /\ EventSeq(0, 0) < First(n)
    BY <1>1, EventBounds DEF First
  <1> QED
    BY <1>2, <1>3

\* Every event has a number below that of the record that is yet to come.
LEMMA EventsBelow ==
    ASSUME TypeOK, NEW s \in AllEvents
    PROVE  s \in Nat /\ s < First(Len(records))
  <1>1. s \in EventsIn(records, DOMAIN records) /\ Len(records) \in Nat
    BY RecordsAre
  <1>2. {i \in DOMAIN records : i <= Len(records)} = DOMAIN records
    BY RecordsAre
  <1> QED
    BY <1>1, <1>2, RecordsAre, EventPlaces DEF First

\* The IDs of a batch, and the largest of them.
LEMMA TakenType ==
    ASSUME TypeOK, NEW ids \in SUBSET DOMAIN records
    PROVE  /\ Largest(ids) \in 0 .. Len(records)
           /\ \A i \in ids : i <= Largest(ids)
           /\ ids # {} => Largest(ids) \in ids
           /\ ids = {} => Largest(ids) = 0
  <1>1. Len(records) \in Nat /\ ids \in SUBSET (0 .. Len(records))
    BY RecordsAre
  <1> QED
    BY <1>1, LargestBounds

\* The feed has taken no batch with a record that is not there.
LEMMA TakenBounds ==
    ASSUME TypeOK, QueueWhole
    PROVE  /\ Taken \in 0 .. Len(records) /\ floor \in 0 .. Len(records) /\ floor <= Taken
           /\ \A i \in handling.batch.ids : i <= Taken
           /\ handling.phase = "idle" => Taken = floor
  <1>1. floor \in 0 .. Len(records)
    <2>1. floor \in 0 .. NRecords /\ floor <= Len(records)
      BY DEF TypeOK, QueueWhole
    <2>2. Len(records) \in 0 .. NRecords /\ NRecords \in Nat
      BY RecordsAre
    <2> QED
      BY <2>1, <2>2
  <1>2. /\ Largest(handling.batch.ids) \in 0 .. Len(records)
        /\ \A i \in handling.batch.ids : i <= Largest(handling.batch.ids)
    BY TakenType DEF QueueWhole
  <1>3. handling.phase = "idle" => handling.batch.ids = {}
    BY DEF QueueWhole, Idle
  <1>4. handling.phase = "idle" => Largest(handling.batch.ids) = 0
    BY <1>3, TakenType
  <1>5. \A i \in handling.batch.ids : i \in Nat
    BY RecordsAre DEF QueueWhole
  <1> QED
    BY <1>1, <1>2, <1>4, <1>5 DEF Taken, Larger

-----------------------------------------------------------------------------
(* The queue of the feed.                                                  *)

\* What a commit does to the records and their events.
LEMMA CommitGrows ==
    ASSUME TypeOK, NEW new \in NewRecords, NEW again \in OneOrNone(InTable(Submissions)),
           NEW delta \in BOOLEAN, Commit(new, again, delta)
    PROVE  /\ TypeOK' /\ Len(records) <= Len(records')
           /\ DOMAIN records \subseteq DOMAIN records'
           /\ \A i \in DOMAIN records' : i \notin DOMAIN records => Len(records) < i
           /\ \A i \in DOMAIN records : records'[i] = records[i]
           /\ AllEvents \subseteq AllEvents'
           /\ \A s \in AllEvents' : s \notin AllEvents => First(Len(records)) <= s
  <1>1. TypeOK'
    BY CommitTypes
  <1>2. new \in Seq(Table) /\ records \in Seq(Table)
    <2>1. new \in Seq(Table)
      BY BoundsAssumption DEF NewRecords
    <2> QED
      BY <2>1 DEF TypeOK
  <1>3. /\ Len(records') = Len(records) + Len(new)
        /\ Len(records) \in Nat /\ Len(new) \in Nat
        /\ \A i \in 1 .. Len(records) : records'[i] = records[i]
        /\ DOMAIN records = 1 .. Len(records)
    BY <1>2, ConcatProperties, LenProperties DEF Commit
  <1>4. /\ records' \in Seq(Table)
        /\ DOMAIN records' = 1 .. Len(records')
    BY <1>1, LenProperties DEF TypeOK
  <1>5. DOMAIN records \subseteq DOMAIN records'
    BY <1>3, <1>4
  <1>6. /\ AllEvents = EventsIn(records, DOMAIN records)
        /\ AllEvents' = EventsIn(records', DOMAIN records')
    BY DEF AllEvents, EventsOf, EventsIn
  <1>7. EventsIn(records', DOMAIN records) = EventsIn(records, DOMAIN records)
    BY <1>3, EventsStay
  <1>8. AllEvents \subseteq AllEvents'
    BY <1>5, <1>6, <1>7 DEF EventsIn
  <1>9. ASSUME NEW s \in AllEvents', s \notin AllEvents
        PROVE  First(Len(records)) <= s
    <2>1. DOMAIN records = {i \in DOMAIN records' : i <= Len(records)}
      BY <1>3, <1>4
    <2>2. ~(s < First(Len(records))) /\ s \in Nat
      BY <1>3, <1>4, <1>6, <1>7, <1>9, <2>1, EventPlaces DEF First
    <2> QED
      BY <1>3, <2>2, FirstGrows
  <1> QED
    BY <1>1, <1>3, <1>4, <1>5, <1>8, <1>9

\* A commit puts all its new records into the queue, behind those before.
LEMMA QueueCommit ==
    ASSUME TypeOK, QueueWhole, NEW new \in NewRecords,
           NEW again \in OneOrNone(InTable(Submissions)),
           NEW delta \in BOOLEAN, Commit(new, again, delta)
    PROVE  QueueWhole'
  <1> DEFINE ids == again \cup (Len(records) + 1 .. Len(records) + Len(new))
             n == Len(publications)
  <1>1. /\ Len(records) <= Len(records')
        /\ DOMAIN records \subseteq DOMAIN records'
        /\ \A i \in DOMAIN records' : i \notin DOMAIN records => Len(records) < i
        /\ Len(records) \in Nat /\ Len(records') \in Nat
        /\ DOMAIN records = 1 .. Len(records)
        /\ DOMAIN records' = 1 .. Len(records')
    <2>1. TypeOK'
      BY CommitTypes
    <2>2. DOMAIN records' = 1 .. Len(records') /\ Len(records') \in Nat
      BY <2>1, LenProperties DEF TypeOK
    <2>3. Len(records) \in Nat /\ DOMAIN records = 1 .. Len(records)
      BY RecordsAre
    <2>4. /\ Len(records) <= Len(records')
          /\ DOMAIN records \subseteq DOMAIN records'
          /\ \A i \in DOMAIN records' : i \notin DOMAIN records => Len(records) < i
      BY CommitGrows
    <2> QED
      BY <2>2, <2>3, <2>4
  <1>2. Len(records') = Len(records) + Len(new) /\ Len(new) \in Nat
    <2>1. new \in Seq(Table)
      BY BoundsAssumption DEF NewRecords
    <2>2. records \in Seq(Table)
      BY DEF TypeOK
    <2> QED
      BY <2>1, <2>2, ConcatProperties, LenProperties DEF Commit
  <1>3. /\ publications' = Append(publications, [ids |-> ids, delta |-> delta])
        /\ UNCHANGED <<floor, handling>>
    BY DEF Commit
  <1>4. again \subseteq DOMAIN records
    BY DEF OneOrNone, InTable
  <1>5. ids \subseteq DOMAIN records'
    BY <1>1, <1>2, <1>4
  <1>6. publications \in Seq(Batch) /\ n \in Nat /\ DOMAIN publications = 1 .. n
    BY LenProperties DEF TypeOK
  <1>7. /\ DOMAIN publications' = 1 .. n + 1
        /\ \A p \in 1 .. n : publications'[p] = publications[p]
        /\ publications'[n + 1].ids = ids
    BY <1>3, <1>6
  <1>8. Taken' = Taken
    BY <1>3 DEF Taken
  <1>9. \A j \in DOMAIN records' : j \notin DOMAIN records => j \in ids
    BY <1>1, <1>2
  <1> HIDE DEF ids, n
  <1>10. \A p \in 1 .. n : \A i \in publications[p].ids : i \in DOMAIN records
    BY <1>6 DEF QueueWhole
  <1>11. ASSUME NEW p \in DOMAIN publications', NEW i \in publications'[p].ids,
                NEW j \in DOMAIN records', Taken < j, j <= i
         PROVE  \E q \in 1 .. p : j \in publications'[q].ids
    <2>1. CASE p \in 1 .. n
      <3>1. i \in DOMAIN records /\ j \in DOMAIN records
        BY <1>1, <1>7, <1>10, <1>11, <2>1
      <3>2. PICK q \in 1 .. p : j \in publications[q].ids
        BY <1>6, <1>7, <1>11, <2>1, <3>1 DEF QueueWhole
      <3>3. q \in 1 .. n
        BY <1>6, <2>1
      <3> QED
        BY <1>7, <3>2, <3>3
    <2>2. CASE p = n + 1
      <3>1. CASE j \in DOMAIN records
        <4>1. PICK q \in 1 .. n : j \in publications[q].ids
          BY <1>6, <1>11, <3>1 DEF QueueWhole
        <4>2. q \in 1 .. p
          BY <1>6, <2>2
        <4> QED
          BY <1>7, <4>1, <4>2
      <3>2. CASE j \notin DOMAIN records
        <4>1. p \in 1 .. p /\ j \in publications'[p].ids
          BY <1>6, <1>7, <1>9, <2>2, <3>2
        <4> QED
          BY <4>1
      <3> QED
        BY <3>1, <3>2
    <2> QED
      BY <1>6, <1>7, <2>1, <2>2
  <1>12. ASSUME NEW j \in DOMAIN records', Taken < j
         PROVE  \E p \in DOMAIN publications' : j \in publications'[p].ids
    <2>1. CASE j \in DOMAIN records
      <3>1. PICK p \in 1 .. n : j \in publications[p].ids
        BY <1>6, <1>12, <2>1 DEF QueueWhole
      <3>2. p \in 1 .. n + 1
        BY <1>6
      <3> QED
        BY <1>7, <3>1, <3>2
    <2>2. CASE j \notin DOMAIN records
      <3>1. n + 1 \in 1 .. n + 1
        BY <1>6
      <3> QED
        BY <1>7, <1>9, <2>2, <3>1
    <2> QED
      BY <2>1, <2>2
  <1>13. \A p \in DOMAIN publications' : publications'[p].ids \subseteq DOMAIN records'
    <2>1. \A p \in 1 .. n : publications'[p].ids \subseteq DOMAIN records'
      BY <1>1, <1>7, <1>10
    <2> QED
      BY <1>5, <1>6, <1>7, <2>1
  <1>14. floor' <= Len(records') /\ handling'.batch.ids \subseteq DOMAIN records'
    <2>1. floor \in 0 .. Len(records)
      BY TakenBounds
    <2> QED
      BY <1>1, <1>3, <2>1 DEF QueueWhole
  <1> QED
    BY <1>3, <1>8, <1>11, <1>12, <1>13, <1>14 DEF QueueWhole

\* The feed takes a batch.
LEMMA QueueTake ==
    ASSUME TypeOK, QueueWhole, publications # <<>>, handling.phase = "idle",
           publications' = Tail(publications), UNCHANGED <<records, floor>>,
           handling'.phase # "idle", handling'.batch = Head(publications)
    PROVE  /\ QueueWhole'
           /\ publications[1].ids \subseteq DOMAIN records
           /\ Taken' = Larger(floor, Largest(publications[1].ids))
           /\ \A i \in publications[1].ids, j \in DOMAIN records :
                  floor < j /\ j <= i => j \in publications[1].ids
  <1> DEFINE n == Len(publications)
             ids == publications[1].ids
  <1>1. /\ publications \in Seq(Batch) /\ n \in Nat \ {0} /\ DOMAIN publications = 1 .. n
        /\ Head(publications) = publications[1]
        /\ DOMAIN publications' = 1 .. n - 1
        /\ \A p \in 1 .. n - 1 : publications'[p] = publications[p + 1]
    <2>1. publications \in Seq(Batch) /\ publications # <<>>
      BY DEF TypeOK
    <2>2. /\ Tail(publications) \in Seq(Batch) /\ Len(Tail(publications)) = n - 1
          /\ \A p \in 1 .. n - 1 : Tail(publications)[p] = publications[p + 1]
          /\ Head(publications) = publications[1]
      BY <2>1, HeadTailProperties
    <2>3. n \in Nat \ {0} /\ DOMAIN publications = 1 .. n
      BY <2>1, LenProperties, EmptySeq
    <2> QED
      BY <2>1, <2>2, <2>3, LenProperties
  <1>2. 1 \in DOMAIN publications
    BY <1>1
  <1>3. ids \subseteq DOMAIN records /\ handling'.batch.ids = ids
    BY <1>1, <1>2 DEF QueueWhole
  <1>4. /\ Largest(ids) \in 0 .. Len(records)
        /\ \A i \in ids : i <= Largest(ids)
    BY <1>3, TakenType
  <1>5. Taken = floor /\ floor \in 0 .. Len(records)
    BY TakenBounds
  <1>6. Taken' = Larger(floor, Largest(ids))
    BY <1>3 DEF Taken
  <1> HIDE DEF ids, n
  <1>7. floor <= Taken' /\ Taken' \in Nat /\ \A i \in ids : i <= Taken'
    <2>1. \A i \in ids : i \in Nat
      BY <1>3, RecordsAre
    <2> QED
      BY <1>4, <1>5, <1>6, <2>1 DEF Larger
  <1>8. ASSUME NEW q \in 1 .. n, NEW j \in publications[q].ids, Taken' < j
        PROVE  q - 1 \in 1 .. n - 1 /\ j \in publications'[q - 1].ids
    <2>1. q # 1
      <3>1. j \in ids => j <= Taken' /\ j \in Nat
        BY <1>3, <1>7, RecordsAre
      <3> QED
        BY <1>7, <1>8, <3>1 DEF ids
    <2>2. q - 1 \in 1 .. n - 1 /\ q - 1 + 1 = q
      BY <1>1, <2>1
    <2> QED
      BY <1>1, <1>8, <2>2
  <1>9. ASSUME NEW p \in 1 .. n - 1, NEW i \in publications'[p].ids,
               NEW j \in DOMAIN records, Taken' < j, j <= i
        PROVE  \E q \in 1 .. p : j \in publications'[q].ids
    <2>1. p + 1 \in 1 .. n /\ i \in publications[p + 1].ids
      BY <1>1, <1>9
    <2>2. Taken < j
      BY <1>5, <1>7, <1>9, RecordsAre
    <2>3. PICK q \in 1 .. p + 1 : j \in publications[q].ids
      BY <1>1, <1>9, <2>1, <2>2 DEF QueueWhole
    <2>4. q \in 1 .. n
      BY <1>1, <2>1
    <2>5. j \in publications'[q - 1].ids /\ q - 1 \in 1 .. n - 1
      BY <1>8, <1>9, <2>3, <2>4
    <2>6. q - 1 \in 1 .. p
      BY <1>1, <2>5
    <2> QED
      BY <2>5, <2>6
  <1>10. ASSUME NEW j \in DOMAIN records, Taken' < j
         PROVE  \E p \in 1 .. n - 1 : j \in publications'[p].ids
    <2>1. Taken < j
      BY <1>5, <1>7, <1>10, RecordsAre
    <2>2. PICK q \in 1 .. n : j \in publications[q].ids
      BY <1>1, <2>1 DEF QueueWhole
    <2> QED
      BY <1>8, <1>10, <2>2
  <1>11. \A p \in 1 .. n - 1 : publications'[p].ids \subseteq DOMAIN records
    <2>1. \A p \in 1 .. n - 1 : p + 1 \in 1 .. n
      BY <1>1
    <2> QED
      BY <1>1, <2>1 DEF QueueWhole
  <1>12. QueueWhole'
    BY <1>1, <1>3, <1>9, <1>10, <1>11 DEF QueueWhole
  <1>13. ASSUME NEW i \in ids, NEW j \in DOMAIN records, floor < j, j <= i
         PROVE  j \in ids
    <2>1. PICK q \in 1 .. 1 : j \in publications[q].ids
      BY <1>2, <1>5, <1>13 DEF QueueWhole, ids
    <2> QED
      BY <2>1 DEF ids
  <1> QED
    BY <1>3, <1>6, <1>12, <1>13 DEF ids

\* Every other step leaves the queue alone, and the records.
LEMMA QueueStays ==
    ASSUME TypeOK, QueueWhole, UNCHANGED <<records, publications>>,
           \/ /\ UNCHANGED <<floor, handling>>
           \/ /\ UNCHANGED floor /\ handling'.batch = handling.batch
              /\ handling'.phase # "idle"
           \/ /\ floor' = Taken /\ handling' = Idle
    PROVE  QueueWhole' /\ Taken' = Taken
  <1>1. Taken' = Taken
    <2>1. Taken \in Nat
      BY TakenBounds, RecordsAre
    <2>2. Largest({}) = 0
      BY TakenType
    <2>3. CASE floor' = Taken /\ handling' = Idle
      <3>1. handling'.batch.ids = {}
        BY <2>3 DEF Idle
      <3>2. Taken' = Larger(Taken, 0)
        BY <2>2, <2>3, <3>1 DEF Taken
      <3> QED
        BY <2>1, <3>2 DEF Larger
    <2>4. CASE UNCHANGED floor /\ handling'.batch = handling.batch
      BY <2>4 DEF Taken
    <2> QED
      BY <2>3, <2>4
  <1>2. floor' <= Len(records')
    BY TakenBounds, RecordsAre
  <1>3. handling'.batch.ids \subseteq DOMAIN records'
    BY DEF QueueWhole, Idle
  <1>4. handling'.phase = "idle" => handling' = Idle
    BY DEF QueueWhole
  <1> QED
    BY <1>1, <1>2, <1>3, <1>4 DEF QueueWhole

-----------------------------------------------------------------------------
(* The projection.                                                         *)

\* What a projection has seen is no further than its level.
LEMMA LevelType ==
    ASSUME TypeOK, NEW p \in ProjectionState, NEW n, SeesUpTo(p, n)
    PROVE  /\ n \in 0 .. Len(records) /\ n \in Nat /\ p.entry <= n /\ p.entry \in Nat
           /\ \A i \in p.submissions : i <= n
  <1>1. /\ Largest(p.submissions) \in 0 .. Len(records)
        /\ \A i \in p.submissions : i <= Largest(p.submissions)
    BY TakenType DEF SeesUpTo
  <1>2. p.entry \in Nat
    BY RecordsAre DEF ProjectionState
  <1>3. Len(records) \in Nat /\ \A i \in p.submissions : i \in Nat
    BY RecordsAre DEF SeesUpTo
  <1> QED
    BY <1>1, <1>2, <1>3 DEF SeesUpTo, LevelOf, Larger

\* A projection that takes the next records in, of whatever table, has seen all
\* records up to them.
LEMMA SeesMore ==
    ASSUME TypeOK, NEW p \in ProjectionState, NEW n, SeesUpTo(p, n),
           NEW m \in n .. Len(records),
           NEW ids, ids = {i \in DOMAIN records : n < i /\ i <= m}
    PROVE  SeesUpTo(Projected(p, ids), m)
  <1> DEFINE q == Projected(p, ids)
             entries == ids \ InTable(Submissions)
             again == ids \cap InTable(Submissions)
  <1>1. /\ n \in 0 .. Len(records) /\ p.entry <= n /\ p.entry \in Nat
        /\ \A i \in p.submissions : i <= n
        /\ p.submissions \subseteq DOMAIN records
        /\ n = Larger(p.entry, Largest(p.submissions))
        /\ \A i \in DOMAIN records : i <= n <=> Sees(p, i)
    BY LevelType DEF SeesUpTo, LevelOf
  <1>2. q.entry = Larger(p.entry, Largest(entries)) /\ q.submissions = p.submissions \cup again
    BY DEF Projected, ProjectionState
  <1>3. Len(records) \in Nat /\ m \in Nat /\ DOMAIN records = 1 .. Len(records)
    BY <1>1, RecordsAre
  <1>4. /\ entries \subseteq DOMAIN records /\ again \subseteq DOMAIN records
        /\ q.submissions \subseteq DOMAIN records
    BY <1>1, <1>2
  <1>5. /\ Largest(entries) \in Nat
        /\ \A i \in entries : i <= Largest(entries)
        /\ entries # {} => Largest(entries) \in entries
        /\ entries = {} => Largest(entries) = 0
    BY <1>3, <1>4, TakenType
  <1>6. /\ Largest(q.submissions) \in Nat
        /\ \A i \in q.submissions : i <= Largest(q.submissions)
        /\ q.submissions # {} => Largest(q.submissions) \in q.submissions
        /\ q.submissions = {} => Largest(q.submissions) = 0
    <2> HIDE DEF q
    <2> QED
      BY <1>3, <1>4, TakenType
  <1>7. \A i \in ids : i \in Nat /\ n < i /\ i <= m
    BY <1>3
  <1>8. Largest(entries) <= m /\ q.entry <= m /\ q.entry \in Nat
    <2>1. Largest(entries) <= m
      BY <1>3, <1>5, <1>7
    <2> HIDE DEF q, entries
    <2> QED
      BY <1>1, <1>2, <1>3, <1>5, <2>1 DEF Larger
  <1>9. \A i \in q.submissions : i \in Nat /\ i <= m
    <2>1. \A i \in p.submissions : i \in Nat /\ i <= m
      BY <1>1, <1>3
    <2> HIDE DEF q
    <2> QED
      BY <1>2, <1>7, <2>1
  <1>10. Largest(q.submissions) <= m
    <2> HIDE DEF q
    <2> QED
      BY <1>3, <1>6, <1>9
  <1>11. m <= q.entry \/ m <= Largest(q.submissions)
    <2>1. CASE m = n
      <3>1. p.entry <= q.entry
        <4> HIDE DEF q, entries
        <4> QED
          BY <1>1, <1>2, <1>5 DEF Larger
      <3>2. ids = {}
        BY <1>3, <2>1
      <3>3. q.submissions = p.submissions
        BY <1>2, <3>2
      <3> HIDE DEF q, entries
      <3> QED
        BY <1>1, <2>1, <3>1, <3>3 DEF Larger
    <2>2. CASE n < m
      <3>1. m \in ids
        BY <1>1, <1>3, <2>2
      <3>2. CASE m \in entries
        <4>1. m <= Largest(entries)
          BY <1>5, <3>2
        <4> HIDE DEF q, entries
        <4> QED
          BY <1>1, <1>2, <1>3, <1>5, <4>1 DEF Larger
      <3>3. CASE m \in again
        <4> HIDE DEF q
        <4> QED
          BY <1>2, <1>6, <3>3
      <3> QED
        BY <3>1, <3>2, <3>3
    <2> QED
      BY <1>1, <1>3, <2>1, <2>2
  <1>12. m = LevelOf(q)
    <2> HIDE DEF q
    <2> QED
      BY <1>3, <1>6, <1>8, <1>10, <1>11 DEF LevelOf, Larger
  <1>13. ASSUME NEW i \in DOMAIN records PROVE i <= m <=> Sees(q, i)
    <2>1. i \in Nat /\ (i <= n <=> Sees(p, i)) /\ (i \in ids <=> n < i /\ i <= m)
      BY <1>1, <1>3
    <2>2. CASE records[i] = Submissions
      <3>1. i \in InTable(Submissions)
        BY <2>2 DEF InTable
      <3>2. i \in q.submissions <=> i \in p.submissions \/ i \in ids
        BY <1>2, <3>1
      <3> HIDE DEF q
      <3> QED
        BY <1>1, <1>3, <2>1, <2>2, <3>2 DEF Sees
    <2>3. CASE records[i] # Submissions
      <3>1. i \notin InTable(Submissions)
        BY <2>3 DEF InTable
      <3>2. i \in ids => i <= Largest(entries)
        BY <1>5, <3>1
      <3>3. i <= p.entry => i <= n
        BY <1>1, <2>1
      <3>4. i <= q.entry <=> i <= p.entry \/ i <= Largest(entries)
        <4> HIDE DEF q, entries
        <4> QED
          BY <1>1, <1>2, <1>5, <2>1 DEF Larger
      <3>5. i <= Largest(entries) => i <= m
        <4> HIDE DEF entries
        <4> QED
          BY <1>3, <1>5, <1>8, <2>1
      <3>6. i <= p.entry => i <= m
        BY <1>1, <1>3, <2>1, <3>3
      <3>7. i <= m => i <= n \/ i \in ids
        BY <1>1, <1>3, <2>1
      <3>8. i <= n => i <= p.entry
        BY <2>1, <2>3 DEF Sees
      <3>9. i <= m <=> i <= q.entry
        <4> HIDE DEF q, entries
        <4> QED
          BY <3>2, <3>4, <3>5, <3>6, <3>7, <3>8
      <3> HIDE DEF q
      <3> QED
        BY <2>3, <3>9 DEF Sees
    <2> QED
      BY <2>2, <2>3
  <1> HIDE DEF q
  <1>14. SeesUpTo(q, m)
    BY <1>3, <1>4, <1>12, <1>13 DEF SeesUpTo
  <1> QED
    BY <1>14 DEF q

\* Nothing has been projected.
LEMMA SeesNothing ==
    ASSUME TypeOK
    PROVE  NoProjection \in ProjectionState /\ SeesUpTo(NoProjection, 0)
  <1>1. NoProjection \in ProjectionState
    BY StartTypes DEF NoProjection, ProjectionState
  <1>2. Largest({}) = 0
    BY TakenType
  <1>3. \A i \in DOMAIN records : ~(i <= 0) /\ i \in Nat
    BY RecordsAre
  <1>4. 0 <= Len(records)
    BY RecordsAre
  <1>5. LevelOf(NoProjection) = 0
    BY <1>2 DEF LevelOf, Larger, NoProjection
  <1>6. \A i \in DOMAIN records : ~Sees(NoProjection, i)
    BY <1>3 DEF Sees, NoProjection
  <1> QED
    BY <1>1, <1>3, <1>4, <1>5, <1>6 DEF SeesUpTo, NoProjection

\* The records of a batch that are new to a projection are those behind it.
LEMMA UnseenAreBehind ==
    ASSUME TypeOK, SeesUpTo(projection, Level), NEW ids \in SUBSET DOMAIN records
    PROVE  Unseen(ids) = {i \in ids : Level < i}
  <1>0. projection \in ProjectionState
    BY DEF TypeOK
  <1>1. Level \in Nat /\ projection.entry \in Nat /\ \A i \in DOMAIN records : i \in Nat
    BY <1>0, LevelType, RecordsAre
  <1>2. \A i \in ids : i <= Level <=> Sees(projection, i)
    BY DEF SeesUpTo
  <1>3. \A i \in ids :
             /\ i > projection.entry <=> ~(i <= projection.entry)
             /\ Level < i <=> ~(i <= Level)
    BY <1>1
  <1> QED
    BY <1>2, <1>3 DEF Unseen, Sees

\* The events of the records between two numbers.
LEMMA EventsBetween ==
    ASSUME TypeOK, NEW a \in Nat, NEW b \in Nat, NEW s \in AllEvents,
           First(a) <= s, s < First(b)
    PROVE  s \in EventsOf({i \in DOMAIN records : a < i /\ i <= b})
  <1>1. records \in Seq(Table) /\ s \in EventsIn(records, DOMAIN records)
    BY RecordsAre
  <1>2. PICK i \in DOMAIN records :
            /\ \A ids \in SUBSET DOMAIN records : s \in EventsIn(records, ids) <=> i \in ids
            /\ \A n \in Nat : s < EventSeq(n, 0) <=> i < n
    BY <1>1, EventHasRecord
  <1>3. i \in Nat /\ a + 1 \in Nat /\ b + 1 \in Nat /\ s \in Nat
    BY RecordsAre, EventsBelow
  <1>4. i < b + 1
    BY <1>2, <1>3 DEF First
  <1>5. ~(s < First(a))
    BY <1>3, FirstGrows
  <1>6. ~(i < a + 1)
    BY <1>2, <1>3, <1>5 DEF First
  <1>7. a < i /\ i <= b
    BY <1>3, <1>4, <1>6
  <1>8. s \in EventsIn(records, {j \in DOMAIN records : a < j /\ j <= b})
    BY <1>2, <1>7
  <1> QED
    BY <1>8 DEF EventsOf, EventsIn

\* Events of the records up to a number.
LEMMA EventsUpTo ==
    ASSUME TypeOK, NEW n \in Nat, NEW ids \in SUBSET DOMAIN records, \A i \in ids : i <= n,
           NEW s \in EventsOf(ids)
    PROVE  s \in AllEvents /\ s < First(n)
  <1>1. s \in AllEvents /\ s \in EventsIn(records, {i \in DOMAIN records : i <= n})
    BY DEF AllEvents, EventsOf, EventsIn
  <1> QED
    BY <1>1, RecordsAre, EventPlaces DEF First

\* A read of the session that has begun will find every record.
LEMMA WillFindFirst ==
    ASSUME TypeOK
    PROVE  WillFind(Read(1, {})) = DOMAIN records /\ Read(1, {}).found \subseteq DOMAIN records
  <1>1. \A i \in DOMAIN records : records[i] \in Table
    BY RecordsAre
  <1>2. \A i \in DOMAIN records : records[i] >= 1
    BY <1>1, BoundsAssumption DEF Table, Submissions
  <1> QED
    BY <1>2 DEF WillFind, Read

\* A read goes on to the next table with what it has found.
LEMMA WillFindNext ==
    ASSUME TypeOK, NEW read \in ReadState, read.found \subseteq DOMAIN records,
           read.table # Submissions
    PROVE  /\ WillFind(NextRead(read)) = WillFind(read)
           /\ NextRead(read).found \subseteq DOMAIN records
  <1>1. /\ read.table \in Nat /\ NextRead(read).table = read.table + 1
        /\ NextRead(read).found = read.found \cup InTable(read.table)
    BY RecordsAre DEF ReadState, NextRead, Read, Found
  <1>2. \A i \in DOMAIN records : records[i] \in Nat
    BY RecordsAre
  <1>3. \A i \in DOMAIN records :
            records[i] >= read.table <=> records[i] >= read.table + 1 \/ records[i] = read.table
    BY <1>1, <1>2
  <1> QED
    BY <1>1, <1>3 DEF WillFind, InTable

\* A read has come to the last table, and finds all that it was to find.
LEMMA WillFindLast ==
    ASSUME TypeOK, NEW read \in ReadState, read.found \subseteq DOMAIN records,
           read.table = Submissions
    PROVE  Found(read) = WillFind(read) /\ Found(read) \subseteq DOMAIN records
  <1>1. \A i \in DOMAIN records : records[i] \in Table
    BY RecordsAre
  <1>2. \A i \in DOMAIN records : records[i] >= Submissions <=> records[i] = Submissions
    BY <1>1, BoundsAssumption DEF Table, Submissions
  <1> QED
    BY <1>2 DEF WillFind, Found, InTable

\* A commit puts its records ahead of the projection.
LEMMA ProjectionCommit ==
    ASSUME TypeOK, QueueWhole, ProjectionWhole, NEW new \in NewRecords,
           NEW again \in OneOrNone(InTable(Submissions)),
           NEW delta \in BOOLEAN, Commit(new, again, delta)
    PROVE  ProjectionWhole' /\ Unsent \subseteq Unsent'
  <1>1. UNCHANGED <<floor, projection, handling>>
    BY DEF Commit
  <1>2. /\ TypeOK' /\ Len(records) <= Len(records')
        /\ DOMAIN records \subseteq DOMAIN records'
        /\ \A i \in DOMAIN records' : i \notin DOMAIN records => Len(records) < i
        /\ \A i \in DOMAIN records : records'[i] = records[i]
        /\ AllEvents \subseteq AllEvents'
    BY CommitGrows
  <1>3. Taken' = Taken /\ Level' = Level
    BY <1>1 DEF Taken, Level, LevelOf
  <1>4. \A read : WillFind(read) \subseteq
                       read.found \cup {i \in DOMAIN records' : records'[i] >= read.table}
    BY <1>2 DEF WillFind
  <1>5. WillFind(handling.read) \subseteq WillFind(handling.read)'
    BY <1>1, <1>4 DEF WillFind
  <1>6. ASSUME projection.on PROVE SeesUpTo(projection, Level)'
    <2>1. SeesUpTo(projection, Level) /\ projection \in ProjectionState
      BY <1>6 DEF ProjectionWhole, TypeOK
    <2>2. /\ Level \in 0 .. Len(records) /\ projection.entry <= Level /\ projection.entry \in Nat
          /\ \A i \in projection.submissions : i <= Level
      BY <2>1, LevelType
    <2>3. Len(records) \in Nat
      BY RecordsAre
    <2>4. Len(records') \in Nat /\ DOMAIN records' \subseteq Nat
      <3>1. records' \in Seq(Table)
        BY <1>2 DEF TypeOK
      <3> QED
        BY <3>1, LenProperties
    <2>5. ASSUME NEW i \in DOMAIN records'
          PROVE  i <= Level <=> Sees(projection, i)'
      <3>1. CASE i \in DOMAIN records
        BY <1>1, <1>2, <2>1, <3>1 DEF SeesUpTo, Sees
      <3>2. CASE i \notin DOMAIN records
        <4>1. Len(records) < i /\ i \in Nat
          BY <1>2, <2>4, <3>2
        <4>2. ~(i <= Level) /\ ~(i <= projection.entry) /\ i \notin projection.submissions
          BY <2>2, <2>3, <4>1
        <4> QED
          BY <1>1, <4>2 DEF Sees
      <3> QED
        BY <3>1, <3>2
    <2>6. Level <= Len(records')
      BY <1>2, <2>2, <2>3
    <2>7. Level' = LevelOf(projection)' /\ projection'.submissions \subseteq DOMAIN records'
      BY <1>1, <1>2, <2>1 DEF Level, SeesUpTo
    <2> QED
      BY <1>1, <1>3, <2>5, <2>6, <2>7 DEF SeesUpTo
  <1>7. ProjectionWhole'
    BY <1>1, <1>2, <1>3, <1>5, <1>6 DEF ProjectionWhole
  <1>8. Unsent \subseteq Unsent'
    BY <1>1, <1>2, <1>3 DEF Unsent, Ahead
  <1> QED
    BY <1>7, <1>8

\* A step that leaves the feed and the records alone.
LEMMA ProjectionStays ==
    ASSUME ProjectionWhole, UNCHANGED <<records, floor, projection, handling>>
    PROVE  ProjectionWhole' /\ Unsent' = Unsent
  <1>1. Taken' = Taken /\ Level' = Level /\ AllEvents' = AllEvents
    BY DEF Taken, Level, LevelOf, AllEvents, EventsOf
  <1>2. WillFind(handling.read)' = WillFind(handling.read)
    BY DEF WillFind
  <1>3. SeesUpTo(projection, Level)' <=> SeesUpTo(projection, Level)
    BY <1>1 DEF SeesUpTo, LevelOf, Sees
  <1> QED
    BY <1>1, <1>2, <1>3 DEF ProjectionWhole, Unsent, Ahead

\* The projection sees the batch, whose records follow what it has seen.
LEMMA ProjectionHandle ==
    ASSUME TypeOK, QueueWhole, ProjectionWhole, Handle
    PROVE  ProjectionWhole' /\ Unsent \subseteq Unsent'
  <1> DEFINE ids == publications[1].ids
             top == Largest(ids)
             m == Larger(Level, top)
             unseen == Unseen(ids)
  <1>1. /\ handling.phase = "idle" /\ projection.on /\ publications # <<>>
        /\ projection' = Projected(projection, unseen)
        /\ handling' = [Idle EXCEPT !.phase = "pushing", !.batch = Head(publications),
                                    !.events = EventsOf(unseen)]
        /\ UNCHANGED <<records, floor>> /\ publications' = Tail(publications)
    <2>1. publications # <<>> /\ publications \in Seq(Batch)
      BY DEF Handle, TypeOK
    <2>2. Head(publications) = publications[1]
      BY <2>1, HeadTailProperties
    <2> QED
      BY <2>1, <2>2 DEF Handle
  <1>2. /\ handling'.phase = "pushing" /\ handling'.batch = Head(publications)
        /\ handling'.events = EventsOf(unseen)
    BY <1>1 DEF Idle
  <1>3. /\ ids \subseteq DOMAIN records
        /\ Taken' = Larger(floor, top)
        /\ \A i \in ids, j \in DOMAIN records : floor < j /\ j <= i => j \in ids
    BY <1>1, <1>2, QueueTake
  <1>4. /\ top \in 0 .. Len(records) /\ \A i \in ids : i <= top
        /\ ids # {} => top \in ids
        /\ ids = {} => top = 0
    BY <1>3, TakenType
  <1>5. /\ projection \in ProjectionState /\ SeesUpTo(projection, Level)
        /\ floor <= Level /\ floor \in Nat
        /\ Level \in 0 .. Len(records) /\ Level \in Nat
    <2>1. projection \in ProjectionState /\ SeesUpTo(projection, Level) /\ Taken <= Level
      BY <1>1 DEF TypeOK, ProjectionWhole
    <2>2. Taken = floor /\ floor \in 0 .. Len(records)
      BY <1>1, TakenBounds
    <2> QED
      BY <2>1, <2>2, LevelType
  <1>6. m \in Level .. Len(records) /\ m \in Nat /\ top <= m /\ Level <= m /\ (Level < m => m = top)
    <2> HIDE DEF top
    <2> QED
      BY <1>4, <1>5, RecordsAre DEF Larger
  <1>7. unseen = {i \in DOMAIN records : Level < i /\ i <= m}
    <2>1. unseen = {i \in ids : Level < i}
      BY <1>3, <1>5, UnseenAreBehind
    <2>2. DOMAIN records \subseteq Nat
      BY RecordsAre
    <2>3. ASSUME NEW i \in ids, Level < i PROVE i <= m
      <3>1. i \in Nat /\ i <= top /\ top \in Nat
        BY <1>3, <1>4, <2>2
      <3> HIDE DEF m, top
      <3> QED
        BY <1>6, <3>1
    <2>4. ASSUME NEW i \in DOMAIN records, Level < i, i <= m PROVE i \in ids
      <3>1. Level < m
        <4> HIDE DEF m
        <4> QED
          BY <1>5, <1>6, <2>2, <2>4
      <3>2. m = top /\ top # 0
        <4> HIDE DEF m
        <4> QED
          BY <1>5, <1>6, <3>1
      <3>3. top \in ids
        BY <1>4, <3>2
      <3>4. floor < i
        BY <1>5, <2>2, <2>4
      <3> QED
        BY <1>3, <2>4, <3>2, <3>3, <3>4
    <2> QED
      BY <1>3, <2>1, <2>3, <2>4
  <1> HIDE DEF ids, top, m, unseen
  <1>8. SeesUpTo(projection', m)
    BY <1>1, <1>5, <1>6, <1>7, SeesMore
  <1>9. /\ projection'.on /\ projection'.seq = projection.seq
        /\ Level' = m /\ SeesUpTo(projection, Level)'
    <2>1. projection'.on /\ projection'.seq = projection.seq
      BY <1>1, <1>5 DEF Projected, ProjectionState
    <2>2. Level' = m
      BY <1>8 DEF SeesUpTo, Level, LevelOf
    <2>3. SeesUpTo(projection, Level)'
      BY <1>1, <1>8, <2>2 DEF SeesUpTo, Sees, LevelOf
    <2> QED
      BY <2>1, <2>2, <2>3
  <1>10. Taken' <= m
    BY <1>3, <1>4, <1>5, <1>6 DEF Larger
  <1>11. AllEvents' = AllEvents
    BY <1>1 DEF AllEvents, EventsOf
  <1>12. projection.seq < First(m)
    <2>1. projection.seq < First(Level) /\ projection.seq \in Nat
      BY <1>1, <1>5 DEF ProjectionWhole, ProjectionState
    <2>2. First(Level) <= First(m) /\ First(Level) \in Nat /\ First(m) \in Nat
      BY <1>5, <1>6, FirstGrows
    <2> QED
      BY <2>1, <2>2
  <1>13. \A s \in EventsOf(unseen) : s \in AllEvents /\ s < First(m)
    <2>1. unseen \subseteq DOMAIN records /\ \A i \in unseen : i <= m
      BY <1>7
    <2> QED
      BY <1>6, <2>1, EventsUpTo
  <1>14. ProjectionWhole'
    BY <1>2, <1>9, <1>10, <1>11, <1>12, <1>13 DEF ProjectionWhole
  <1>15. ASSUME NEW s \in Unsent PROVE s \in Unsent'
    <2>1. handling.events = {}
      BY <1>1 DEF ProjectionWhole
    <2>2. s \in AllEvents /\ First(Level) <= s
      BY <1>1, <1>15, <2>1 DEF Unsent, Ahead
    <2>3. CASE s < First(m)
      <3>1. s \in EventsOf(unseen)
        BY <1>5, <1>6, <1>7, <2>2, <2>3, EventsBetween
      <3> QED
        BY <1>2, <3>1 DEF Unsent
    <2>4. CASE ~(s < First(m))
      <3>1. First(m) <= s
        BY <1>6, <2>2, <2>4, EventsBelow, FirstGrows
      <3> QED
        BY <1>9, <1>11, <2>2, <3>1 DEF Unsent, Ahead
    <2> QED
      BY <2>3, <2>4
  <1> QED
    BY <1>14, <1>15

\* The feed begins to read the session, and reads on.
LEMMA ProjectionRead ==
    ASSUME TypeOK, QueueWhole, ProjectionWhole, BeginSeed \/ SeedRead
    PROVE  ProjectionWhole' /\ Unsent \subseteq Unsent'
  <1>0. AllEvents' = AllEvents /\ UNCHANGED <<records, floor, projection>>
    BY DEF BeginSeed, SeedRead, AllEvents, EventsOf
  <1>1. ASSUME BeginSeed PROVE ProjectionWhole' /\ Unsent \subseteq Unsent'
    <2>1. /\ handling.phase = "idle" /\ ~projection.on /\ publications # <<>>
          /\ handling' = [Idle EXCEPT !.phase = "reading", !.batch = Head(publications)]
          /\ publications' = Tail(publications)
      BY <1>1 DEF BeginSeed
    <2>2. /\ handling'.phase = "reading" /\ handling'.batch = Head(publications)
          /\ handling'.read = Read(1, {}) /\ handling'.events = {}
      BY <2>1 DEF Idle
    <2>3. /\ publications[1].ids \subseteq DOMAIN records
          /\ Taken' = Larger(floor, Largest(publications[1].ids))
      BY <1>0, <2>1, <2>2, QueueTake
    <2>4. Largest(publications[1].ids) \in 0 .. Len(records) /\ floor \in 0 .. Len(records)
      BY <2>3, TakenType, TakenBounds
    <2>5. Taken' \in 0 .. Len(records)
      BY <2>3, <2>4 DEF Larger
    <2>6. 1 .. Taken' \subseteq DOMAIN records
      <3>1. \A i \in 1 .. Taken' : i \in 1 .. Len(records)
        BY <2>5, RecordsAre
      <3> QED
        BY <3>1, RecordsAre
    <2>7. WillFind(handling.read)' = WillFind(Read(1, {}))
      BY <1>0, <2>2 DEF WillFind
    <2>8. ProjectionWhole'
      BY <1>0, <2>1, <2>2, <2>6, <2>7, WillFindFirst DEF ProjectionWhole
    <2>9. handling.events = {}
      BY <2>1 DEF ProjectionWhole
    <2>10. Unsent \subseteq Unsent'
      BY <1>0, <2>1, <2>9 DEF Unsent, Ahead
    <2> QED
      BY <2>8, <2>10
  <1>2. ASSUME SeedRead PROVE ProjectionWhole' /\ Unsent \subseteq Unsent'
    <2>1. /\ handling.phase = "reading" /\ handling.read.table # Submissions
          /\ handling' = [handling EXCEPT !.read = NextRead(@)]
      BY <1>2 DEF SeedRead
    <2>2. handling.read \in ReadState /\ handling \in HandlingState
      BY DEF TypeOK, HandlingState
    <2>3. /\ handling'.phase = "reading" /\ handling'.batch = handling.batch
          /\ handling'.read = NextRead(handling.read) /\ handling'.events = handling.events
      BY <2>1, <2>2 DEF HandlingState
    <2>4. Taken' = Taken
      BY <1>0, <2>3 DEF Taken
    <2>5. WillFind(handling.read)' = WillFind(NextRead(handling.read))
      BY <1>0, <2>3 DEF WillFind
    <2>6. ~projection.on /\ handling.events = {}
      BY <2>1 DEF ProjectionWhole
    <2>7. ProjectionWhole'
      BY <1>0, <2>1, <2>2, <2>3, <2>4, <2>5, <2>6, WillFindNext DEF ProjectionWhole
    <2>8. Unsent \subseteq Unsent'
      BY <1>0, <2>3, <2>6 DEF Unsent, Ahead
    <2> QED
      BY <2>7, <2>8
  <1> QED
    BY <1>1, <1>2

\* The projection is made from a read that met no commit.
LEMMA ProjectionSeed ==
    ASSUME TypeOK, QueueWhole, ProjectionWhole, Seed, ~IsTorn(Found(handling.read))
    PROVE  ProjectionWhole' /\ Unsent \subseteq Unsent'
  <1> DEFINE found == Found(handling.read)
             m == Largest(found)
             fresh == {i \in found : i > floor}
             q == Projected(NoProjection, found)
  <1>1. /\ handling.phase = "reading" /\ handling.read.table = Submissions
        /\ projection' = [q EXCEPT !.seq = Largest(EventsOf(found))]
        /\ handling' = [handling EXCEPT !.phase = "pushing", !.read = Read(1, {}),
                                        !.events = Pushed(found)]
        /\ UNCHANGED <<records, publications, floor>>
    BY DEF Seed
  <1>2. /\ handling.read \in ReadState /\ handling \in HandlingState
        /\ ~projection.on /\ handling.events = {}
        /\ handling.read.found \subseteq DOMAIN records
        /\ 1 .. Taken \subseteq WillFind(handling.read)
    BY <1>1 DEF TypeOK, HandlingState, ProjectionWhole
  <1>3. found = WillFind(handling.read) /\ found \subseteq DOMAIN records
    BY <1>1, <1>2, WillFindLast
  <1>4. m \in 0 .. Len(records) /\ found = 1 .. m
    BY <1>3, TakenType DEF IsTorn
  <1>5. /\ Len(records) \in Nat /\ m \in Nat
        /\ Taken \in 0 .. Len(records) /\ floor \in 0 .. Len(records)
    BY <1>4, RecordsAre, TakenBounds
  <1> HIDE DEF m
  <1>6. found = {i \in DOMAIN records : 0 < i /\ i <= m}
    <2>1. \A i \in DOMAIN records : i \in Nat /\ 0 < i
      BY RecordsAre
    <2> QED
      BY <1>3, <1>4, <1>5, <2>1
  <1>7. Taken <= m
    <2>1. CASE Taken = 0
      BY <1>5, <2>1
    <2>2. CASE Taken # 0
      <3>1. Taken \in 1 .. Taken
        BY <1>5, <2>2
      <3>2. Taken \in 1 .. m
        BY <1>2, <1>3, <1>4, <3>1
      <3> QED
        BY <1>5, <3>2
    <2> QED
      BY <2>1, <2>2
  <1>8. SeesUpTo(q, m)
    <2>1. m \in 0 .. Len(records)
      BY <1>4
    <2> QED
      BY <1>6, <2>1, SeesNothing, SeesMore
  <1>9. q \in ProjectionState /\ q.on
    <2>1. found \in SUBSET Ids
      BY <1>3, RecordsAre
    <2> QED
      BY <2>1, SeesNothing, ProjectedType DEF Projected, ProjectionState
  <1>10. /\ projection'.on /\ projection'.seq = Largest(EventsOf(found))
         /\ projection'.entry = q.entry /\ projection'.submissions = q.submissions
    <2> HIDE DEF q, found
    <2> QED
      BY <1>1, <1>9 DEF ProjectionState
  <1>11. Level' = m /\ SeesUpTo(projection, Level)'
    <2>1. Level' = m
      BY <1>8, <1>10 DEF SeesUpTo, Level, LevelOf
    <2> QED
      BY <1>1, <1>8, <1>10, <2>1 DEF SeesUpTo, Sees, LevelOf
  <1>12. /\ handling'.phase = "pushing" /\ handling'.batch = handling.batch
         /\ handling'.events = EventsOf(fresh)
    BY <1>1, <1>2 DEF HandlingState, Pushed
  <1>13. Taken' = Taken /\ AllEvents' = AllEvents
    BY <1>1, <1>12 DEF Taken, AllEvents, EventsOf
  <1>14. \A s \in EventsOf(found) : s \in AllEvents /\ s < First(m) /\ s \in Nat
    <2>1. \A i \in found : i <= m
      BY <1>6
    <2> QED
      BY <1>3, <1>5, <2>1, EventsUpTo, EventsBelow
  <1>15. projection'.seq < First(m)
    <2>1. First(m) \in Nat /\ 0 < First(m)
      BY <1>5, FirstGrows
    <2>2. EventsOf(found) \in SUBSET (0 .. First(m))
      BY <1>14, <2>1
    <2>3. EventsOf(found) = {} => Largest(EventsOf(found)) = 0
      BY <2>1, <2>2, LargestBounds
    <2>4. EventsOf(found) # {} => Largest(EventsOf(found)) \in EventsOf(found)
      BY <2>1, <2>2, LargestBounds
    <2> QED
      BY <1>10, <1>14, <2>1, <2>3, <2>4
  <1>16. EventsOf(fresh) \subseteq EventsOf(found)
    BY DEF EventsOf
  <1>17. ProjectionWhole'
    BY <1>7, <1>10, <1>11, <1>12, <1>13, <1>14, <1>15, <1>16 DEF ProjectionWhole
  <1>18. ASSUME NEW s \in Unsent PROVE s \in Unsent'
    <2>1. s \in AllEvents /\ First(floor) <= s
      BY <1>2 DEF Unsent, Ahead
    <2>2. CASE s < First(m)
      <3>1. s \in EventsOf({i \in DOMAIN records : floor < i /\ i <= m})
        BY <1>5, <2>1, <2>2, EventsBetween
      <3>2. {i \in DOMAIN records : floor < i /\ i <= m} \subseteq fresh
        <4>1. \A i \in DOMAIN records : i \in Nat /\ 0 < i
          BY RecordsAre
        <4> QED
          BY <1>5, <1>6, <4>1
      <3>3. s \in EventsOf(fresh)
        BY <3>1, <3>2 DEF EventsOf
      <3> QED
        BY <1>12, <3>3 DEF Unsent
    <2>3. CASE ~(s < First(m))
      <3>1. First(m) <= s
        BY <1>5, <2>1, <2>3, EventsBelow, FirstGrows
      <3> QED
        BY <1>10, <1>11, <1>13, <2>1, <3>1 DEF Unsent, Ahead
    <2> QED
      BY <2>2, <2>3
  <1> QED
    BY <1>17, <1>18

\* An event is pushed: all others that are not are still to come, and behind it.
LEMMA ProjectionPush ==
    ASSUME TypeOK, QueueWhole, ProjectionWhole, handling.phase = "pushing",
           NEW s \in handling.events, \A e \in handling.events : s <= e,
           handling' = [handling EXCEPT !.events = @ \ {s}],
           projection' = [projection EXCEPT !.seq = Larger(@, s)],
           UNCHANGED <<records, publications, floor>>
    PROVE  /\ ProjectionWhole'
           /\ s \in AllEvents
           /\ \A e \in Unsent : e # s => e \in Unsent' /\ ~(e <= s)
  <1>1. /\ projection.on /\ projection \in ProjectionState /\ handling \in HandlingState
        /\ SeesUpTo(projection, Level) /\ Taken <= Level
        /\ projection.seq < First(Level) /\ projection.seq \in Nat
        /\ \A e \in handling.events : e \in AllEvents /\ e < First(Level)
    BY DEF ProjectionWhole, TypeOK, ProjectionState
  <1>2. /\ projection'.on = projection.on /\ projection'.entry = projection.entry
        /\ projection'.submissions = projection.submissions
        /\ projection'.seq = Larger(projection.seq, s)
        /\ handling'.phase = handling.phase /\ handling'.batch = handling.batch
        /\ handling'.read = handling.read /\ handling'.events = handling.events \ {s}
    BY <1>1 DEF ProjectionState, HandlingState
  <1>3. /\ Taken' = Taken /\ Level' = Level /\ AllEvents' = AllEvents
        /\ SeesUpTo(projection, Level)' <=> SeesUpTo(projection, Level)
    BY <1>2 DEF Taken, Level, LevelOf, AllEvents, EventsOf, SeesUpTo, Sees
  <1>4. projection'.seq < First(Level)
    BY <1>1, <1>2 DEF Larger
  <1>5. ProjectionWhole'
    BY <1>1, <1>2, <1>3, <1>4 DEF ProjectionWhole
  <1>6. ASSUME NEW e \in Unsent, e # s PROVE e \in Unsent' /\ ~(e <= s)
    <2>1. CASE e \in handling.events
      <3>1. e \in Nat /\ s \in Nat /\ s <= e
        BY <1>1, <2>1, EventsBelow
      <3> QED
        BY <1>2, <1>6, <2>1, <3>1 DEF Unsent
    <2>2. CASE e \in Ahead
      <3>1. e \in AllEvents /\ First(Level) <= e /\ e \in Nat /\ s \in Nat /\ s < First(Level)
        BY <1>1, <2>2, EventsBelow DEF Ahead
      <3>2. Level \in Nat
        BY <1>1, LevelType
      <3>3. First(Level) \in Nat
        BY <3>2, FirstGrows
      <3> QED
        BY <1>1, <1>2, <1>3, <3>1, <3>3 DEF Unsent, Ahead
    <2> QED
      BY <2>1, <2>2 DEF Unsent
  <1> QED
    BY <1>1, <1>5, <1>6

\* The batch is done: no event up to the number of the delta is still to come.
LEMMA ProjectionDone ==
    ASSUME TypeOK, QueueWhole, ProjectionWhole, BatchDone
    PROVE  /\ ProjectionWhole' /\ Unsent \subseteq Unsent'
           /\ projection.seq < First(Len(records))
           /\ \A e \in Unsent : ~(e <= projection.seq)
  <1>1. /\ handling.phase = "pushing" /\ handling.events = {}
        /\ handling' = Idle /\ floor' = Taken
        /\ UNCHANGED <<records, publications, projection>>
    BY DEF BatchDone, EndBatch, Taken
  <1>2. /\ projection.on /\ SeesUpTo(projection, Level) /\ projection \in ProjectionState
        /\ projection.seq < First(Level) /\ projection.seq \in Nat
    BY <1>1 DEF ProjectionWhole, TypeOK, ProjectionState
  <1>3. Level \in Nat /\ Level <= Len(records) /\ Len(records) \in Nat
    BY <1>2, LevelType, RecordsAre
  <1>4. Taken' = Taken
    BY <1>1, QueueStays
  <1>5. /\ Level' = Level /\ AllEvents' = AllEvents
        /\ SeesUpTo(projection, Level)' <=> SeesUpTo(projection, Level)
    BY <1>1 DEF Level, LevelOf, AllEvents, EventsOf, SeesUpTo, Sees
  <1>6. ProjectionWhole'
    BY <1>1, <1>2, <1>4, <1>5 DEF ProjectionWhole, Idle
  <1>7. Unsent \subseteq Unsent'
    BY <1>1, <1>2, <1>5 DEF Unsent, Ahead
  <1>8. projection.seq < First(Len(records))
    BY <1>2, <1>3, FirstGrows, SMTT(30)
  <1>9. ASSUME NEW e \in Unsent PROVE ~(e <= projection.seq)
    <2>1. e \in AllEvents /\ First(Level) <= e
      BY <1>1, <1>2 DEF Unsent, Ahead
    <2>2. e \in Nat /\ First(Level) \in Nat
      BY <1>3, <2>1, EventsBelow, FirstGrows
    <2> QED
      BY <1>2, <2>1, <2>2
  <1> QED
    BY <1>6, <1>7, <1>8, <1>9

\* Without a projection, what lies behind the batches that were taken counts as unsent.
LEMMA ProjectionLost ==
    ASSUME TypeOK, QueueWhole, ProjectionWhole, Evict
    PROVE  ProjectionWhole' /\ Unsent \subseteq Unsent'
  <1>1. /\ handling.phase = "idle" /\ projection.on /\ projection' = NoProjection
        /\ UNCHANGED <<records, publications, floor, handling>>
    BY DEF Evict
  <1>2. handling.events = {} /\ SeesUpTo(projection, Level) /\ Taken <= Level
    BY <1>1 DEF ProjectionWhole
  <1>3. Level \in Nat /\ floor \in Nat /\ floor <= Level
    <2>1. projection \in ProjectionState
      BY DEF TypeOK
    <2>2. Level \in Nat
      BY <1>2, <2>1, LevelType
    <2> QED
      BY <1>1, <1>2, <2>2, TakenBounds
  <1>4. ~projection'.on
    BY <1>1 DEF NoProjection
  <1>5. ProjectionWhole'
    BY <1>1, <1>2, <1>4 DEF ProjectionWhole
  <1>6. AllEvents' = AllEvents
    BY <1>1 DEF AllEvents, EventsOf
  <1>7. ASSUME NEW s \in Unsent PROVE s \in Unsent'
    <2>1. s \in AllEvents /\ First(Level) <= s
      BY <1>1, <1>2, <1>7 DEF Unsent, Ahead
    <2>2. First(floor) <= s
      BY <1>3, <2>1, EventsBelow, FirstGrows
    <2> QED
      BY <1>1, <1>4, <1>6, <2>1, <2>2 DEF Unsent, Ahead
  <1> QED
    BY <1>5, <1>7

\* A restart begins with everything that is stored.
LEMMA ProjectionRestart ==
    ASSUME TypeOK, Restart
    PROVE  QueueWhole' /\ ProjectionWhole'
  <1>1. /\ publications' = <<>> /\ floor' = Len(records)
        /\ projection' = NoProjection /\ handling' = Idle /\ records' = records
    BY DEF Restart
  <1>2. /\ Len(records) \in Nat /\ DOMAIN records = 1 .. Len(records)
        /\ DOMAIN publications' = {}
    BY <1>1, RecordsAre
  <1>3. Taken' = Len(records)
    <2>1. Largest({}) = 0
      BY TakenType
    <2>2. handling'.batch.ids = {}
      BY <1>1 DEF Idle
    <2>3. Taken' = Larger(Len(records), 0)
      BY <1>1, <2>1, <2>2 DEF Taken
    <2> QED
      BY <1>2, <2>3 DEF Larger
  <1>4. /\ handling'.phase = "idle" /\ handling'.batch.ids = {} /\ handling'.events = {}
        /\ ~projection'.on
    BY <1>1 DEF Idle, NoProjection
  <1>5. \A j \in DOMAIN records : ~(Len(records) < j)
    BY <1>2
  <1> QED
    BY <1>1, <1>2, <1>3, <1>4, <1>5 DEF QueueWhole, ProjectionWhole

-----------------------------------------------------------------------------
(* The connections, when the feed or the line takes a step.                *)

\* New events lie behind all that is handed out.
LEMMA GaplessOn ==
    ASSUME NEW con \in ConnectionState, NEW all, NEW all_, NEW has, NEW at \in Nat,
           NEW top \in Nat, NEW top_ \in Nat, Gapless(con, all, has, at, top), top <= top_,
           \A s \in all_ : s \in Nat /\ (s \notin all => top <= s)
    PROVE  Gapless(con, all_, has, at, top_)
  <1>1. con.queue \in SUBSET Nat /\ con.last \in Nat /\ con.live \in Seq(Frame)
    BY DEF ConnectionState
  <1>2. \A j \in DOMAIN con.live : con.live[j].seq \in Nat
    <2>1. \A j \in DOMAIN con.live : con.live[j] \in Frame
      BY <1>1, ElementOfSeq, LenProperties
    <2> QED
      BY <2>1 DEF Frame
  <1>3. ASSUME NEW q \in con.queue
        PROVE  q < top_ /\ \A s \in all_ : s < q => s \in has \cup con.queue
    BY <1>1 DEF Gapless
  <1>4. at < top_ /\ \A s \in all_ : s <= at => s \in has
    BY DEF Gapless
  <1>5. con.phase \in Connected =>
            con.last < top_ /\ \A s \in all_ : s <= con.last => s \in has
    BY <1>1 DEF Gapless
  <1>6. \A j \in DOMAIN con.live : con.live[j].seq < top_
    BY <1>2 DEF Gapless
  <1>7. /\ con.phase \notin {"page", "open"} => con.queue = {}
        /\ con.phase \notin Reading => con.read = Read(1, {})
    BY DEF Gapless
  <1> QED
    BY <1>3, <1>4, <1>5, <1>6, <1>7 DEF Gapless

\* The type of a connection and of what belongs to it.
LEMMA ConnectionIs ==
    ASSUME TypeOK, NEW c \in Client
    PROVE  /\ connection[c] \in ConnectionState /\ cursor[c] \in Nat /\ got[c] \in Seq(Nat)
           /\ connection[c].read \in ReadState /\ connection[c].live \in Seq(Frame)
           /\ connection[c].queue \subseteq Nat /\ connection[c].last \in Nat
  <1>1. connection[c] \in ConnectionState /\ cursor[c] \in Nat /\ got[c] \in Seq(Nat)
    BY DEF TypeOK
  <1> QED
    BY <1>1 DEF ConnectionState

\* A step that leaves the connections alone, and lets none of the unsent events go.
LEMMA ServedWaits ==
    ASSUME NEW c \in Client, Served(c), UNCHANGED <<records, connection, client>>,
           Unsent \subseteq Unsent'
    PROVE  Served(c)'
  <1>1. AllEvents' = AllEvents /\ got' = got /\ cursor' = cursor
    BY DEF AllEvents, EventsOf, client
  <1>2. Has(c)' = Has(c)
    BY <1>1 DEF Has, Coming, EventsOf, WillFind
  <1>3. Follows(connection[c], AllEvents, Has(c), Unsent')
    BY FollowsOn DEF Served
  <1> QED
    BY <1>1, <1>2, <1>3 DEF Served, Follows, Gapless

\* A new event is unsent, and a read under way may or may not find it.
LEMMA ServedCommit ==
    ASSUME TypeOK, QueueWhole, ProjectionWhole, NEW new \in NewRecords,
           NEW again \in OneOrNone(InTable(Submissions)), NEW delta \in BOOLEAN,
           Commit(new, again, delta), NEW c \in Client, Served(c)
    PROVE  Served(c)'
  <1> DEFINE con == connection[c]
             top == First(Len(records))
             top_ == First(Len(records'))
  <1>1. UNCHANGED <<floor, projection, handling, connection, client>>
    BY DEF Commit
  <1>2. /\ TypeOK' /\ Len(records) <= Len(records')
        /\ DOMAIN records \subseteq DOMAIN records'
        /\ \A i \in DOMAIN records : records'[i] = records[i]
        /\ AllEvents \subseteq AllEvents'
        /\ \A s \in AllEvents' : s \notin AllEvents => First(Len(records)) <= s
    BY CommitGrows
  <1>3. Len(records) \in Nat /\ Len(records') \in Nat
    <2>1. records \in Seq(Table) /\ records' \in Seq(Table)
      BY <1>2 DEF TypeOK
    <2> QED
      BY <2>1, LenProperties
  <1>4. top \in Nat /\ top_ \in Nat /\ top <= top_
    BY <1>2, <1>3, FirstGrows
  <1>5. AllEvents' \subseteq Nat
    <2>1. /\ records' \in Seq(Table)
          /\ AllEvents' = EventsIn(records', DOMAIN records')
      BY <1>2 DEF TypeOK, AllEvents, EventsOf, EventsIn
    <2> QED
      BY <2>1, EventHasRecord
  <1>6. con \in ConnectionState /\ cursor[c] \in Nat
    BY ConnectionIs
  <1>7. Has(c) \subseteq Has(c)'
    <2>1. WillFind(con.read) \subseteq DOMAIN records
      BY DEF WillFind, Served
    <2>2. EventsIn(records', WillFind(con.read)) = EventsIn(records, WillFind(con.read))
      BY <1>2, <2>1, EventsStay
    <2>3. EventsOf(WillFind(con.read)) = EventsIn(records, WillFind(con.read))
      BY DEF EventsOf, EventsIn
    <2>4. EventsOf(WillFind(con.read))' = EventsIn(records', WillFind(con.read)')
      BY DEF EventsOf, EventsIn
    <2>5. WillFind(con.read) \subseteq WillFind(con.read)'
      BY <1>1, <1>2 DEF WillFind
    <2>6. EventsOf(WillFind(con.read)) \subseteq EventsOf(WillFind(con.read))'
      <3> DEFINE old == WillFind(con.read)
                 now == WillFind(con.read)'
      <3>1. old \subseteq now
        BY <2>5
      <3>2. \A rec : EventsIn(rec, old) \subseteq EventsIn(rec, now)
        <4> HIDE DEF old, now
        <4> QED
          BY <3>1 DEF EventsIn
      <3> QED
        BY <2>2, <2>3, <2>4, <3>2
    <2>7. got' = got /\ connection' = connection
      BY <1>1 DEF client
    <2>8. Coming(con) \subseteq Coming(con)'
      BY <2>6, <2>7 DEF Coming
    <2> QED
      BY <2>7, <2>8 DEF Has
  <1>8. Unsent \subseteq Unsent'
    BY ProjectionCommit
  <1>9. ASSUME NEW s \in AllEvents', s \notin AllEvents
        PROVE  s \in Unsent' /\ \A j \in DOMAIN con.live : ~(s <= con.live[j].seq)
    <2>1. top <= s /\ s \in Nat
      BY <1>2, <1>5, <1>9
    <2>2. s \in Unsent'
      <3>1. First(IF projection.on THEN Level ELSE floor) <= top
        <4>1. floor \in Nat /\ floor <= Len(records)
          BY TakenBounds
        <4>2. projection.on => Level \in Nat /\ Level <= Len(records)
          <5>1. projection.on => projection \in ProjectionState /\ SeesUpTo(projection, Level)
            BY DEF ProjectionWhole, TypeOK
          <5> QED
            BY <5>1, LevelType
        <4> QED
          BY <1>3, <4>1, <4>2, FirstGrows
      <3>2. First(IF projection.on THEN Level ELSE floor) \in Nat
        <4>1. floor \in Nat
          BY TakenBounds
        <4>2. projection.on => Level \in Nat
          <5>1. projection.on => projection \in ProjectionState /\ SeesUpTo(projection, Level)
            BY DEF ProjectionWhole, TypeOK
          <5> QED
            BY <5>1, LevelType
        <4> QED
          BY <4>1, <4>2, FirstGrows
      <3>3. First(IF projection.on THEN Level ELSE floor) <= s
        BY <1>4, <2>1, <3>1, <3>2
      <3>4. Level' = Level /\ projection' = projection /\ floor' = floor
        BY <1>1 DEF Level, LevelOf
      <3> QED
        BY <1>9, <3>3, <3>4 DEF Unsent, Ahead
    <2>3. ASSUME NEW j \in DOMAIN con.live PROVE ~(s <= con.live[j].seq)
      <3>1. con.live[j].seq < top
        BY DEF Served, Gapless
      <3>2. con.live[j].seq \in Nat
        <4>1. con.live \in Seq(Frame)
          BY ConnectionIs
        <4>2. con.live[j] \in Frame
          BY <4>1, ElementOfSeq, LenProperties
        <4> QED
          BY <4>2 DEF Frame
      <3> QED
        BY <1>4, <2>1, <3>1, <3>2
    <2> QED
      BY <2>2, <2>3
  <1>10. Follows(con, AllEvents', Has(c)', Unsent')
    BY <1>7, <1>8, <1>9, FollowsOn DEF Served
  <1>11. Gapless(con, AllEvents', ToSet(got[c]), cursor[c], top_)
    BY <1>2, <1>4, <1>5, <1>6, GaplessOn DEF Served
  <1>12. /\ connection' = connection /\ got' = got /\ cursor' = cursor
         /\ con.read.found \subseteq DOMAIN records'
    BY <1>1, <1>2 DEF client, Served
  <1> QED
    BY <1>10, <1>11, <1>12 DEF Served, Follows, Gapless

\* A push to all connections.
LEMMA ServedPush ==
    ASSUME TypeOK, NEW frames \in Seq(Frame), connection' = Push(frames),
           UNCHANGED <<records, client>>, NEW c \in Client, Served(c),
           \A j \in DOMAIN frames : frames[j].seq < First(Len(records)),
           \A j \in DOMAIN frames : \A s \in AllEvents :
               s <= frames[j].seq => s \notin Unsent \/ InLive(frames, j, s),
           \A s \in Unsent : s \in Unsent' \/ InLive(frames, Len(frames), s)
    PROVE  Served(c)'
  <1> DEFINE con == connection[c]
             next == connection'[c]
             top == First(Len(records))
  <1>1. /\ con \in ConnectionState /\ con.live \in Seq(Frame)
    BY ConnectionIs
  <1>2. /\ next.phase = con.phase /\ next.queue = con.queue /\ next.last = con.last
        /\ next.read = con.read
        /\ next.phase \in Connected =>
               /\ next.live = LastFrames(con.live \o frames)
               /\ next.lagged = (con.lagged \/ Len(con.live) + Len(frames) > Capacity)
        /\ next.phase \notin Connected => next = con
    <2>1. next = IF con.phase \in Connected
                 THEN [con EXCEPT
                           !.live = LastFrames(@ \o frames),
                           !.lagged = @ \/ Len(con.live) + Len(frames) > Capacity]
                 ELSE con
      BY DEF Push
    <2> HIDE DEF next
    <2> QED
      BY <1>1, <2>1 DEF ConnectionState
  <1>3. AllEvents' = AllEvents /\ got' = got /\ cursor' = cursor
    BY DEF AllEvents, EventsOf, client
  <1>4. Has(c)' = Has(c)
    <2>1. Coming(connection[c])' = Coming(connection[c])
      BY <1>2, <1>3 DEF Coming, EventsOf, WillFind
    <2> QED
      BY <1>2, <1>3, <2>1 DEF Has
  <1>5. Follows(next, AllEvents, Has(c), Unsent')
    <2>1. Follows(con, AllEvents, Has(c), Unsent)
      BY DEF Served
    <2> HIDE DEF next, con
    <2> QED
      BY <1>1, <1>2, <2>1, FollowsPush
  <1>6. \A j \in DOMAIN next.live : next.live[j].seq < top
    <2>1. \A j \in DOMAIN con.live : con.live[j].seq < top
      BY DEF Served, Gapless
    <2>2. \A j \in DOMAIN LastFrames(con.live \o frames) :
              LastFrames(con.live \o frames)[j].seq < top
      BY <1>1, <2>1, ConcatBelow
    <2> HIDE DEF next, con
    <2> QED
      BY <1>2, <2>1, <2>2
  <1>7. Gapless(next, AllEvents, ToSet(got[c]), cursor[c], top)
    <2>1. Gapless(con, AllEvents, ToSet(got[c]), cursor[c], top)
      BY DEF Served
    <2> HIDE DEF next, con
    <2> QED
      BY <1>2, <1>6, <2>1 DEF Gapless
  <1>8. next.read.found \subseteq DOMAIN records
    BY <1>2 DEF Served
  <1> QED
    BY <1>3, <1>4, <1>5, <1>7, <1>8 DEF Served, Follows, Gapless

\* The smallest of the events goes to every connection.
LEMMA ServedPushEvent ==
    ASSUME TypeOK, QueueWhole, ProjectionWhole, PushEvent, NEW c \in Client, Served(c)
    PROVE  Served(c)'
  <1>1. PICK s \in handling.events :
            /\ \A e \in handling.events : s <= e
            /\ handling' = [handling EXCEPT !.events = @ \ {s}]
            /\ projection' = [projection EXCEPT !.seq = Larger(@, s)]
            /\ connection' = Push(FramesOf(s))
    BY DEF PushEvent
  <1>2. handling.phase = "pushing" /\ UNCHANGED <<records, publications, floor, client>>
    BY DEF PushEvent
  <1>3. s \in AllEvents /\ \A e \in Unsent : e # s => e \in Unsent' /\ ~(e <= s)
    BY <1>1, <1>2, ProjectionPush
  <1>4. s \in Nat /\ s < First(Len(records))
    BY <1>3, EventsBelow
  <1> DEFINE frames == FramesOf(s)
  <1>5. frames \in Seq(Frame)
    BY <1>4, FramesType
  <1>6. /\ Len(frames) \in 1 .. 2 /\ DOMAIN frames = 1 .. Len(frames)
        /\ frames[1] = [kind |-> "event", seq |-> s]
        /\ \A j \in DOMAIN frames : frames[j].seq = s
    <2>1. CASE s % Slots = 0
      <3> DEFINE first == <<[kind |-> "event", seq |-> s]>>
                 second == <<[kind |-> "status", seq |-> s]>>
      <3>1. frames = first \o second
        BY <2>1 DEF FramesOf
      <3>2. first \in Seq(Frame) /\ second \in Seq(Frame) /\ Len(first) = 1 /\ Len(second) = 1
        BY <1>4 DEF Frame
      <3>3. /\ first[1] = [kind |-> "event", seq |-> s]
            /\ second[1] = [kind |-> "status", seq |-> s]
        OBVIOUS
      <3> HIDE DEF frames, first, second
      <3>4. /\ Len(frames) = 2
            /\ frames[1] = first[1] /\ frames[2] = second[1]
        <4>1. /\ Len(first \o second) = 1 + 1
              /\ \A i \in 1 .. 1 + 1 :
                     (first \o second)[i] = IF i <= 1 THEN first[i] ELSE second[i - 1]
          BY <3>2, ConcatProperties
        <4> QED
          BY <3>1, <4>1
      <3>5. DOMAIN frames = 1 .. 2
        BY <1>5, <3>4, LenProperties
      <3> QED
        BY <3>3, <3>4, <3>5
    <2>2. CASE s % Slots # 0
      <3>1. frames = <<[kind |-> "event", seq |-> s]>>
        BY <2>2 DEF FramesOf
      <3> HIDE DEF frames
      <3> QED
        BY <3>1
    <2> QED
      BY <2>1, <2>2
  <1> HIDE DEF frames
  <1>7. \A j \in 1 .. Len(frames) : InLive(frames, j, s)
    <2>1. \A j \in 1 .. Len(frames) : 1 \in 1 .. j
      BY <1>6
    <2> QED
      BY <1>6, <2>1 DEF InLive
  <1>8. \A j \in DOMAIN frames : \A e \in AllEvents :
            e <= frames[j].seq => e \notin Unsent \/ InLive(frames, j, e)
    BY <1>3, <1>6, <1>7
  <1>9. \A e \in Unsent : e \in Unsent' \/ InLive(frames, Len(frames), e)
    BY <1>3, <1>6, <1>7
  <1>10. \A j \in DOMAIN frames : frames[j].seq < First(Len(records))
    BY <1>4, <1>6
  <1> QED
    BY <1>1, <1>2, <1>5, <1>8, <1>9, <1>10, ServedPush DEF frames

\* A delta has the number of the last event that was pushed.
LEMMA ServedBatchDone ==
    ASSUME TypeOK, QueueWhole, ProjectionWhole, BatchDone, NEW c \in Client, Served(c)
    PROVE  Served(c)'
  <1>1. /\ Unsent \subseteq Unsent' /\ projection.seq < First(Len(records))
        /\ \A e \in Unsent : ~(e <= projection.seq)
    BY ProjectionDone
  <1>2. UNCHANGED <<records, client>>
    BY DEF BatchDone, EndBatch
  <1> DEFINE frames == <<[kind |-> "delta", seq |-> projection.seq]>>
  <1>3. CASE connection' = Push(frames)
    <2>1. projection.seq \in Nat
      BY DEF TypeOK, ProjectionState
    <2>2. frames \in Seq(Frame)
      BY <2>1 DEF Frame
    <2>3. DOMAIN frames = {1} /\ frames[1].seq = projection.seq
      OBVIOUS
    <2> HIDE DEF frames
    <2> QED
      BY <1>1, <1>2, <1>3, <2>2, <2>3, ServedPush
  <1>4. CASE connection' = connection
    BY <1>1, <1>2, <1>4, ServedWaits
  <1> QED
    BY <1>3, <1>4 DEF BatchDone, EndBatch

\* A client that is not connected follows nothing.
LEMMA NotConnected ==
    ASSUME NEW con, NEW all, NEW has, NEW unsent, con.phase \notin Connected
    PROVE  Follows(con, all, has, unsent)
  BY DEF Follows

\* A restart cuts every connection.
LEMMA ServedRestart ==
    ASSUME TypeOK, Restart, NEW c \in Client, Served(c)
    PROVE  Served(c)'
  <1> DEFINE con == connection[c]
             next == connection'[c]
  <1>1. /\ AllEvents' = AllEvents /\ got' = got /\ cursor' = cursor /\ records' = records
    BY DEF Restart, AllEvents, EventsOf, client
  <1>2. \/ con.phase \in Connected /\ next = Off
        \/ con.phase = "paging" /\ next = Fresh
        \/ con.phase \notin Connected /\ next = con
    BY DEF Restart
  <1>3. next.phase \notin Connected
    BY <1>2 DEF Off, Fresh, Connected
  <1>4. DOMAIN <<>> = {}
    OBVIOUS
  <1>5. \A old \in {Fresh, Off} :
            Gapless(con, AllEvents, ToSet(got[c]), cursor[c], First(Len(records))) =>
                Gapless(old, AllEvents, ToSet(got[c]), cursor[c], First(Len(records)))
    BY <1>4 DEF Gapless, Fresh, Off, Connected, Reading
  <1>6. Gapless(next, AllEvents, ToSet(got[c]), cursor[c], First(Len(records)))
    BY <1>2, <1>5 DEF Served
  <1>7. next.read.found \subseteq DOMAIN records
    BY <1>2 DEF Served, Off, Fresh, Read
  <1>8. Follows(next, AllEvents, Has(c)', Unsent')
    BY <1>3, NotConnected
  <1> QED
    BY <1>1, <1>6, <1>7, <1>8 DEF Served, Follows, Gapless

-----------------------------------------------------------------------------
(* The connections, when a client takes a step.                            *)

\* The state a client's connection is set to.
LEMMA ServedSet ==
    ASSUME TypeOK, NEW c \in Client, NEW next, Set(c, next), records' = records,
           Unsent' = Unsent,
           Follows(next, AllEvents, ToSet(got'[c]) \cup next.queue \cup Coming(next), Unsent),
           Gapless(next, AllEvents, ToSet(got'[c]), cursor'[c], First(Len(records))),
           next.read.found \subseteq DOMAIN records
    PROVE  Served(c)'
  <1>1. connection'[c] = next
    BY DEF Set, TypeOK
  <1>2. AllEvents' = AllEvents
    BY DEF AllEvents, EventsOf
  <1>3. Has(c)' = ToSet(got'[c]) \cup next.queue \cup Coming(next)
    BY <1>1 DEF Has, Coming, EventsOf, WillFind
  <1> QED
    BY <1>1, <1>2, <1>3 DEF Served, Follows, Gapless

\* An event is handed to a client.
LEMMA OneMoreEvent ==
    ASSUME TypeOK, NEW c \in Client, NEW s \in Nat, Receive(c, [kind |-> "event", seq |-> s])
    PROVE  /\ ToSet(got'[c]) = ToSet(got[c]) \cup {s}
           /\ cursor'[c] = s \/ cursor'[c] = Larger(cursor[c], s)
  <1>1. got'[c] = Append(got[c], s)
    BY DEF Receive, TypeOK
  <1>2. got[c] \in Seq(Nat) /\ cursor[c] \in Nat
    BY DEF TypeOK
  <1>3. ToSet(got'[c]) = ToSet(got[c]) \cup {s}
    <2>1. Len(got[c]) \in Nat /\ DOMAIN got[c] = 1 .. Len(got[c])
      BY <1>2, LenProperties
    <2> DEFINE more == Append(got[c], s)
    <2>2. /\ DOMAIN more = 1 .. Len(got[c]) + 1
          /\ \A i \in 1 .. Len(got[c]) : more[i] = got[c][i]
          /\ more[Len(got[c]) + 1] = s
      BY <1>2, <2>1, LenProperties
    <2>3. 1 .. Len(got[c]) + 1 = (1 .. Len(got[c])) \cup {Len(got[c]) + 1}
      BY <2>1
    <2>4. got'[c] = more
      BY <1>1
    <2> HIDE DEF more
    <2> QED
      BY <2>1, <2>2, <2>3, <2>4 DEF ToSet
  <1> QED
    BY <1>2, <1>3 DEF Receive, TypeOK

\* A page is cut off behind its events, not between them.
LEMMA PageIsWhole ==
    ASSUME NEW n \in Nat, NEW events \in SUBSET (0 .. n),
           NEW q \in FirstOf(events), NEW e \in events, e < q
    PROVE  e \in FirstOf(events)
  <1> DEFINE below == {d \in events : d < e}
             more == {d \in events : d < q}
  <1>1. IsFiniteSet(0 .. n)
    BY FS_Interval
  <1>2. IsFiniteSet(more)
    <2>1. more \subseteq 0 .. n
      OBVIOUS
    <2> HIDE DEF more
    <2> QED
      BY <1>1, <2>1, FS_Subset
  <1>3. below \subseteq more
    <2>1. \A d \in events : d \in Nat
      OBVIOUS
    <2>2. e \in Nat /\ q \in Nat
      BY DEF FirstOf
    <2>3. ASSUME NEW d \in events, d < e PROVE d < q
      BY <2>1, <2>2, <2>3
    <2> QED
      BY <2>3
  <1>4. Cardinality(below) \in Nat /\ Cardinality(more) \in Nat
        /\ Cardinality(below) <= Cardinality(more)
    <2> HIDE DEF below, more
    <2> QED
      BY <1>2, <1>3, FS_Subset, FS_CardinalityType
  <1>5. Cardinality(more) < PageLimit
    BY DEF FirstOf
  <1>6. Cardinality(below) < PageLimit
    <2> HIDE DEF below, more
    <2> QED
      BY <1>4, <1>5, BoundsAssumption
  <1> QED
    BY <1>6 DEF FirstOf

\* A client that has no connection, or has one that is about to read the session.
LEMMA ServedAnew ==
    ASSUME TypeOK, NEW c \in Client, Served(c), NEW next, Set(c, next),
           UNCHANGED <<records, client>>, Unsent' = Unsent,
           next.phase \in Connected =>
               /\ next.phase \in {"reading", "catching"}
               /\ next.last \in {cursor[c]} \cup
                      (IF connection[c].phase \in Connected THEN {connection[c].last} ELSE {}),
           next.phase \notin {"page", "open"}, next.queue = {},
           next.live = <<>> \/ next.live = connection[c].live, next.read = Read(1, {})
    PROVE  Served(c)'
  <1> DEFINE top == First(Len(records))
             has == ToSet(got[c])
  <1>1. got' = got /\ cursor' = cursor
    BY DEF client
  <1>2. WillFind(next.read) = DOMAIN records /\ next.read.found \subseteq DOMAIN records
    BY WillFindFirst
  <1>3. next.phase \in Connected => Coming(next) = AllEvents
    BY <1>2 DEF Coming, AllEvents
  <1>4. Follows(next, AllEvents, has \cup next.queue \cup Coming(next), Unsent)
    <2>1. CASE next.phase \in Connected
      BY <1>3, <2>1, FollowsAll
    <2>2. CASE next.phase \notin Connected
      BY <2>2, NotConnected
    <2> QED
      BY <2>1, <2>2
  <1>5. Gapless(next, AllEvents, has, cursor[c], top)
    <2>1. /\ cursor[c] < top /\ \A s \in AllEvents : s <= cursor[c] => s \in has
          /\ connection[c].phase \in Connected =>
                 /\ connection[c].last < top
                 /\ \A s \in AllEvents : s <= connection[c].last => s \in has
          /\ \A j \in DOMAIN connection[c].live : connection[c].live[j].seq < top
      BY DEF Served, Gapless
    <2>2. DOMAIN <<>> = {}
      OBVIOUS
    <2>3. \A j \in DOMAIN next.live : next.live[j].seq < top
      BY <2>1, <2>2
    <2>4. next.phase \in Connected =>
              next.last < top /\ \A s \in AllEvents : s <= next.last => s \in has
      BY <2>1
    <2> HIDE DEF top, has
    <2> QED
      BY <2>1, <2>3, <2>4 DEF Gapless
  <1> QED
    BY <1>1, <1>2, <1>4, <1>5, ServedSet

\* A client reads a table, or the last one, and sees no gap.
LEMMA ServedRead ==
    ASSUME TypeOK, NEW c \in Client, Served(c), Unsent' = Unsent,
           ReadTable(c) \/ (ReadSession(c) /\ ~IsTorn(Found(connection[c].read)))
    PROVE  Served(c)'
  <1> DEFINE con == connection[c]
             top == First(Len(records))
             has == ToSet(got[c])
  <1>1. /\ con \in ConnectionState /\ cursor[c] \in Nat /\ con.read \in ReadState
        /\ con.queue \subseteq Nat /\ con.last \in Nat
        /\ con.read.found \subseteq DOMAIN records
    BY ConnectionIs DEF Served
  <1>2. /\ Follows(con, AllEvents, has \cup con.queue \cup Coming(con), Unsent)
        /\ Gapless(con, AllEvents, has, cursor[c], top)
    BY DEF Served, Has
  <1>3. records' = records /\ got' = got /\ cursor' = cursor
    BY DEF ReadTable, ReadSession, client
  <1>4. ASSUME ReadTable(c) PROVE Served(c)'
    <2> DEFINE next == [con EXCEPT !.read = NextRead(@)]
    <2>1. /\ next.phase = con.phase /\ next.queue = con.queue /\ next.last = con.last
          /\ next.live = con.live /\ next.lagged = con.lagged /\ next.read = NextRead(con.read)
      BY <1>1 DEF ConnectionState
    <2>2. Set(c, next) /\ con.phase \in Reading /\ con.read.table # Submissions
      BY <1>4 DEF ReadTable
    <2>3. /\ WillFind(NextRead(con.read)) = WillFind(con.read)
          /\ NextRead(con.read).found \subseteq DOMAIN records
      BY <1>1, <2>2, WillFindNext
    <2> HIDE DEF next, con, has, top
    <2>4. Coming(next) = Coming(con)
      BY <2>1, <2>3 DEF Coming
    <2>5. Follows(next, AllEvents, has \cup next.queue \cup Coming(next), Unsent)
      BY <1>2, <2>1, <2>4 DEF Follows
    <2>6. Gapless(next, AllEvents, has, cursor[c], top)
      BY <1>2, <2>1, <2>2 DEF Gapless
    <2>7. next.read.found \subseteq DOMAIN records
      BY <2>1, <2>3
    <2> QED
      BY <1>3, <2>2, <2>5, <2>6, <2>7, ServedSet DEF has, top
  <1>5. ASSUME ReadSession(c), ~IsTorn(Found(con.read)) PROVE Served(c)'
    <2> DEFINE found == Found(con.read)
               paging == con.phase = "paging"
               from == IF paging THEN cursor[c] ELSE con.last
               events == After(found, from)
               page == IF paging THEN FirstOf(events) ELSE events
               next == [con EXCEPT !.phase = IF paging THEN "page" ELSE "open",
                                   !.read = Read(1, {}), !.queue = page,
                                   !.more = page # events]
    <2>1. Set(c, next) /\ con.phase \in Reading /\ con.read.table = Submissions
      BY <1>5 DEF ReadSession
    <2>2. found = WillFind(con.read) /\ found \subseteq DOMAIN records
      BY <1>1, <2>1, WillFindLast
    <2>3. found = 1 .. Largest(found) /\ Largest(found) \in Nat
      BY <1>5, <2>2, TakenType, RecordsAre DEF IsTorn
    <2>4. /\ next.phase = IF paging THEN "page" ELSE "open"
          /\ next.read = Read(1, {}) /\ next.queue = page
          /\ next.last = con.last /\ next.live = con.live /\ next.lagged = con.lagged
      <3> HIDE DEF page, events, found, from
      <3> QED
        BY <1>1 DEF ConnectionState
    <2>5. con.queue = {} /\ (paging \/ con.phase \in {"reading", "catching"})
      BY <1>2, <2>1 DEF Gapless, Reading
    <2>6. from \in Nat /\ \A s \in AllEvents : s <= from => s \in has
      BY <1>1, <1>2, <2>5 DEF Gapless, Connected
    <2>7. /\ page \subseteq events
          /\ events = {e \in EventsOf(found) : e > from}
          /\ ~paging => page = events
      BY DEF After, FirstOf
    <2>8. EventsOf(found) \subseteq AllEvents
      BY <2>2 DEF AllEvents, EventsOf
    <2>9. ASSUME NEW q \in EventsOf(found), NEW s \in AllEvents, s < q
          PROVE  s \in EventsOf(found)
      <3>1. /\ s \in EventsIn(records, DOMAIN records) /\ s \in Nat /\ q \in Nat
            /\ q \in EventsIn(records, DOMAIN records)
        BY <2>8, RecordsAre, EventsBelow
      <3>2. found = {i \in DOMAIN records : i <= Largest(found)}
        <4>1. \A i \in DOMAIN records : i \in Nat /\ 1 <= i
          BY RecordsAre
        <4> HIDE DEF found
        <4> QED
          BY <2>2, <2>3, <4>1
      <3>3. q \in EventsIn(records, {i \in DOMAIN records : i <= Largest(found)})
        BY <2>9, <3>2 DEF EventsOf, EventsIn
      <3>4. q < EventSeq(Largest(found) + 1, 0)
        BY <2>3, <3>1, <3>3, RecordsAre, EventPlaces
      <3>5. s < EventSeq(Largest(found) + 1, 0)
        <4>1. EventSeq(Largest(found) + 1, 0) \in Nat
          BY <2>3, FirstGrows DEF First
        <4> QED
          BY <2>9, <3>1, <3>4, <4>1
      <3>6. s \in EventsIn(records, {i \in DOMAIN records : i <= Largest(found)})
        BY <2>3, <3>1, <3>5, RecordsAre, EventPlaces
      <3> QED
        BY <3>2, <3>6 DEF EventsOf, EventsIn
    <2>10. ASSUME NEW q \in page
           PROVE  q < top /\ \A s \in AllEvents : s < q => s \in has \cup page
      <3>1. q \in EventsOf(found) /\ q \in AllEvents /\ q < top
        BY <2>7, <2>8, EventsBelow
      <3>2. ASSUME NEW s \in AllEvents, s < q PROVE s \in has \cup page
        <4>1. s \in EventsOf(found) /\ s \in Nat
          BY <2>9, <3>1, <3>2, EventsBelow
        <4>2. CASE s <= from
          BY <2>6, <4>2
        <4>3. CASE ~(s <= from)
          <5>1. s \in events
            BY <2>6, <2>7, <4>1, <4>3
          <5>2. CASE paging
            <6>1. q \in FirstOf(events)
              BY <5>2
            <6>2. top \in Nat /\ events \in SUBSET (0 .. top)
              <7>1. top \in Nat
                BY RecordsAre, FirstGrows
              <7>2. \A e \in events : e \in Nat /\ e < top
                BY <2>7, <2>8, EventsBelow
              <7> HIDE DEF top, events
              <7> QED
                BY <7>1, <7>2
            <6>3. s \in FirstOf(events)
              <7> HIDE DEF top, events
              <7> QED
                BY <3>2, <5>1, <6>1, <6>2, PageIsWhole
            <6> QED
              BY <5>2, <6>3
          <5>3. CASE ~paging
            BY <2>7, <5>1, <5>3
          <5> QED
            BY <5>2, <5>3
        <4> QED
          BY <4>2, <4>3
      <3> QED
        BY <3>1, <3>2
    <2>11. ~paging => Coming(con) \subseteq has \cup page
      <3> SUFFICES ASSUME ~paging, NEW s \in Coming(con) PROVE s \in has \cup page
        OBVIOUS
      <3>1. s \in EventsOf(found)
        BY <2>2, <2>5 DEF Coming
      <3>2. s \in AllEvents /\ s \in Nat
        BY <2>8, <3>1, EventsBelow
      <3>3. CASE s <= from
        BY <2>6, <3>2, <3>3
      <3>4. CASE ~(s <= from)
        BY <2>6, <2>7, <3>1, <3>2, <3>4
      <3> QED
        BY <3>3, <3>4
    <2> HIDE DEF next, page, events, found, from, con, top, has
    <2>12. Coming(next) = {} /\ next.queue = page
      BY <2>4 DEF Coming
    <2>13. Follows(next, AllEvents, has \cup next.queue \cup Coming(next), Unsent)
      <3>1. CASE paging
        BY <2>4, <3>1, NotConnected DEF Connected
      <3>2. CASE ~paging
        <4>1. has \cup con.queue \cup Coming(con) \subseteq has \cup next.queue \cup Coming(next)
          BY <2>5, <2>11, <2>12, <3>2
        <4>2. con.phase \in Connected
          BY <2>5, <3>2 DEF Connected
        <4> QED
          BY <1>2, <2>4, <4>1, <4>2, FollowsOn
      <3> QED
        BY <3>1, <3>2
    <2>14. Gapless(next, AllEvents, has, cursor[c], top)
      <3>1. /\ cursor[c] < top /\ \A s \in AllEvents : s <= cursor[c] => s \in has
            /\ \A j \in DOMAIN next.live : next.live[j].seq < top
        BY <1>2, <2>4 DEF Gapless
      <3>2. next.phase \in Connected =>
                next.last < top /\ \A s \in AllEvents : s <= next.last => s \in has
        BY <1>2, <2>4, <2>5 DEF Gapless, Connected
      <3>3. next.phase \in {"page", "open"} /\ next.read = Read(1, {})
        BY <2>4
      <3> QED
        BY <2>10, <2>12, <3>1, <3>2, <3>3 DEF Gapless
    <2>15. next.read.found \subseteq DOMAIN records
      BY <2>4 DEF Read
    <2> QED
      BY <1>3, <2>1, <2>13, <2>14, <2>15, ServedSet DEF has, top
  <1> QED
    BY <1>4, <1>5

\* The next event of a page or a back-fill reaches the client.
LEMMA ServedHandOut ==
    ASSUME TypeOK, NEW c \in Client, Served(c), Unsent' = Unsent, HandOut(c)
    PROVE  Served(c)'
  <1> DEFINE con == connection[c]
             top == First(Len(records))
             has == ToSet(got[c])
  <1>1. /\ con \in ConnectionState /\ cursor[c] \in Nat
        /\ con.queue \subseteq Nat /\ con.last \in Nat
        /\ con.read.found \subseteq DOMAIN records
    BY ConnectionIs DEF Served
  <1>2. /\ Follows(con, AllEvents, has \cup con.queue \cup Coming(con), Unsent)
        /\ Gapless(con, AllEvents, has, cursor[c], top)
    BY DEF Served, Has
  <1>3. PICK s \in con.queue :
            /\ \A e \in con.queue : s <= e
            /\ Set(c, [con EXCEPT !.queue = @ \ {s}, !.last = Larger(@, s)])
            /\ Receive(c, [kind |-> "event", seq |-> s])
    BY DEF HandOut
  <1>4. s \in Nat /\ records' = records
    BY <1>1 DEF HandOut
  <1>5. /\ ToSet(got'[c]) = has \cup {s}
        /\ cursor'[c] = s \/ cursor'[c] = Larger(cursor[c], s)
    BY <1>3, <1>4, OneMoreEvent
  <1> DEFINE next == [con EXCEPT !.queue = @ \ {s}, !.last = Larger(@, s)]
  <1>6. /\ next.phase = con.phase /\ next.queue = con.queue \ {s}
        /\ next.last = Larger(con.last, s) /\ next.read = con.read
        /\ next.live = con.live /\ next.lagged = con.lagged
    BY <1>1 DEF ConnectionState
  <1>7. Set(c, next)
    BY <1>3
  <1> HIDE DEF next, con, top, has
  <1>8. s < top /\ \A e \in AllEvents : e <= s => e \in has \cup {s}
    <2>1. s < top /\ \A e \in AllEvents : e < s => e \in has \cup con.queue
      BY <1>2 DEF Gapless
    <2>2. ASSUME NEW e \in AllEvents, e <= s PROVE e \in has \cup {s}
      <3>1. e \in Nat
        BY EventsBelow
      <3>2. CASE e = s
        BY <3>2
      <3>3. CASE e # s
        <4>1. e < s
          BY <1>4, <2>2, <3>1, <3>3
        <4>2. e \notin con.queue
          BY <1>1, <1>3, <1>4, <3>1, <4>1
        <4> QED
          BY <2>1, <4>1, <4>2
      <3> QED
        BY <3>2, <3>3
    <2> QED
      BY <2>1, <2>2
  <1>9. \A n \in Nat : n < top /\ (\A e \in AllEvents : e <= n => e \in has) =>
            /\ Larger(n, s) < top
            /\ \A e \in AllEvents : e <= Larger(n, s) => e \in has \cup {s}
    BY <1>8 DEF Larger
  <1>10. Coming(next) = Coming(con)
    BY <1>6 DEF Coming
  <1>11. Follows(next, AllEvents, (has \cup {s}) \cup next.queue \cup Coming(next), Unsent)
    <2>1. has \cup con.queue \cup Coming(con) \subseteq
              (has \cup {s}) \cup next.queue \cup Coming(next)
      BY <1>6, <1>10
    <2> QED
      BY <1>2, <1>6, <2>1, FollowsOn
  <1>12. Gapless(next, AllEvents, has \cup {s}, cursor'[c], top)
    <2>1. ASSUME NEW q \in next.queue
          PROVE  q < top /\ \A e \in AllEvents : e < q => e \in (has \cup {s}) \cup next.queue
      BY <1>2, <1>6 DEF Gapless
    <2>2. cursor'[c] < top /\ \A e \in AllEvents : e <= cursor'[c] => e \in has \cup {s}
      <3>1. cursor[c] < top /\ \A e \in AllEvents : e <= cursor[c] => e \in has
        BY <1>2 DEF Gapless
      <3> QED
        BY <1>1, <1>5, <1>8, <1>9, <3>1
    <2>3. next.phase \in Connected =>
              next.last < top /\ \A e \in AllEvents : e <= next.last => e \in has \cup {s}
      <3>1. con.phase \in Connected =>
                con.last < top /\ \A e \in AllEvents : e <= con.last => e \in has
        BY <1>2 DEF Gapless
      <3> QED
        BY <1>1, <1>6, <1>9, <3>1
    <2>4. /\ \A j \in DOMAIN next.live : next.live[j].seq < top
          /\ next.phase \notin {"page", "open"} => next.queue = {}
          /\ next.phase \notin Reading => next.read = Read(1, {})
      BY <1>2, <1>6 DEF Gapless
    <2> QED
      BY <2>1, <2>2, <2>3, <2>4 DEF Gapless
  <1>13. next.read.found \subseteq DOMAIN records
    BY <1>1, <1>6
  <1> QED
    BY <1>4, <1>5, <1>7, <1>11, <1>12, <1>13, ServedSet DEF has, top

\* The next frame of the hub reaches the client, unless it was in the back-fill.
LEMMA ServedTakeFrame ==
    ASSUME TypeOK, NEW c \in Client, Served(c), Unsent' = Unsent, TakeFrame(c)
    PROVE  Served(c)'
  <1> DEFINE con == connection[c]
             top == First(Len(records))
             has == ToSet(got[c])
             frame == Head(con.live)
             rest == [con EXCEPT !.live = Tail(@)]
             sent == [rest EXCEPT !.last = Larger(@, frame.seq),
                                  !.status = IF frame.kind = "status" THEN frame.seq ELSE @]
             n == Len(con.live)
  <1>1. /\ con \in ConnectionState /\ cursor[c] \in Nat /\ con.live \in Seq(Frame)
        /\ con.queue \subseteq Nat /\ con.last \in Nat
        /\ con.read.found \subseteq DOMAIN records
    BY ConnectionIs DEF Served
  <1>2. /\ Follows(con, AllEvents, has \cup con.queue \cup Coming(con), Unsent)
        /\ Gapless(con, AllEvents, has, cursor[c], top)
    BY DEF Served, Has
  <1>3. /\ con.phase = "open" /\ con.queue = {} /\ ~con.lagged /\ con.live # <<>>
        /\ records' = records
        /\ \/ AlreadySent(frame, con.last) /\ Set(c, rest) /\ UNCHANGED client
           \/ ~AlreadySent(frame, con.last) /\ Set(c, sent) /\ Receive(c, frame)
    <2>1. rest.last = con.last
      BY <1>1 DEF ConnectionState
    <2> QED
      BY <2>1 DEF TakeFrame
  <1>4. /\ n \in Nat \ {0} /\ DOMAIN con.live = 1 .. n
        /\ frame = con.live[1] /\ frame \in Frame /\ frame.seq \in Nat
        /\ Tail(con.live) \in Seq(Frame) /\ Len(Tail(con.live)) = n - 1
        /\ DOMAIN Tail(con.live) = 1 .. n - 1
        /\ \A j \in 1 .. n - 1 : Tail(con.live)[j] = con.live[j + 1]
    <2>1. n \in Nat \ {0} /\ DOMAIN con.live = 1 .. n
      BY <1>1, <1>3, LenProperties, EmptySeq
    <2>2. /\ frame = con.live[1] /\ frame \in Frame
          /\ Tail(con.live) \in Seq(Frame) /\ Len(Tail(con.live)) = n - 1
          /\ \A j \in 1 .. n - 1 : Tail(con.live)[j] = con.live[j + 1]
      BY <1>1, <1>3, HeadTailProperties
    <2>3. DOMAIN Tail(con.live) = 1 .. n - 1
      BY <2>2, LenProperties
    <2> QED
      BY <2>1, <2>2, <2>3 DEF Frame
  <1>5. /\ rest.phase = "open" /\ rest.queue = {} /\ rest.last = con.last
        /\ rest.read = con.read /\ rest.live = Tail(con.live) /\ ~rest.lagged
        /\ sent.phase = "open" /\ sent.queue = {} /\ sent.last = Larger(con.last, frame.seq)
        /\ sent.read = con.read /\ sent.live = Tail(con.live) /\ ~sent.lagged
    <2> HIDE DEF frame
    <2> QED
      BY <1>1, <1>3 DEF ConnectionState
  <1>6. Coming(con) = {} /\ Coming(rest) = {} /\ Coming(sent) = {}
    <2> HIDE DEF rest, sent
    <2> QED
      BY <1>3, <1>5 DEF Coming
  <1>7. /\ cursor[c] < top /\ \A e \in AllEvents : e <= cursor[c] => e \in has
        /\ con.last < top /\ \A e \in AllEvents : e <= con.last => e \in has
        /\ \A j \in DOMAIN con.live : con.live[j].seq < top
        /\ con.read = Read(1, {})
    BY <1>2, <1>3 DEF Gapless, Connected, Reading
  <1>8. /\ \A j \in 1 .. n : \A e \in AllEvents :
               e <= con.live[j].seq => e \in has \/ InLive(con.live, j, e)
        /\ \A e \in AllEvents : e \in has \cup Unsent \/ InLive(con.live, n, e)
    BY <1>2, <1>3, <1>4, <1>6 DEF Follows, Connected
  <1> HIDE DEF con, top, has, frame, rest, sent, n
  \* What the client has afterwards, with the frame if it is an event.
  <1>9. ASSUME NEW now, has \subseteq now,
               frame.kind = "event" => frame.seq \in now \/ frame.seq \notin AllEvents,
               NEW next, next.phase = "open", next.queue = {}, next.live = Tail(con.live),
               ~next.lagged, Coming(next) = {}
        PROVE  Follows(next, AllEvents, now \cup next.queue \cup Coming(next), Unsent)
    <2>1. ASSUME NEW j \in 1 .. n, NEW e \in AllEvents, InLive(con.live, j, e)
          PROVE  e \in now \/ (j - 1 \in 0 .. n - 1 /\ InLive(Tail(con.live), j - 1, e))
      <3>1. PICK k \in 1 .. j : con.live[k].kind = "event" /\ con.live[k].seq = e
        BY <2>1 DEF InLive
      <3>2. CASE k = 1
        BY <1>4, <1>9, <3>1, <3>2
      <3>3. CASE k # 1
        <4>1. k - 1 \in 1 .. j - 1 /\ k - 1 \in 1 .. n - 1 /\ k - 1 + 1 = k /\ j - 1 \in 0 .. n - 1
          BY <1>4, <3>3
        <4>2. Tail(con.live)[k - 1] = con.live[k]
          BY <1>4, <4>1
        <4> QED
          BY <3>1, <4>1, <4>2 DEF InLive
      <3> QED
        BY <3>2, <3>3
    <2>2. ASSUME NEW j \in 1 .. n - 1, NEW e \in AllEvents, e <= Tail(con.live)[j].seq
          PROVE  e \in now \/ InLive(Tail(con.live), j, e)
      <3>1. j + 1 \in 1 .. n /\ j + 1 - 1 = j /\ e <= con.live[j + 1].seq
        BY <1>4, <2>2
      <3> QED
        BY <1>8, <1>9, <2>1, <3>1
    <2>3. ASSUME NEW e \in AllEvents
          PROVE  e \in now \cup Unsent \/ InLive(Tail(con.live), n - 1, e)
      <3>1. n \in 1 .. n
        BY <1>4
      <3> QED
        BY <1>8, <1>9, <2>1, <3>1
    <2> QED
      BY <1>4, <1>9, <2>2, <2>3 DEF Follows
  <1>10. ASSUME NEW now, has \subseteq now, NEW next, NEW at,
                next.phase = "open", next.queue = {}, next.live = Tail(con.live),
                next.read = con.read,
                at < top, \A e \in AllEvents : e <= at => e \in now,
                next.last < top, \A e \in AllEvents : e <= next.last => e \in now
         PROVE  Gapless(next, AllEvents, now, at, top)
    <2>1. \A j \in 1 .. n - 1 : next.live[j].seq < top
      <3>1. \A j \in 1 .. n - 1 : j + 1 \in 1 .. n
        BY <1>4
      <3> QED
        BY <1>4, <1>7, <1>10, <3>1
    <2> QED
      BY <1>4, <1>7, <1>10, <2>1 DEF Gapless
  <1>11. CASE AlreadySent(frame, con.last) /\ Set(c, rest) /\ UNCHANGED client
    <2>1. frame.seq \in has \/ frame.seq \notin AllEvents
      BY <1>7, <1>11 DEF AlreadySent
    <2>2. Follows(rest, AllEvents, has \cup rest.queue \cup Coming(rest), Unsent)
      BY <1>5, <1>6, <1>9, <2>1
    <2>3. Gapless(rest, AllEvents, has, cursor[c], top)
      BY <1>5, <1>7, <1>10
    <2>4. got' = got /\ cursor' = cursor /\ rest.read.found \subseteq DOMAIN records
      BY <1>1, <1>5, <1>11 DEF client
    <2> QED
      BY <1>3, <1>11, <2>2, <2>3, <2>4, ServedSet DEF has, top
  <1>12. CASE ~AlreadySent(frame, con.last) /\ Set(c, sent) /\ Receive(c, frame)
    <2> DEFINE now == ToSet(got'[c])
    <2>1. /\ has \subseteq now
          /\ frame.kind = "event" => now = has \cup {frame.seq}
      <3>1. CASE frame.kind = "event"
        <4>1. frame = [kind |-> "event", seq |-> frame.seq]
          BY <1>4, <3>1 DEF Frame
        <4>2. Receive(c, [kind |-> "event", seq |-> frame.seq])
          BY <1>12, <4>1
        <4> QED
          BY <1>4, <4>2, OneMoreEvent DEF has
      <3>2. CASE frame.kind # "event"
        BY <1>12, <3>2 DEF Receive, has
      <3> QED
        BY <3>1, <3>2
    <2> HIDE DEF now
    <2>2. frame.seq < top /\ \A e \in AllEvents : e <= frame.seq => e \in now
      <3>1. 1 \in 1 .. n
        BY <1>4
      <3>2. \A e : InLive(con.live, 1, e) => frame.kind = "event" /\ frame.seq = e
        BY <1>4 DEF InLive
      <3> QED
        BY <1>4, <1>7, <1>8, <2>1, <3>1, <3>2
    <2>3. \A m \in Nat : m < top /\ (\A e \in AllEvents : e <= m => e \in has) =>
              /\ Larger(m, frame.seq) < top
              /\ \A e \in AllEvents : e <= Larger(m, frame.seq) => e \in now
      BY <2>1, <2>2 DEF Larger
    <2>4. cursor'[c] \in {cursor[c], frame.seq, Larger(cursor[c], frame.seq)}
      BY <1>12 DEF Receive, TypeOK
    <2>5. cursor'[c] < top /\ \A e \in AllEvents : e <= cursor'[c] => e \in now
      BY <1>1, <1>7, <2>1, <2>2, <2>3, <2>4
    <2>6. sent.last < top /\ \A e \in AllEvents : e <= sent.last => e \in now
      BY <1>1, <1>5, <1>7, <2>3
    <2>7. Follows(sent, AllEvents, now \cup sent.queue \cup Coming(sent), Unsent)
      BY <1>5, <1>6, <1>9, <2>1
    <2>8. Gapless(sent, AllEvents, now, cursor'[c], top)
      BY <1>5, <1>10, <2>1, <2>5, <2>6
    <2>9. sent.read.found \subseteq DOMAIN records
      BY <1>1, <1>5
    <2> QED
      BY <1>3, <1>12, <2>7, <2>8, <2>9, ServedSet DEF now, top
  <1> QED
    BY <1>3, <1>11, <1>12

\* No step of a client loses it an event, if none of its reads fails or is torn.
LEMMA ServedClient ==
    ASSUME TypeOK, NEW c \in Client, Served(c), Unsent' = Unsent, Unharmed',
           ClientStep(c) \/ ReadFails(c) \/ Disconnect(c)
    PROVE  Served(c)'
  <1> DEFINE con == connection[c]
  <1>1. con \in ConnectionState
    BY ConnectionIs
  <1>2. con.phase \notin Reading => con.read = Read(1, {})
    BY DEF Served, Gapless
  <1>3. ASSUME AskPage(c) PROVE Served(c)'
    <2> DEFINE next == [Fresh EXCEPT !.phase = "paging"]
    <2>1. /\ next.phase = "paging" /\ next.queue = {} /\ next.live = <<>>
          /\ next.read = Read(1, {})
      BY DEF Fresh
    <2>2. Set(c, next) /\ UNCHANGED <<records, client>>
      BY <1>3 DEF AskPage
    <2> HIDE DEF next
    <2> QED
      BY <2>1, <2>2, ServedAnew DEF Connected
  <1>4. ASSUME Subscribe(c) PROVE Served(c)'
    <2> DEFINE next == [Off EXCEPT !.phase = "reading", !.last = cursor[c]]
    <2>1. /\ next.phase = "reading" /\ next.queue = {} /\ next.live = <<>>
          /\ next.read = Read(1, {}) /\ next.last = cursor[c]
      BY DEF Off, Fresh
    <2>2. Set(c, next) /\ UNCHANGED <<records, client>>
      BY <1>4 DEF Subscribe
    <2> HIDE DEF next
    <2> QED
      BY <2>1, <2>2, ServedAnew
  <1>5. /\ Fresh.phase = "new" /\ Fresh.queue = {} /\ Fresh.live = <<>> /\ Fresh.read = Read(1, {})
        /\ Off.phase = "off" /\ Off.queue = {} /\ Off.live = <<>> /\ Off.read = Read(1, {})
    BY DEF Off, Fresh
  <1>6. ASSUME UNCHANGED <<records, client>>, Set(c, Fresh) \/ Set(c, Off)
        PROVE  Served(c)'
    BY <1>5, <1>6, ServedAnew DEF Connected
  <1>7. ASSUME TurnPage(c) PROVE Served(c)'
    BY <1>6, <1>7 DEF TurnPage
  <1>8. ASSUME CatchUp(c) PROVE Served(c)'
    <2> DEFINE next == [con EXCEPT !.phase = "catching", !.lagged = FALSE]
    <2>1. /\ next.phase = "catching" /\ next.queue = con.queue /\ next.live = con.live
          /\ next.read = con.read /\ next.last = con.last
      BY <1>1 DEF ConnectionState
    <2>2. /\ Set(c, next) /\ UNCHANGED <<records, client>>
          /\ con.phase = "open" /\ con.queue = {}
      BY <1>8 DEF CatchUp
    <2> HIDE DEF next
    <2> QED
      BY <1>2, <2>1, <2>2, ServedAnew DEF Connected, Reading
  <1>9. ASSUME ReadFails(c) PROVE Served(c)'
    <2>1. con.phase # "catching"
      BY <1>9 DEF ReadFails, FailedRead, Unharmed, Costly
    <2>2. Set(c, Fresh) \/ Set(c, Off)
      BY <1>9, <2>1 DEF ReadFails, Reading
    <2>3. UNCHANGED <<records, client>>
      BY <1>9 DEF ReadFails
    <2> QED
      BY <1>6, <2>2, <2>3
  <1>10. ASSUME Disconnect(c) PROVE Served(c)'
    BY <1>6, <1>10 DEF Disconnect
  <1>11. ASSUME ReadSession(c) PROVE Served(c)'
    <2>1. ~IsTorn(Found(con.read))
      BY <1>11 DEF ReadSession, TornRead, Unharmed, Costly
    <2> QED
      BY <1>11, <2>1, ServedRead
  <1> QED
    BY <1>3, <1>4, <1>7, <1>8, <1>9, <1>10, <1>11, ServedRead, ServedHandOut, ServedTakeFrame
       DEF ClientStep

\* What a client's step leaves alone.
LEMMA ServedOthers ==
    ASSUME TypeOK, NEW c \in Client, ClientStep(c) \/ ReadFails(c) \/ Disconnect(c),
           NEW d \in Client \ {c}, Served(d), Unsent' = Unsent, records' = records
    PROVE  Served(d)'
  <1>1. /\ connection'[d] = connection[d] /\ cursor'[d] = cursor[d] /\ got'[d] = got[d]
    BY OthersKept
  <1>2. AllEvents' = AllEvents /\ Has(d)' = Has(d)
    BY <1>1 DEF AllEvents, Has, Coming, EventsOf, WillFind
  <1> QED
    BY <1>1, <1>2 DEF Served, Follows, Gapless

\* A client changes nothing of the records and the feed.
LEMMA ClientKeepsFeed ==
    ASSUME NEW c \in Client, ClientStep(c) \/ ReadFails(c) \/ Disconnect(c)
    PROVE  UNCHANGED <<records, feed>>
  BY DEF ClientStep, AskPage, Subscribe, ReadTable, ReadSession, HandOut, TurnPage,
         TakeFrame, CatchUp, ReadFails, Disconnect

\* What has gone wrong stays on the record.
LEMMA MishapsStay ==
    ASSUME [Next]_vars
    PROVE  mishaps \subseteq mishaps'
  <1>1. ASSUME NEW found PROVE mishaps \subseteq TornRead(found)
    <2>1. CASE IsTorn(found)
      BY <2>1 DEF TornRead
    <2>2. CASE ~IsTorn(found)
      BY <2>2 DEF TornRead
    <2> QED
      BY <2>1, <2>2
  <1>2. CASE FeedStep \/ SeedFails \/ Evict \/ Restart
    <2>1. CASE Handle \/ BeginSeed \/ SeedRead \/ PushEvent \/ BatchDone \/ Restart
      BY <2>1 DEF Handle, BeginSeed, SeedRead, PushEvent, BatchDone, Restart
    <2>2. CASE Seed
      BY <1>1, <2>2 DEF Seed
    <2>3. CASE SeedFails
      BY <2>3 DEF SeedFails, FailedRead
    <2>4. CASE Evict
      BY <2>4 DEF Evict
    <2> QED
      BY <1>2, <2>1, <2>2, <2>3, <2>4 DEF FeedStep
  <1>3. ASSUME NEW c \in Client, ClientStep(c) \/ ReadFails(c) \/ Disconnect(c)
        PROVE  mishaps \subseteq mishaps'
    BY <1>1, <1>3 DEF ClientStep, AskPage, Subscribe, ReadTable, ReadSession, HandOut,
                      TurnPage, TakeFrame, CatchUp, ReadFails, FailedRead, Disconnect
  <1>4. CASE \E new \in NewRecords, again \in OneOrNone(InTable(Submissions)),
                delta \in BOOLEAN : Commit(new, again, delta)
    BY <1>4 DEF Commit
  <1>5. CASE UNCHANGED vars
    BY <1>5 DEF vars
  <1> QED
    BY <1>2, <1>3, <1>4, <1>5 DEF Next

\* The queue stays whole, whatever goes wrong.
LEMMA QueueKept ==
    ASSUME TypeOK, QueueWhole, [Next]_vars
    PROVE  QueueWhole'
  <1>1. CASE Handle \/ BeginSeed
    <2>1. /\ publications # <<>> /\ handling.phase = "idle"
          /\ publications' = Tail(publications) /\ UNCHANGED <<records, floor>>
          /\ handling'.phase # "idle" /\ handling'.batch = Head(publications)
      <3>1. CASE Handle
        BY <3>1 DEF Handle, Idle
      <3>2. CASE BeginSeed
        BY <3>2 DEF BeginSeed, Idle
      <3> QED
        BY <1>1, <3>1, <3>2
    <2> QED
      BY <2>1, QueueTake
  <1>2. CASE SeedRead \/ Seed \/ PushEvent
    <2>1. handling \in HandlingState
      BY DEF TypeOK
    <2>2. /\ UNCHANGED <<records, publications, floor>>
          /\ handling'.batch = handling.batch /\ handling'.phase # "idle"
      BY <1>2, <2>1 DEF SeedRead, Seed, PushEvent, HandlingState
    <2> QED
      BY <2>2, QueueStays
  <1>3. CASE SeedFails
    <2>1. handling \in HandlingState
      BY DEF TypeOK
    <2>2. UNCHANGED <<records, publications>>
      BY <1>3 DEF SeedFails, EndBatch
    <2>3. \/ /\ UNCHANGED floor /\ handling'.batch = handling.batch
             /\ handling'.phase # "idle"
          \/ /\ floor' = Taken /\ handling' = Idle
      BY <1>3, <2>1 DEF SeedFails, EndBatch, Taken, HandlingState
    <2> QED
      BY <2>2, <2>3, QueueStays
  <1>4. CASE BatchDone
    BY <1>4, QueueStays DEF BatchDone, EndBatch, Taken
  <1>5. CASE Evict
    BY <1>5, QueueStays DEF Evict
  <1>6. CASE Restart
    BY <1>6, ProjectionRestart
  <1>7. CASE \E c \in Client : ClientStep(c) \/ ReadFails(c) \/ Disconnect(c)
    BY <1>7, ClientKeepsFeed, QueueStays DEF feed
  <1>8. CASE \E new \in NewRecords, again \in OneOrNone(InTable(Submissions)),
                delta \in BOOLEAN : Commit(new, again, delta)
    BY <1>8, QueueCommit
  <1>9. CASE UNCHANGED vars
    BY <1>9, QueueStays DEF vars
  <1> QED
    BY <1>1, <1>2, <1>3, <1>4, <1>5, <1>6, <1>7, <1>8, <1>9 DEF Next, FeedStep

\* As long as no read has failed or was torn, every step keeps every client whole.
LEMMA WholeKept ==
    ASSUME WInv, [Next]_vars, Unharmed'
    PROVE  Whole'
  <1>1. TypeOK /\ QueueWhole /\ Unharmed /\ ProjectionWhole /\ \A c \in Client : Served(c)
    <2>1. Unharmed
      BY MishapsStay DEF Unharmed
    <2> QED
      BY <2>1 DEF WInv, Whole
  <1>2. ASSUME ProjectionWhole', Unsent \subseteq Unsent',
               UNCHANGED <<records, connection, client>>
        PROVE  Whole'
    BY <1>1, <1>2, ServedWaits DEF Whole
  <1>3. CASE Handle
    BY <1>1, <1>2, <1>3, ProjectionHandle DEF Handle
  <1>4. CASE BeginSeed \/ SeedRead
    BY <1>1, <1>2, <1>4, ProjectionRead DEF BeginSeed, SeedRead
  <1>5. CASE Seed
    <2>1. ~IsTorn(Found(handling.read))
      BY <1>5 DEF Seed, TornRead, Unharmed, Costly
    <2> QED
      BY <1>1, <1>2, <1>5, <2>1, ProjectionSeed DEF Seed
  <1>6. CASE PushEvent
    <2>1. ProjectionWhole'
      BY <1>1, <1>6, ProjectionPush DEF PushEvent
    <2> QED
      BY <1>1, <1>6, <2>1, ServedPushEvent DEF Whole
  <1>7. CASE BatchDone
    BY <1>1, <1>7, ProjectionDone, ServedBatchDone DEF Whole
  <1>8. ~SeedFails
    BY DEF SeedFails, FailedRead, Unharmed, Costly
  <1>9. CASE Evict
    BY <1>1, <1>2, <1>9, ProjectionLost DEF Evict
  <1>10. CASE Restart
    BY <1>1, <1>10, ProjectionRestart, ServedRestart DEF Whole
  <1>11. ASSUME NEW c \in Client, ClientStep(c) \/ ReadFails(c) \/ Disconnect(c)
         PROVE  Whole'
    <2>1. UNCHANGED <<records, feed>>
      BY <1>11, ClientKeepsFeed
    <2>2. ProjectionWhole' /\ Unsent' = Unsent
      BY <1>1, <2>1, ProjectionStays DEF feed
    <2>3. ASSUME NEW d \in Client PROVE Served(d)'
      <3>1. CASE d = c
        BY <1>1, <1>11, <2>2, <3>1, ServedClient
      <3>2. CASE d # c
        BY <1>1, <1>11, <2>1, <2>2, <3>2, ServedOthers
      <3> QED
        BY <3>1, <3>2
    <2> QED
      BY <2>2, <2>3 DEF Whole
  <1>12. CASE \E new \in NewRecords, again \in OneOrNone(InTable(Submissions)),
                 delta \in BOOLEAN : Commit(new, again, delta)
    BY <1>1, <1>12, ProjectionCommit, ServedCommit DEF Whole
  <1>13. CASE UNCHANGED vars
    <2>1. UNCHANGED <<records, floor, projection, handling>> /\ UNCHANGED <<connection, client>>
      BY <1>13 DEF vars, client
    <2>2. ProjectionWhole' /\ Unsent' = Unsent
      BY <1>1, <2>1, ProjectionStays
    <2> QED
      BY <1>2, <2>1, <2>2
  <1> QED
    BY <1>3, <1>4, <1>5, <1>6, <1>7, <1>8, <1>9, <1>10, <1>11, <1>12, <1>13
       DEF Next, FeedStep

\* There are no events at the beginning.
LEMMA WholeAtFirst == Init => WInv
  <1> SUFFICES ASSUME Init PROVE WInv
    OBVIOUS
  <1>1. TypeOK
    BY InitTypes
  <1>2. /\ records = <<>> /\ publications = <<>> /\ floor = 0
        /\ projection = NoProjection /\ handling = Idle
    BY DEF Init
  <1>3. /\ Len(records) = 0 /\ DOMAIN records = {} /\ DOMAIN publications = {}
    BY <1>2
  <1>4. Taken = 0
    <2>1. Largest({}) = 0
      BY <1>1, TakenType
    <2>2. handling.batch.ids = {}
      BY <1>2 DEF Idle
    <2> QED
      BY <1>2, <2>1, <2>2 DEF Taken, Larger
  <1>5. /\ handling.phase = "idle" /\ handling.batch.ids = {} /\ handling.events = {}
        /\ ~projection.on
    BY <1>2 DEF Idle, NoProjection
  <1>6. QueueWhole /\ ProjectionWhole
    BY <1>2, <1>3, <1>4, <1>5 DEF QueueWhole, ProjectionWhole
  <1>7. AllEvents = {}
    BY <1>3 DEF AllEvents, EventsOf
  <1>8. 0 < First(Len(records))
    BY <1>3, FirstGrows
  <1>9. ASSUME NEW c \in Client PROVE Served(c)
    <2>1. connection[c] = Fresh /\ cursor[c] = 0
      BY DEF Init
    <2>2. Follows(connection[c], AllEvents, Has(c), Unsent)
      BY <2>1, NotConnected DEF Fresh, Connected
    <2>3. Gapless(Fresh, AllEvents, ToSet(got[c]), 0, First(Len(records)))
      <3>1. DOMAIN <<>> = {}
        OBVIOUS
      <3> QED
        BY <1>7, <1>8, <3>1 DEF Gapless, Fresh, Connected
    <2>4. connection[c].read.found \subseteq DOMAIN records
      BY <2>1 DEF Fresh, Read
    <2> QED
      BY <2>1, <2>2, <2>3, <2>4 DEF Served
  <1> QED
    BY <1>1, <1>6, <1>9 DEF WInv, Whole

\* The inductive invariant holds in every reachable state.
LEMMA WholeInvariant == Spec => []WInv
  <1>1. WInv /\ [Next]_vars => WInv'
    <2> SUFFICES ASSUME WInv, [Next]_vars PROVE WInv'
      OBVIOUS
    <2>1. TypeOK' /\ QueueWhole'
      BY TypesKept, QueueKept DEF WInv
    <2> QED
      BY <2>1, WholeKept DEF WInv
  <1> QED
    BY <1>1, WholeAtFirst, PTL DEF Spec

\* No client is brought past an event it has not received.
THEOREM EventsUnbroken == Spec => []NothingSkipped
  <1>1. WInv => NothingSkipped
    BY DEF WInv, Whole, Served, Gapless, NothingSkipped, HasAllBehind, Position, Unharmed
  <1> QED
    BY <1>1, WholeInvariant, PTL

\* When the feed and a connection have come to rest, its client has every event.
THEOREM EventsDelivered == Spec => []NothingLeftBehind
  <1>1. ASSUME WInv PROVE NothingLeftBehind
    <2> SUFFICES ASSUME Unharmed, NEW c \in Client, Quiet(c), NEW s \in AllEvents
                 PROVE  s \in ToSet(got[c])
      BY DEF NothingLeftBehind, Unharmed
    <2>1. TypeOK /\ QueueWhole /\ ProjectionWhole /\ Served(c)
      BY <1>1 DEF WInv, Whole
    <2>2. /\ publications = <<>> /\ handling = Idle /\ connection[c].phase = "open"
          /\ connection[c].queue = {} /\ connection[c].live = <<>> /\ ~connection[c].lagged
      BY DEF Quiet
    <2>3. /\ Has(c) = ToSet(got[c]) /\ handling.events = {} /\ handling.phase = "idle"
          /\ ~InLive(connection[c].live, Len(connection[c].live), s)
      <3>1. Len(<<>>) = 0 /\ 1 .. 0 = {}
        OBVIOUS
      <3> QED
        BY <2>2, <3>1 DEF Has, Coming, Idle, InLive
    <2>4. s \in Has(c) \cup Unsent
      BY <2>1, <2>2, <2>3 DEF Served, Follows, Connected
    <2>5. s \notin Ahead
      <3>1. DOMAIN publications = {}
        BY <2>2
      <3>2. \A j \in DOMAIN records : ~(Taken < j)
        BY <2>1, <3>1 DEF QueueWhole
      <3>3. Taken = floor /\ floor \in 0 .. Len(records)
        BY <2>1, <2>3, TakenBounds
      <3>4. Len(records) \in Nat /\ floor = Len(records)
        <4>1. CASE Len(records) = 0
          BY <2>1, <3>3, <4>1, RecordsAre
        <4>2. CASE Len(records) # 0
          <5>1. Len(records) \in DOMAIN records /\ Len(records) \in Nat
            BY <2>1, <4>2, RecordsAre
          <5> QED
            BY <3>2, <3>3, <5>1
        <4> QED
          BY <4>1, <4>2
      <3>5. projection.on => Level = Len(records)
        <4>1. projection.on => Taken <= Level /\ SeesUpTo(projection, Level)
          BY <2>1 DEF ProjectionWhole
        <4>2. projection.on => Level \in 0 .. Len(records)
          BY <2>1, <4>1, LevelType DEF TypeOK
        <4> QED
          BY <3>3, <3>4, <4>1, <4>2
      <3>6. s < First(Len(records)) /\ s \in Nat /\ First(Len(records)) \in Nat
        BY <2>1, <3>4, EventsBelow, FirstGrows
      <3> QED
        BY <3>4, <3>5, <3>6 DEF Ahead
    <2> QED
      BY <2>3, <2>4, <2>5 DEF Unsent
  <1> QED
    BY <1>1, WholeInvariant, PTL

-----------------------------------------------------------------------------
(* The statuses of a connection.                                           *)

\* The last status a connection has sent, and those on their way to it.
Told(con) ==
    {con.status} \cup
        {con.live[j].seq : j \in {k \in DOMAIN con.live : con.live[k].kind = "status"}}

Forward(live) ==
    \A i, j \in DOMAIN live :
        i < j /\ live[i].kind = "status" /\ live[j].kind = "status" => live[i].seq < live[j].seq

Upward(con) ==
    /\ Forward(con.live)
    /\ \A j \in DOMAIN con.live : con.live[j].kind = "status" => con.status < con.live[j].seq

\* A status comes before every event that may still be pushed: the projection
\* knows its record, or the feed has left it behind.
Passed(t) ==
    /\ (projection.on /\ t <= projection.seq) \/ t < First(floor)
    /\ \A s \in handling.events : t < s

Informed(c) == Upward(connection[c]) /\ \A t \in Told(connection[c]) : Passed(t)

SInv == WInv /\ (mishaps = {} => \A c \in Client : Informed(c))

\* Statuses have numbers.
LEMMA ToldType ==
    ASSUME TypeOK, NEW c \in Client
    PROVE  Told(connection[c]) \subseteq Nat
  <1>1. connection[c].live \in Seq(Frame) /\ connection[c].status \in Nat
    BY ConnectionIs DEF ConnectionState
  <1>2. \A j \in DOMAIN connection[c].live : connection[c].live[j].seq \in Nat
    <2>1. \A j \in DOMAIN connection[c].live : connection[c].live[j] \in Frame
      BY <1>1, ElementOfSeq, LenProperties
    <2> QED
      BY <2>1 DEF Frame
  <1> QED
    BY <1>1, <1>2 DEF Told

\* The hub keeps frames in their order.
LEMMA LastFramesInOrder ==
    ASSUME NEW frames \in Seq(Frame)
    PROVE  /\ LastFrames(frames) \in Seq(Frame)
           /\ \E skip \in Nat : \A j \in DOMAIN LastFrames(frames) :
                  j + skip \in DOMAIN frames /\ LastFrames(frames)[j] = frames[j + skip]
  <1> DEFINE n == Len(frames)
             from == n - Capacity + 1
             kept == SubSeq(frames, from, n)
  <1>1. n \in Nat /\ DOMAIN frames = 1 .. n /\ Capacity \in Nat
    BY LenProperties, BoundsAssumption
  <1>2. CASE n <= Capacity
    <2>1. LastFrames(frames) = frames
      BY <1>2 DEF LastFrames
    <2>2. \A j \in DOMAIN frames : j + 0 \in DOMAIN frames /\ j + 0 = j
      BY <1>1
    <2> QED
      BY <2>1, <2>2
  <1>3. CASE ~(n <= Capacity)
    <2>1. from \in 1 .. n + 1 /\ n - Capacity \in Nat
      BY <1>1, <1>3
    <2>2. /\ kept \in Seq(Frame)
          /\ Len(kept) = n - from + 1
          /\ \A j \in 1 .. n - from + 1 : kept[j] = frames[from + j - 1]
      <3>1. \A j \in from .. n : frames[j] \in Frame
        BY <1>1, <2>1, ElementOfSeq
      <3> QED
        BY <1>1, <2>1, <3>1, SubSeqProperties
    <2>3. \A j \in 1 .. n - from + 1 :
              j + (n - Capacity) \in 1 .. n /\ from + j - 1 = j + (n - Capacity)
      BY <1>1, <2>1
    <2>4. DOMAIN kept = 1 .. n - from + 1
      BY <2>2, LenProperties
    <2>5. \A j \in DOMAIN kept :
              j + (n - Capacity) \in DOMAIN frames /\ kept[j] = frames[j + (n - Capacity)]
      <3> HIDE DEF kept, from
      <3> QED
        BY <1>1, <2>2, <2>3, <2>4
    <2>6. LastFrames(frames) = kept
      BY <1>3 DEF LastFrames
    <2> HIDE DEF kept, from
    <2> QED
      BY <2>1, <2>2, <2>5, <2>6
  <1> QED
    BY <1>2, <1>3

\* Frames behind those that are on their way to a connection.
LEMMA UpwardPush ==
    ASSUME NEW con \in ConnectionState, NEW next, NEW frames \in Seq(Frame), Upward(con),
           Forward(frames),
           \A j \in DOMAIN frames : frames[j].kind = "status" =>
               \A t \in Told(con) : t < frames[j].seq,
           next.status = con.status,
           next.live = con.live \/ next.live = LastFrames(con.live \o frames)
    PROVE  /\ Upward(next)
           /\ \A t \in Told(next) :
                  \/ t \in Told(con)
                  \/ \E j \in DOMAIN frames : frames[j].kind = "status" /\ t = frames[j].seq
  <1>1. CASE next.live = con.live
    BY <1>1 DEF Upward, Told
  <1>2. CASE next.live = LastFrames(con.live \o frames)
    <2> DEFINE live == con.live
               n == Len(live)
               m == Len(frames)
               both == live \o frames
    <2>1. /\ live \in Seq(Frame) /\ con.status \in Nat
          /\ n \in Nat /\ m \in Nat /\ DOMAIN live = 1 .. n /\ DOMAIN frames = 1 .. m
      BY LenProperties DEF ConnectionState
    <2>2. /\ both \in Seq(Frame) /\ Len(both) = n + m
          /\ \A k \in 1 .. n + m : both[k] = IF k <= n THEN live[k] ELSE frames[k - n]
      BY <2>1, ConcatProperties
    <2>3. DOMAIN both = 1 .. n + m
      BY <2>2, LenProperties
    <2>0. next.live = LastFrames(both)
      BY <1>2
    <2> HIDE DEF both
    <2>4. PICK skip \in Nat : \A j \in DOMAIN next.live :
              j + skip \in DOMAIN both /\ next.live[j] = both[j + skip]
      BY <2>0, <2>2, LastFramesInOrder
    <2>5. DOMAIN next.live \subseteq Nat
      <3>1. next.live \in Seq(Frame)
        BY <2>0, <2>2, LastFramesInOrder
      <3> QED
        BY <3>1, LenProperties
    <2> HIDE DEF n, m, live
    <2>6. \A k \in DOMAIN both :
              \/ k \in DOMAIN live /\ k <= n /\ both[k] = live[k]
              \/ k - n \in DOMAIN frames /\ ~(k <= n) /\ both[k] = frames[k - n]
      BY <2>1, <2>2, <2>3
    <2>7. \A k \in DOMAIN live : live[k].kind = "status" => live[k].seq \in Told(con)
      BY DEF Told, live
    <2>8. ASSUME NEW i \in DOMAIN both, NEW j \in DOMAIN both, i < j,
                 both[i].kind = "status", both[j].kind = "status"
          PROVE  both[i].seq < both[j].seq
      <3>0. i \in Nat /\ j \in Nat
        BY <2>3
      <3>1. CASE j <= n
        <4>1. i <= n
          BY <2>1, <2>8, <3>0, <3>1
        <4> QED
          BY <2>6, <2>8, <3>1, <4>1 DEF Upward, Forward, live
      <3>2. CASE ~(j <= n) /\ i <= n
        BY <2>6, <2>7, <2>8, <3>2
      <3>3. CASE ~(j <= n) /\ ~(i <= n)
        <4>1. i - n < j - n
          BY <2>1, <2>8, <3>0
        <4> QED
          BY <2>6, <2>8, <3>3, <4>1 DEF Forward
      <3> QED
        BY <3>1, <3>2, <3>3
    <2>9. ASSUME NEW j \in DOMAIN both, both[j].kind = "status"
          PROVE  con.status < both[j].seq
      BY <2>6, <2>9 DEF Upward, Told, live
    <2>10. Forward(next.live)
      <3>1. \A i, j \in DOMAIN next.live : i < j => i + skip < j + skip
        BY <2>5
      <3> QED
        BY <2>4, <2>8, <3>1 DEF Forward
    <2>11. Upward(next)
      BY <2>4, <2>9, <2>10 DEF Upward
    <2>12. ASSUME NEW t \in Told(next)
           PROVE  \/ t \in Told(con)
                  \/ \E j \in DOMAIN frames : frames[j].kind = "status" /\ t = frames[j].seq
      <3>1. CASE t = con.status
        BY <3>1 DEF Told
      <3>2. CASE t # con.status
        <4>1. PICK j \in DOMAIN next.live : next.live[j].kind = "status" /\ t = next.live[j].seq
          BY <2>12, <3>2 DEF Told
        <4>2. PICK k \in DOMAIN both : both[k].kind = "status" /\ t = both[k].seq
          BY <2>4, <4>1
        <4> QED
          BY <2>6, <2>7, <4>2
      <3> QED
        BY <3>1, <3>2
    <2> QED
      BY <2>11, <2>12
  <1> QED
    BY <1>1, <1>2

\* The number of an event whose record the feed has left behind.
LEMMA RecordLeftBehind ==
    ASSUME NEW s \in Nat, NEW n \in Nat, ~(RecordOf(s) > n)
    PROVE  s < First(n)
  <1> DEFINE d == s \div Slots
             r == s % Slots
  <1>1. Slots \in Nat \ {0}
    BY SlotsAssumption
  <1>2. d \in Nat /\ r \in 0 .. Slots - 1 /\ s = Slots * d + r
    BY <1>1
  <1>3. d <= n
    BY <1>2 DEF RecordOf
  <1> HIDE DEF d, r
  <1>4. d * Slots <= n * Slots /\ d * Slots = Slots * d /\ d * Slots \in Nat /\ n * Slots \in Nat
    BY <1>1, <1>2, <1>3
  <1>5. (n + 1) * Slots = n * Slots + Slots
    BY <1>1
  <1>6. First(n) = (n + 1) * Slots
    BY <1>1 DEF First, EventSeq
  <1> QED
    BY <1>1, <1>2, <1>4, <1>5, <1>6

\* Events of records behind a number.
LEMMA EventsBeyond ==
    ASSUME TypeOK, NEW ids \in SUBSET DOMAIN records, NEW n \in Nat, \A i \in ids : n < i,
           NEW s \in EventsOf(ids)
    PROVE  s \in AllEvents /\ s \in Nat /\ First(n) <= s
  <1>1. s \in EventsIn(records, {i \in DOMAIN records : i > n})
    BY RecordsAre DEF EventsOf, EventsIn
  <1>2. s \in EventsIn(records, DOMAIN records)
    BY <1>1 DEF EventsIn
  <1>3. s \in AllEvents /\ s \in Nat /\ ~(s < EventSeq(n + 1, 0))
    BY <1>1, <1>2, RecordsAre, EventPlaces
  <1>4. First(n) \in Nat
    BY FirstGrows
  <1> QED
    BY <1>3, <1>4 DEF First

\* What is pushed are events of the session, and 0 is the number of none.
LEMMA NothingPassed ==
    ASSUME TypeOK, QueueWhole, ProjectionWhole
    PROVE  Passed(0)
  <1>1. floor \in Nat /\ 0 < First(floor)
    <2>1. floor \in Nat
      BY TakenBounds
    <2> QED
      BY <2>1, FirstGrows
  <1>2. ASSUME NEW s \in handling.events PROVE 0 < s
    <2>1. s \in EventsOf(DOMAIN records)
      BY <1>2 DEF ProjectionWhole, AllEvents
    <2>2. \A i \in DOMAIN records : 0 < i
      BY RecordsAre
    <2>3. First(0) <= s /\ s \in Nat
      BY <2>1, <2>2, EventsBeyond
    <2>4. First(0) \in Nat /\ 0 < First(0)
      BY FirstGrows
    <2> QED
      BY <2>3, <2>4
  <1> QED
    BY <1>1, <1>2 DEF Passed

\* The numbers that place a status are in this order.
LEMMA PassedBounds ==
    ASSUME TypeOK, QueueWhole, ProjectionWhole
    PROVE  /\ floor \in Nat /\ First(floor) \in Nat /\ projection.seq \in Nat
           /\ projection.on =>
                  /\ Level \in 0 .. Len(records) /\ floor <= Level
                  /\ First(Level) \in Nat /\ First(floor) <= First(Level)
                  /\ projection.seq < First(Level)
           /\ handling.events \subseteq Nat
  <1>1. floor \in Nat /\ projection \in ProjectionState /\ handling \in HandlingState
    <2>1. floor \in Nat
      BY TakenBounds
    <2> QED
      BY <2>1 DEF TypeOK
  <1>2. projection.seq \in Nat /\ handling.events \subseteq Nat
    BY <1>1 DEF ProjectionState, HandlingState
  <1>3. First(floor) \in Nat
    BY <1>1, FirstGrows
  <1>4. ASSUME projection.on
        PROVE  /\ Level \in 0 .. Len(records) /\ floor <= Level
               /\ projection.seq < First(Level)
    <2>1. Taken <= Level /\ SeesUpTo(projection, Level) /\ projection.seq < First(Level)
      BY <1>4 DEF ProjectionWhole
    <2>2. Level \in 0 .. Len(records)
      BY <1>1, <2>1, LevelType
    <2>3. floor <= Taken /\ Taken \in Nat
      BY TakenBounds
    <2> QED
      BY <1>1, <2>1, <2>2, <2>3
  <1>5. ASSUME projection.on PROVE First(Level) \in Nat /\ First(floor) <= First(Level)
    <2>1. Level \in Nat
      BY <1>4, <1>5
    <2> QED
      BY <1>1, <1>4, <1>5, <2>1, FirstGrows
  <1> QED
    BY <1>1, <1>2, <1>3, <1>4, <1>5

\* A status that has been told comes before everything a later step may push.
LEMMA PassedHandle ==
    ASSUME TypeOK, QueueWhole, ProjectionWhole, Handle, NEW t \in Nat, Passed(t)
    PROVE  Passed(t)'
  <1> DEFINE batch == Head(publications)
  <1>1. /\ projection' = Projected(projection, Unseen(batch.ids)) /\ projection.on
        /\ handling'.events = EventsOf(Unseen(batch.ids)) /\ floor' = floor
    BY DEF Handle, Idle
  <1>2. projection'.on /\ projection'.seq = projection.seq
    <2>1. projection \in ProjectionState
      BY DEF TypeOK
    <2> QED
      BY <1>1, <2>1 DEF Projected, ProjectionState
  <1>3. batch.ids \subseteq DOMAIN records
    <2>1. publications # <<>> /\ publications \in Seq(Batch)
      BY DEF Handle, TypeOK
    <2>2. batch = publications[1] /\ 1 \in DOMAIN publications
      BY <2>1
    <2> QED
      BY <2>2 DEF QueueWhole
  <1> HIDE DEF batch
  <1>4. \A i \in Unseen(batch.ids) : Level < i /\ i \in DOMAIN records
    <2>1. SeesUpTo(projection, Level)
      BY <1>1 DEF ProjectionWhole
    <2> QED
      BY <1>3, <2>1, UnseenAreBehind
  <1>5. t < First(Level)
    BY <1>1, PassedBounds DEF Passed
  <1>6. ASSUME NEW s \in handling'.events PROVE t < s
    <2>1. First(Level) <= s /\ s \in Nat
      <3>1. Level \in Nat
        BY <1>1, PassedBounds
      <3>2. Unseen(batch.ids) \in SUBSET DOMAIN records
        BY <1>4
      <3> QED
        BY <1>1, <1>4, <1>6, <3>1, <3>2, EventsBeyond
    <2> QED
      BY <1>1, <1>5, <2>1, PassedBounds
  <1>7. (projection'.on /\ t <= projection'.seq) \/ t < First(floor')
    BY <1>1, <1>2 DEF Passed
  <1> QED
    BY <1>6, <1>7 DEF Passed, First, EventSeq

\* A new projection pushes no event of a record that the feed has left behind.
LEMMA PassedSeed ==
    ASSUME TypeOK, QueueWhole, ProjectionWhole, Seed, NEW t \in Nat, Passed(t)
    PROVE  Passed(t)'
  <1> DEFINE found == Found(handling.read)
  <1>1. /\ handling \in HandlingState /\ floor' = floor /\ handling.phase = "reading"
        /\ handling' = [handling EXCEPT !.phase = "pushing", !.read = Read(1, {}),
                                        !.events = Pushed(found)]
    BY DEF TypeOK, Seed
  <1>2. handling'.events = Pushed(found)
    BY <1>1 DEF HandlingState
  <1>3. found \subseteq DOMAIN records
    <2>1. handling.read \in ReadState /\ handling.read.found \subseteq DOMAIN records
      BY <1>1 DEF HandlingState, ProjectionWhole
    <2>2. handling.read.table = Submissions
      BY DEF Seed
    <2> QED
      BY <2>1, <2>2, WillFindLast
  <1> HIDE DEF found
  <1>4. t < First(floor)
    BY <1>1 DEF Passed, ProjectionWhole
  <1>5. ASSUME NEW s \in handling'.events PROVE t < s
    <2>1. s \in EventsOf({i \in found : i > floor})
      BY <1>2, <1>5 DEF Pushed
    <2>2. First(floor) <= s /\ s \in Nat
      <3>1. {i \in found : i > floor} \in SUBSET DOMAIN records
        BY <1>3
      <3>2. \A i \in {j \in found : j > floor} : floor < i
        <4>1. \A i \in found : i \in Nat
          BY <1>3, RecordsAre
        <4> QED
          BY <4>1, PassedBounds
      <3> QED
        BY <2>1, <3>1, <3>2, EventsBeyond, PassedBounds
    <2> QED
      BY <1>4, <2>2, PassedBounds
  <1> QED
    BY <1>1, <1>4, <1>5 DEF Passed, First, EventSeq

\* The projection that is lost was no further than the feed.
LEMMA PassedEvict ==
    ASSUME TypeOK, QueueWhole, ProjectionWhole, Evict, mishaps' = {}, NEW t \in Nat, Passed(t)
    PROVE  Passed(t)'
  <1>1. floor' = floor /\ handling' = handling /\ ~(RecordOf(projection.seq) > floor)
    BY DEF Evict
  <1>2. projection.seq < First(floor)
    BY <1>1, PassedBounds, RecordLeftBehind
  <1>3. t < First(floor)
    BY <1>2, PassedBounds DEF Passed
  <1> QED
    BY <1>1, <1>3 DEF Passed, First, EventSeq

\* The floor rises at the end of a batch.
LEMMA PassedDone ==
    ASSUME TypeOK, QueueWhole, ProjectionWhole, BatchDone, NEW t \in Nat, Passed(t)
    PROVE  Passed(t)'
  <1>1. floor' = Taken /\ projection' = projection /\ handling' = Idle
    BY DEF BatchDone, EndBatch, Taken
  <1>2. First(floor) <= First(floor') /\ First(floor') \in Nat
    BY <1>1, TakenBounds, PassedBounds, FirstGrows
  <1>3. handling'.events = {}
    BY <1>1 DEF Idle
  <1>4. (projection'.on /\ t <= projection'.seq) \/ t < First(floor')
    BY <1>1, <1>2, PassedBounds DEF Passed
  <1> QED
    BY <1>3, <1>4 DEF Passed, First, EventSeq

\* After a restart the floor is at the last record.
LEMMA PassedRestart ==
    ASSUME TypeOK, QueueWhole, ProjectionWhole, Restart, NEW t \in Nat, Passed(t)
    PROVE  Passed(t)'
  <1>1. floor' = Len(records) /\ handling' = Idle
    BY DEF Restart
  <1>2. floor <= Len(records) /\ Len(records) \in Nat
    BY RecordsAre DEF QueueWhole
  <1>3. First(floor) <= First(Len(records)) /\ First(Len(records)) \in Nat
    BY <1>2, PassedBounds, FirstGrows
  <1>4. projection.on => First(Level) <= First(Len(records))
    <2>1. projection.on => Level \in Nat /\ Level <= Len(records)
      BY PassedBounds
    <2> QED
      BY <1>2, <2>1, FirstGrows
  <1>5. t < First(Len(records))
    BY <1>3, <1>4, PassedBounds DEF Passed
  <1>6. handling'.events = {}
    BY <1>1 DEF Idle
  <1> QED
    BY <1>1, <1>5, <1>6 DEF Passed, First, EventSeq

\* A step that does not move the feed, and pushes nothing new.
LEMMA PassedStays ==
    ASSUME UNCHANGED <<floor, projection>>, handling'.events \subseteq handling.events,
           NEW t, Passed(t)
    PROVE  Passed(t)'
  BY DEF Passed, First, EventSeq

\* A connection without frames that has sent no status.
LEMMA UpwardAnew ==
    ASSUME NEW con, con.live = <<>>, con.status = 0
    PROVE  Upward(con) /\ Told(con) = {0}
  BY DEF Upward, Forward, Told

\* Frames whose statuses come behind all that a connection has been told.
LEMMA InformedPush ==
    ASSUME TypeOK, NEW frames \in Seq(Frame), connection' = Push(frames), NEW c \in Client,
           Informed(c), Forward(frames),
           \A j \in DOMAIN frames : frames[j].kind = "status" =>
               Passed(frames[j].seq)' /\ \A t \in Told(connection[c]) : t < frames[j].seq,
           \A t \in Nat : Passed(t) => Passed(t)'
    PROVE  Informed(c)'
  <1> DEFINE con == connection[c]
             next == connection'[c]
  <1>1. con \in ConnectionState /\ Told(con) \subseteq Nat
    BY ConnectionIs, ToldType
  <1>2. /\ next.status = con.status
        /\ next.live = con.live \/ next.live = LastFrames(con.live \o frames)
    <2>1. CASE con.phase \in Connected
      BY <1>1, <2>1 DEF Push, ConnectionState
    <2>2. CASE con.phase \notin Connected
      BY <2>2 DEF Push
    <2> QED
      BY <2>1, <2>2
  <1>3. Upward(con) /\ \A t \in Told(con) : Passed(t)
    BY DEF Informed
  <1> HIDE DEF con, next
  <1>4. /\ Upward(next)
        /\ \A t \in Told(next) :
               \/ t \in Told(con)
               \/ \E j \in DOMAIN frames : frames[j].kind = "status" /\ t = frames[j].seq
    BY <1>1, <1>2, <1>3, UpwardPush DEF con
  <1>5. ASSUME NEW t \in Told(next) PROVE Passed(t)'
    BY <1>1, <1>3, <1>4, <1>5
  <1>6. Upward(connection[c])' /\ Told(connection[c])' = Told(next)
    BY <1>4 DEF next, Upward, Told, Forward
  <1> QED
    BY <1>5, <1>6 DEF Informed

\* A status goes out with the first event of its record.
LEMMA InformedPushEvent ==
    ASSUME TypeOK, QueueWhole, ProjectionWhole, PushEvent, NEW c \in Client, Informed(c)
    PROVE  Informed(c)'
  <1>1. PICK s \in handling.events :
            /\ \A e \in handling.events : s <= e
            /\ handling' = [handling EXCEPT !.events = @ \ {s}]
            /\ projection' = [projection EXCEPT !.seq = Larger(@, s)]
            /\ connection' = Push(FramesOf(s))
    BY DEF PushEvent
  <1>2. handling.phase = "pushing" /\ projection.on /\ floor' = floor
    BY DEF PushEvent, ProjectionWhole
  <1>3. projection \in ProjectionState /\ handling \in HandlingState
    BY DEF TypeOK
  <1>4. projection'.on /\ projection'.seq = Larger(projection.seq, s)
    BY <1>1, <1>2, <1>3 DEF ProjectionState
  <1>5. handling'.events = handling.events \ {s} /\ s \in Nat /\ projection.seq \in Nat
    BY <1>1, <1>3, PassedBounds DEF HandlingState
  <1>6. projection.seq <= projection'.seq /\ s <= projection'.seq /\ projection'.seq \in Nat
    BY <1>4, <1>5 DEF Larger
  <1>7. Passed(s)'
    <2>1. \A e \in handling'.events : s < e
      BY <1>1, <1>5, PassedBounds
    <2> QED
      BY <1>4, <1>6, <2>1 DEF Passed
  <1>8. ASSUME NEW t \in Nat, Passed(t) PROVE Passed(t)'
    <2>1. projection.on /\ t <= projection.seq => t <= projection'.seq
      BY <1>5, <1>6
    <2> QED
      BY <1>2, <1>4, <1>5, <1>8, <2>1 DEF Passed, First, EventSeq
  <1>9. FramesOf(s) \in Seq(Frame)
    BY <1>5, FramesType
  <1>10. \A j \in DOMAIN FramesOf(s) :
             j \in 1 .. 2 /\ (FramesOf(s)[j].kind = "status" => j = 2 /\ FramesOf(s)[j].seq = s)
    <2>1. CASE s % Slots = 0
      <3> DEFINE first == <<[kind |-> "event", seq |-> s]>>
                 second == <<[kind |-> "status", seq |-> s]>>
      <3>1. FramesOf(s) = first \o second
        BY <2>1 DEF FramesOf
      <3>2. /\ first \in Seq(Frame) /\ second \in Seq(Frame) /\ Len(first) = 1 /\ Len(second) = 1
            /\ first[1].kind = "event" /\ second[1].seq = s
        BY <1>5 DEF Frame
      <3> HIDE DEF first, second
      <3>3. /\ first \o second \in Seq(Frame) /\ Len(first \o second) = 2
            /\ \A k \in 1 .. 2 : (first \o second)[k] = IF k <= 1 THEN first[k] ELSE second[k - 1]
        <4>1. /\ first \o second \in Seq(Frame) /\ Len(first \o second) = Len(first) + Len(second)
              /\ \A k \in 1 .. Len(first) + Len(second) :
                     (first \o second)[k] =
                         IF k <= Len(first) THEN first[k] ELSE second[k - Len(first)]
          BY <3>2, ConcatProperties
        <4>2. Len(first) + Len(second) = 2
          BY <3>2
        <4> QED
          BY <3>2, <4>1, <4>2
      <3>4. DOMAIN (first \o second) = 1 .. 2
        BY <3>3, LenProperties
      <3>5. (first \o second)[1].kind = "event" /\ (first \o second)[2].seq = s
        BY <3>2, <3>3
      <3>6. \A j \in 1 .. 2 : j = 1 \/ j = 2
        OBVIOUS
      <3> QED
        BY <3>1, <3>4, <3>5, <3>6
    <2>2. CASE s % Slots # 0
      <3>1. FramesOf(s) = <<[kind |-> "event", seq |-> s]>>
        BY <2>2 DEF FramesOf
      <3> QED
        BY <3>1
    <2> QED
      BY <2>1, <2>2
  <1>11. Forward(FramesOf(s))
    BY <1>10 DEF Forward
  <1>12. \A t \in Told(connection[c]) : t < s
    BY <1>1 DEF Informed, Passed
  <1>13. \A j \in DOMAIN FramesOf(s) : FramesOf(s)[j].kind = "status" =>
             Passed(FramesOf(s)[j].seq)' /\ \A t \in Told(connection[c]) : t < FramesOf(s)[j].seq
    <2>1. ASSUME NEW j \in DOMAIN FramesOf(s), FramesOf(s)[j].kind = "status"
          PROVE  FramesOf(s)[j].seq = s /\ FramesOf(s)'[j].seq = s
      BY <1>10, <2>1 DEF FramesOf
    <2> QED
      BY <1>7, <1>12, <2>1 DEF Passed, First, EventSeq
  <1> QED
    BY <1>1, <1>8, <1>9, <1>11, <1>13, InformedPush

\* A delta is not a status.
LEMMA InformedDone ==
    ASSUME TypeOK, QueueWhole, ProjectionWhole, BatchDone, NEW c \in Client, Informed(c)
    PROVE  Informed(c)'
  <1>1. \A t \in Nat : Passed(t) => Passed(t)'
    BY PassedDone
  <1>2. CASE connection' = connection
    BY <1>1, <1>2, ToldType DEF Informed
  <1>3. CASE connection' = Push(<<[kind |-> "delta", seq |-> projection.seq]>>)
    <2> DEFINE frames == <<[kind |-> "delta", seq |-> projection.seq]>>
    <2>1. frames \in Seq(Frame)
      BY PassedBounds DEF Frame
    <2>2. \A j \in DOMAIN frames : frames[j].kind # "status"
      OBVIOUS
    <2>3. connection' = Push(frames)
      BY <1>3
    <2> HIDE DEF frames
    <2> QED
      BY <1>1, <2>1, <2>2, <2>3, InformedPush DEF Forward
  <1> QED
    BY <1>2, <1>3 DEF BatchDone, EndBatch

\* A connection that is cut begins anew.
LEMMA InformedRestart ==
    ASSUME TypeOK, QueueWhole, ProjectionWhole, Restart, NEW c \in Client, Informed(c)
    PROVE  Informed(c)'
  <1>1. \A t \in Nat : Passed(t) => Passed(t)'
    BY PassedRestart
  <1>2. Passed(0)'
    BY <1>1, NothingPassed
  <1>3. connection'[c] \in {Off, Fresh, connection[c]}
    BY DEF Restart
  <1>4. \A con \in {Off, Fresh} : Upward(con) /\ Told(con) = {0}
    BY UpwardAnew DEF Off, Fresh
  <1>5. Upward(connection'[c]) /\ \A t \in Told(connection'[c]) : Passed(t)'
    <2>1. CASE connection'[c] \in {Off, Fresh}
      BY <1>2, <1>4, <2>1
    <2>2. CASE connection'[c] = connection[c]
      BY <1>1, <2>2, ToldType DEF Informed
    <2> QED
      BY <1>3, <2>1, <2>2
  <1> QED
    BY <1>5 DEF Informed, Upward, Told, Forward

\* A step of a client tells it no status that was not on its way.
LEMMA InformedTakeFrame ==
    ASSUME TypeOK, NEW c \in Client, Informed(c), TakeFrame(c)
    PROVE  Upward(connection'[c]) /\ Told(connection'[c]) \subseteq Told(connection[c])
  <1> DEFINE con == connection[c]
             live == con.live
             frame == Head(live)
             rest == [con EXCEPT !.live = Tail(live)]
             next == connection'[c]
  <1>1. /\ con \in ConnectionState /\ live \in Seq(Frame) /\ live # <<>> /\ Upward(con)
    BY ConnectionIs DEF TakeFrame, Informed
  <1>2. \/ next = rest
        \/ next = [rest EXCEPT !.last = Larger(rest.last, frame.seq),
                               !.status = IF frame.kind = "status" THEN frame.seq ELSE rest.status]
    BY DEF TakeFrame, Set, TypeOK
  <1>3. /\ next.live = Tail(live)
        /\ next.status = con.status \/ (frame.kind = "status" /\ next.status = frame.seq)
    <2>1. CASE next = rest
      BY <1>1, <2>1 DEF ConnectionState
    <2>2. CASE next = [rest EXCEPT !.last = Larger(rest.last, frame.seq),
                               !.status = IF frame.kind = "status" THEN frame.seq ELSE rest.status]
      BY <1>1, <2>2 DEF ConnectionState
    <2> QED
      BY <1>2, <2>1, <2>2
  <1>4. /\ DOMAIN live = 1 .. Len(live) /\ Len(live) \in Nat /\ 1 \in DOMAIN live /\ frame = live[1]
        /\ DOMAIN Tail(live) = 1 .. Len(live) - 1
        /\ \A j \in DOMAIN Tail(live) : Tail(live)[j] = live[j + 1] /\ j + 1 \in DOMAIN live
    BY <1>1, LenProperties, HeadTailProperties
  <1> HIDE DEF frame, rest, next, live
  <1>5. ASSUME NEW j \in DOMAIN next.live, next.live[j].kind = "status"
        PROVE  /\ next.live[j].seq \in Told(con) /\ con.status < next.live[j].seq
               /\ frame.kind = "status" => frame.seq < next.live[j].seq
    <2>1. next.live[j] = live[j + 1] /\ j + 1 \in DOMAIN live /\ 1 < j + 1
      BY <1>3, <1>4, <1>5
    <2> QED
      BY <1>1, <1>4, <1>5, <2>1 DEF Upward, Forward, Told, live
  <1>6. frame.kind = "status" => frame.seq \in Told(con)
    BY <1>4 DEF Told, live
  <1>7. Forward(next.live)
    <2>1. \A i, j \in DOMAIN Tail(live) : i < j => i + 1 < j + 1
      BY <1>4
    <2>2. Forward(live)
      BY <1>1 DEF Upward, live
    <2> QED
      BY <1>3, <1>4, <2>1, <2>2 DEF Forward
  <1>8. Upward(next)
    BY <1>3, <1>5, <1>7 DEF Upward
  <1>9. Told(next) \subseteq Told(con)
    <2>1. next.status \in Told(con)
      BY <1>3, <1>6 DEF Told
    <2>2. \A t \in Told(next) : t = next.status \/
              \E j \in DOMAIN next.live : next.live[j].kind = "status" /\ t = next.live[j].seq
      BY DEF Told
    <2> QED
      BY <1>5, <2>1, <2>2
  <1> QED
    BY <1>8, <1>9 DEF next

\* A step of a client tells it nothing new.
LEMMA InformedClient ==
    ASSUME TypeOK, QueueWhole, ProjectionWhole, NEW c \in Client, Informed(c),
           ClientStep(c) \/ ReadFails(c) \/ Disconnect(c)
    PROVE  Informed(c)'
  <1> DEFINE con == connection[c]
             next == connection'[c]
  <1>1. con \in ConnectionState /\ Upward(con)
    BY ConnectionIs DEF Informed
  <1>2. \A state : Set(c, state) => next = state
    BY DEF Set, TypeOK
  <1>3. ASSUME next.live = con.live, next.status = con.status
        PROVE  Upward(next) /\ Told(next) \subseteq Told(con)
    BY <1>1, <1>3 DEF Upward, Forward, Told
  <1>4. ASSUME next.live = <<>>, next.status = 0
        PROVE  Upward(next) /\ Told(next) \subseteq {0}
    BY <1>4, UpwardAnew
  <1>5. Off.live = <<>> /\ Off.status = 0 /\ Fresh.live = <<>> /\ Fresh.status = 0
    BY DEF Off, Fresh
  <1>6. Upward(next) /\ Told(next) \subseteq Told(con) \cup {0}
    <2>1. CASE AskPage(c)
      <3>1. next = [Fresh EXCEPT !.phase = "paging"]
        BY <1>2, <2>1 DEF AskPage
      <3>2. next.live = <<>> /\ next.status = 0
        BY <3>1 DEF Fresh
      <3> QED
        BY <1>4, <3>2
    <2>2. CASE Subscribe(c)
      <3>1. next = [Off EXCEPT !.phase = "reading", !.last = cursor[c]]
        BY <1>2, <2>2 DEF Subscribe
      <3>2. next.live = <<>> /\ next.status = 0
        BY <3>1 DEF Fresh, Off
      <3> QED
        BY <1>4, <3>2
    <2>3. CASE ReadTable(c) \/ ReadSession(c) \/ HandOut(c) \/ CatchUp(c)
      <3>1. next.live = con.live /\ next.status = con.status
        <4>1. CASE ReadTable(c)
          <5>1. next = [con EXCEPT !.read = NextRead(con.read)]
            BY <1>2, <4>1 DEF ReadTable
          <5> QED
            BY <1>1, <5>1 DEF ConnectionState
        <4>2. CASE ReadSession(c)
          <5>1. PICK phase, queue, more :
                    next = [con EXCEPT !.phase = phase, !.read = Read(1, {}), !.queue = queue,
                                       !.more = more]
            BY <1>2, <4>2 DEF ReadSession
          <5> QED
            BY <1>1, <5>1 DEF ConnectionState
        <4>3. CASE HandOut(c)
          <5>1. PICK queue, last : next = [con EXCEPT !.queue = queue, !.last = last]
            BY <1>2, <4>3 DEF HandOut
          <5> QED
            BY <1>1, <5>1 DEF ConnectionState
        <4>4. CASE CatchUp(c)
          <5>1. next = [con EXCEPT !.phase = "catching", !.lagged = FALSE]
            BY <1>2, <4>4 DEF CatchUp
          <5> QED
            BY <1>1, <5>1 DEF ConnectionState
        <4> QED
          BY <2>3, <4>1, <4>2, <4>3, <4>4
      <3> QED
        BY <1>3, <3>1
    <2>4. CASE TurnPage(c) \/ Disconnect(c)
      <3>1. next = Off \/ next = Fresh
        BY <1>2, <2>4 DEF TurnPage, Disconnect
      <3> QED
        BY <1>4, <1>5, <3>1
    <2>5. CASE TakeFrame(c)
      BY <2>5, InformedTakeFrame
    <2>6. CASE ReadFails(c)
      <3>1. \/ next = Off \/ next = Fresh
            \/ next = [con EXCEPT !.phase = "open", !.read = Read(1, {})]
        BY <1>2, <2>6 DEF ReadFails, Reading
      <3>2. CASE next = [con EXCEPT !.phase = "open", !.read = Read(1, {})]
        <4>1. next.live = con.live /\ next.status = con.status
          BY <1>1, <3>2 DEF ConnectionState
        <4> QED
          BY <1>3, <4>1
      <3> QED
        BY <1>4, <1>5, <3>1, <3>2
    <2> QED
      BY <2>1, <2>2, <2>3, <2>4, <2>5, <2>6 DEF ClientStep
  <1>7. \A t \in Told(con) \cup {0} : Passed(t)
    BY NothingPassed DEF Informed
  <1>8. \A t : Passed(t) => Passed(t)'
    BY ClientKeepsFeed DEF feed, Passed, First, EventSeq
  <1> QED
    BY <1>6, <1>7, <1>8 DEF Informed, Upward, Forward, Told

\* A connection that is left alone.
LEMMA InformedWaits ==
    ASSUME TypeOK, NEW c \in Client, Informed(c), connection'[c] = connection[c],
           \A t \in Nat : Passed(t) => Passed(t)'
    PROVE  Informed(c)'
  <1>1. Told(connection[c]) \subseteq Nat
    BY ToldType
  <1>2. Told(connection[c])' = Told(connection[c]) /\ Upward(connection[c])' = Upward(connection[c])
    BY DEF Told, Upward, Forward
  <1> QED
    BY <1>1, <1>2 DEF Informed

\* As long as nothing has gone wrong, every step keeps every connection informed.
LEMMA InformedKept ==
    ASSUME SInv, [Next]_vars, mishaps' = {}, NEW c \in Client
    PROVE  Informed(c)'
  <1>1. TypeOK /\ QueueWhole /\ ProjectionWhole /\ Informed(c)
    <2>1. mishaps = {}
      BY MishapsStay
    <2> QED
      BY <2>1 DEF SInv, WInv, Whole, Unharmed
  <1>2. CASE Handle
    BY <1>1, <1>2, PassedHandle, InformedWaits DEF Handle
  <1>3. CASE BeginSeed \/ SeedRead
    <2>1. handling'.events \subseteq handling.events
      <3>1. CASE BeginSeed
        BY <3>1 DEF BeginSeed, Idle
      <3>2. CASE SeedRead
        BY <1>1, <3>2 DEF SeedRead, TypeOK, HandlingState
      <3> QED
        BY <1>3, <3>1, <3>2
    <2>2. UNCHANGED <<floor, projection, connection>>
      BY <1>3 DEF BeginSeed, SeedRead
    <2> QED
      BY <1>1, <2>1, <2>2, PassedStays, InformedWaits
  <1>4. CASE Seed
    BY <1>1, <1>4, PassedSeed, InformedWaits DEF Seed
  <1>5. CASE PushEvent
    BY <1>1, <1>5, InformedPushEvent
  <1>6. CASE BatchDone
    BY <1>1, <1>6, InformedDone
  <1>7. ~SeedFails
    BY DEF SeedFails, FailedRead
  <1>8. CASE Evict
    BY <1>1, <1>8, PassedEvict, InformedWaits DEF Evict
  <1>9. CASE Restart
    BY <1>1, <1>9, InformedRestart
  <1>10. ASSUME NEW d \in Client, ClientStep(d) \/ ReadFails(d) \/ Disconnect(d)
         PROVE  Informed(c)'
    <2>1. CASE c = d
      BY <1>1, <1>10, <2>1, InformedClient
    <2>2. CASE c # d
      <3>1. connection'[c] = connection[c]
        BY <1>1, <1>10, <2>2, OthersKept
      <3>2. \A t \in Nat : Passed(t) => Passed(t)'
        BY <1>10, ClientKeepsFeed, PassedStays DEF feed
      <3> QED
        BY <1>1, <3>1, <3>2, InformedWaits
    <2> QED
      BY <2>1, <2>2
  <1>11. CASE \/ UNCHANGED vars
              \/ \E new \in NewRecords, again \in OneOrNone(InTable(Submissions)),
                    delta \in BOOLEAN : Commit(new, again, delta)
    <2>1. UNCHANGED <<floor, projection, handling, connection>>
      BY <1>11 DEF Commit, vars
    <2> QED
      BY <1>1, <2>1, PassedStays, InformedWaits
  <1> QED
    BY <1>2, <1>3, <1>4, <1>5, <1>6, <1>7, <1>8, <1>9, <1>10, <1>11 DEF Next, FeedStep

\* No status of a connection goes back.
THEOREM StatusesAdvance == Spec => []StatusForward
  <1>1. Init => SInv
    <2> SUFFICES ASSUME Init, NEW c \in Client PROVE WInv /\ Informed(c)
      BY WholeAtFirst DEF SInv
    <2>1. WInv /\ mishaps = {} /\ connection[c] = Fresh
      BY WholeAtFirst DEF Init
    <2>2. TypeOK /\ QueueWhole /\ ProjectionWhole
      BY <2>1 DEF WInv, Whole, Unharmed
    <2>3. Upward(connection[c]) /\ Told(connection[c]) = {0}
      BY <2>1, UpwardAnew DEF Fresh
    <2> QED
      BY <2>1, <2>2, <2>3, NothingPassed DEF Informed
  <1>2. SInv /\ [Next]_vars /\ WInv' => SInv'
    BY InformedKept DEF SInv
  <1>3. Spec => []SInv
    BY <1>1, <1>2, WholeInvariant, PTL DEF Spec
  <1>4. ASSUME SInv PROVE StatusForward
    <2> SUFFICES ASSUME mishaps = {}, NEW c \in Client,
                        NEW i \in DOMAIN Statuses(c), NEW j \in DOMAIN Statuses(c),
                        i < j, Statuses(c)[j] # 0
                 PROVE  Statuses(c)[i] < Statuses(c)[j]
      BY DEF StatusForward
    <2> DEFINE con == connection[c]
               live == con.live
               n == Len(live)
               told == [k \in DOMAIN live |->
                            IF live[k].kind = "status" THEN live[k].seq ELSE 0]
               first == <<con.status>>
    <2>1. /\ TypeOK /\ Upward(con) /\ Told(con) \subseteq Nat
      BY <1>4, ToldType DEF SInv, WInv, Informed
    <2>2. live \in Seq(Frame) /\ con.status \in Nat /\ n \in Nat /\ DOMAIN live = 1 .. n
      BY <2>1, ConnectionIs, LenProperties DEF ConnectionState
    <2>3. \A k \in DOMAIN live : live[k].kind = "status" => live[k].seq \in Told(con)
      BY DEF Told
    <2>4. \A k \in 1 .. n : told[k] \in Nat
      BY <2>1, <2>2, <2>3
    <2>5. told \in Seq(Nat) /\ Len(told) = n
      <3>1. told \in [1 .. n -> Nat]
        BY <2>2, <2>4
      <3> HIDE DEF told
      <3> QED
        BY <2>2, <3>1
    <2>6. first \in Seq(Nat) /\ Len(first) = 1 /\ first[1] = con.status
      BY <2>2
    <2>7. Statuses(c) = first \o told
      BY DEF Statuses
    <2>8. \A k \in DOMAIN told :
              told[k] = IF live[k].kind = "status" THEN live[k].seq ELSE 0
      OBVIOUS
    <2>9. DOMAIN told = 1 .. n
      BY <2>2
    <2> HIDE DEF told, first, live, con, n
    <2>10. /\ DOMAIN Statuses(c) = 1 .. 1 + n
           /\ \A k \in 1 .. 1 + n :
                  Statuses(c)[k] = IF k <= 1 THEN first[k] ELSE told[k - 1]
      <3>1. /\ first \o told \in Seq(Nat) /\ Len(first \o told) = Len(first) + Len(told)
            /\ \A k \in 1 .. Len(first) + Len(told) :
                   (first \o told)[k] = IF k <= Len(first) THEN first[k] ELSE told[k - Len(first)]
        BY <2>5, <2>6, ConcatProperties
      <3>2. DOMAIN (first \o told) = 1 .. 1 + n
        BY <2>5, <2>6, <3>1, LenProperties
      <3> QED
        BY <2>5, <2>6, <2>7, <3>1, <3>2
    <2>11. /\ i \in Nat /\ j \in Nat /\ 1 <= i /\ ~(j <= 1) /\ j - 1 \in 1 .. n
           /\ i <= 1 => i = 1
           /\ ~(i <= 1) => i - 1 \in 1 .. n /\ i - 1 < j - 1
      BY <2>2, <2>10
    <2>12. /\ Statuses(c)[j] = told[j - 1]
           /\ live[j - 1].kind = "status" /\ told[j - 1] = live[j - 1].seq
      <3>1. Statuses(c)[j] = told[j - 1]
        BY <2>10, <2>11
      <3> QED
        BY <2>8, <2>9, <2>11, <3>1
    <2>13. live[j - 1].seq \in Nat /\ 0 < live[j - 1].seq /\ con.status < live[j - 1].seq
      <3>1. con.status < live[j - 1].seq
        BY <2>1, <2>2, <2>11, <2>12 DEF Upward, live
      <3>2. live[j - 1].seq \in Nat
        BY <2>1, <2>2, <2>3, <2>11, <2>12
      <3> QED
        BY <2>2, <3>1, <3>2
    <2>14. CASE i <= 1
      <3>1. Statuses(c)[i] = con.status
        BY <2>6, <2>10, <2>11, <2>14
      <3> QED
        BY <2>12, <2>13, <3>1
    <2>15. CASE ~(i <= 1)
      <3>1. Statuses(c)[i] = told[i - 1]
        BY <2>10, <2>15
      <3>2. CASE live[i - 1].kind = "status"
        <4>1. told[i - 1] = live[i - 1].seq
          BY <2>8, <2>9, <2>11, <2>15, <3>2
        <4>2. live[i - 1].seq < live[j - 1].seq
          BY <2>1, <2>2, <2>11, <2>12, <2>15, <3>2 DEF Upward, Forward, live
        <4> QED
          BY <2>12, <3>1, <4>1, <4>2
      <3>3. CASE live[i - 1].kind # "status"
        <4>1. told[i - 1] = 0
          BY <2>8, <2>9, <2>11, <2>15, <3>3
        <4> QED
          BY <2>12, <2>13, <3>1, <4>1
      <3> QED
        BY <3>2, <3>3
    <2> QED
      BY <2>14, <2>15
  <1> QED
    BY <1>3, <1>4, PTL
=============================================================================
