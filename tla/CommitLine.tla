----------------------------- MODULE CommitLine -----------------------------
(***************************************************************************)
(* The two commit lines of komo, one on top of the other.                  *)
(*                                                                         *)
(* The runtime's line (komo-runtime/src/durable/line.rs) runs one commit   *)
(* closure at a time behind a fair gate: closure, storage, publication.    *)
(* The store's line (komo-store/src/durable/line.rs) is one task with the  *)
(* only write connection: it takes batches from a queue, one SQL           *)
(* transaction each, and fails for good at the first engine error.         *)
(*                                                                         *)
(* The database is the sequence of batches in its write-ahead log; a crash *)
(* of the process keeps all of it, a power loss keeps at least what was    *)
(* synced.  The data of a batch is one of three commits that tell the      *)
(* hazards apart: a submission, with or without a request key, which also  *)
(* rewrites the conversation's inbox document; a progress write; a purge.  *)
(***************************************************************************)
EXTENDS Integers, Sequences, FiniteSets

CONSTANTS
    Caller,      \* the tasks that call Line::commit
    Key,         \* request keys
    Closer,      \* the caller of Engine::close
    Nobody,      \* no caller
    Droppers,    \* callers whose future may be dropped (a client disconnects)
    Asks,        \* the commits each caller may ask for
    MaxLog,      \* bound on the commits of the log
    MaxDrops,    \* bound on the callers that are dropped while they hold the gate
    MaxCrashes   \* bound on crashes and power losses

ASSUME NamesAssumption ==
    /\ Closer \notin Caller
    /\ Nobody \notin Caller \cup {Closer}
ASSUME DroppersAssumption == Droppers \subseteq Caller
ASSUME BoundsAssumption == MaxLog \in Nat /\ MaxDrops \in Nat /\ MaxCrashes \in Nat

NoKey == "no key"
Operation == {"submit", "progress", "purge"}
Request == [op : {"submit"}, key : Key \cup {NoKey}]
           \cup [op : {"progress", "purge"}, key : {NoKey}]

\* What the writer receives: the rows of one commit.
Batch == [op : Operation, key : Key \cup {NoKey}, id : Nat, inbox : SUBSET Nat]

\* What waits in the writer's queue (an item from Nobody was sent by a caller
\* that is gone), and what the writer answers.
Item == [from : Caller \cup {Nobody}, batch : Batch] \cup [from : {Closer}]
Reply == [result : {"none", "rejected", "failed"}]
         \cup [result : {"ok"}, seq : Nat, batch : Batch]

\* What the listeners are told of a commit.
Publication == [seq : Nat, batch : Batch]

\* A row of the submissions table.
Row == [key : Key \cup {NoKey}, id : Nat]

\* A committed batch and the database after it: the submissions, the inbox
\* document and the meta rows last_seq and max_id.
Commit == [op : Operation, key : Key \cup {NoKey}, id : Nat,
           rows : SUBSET Row, inbox : SUBSET Nat, seq : Nat, high : Nat]

VARIABLES
    log,        \* the commits in the write-ahead log
    synced,     \* how many of them a power loss keeps
    up,         \* the process runs
    \* the store's line
    ids,        \* the largest ID handed out
    seq,        \* Writer.seq
    high,       \* Writer.persisted_max_id
    sync,       \* Writer.sync, the connection's synchronous pragma
    failed,     \* Shared.failed
    queue,      \* the requests the writer has not taken yet
    reply,      \* what the writer answered to each caller
    \* the runtime's line
    gate,       \* who waits for the gate, in order
    holder,     \* who holds it
    stage,      \* where each caller's commit is
    request,    \* what each caller commits
    sealed,     \* LineState.sealed, by a close or by a failure
    published,  \* what the listeners were told since the line was opened
    \* history
    opened,     \* length of the log when the line was opened
    promised,   \* the latest structural commit acknowledged to its caller
    answered,   \* the submission IDs told to callers, with their keys
    dropped,    \* callers that were dropped while they held the gate
    crashes

durable == <<log, synced>>
store == <<ids, seq, high, sync, failed, queue, reply>>
line == <<gate, holder, stage, request, sealed, published>>
history == <<opened, promised, answered, dropped, crashes>>
vars == <<durable, up, store, line, history>>

-----------------------------------------------------------------------------
(* Reading the database *)

\* Largest of a set of naturals, and a floor.
Largest(S, floor) == CHOOSE m \in S \cup {floor} : \A n \in S \cup {floor} : n <= m

\* The database a reader of the log sees.
EmptyDatabase == [rows |-> {}, inbox |-> {}, seq |-> 0, high |-> 0]
Database(h) == IF h = <<>> THEN EmptyDatabase ELSE h[Len(h)]

TableIds(h) == {s.id : s \in Database(h).rows}

\* Mutant of FirstId: the meta row is not looked at.
FirstIdFromTables(h) == Largest(TableIds(h), 1)
FirstId(h) == Largest(TableIds(h) \cup {Database(h).high}, 1)

Structural(b) == b.op # "progress"
NoRequest == [op |-> "progress", key |-> NoKey]
NoReply == [result |-> "none"]

-----------------------------------------------------------------------------
Init ==
    /\ log = <<>> /\ synced = 0
    /\ up = TRUE
    /\ ids = 1 /\ seq = 0 /\ high = 1 /\ sync = "full" /\ failed = FALSE
    /\ queue = <<>> /\ reply = [c \in Caller |-> NoReply]
    /\ gate = <<>> /\ holder = Nobody
    /\ stage = [c \in Caller |-> "idle"]
    /\ request = [c \in Caller |-> NoRequest]
    /\ sealed = FALSE /\ published = <<>>
    /\ opened = 0 /\ promised = 0 /\ answered = {} /\ dropped = 0 /\ crashes = 0

-----------------------------------------------------------------------------
(* The runtime's line *)

\* The commit call of c is over.
Return(c) ==
    /\ stage' = [stage EXCEPT ![c] = "idle"]
    /\ request' = [request EXCEPT ![c] = NoRequest]

\* The commits that may still reach the log, so that the bound holds.
Outstanding == Len(queue) + Cardinality({c \in Caller : stage[c] = "queued"})

\* A task calls Line::commit and waits for the gate.
Ask(c, r) ==
    /\ up /\ stage[c] = "idle" /\ r \in Asks[c]
    /\ Len(log) + Outstanding < MaxLog
    /\ stage' = [stage EXCEPT ![c] = "queued"]
    /\ request' = [request EXCEPT ![c] = r]
    /\ gate' = Append(gate, c)
    /\ UNCHANGED <<durable, up, store, holder, sealed, published, history>>

\* Mutant of Take: callers do not keep each other out.
TakeShared(c) ==
    /\ up /\ holder \in {Nobody} \cup Caller
    /\ gate # <<>> /\ Head(gate) = c
    /\ gate' = Tail(gate)

\* The gate is fair: it goes to whoever waits longest.
Take(c) ==
    /\ up /\ holder = Nobody
    /\ gate # <<>> /\ Head(gate) = c
    /\ gate' = Tail(gate)

\* The submission the closure finds under the request key.
Found(c) == {s \in Database(log).rows : s.key = request[c].key /\ s.key # NoKey}

\* admit refuses: the line was sealed before this commit had its turn.
Refuse(c) ==
    /\ Take(c) /\ sealed
    /\ Return(c)
    /\ UNCHANGED <<durable, up, store, holder, sealed, published, history>>

\* The request key is known: the closure stages nothing and nothing is written.
AnswerKnown(c) ==
    /\ Take(c) /\ ~sealed
    /\ \E s \in Found(c) : answered' = answered \cup {s}
    /\ Return(c)
    /\ UNCHANGED <<durable, up, store, holder, sealed, published,
                   opened, promised, dropped, crashes>>

\* What the closure stages, from what it reads and the ID it mints.
Staged(c) ==
    LET r == request[c]
    IN  [op |-> r.op, key |-> r.key,
         id |-> IF r.op = "submit" THEN ids + 1 ELSE 0,
         inbox |-> IF r.op = "submit" THEN Database(log).inbox \cup {ids + 1} ELSE {}]

Mint(c) == ids' = IF request[c].op = "submit" THEN ids + 1 ELSE ids

\* The closure runs and its batch goes to the writer.  The gate stays held.
Send(c) ==
    /\ Take(c) /\ ~sealed /\ Found(c) = {} /\ ~failed
    /\ Mint(c)
    /\ queue' = Append(queue, [from |-> c, batch |-> Staged(c)])
    /\ holder' = c
    /\ stage' = [stage EXCEPT ![c] = "sent"]
    /\ UNCHANGED <<durable, up, seq, high, sync, failed, reply, request, sealed,
                   published, history>>

\* The store's line has failed already: its send refuses, and this line fails too.
SendRefused(c) ==
    /\ Take(c) /\ ~sealed /\ Found(c) = {} /\ failed
    /\ Mint(c)
    /\ sealed' = TRUE
    /\ Return(c)
    /\ UNCHANGED <<durable, up, seq, high, sync, failed, queue, reply, holder,
                   published, history>>

\* Mutant of Leave: the guard is not dropped.
LeaveHolding(c) ==
    /\ up /\ holder = c /\ reply[c].result # "none"
    /\ Return(c)
    /\ reply' = [reply EXCEPT ![c] = NoReply]
    /\ UNCHANGED holder
Leave(c) ==
    /\ up /\ holder = c /\ reply[c].result # "none"
    /\ holder' = Nobody
    /\ Return(c)
    /\ reply' = [reply EXCEPT ![c] = NoReply]

\* The batch is durable: publish it, then the caller learns of it.
Told(b) == IF b.key # NoKey THEN {[key |-> b.key, id |-> b.id]} ELSE {}

\* Mutant of Publish: a sealed line tells nobody.
PublishUnlessSealed(n, b) ==
    IF sealed THEN published ELSE Append(published, [seq |-> n, batch |-> b])
Publish(n, b) == Append(published, [seq |-> n, batch |-> b])

SettleOk(c) ==
    /\ Leave(c) /\ reply[c].result = "ok"
    /\ published' = Publish(reply[c].seq, reply[c].batch)
    /\ promised' = IF Structural(reply[c].batch) THEN reply[c].seq ELSE promised
    /\ answered' = answered \cup Told(reply[c].batch)
    /\ UNCHANGED <<durable, up, ids, seq, high, sync, failed, queue, gate, sealed,
                   opened, dropped, crashes>>

\* settle_error: every storage error but an invalid read request is fatal, a
\* rejected batch included.
SettleError(c) ==
    /\ Leave(c) /\ reply[c].result \in {"rejected", "failed"}
    /\ sealed' = TRUE
    /\ UNCHANGED <<durable, up, ids, seq, high, sync, failed, queue, gate,
                   published, history>>

\* The caller's future is dropped while it waits for the gate ...
DropQueued(c) ==
    /\ up /\ c \in Droppers /\ stage[c] = "queued"
    /\ \E i \in DOMAIN gate :
           /\ gate[i] = c
           /\ gate' = SubSeq(gate, 1, i - 1) \o SubSeq(gate, i + 1, Len(gate))
    /\ Return(c)
    /\ UNCHANGED <<durable, up, store, holder, sealed, published, history>>

\* ... or while it holds it: the gate goes free, the batch stays on its way.
DropHolder(c) ==
    /\ up /\ c \in Droppers /\ holder = c
    /\ holder' = Nobody
    /\ Return(c)
    /\ queue' = [i \in DOMAIN queue |->
                   IF queue[i].from = c THEN [queue[i] EXCEPT !.from = Nobody] ELSE queue[i]]
    /\ reply' = [reply EXCEPT ![c] = NoReply]
    /\ dropped < MaxDrops /\ dropped' = dropped + 1
    /\ UNCHANGED <<durable, up, ids, seq, high, sync, failed, gate, sealed,
                   published, opened, promised, answered, crashes>>

\* Engine::close seals the line, joins the running invocations, then waits for
\* the gate; Storage::close queues behind every batch.
Seal ==
    /\ up /\ ~sealed
    /\ sealed' = TRUE
    /\ UNCHANGED <<durable, up, store, gate, holder, stage, request, published,
                   history>>

CloserWaits == \E i \in DOMAIN gate : gate[i] = Closer
Close ==
    /\ up /\ sealed /\ ~CloserWaits /\ holder # Closer
    /\ gate' = Append(gate, Closer)
    /\ UNCHANGED <<durable, up, store, holder, stage, request, sealed, published,
                   history>>

CloseStorage ==
    /\ Take(Closer)
    /\ holder' = Closer
    /\ queue' = Append(queue, [from |-> Closer])
    /\ UNCHANGED <<durable, up, ids, seq, high, sync, failed, reply, stage, request, sealed,
                   published, history>>

-----------------------------------------------------------------------------
(* The store's line *)

Answer(r) ==
    reply' = IF queue[1].from \in Caller THEN [reply EXCEPT ![queue[1].from] = r] ELSE reply

\* Checks inside the transaction: the request key belongs to another submission.
Conflict(b) ==
    b.key # NoKey /\ \E s \in Database(log).rows : s.key = b.key /\ s.id # b.id

\* The high-water mark: whatever the counter has handed out by now.
HighWater(b) == Largest({high, ids}, b.id)

\* What the writes of a batch make of the tables.  A submission behind a purge
\* starts a new conversation here; the code can also reject it (Reject covers
\* that outcome for a request key).
RowsAfter(b) ==
    CASE b.op = "submit" -> Database(log).rows \cup {[key |-> b.key, id |-> b.id]}
      [] b.op = "progress" -> Database(log).rows
      [] b.op = "purge" -> {}
InboxAfter(b) == IF b.op = "progress" THEN Database(log).inbox ELSE b.inbox

Transaction(b) ==
    [op |-> b.op, key |-> b.key, id |-> b.id,
     rows |-> RowsAfter(b), inbox |-> InboxAfter(b),
     seq |-> seq + 1, high |-> HighWater(b)]

\* Mutant of SyncFor: the pragma is never raised again.
SyncLowered(b) == IF Structural(b) THEN sync ELSE "off"
SyncFor(b) == IF Structural(b) THEN "full" ELSE "off"

\* What a power loss keeps after a COMMIT: FULL syncs the whole log, OFF leaves it.
Synced(b) == IF SyncFor(b) = "full" THEN Len(log) + 1 ELSE synced

NextBatch ==
    /\ up /\ queue # <<>> /\ queue[1].from # Closer
    /\ queue' = Tail(queue)

\* After a purge its keys may be used again.
Forget(b) == IF b.op = "purge" THEN {} ELSE answered

Accept ==
    /\ NextBatch /\ ~failed
    /\ LET b == queue[1].batch
       IN  /\ ~Conflict(b)
           /\ log' = Append(log, Transaction(b))
           /\ synced' = Synced(b)
           /\ seq' = seq + 1
           /\ high' = HighWater(b)
           /\ sync' = SyncFor(b)
           /\ ids' = Largest({b.id}, ids)
           /\ answered' = Forget(b)
           /\ Answer([result |-> "ok", seq |-> seq + 1, batch |-> b])
    /\ UNCHANGED <<up, failed, line, opened, promised, dropped, crashes>>

Reject ==
    /\ NextBatch /\ ~failed
    /\ Conflict(queue[1].batch)
    /\ sync' = SyncFor(queue[1].batch)
    /\ Answer([result |-> "rejected"])
    /\ UNCHANGED <<durable, up, ids, seq, high, failed, line, history>>

\* An engine or I/O error, at any statement.  When COMMIT itself failed, the
\* transaction may have been written, and may have been synced.
Fault ==
    /\ NextBatch /\ ~failed
    /\ LET b == queue[1].batch
       IN  /\ sync' \in {sync, SyncFor(b)}
           /\ \/ UNCHANGED <<durable, answered>>
              \/ /\ ~Conflict(b) /\ sync' = SyncFor(b)
                 /\ log' = Append(log, Transaction(b))
                 /\ synced' \in {synced, Synced(b)}
                 /\ answered' = Forget(b)
    /\ failed' = TRUE
    /\ Answer([result |-> "failed"])
    /\ UNCHANGED <<up, ids, seq, high, line, opened, promised, dropped, crashes>>

\* Every later request gets the same failure.
RefuseAfterFailure ==
    /\ NextBatch /\ failed
    /\ Answer([result |-> "failed"])
    /\ UNCHANGED <<durable, up, ids, seq, high, sync, failed, line, history>>

-----------------------------------------------------------------------------
(* The process *)

\* Nothing but the database outlives the process.
Down ==
    /\ up' = FALSE
    /\ ids' = 0 /\ seq' = 0 /\ high' = 0 /\ sync' = "full" /\ failed' = FALSE
    /\ queue' = <<>> /\ reply' = [c \in Caller |-> NoReply]
    /\ gate' = <<>> /\ holder' = Nobody
    /\ stage' = [c \in Caller |-> "idle"] /\ request' = [c \in Caller |-> NoRequest]
    /\ sealed' = FALSE /\ published' = <<>>
    /\ UNCHANGED <<opened, promised, dropped>>

\* The writer reaches the close request: everything before it is settled.
Closed ==
    /\ up /\ queue # <<>> /\ queue[1].from = Closer
    /\ Down
    /\ UNCHANGED <<durable, answered, crashes>>

Crash ==
    /\ up /\ crashes < MaxCrashes
    /\ Down
    /\ crashes' = crashes + 1
    /\ UNCHANGED <<durable, answered>>

\* The page cache is gone: any prefix that holds the synced commits is left.
PowerLoss ==
    /\ crashes < MaxCrashes
    /\ Down
    /\ \E kept \in synced..Len(log) :
           /\ log' = SubSeq(log, 1, kept)
           /\ synced' = kept
    /\ answered' = {}
    /\ crashes' = crashes + 1

Open ==
    /\ ~up /\ up' = TRUE
    /\ ids' = FirstId(log) /\ high' = FirstId(log)
    /\ seq' = Database(log).seq
    /\ opened' = Len(log)
    /\ UNCHANGED <<durable, sync, failed, queue, reply, line, promised, answered,
                   dropped, crashes>>

-----------------------------------------------------------------------------
Turn(c) == Refuse(c) \/ AnswerKnown(c) \/ Send(c) \/ SendRefused(c)
Settle(c) == SettleOk(c) \/ SettleError(c)
Drop(c) == DropQueued(c) \/ DropHolder(c)
Write == Accept \/ Reject \/ Fault \/ RefuseAfterFailure \/ Closed

Next ==
    \/ \E c \in Caller :
           \/ \E r \in Request : Ask(c, r)
           \/ Turn(c) \/ Settle(c) \/ Drop(c)
    \/ Seal \/ Close \/ CloseStorage
    \/ Write
    \/ Crash \/ PowerLoss \/ Open

Spec == Init /\ [][Next]_vars

\* The writer is a spawned task, a caller is polled while it lives, and the
\* gate wakes whoever it goes to.
Fairness ==
    /\ WF_vars(Write)
    /\ WF_vars(CloseStorage)
    /\ \A c \in Caller : WF_vars(Turn(c)) /\ WF_vars(Settle(c))
FairSpec == Spec /\ Fairness

-----------------------------------------------------------------------------
(* Properties *)

TypeOK ==
    /\ log \in Seq(Commit) /\ synced \in 0..Len(log)
    /\ up \in BOOLEAN
    /\ ids \in Nat /\ seq \in Nat /\ high \in Nat
    /\ sync \in {"full", "off"} /\ failed \in BOOLEAN
    /\ queue \in Seq(Item) /\ reply \in [Caller -> Reply]
    /\ gate \in Seq(Caller \cup {Closer}) /\ holder \in Caller \cup {Closer, Nobody}
    /\ stage \in [Caller -> {"idle", "queued", "sent"}]
    /\ request \in [Caller -> Request]
    /\ sealed \in BOOLEAN
    /\ published \in Seq(Publication)
    /\ opened \in Nat /\ promised \in Nat /\ crashes \in 0..MaxCrashes
    /\ answered \subseteq Row /\ \A s \in answered : s.key # NoKey
    /\ dropped \in 0..MaxDrops

\* The line keeps its promise (line.rs, docs/storage-durable.md 3.6): whatever
\* crashes, the database is the history of commits up to some point, and that
\* point is never before a structural commit whose caller was told Ok.
Promised == INSTANCE DurableLog WITH history <- log, promised <- promised
KeepsLog == Promised!Spec

\* Listeners see every commit of this process once, in order and with the
\* number the database has for it (line.rs publish): whenever the line is idle
\* and healthy, what was published is what the log gained, unless a caller was
\* dropped while it held the gate.
ListenersSeeTheLog ==
    dropped = 0 /\ up /\ holder = Nobody /\ queue = <<>> /\ ~failed =>
        /\ Len(published) = Len(log) - opened
        /\ \A i \in DOMAIN published :
               /\ published[i].seq = opened + i
               /\ published[i].seq = log[opened + i].seq
               /\ published[i].batch.id = log[opened + i].id
               /\ published[i].batch.op = log[opened + i].op

\* An ID is used once (ids.rs, purged_ids_are_never_reissued_after_reopen): no
\* two submissions of the history share one, whatever was purged, lost or
\* reopened in between.
IdsNeverReused ==
    \A i, j \in DOMAIN log :
        log[i].op = "submit" /\ log[j].op = "submit" /\ i # j => log[i].id # log[j].id

\* A closure reads what every commit before it wrote (line.rs gate): rewriting
\* the whole inbox document never loses a submission that is still stored,
\* unless a caller was dropped while it held the gate.
NoLostUpdate == dropped = 0 => Database(log).inbox = TableIds(log)

\* A request key is answered with one submission (inbox.rs admit, write.rs
\* UpsertSubmission), also when a caller retries while its first batch is
\* still on its way or its outcome is unknown.
OneAnswerPerKey ==
    \A s, t \in answered : s.key = t.key => s.id = t.id

\* Whoever stops waiting, listeners are never told of two commits in another
\* order than the database has them, nor twice, nor of one that never happened
\* (line.rs publish; observers rebuild task and document state from it).
PublishedInOrder ==
    up => /\ \A i, j \in DOMAIN published : i < j => published[i].seq < published[j].seq
          /\ \A i \in DOMAIN published :
                 /\ published[i].seq \in (opened + 1)..Len(log)
                 /\ published[i].batch.id = log[published[i].seq].id

\* Every commit call returns (line.rs commit), through failures and a close.
CommitsReturn == \A c \in Caller : stage[c] # "idle" ~> stage[c] = "idle"
=============================================================================
