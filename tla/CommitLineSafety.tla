-------------------------- MODULE CommitLineSafety --------------------------
(***************************************************************************)
(* The types of CommitLine, its inductive invariant IInv, and what follows *)
(* from it: IDs are never used twice, a request key has one answer,        *)
(* listeners see commits in order, and the line implements DurableLog.     *)
(* At the end, under "Turns", what holds until a holder of the gate is     *)
(* dropped.                                                                *)
(* Types come first because every later step needs them: one lemma per     *)
(* action, then TypesKept, which needs one part of the inductive invariant *)
(* (HighWaterHolds) for the counter that Open computes from the tables.    *)
(***************************************************************************)
EXTENDS CommitLine, SequenceTheorems, TLAPS

\* Largest of a singleton and a floor bounds both and is one of them.
LEMMA LargestOfTwo ==
    ASSUME NEW a \in Nat, NEW b \in Nat
    PROVE  /\ Largest({a}, b) \in Nat
           /\ a <= Largest({a}, b) /\ b <= Largest({a}, b)
           /\ Largest({a}, b) \in {a, b}
  <1>1. \E m \in {a} \cup {b} : \A n \in {a} \cup {b} : n <= m
    <2>1. CASE a <= b
      BY <2>1
    <2>2. CASE b <= a
      BY <2>2
    <2> QED
      BY <2>1, <2>2
  <1> QED
    BY <1>1 DEF Largest

\* Largest of a pair and a floor bounds all three.
LEMMA LargestOfThree ==
    ASSUME NEW a \in Nat, NEW b \in Nat, NEW c \in Nat
    PROVE  /\ Largest({a, b}, c) \in Nat
           /\ a <= Largest({a, b}, c) /\ b <= Largest({a, b}, c) /\ c <= Largest({a, b}, c)
  <1> DEFINE S == {a, b} \cup {c}
  <1>1. \E m \in S : \A n \in S : n <= m
    <2>1. CASE a <= b /\ b <= c
      BY <2>1
    <2>2. CASE a <= b /\ c <= b
      BY <2>2
    <2>3. CASE b <= a /\ a <= c
      BY <2>3
    <2>4. CASE b <= a /\ c <= a
      BY <2>4
    <2> QED
      BY <2>1, <2>2, <2>3, <2>4
  <1> QED
    BY <1>1 DEF Largest

\* Reading a log gives rows, an inbox document and two counters.
LEMMA DatabaseType ==
    ASSUME NEW h \in Seq(Commit)
    PROVE  /\ Database(h).rows \in SUBSET Row
           /\ Database(h).inbox \in SUBSET Nat
           /\ Database(h).seq \in Nat
           /\ Database(h).high \in Nat
  <1>1. CASE h = <<>>
    BY <1>1 DEF Database, EmptyDatabase
  <1>2. CASE h # <<>>
    <2>1. Len(h) \in 1..Len(h)
      BY <1>2, EmptySeq
    <2>2. h[Len(h)] \in Commit
      BY <2>1, ElementOfSeq
    <2> QED
      BY <1>2, <2>2 DEF Database, Commit
  <1> QED
    BY <1>1, <1>2

\* A closure stages a batch (write.rs, the staged rows).
LEMMA StagedType ==
    ASSUME TypeOK, NEW c \in Caller
    PROVE  Staged(c) \in Batch
  <1>1. Database(log).inbox \in SUBSET Nat
    BY DatabaseType DEF TypeOK
  <1>2. request[c].op \in Operation /\ request[c].key \in Key \cup {NoKey}
    BY DEF TypeOK, Request, Operation
  <1> QED
    BY <1>1, <1>2 DEF Staged, Batch, TypeOK

\* Executing a batch makes a commit and a new high-water mark.
LEMMA TransactionType ==
    ASSUME TypeOK, NEW b \in Batch
    PROVE  Transaction(b) \in Commit /\ HighWater(b) \in Nat
  <1>1. Database(log).rows \in SUBSET Row /\ Database(log).inbox \in SUBSET Nat
    BY DatabaseType DEF TypeOK
  <1>2. RowsAfter(b) \in SUBSET Row
    BY <1>1 DEF RowsAfter, Batch, Row, Operation
  <1>3. InboxAfter(b) \in SUBSET Nat
    BY <1>1 DEF InboxAfter, Batch
  <1>4. HighWater(b) \in Nat
    BY LargestOfThree DEF HighWater, TypeOK, Batch
  <1> QED
    BY <1>2, <1>3, <1>4 DEF Transaction, Batch, Commit, TypeOK

\* The empty request and the empty answer have their types.
LEMMA NoTypes == NoRequest \in Request /\ NoReply \in Reply
  BY DEF NoRequest, NoReply, Request, Reply

\* A line opened on an empty database is well typed.
LEMMA InitTypes == Init => TypeOK
  <1> SUFFICES ASSUME Init PROVE TypeOK
    OBVIOUS
  <1>1. log \in Seq(Commit) /\ queue \in Seq(Item) /\ published \in Seq(Publication)
        /\ gate \in Seq(Caller \cup {Closer}) /\ Len(log) = 0
    BY EmptySeq DEF Init
  <1>2. NoRequest \in Request /\ NoReply \in Reply
    BY NoTypes
  <1>3. /\ reply \in [Caller -> Reply] /\ request \in [Caller -> Request]
        /\ stage \in [Caller -> {"idle", "queued", "sent"}]
    BY <1>2 DEF Init
  <1>4. synced \in 0..Len(log) /\ crashes \in 0..MaxCrashes
        /\ dropped \in 0..MaxDrops /\ holder \in {Nobody}
    BY <1>1, BoundsAssumption DEF Init
  <1> QED
    BY <1>1, <1>3, <1>4 DEF Init, TypeOK

\* Waiting for the gate keeps the types.
LEMMA AskTypes ==
    ASSUME TypeOK, NEW c \in Caller, NEW r \in Request, Ask(c, r)
    PROVE  TypeOK'
  BY AppendProperties DEF Ask, TypeOK, durable, store, history

\* Publishing and returning keeps the types.
LEMMA SettleOkTypes ==
    ASSUME TypeOK, NEW c \in Caller, SettleOk(c)
    PROVE  TypeOK'
  <1>1. /\ reply[c].seq \in Nat /\ reply[c].batch \in Batch
    BY DEF SettleOk, TypeOK, Reply
  <1>2. Told(reply[c].batch) \in SUBSET Row /\ \A s \in Told(reply[c].batch) : s.key # NoKey
    BY <1>1 DEF Told, Row, Batch
  <1>3. published' \in Seq(Publication)
    BY <1>1, AppendProperties DEF SettleOk, Publish, TypeOK, Publication
  <1> QED
    BY <1>1, <1>2, <1>3, NoTypes DEF SettleOk, Leave, Return, TypeOK, durable, store, history

\* A refused commit keeps the types.
LEMMA RefuseTypes ==
    ASSUME TypeOK, NEW c \in Caller, Refuse(c)
    PROVE  TypeOK'
  BY NoTypes, HeadTailProperties
     DEF Refuse, Take, Return, TypeOK, durable, store, history

\* Answering a known request key keeps the types.
LEMMA AnswerKnownTypes ==
    ASSUME TypeOK, NEW c \in Caller, AnswerKnown(c)
    PROVE  TypeOK'
  <1>1. answered' \subseteq Row /\ \A s \in answered' : s.key # NoKey
    <2>1. Found(c) \subseteq Row /\ \A s \in Found(c) : s.key # NoKey
      BY DatabaseType DEF Found, TypeOK
    <2> QED
      BY <2>1 DEF AnswerKnown, TypeOK
  <1> QED
    BY <1>1, NoTypes, HeadTailProperties DEF AnswerKnown, Take, Return, TypeOK, durable, store

\* Minting, staging and sending a batch keeps the types.
LEMMA SendTypes ==
    ASSUME TypeOK, NEW c \in Caller, Send(c)
    PROVE  TypeOK'
  <1> QED
    BY StagedType, AppendProperties, HeadTailProperties
       DEF Send, Take, Mint, TypeOK, durable, store, history, Item
\* A send that the failed store refuses keeps the types.
LEMMA SendRefusedTypes ==
    ASSUME TypeOK, NEW c \in Caller, SendRefused(c)
    PROVE  TypeOK'
  BY NoTypes, HeadTailProperties
     DEF SendRefused, Take, Return, Mint, TypeOK, durable, store, history

\* Failing the line keeps the types.
LEMMA SettleErrorTypes ==
    ASSUME TypeOK, NEW c \in Caller, SettleError(c)
    PROVE  TypeOK'
  BY NoTypes
     DEF SettleError, Leave, Return, TypeOK, durable, store, history

\* A caller that leaves the gate's queue keeps the types.
LEMMA DropQueuedTypes ==
    ASSUME TypeOK, NEW c \in Caller, DropQueued(c)
    PROVE  TypeOK'
  <1>1. gate' \in Seq(Caller \cup {Closer})
    <2>1. PICK i \in DOMAIN gate :
            gate' = SubSeq(gate, 1, i - 1) \o SubSeq(gate, i + 1, Len(gate))
      BY DEF DropQueued
    <2>2. i \in 1..Len(gate) /\ Len(gate) \in Nat
      BY DEF TypeOK
    <2>3. SubSeq(gate, 1, i - 1) \in Seq(Caller \cup {Closer})
      BY <2>2, SubSeqProperties DEF TypeOK
    <2>4. SubSeq(gate, i + 1, Len(gate)) \in Seq(Caller \cup {Closer})
      BY <2>2, SubSeqProperties DEF TypeOK
    <2> QED
      BY <2>1, <2>3, <2>4, ConcatProperties
  <1> QED
    BY <1>1, NoTypes DEF DropQueued, Return, TypeOK, durable, store, history

\* A caller that drops its commit while it holds the gate keeps the types.
LEMMA DropHolderTypes ==
    ASSUME TypeOK, NEW c \in Caller, DropHolder(c)
    PROVE  TypeOK'
  <1>1. queue' \in Seq(Item)
    <2> DEFINE Disowned(i) ==
          IF queue[i].from = c THEN [queue[i] EXCEPT !.from = Nobody] ELSE queue[i]
    <2>1. queue' = [i \in 1..Len(queue) |-> Disowned(i)] /\ Len(queue) \in Nat
      BY DEF DropHolder, TypeOK
    <2>2. \A i \in 1..Len(queue) : Disowned(i) \in Item
      <3> TAKE i \in 1..Len(queue)
      <3>1. queue[i] \in Item
        BY ElementOfSeq DEF TypeOK
      <3> QED
        BY <3>1, NamesAssumption DEF Item
    <2> HIDE DEF Disowned
    <2> QED
      BY <2>1, <2>2, IsASeq
  <1>2. dropped' \in 0..MaxDrops
    BY BoundsAssumption DEF DropHolder, TypeOK
  <1> QED
    BY <1>1, <1>2, NoTypes DEF DropHolder, Return, TypeOK, durable

\* Sealing the line keeps the types.
LEMMA SealTypes ==
    ASSUME TypeOK, Seal
    PROVE  TypeOK'
  BY NamesAssumption
     DEF Seal, TypeOK, durable, store, history

\* A close that waits for the gate keeps the types.
LEMMA CloseTypes ==
    ASSUME TypeOK, Close
    PROVE  TypeOK'
  BY AppendProperties
     DEF Close, TypeOK, durable, store, history

\* Queueing the close request keeps the types.
LEMMA CloseStorageTypes ==
    ASSUME TypeOK, CloseStorage
    PROVE  TypeOK'
  BY AppendProperties, HeadTailProperties
     DEF CloseStorage, Take, Item, TypeOK, durable, store, history

\* What the writer takes from the queue is a batch of a caller or of nobody.
LEMMA NextBatchTypes ==
    ASSUME TypeOK, NextBatch
    PROVE  /\ queue' \in Seq(Item)
           /\ queue[1].batch \in Batch
           /\ queue[1].from \in Caller \cup {Nobody}
  <1>1. queue[1] \in Item
    BY EmptySeq, ElementOfSeq DEF NextBatch, TypeOK
  <1> QED
    BY <1>1, HeadTailProperties DEF NextBatch, TypeOK, Item

\* An answer of the writer is a reply to a caller.
LEMMA AnswerTypes ==
    ASSUME TypeOK, NEW r \in Reply, Answer(r)
    PROVE  reply' \in [Caller -> Reply]
  BY DEF Answer, TypeOK

\* Committing a batch keeps the types.
LEMMA AcceptTypes ==
    ASSUME TypeOK, Accept
    PROVE  TypeOK'
  <1> DEFINE b == queue[1].batch
  <1>1. b \in Batch /\ queue' \in Seq(Item)
    BY NextBatchTypes DEF Accept
  <1>2. log' \in Seq(Commit) /\ Len(log') = Len(log) + 1
    BY <1>1, TransactionType, AppendProperties DEF Accept, TypeOK
  <1>3. synced' \in 0..Len(log') /\ sync' \in {"full", "off"}
    BY <1>2 DEF Accept, Synced, SyncFor, TypeOK
  <1>4. seq' \in Nat /\ high' \in Nat /\ ids' \in Nat
    <2>1. b.id \in Nat
      BY <1>1 DEF Batch
    <2>2. seq' = seq + 1 /\ high' = HighWater(b) /\ ids' = Largest({b.id}, ids)
      BY DEF Accept
    <2>3. HighWater(b) \in Nat
      BY <1>1, TransactionType
    <2>4. seq \in Nat /\ ids \in Nat
      BY DEF TypeOK
    <2> HIDE DEF b
    <2>5. Largest({b.id}, ids) \in Nat
      BY <2>1, <2>4, LargestOfTwo
    <2> QED
      BY <2>2, <2>3, <2>4, <2>5
  <1>5. [result |-> "ok", seq |-> seq + 1, batch |-> b] \in Reply
    BY <1>1 DEF Reply, TypeOK
  <1>6. reply' \in [Caller -> Reply]
    BY <1>5, AnswerTypes DEF Accept
  <1>7. answered' \subseteq Row /\ \A s \in answered' : s.key # NoKey
    BY DEF Accept, Forget, TypeOK
  <1> HIDE DEF b
  <1> QED
    BY <1>1, <1>2, <1>3, <1>4, <1>6, <1>7 DEF Accept, TypeOK, line

\* Rolling back a rejected batch keeps the types.
LEMMA RejectTypes ==
    ASSUME TypeOK, Reject
    PROVE  TypeOK'
  <1>1. queue' \in Seq(Item)
    BY NextBatchTypes DEF Reject
  <1>2. reply' \in [Caller -> Reply]
    BY AnswerTypes DEF Reject, Reply
  <1> QED
    BY <1>1, <1>2 DEF Reject, SyncFor, TypeOK, durable, line, history

\* An engine error keeps the types, whether or not COMMIT got through.
LEMMA FaultTypes ==
    ASSUME TypeOK, Fault
    PROVE  TypeOK'
  <1> DEFINE b == queue[1].batch
  <1>1. b \in Batch /\ queue' \in Seq(Item)
    BY NextBatchTypes DEF Fault
  <1>2. reply' \in [Caller -> Reply]
    BY AnswerTypes DEF Fault, Reply
  <1>3. sync' \in {"full", "off"}
    BY DEF Fault, SyncFor, TypeOK
  <1>4. /\ log' \in Seq(Commit) /\ synced' \in 0..Len(log')
        /\ answered' \subseteq Row /\ \A s \in answered' : s.key # NoKey
    <2>1. CASE UNCHANGED <<durable, answered>>
      BY <2>1 DEF durable, TypeOK
    <2>2. CASE /\ log' = Append(log, Transaction(b))
               /\ synced' \in {synced, Synced(b)}
               /\ answered' = Forget(b)
      BY <2>2, <1>1, TransactionType, AppendProperties, SMTT(30) DEF Synced, Forget, TypeOK
    <2> QED
      BY <2>1, <2>2 DEF Fault
  <1> HIDE DEF b
  <1> QED
    BY <1>1, <1>2, <1>3, <1>4 DEF Fault, TypeOK, line

\* Refusing every request after a failure keeps the types.
LEMMA RefuseAfterFailureTypes ==
    ASSUME TypeOK, RefuseAfterFailure
    PROVE  TypeOK'
  <1>1. queue' \in Seq(Item)
    BY NextBatchTypes DEF RefuseAfterFailure
  <1>2. reply' \in [Caller -> Reply]
    BY AnswerTypes DEF RefuseAfterFailure, Reply
  <1> QED
    BY <1>1, <1>2 DEF RefuseAfterFailure, TypeOK, durable, line, history

\* A process that goes down keeps the types, if the database does.
LEMMA DownTypes ==
    ASSUME TypeOK, Down, log' \in Seq(Commit), synced' \in 0..Len(log'),
           crashes' \in 0..MaxCrashes, answered' \in {answered, {}}
    PROVE  TypeOK'
  <1>1. /\ queue' \in Seq(Item) /\ gate' \in Seq(Caller \cup {Closer})
        /\ published' \in Seq(Publication)
    BY EmptySeq DEF Down
  <1>2. reply' \in [Caller -> Reply] /\ request' \in [Caller -> Request]
        /\ stage' \in [Caller -> {"idle", "queued", "sent"}]
    BY NoTypes DEF Down
  <1> QED
    BY <1>1, <1>2 DEF Down, TypeOK

\* A power loss leaves a prefix of the log, no shorter than what was synced.
LEMMA PowerLossLog ==
    ASSUME TypeOK, PowerLoss
    PROVE  \E kept \in synced..Len(log) :
             /\ log' \in Seq(Commit) /\ Len(log') = kept /\ synced' = kept
             /\ \A i \in 1..kept : log'[i] = log[i]
  <1>1. PICK kept \in synced..Len(log) : log' = SubSeq(log, 1, kept) /\ synced' = kept
    BY DEF PowerLoss
  <1>2. kept \in Nat /\ kept <= Len(log)
    BY DEF TypeOK
  <1>3. \A i \in 1..kept : log[i] \in Commit
    BY <1>2, ElementOfSeq DEF TypeOK
  <1>4. /\ SubSeq(log, 1, kept) \in Seq(Commit)
        /\ Len(SubSeq(log, 1, kept)) = kept
        /\ \A i \in 1..kept : SubSeq(log, 1, kept)[i] = log[i]
    BY <1>2, <1>3, SubSeqProperties
  <1> QED
    BY <1>1, <1>4

\* A close, a crash and a power loss keep the types.
LEMMA CrashTypes ==
    ASSUME TypeOK, Closed \/ Crash \/ PowerLoss
    PROVE  TypeOK'
  <1>1. CASE Closed
    BY <1>1, DownTypes DEF Closed, durable, TypeOK
  <1>2. CASE Crash
    <2>1. crashes' \in 0..MaxCrashes
      BY <1>2, BoundsAssumption DEF Crash, TypeOK
    <2> QED
      BY <1>2, <2>1, DownTypes DEF Crash, durable, TypeOK
  <1>3. CASE PowerLoss
    <2>1. log' \in Seq(Commit) /\ synced' \in 0..Len(log')
      BY <1>3, PowerLossLog DEF TypeOK
    <2>2. crashes' \in 0..MaxCrashes
      BY <1>3, BoundsAssumption DEF PowerLoss, TypeOK
    <2> QED
      BY <1>3, <2>1, <2>2, DownTypes DEF PowerLoss
  <1> QED
    BY <1>1, <1>2, <1>3

-----------------------------------------------------------------------------
(* The inductive invariant. *)

\* At most one batch has a caller waiting for it: the last of the queue, or the
\* one just answered.
OneInFlight ==
    /\ \A i \in DOMAIN queue : i < Len(queue) => queue[i].from = Nobody
    /\ queue # <<>> => queue[Len(queue)].from \in {Nobody, holder}
    /\ \A c \in Caller : reply[c].result # "none" => holder = c /\ queue = <<>>

\* Nothing of the process is left while it is down.
DownIsEmpty ==
    ~up => /\ queue = <<>> /\ published = <<>> /\ ~failed
           /\ \A c \in Caller : reply[c].result = "none"

\* Commits are numbered by their place, and the writer is at the end.
Numbered ==
    /\ \A i \in DOMAIN log : log[i].seq = i
    /\ up /\ ~failed => seq = Len(log)
    /\ up => opened <= Len(log)

\* What a waiting caller will be told is in the log, later than what was
\* promised or published, and safe if it is structural.
AnswersStand ==
    /\ promised <= synced
    /\ \A c \in Caller : reply[c].result = "ok" =>
          /\ reply[c].seq \in (opened + 1)..Len(log)
          /\ promised < reply[c].seq
          /\ Structural(reply[c].batch) => reply[c].seq <= synced
          /\ log[reply[c].seq].id = reply[c].batch.id
          /\ \A i \in DOMAIN published : published[i].seq < reply[c].seq

\* A bound on every ID that was ever written, in the row that survives.
HighWaterHolds ==
    /\ \A i, j \in DOMAIN log : j <= i => log[j].id <= log[i].high
    /\ \A i \in DOMAIN log : \A s \in log[i].rows : s.id <= log[i].high
    /\ up /\ ~failed => Database(log).high <= high
    /\ up => \A i \in DOMAIN log : log[i].id <= ids

\* The IDs that batches on their way carry.
Submits(i) == queue[i].from # Closer /\ queue[i].batch.op = "submit"
FreshIds ==
    /\ \A i \in DOMAIN queue : Submits(i) => queue[i].batch.id <= ids
    /\ \A i, j \in DOMAIN queue :
          Submits(i) /\ Submits(j) /\ i # j => queue[i].batch.id # queue[j].batch.id
    /\ \A i \in DOMAIN queue, j \in DOMAIN log :
          Submits(i) /\ log[j].op = "submit" => queue[i].batch.id # log[j].id
    /\ \A i \in DOMAIN queue : queue[i].from # Closer /\ queue[i].batch.key # NoKey => Submits(i)
    /\ \A i \in DOMAIN queue : queue[i].from # Closer /\ ~Submits(i) => queue[i].batch.id = 0

\* A key has one row, and what callers were told is that row.
KeyHolds ==
    /\ \A i \in DOMAIN log : \A s, t \in log[i].rows : s.key = t.key /\ s.key # NoKey => s = t
    /\ answered \subseteq Database(log).rows
    /\ \A c \in Caller : reply[c].result = "ok" => Told(reply[c].batch) \subseteq Database(log).rows

IInv ==
    /\ TypeOK /\ OneInFlight /\ DownIsEmpty /\ Numbered /\ AnswersStand
    /\ PublishedInOrder /\ HighWaterHolds /\ IdsNeverReused /\ FreshIds /\ KeyHolds

\* The counter a line opens with is a natural not below the stored mark.
LEMMA FirstIdFacts ==
    ASSUME TypeOK, HighWaterHolds
    PROVE  /\ FirstId(log) \in Nat
           /\ Database(log).high <= FirstId(log)
  <1> DEFINE h == Database(log).high
             S == TableIds(log) \cup {h} \cup {1}
  <1>1. h \in Nat
    BY DatabaseType DEF TypeOK
  <1>2. \A n \in TableIds(log) : n \in Nat /\ n <= h
    <2>1. CASE log = <<>>
      BY <2>1 DEF TableIds, Database, EmptyDatabase
    <2>2. CASE log # <<>>
      <3>1. Len(log) \in DOMAIN log
        BY <2>2, EmptySeq DEF TypeOK
      <3>2. Database(log) = log[Len(log)]
        BY <2>2 DEF Database
      <3>3. \A s \in Database(log).rows : s.id \in Nat
        BY DatabaseType DEF TypeOK, Row
      <3> QED
        BY <3>1, <3>2, <3>3 DEF TableIds, HighWaterHolds
    <2> QED
      BY <2>1, <2>2
  <1> HIDE DEF h
  <1>3. \E m \in S : \A n \in S : n <= m
    <2>1. CASE h <= 1
      BY <1>1, <1>2, <2>1
    <2>2. CASE 1 <= h
      BY <1>1, <1>2, <2>2
    <2> QED
      BY <1>1, <2>1, <2>2
  <1>4. FirstId(log) = CHOOSE m \in S : \A n \in S : n <= m
    BY DEF FirstId, Largest, h
  <1>5. FirstId(log) \in S /\ \A n \in S : n <= FirstId(log)
    BY <1>3, <1>4
  <1> QED
    BY <1>1, <1>2, <1>5 DEF h

\* Every step keeps the types, given that the stored mark bounds the IDs.
LEMMA TypesKept == TypeOK /\ HighWaterHolds /\ [Next]_vars => TypeOK'
  <1> SUFFICES ASSUME TypeOK, HighWaterHolds, [Next]_vars PROVE TypeOK'
    OBVIOUS
  <1>1. ASSUME NEW c \in Caller, NEW r \in Request, Ask(c, r) PROVE TypeOK'
    BY <1>1, AskTypes
  <1>2. ASSUME NEW c \in Caller, Turn(c) PROVE TypeOK'
    BY <1>2, RefuseTypes, AnswerKnownTypes, SendTypes, SendRefusedTypes DEF Turn
  <1>3. ASSUME NEW c \in Caller, Settle(c) \/ Drop(c) PROVE TypeOK'
    BY <1>3, SettleOkTypes, SettleErrorTypes, DropQueuedTypes, DropHolderTypes DEF Settle, Drop
  <1>4. CASE Seal \/ Close \/ CloseStorage
    BY <1>4, SealTypes, CloseTypes, CloseStorageTypes
  <1>5. CASE Write
    BY <1>5, AcceptTypes, RejectTypes, FaultTypes, RefuseAfterFailureTypes, CrashTypes DEF Write
  <1>6. CASE Crash \/ PowerLoss
    BY <1>6, CrashTypes
  <1>7. CASE Open
    <2>1. Database(log).high \in Nat /\ Database(log).seq \in Nat
      BY DatabaseType DEF TypeOK
    <2> QED
      BY <1>7, <2>1, FirstIdFacts DEF Open, TypeOK, durable, line
  <1>8. CASE UNCHANGED vars
    BY <1>8 DEF vars, durable, store, line, history, TypeOK
  <1> QED
    BY <1>1, <1>2, <1>3, <1>4, <1>5, <1>6, <1>7, <1>8 DEF Next

-----------------------------------------------------------------------------
(* Every step keeps the inductive invariant.                               *)

\* What indexing a log, a queue or the published commits gives.
LEMMA Elements ==
    ASSUME TypeOK
    PROVE  /\ Len(log) \in Nat /\ DOMAIN log = 1..Len(log)
           /\ \A i \in DOMAIN log : log[i] \in Commit /\ log[i].id \in Nat
           /\ Len(queue) \in Nat /\ DOMAIN queue = 1..Len(queue)
           /\ \A i \in DOMAIN queue :
                 /\ queue[i] \in Item
                 /\ queue[i].from # Closer => queue[i].batch \in Batch
           /\ Len(published) \in Nat /\ DOMAIN published = 1..Len(published)
           /\ \A i \in DOMAIN published : published[i] \in Publication /\ published[i].seq \in Nat
           /\ \A c \in Caller : reply[c] \in Reply
  <1>1. log \in Seq(Commit) /\ queue \in Seq(Item) /\ published \in Seq(Publication)
        /\ reply \in [Caller -> Reply]
    BY DEF TypeOK
  <1>2. /\ Len(log) \in Nat /\ DOMAIN log = 1..Len(log)
        /\ Len(queue) \in Nat /\ DOMAIN queue = 1..Len(queue)
        /\ Len(published) \in Nat /\ DOMAIN published = 1..Len(published)
    BY <1>1, LenProperties
  <1>3. \A i \in DOMAIN log : log[i] \in Commit
    BY <1>1, <1>2, ElementOfSeq
  <1>4. \A i \in DOMAIN queue : queue[i] \in Item
    BY <1>1, <1>2, ElementOfSeq
  <1>5. \A i \in DOMAIN published : published[i] \in Publication
    BY <1>1, <1>2, ElementOfSeq
  <1>6. \A i \in DOMAIN log : log[i].id \in Nat
    BY <1>3 DEF Commit
  <1>7. \A i \in DOMAIN queue : queue[i].from # Closer => queue[i].batch \in Batch
    BY <1>4 DEF Item
  <1>8. \A i \in DOMAIN published : published[i].seq \in Nat
    BY <1>5 DEF Publication
  <1> QED
    BY <1>1, <1>2, <1>3, <1>4, <1>5, <1>6, <1>7, <1>8

\* The conjuncts of the invariant besides the types.
Rest ==
    /\ OneInFlight /\ DownIsEmpty /\ Numbered /\ AnswersStand /\ PublishedInOrder
    /\ HighWaterHolds /\ IdsNeverReused /\ FreshIds /\ KeyHolds

\* Steps that neither write, publish, answer nor move a batch.
Quiet ==
    /\ UNCHANGED <<log, synced, up, seq, high, failed, queue, reply, holder,
                   published, opened, promised>>
    /\ ids' \in {ids, ids + 1}
    /\ answered' \subseteq answered \cup Database(log).rows

\* A step that leaves log, queue and replies alone keeps the invariant.
LEMMA QuietKeeps ==
    ASSUME IInv, Quiet
    PROVE  Rest'
  <1> USE DEF IInv, Quiet
  <1>1. OneInFlight' /\ DownIsEmpty' /\ Numbered' /\ PublishedInOrder' /\ IdsNeverReused'
    BY DEF OneInFlight, DownIsEmpty, Numbered, PublishedInOrder, IdsNeverReused
  <1>2. AnswersStand'
    BY DEF AnswersStand, Structural
  <1>3. HighWaterHolds'
    <2>1. Database(log)' = Database(log)
      BY DEF Database
    <2>2. \A i \in DOMAIN log : log[i].id \in Nat
      BY Elements
    <2>3. ids \in Nat
      BY DEF TypeOK
    <2> QED
      BY <2>1, <2>2, <2>3 DEF HighWaterHolds
  <1>4. FreshIds'
    <2>1. \A i \in DOMAIN queue : queue[i].from # Closer => queue[i].batch.id \in Nat
      BY Elements DEF Batch
    <2>2. ids \in Nat
      BY DEF TypeOK
    <2> QED
      BY <2>1, <2>2 DEF FreshIds, Submits
  <1>5. KeyHolds'
    BY DEF KeyHolds, Database, Told
  <1> QED
    BY <1>1, <1>2, <1>3, <1>4, <1>5 DEF Rest

\* The steps at the gate, the known key and the seal are quiet.
LEMMA GateKeeps ==
    ASSUME IInv, NEW c \in Caller,
           \/ \E r \in Request : Ask(c, r)
           \/ Refuse(c) \/ AnswerKnown(c) \/ SendRefused(c) \/ DropQueued(c)
           \/ Seal \/ Close
    PROVE  Rest'
  <1>1. Quiet
    <2>1. CASE \E r \in Request : Ask(c, r)
      BY <2>1 DEF Ask, Quiet, durable, store, history
    <2>2. CASE Refuse(c)
      BY <2>2 DEF Refuse, Quiet, durable, store, history
    <2>3. CASE AnswerKnown(c)
      BY <2>3 DEF AnswerKnown, Found, Quiet, durable, store
    <2>4. CASE SendRefused(c)
      BY <2>4 DEF SendRefused, Mint, Quiet, durable, history
    <2>5. CASE DropQueued(c)
      BY <2>5 DEF DropQueued, Quiet, durable, store, history
    <2>6. CASE Seal \/ Close
      BY <2>6 DEF Seal, Close, Quiet, durable, store, history
    <2> QED
      BY <2>1, <2>2, <2>3, <2>4, <2>5, <2>6
  <1> QED
    BY <1>1, QuietKeeps

\* Sending a batch: everything before it in the queue has nobody waiting.
LEMMA SendKeeps ==
    ASSUME IInv, NEW c \in Caller, Send(c)
    PROVE  Rest'
  <1> DEFINE item == [from |-> c, batch |-> Staged(c)]
  <1>0. PICK n \in Nat : n = Len(queue)
    BY Elements DEF IInv
  <1>1. /\ queue' = Append(queue, item) /\ holder = Nobody /\ holder' = c
        /\ UNCHANGED <<log, synced, up, seq, high, failed, reply, published, opened,
                       promised, answered>>
        /\ up
    BY DEF Send, Take, durable, history
  <1>2. item \in Item /\ Staged(c) \in Batch
    BY StagedType DEF IInv, Item
  <1>3. /\ n \in Nat /\ DOMAIN queue = 1..n /\ Len(queue') = n + 1 /\ DOMAIN queue' = 1..(n + 1)
        /\ \A i \in 1..n : queue'[i] = queue[i]
        /\ queue'[n + 1] = item
    <2>1. queue \in Seq(Item)
      BY DEF IInv, TypeOK
    <2>2. Append(queue, item) \in Seq(Item)
      BY <1>2, <2>1, AppendProperties
    <2> QED
      BY <1>0, <1>1, <1>2, <2>1, <2>2, AppendProperties
  <1>4. /\ ids \in Nat /\ ids' \in Nat /\ ids <= ids'
        /\ Staged(c).op = "submit" => Staged(c).id = ids + 1 /\ ids' = ids + 1
        /\ Staged(c).op # "submit" => Staged(c).id = 0 /\ Staged(c).key = NoKey
    <2>1. request[c] \in Request /\ ids \in Nat
      BY DEF IInv, TypeOK
    <2> QED
      BY <2>1 DEF Send, Mint, Staged, Request
  <1> HIDE DEF item
  <1>5. OneInFlight'
    <2>1. \A i \in 1..n : queue[i].from = Nobody
      BY <1>0, <1>1, <1>3 DEF IInv, OneInFlight
    <2>2. \A d \in Caller : reply[d].result = "none"
      BY <1>1, NamesAssumption DEF IInv, OneInFlight
    <2> QED
      BY <1>1, <1>3, <2>1, <2>2 DEF OneInFlight, item
  <1>6. DownIsEmpty' /\ Numbered' /\ PublishedInOrder' /\ IdsNeverReused'
    BY <1>1 DEF IInv, DownIsEmpty, Numbered, PublishedInOrder, IdsNeverReused
  <1>7. AnswersStand'
    BY <1>1 DEF IInv, AnswersStand, Structural
  <1>8. HighWaterHolds'
    <2>1. Database(log)' = Database(log)
      BY <1>1 DEF Database
    <2>2. \A i \in DOMAIN log : log[i].id \in Nat
      BY Elements DEF IInv
    <2> QED
      BY <1>1, <1>4, <2>1, <2>2 DEF IInv, HighWaterHolds
  <1>9. FreshIds'
    <2>1. \A i \in 1..n : queue[i].from # Closer => queue[i].batch.id \in Nat
      BY <1>3, Elements DEF IInv, Batch
    <2>2. \A i \in DOMAIN log : log[i].id \in Nat /\ log[i].id <= ids
      BY <1>1, Elements DEF IInv, HighWaterHolds
    <2>3. \A i \in 1..n : Submits(i)' <=> Submits(i)
      BY <1>3 DEF Submits
    <2>0. queue'[n + 1].from # Closer /\ queue'[n + 1].batch = Staged(c)
      BY <1>3, NamesAssumption DEF item
    <2>4. Submits(n + 1)' <=> Staged(c).op = "submit"
      BY <2>0 DEF Submits
    <2>5. \A i \in 1..n : Submits(i) => queue[i].batch.id <= ids
      BY <1>3 DEF IInv, FreshIds
    <2>6. \A i \in DOMAIN queue' : Submits(i)' => queue'[i].batch.id <= ids'
      BY <1>3, <1>4, <2>0, <2>1, <2>3, <2>4, <2>5 DEF Submits
    <2>7. \A i, j \in DOMAIN queue' :
            Submits(i)' /\ Submits(j)' /\ i # j => queue'[i].batch.id # queue'[j].batch.id
      <3> TAKE i, j \in DOMAIN queue'
      <3>1. CASE i \in 1..n /\ j \in 1..n
        BY <1>3, <2>3, <3>1 DEF IInv, FreshIds
      <3>2. CASE i = n + 1 /\ j \in 1..n
        BY <1>3, <1>4, <2>0, <2>1, <2>3, <2>4, <2>5, <3>2
      <3>3. CASE i \in 1..n /\ j = n + 1
        BY <1>3, <1>4, <2>0, <2>1, <2>3, <2>4, <2>5, <3>3
      <3> QED
        BY <1>3, <3>1, <3>2, <3>3
    <2>8. \A i \in DOMAIN queue', j \in DOMAIN log' :
            Submits(i)' /\ log'[j].op = "submit" => queue'[i].batch.id # log'[j].id
      <3> TAKE i \in DOMAIN queue', j \in DOMAIN log'
      <3>1. CASE i \in 1..n
        BY <1>1, <1>3, <2>3, <3>1 DEF IInv, FreshIds
      <3>2. CASE i = n + 1
        BY <1>1, <1>3, <1>4, <2>0, <2>2, <2>4, <3>2
      <3> QED
        BY <1>3, <3>1, <3>2
    <2>9. \A i \in DOMAIN queue' :
            queue'[i].from # Closer =>
              /\ queue'[i].batch.key # NoKey => Submits(i)'
              /\ ~Submits(i)' => queue'[i].batch.id = 0
      <3> TAKE i \in DOMAIN queue'
      <3>1. CASE i \in 1..n
        BY <1>3, <2>3, <3>1 DEF IInv, FreshIds
      <3>2. CASE i = n + 1
        BY <1>3, <1>4, <2>0, <2>4, <3>2
      <3> QED
        BY <1>3, <3>1, <3>2
    <2> QED
      BY <2>6, <2>7, <2>8, <2>9 DEF FreshIds
  <1>10. KeyHolds'
    BY <1>1 DEF IInv, KeyHolds, Database, Told
  <1> QED
    BY <1>5, <1>6, <1>7, <1>8, <1>9, <1>10 DEF Rest

\* The close request takes the last place of the queue and carries no batch.
LEMMA CloseStorageKeeps ==
    ASSUME IInv, CloseStorage
    PROVE  Rest'
  <1> DEFINE item == [from |-> Closer]
  <1>0. PICK n \in Nat : n = Len(queue)
    BY Elements DEF IInv
  <1>1. /\ queue' = Append(queue, item) /\ holder = Nobody /\ holder' = Closer
        /\ UNCHANGED <<log, synced, up, ids, seq, high, failed, reply, published, opened,
                       promised, answered>>
        /\ up
    BY DEF CloseStorage, Take, durable, history
  <1>2. item \in Item
    BY DEF Item
  <1>3. /\ DOMAIN queue = 1..n /\ Len(queue') = n + 1 /\ DOMAIN queue' = 1..(n + 1)
        /\ \A i \in 1..n : queue'[i] = queue[i]
        /\ queue'[n + 1].from = Closer
    <2>1. queue \in Seq(Item)
      BY DEF IInv, TypeOK
    <2>2. Append(queue, item) \in Seq(Item)
      BY <1>2, <2>1, AppendProperties
    <2> QED
      BY <1>0, <1>1, <1>2, <2>1, <2>2, AppendProperties
  <1> HIDE DEF item
  <1>4. OneInFlight'
    <2>1. \A i \in 1..n : queue[i].from = Nobody
      BY <1>0, <1>1, <1>3 DEF IInv, OneInFlight
    <2>2. \A d \in Caller : reply[d].result = "none"
      BY <1>1, NamesAssumption DEF IInv, OneInFlight
    <2> QED
      BY <1>1, <1>3, <2>1, <2>2 DEF OneInFlight
  <1>5. DownIsEmpty' /\ Numbered' /\ PublishedInOrder' /\ IdsNeverReused'
    BY <1>1 DEF IInv, DownIsEmpty, Numbered, PublishedInOrder, IdsNeverReused
  <1>6. AnswersStand'
    BY <1>1 DEF IInv, AnswersStand, Structural
  <1>7. HighWaterHolds' /\ KeyHolds'
    BY <1>1 DEF IInv, HighWaterHolds, KeyHolds, Database, Told
  <1>8. FreshIds'
    <2>1. \A i \in DOMAIN queue' : queue'[i].from # Closer =>
            i \in DOMAIN queue /\ queue'[i] = queue[i]
      BY <1>3
    <2> QED
      BY <1>1, <2>1 DEF IInv, FreshIds, Submits
  <1> QED
    BY <1>4, <1>5, <1>6, <1>7, <1>8 DEF Rest

\* When its caller settles, nothing is queued and no other answer waits.
LEMMA OneAnswered ==
    ASSUME IInv, NEW c \in Caller, Leave(c)
    PROVE  /\ queue = <<>>
           /\ \A d \in Caller : reply'[d].result = "none"
  <1>1. queue = <<>> /\ \A d \in Caller : reply[d].result # "none" => d = c
    BY DEF IInv, OneInFlight, Leave
  <1> QED
    BY <1>1 DEF Leave, NoReply, IInv, TypeOK

\* What the caller is told was committed after all that was published.
LEMMA SettleOkKeeps ==
    ASSUME IInv, NEW c \in Caller, SettleOk(c)
    PROVE  Rest'
  <1> DEFINE n == reply[c].seq
             b == reply[c].batch
  <1>1. /\ UNCHANGED <<log, synced, up, ids, seq, high, failed, queue, opened>>
        /\ up /\ Leave(c) /\ reply[c].result = "ok" /\ holder' = Nobody
        /\ published' = Append(published, [seq |-> n, batch |-> b])
        /\ promised' = IF Structural(b) THEN n ELSE promised
        /\ answered' = answered \cup Told(b)
    BY DEF SettleOk, Leave, Publish, durable
  <1>2. queue = <<>> /\ \A d \in Caller : reply'[d].result = "none"
    BY <1>1, OneAnswered
  <1>3. /\ n \in (opened + 1)..Len(log)
        /\ Structural(b) => n <= synced
        /\ log[n].id = b.id
        /\ \A i \in DOMAIN published : published[i].seq < n
    BY <1>1 DEF IInv, AnswersStand
  <1>4. n \in Nat /\ b \in Batch
    <2>1. reply[c] \in Reply
      BY Elements DEF IInv
    <2> QED
      BY <1>1, <2>1 DEF Reply
  <1>5. OneInFlight'
    BY <1>1, <1>2 DEF OneInFlight
  <1>6. DownIsEmpty' /\ Numbered' /\ HighWaterHolds' /\ IdsNeverReused'
    BY <1>1, <1>2 DEF IInv, DownIsEmpty, Numbered, HighWaterHolds, IdsNeverReused, Database
  <1>7. FreshIds'
    BY <1>1, <1>2 DEF FreshIds
  <1>8. AnswersStand'
    BY <1>1, <1>2, <1>3 DEF IInv, AnswersStand
  <1>9. KeyHolds'
    BY <1>1, <1>2 DEF IInv, KeyHolds, Database
  <1>10. PublishedInOrder'
    <2> DEFINE p == [seq |-> n, batch |-> b]
    <2>1. PICK k \in Nat : k = Len(published)
      BY Elements DEF IInv
    <2>2. p \in Publication /\ p.seq = n /\ p.batch.id = b.id
      BY <1>4 DEF Publication
    <2>3. published \in Seq(Publication) /\ DOMAIN published = 1..k
      BY <2>1, Elements DEF IInv, TypeOK
    <2> HIDE DEF p
    <2>4. /\ DOMAIN published' = 1..(k + 1)
          /\ \A i \in 1..k : published'[i] = published[i]
          /\ published'[k + 1] = p
      <3>1. Append(published, p) \in Seq(Publication) /\ Len(Append(published, p)) = k + 1
        BY <2>1, <2>2, <2>3, AppendProperties
      <3>2. published' = Append(published, p)
        BY <1>1 DEF p
      <3> QED
        BY <2>1, <2>2, <2>3, <3>1, <3>2, AppendProperties, LenProperties
    <2> HIDE DEF n, b
    <2>5. \A i, j \in DOMAIN published' : i < j => published'[i].seq < published'[j].seq
      <3> TAKE i, j \in DOMAIN published'
      <3>1. CASE j \in 1..k
        BY <1>1, <2>3, <2>4, <3>1 DEF IInv, PublishedInOrder
      <3>2. CASE j = k + 1
        BY <1>3, <2>2, <2>3, <2>4, <3>2
      <3> QED
        BY <2>4, <3>1, <3>2
    <2>6. \A i \in DOMAIN published' :
            /\ published'[i].seq \in (opened' + 1)..Len(log')
            /\ published'[i].batch.id = log'[published'[i].seq].id
      <3> TAKE i \in DOMAIN published'
      <3>1. CASE i \in 1..k
        BY <1>1, <2>3, <2>4, <3>1 DEF IInv, PublishedInOrder
      <3>2. CASE i = k + 1
        BY <1>1, <1>3, <2>2, <2>4, <3>2
      <3> QED
        BY <2>4, <3>1, <3>2
    <2> QED
      BY <2>5, <2>6 DEF PublishedInOrder
  <1> QED
    BY <1>5, <1>6, <1>7, <1>8, <1>9, <1>10 DEF Rest

\* A failed commit only seals the line.
LEMMA SettleErrorKeeps ==
    ASSUME IInv, NEW c \in Caller, SettleError(c)
    PROVE  Rest'
  <1>1. /\ UNCHANGED <<log, synced, up, ids, seq, high, failed, queue, opened, published,
                       promised, answered>>
        /\ Leave(c)
    BY DEF SettleError, durable, history
  <1>2. queue = <<>> /\ \A d \in Caller : reply'[d].result = "none"
    BY <1>1, OneAnswered
  <1>3. OneInFlight' /\ FreshIds'
    BY <1>1, <1>2 DEF OneInFlight, FreshIds
  <1>4. /\ DownIsEmpty' /\ Numbered' /\ HighWaterHolds' /\ IdsNeverReused'
        /\ PublishedInOrder' /\ AnswersStand'
    BY <1>1, <1>2
       DEF IInv, DownIsEmpty, Numbered, HighWaterHolds, IdsNeverReused, Database,
           PublishedInOrder, AnswersStand
  <1>5. KeyHolds'
    BY <1>1, <1>2 DEF IInv, KeyHolds, Database
  <1> QED
    BY <1>3, <1>4, <1>5 DEF Rest

\* A caller that is gone leaves its batch behind, and the gate free.
LEMMA DropHolderKeeps ==
    ASSUME IInv, NEW c \in Caller, DropHolder(c)
    PROVE  Rest'
  <1>1. /\ UNCHANGED <<log, synced, up, ids, seq, high, failed, opened, published,
                       promised, answered>>
        /\ up /\ holder = c /\ holder' = Nobody
        /\ reply' = [reply EXCEPT ![c] = NoReply]
    BY DEF DropHolder, durable, history
  <1>2. /\ DOMAIN queue' = DOMAIN queue
        /\ \A i \in DOMAIN queue :
              queue'[i] = IF queue[i].from = c THEN [queue[i] EXCEPT !.from = Nobody]
                          ELSE queue[i]
    BY DEF DropHolder
  <1>3. \A i \in DOMAIN queue :
          /\ queue'[i].from = Closer <=> queue[i].from = Closer
          /\ queue[i].from # Closer => queue'[i].batch = queue[i].batch
          /\ queue'[i].from = IF queue[i].from = c THEN Nobody ELSE queue[i].from
    <2> TAKE i \in DOMAIN queue
    <2>1. queue[i] \in Item
      BY Elements DEF IInv
    <2>2. CASE queue[i].from = c
      BY <1>2, <2>1, <2>2, NamesAssumption DEF Item
    <2>3. CASE queue[i].from # c
      BY <1>2, <2>3
    <2> QED
      BY <2>2, <2>3
  <1>4. Len(queue') = Len(queue) /\ DOMAIN queue = 1..Len(queue) /\ Len(queue) \in Nat
        /\ (queue' = <<>> <=> queue = <<>>)
    <2>1. queue' \in Seq(Item) /\ queue \in Seq(Item)
      BY DropHolderTypes DEF IInv, TypeOK
    <2> QED
      BY <1>2, <2>1, LenProperties, EmptySeq
  <1>5. \A d \in Caller : reply'[d].result = "none"
    BY <1>1 DEF IInv, OneInFlight, NoReply, TypeOK
  <1>6. OneInFlight'
    <2>1. \A i \in DOMAIN queue' : queue'[i].from = Nobody
      <3> TAKE i \in DOMAIN queue'
      <3>1. queue[i].from \in {Nobody, c}
        <4>1. CASE i < Len(queue)
          BY <1>2, <4>1 DEF IInv, OneInFlight
        <4>2. CASE i = Len(queue)
          <5>1. queue # <<>>
            BY <1>2, <1>4, <4>2, EmptySeq
          <5> QED
            BY <1>1, <4>2, <5>1 DEF IInv, OneInFlight
        <4> QED
          BY <1>2, <1>4, <4>1, <4>2
      <3> QED
        BY <1>2, <1>3, <3>1
    <2>2. queue' # <<>> => Len(queue') \in DOMAIN queue'
      BY <1>2, <1>4, EmptySeq DEF IInv, TypeOK
    <2> QED
      BY <1>5, <2>1, <2>2 DEF OneInFlight
  <1>7. /\ DownIsEmpty' /\ Numbered' /\ HighWaterHolds' /\ IdsNeverReused'
        /\ PublishedInOrder' /\ AnswersStand'
    BY <1>1, <1>5
       DEF IInv, DownIsEmpty, Numbered, HighWaterHolds, IdsNeverReused, Database,
           PublishedInOrder, AnswersStand
  <1>8. FreshIds'
    <2>1. \A i \in DOMAIN queue : Submits(i)' <=> Submits(i)
      BY <1>3 DEF Submits
    <2>2. \A i \in DOMAIN queue : queue[i].from # Closer => queue'[i].batch = queue[i].batch
      BY <1>3
    <2>3. \A i \in DOMAIN queue : Submits(i) => queue[i].from # Closer
      BY DEF Submits
    <2> QED
      BY <1>1, <1>2, <1>3, <2>1, <2>2, <2>3 DEF IInv, FreshIds
  <1>9. KeyHolds'
    BY <1>1, <1>5 DEF IInv, KeyHolds, Database
  <1> QED
    BY <1>6, <1>7, <1>8, <1>9 DEF Rest

-----------------------------------------------------------------------------
(* The store's line *)

\* What the writer takes is at the front; only the last of the queue has a
\* caller who waits.
LEMMA Taken ==
    ASSUME IInv, NextBatch
    PROVE  /\ Len(queue) \in Nat /\ Len(queue) >= 1
           /\ Len(queue') = Len(queue) - 1
           /\ DOMAIN queue' = 1..(Len(queue) - 1)
           /\ \A i \in DOMAIN queue' : i + 1 \in DOMAIN queue /\ queue'[i] = queue[i + 1]
           /\ 1 \in DOMAIN queue /\ queue[1].from # Closer /\ queue[1].batch \in Batch
           /\ queue[1].from \in Caller \cup {Nobody}
           /\ queue[1].from \in Caller => holder = queue[1].from /\ queue' = <<>>
           /\ \A c \in Caller : reply[c].result = "none"
  <1>1. PICK n \in Nat : n = Len(queue)
    BY Elements DEF IInv
  <1>2. queue \in Seq(Item) /\ queue # <<>> /\ queue' = Tail(queue) /\ DOMAIN queue = 1..n
    BY <1>1, Elements DEF NextBatch, IInv, TypeOK
  <1>3. n >= 1
    BY <1>1, <1>2, EmptySeq
  <1>4. /\ queue' \in Seq(Item) /\ Len(queue') = n - 1
        /\ \A i \in 1..(n - 1) : queue'[i] = queue[i + 1]
    BY <1>1, <1>2, HeadTailProperties
  <1>5. DOMAIN queue' = 1..(n - 1)
    BY <1>4, LenProperties
  <1>6. queue[1].from # Closer /\ queue[1].batch \in Batch /\ queue[1].from \in Caller \cup {Nobody}
    BY NextBatchTypes DEF IInv, NextBatch
  <1>7. queue[1].from \in Caller => holder = queue[1].from /\ queue' = <<>>
    <2> SUFFICES ASSUME queue[1].from \in Caller PROVE holder = queue[1].from /\ queue' = <<>>
      OBVIOUS
    <2>1. queue[1].from # Nobody
      BY NamesAssumption
    <2>2. n = 1
      BY <1>1, <1>2, <1>3, <2>1 DEF IInv, OneInFlight
    <2> QED
      BY <1>1, <1>2, <1>4, <2>1, <2>2, EmptySeq DEF IInv, OneInFlight
  <1>8. \A c \in Caller : reply[c].result = "none"
    BY <1>2 DEF IInv, OneInFlight
  <1> QED
    BY <1>1, <1>2, <1>3, <1>4, <1>5, <1>6, <1>7, <1>8

\* Its answer goes to that caller, or to nobody.
LEMMA Answered ==
    ASSUME IInv, NextBatch, NEW r \in Reply, Answer(r), holder' = holder
    PROVE  /\ OneInFlight'
           /\ \A c \in Caller : reply'[c].result # "none" => reply'[c] = r
  <1>1. \A c \in Caller :
          reply'[c].result # "none" => reply'[c] = r /\ holder' = c /\ queue' = <<>>
    BY Taken DEF Answer, IInv, TypeOK
  <1>2. \A i \in DOMAIN queue' : i < Len(queue') => queue'[i].from = Nobody
    BY Taken DEF IInv, OneInFlight
  <1>3. queue' # <<>> => queue'[Len(queue')].from \in {Nobody, holder'}
    <2> SUFFICES ASSUME queue' # <<>> PROVE queue'[Len(queue')].from \in {Nobody, holder'}
      OBVIOUS
    <2>0. queue' \in Seq(Item)
      BY NextBatchTypes DEF IInv
    <2>1. Len(queue') \in DOMAIN queue'
      BY <2>0, EmptySeq
    <2>2. queue'[Len(queue')] = queue[Len(queue)]
      BY <2>1, Taken
    <2> QED
      BY <2>2, Taken DEF IInv, OneInFlight, NextBatch
  <1> QED
    BY <1>1, <1>2, <1>3 DEF OneInFlight

\* Taking a batch keeps the IDs on their way apart, whether or not it is written.
LEMMA TakenFresh ==
    ASSUME IInv, NextBatch, ids' \in Nat, ids <= ids',
           \/ log' = log
           \/ log' = Append(log, Transaction(queue[1].batch))
    PROVE  FreshIds'
  <1> DEFINE b == queue[1].batch
  <1>1. \A i \in DOMAIN queue' :
          /\ i + 1 \in DOMAIN queue /\ i + 1 # 1
          /\ queue'[i] = queue[i + 1] /\ (Submits(i)' <=> Submits(i + 1))
    BY Taken DEF Submits
  <1>2. \A i \in DOMAIN queue : queue[i].from # Closer => queue[i].batch.id \in Nat
    BY Elements DEF IInv, Batch
  <1>3. \A i \in DOMAIN queue' : Submits(i)' => queue'[i].batch.id <= ids'
    <2> TAKE i \in DOMAIN queue'
    <2> HAVE Submits(i)'
    <2>1. queue[i + 1].batch.id <= ids /\ queue[i + 1].batch.id \in Nat /\ ids \in Nat
      BY <1>1, <1>2 DEF IInv, FreshIds, TypeOK, Submits
    <2> QED
      BY <1>1, <2>1
  <1>4. \A i, j \in DOMAIN queue' :
          Submits(i)' /\ Submits(j)' /\ i # j => queue'[i].batch.id # queue'[j].batch.id
    <2> TAKE i, j \in DOMAIN queue'
    <2> HAVE Submits(i)' /\ Submits(j)' /\ i # j
    <2>1. i + 1 # j + 1
      BY Taken
    <2> QED
      BY <1>1, <2>1 DEF IInv, FreshIds
  <1>5. \A i \in DOMAIN queue', j \in DOMAIN log' :
          Submits(i)' /\ log'[j].op = "submit" => queue'[i].batch.id # log'[j].id
    <2> TAKE i \in DOMAIN queue', j \in DOMAIN log'
    <2> HAVE Submits(i)' /\ log'[j].op = "submit"
    <2>1. CASE j \in DOMAIN log /\ log'[j] = log[j]
      BY <1>1, <2>1 DEF IInv, FreshIds
    <2>2. CASE log'[j] = Transaction(b)
      <3>1. b.op = "submit" /\ log'[j].id = b.id
        BY <2>2 DEF Transaction
      <3>2. Submits(1) /\ 1 \in DOMAIN queue
        BY <3>1, Taken DEF Submits
      <3> QED
        BY <1>1, <3>1, <3>2 DEF IInv, FreshIds
    <2>3. (j \in DOMAIN log /\ log'[j] = log[j]) \/ log'[j] = Transaction(b)
      <3>1. CASE log' = log
        BY <3>1
      <3>2. CASE log' = Append(log, Transaction(b))
        <4>1. Transaction(b) \in Commit /\ log \in Seq(Commit)
          BY Taken, TransactionType DEF IInv, TypeOK
        <4> QED
          BY <3>2, <4>1, AppendProperties, LenProperties
      <3> QED
        BY <3>1, <3>2
    <2> QED
      BY <2>1, <2>2, <2>3
  <1>6. \A i \in DOMAIN queue' : queue'[i].from # Closer =>
          /\ queue'[i].batch.key # NoKey => Submits(i)'
          /\ ~Submits(i)' => queue'[i].batch.id = 0
    BY <1>1 DEF IInv, FreshIds
  <1> QED
    BY <1>3, <1>4, <1>5, <1>6 DEF FreshIds

\* Steps of the writer that take a batch and write nothing.
LEMMA UnwrittenKeeps ==
    ASSUME IInv, NextBatch, NEW r \in Reply, r.result # "ok", Answer(r),
           failed' \in {failed, TRUE},
           UNCHANGED <<log, synced, ids, seq, high, line, opened, promised, answered>>,
           up' = up
    PROVE  Rest'
  <1>1. holder' = holder /\ published' = published /\ up
    BY DEF line, NextBatch
  <1>2. OneInFlight' /\ \A c \in Caller : reply'[c].result # "ok"
    BY <1>1, Answered
  <1>3. DownIsEmpty' /\ Numbered' /\ HighWaterHolds' /\ IdsNeverReused' /\ PublishedInOrder'
    BY <1>1, ZenonT(60) DEF IInv, DownIsEmpty, Numbered, HighWaterHolds, IdsNeverReused, Database,
                PublishedInOrder
  <1>4. AnswersStand' /\ KeyHolds'
    BY <1>2 DEF IInv, AnswersStand, KeyHolds, Database
  <1>5. FreshIds'
    BY TakenFresh DEF IInv, TypeOK
  <1> QED
    BY <1>2, <1>3, <1>4, <1>5 DEF Rest

\* A rejected batch and a request after a failure are such steps.
LEMMA RejectKeeps ==
    ASSUME IInv, Reject \/ RefuseAfterFailure
    PROVE  Rest'
  <1>1. [result |-> "rejected"] \in Reply /\ [result |-> "failed"] \in Reply
    BY DEF Reply
  <1>2. CASE Reject
    BY <1>1, <1>2, UnwrittenKeeps DEF Reject, durable, history
  <1>3. CASE RefuseAfterFailure
    BY <1>1, <1>3, UnwrittenKeeps DEF RefuseAfterFailure, durable, history
  <1> QED
    BY <1>2, <1>3

\* The IDs of the database do not exceed its high-water mark.
LEMMA DatabaseIds ==
    ASSUME IInv
    PROVE  /\ \A s \in Database(log).rows : s.id \in Nat /\ s.id <= Database(log).high
           /\ \A j \in DOMAIN log : log[j].id <= Database(log).high
           /\ Database(log).seq = Len(log)
           /\ \A s, t \in Database(log).rows : s.key = t.key /\ s.key # NoKey => s = t
  <1>1. \A s \in Database(log).rows : s.id \in Nat
    BY DatabaseType DEF IInv, TypeOK, Row
  <1>2. CASE log = <<>>
    BY <1>2, EmptySeq DEF Database, EmptyDatabase
  <1>3. CASE log # <<>>
    <2>1. Len(log) \in DOMAIN log /\ DOMAIN log = 1..Len(log) /\ Len(log) \in Nat
      BY <1>3, EmptySeq, LenProperties DEF IInv, TypeOK
    <2>2. Database(log) = log[Len(log)]
      BY <1>3 DEF Database
    <2> QED
      BY <1>1, <2>1, <2>2 DEF IInv, HighWaterHolds, Numbered, KeyHolds
  <1> QED
    BY <1>2, <1>3

\* What a written batch makes of the log: what the log promised stays true.
LEMMA Written ==
    ASSUME IInv, NextBatch, ~failed, ~Conflict(queue[1].batch),
           log' = Append(log, Transaction(queue[1].batch)),
           answered' = Forget(queue[1].batch)
    PROVE  /\ Len(log') = Len(log) + 1 /\ Len(log) \in Nat
           /\ DOMAIN log = 1..Len(log) /\ DOMAIN log' = 1..(Len(log) + 1)
           /\ \A i \in DOMAIN log : log'[i] = log[i]
           /\ log'[Len(log) + 1] = Transaction(queue[1].batch)
           /\ Database(log') = Transaction(queue[1].batch)
           /\ \A i \in DOMAIN log' : log'[i].seq = i
           /\ \A i, j \in DOMAIN log' : j <= i => log'[j].id <= log'[i].high
           /\ \A i \in DOMAIN log' : \A s \in log'[i].rows : s.id <= log'[i].high
           /\ \A i \in DOMAIN log' : \A s, t \in log'[i].rows :
                 s.key = t.key /\ s.key # NoKey => s = t
           /\ answered' \subseteq Database(log').rows
           /\ Told(queue[1].batch) \subseteq Database(log').rows
           /\ \A i \in DOMAIN log' :
                 log'[i].id \in Nat /\ (log'[i].id <= ids \/ log'[i].id <= queue[1].batch.id)
           /\ IdsNeverReused'
  <1> DEFINE b == queue[1].batch
             t0 == Transaction(b)
  <1>0. PICK n \in Nat : n = Len(log)
    BY Elements DEF IInv
  <1>1. b \in Batch /\ b.id \in Nat /\ Submits(1) = (b.op = "submit") /\ 1 \in DOMAIN queue
        /\ queue[1].from # Closer
    BY Taken DEF Batch, Submits
  <1>2. t0 \in Commit /\ log \in Seq(Commit) /\ t0.id = b.id /\ t0.op = b.op
        /\ t0.rows = RowsAfter(b) /\ t0.seq = seq + 1 /\ t0.high = HighWater(b)
    BY <1>1, TransactionType DEF IInv, TypeOK, Transaction
  <1>3. /\ Len(log') = n + 1 /\ DOMAIN log = 1..n /\ DOMAIN log' = 1..(n + 1)
        /\ \A i \in 1..n : log'[i] = log[i]
        /\ log'[n + 1] = t0 /\ log' # <<>>
    <2> HIDE DEF t0
    <2>1. log' = Append(log, t0)
      BY DEF t0
    <2>2. log' \in Seq(Commit) /\ Len(log') = n + 1
      BY <1>0, <1>2, <2>1, AppendProperties
    <2> QED
      BY <1>0, <1>2, <2>1, <2>2, AppendProperties, LenProperties, EmptySeq
  <1> HIDE DEF t0, b
  <1>4. Database(log') = t0
    BY <1>3 DEF Database
  <1>5. up /\ seq = n
    BY <1>0 DEF NextBatch, IInv, Numbered
  <1>6. /\ high \in Nat /\ ids \in Nat /\ HighWater(b) \in Nat
        /\ high <= HighWater(b) /\ b.id <= HighWater(b)
    BY <1>1, LargestOfThree DEF HighWater, IInv, TypeOK
  <1>7. Database(log).high \in Nat /\ Database(log).high <= high
    BY <1>5, DatabaseType DEF IInv, TypeOK, HighWaterHolds
  <1>8. \A i \in DOMAIN log' : log'[i].seq = i
    BY <1>2, <1>3, <1>5 DEF IInv, Numbered
  <1>9. \A j \in 1..n : log[j].id \in Nat /\ log[j].id <= HighWater(b)
    BY <1>3, <1>6, <1>7, Elements, DatabaseIds, SMTT(30) DEF IInv
  <1>10. \A i, j \in DOMAIN log' : j <= i => log'[j].id <= log'[i].high
    <2> TAKE i, j \in DOMAIN log'
    <2>1. CASE i \in 1..n
      BY <1>3, <2>1 DEF IInv, HighWaterHolds
    <2>2. CASE i = n + 1
      BY <1>2, <1>3, <1>6, <1>9, <2>2
    <2> QED
      BY <1>3, <2>1, <2>2
  <1>11. RowsAfter(b) \subseteq Database(log).rows \cup {[key |-> b.key, id |-> b.id]}
    BY <1>1 DEF RowsAfter, Batch, Operation
  <1>12. \A i \in DOMAIN log' : \A s \in log'[i].rows : s.id <= log'[i].high
    <2> TAKE i \in DOMAIN log'
    <2>1. CASE i \in 1..n
      BY <1>3, <2>1 DEF IInv, HighWaterHolds
    <2>2. CASE i = n + 1
      <3>1. \A s \in RowsAfter(b) : s.id \in Nat /\ s.id <= HighWater(b)
        BY <1>1, <1>6, <1>7, <1>11, DatabaseIds
      <3> QED
        BY <1>2, <1>3, <2>2, <3>1
    <2> QED
      BY <1>3, <2>1, <2>2
  <1>13. \A i \in DOMAIN log' : \A s, t \in log'[i].rows :
           s.key = t.key /\ s.key # NoKey => s = t
    <2> TAKE i \in DOMAIN log'
    <2>1. CASE i \in 1..n
      BY <1>3, <2>1 DEF IInv, KeyHolds
    <2>2. CASE i = n + 1
      <3> DEFINE row == [key |-> b.key, id |-> b.id]
      <3>1. \A s \in Database(log).rows : s.key = b.key /\ s.key # NoKey => s = row
        <4> TAKE s \in Database(log).rows
        <4> HAVE s.key = b.key /\ s.key # NoKey
        <4>1. s \in Row
          BY DatabaseType DEF IInv, TypeOK
        <4>2. s.id = b.id
          BY DEF Conflict, b
        <4> QED
          BY <4>1, <4>2 DEF Row
      <3>2. row.key = b.key
        OBVIOUS
      <3> HIDE DEF row
      <3>3. \A s, t \in Database(log).rows \cup {row} : s.key = t.key /\ s.key # NoKey => s = t
        BY <3>1, <3>2, DatabaseIds
      <3>4. RowsAfter(b) \subseteq Database(log).rows \cup {row}
        BY <1>11 DEF row
      <3> QED
        BY <1>2, <1>3, <2>2, <3>3, <3>4
    <2> QED
      BY <1>3, <2>1, <2>2
  <1>14. answered' \subseteq Database(log').rows
    <2>1. answered \subseteq Database(log).rows
      BY DEF IInv, KeyHolds
    <2>2. answered' = Forget(b) /\ b.op \in Operation
      BY <1>1 DEF b, Batch
    <2> QED
      BY <1>2, <1>4, <2>1, <2>2 DEF Forget, RowsAfter, Operation
  <1>15. Told(b) \subseteq Database(log').rows
    <2>1. b.key # NoKey => b.op = "submit"
      BY <1>1 DEF IInv, FreshIds, b
    <2> QED
      BY <1>2, <1>4, <2>1 DEF Told, RowsAfter
  <1>16. \A i \in DOMAIN log' :
           log'[i].id \in Nat /\ (log'[i].id <= ids \/ log'[i].id <= b.id)
    BY <1>1, <1>2, <1>3, <1>5, <1>9 DEF IInv, HighWaterHolds
  <1>17. IdsNeverReused'
    <2>0. b.op = "submit" => \A j \in DOMAIN log : log[j].op = "submit" => log[j].id # b.id
      <3> SUFFICES ASSUME b.op = "submit", NEW j \in DOMAIN log, log[j].op = "submit"
                   PROVE  b.id # log[j].id
        OBVIOUS
      <3>1. Submits(1)
        BY <1>1
      <3> QED
        BY <1>1, <3>1 DEF IInv, FreshIds, b
    <2>1. \A i, j \in DOMAIN log' :
            log'[i].op = "submit" /\ log'[j].op = "submit" /\ i # j => log'[i].id # log'[j].id
      <3> TAKE i, j \in DOMAIN log'
      <3> HAVE log'[i].op = "submit" /\ log'[j].op = "submit" /\ i # j
      <3>1. CASE i \in 1..n /\ j \in 1..n
        BY <1>3, <3>1 DEF IInv, IdsNeverReused
      <3>2. CASE i = n + 1 /\ j \in 1..n
        BY <1>2, <1>3, <2>0, <3>2
      <3>3. CASE i \in 1..n /\ j = n + 1
        BY <1>2, <1>3, <2>0, <3>3
      <3> QED
        BY <1>3, <3>1, <3>2, <3>3
    <2> QED
      BY <2>1 DEF IdsNeverReused
  <1> QED
    BY <1>0, <1>3, <1>4, <1>8, <1>10, <1>12, <1>13, <1>14, <1>15, <1>16, <1>17 DEF t0, b

\* A committed batch: its caller will be told a number later than any other.
LEMMA AcceptKeeps ==
    ASSUME IInv, Accept
    PROVE  Rest'
  <1> DEFINE b == queue[1].batch
             r == [result |-> "ok", seq |-> seq + 1, batch |-> b]
  <1>1. /\ NextBatch /\ ~failed /\ ~Conflict(b)
        /\ log' = Append(log, Transaction(b)) /\ answered' = Forget(b)
        /\ seq' = seq + 1 /\ high' = HighWater(b) /\ ids' = Largest({b.id}, ids)
        /\ synced' = Synced(b) /\ Answer(r)
        /\ UNCHANGED <<up, failed, holder, published, opened, promised>>
    BY DEF Accept, line
  <1>2. r \in Reply /\ b \in Batch
    BY <1>1, Taken DEF Reply, IInv, TypeOK
  <1>3. /\ ids' \in Nat /\ b.id <= ids' /\ ids <= ids' /\ b.id \in Nat /\ ids \in Nat
    <2>1. b.id \in Nat /\ ids \in Nat
      BY <1>2 DEF Batch, IInv, TypeOK
    <2> HIDE DEF b
    <2> QED
      BY <1>1, <2>1, LargestOfTwo
  <1>4. /\ Len(log') = Len(log) + 1 /\ Len(log) \in Nat
        /\ DOMAIN log = 1..Len(log) /\ DOMAIN log' = 1..(Len(log) + 1)
        /\ \A i \in DOMAIN log : log'[i] = log[i]
        /\ log'[Len(log) + 1] = Transaction(b)
        /\ Database(log') = Transaction(b)
        /\ \A i \in DOMAIN log' : log'[i].seq = i
        /\ \A i, j \in DOMAIN log' : j <= i => log'[j].id <= log'[i].high
        /\ \A i \in DOMAIN log' : \A s \in log'[i].rows : s.id <= log'[i].high
        /\ \A i \in DOMAIN log' : \A s, t \in log'[i].rows :
              s.key = t.key /\ s.key # NoKey => s = t
        /\ answered' \subseteq Database(log').rows
        /\ Told(b) \subseteq Database(log').rows
        /\ \A i \in DOMAIN log' :
              log'[i].id \in Nat /\ (log'[i].id <= ids \/ log'[i].id <= b.id)
        /\ IdsNeverReused'
    BY <1>1, Written
  <1>5. up /\ seq = Len(log) /\ opened <= Len(log) /\ opened \in Nat /\ synced <= Len(log)
        /\ synced \in Nat
    BY <1>1, <1>4 DEF NextBatch, IInv, Numbered, TypeOK
  <1>6. OneInFlight' /\ \A c \in Caller : reply'[c].result # "none" => reply'[c] = r
    BY <1>1, <1>2, Answered
  <1>7. Transaction(b).high = HighWater(b) /\ Transaction(b).id = b.id
        /\ Transaction(b).seq = seq + 1 /\ HighWater(b) \in Nat
    BY <1>2, TransactionType DEF Transaction, IInv
  <1>9. FreshIds'
    BY <1>1, <1>3, TakenFresh
  <1> HIDE DEF r, b
  <1>10. DownIsEmpty' /\ Numbered'
    BY <1>1, <1>4, <1>5 DEF IInv, DownIsEmpty, Numbered
  <1>11. HighWaterHolds'
    <2>1. Database(log)' = Database(log')
      BY DEF Database
    <2>2. Database(log').high <= high'
      BY <1>1, <1>4, <1>7
    <2>3. \A i \in DOMAIN log' : log'[i].id <= ids'
      BY <1>3, <1>4
    <2> QED
      BY <1>4, <2>1, <2>2, <2>3 DEF HighWaterHolds
  <1>12. \A i \in DOMAIN published : published[i].seq \in (opened + 1)..Len(log)
    BY <1>5 DEF IInv, PublishedInOrder
  <1>13. AnswersStand'
    <2>1. synced <= synced' /\ (Structural(b) => synced' = Len(log) + 1)
      BY <1>1, <1>4, <1>5 DEF Synced, SyncFor
    <2>2. promised <= synced
      BY DEF IInv, AnswersStand
    <2>3. promised \in Nat /\ promised' = promised /\ synced' \in Nat
      BY <1>1, <1>4, <1>5 DEF IInv, TypeOK, Synced
    <2>4. r.seq = Len(log) + 1 /\ r.batch = b
      BY <1>5 DEF r
    <2>5. ASSUME NEW c \in Caller, reply'[c].result = "ok"
          PROVE  /\ reply'[c].seq \in (opened' + 1)..Len(log')
                 /\ promised' < reply'[c].seq
                 /\ Structural(reply'[c].batch) => reply'[c].seq <= synced'
                 /\ log'[reply'[c].seq].id = reply'[c].batch.id
                 /\ \A i \in DOMAIN published' : published'[i].seq < reply'[c].seq
      <3>1. reply'[c] = r
        BY <1>6, <2>5
      <3> QED
        BY <1>1, <1>4, <1>5, <1>7, <1>12, <2>1, <2>2, <2>3, <2>4, <3>1 DEF Structural
    <2>6. promised' <= synced'
      BY <1>5, <2>1, <2>2, <2>3
    <2> QED
      BY <2>5, <2>6 DEF AnswersStand, Structural
  <1>14. PublishedInOrder'
    <2>1. \A i \in DOMAIN published :
            /\ published[i].seq \in (opened + 1)..(Len(log) + 1)
            /\ published[i].seq \in DOMAIN log
      BY <1>4, <1>5, <1>12
    <2> QED
      BY <1>1, <1>4, <1>5, <2>1 DEF IInv, PublishedInOrder
  <1>15. KeyHolds'
    <2>1. r.batch = b
      BY DEF r
    <2>2. \A c \in Caller : reply'[c].result = "ok" => reply'[c] = r
      BY <1>6
    <2> QED
      BY <1>4, <2>1, <2>2 DEF KeyHolds, Told, Database
  <1> QED
    BY <1>4, <1>6, <1>9, <1>10, <1>11, <1>13, <1>14, <1>15 DEF Rest

\* An error whose batch may be in the log all the same: nobody is told Ok.
LEMMA FaultKeeps ==
    ASSUME IInv, Fault
    PROVE  Rest'
  <1> DEFINE b == queue[1].batch
             r == [result |-> "failed"]
  <1>1. /\ NextBatch /\ ~failed /\ failed' = TRUE /\ Answer(r)
        /\ UNCHANGED <<up, ids, seq, high, holder, published, opened, promised, line>>
    BY DEF Fault, line
  <1>2. r \in Reply
    BY DEF Reply
  <1>3. CASE UNCHANGED <<durable, answered>>
    <2>1. r.result # "ok"
      OBVIOUS
    <2> QED
      BY <1>1, <1>2, <1>3, <2>1, UnwrittenKeeps DEF durable
  <1>4. CASE /\ ~Conflict(b) /\ log' = Append(log, Transaction(b))
             /\ synced' \in {synced, Synced(b)} /\ answered' = Forget(b)
    <2>1. /\ Len(log') = Len(log) + 1 /\ Len(log) \in Nat
          /\ DOMAIN log = 1..Len(log) /\ DOMAIN log' = 1..(Len(log) + 1)
          /\ \A i \in DOMAIN log : log'[i] = log[i]
          /\ \A i \in DOMAIN log' : log'[i].seq = i
          /\ \A i, j \in DOMAIN log' : j <= i => log'[j].id <= log'[i].high
          /\ \A i \in DOMAIN log' : \A s \in log'[i].rows : s.id <= log'[i].high
          /\ \A i \in DOMAIN log' : \A s, t \in log'[i].rows :
                s.key = t.key /\ s.key # NoKey => s = t
          /\ answered' \subseteq Database(log').rows
          /\ \A i \in DOMAIN log' :
                log'[i].id \in Nat /\ (log'[i].id <= ids \/ log'[i].id <= b.id)
          /\ IdsNeverReused'
      BY <1>1, <1>4, Written
    <2>2. up /\ opened <= Len(log) /\ opened \in Nat /\ synced <= Len(log)
          /\ synced \in Nat /\ ids \in Nat
      BY <1>1, <2>1 DEF NextBatch, IInv, Numbered, TypeOK
    <2>3. b.id \in Nat /\ b.id <= ids
      <3>1. b \in Batch /\ 1 \in DOMAIN queue /\ queue[1].from # Closer
        BY <1>1, Taken
      <3>2. CASE Submits(1)
        BY <3>1, <3>2 DEF IInv, FreshIds, Batch
      <3>3. CASE ~Submits(1)
        <4>1. b.id = 0
          BY <3>1, <3>3 DEF IInv, FreshIds
        <4> QED
          BY <2>2, <4>1
      <3> QED
        BY <3>2, <3>3
    <2>4. OneInFlight' /\ \A c \in Caller : reply'[c].result # "ok"
      BY <1>1, <1>2, Answered
    <2>6. FreshIds'
      BY <1>1, <1>4, <2>2, TakenFresh
    <2> HIDE DEF b
    <2>7. DownIsEmpty' /\ Numbered'
      BY <1>1, <2>1, <2>2 DEF IInv, DownIsEmpty, Numbered
    <2>8. HighWaterHolds'
      BY <1>1, <2>1, <2>2, <2>3 DEF HighWaterHolds
    <2>9. AnswersStand'
      <3>1. synced <= synced' /\ synced' \in Nat
        BY <1>4, <2>1, <2>2 DEF Synced
      <3>2. promised <= synced /\ promised \in Nat
        BY DEF IInv, AnswersStand, TypeOK
      <3> QED
        BY <1>1, <2>2, <2>4, <3>1, <3>2 DEF AnswersStand
    <2>10. PublishedInOrder'
      <3>1. \A i \in DOMAIN published :
              /\ published[i].seq \in (opened + 1)..(Len(log) + 1)
              /\ published[i].seq \in DOMAIN log
        BY <2>1, <2>2 DEF IInv, PublishedInOrder
      <3> QED
        BY <1>1, <2>1, <2>2, <3>1 DEF IInv, PublishedInOrder
    <2>11. KeyHolds'
      BY <2>1, <2>4 DEF KeyHolds, Database
    <2> QED
      BY <2>1, <2>4, <2>6, <2>7, <2>8, <2>9, <2>10, <2>11 DEF Rest
  <1> QED
    BY <1>3, <1>4 DEF Fault

\* Whatever ends the process, what is left is a prefix that holds the promise.
LEMMA DownKeeps ==
    ASSUME IInv, Closed \/ Crash \/ PowerLoss
    PROVE  Rest'
  <1>1. /\ ~up' /\ queue' = <<>> /\ published' = <<>> /\ ~failed' /\ holder' = Nobody
        /\ opened' = opened /\ promised' = promised
        /\ \A c \in Caller : reply'[c].result = "none"
    BY DEF Closed, Crash, PowerLoss, Down, NoReply
  <1>2. /\ Len(log') \in Nat /\ DOMAIN log' = 1..Len(log')
        /\ \A i \in DOMAIN log' : i \in DOMAIN log /\ log'[i] = log[i]
        /\ synced' >= synced
        /\ answered' \subseteq Database(log').rows
    <2>1. CASE PowerLoss
      <3>1. PICK kept \in synced..Len(log) :
              /\ log' \in Seq(Commit) /\ Len(log') = kept /\ synced' = kept
              /\ \A i \in 1..kept : log'[i] = log[i]
        BY <2>1, PowerLossLog DEF IInv
      <3>2. answered' = {} /\ DOMAIN log' = 1..kept /\ DOMAIN log = 1..Len(log)
            /\ Len(log) \in Nat /\ synced \in Nat
        BY <2>1, <3>1, LenProperties DEF PowerLoss, IInv, TypeOK
      <3> QED
        BY <3>1, <3>2
    <2>2. CASE Closed \/ Crash
      <3>1. log' = log /\ synced' = synced /\ answered' = answered
        BY <2>2 DEF Closed, Crash, durable
      <3> QED
        BY <3>1, Elements DEF IInv, KeyHolds, TypeOK
    <2> QED
      BY <2>1, <2>2
  <1>3. OneInFlight' /\ FreshIds'
    BY <1>1 DEF OneInFlight, FreshIds
  <1>4. DownIsEmpty' /\ PublishedInOrder'
    BY <1>1 DEF DownIsEmpty, PublishedInOrder
  <1>5. Numbered'
    BY <1>1, <1>2 DEF IInv, Numbered
  <1>6. AnswersStand'
    <2>1. promised \in Nat /\ synced \in Nat /\ synced' \in Nat
      BY CrashTypes DEF IInv, TypeOK
    <2> QED
      BY <1>1, <1>2, <2>1 DEF IInv, AnswersStand
  <1>7. HighWaterHolds' /\ IdsNeverReused'
    BY <1>1, <1>2 DEF IInv, HighWaterHolds, IdsNeverReused
  <1>8. KeyHolds'
    BY <1>1, <1>2 DEF IInv, KeyHolds, Database
  <1> QED
    BY <1>3, <1>4, <1>5, <1>6, <1>7, <1>8 DEF Rest

\* Opening starts the counter above everything the log ever recorded.
LEMMA OpenKeeps ==
    ASSUME IInv, Open
    PROVE  Rest'
  <1>1. /\ ids' = FirstId(log) /\ high' = FirstId(log) /\ seq' = Database(log).seq
        /\ opened' = Len(log) /\ ~up
        /\ UNCHANGED <<log, synced, failed, queue, reply, holder, published, promised, answered>>
    BY DEF Open, durable, line
  <1>2. queue = <<>> /\ published = <<>> /\ ~failed /\ \A c \in Caller : reply[c].result = "none"
    BY <1>1 DEF IInv, DownIsEmpty
  <1>3. OneInFlight' /\ FreshIds' /\ DownIsEmpty'
    BY <1>1, <1>2 DEF OneInFlight, FreshIds, DownIsEmpty
  <1>4. PublishedInOrder' /\ IdsNeverReused'
    BY <1>1, <1>2 DEF IInv, PublishedInOrder, IdsNeverReused
  <1>5. Numbered'
    BY <1>1, DatabaseIds, Elements DEF IInv, Numbered
  <1>6. AnswersStand' /\ KeyHolds'
    BY <1>1, <1>2 DEF IInv, AnswersStand, KeyHolds, Database
  <1>7. HighWaterHolds'
    <2>1. FirstId(log) \in Nat /\ Database(log).high <= FirstId(log) /\ Database(log).high \in Nat
      BY FirstIdFacts, DatabaseType DEF IInv, TypeOK
    <2>2. \A i \in DOMAIN log : log[i].id <= FirstId(log)
      BY <2>1, DatabaseIds, Elements DEF IInv
    <2>3. Database(log)' = Database(log)
      BY <1>1 DEF Database
    <2> QED
      BY <1>1, <2>1, <2>2, <2>3 DEF IInv, HighWaterHolds
  <1> QED
    BY <1>3, <1>4, <1>5, <1>6, <1>7 DEF Rest

-----------------------------------------------------------------------------
(* The theorems *)

\* The invariant holds when a line is opened on an empty database.
LEMMA InitInvariant == Init => IInv
  <1> SUFFICES ASSUME Init PROVE IInv
    OBVIOUS
  <1>1. TypeOK
    BY InitTypes
  <1>2. log = <<>> /\ queue = <<>> /\ published = <<>> /\ \A c \in Caller : reply[c].result = "none"
    BY DEF Init, NoReply
  <1>3. DOMAIN log = {} /\ DOMAIN queue = {} /\ DOMAIN published = {} /\ Len(log) = 0
    BY <1>2, EmptySeq
  <1>4. Database(log).rows = {} /\ Database(log).high = 0
    BY <1>2 DEF Database, EmptyDatabase
  <1>5. OneInFlight /\ DownIsEmpty /\ Numbered /\ AnswersStand
    BY <1>2, <1>3 DEF Init, OneInFlight, DownIsEmpty, Numbered, AnswersStand
  <1>6. PublishedInOrder /\ HighWaterHolds /\ IdsNeverReused /\ FreshIds /\ KeyHolds
    BY <1>2, <1>3, <1>4
       DEF Init, PublishedInOrder, HighWaterHolds, IdsNeverReused, FreshIds, KeyHolds
  <1> QED
    BY <1>1, <1>5, <1>6 DEF IInv

\* Every step keeps the invariant.
LEMMA StepInvariant == IInv /\ [Next]_vars => IInv'
  <1> SUFFICES ASSUME IInv, [Next]_vars PROVE IInv'
    OBVIOUS
  <1>1. TypeOK'
    BY TypesKept DEF IInv
  <1>2. Rest'
    <2>1. ASSUME NEW c \in Caller, NEW r \in Request, Ask(c, r) PROVE Rest'
      BY <2>1, GateKeeps
    <2>2. ASSUME NEW c \in Caller, Turn(c) PROVE Rest'
      BY <2>2, GateKeeps, SendKeeps DEF Turn
    <2>3. ASSUME NEW c \in Caller, Settle(c) PROVE Rest'
      BY <2>3, SettleOkKeeps, SettleErrorKeeps DEF Settle
    <2>4. ASSUME NEW c \in Caller, Drop(c) PROVE Rest'
      BY <2>4, GateKeeps, DropHolderKeeps DEF Drop
    <2>5. CASE Seal \/ Close
      <3>1. Quiet
        BY <2>5 DEF Seal, Close, Quiet, durable, store, history
      <3> QED
        BY <3>1, QuietKeeps
    <2>6. CASE CloseStorage
      BY <2>6, CloseStorageKeeps
    <2>7. CASE Write
      BY <2>7, AcceptKeeps, RejectKeeps, FaultKeeps, DownKeeps DEF Write
    <2>8. CASE Crash \/ PowerLoss
      BY <2>8, DownKeeps
    <2>9. CASE Open
      BY <2>9, OpenKeeps
    <2>10. CASE UNCHANGED vars
      <3>1. Quiet
        BY <2>10 DEF vars, durable, store, line, history, Quiet
      <3> QED
        BY <3>1, QuietKeeps
    <2> QED
      BY <2>1, <2>2, <2>3, <2>4, <2>5, <2>6, <2>7, <2>8, <2>9, <2>10 DEF Next
  <1> QED
    BY <1>1, <1>2 DEF IInv, Rest

\* The inductive invariant holds in every reachable state: nothing a crash, a
\* power loss, a failed commit or a dropped caller does breaks it.
THEOREM Invariant == Spec => []IInv
  BY InitInvariant, StepInvariant, PTL DEF Spec

\* Every variable keeps its type (line.rs, write.rs), for any callers and keys.
THEOREM LineTypeCorrect == Spec => []TypeOK
  <1>1. IInv => TypeOK
    BY DEF IInv
  <1> QED
    BY <1>1, Invariant, PTL

\* No two submissions ever share an ID (ids.rs IdCounter, write.rs max_id),
\* whatever was purged, lost by a power loss, half committed or reopened.
THEOREM IdsUnique == Spec => []IdsNeverReused
  <1>1. IInv => IdsNeverReused
    BY DEF IInv
  <1> QED
    BY <1>1, Invariant, PTL

\* A request key is answered with one submission (write.rs UpsertSubmission),
\* even when the first caller vanished or was told of a failure.
THEOREM OneAnswer == Spec => []OneAnswerPerKey
  <1>1. IInv => OneAnswerPerKey
    <2> SUFFICES ASSUME IInv, NEW s \in answered, NEW t \in answered, s.key = t.key
                 PROVE  s.id = t.id
      BY DEF OneAnswerPerKey
    <2>1. s \in Database(log).rows /\ t \in Database(log).rows /\ s.key # NoKey
      BY DEF IInv, KeyHolds, TypeOK
    <2>2. s = t
      BY <2>1, DatabaseIds
    <2> QED
      BY <2>2
  <1> QED
    BY <1>1, Invariant, PTL

\* Listeners are told of commits in the order of the database (line.rs publish),
\* whoever stops waiting.
THEOREM PublishedOrdered == Spec => []PublishedInOrder
  <1>1. IInv => PublishedInOrder
    BY DEF IInv
  <1> QED
    BY <1>1, Invariant, PTL

\* An appended commit extends the history.
LEMMA AppendIsCommit ==
    ASSUME TypeOK, NEW t \in Commit, log' = Append(log, t), promised' = promised
    PROVE  Promised!Append1
  <1>1. log \in Seq(Commit) /\ Len(log) \in Nat
    BY LenProperties DEF TypeOK
  <1>2. /\ log' \in Seq(Commit) /\ Len(log') = Len(log) + 1
        /\ \A i \in 1..Len(log) : log'[i] = log[i]
    BY <1>1, AppendProperties
  <1>3. /\ SubSeq(log', 1, Len(log)) \in Seq(Commit)
        /\ Len(SubSeq(log', 1, Len(log))) = Len(log)
        /\ \A i \in 1..Len(log) : SubSeq(log', 1, Len(log))[i] = log'[i]
    <2>1. \A i \in 1..Len(log) : log'[i] \in Commit
      BY <1>1, <1>2, ElementOfSeq
    <2> QED
      BY <1>1, <1>2, <2>1, SubSeqProperties
  <1>4. SubSeq(log', 1, Len(log)) = log
    BY <1>1, <1>2, <1>3, SeqEqual
  <1> QED
    BY <1>2, <1>4 DEF Promised!Append1

\* Every step of the line is a step of the durable log, or none.
LEMMA StepKeepsLog ==
    ASSUME IInv, [Next]_vars
    PROVE  [Promised!Next]_(Promised!vars)
  <1> USE DEF Promised!vars
  <1>1. CASE UNCHANGED <<log, promised>>
    BY <1>1
  <1>2. ASSUME NEW c \in Caller, SettleOk(c) PROVE [Promised!Next]_(Promised!vars)
    <2>1. log' = log /\ reply[c].result = "ok"
          /\ promised' = IF Structural(reply[c].batch) THEN reply[c].seq ELSE promised
      BY <1>2 DEF SettleOk, durable
    <2>2. reply[c].seq \in Nat /\ promised < reply[c].seq /\ reply[c].seq <= Len(log)
          /\ promised \in Nat /\ Len(log) \in Nat
      BY <2>1, Elements DEF IInv, AnswersStand, TypeOK
    <2> QED
      BY <2>1, <2>2 DEF Promised!Next, Promised!Promise
  <1>3. CASE Accept
    <2>1. Transaction(queue[1].batch) \in Commit
      BY <1>3, Taken, TransactionType DEF Accept, IInv
    <2>2. Promised!Append1
      BY <1>3, <2>1, AppendIsCommit DEF Accept, IInv
    <2> QED
      BY <2>2 DEF Promised!Next
  <1>4. CASE Fault
    <2>1. Transaction(queue[1].batch) \in Commit /\ promised' = promised
      BY <1>4, Taken, TransactionType DEF Fault, IInv
    <2>2. CASE log' = log
      BY <2>1, <2>2
    <2>3. CASE log' = Append(log, Transaction(queue[1].batch))
      BY <2>1, <2>3, AppendIsCommit DEF IInv, Promised!Next
    <2> QED
      BY <1>4, <2>2, <2>3 DEF Fault, durable
  <1>5. CASE PowerLoss
    <2>1. PICK kept \in synced..Len(log) : log' = SubSeq(log, 1, kept)
      BY <1>5 DEF PowerLoss
    <2>2. promised' = promised /\ kept \in promised..Len(log)
      BY <1>5, <2>1 DEF PowerLoss, Down, IInv, AnswersStand, TypeOK
    <2> QED
      BY <2>1, <2>2 DEF Promised!Next, Promised!Lose
  <1>6. ASSUME NEW c \in Caller,
               Turn(c) \/ SettleError(c) \/ Drop(c) \/ \E r \in Request : Ask(c, r)
        PROVE  UNCHANGED <<log, promised>>
    BY <1>6 DEF Turn, Drop, Ask, Refuse, AnswerKnown, Send, SendRefused, SettleError,
                DropQueued, DropHolder, durable, history
  <1>7. CASE \/ Seal \/ Close \/ CloseStorage \/ Reject
             \/ RefuseAfterFailure \/ Closed \/ Crash \/ Open
    BY <1>1, <1>7 DEF Seal, Close, CloseStorage, Reject, RefuseAfterFailure, Closed, Crash, Open,
                Down, durable, history
  <1>8. CASE UNCHANGED vars
    BY <1>1, <1>8 DEF vars, durable, history
  <1> QED
    BY <1>1, <1>2, <1>3, <1>4, <1>5, <1>6, <1>7, <1>8 DEF Next, Settle, Write

\* The line implements DurableLog: crashes take back commits only from the end
\* of the history, and never one whose caller was told that it is durable
\* (docs/storage-durable.md 3.6).
THEOREM LineKeepsLog == Spec => KeepsLog
  <1>1. Init => Promised!Init
    BY DEF Init, Promised!Init
  <1>2. IInv /\ [Next]_vars => [Promised!Next]_(Promised!vars)
    BY StepKeepsLog
  <1> QED
    BY <1>1, <1>2, Invariant, PTL DEF Spec, KeepsLog, Promised!Spec

-----------------------------------------------------------------------------
(* Turns.  Until a caller is dropped that holds the gate, the gate really  *)
(* is held from a closure to its publication.  So long two more properties *)
(* hold, for any number of callers, keys, commits and crashes: no update   *)
(* of the inbox document is lost, and listeners see every commit.  They    *)
(* fail afterwards, so this invariant is kept apart from IInv.             *)

\* Every queued request has somebody waiting for its answer.
OneAtATime == \A i \in DOMAIN queue : queue[i].from # Nobody

\* Every commit left an inbox document that lists the stored submissions.
InboxStored == \A i \in DOMAIN log : log[i].inbox = {s.id : s \in log[i].rows}

\* The batch on its way was computed from the database as it still is.
ClosureIsCurrent ==
    \A i \in DOMAIN queue : queue[i].from # Closer =>
        /\ queue[i].batch.op = "submit" =>
              queue[i].batch.inbox = Database(log).inbox \cup {queue[i].batch.id}
        /\ queue[i].batch.op = "purge" => queue[i].batch.inbox = {}

\* All of this process's commits are published but the one whose caller has
\* its answer and has not returned yet.
PublishedAll ==
    /\ up => \A i \in DOMAIN published :
          published[i].seq = opened + i /\ published[i].batch.op = log[opened + i].op
    /\ up /\ ~failed /\ (\A c \in Caller : reply[c].result # "ok") =>
          Len(log) = opened + Len(published)
    /\ \A c \in Caller : reply[c].result = "ok" =>
          /\ ~failed /\ Len(log) = opened + Len(published) + 1
          /\ reply[c].seq = Len(log) /\ reply[c].batch.op = log[Len(log)].op

Turns == OneAtATime /\ InboxStored /\ ClosureIsCurrent /\ PublishedAll

\* Until a holder of the gate is dropped.
SoFar == dropped = 0 => Turns

-----------------------------------------------------------------------------
\* A free gate means an empty queue and no answer on its way.
LEMMA FreeGate ==
    ASSUME IInv, Turns, holder = Nobody
    PROVE  queue = <<>> /\ \A c \in Caller : reply[c].result = "none"
  <1>1. \A c \in Caller : reply[c].result = "none"
    BY NamesAssumption DEF IInv, OneInFlight
  <1>2. queue = <<>>
    <2> SUFFICES ASSUME queue # <<>> PROVE FALSE
      OBVIOUS
    <2>1. Len(queue) \in DOMAIN queue
      BY EmptySeq, LenProperties DEF IInv, TypeOK
    <2> QED
      BY <2>1 DEF IInv, OneInFlight, Turns, OneAtATime
  <1> QED
    BY <1>1, <1>2

\* A request joins an empty queue.
LEMMA Joined ==
    ASSUME IInv, Turns, holder = Nobody, NEW item \in Item, queue' = Append(queue, item)
    PROVE  DOMAIN queue' = {1} /\ queue'[1] = item
  <1>1. queue = <<>> /\ queue \in Seq(Item)
    BY FreeGate DEF IInv, TypeOK
  <1>2. Len(queue) = 0
    BY <1>1, EmptySeq
  <1> QED
    BY <1>1, <1>2, AppendProperties, LenProperties

\* Steps that leave the log, the queue, the answers and the listeners alone.
LEMMA QuietTurns ==
    ASSUME Turns, Quiet
    PROVE  Turns'
  BY DEF Turns, Quiet, OneAtATime, InboxStored, ClosureIsCurrent, PublishedAll, Database

\* A closure stages what follows from the database as it is.
LEMMA SendTurns ==
    ASSUME IInv, Turns, NEW c \in Caller, Send(c)
    PROVE  Turns'
  <1> DEFINE item == [from |-> c, batch |-> Staged(c)]
  <1>1. /\ queue' = Append(queue, item) /\ holder = Nobody
        /\ UNCHANGED <<log, up, failed, reply, published, opened>>
    BY DEF Send, Take, durable, history
  <1>2. item \in Item
    BY StagedType DEF IInv, Item
  <1>3. /\ item.from # Nobody /\ item.batch.op = request[c].op
        /\ request[c].op = "submit" =>
              item.batch.inbox = Database(log).inbox \cup {item.batch.id}
        /\ request[c].op = "purge" => item.batch.inbox = {}
    BY NamesAssumption DEF Staged
  <1> HIDE DEF item
  <1>4. DOMAIN queue' = {1} /\ queue'[1] = item
    BY <1>1, <1>2, Joined
  <1>5. OneAtATime' /\ ClosureIsCurrent'
    BY <1>1, <1>3, <1>4 DEF OneAtATime, ClosureIsCurrent, Database
  <1> QED
    BY <1>1, <1>5 DEF Turns, InboxStored, PublishedAll

\* The close request carries no batch.
LEMMA CloseStorageTurns ==
    ASSUME IInv, Turns, CloseStorage
    PROVE  Turns'
  <1> DEFINE item == [from |-> Closer]
  <1>1. /\ queue' = Append(queue, item) /\ holder = Nobody
        /\ UNCHANGED <<log, up, failed, reply, published, opened>>
    BY DEF CloseStorage, Take, durable, history
  <1>2. item \in Item /\ item.from = Closer
    BY DEF Item
  <1> HIDE DEF item
  <1>3. DOMAIN queue' = {1} /\ queue'[1].from = Closer
    BY <1>1, <1>2, Joined
  <1>4. OneAtATime' /\ ClosureIsCurrent'
    BY <1>3, NamesAssumption DEF OneAtATime, ClosureIsCurrent
  <1> QED
    BY <1>1, <1>4 DEF Turns, InboxStored, PublishedAll

\* The commit that returns is the next one to publish.
LEMMA SettleOkTurns ==
    ASSUME IInv, Turns, NEW c \in Caller, SettleOk(c)
    PROVE  Turns'
  <1> DEFINE p == [seq |-> reply[c].seq, batch |-> reply[c].batch]
  <1>1. /\ UNCHANGED <<log, up, failed, queue, opened>> /\ up
        /\ Leave(c) /\ reply[c].result = "ok" /\ published' = Append(published, p)
    BY DEF SettleOk, Leave, Publish, durable
  <1>2. queue = <<>> /\ \A d \in Caller : reply'[d].result = "none"
    BY <1>1, OneAnswered
  <1>3. PICK k \in Nat : k = Len(published)
    BY Elements DEF IInv
  <1>4. reply[c] \in Reply
    BY Elements DEF IInv
  <1>5. p \in Publication /\ p.seq = reply[c].seq /\ p.batch.op = reply[c].batch.op
    BY <1>1, <1>4 DEF Reply, Publication
  <1>6. /\ Len(log) = opened + k + 1 /\ reply[c].seq = Len(log)
        /\ reply[c].batch.op = log[Len(log)].op
    BY <1>1, <1>3 DEF Turns, PublishedAll
  <1> HIDE DEF p
  <1>7. /\ published \in Seq(Publication) /\ DOMAIN published = 1..k
        /\ Len(published') = k + 1 /\ DOMAIN published' = 1..(k + 1)
        /\ \A i \in 1..k : published'[i] = published[i]
        /\ published'[k + 1] = p
    <2>1. published \in Seq(Publication) /\ DOMAIN published = 1..k
      BY <1>3, Elements DEF IInv, TypeOK
    <2>2. published' \in Seq(Publication) /\ Len(published') = k + 1
      BY <1>1, <1>3, <1>5, <2>1, AppendProperties
    <2> QED
      BY <1>1, <1>3, <1>5, <2>1, <2>2, AppendProperties, LenProperties
  <1>8. opened \in Nat
    BY DEF IInv, TypeOK
  <1>9. PublishedAll'
    <2>1. \A i \in DOMAIN published' :
            published'[i].seq = opened' + i /\ published'[i].batch.op = log'[opened' + i].op
      <3> TAKE i \in DOMAIN published'
      <3>1. CASE i \in 1..k
        BY <1>1, <1>7, <3>1 DEF Turns, PublishedAll
      <3>2. CASE i = k + 1
        BY <1>1, <1>5, <1>6, <1>7, <1>8, <3>2
      <3> QED
        BY <1>7, <3>1, <3>2
    <2>2. Len(log') = opened' + Len(published')
      BY <1>1, <1>6, <1>7, <1>8
    <2> QED
      BY <1>2, <2>1, <2>2 DEF PublishedAll
  <1>10. OneAtATime' /\ InboxStored' /\ ClosureIsCurrent'
    BY <1>1 DEF Turns, OneAtATime, InboxStored, ClosureIsCurrent, Database
  <1> QED
    BY <1>9, <1>10 DEF Turns

\* A failed commit publishes nothing, and nothing was written.
LEMMA SettleErrorTurns ==
    ASSUME IInv, Turns, NEW c \in Caller, SettleError(c)
    PROVE  Turns'
  <1>1. /\ UNCHANGED <<log, up, failed, queue, opened, published>>
        /\ Leave(c) /\ reply[c].result \in {"rejected", "failed"}
    BY DEF SettleError, durable, history
  <1>2. queue = <<>> /\ \A d \in Caller : reply'[d].result = "none"
    BY <1>1, OneAnswered
  <1>3. \A d \in Caller : reply[d].result # "ok"
    BY <1>1 DEF Leave, IInv, OneInFlight
  <1>4. PublishedAll'
    BY <1>1, <1>2, <1>3 DEF Turns, PublishedAll
  <1>5. OneAtATime' /\ InboxStored' /\ ClosureIsCurrent'
    BY <1>1 DEF Turns, OneAtATime, InboxStored, ClosureIsCurrent, Database
  <1> QED
    BY <1>4, <1>5 DEF Turns

\* What the writer takes was the only request, and its caller gets the answer.
LEMMA TakenTurns ==
    ASSUME IInv, Turns, NextBatch, NEW r \in Reply, Answer(r)
    PROVE  /\ DOMAIN queue' = {} /\ 1 \in DOMAIN queue /\ queue[1].from \in Caller
           /\ \A c \in Caller :
                 reply'[c].result # "none" => reply'[c] = r /\ c = queue[1].from
           /\ reply'[queue[1].from] = r
  <1>1. 1 \in DOMAIN queue /\ queue[1].from \in Caller /\ queue' = <<>>
        /\ \A c \in Caller : reply[c].result = "none"
    BY Taken DEF Turns, OneAtATime
  <1> QED
    BY <1>1, EmptySeq DEF Answer, IInv, TypeOK

\* A commit adds the submission both to the table and to the document.
LEMMA WrittenInbox ==
    ASSUME IInv, Turns, NextBatch, ~failed, ~Conflict(queue[1].batch),
           log' = Append(log, Transaction(queue[1].batch)),
           answered' = Forget(queue[1].batch)
    PROVE  InboxStored'
  <1> DEFINE b == queue[1].batch
             t0 == Transaction(b)
  <1>1. /\ DOMAIN log = 1..Len(log) /\ DOMAIN log' = 1..(Len(log) + 1) /\ Len(log) \in Nat
        /\ \A i \in DOMAIN log : log'[i] = log[i]
        /\ log'[Len(log) + 1] = t0
    BY Written
  <1>2. Database(log).inbox = {s.id : s \in Database(log).rows}
    <2>1. CASE log = <<>>
      BY <2>1 DEF Database, EmptyDatabase
    <2>2. CASE log # <<>>
      <3>1. Len(log) \in DOMAIN log
        BY <1>1, <2>2, EmptySeq DEF IInv, TypeOK
      <3> QED
        BY <2>2, <3>1 DEF Database, Turns, InboxStored
    <2> QED
      BY <2>1, <2>2
  <1>3. b.op \in Operation /\ 1 \in DOMAIN queue /\ queue[1].from # Closer
    BY Taken DEF Batch
  <1>4. /\ b.op = "submit" => b.inbox = Database(log).inbox \cup {b.id}
        /\ b.op = "purge" => b.inbox = {}
    BY <1>3 DEF Turns, ClosureIsCurrent
  <1> HIDE DEF b
  <1>5. InboxAfter(b) = {s.id : s \in RowsAfter(b)}
    <2>1. CASE b.op = "submit"
      <3> DEFINE row == [key |-> b.key, id |-> b.id]
      <3>1. RowsAfter(b) = Database(log).rows \cup {row} /\ row.id = b.id
        BY <2>1 DEF RowsAfter
      <3> HIDE DEF row
      <3>2. {s.id : s \in RowsAfter(b)} = {s.id : s \in Database(log).rows} \cup {b.id}
        BY <3>1
      <3> QED
        BY <1>2, <1>4, <2>1, <3>2 DEF InboxAfter
    <2>2. CASE b.op = "progress"
      BY <1>2, <2>2 DEF InboxAfter, RowsAfter
    <2>3. CASE b.op = "purge"
      <3>1. RowsAfter(b) = {}
        BY <2>3 DEF RowsAfter
      <3> QED
        BY <1>4, <2>3, <3>1 DEF InboxAfter
    <2> QED
      BY <1>3, <2>1, <2>2, <2>3 DEF Operation
  <1>6. t0.inbox = InboxAfter(b) /\ t0.rows = RowsAfter(b)
    BY DEF Transaction
  <1> HIDE DEF t0
  <1>7. \A i \in DOMAIN log' : log'[i].inbox = {s.id : s \in log'[i].rows}
    <2> TAKE i \in DOMAIN log'
    <2>1. CASE i \in DOMAIN log
      BY <1>1, <2>1 DEF Turns, InboxStored
    <2>2. CASE i = Len(log) + 1
      BY <1>1, <1>5, <1>6, <2>2
    <2> QED
      BY <1>1, <2>1, <2>2
  <1> QED
    BY <1>7 DEF InboxStored


\* A commit whose caller still waits is the one that is not published yet.
LEMMA AcceptTurns ==
    ASSUME IInv, Turns, Accept
    PROVE  Turns'
  <1> DEFINE b == queue[1].batch
             r == [result |-> "ok", seq |-> seq + 1, batch |-> b]
             t0 == Transaction(b)
  <1>1. /\ NextBatch /\ ~failed /\ ~failed' /\ ~Conflict(b) /\ Answer(r)
        /\ log' = Append(log, t0) /\ answered' = Forget(b)
        /\ UNCHANGED <<up, published, opened>>
    BY DEF Accept, line
  <1>2. r \in Reply
    BY <1>1, Taken DEF Reply, IInv, TypeOK
  <1>3. /\ Len(log') = Len(log) + 1 /\ Len(log) \in Nat
        /\ DOMAIN log = 1..Len(log)
        /\ \A i \in DOMAIN log : log'[i] = log[i]
        /\ log'[Len(log) + 1] = t0
    BY <1>1, Written
  <1>4. seq = Len(log) /\ up
    BY <1>1 DEF NextBatch, IInv, Numbered
  <1>5. r.seq = Len(log) + 1 /\ r.batch.op = t0.op /\ r.result = "ok"
    BY <1>4 DEF Transaction
  <1>6. /\ DOMAIN queue' = {} /\ queue[1].from \in Caller
        /\ \A c \in Caller : reply'[c].result # "none" => reply'[c] = r
        /\ reply'[queue[1].from] = r
        /\ \A c \in Caller : reply[c].result = "none"
    BY <1>1, <1>2, TakenTurns, Taken
  <1>7. InboxStored'
    BY <1>1, WrittenInbox
  <1> HIDE DEF r, t0, b
  <1>8. Len(log) = opened + Len(published)
    BY <1>1, <1>4, <1>6 DEF Turns, PublishedAll
  <1>9. PublishedAll'
    <2>1. \A i \in DOMAIN published : opened + i \in DOMAIN log
      <3> TAKE i \in DOMAIN published
      <3>1. published[i].seq \in (opened + 1)..Len(log) /\ published[i].seq = opened + i
        BY <1>4 DEF IInv, PublishedInOrder, Turns, PublishedAll
      <3> QED
        BY <1>3, <3>1 DEF IInv, TypeOK
    <2>2. \A i \in DOMAIN published' :
            published'[i].seq = opened' + i /\ published'[i].batch.op = log'[opened' + i].op
      BY <1>1, <1>3, <1>4, <2>1 DEF Turns, PublishedAll
    <2>3. \A c \in Caller : reply'[c].result = "ok" =>
            /\ ~failed' /\ Len(log') = opened' + Len(published') + 1
            /\ reply'[c].seq = Len(log') /\ reply'[c].batch.op = log'[Len(log')].op
      <3> TAKE c \in Caller
      <3> HAVE reply'[c].result = "ok"
      <3>1. reply'[c] = r
        BY <1>6
      <3>2. Len(log') = opened' + Len(published') + 1
        BY <1>1, <1>3, <1>8
      <3> QED
        BY <1>1, <1>3, <1>5, <3>1, <3>2
    <2>4. ~(\A c \in Caller : reply'[c].result # "ok")
      BY <1>5, <1>6
    <2> QED
      BY <2>2, <2>3, <2>4 DEF PublishedAll
  <1>10. OneAtATime' /\ ClosureIsCurrent'
    BY <1>6 DEF OneAtATime, ClosureIsCurrent
  <1> QED
    BY <1>7, <1>9, <1>10 DEF Turns

\* After an error nothing is written or published any more.
LEMMA FaultTurns ==
    ASSUME IInv, Turns, Fault
    PROVE  Turns'
  <1> DEFINE b == queue[1].batch
             r == [result |-> "failed"]
  <1>1. /\ NextBatch /\ ~failed /\ failed' /\ Answer(r)
        /\ UNCHANGED <<up, published, opened>>
    BY DEF Fault, line
  <1>2. r \in Reply /\ up
    BY <1>1 DEF Reply, NextBatch
  <1>3. /\ DOMAIN queue' = {}
        /\ \A c \in Caller : reply'[c].result # "ok"
    BY <1>1, <1>2, TakenTurns
  <1>4. InboxStored' /\ \A i \in DOMAIN log : log'[i] = log[i]
    <2>1. CASE UNCHANGED <<durable, answered>>
      BY <2>1 DEF durable, Turns, InboxStored
    <2>2. CASE /\ ~Conflict(b) /\ log' = Append(log, Transaction(b))
               /\ answered' = Forget(b)
      BY <1>1, <2>2, Written, WrittenInbox
    <2> QED
      BY <2>1, <2>2 DEF Fault
  <1>5. PublishedAll'
    <2>1. \A i \in DOMAIN published : opened + i \in DOMAIN log
      <3> TAKE i \in DOMAIN published
      <3>1. published[i].seq \in (opened + 1)..Len(log) /\ published[i].seq = opened + i
        BY <1>2 DEF IInv, PublishedInOrder, Turns, PublishedAll
      <3> QED
        BY <3>1, Elements DEF IInv, TypeOK
    <2> QED
      BY <1>1, <1>2, <1>3, <1>4, <2>1 DEF Turns, PublishedAll
  <1>6. OneAtATime' /\ ClosureIsCurrent'
    BY <1>3 DEF OneAtATime, ClosureIsCurrent
  <1> QED
    BY <1>4, <1>5, <1>6 DEF Turns

\* A refused batch leaves everything as it was.
LEMMA RejectTurns ==
    ASSUME IInv, Turns, Reject \/ RefuseAfterFailure
    PROVE  Turns'
  <1>1. /\ NextBatch /\ UNCHANGED <<log, up, failed, published, opened>>
        /\ \E r \in Reply : r.result # "ok" /\ Answer(r)
    BY DEF Reject, RefuseAfterFailure, Reply, durable, line, history
  <1>2. DOMAIN queue' = {} /\ \A c \in Caller : reply'[c].result # "ok"
    BY <1>1, TakenTurns
  <1>3. \A c \in Caller : reply[c].result # "ok"
    BY <1>1, Taken
  <1>4. PublishedAll'
    BY <1>1, <1>2, <1>3 DEF Turns, PublishedAll
  <1>5. OneAtATime' /\ InboxStored' /\ ClosureIsCurrent'
    BY <1>1, <1>2 DEF Turns, OneAtATime, InboxStored, ClosureIsCurrent
  <1> QED
    BY <1>4, <1>5 DEF Turns

\* A power loss leaves a prefix, and every prefix stored its document.
LEMMA DownTurns ==
    ASSUME IInv, Turns, Closed \/ Crash \/ PowerLoss
    PROVE  Turns'
  <1>1. ~up' /\ queue' = <<>> /\ \A c \in Caller : reply'[c].result = "none"
    BY DEF Closed, Crash, PowerLoss, Down, NoReply
  <1>2. \A i \in DOMAIN log' : i \in DOMAIN log /\ log'[i] = log[i]
    <2>1. CASE PowerLoss
      <3>1. PICK kept \in synced..Len(log) :
              /\ log' \in Seq(Commit) /\ Len(log') = kept
              /\ \A i \in 1..kept : log'[i] = log[i]
        BY <2>1, PowerLossLog DEF IInv
      <3> QED
        BY <3>1, LenProperties DEF IInv, TypeOK
    <2>2. CASE Closed \/ Crash
      BY <2>2 DEF Closed, Crash, durable
    <2> QED
      BY <2>1, <2>2
  <1>3. OneAtATime' /\ ClosureIsCurrent' /\ PublishedAll'
    BY <1>1 DEF OneAtATime, ClosureIsCurrent, PublishedAll
  <1>4. InboxStored'
    BY <1>2 DEF Turns, InboxStored
  <1> QED
    BY <1>3, <1>4 DEF Turns

\* A line that opens has published nothing of what it opens on.
LEMMA OpenTurns ==
    ASSUME IInv, Turns, Open
    PROVE  Turns'
  <1>1. /\ opened' = Len(log) /\ queue = <<>> /\ published = <<>>
        /\ \A c \in Caller : reply[c].result = "none"
        /\ UNCHANGED <<log, failed, queue, reply, published>>
    BY DEF Open, durable, line, IInv, DownIsEmpty
  <1>2. DOMAIN published = {} /\ Len(published) = 0 /\ Len(log) \in Nat
    BY <1>1, EmptySeq, Elements DEF IInv
  <1> QED
    BY <1>1, <1>2 DEF Turns, OneAtATime, InboxStored, ClosureIsCurrent, PublishedAll

\* Turns holds at the start and after every step that drops no holder of the gate.
LEMMA TurnsInductive ==
    /\ Init => SoFar
    /\ IInv /\ SoFar /\ [Next]_vars => SoFar'
  <1>1. Init => Turns
    <2> SUFFICES ASSUME Init PROVE Turns
      OBVIOUS
    <2>1. /\ DOMAIN log = {} /\ DOMAIN queue = {} /\ DOMAIN published = {}
          /\ Len(log) = 0 /\ Len(published) = 0
      BY EmptySeq DEF Init
    <2> QED
      BY <2>1 DEF Init, NoReply, Turns, OneAtATime, InboxStored, ClosureIsCurrent, PublishedAll
  <1>2. ASSUME IInv, SoFar, [Next]_vars, dropped' = 0 PROVE Turns'
    <2>0. dropped = 0 /\ Turns
      <3>1. dropped \in Nat
        BY <1>2, BoundsAssumption DEF IInv, TypeOK
      <3>2. dropped' \in {dropped, dropped + 1}
        BY <1>2 DEF Next, Ask, Turn, Refuse, AnswerKnown, Send, SendRefused, Settle,
             SettleOk, SettleError, Drop, DropQueued, DropHolder, Seal, Close,
             CloseStorage, Write, Accept, Reject, Fault, RefuseAfterFailure, Closed,
             Crash, PowerLoss, Open, Down, vars, history
      <3> QED
        BY <1>2, <3>1, <3>2 DEF SoFar
    <2> USE <1>2, <2>0
    <2>1. ASSUME NEW c \in Caller, NEW r \in Request, Ask(c, r) PROVE Turns'
      <3>1. Quiet
        BY <2>1 DEF Ask, Quiet, durable, store, history
      <3> QED
        BY <3>1, QuietTurns
    <2>2. ASSUME NEW c \in Caller, Turn(c) PROVE Turns'
      <3>1. CASE Send(c)
        BY <3>1, SendTurns
      <3>2. CASE Refuse(c) \/ AnswerKnown(c) \/ SendRefused(c)
        <4>1. Quiet
          BY <3>2 DEF Refuse, AnswerKnown, SendRefused, Found, Mint, Quiet, durable, store, history
        <4> QED
          BY <4>1, QuietTurns
      <3> QED
        BY <2>2, <3>1, <3>2 DEF Turn
    <2>3. ASSUME NEW c \in Caller, Settle(c) PROVE Turns'
      BY <2>3, SettleOkTurns, SettleErrorTurns DEF Settle
    <2>4. ASSUME NEW c \in Caller, Drop(c) PROVE Turns'
      <3>1. CASE DropQueued(c)
        <4>1. Quiet
          BY <3>1 DEF DropQueued, Quiet, durable, store, history
        <4> QED
          BY <4>1, QuietTurns
      <3>2. CASE DropHolder(c)
        BY <3>2 DEF DropHolder
      <3> QED
        BY <2>4, <3>1, <3>2 DEF Drop
    <2>5. CASE Seal \/ Close \/ UNCHANGED vars
      <3>1. Quiet
        BY <2>5 DEF Seal, Close, Quiet, vars, durable, store, line, history
      <3> QED
        BY <3>1, QuietTurns
    <2>6. CASE CloseStorage
      BY <2>6, CloseStorageTurns
    <2>7. CASE Write
      BY <2>7, AcceptTurns, RejectTurns, FaultTurns, DownTurns DEF Write
    <2>8. CASE Crash \/ PowerLoss
      BY <2>8, DownTurns
    <2>9. CASE Open
      BY <2>9, OpenTurns
    <2> QED
      BY <2>1, <2>2, <2>3, <2>4, <2>5, <2>6, <2>7, <2>8, <2>9 DEF Next
  <1> QED
    BY <1>1, <1>2 DEF SoFar

\* A closure reads what every commit before it wrote (line.rs gate), through
\* crashes, failures and closes, until a holder of the gate is dropped.
THEOREM NoUpdateIsLost == Spec => []NoLostUpdate
  <1>1. IInv /\ SoFar => NoLostUpdate
    <2> SUFFICES ASSUME IInv, Turns PROVE NoLostUpdate
      BY DEF NoLostUpdate, SoFar
    <2>1. CASE log = <<>>
      BY <2>1 DEF NoLostUpdate, TableIds, Database, EmptyDatabase
    <2>2. CASE log # <<>>
      <3>1. Len(log) \in DOMAIN log
        BY <2>2, EmptySeq, Elements DEF IInv, TypeOK
      <3> QED
        BY <2>2, <3>1 DEF NoLostUpdate, TableIds, Database, Turns, InboxStored
    <2> QED
      BY <2>1, <2>2
  <1>2. /\ Init => SoFar
        /\ IInv /\ SoFar /\ [Next]_vars => SoFar'
    BY TurnsInductive
  <1> QED
    BY <1>1, <1>2, Invariant, PTL DEF Spec

\* Listeners see every commit of the process once, in order and under its
\* number (line.rs publish), until a holder of the gate is dropped.
THEOREM EveryCommitIsTold == Spec => []ListenersSeeTheLog
  <1>1. IInv /\ SoFar => ListenersSeeTheLog
    <2> SUFFICES ASSUME IInv, Turns, up, holder = Nobody, queue = <<>>, ~failed
                 PROVE  /\ Len(published) = Len(log) - opened
                        /\ \A i \in DOMAIN published :
                              /\ published[i].seq = opened + i
                              /\ published[i].seq = log[opened + i].seq
                              /\ published[i].batch.id = log[opened + i].id
                              /\ published[i].batch.op = log[opened + i].op
      BY DEF ListenersSeeTheLog, SoFar
    <2>1. Len(log) = opened + Len(published) /\ opened \in Nat /\ Len(published) \in Nat
      BY FreeGate, Elements DEF Turns, PublishedAll, IInv, TypeOK
    <2>2. ASSUME NEW i \in DOMAIN published
          PROVE  /\ published[i].seq = opened + i
                 /\ published[i].seq = log[opened + i].seq
                 /\ published[i].batch.id = log[opened + i].id
                 /\ published[i].batch.op = log[opened + i].op
      <3>1. published[i].seq = opened + i /\ published[i].batch.op = log[opened + i].op
        BY DEF Turns, PublishedAll
      <3>2. /\ published[i].seq \in (opened + 1)..Len(log)
            /\ published[i].batch.id = log[published[i].seq].id
        BY DEF IInv, PublishedInOrder
      <3>3. opened + i \in DOMAIN log
        BY <2>1, <3>1, <3>2, Elements DEF IInv
      <3>4. log[opened + i].seq = opened + i
        BY <3>3 DEF IInv, Numbered
      <3> QED
        BY <3>1, <3>2, <3>4
    <2> QED
      BY <2>1, <2>2
  <1>2. /\ Init => SoFar
        /\ IInv /\ SoFar /\ [Next]_vars => SoFar'
    BY TurnsInductive
  <1> QED
    BY <1>1, <1>2, Invariant, PTL DEF Spec

=============================================================================
