---------------------------- MODULE Conversations ----------------------------
(***************************************************************************)
(* The harness above the task engine: submissions, the inbox of a          *)
(* conversation, its live run, the generation tasks that drive the run,    *)
(* the hand-back of a background task's result to the conversation that    *)
(* dispatched it, and the callers that cancel a run or delete a session    *)
(* (komo-runtime/src/durable/harness/ and the gateway's lifecycle.rs).     *)
(*                                                                         *)
(* `db` is the committed state.  One action is one commit closure, or one  *)
(* read that a caller makes outside a commit and acts on later.  The       *)
(* engine is TaskEngine's: a marked task runs only its abort handler, and  *)
(* an abort handler runs when the task's own tools are over.               *)
(*                                                                         *)
(* Contents, models and answers are abstracted; so are the monitors.       *)
(***************************************************************************)
EXTENDS Integers, FiniteSets, SequencesExt

CONSTANTS
    Conversation,   \* positive integers; every one has a session of its own
    Parent,         \* the conversation that dispatches it, or NoConversation
    Drafts,         \* what clients submit to each conversation
    FollowUps,      \* what the task tool sends to a task it dispatched before
    QueueModes,     \* how many queued items a boundary takes of each mode
    Cancellable,    \* the conversations whose runs are cancelled
    Deletable,      \* the sessions that are deleted
    MaxSubmitted,   \* bound on the submissions from clients and the task tool
    Budget,         \* tool rounds of a run after which it fails
    MaxRounds,      \* bound on the tool rounds of a run
    MaxRestarts     \* bound on the number of restarts of the process

NoConversation == 0
NoTask == 0
NoSubmission == 0
NoEntry == 0

\* Where a submission comes from.  A client's request key is the number `nth`
\* (0: no key); the key of a result names the task's conversation and run.
Origin == [what : {"client", "task", "result", "continue"}, of : Nat, nth : Nat]

SubmissionDraft ==
    [kind : {"input", "write"}, mode : {"steer", "followUp", "reject"},
     head : {"none", "self", "at"}, display : BOOLEAN,
     contract : BOOLEAN, from : Origin]

ASSUME ConversationAssumption ==
    /\ Conversation \subseteq Nat \ {NoConversation}
    /\ Parent \in [Conversation -> Conversation \cup {NoConversation}]
    /\ \A c \in Conversation : Parent[c] # NoConversation =>
           /\ Parent[c] # c
           /\ Parent[Parent[c]] = NoConversation
\* A write that is for display only has no head (is_display_only); what the task tool
\* sends are inputs that wait if they must, each under the key of the call that sends
\* it, so that none is sent twice.
ASSUME DraftsAssumption ==
    /\ Drafts \in [Conversation -> SUBSET {draft \in SubmissionDraft :
            /\ draft.from.what = "client"
            /\ draft.display => draft.head = "none"}]
    /\ FollowUps \subseteq {draft \in SubmissionDraft :
            /\ draft.from.what = "task" /\ draft.from.nth = 0
            /\ draft.kind = "input" /\ draft.mode # "reject"}
ASSUME QueueModesAssumption ==
    QueueModes \subseteq [steering : {"all", "oneAtATime"}, followUp : {"all", "oneAtATime"}]
ASSUME CallersAssumption == Cancellable \subseteq Conversation /\ Deletable \subseteq Conversation
ASSUME BoundsAssumption ==
    MaxSubmitted \in Nat /\ Budget \in Nat /\ MaxRounds \in Nat /\ MaxRestarts \in Nat

VARIABLES
    db,         \* the committed state, see TypeOK
    canceller,  \* a caller of cancel_run_id or abort_run
    deleter,    \* what the deletion of a session is doing
    restarts

vars == <<db, canceller, deleter, restarts>>

NoRun == [task |-> NoTask, inputs |-> <<>>, rounds |-> 0]

\* Those of the items that are in a set, in their order.
Only(items, set) ==
    LET first[n \in 0..Len(items)] ==
            IF n = 0 THEN <<>>
            ELSE IF items[n] \in set THEN Append(first[n - 1], items[n])
            ELSE first[n - 1]
    IN  first[Len(items)]

-----------------------------------------------------------------------------
(* Submissions and the inbox. *)

\* `target` is the entry the head of a write points at, `entry` the entry the
\* submission was placed in; `run` names the run of a placed input by that run's
\* first input.  `status` "withdrawn" is unanswered{aborted} in the inbox.
WithSubmission(s, c, draft, target, status, entry) ==
    [s EXCEPT !.sub = Append(@,
        [conversation |-> c, draft |-> draft, target |-> target, status |-> status,
         entry |-> entry, run |-> NoSubmission])]

IsWrite(s, i) == s.sub[i].draft.kind = "write"
IsReset(s, i) == IsWrite(s, i) /\ s.sub[i].draft.head = "self"
Writes(s, c) == {i \in ToSet(s.inbox[c]) : IsWrite(s, i)}
InMode(s, c, mode) ==
    {i \in ToSet(s.inbox[c]) : ~IsWrite(s, i) /\ s.sub[i].draft.mode \in mode}
Steers == {"steer"}
FollowUpModes == {"followUp", "reject"}
QueuedReset(s, c) == \E i \in ToSet(s.inbox[c]) : IsReset(s, i)
Busy(s, c) == s.run[c] # NoRun

IsStale(head, target) == target # NoEntry /\ head # NoEntry /\ target < head

\* Submissions that are over stay as they are; a queued input cannot be done.
SettledAs(record, status) ==
    IF record.status = "placed" \/ (record.status = "queued" /\ status # "done")
    THEN [record EXCEPT !.status = status] ELSE record

Settle(s, ids, status) ==
    [s EXCEPT !.sub = [i \in DOMAIN s.sub |->
        IF i \in ids THEN SettledAs(s.sub[i], status) ELSE s.sub[i]]]

-----------------------------------------------------------------------------
(* Runs and boundaries. *)

CreateGeneration(s, c, first) ==
    [s EXCEPT !.gen = Append(@,
        [conversation |-> c, run |-> first, phase |-> "request", marked |-> FALSE])]

StartRun(s, c, inputs) ==
    IF inputs = <<>> THEN s
    ELSE [CreateGeneration(s, c, Head(inputs)) EXCEPT
            !.run[c] = [task |-> Len(s.gen) + 1, inputs |-> inputs, rounds |-> 0],
            !.sub = [i \in DOMAIN @ |->
                IF i \in ToSet(inputs) THEN [@[i] EXCEPT !.run = Head(inputs)] ELSE @[i]]]

\* Mutant of Taken: one at a time from the wrong end.
TakenLast(items, queueMode) ==
    IF queueMode = "oneAtATime" /\ items # <<>> THEN <<Last(items)>> ELSE items
Taken(items, queueMode) ==
    IF queueMode = "oneAtATime" /\ items # <<>> THEN <<Head(items)>> ELSE items

\* The inputs a boundary selects, in submission order.
Selected(s, c, final, modes) ==
    LET items == s.inbox[c]
        steers == Taken(Only(items, InMode(s, c, Steers)), modes.steering)
        followUps == Taken(Only(items, InMode(s, c, FollowUpModes)), modes.followUp)
        chosen == ToSet(steers) \cup IF final THEN ToSet(followUps) ELSE {}
    IN  Only(items, chosen)

\* Queued writes land first, in order, and move the head as they land; one whose
\* target fell out of the context meanwhile is stale.  heads[n] is the head
\* after the first n writes.
Heads(s, c, writes) ==
    LET heads[n \in 0..Len(writes)] ==
            IF n = 0 THEN s.head[c]
            ELSE LET write == s.sub[writes[n]]
                 IN  CASE write.draft.head = "none" -> heads[n - 1]
                       [] write.draft.head = "self" -> s.entries + n
                       [] write.draft.head = "at" ->
                            IF IsStale(heads[n - 1], write.target) THEN heads[n - 1]
                            ELSE write.target
    IN  heads

\* What a boundary places: every write, then the selected inputs.
Placed(s, c, writes, users) ==
    LET heads == Heads(s, c, writes)
        place(i) ==
            IF i \in ToSet(writes)
            THEN LET n == CHOOSE n \in DOMAIN writes : writes[n] = i
                 IN  IF IsStale(heads[n - 1], s.sub[i].target)
                     THEN SettledAs(s.sub[i], "unanswered")
                     ELSE [s.sub[i] EXCEPT !.status = "done", !.entry = s.entries + n]
            ELSE IF i \in ToSet(users)
            THEN LET n == CHOOSE n \in DOMAIN users : users[n] = i
                 IN  [s.sub[i] EXCEPT !.status = "placed",
                                      !.entry = s.entries + Len(writes) + n]
            ELSE s.sub[i]
    IN  [s EXCEPT !.sub = [i \in DOMAIN s.sub |-> place(i)],
                  !.head[c] = heads[Len(writes)],
                  !.entries = @ + Len(writes) + Len(users),
                  !.inbox[c] = Only(@, ToSet(@) \ (ToSet(writes) \cup ToSet(users)))]

\* at is "final" or "postTools"; a queued reset makes any boundary final.
ApplyBoundary(s, c, at, modes) ==
    LET reset == QueuedReset(s, c)
        writes == Only(s.inbox[c], Writes(s, c))
        users == Selected(s, c, at = "final" \/ reset, modes)
    IN  [db |-> Placed(s, c, writes, users), users |-> users, reset |-> reset]

\* The boundary of a run that is over: what it places starts the next run.
Successor(s, c, modes) ==
    LET placed == ApplyBoundary(s, c, "final", modes)
    IN  StartRun(placed.db, c, placed.users)

-----------------------------------------------------------------------------
(* Admission and withdrawal. *)

Known(s, c, draft) ==
    draft.from.nth # 0 /\
    \E i \in DOMAIN s.sub : s.sub[i].conversation = c /\ s.sub[i].draft.from = draft.from

Enqueue(s, c, draft, target) ==
    [WithSubmission(s, c, draft, target, "queued", NoEntry)
        EXCEPT !.inbox[c] = Append(@, Len(s.sub) + 1)]

\* A write that lands at once, in an entry of its own.
LandWrite(s, c, draft, target) ==
    LET entry == s.entries + 1
    IN  [WithSubmission(s, c, draft, target, "done", entry) EXCEPT
            !.entries = entry,
            !.head[c] = CASE draft.head = "none" -> @
                          [] draft.head = "self" -> entry
                          [] draft.head = "at" -> target]

\* An input of an idle conversation is placed and starts a run.
PlaceIdleInput(s, c, draft) ==
    LET entry == s.entries + 1
    IN  StartRun([WithSubmission(s, c, draft, NoEntry, "placed", entry)
                    EXCEPT !.entries = entry], c, <<Len(s.sub) + 1>>)

\* One closure of `admit`; target is the entry an "at" write points at.
Admit(s, c, draft, target, modes) ==
    LET write == draft.kind = "write"
        reject == ~write /\ draft.mode = "reject"
    IN  IF Known(s, c, draft) THEN s
        ELSE IF write /\ draft.display /\ ~QueuedReset(s, c)
        THEN LandWrite(s, c, draft, target)
        ELSE IF Busy(s, c)
        THEN IF reject THEN s ELSE Enqueue(s, c, draft, target)
        ELSE IF s.inbox[c] # <<>>
        THEN Successor(Enqueue(s, c, draft, target), c, modes)
        ELSE IF ~write
        THEN PlaceIdleInput(s, c, draft)
        ELSE IF IsStale(s.head[c], target)
        THEN WithSubmission(s, c, draft, target, "unanswered", NoEntry)
        ELSE LandWrite(s, c, draft, target)

Withdraw(s, i) ==
    IF s.sub[i].status # "queued" THEN s
    ELSE [s EXCEPT !.sub[i].status = "withdrawn",
                   !.inbox[s.sub[i].conversation] = Only(@, ToSet(@) \ {i})]

-----------------------------------------------------------------------------
(* The end of a run, and what a background task hands back. *)

ResultDraft(c, first) ==
    [kind |-> "input", mode |-> "steer", head |-> "none", display |-> FALSE,
     contract |-> FALSE,
     from |-> [what |-> "result", of |-> c, nth |-> first]]

\* Continuations are placed directly; their draft has no request key in the code.
ContinueDraft(c, first) ==
    [ResultDraft(c, first) EXCEPT !.from.what = "continue"]

IsTask(s, c) == Parent[c] # NoConversation /\ s.doc[c].born

\* The result of a run that began with `first` goes to the conversation that
\* dispatched c, unless that one's session is being deleted.
Report(s, c, first, modes) ==
    IF ~IsTask(s, c) THEN s
    ELSE LET noted == [s EXCEPT !.doc[c].contracts = @ \ {first}]
         IN  IF s.lifecycle[Parent[c]] # "active" THEN noted
             ELSE Admit(noted, Parent[c], ResultDraft(c, first), NoEntry, modes)

SettleRun(s, c, status) ==
    [Settle(s, ToSet(s.run[c].inputs), status) EXCEPT !.run[c] = NoRun]

Drives(s, g) == s.run[s.gen[g].conversation].task = g

\* The run that g drives is over; nothing happens if g drives none.
EndRun(s, g, status, modes) ==
    LET c == s.gen[g].conversation
    IN  IF ~Drives(s, g) THEN s
        ELSE Report(SettleRun(s, c, status), c, Head(s.run[c].inputs), modes)

\* Mutant of EndRunAbnormal: what waits in the inbox is left there.
EndRunAbnormalOnly(s, g, modes) == EndRun(s, g, "unanswered", modes)

EndRunAbnormal(s, g, modes) ==
    IF ~Drives(s, g) THEN s
    ELSE Successor(EndRun(s, g, "unanswered", modes), s.gen[g].conversation, modes)

\* Mutant of Continues: a continuation may be continued.
ContinuesAgain(s, c, first, waiting, unstated) ==
    IsTask(s, c) /\ ~waiting /\ unstated /\ first \notin s.doc[c].contracts

\* A task whose answer does not state that it is done or blocked goes on once by
\* itself, unless inputs are waiting to be its next run.
Continues(s, c, first, waiting, unstated) ==
    /\ IsTask(s, c) /\ ~waiting /\ unstated
    /\ s.doc[c].continued # first
    /\ first \notin s.doc[c].contracts

EndAnsweredRun(s, g, unstated, modes) ==
    LET c == s.gen[g].conversation
        placed == ApplyBoundary(s, c, "final", modes)
        waiting == placed.users # <<>> \/ placed.db.inbox[c] # <<>>
        first == Head(s.run[c].inputs)
    IN  IF Drives(s, g) /\ Continues(s, c, first, waiting, unstated)
        THEN [PlaceIdleInput(SettleRun(placed.db, c, "done"), c, ContinueDraft(c, first))
                EXCEPT !.doc[c].continued = Len(s.sub) + 1]
        ELSE StartRun(EndRun(placed.db, g, "done", modes), c, placed.users)

-----------------------------------------------------------------------------
(* Generation tasks. *)

\* The mark of a task that is over has no meaning any more and is forgotten.
GenerationOver(s, g) == [s EXCEPT !.gen[g].phase = "over", !.gen[g].marked = FALSE]
Alive(s, g) == s.gen[g].phase # "over"
InPhase(g, phase) == db.gen[g].phase = phase /\ ~db.gen[g].marked
RoundsBelow(g, limit) == Drives(db, g) => db.run[db.gen[g].conversation].rounds < limit
InBudget(g) == RoundsBelow(g, Budget)

OnlyDb == UNCHANGED <<canceller, deleter, restarts>>
Waiting(c) == ToSet(db.inbox[c])

Answer(g) ==
    /\ InPhase(g, "request") /\ InBudget(g)
    /\ \E unstated \in BOOLEAN, modes \in QueueModes :
           db' = GenerationOver(EndAnsweredRun(db, g, unstated, modes), g)
    /\ OnlyDb

\* No model, an error of the model, a budget that is used up.
Fail(g) ==
    /\ InPhase(g, "request")
    /\ \E modes \in QueueModes : db' = GenerationOver(EndRunAbnormal(db, g, modes), g)
    /\ OnlyDb

\* The answer calls tools.  The groups of one round are one phase here.
StartToolRound(g) ==
    /\ InPhase(g, "request") /\ InBudget(g) /\ RoundsBelow(g, MaxRounds)
    /\ db' = [db EXCEPT !.gen[g].phase = "tools",
                        !.run[db.gen[g].conversation].rounds =
                            IF Drives(db, g) THEN @ + 1 ELSE @]
    /\ OnlyDb

\* The run goes on in the newest generation task, with what was placed for it.
JoinRun(s, c, users) ==
    [s EXCEPT !.run[c].task = Len(s.gen), !.run[c].inputs = @ \o users,
              !.sub = [i \in DOMAIN @ |->
                IF i \in ToSet(users) THEN [@[i] EXCEPT !.run = Head(s.run[c].inputs)]
                ELSE @[i]]]

\* The tools of the round are over: steers join the run, which goes on in a new
\* generation; a reset ends the run, since it cuts off its context.
RoundFinished(s, g, modes) ==
    LET c == s.gen[g].conversation
        placed == ApplyBoundary(s, c, "postTools", modes)
        first == IF Busy(s, c) THEN Head(s.run[c].inputs) ELSE NoSubmission
        next == CreateGeneration(placed.db, c, first)
    IN  IF placed.reset
        THEN StartRun(EndRun(placed.db, g, "unanswered", modes), c, placed.users)
        ELSE IF Drives(s, g) THEN JoinRun(next, c, placed.users) ELSE next

FinishRound(g) ==
    /\ InPhase(g, "tools")
    /\ \E modes \in QueueModes : db' = GenerationOver(RoundFinished(db, g, modes), g)
    /\ OnlyDb

\* The abort handler, once the tools below are over.
AbortHandler(g) ==
    /\ Alive(db, g) /\ db.gen[g].marked
    /\ \E modes \in QueueModes : db' = GenerationOver(EndRunAbnormal(db, g, modes), g)
    /\ OnlyDb

\* The scheduler writes the task's outcome: a handler that failed, or a kind that
\* cannot go on after a restart.
SchedulerOutcome(g) ==
    /\ Alive(db, g)
    /\ \E modes \in QueueModes : db' = GenerationOver(EndRunAbnormal(db, g, modes), g)
    /\ OnlyDb

-----------------------------------------------------------------------------
(* What comes in: submissions of clients, and the task tool of a run. *)

FromOutside(s) == {i \in DOMAIN s.sub : s.sub[i].draft.from.what \in {"client", "task"}}
Room == Cardinality(FromOutside(db)) < MaxSubmitted
Exists(c) == Parent[c] = NoConversation \/ db.doc[c].born
PlacedEntries(c) ==
    {db.sub[i].entry : i \in {j \in DOMAIN db.sub : db.sub[j].conversation = c}} \ {NoEntry}
Targets(c, draft) == IF draft.head = "at" THEN PlacedEntries(c) ELSE {NoEntry}

\* Mutant of Submit: the lifecycle was looked at before the commit, not in it.
SubmitAnyway(c, draft) ==
    /\ Room /\ Exists(c)
    /\ \E target \in Targets(c, draft), modes \in QueueModes :
           db' = Admit(db, c, draft, target, modes)
    /\ OnlyDb

\* The gateway's submit looks at the session's lifecycle in the same commit.
Submit(c, draft) ==
    /\ Room /\ Exists(c) /\ db.lifecycle[c] = "active"
    /\ \E target \in Targets(c, draft), modes \in QueueModes :
           db' = Admit(db, c, draft, target, modes)
    /\ OnlyDb

WithContract(s, c, draft) ==
    IF draft.contract THEN [s EXCEPT !.doc[c].contracts = @ \cup {Len(s.sub)}] ELSE s

\* A tool of generation g dispatches c: session, first input and run in one commit.
Spawn(g, c, draft) ==
    /\ Room /\ db.gen[g].phase = "tools"
    /\ Parent[c] = db.gen[g].conversation /\ ~db.doc[c].born
    /\ LET born == [db EXCEPT !.doc[c].born = TRUE, !.doc[c].anchored = TRUE]
       IN  db' = WithContract(PlaceIdleInput(born, c, draft), c, draft)
    /\ OnlyDb

\* A tool of generation g sends more work to a task it dispatched before.
Follow(g, c, draft) ==
    /\ Room /\ db.gen[g].phase = "tools"
    /\ Parent[c] = db.gen[g].conversation /\ db.doc[c].born
    /\ \E modes \in QueueModes :
           db' = WithContract(Admit(db, c, draft, NoEntry, modes), c, draft)
    /\ OnlyDb

\* The anchor task of c is completing until its conversation is quiet.
Quiet(s, c) == \A g \in DOMAIN s.gen : s.gen[g].conversation = c => ~Alive(s, g)
AnchorEnds(c) ==
    /\ db.doc[c].anchored /\ Quiet(db, c)
    /\ db' = [db EXCEPT !.doc[c].anchored = FALSE]
    /\ OnlyDb

-----------------------------------------------------------------------------
(* Cancelling a run: the reads are outside the commits. *)

Mark(s, tasks) ==
    [s EXCEPT !.gen = [g \in DOMAIN @ |->
        IF g \in tasks /\ Alive(s, g) THEN [@[g] EXCEPT !.marked = TRUE] ELSE @[g]]]

NoCanceller ==
    [stage |-> "idle", of |-> NoSubmission, conversation |-> NoConversation,
     target |-> NoSubmission, last |-> NoTask]

\* cancel_run_id reads the submission first ...
CancelRunId(i) ==
    /\ canceller.stage = "idle"
    /\ db.sub[i].conversation \in Cancellable /\ db.sub[i].draft.kind = "input"
    /\ db.sub[i].status \in {"queued", "placed"}
    /\ canceller' = [NoCanceller EXCEPT
            !.stage = IF db.sub[i].status = "queued" THEN "withdraw" ELSE "read",
            !.of = i, !.conversation = db.sub[i].conversation]
    /\ UNCHANGED <<db, deleter, restarts>>

\* Mutant of CancelQueued: it tries until it has withdrawn.
CancelQueuedRetries ==
    /\ canceller.stage = "withdraw"
    /\ db' = Withdraw(db, canceller.of)
    /\ canceller' = [canceller EXCEPT
            !.stage = IF db.sub[canceller.of].status = "queued" THEN "returned" ELSE @]
    /\ UNCHANGED <<deleter, restarts>>

\* ... and withdraws it while it is queued; one that was placed meanwhile is aborted.
CancelQueued ==
    /\ canceller.stage = "withdraw"
    /\ db' = Withdraw(db, canceller.of)
    /\ canceller' = [canceller EXCEPT
            !.stage = IF db.sub[canceller.of].status = "placed" THEN "read" ELSE "returned"]
    /\ UNCHANGED <<deleter, restarts>>

\* abort_run of a conversation.
CancelCurrent(c) ==
    /\ canceller.stage = "idle" /\ Exists(c)
    /\ canceller' = [NoCanceller EXCEPT !.stage = "read", !.conversation = c]
    /\ UNCHANGED <<db, deleter, restarts>>

\* Each turn of its loop reads the live run, marks its task and waits for it.
AbortRunReads ==
    LET run == db.run[canceller.conversation]
        over == \/ run = NoRun
                \/ canceller.target \notin {NoSubmission, Head(run.inputs)}
                \/ canceller.last = run.task
    IN  /\ canceller.stage = "read"
        /\ canceller' =
              IF over THEN [canceller EXCEPT !.stage = "returned"]
              ELSE [canceller EXCEPT !.stage = "mark", !.target = Head(run.inputs),
                                     !.last = run.task]
        /\ UNCHANGED <<db, deleter, restarts>>

AbortRunMarks ==
    /\ canceller.stage = "mark"
    /\ db' = Mark(db, {canceller.last})
    /\ canceller' = [canceller EXCEPT !.stage = "wait"]
    /\ UNCHANGED <<deleter, restarts>>

AbortRunWaited ==
    /\ canceller.stage = "wait" /\ ~Alive(db, canceller.last)
    /\ canceller' = [canceller EXCEPT !.stage = "read"]
    /\ UNCHANGED <<db, deleter, restarts>>

CancelReturns ==
    /\ canceller.stage = "returned"
    /\ canceller' = NoCanceller
    /\ UNCHANGED <<db, deleter, restarts>>

CancelStep ==
    CancelQueued \/ AbortRunReads \/ AbortRunMarks \/ AbortRunWaited \/ CancelReturns

-----------------------------------------------------------------------------
(* Deleting a session: delete_session, and finish_closing which goes on with it. *)

NoDeleter ==
    [stage |-> "idle", now |-> FALSE, items |-> <<>>, waiting |-> {}, anchors |-> {}]

Closing(d) ==
    /\ deleter[d].stage = "idle" /\ Exists(d) /\ db.lifecycle[d] = "active"
    /\ db' = [db EXCEPT !.lifecycle[d] = "closing"]
    /\ \E now \in BOOLEAN :
           deleter' = [deleter EXCEPT ![d].stage = "inbox", ![d].now = now]
    /\ UNCHANGED <<canceller, restarts>>

\* finish_closing takes a session up that stayed closing; so does a second deletion.
FinishClosing(d) ==
    /\ deleter[d].stage = "idle" /\ db.lifecycle[d] = "closing"
    /\ \E now \in BOOLEAN :
           deleter' = [deleter EXCEPT ![d].stage = "inbox", ![d].now = now]
    /\ UNCHANGED <<db, canceller, restarts>>

ReadInbox(d) ==
    /\ deleter[d].stage = "inbox"
    /\ deleter' = [deleter EXCEPT ![d].stage = "withdraw",
            ![d].items = Only(db.inbox[d], Waiting(d) \ Writes(db, d))]
    /\ UNCHANGED <<db, canceller, restarts>>

WithdrawNext(d) ==
    /\ deleter[d].stage = "withdraw" /\ deleter[d].items # <<>>
    /\ db' = Withdraw(db, Head(deleter[d].items))
    /\ deleter' = [deleter EXCEPT ![d].items = Tail(@)]
    /\ UNCHANGED <<canceller, restarts>>

\* abort_conversation across the background boundary: the tasks it dispatched too.
Below(d) ==
    {g \in DOMAIN db.gen : LET c == db.gen[g].conversation
                          IN  Alive(db, g) /\ (c = d \/ Parent[c] = d)}

Anchored(d) == {c \in Conversation : Parent[c] = d /\ db.doc[c].anchored}

AbortBelow(d) ==
    /\ deleter[d].stage = "withdraw" /\ deleter[d].items = <<>> /\ deleter[d].now
    /\ db' = Mark(db, Below(d))
    /\ deleter' = [deleter EXCEPT ![d].stage = "check", ![d].waiting = Below(d),
                                       ![d].anchors = Anchored(d)]
    /\ UNCHANGED <<canceller, restarts>>

NothingToAbort(d) ==
    /\ deleter[d].stage = "withdraw" /\ deleter[d].items = <<>> /\ ~deleter[d].now
    /\ deleter' = [deleter EXCEPT ![d].stage = "check"]
    /\ UNCHANGED <<db, canceller, restarts>>

\* Mutant of WorkRemains: tasks that are over count as well.
WorkRemainsEver(d) ==
    \/ Busy(db, d)
    \/ Waiting(d) # Writes(db, d)
    \/ \E g \in DOMAIN db.gen : db.gen[g].conversation = d
    \/ Anchored(d) # {}

WorkRemains(d) ==
    \/ Busy(db, d)
    \/ Waiting(d) # Writes(db, d)
    \/ ~Quiet(db, d)
    \/ Anchored(d) # {}

\* With work left, a deletion with `now` goes round again some times (8 in the
\* code) before it leaves the rest to finish_closing.
CheckWork(d) ==
    /\ deleter[d].stage = "check"
    /\ \A g \in deleter[d].waiting : ~Alive(db, g)
    /\ deleter[d].anchors \cap Anchored(d) = {}
    /\ \E next \in {NoDeleter} \cup [stage : {"deleted", "inbox"}, now : BOOLEAN,
                                    items : {<<>>}, waiting : {{}}, anchors : {{}}] :
           /\ next.stage = "deleted" <=> ~WorkRemains(d)
           /\ next.stage = "inbox" => next.now
           /\ next # NoDeleter => next.now = deleter[d].now
           /\ deleter' = [deleter EXCEPT ![d] = next]
    /\ UNCHANGED <<db, canceller, restarts>>

Deleted(d) ==
    /\ deleter[d].stage = "deleted"
    /\ db' = [db EXCEPT !.lifecycle[d] = "deleted"]
    /\ deleter' = [deleter EXCEPT ![d] = NoDeleter]
    /\ UNCHANGED <<canceller, restarts>>

DeleteStep(d) ==
    \/ FinishClosing(d) \/ ReadInbox(d) \/ WithdrawNext(d) \/ AbortBelow(d)
    \/ NothingToAbort(d) \/ CheckWork(d) \/ Deleted(d)

-----------------------------------------------------------------------------
(* The specification. *)

\* The process goes down and comes back: callers are gone, tasks go on.
Restart ==
    /\ restarts < MaxRestarts
    /\ restarts' = restarts + 1
    /\ canceller' = NoCanceller
    /\ deleter' = [d \in Deletable |-> NoDeleter]
    /\ UNCHANGED db

NoDoc == [born |-> FALSE, anchored |-> FALSE, continued |-> NoSubmission, contracts |-> {}]

Init ==
    /\ db = [sub |-> <<>>, inbox |-> [c \in Conversation |-> <<>>],
             run |-> [c \in Conversation |-> NoRun], gen |-> <<>>,
             head |-> [c \in Conversation |-> NoEntry], entries |-> 0,
             doc |-> [c \in Conversation |-> NoDoc],
             lifecycle |-> [c \in Conversation |-> "active"]]
    /\ canceller = NoCanceller
    /\ deleter = [d \in Deletable |-> NoDeleter]
    /\ restarts = 0

HandlerStep(g) ==
    \/ Answer(g) \/ Fail(g) \/ StartToolRound(g) \/ FinishRound(g) \/ AbortHandler(g)

Next ==
    \/ \E c \in Conversation : \E draft \in Drafts[c] : Submit(c, draft)
    \/ \E g \in DOMAIN db.gen : HandlerStep(g) \/ SchedulerOutcome(g)
    \/ \E g \in DOMAIN db.gen, c \in Conversation, draft \in FollowUps :
           Spawn(g, c, draft) \/ Follow(g, c, draft)
    \/ \E c \in Conversation : AnchorEnds(c)
    \/ \E c \in Cancellable : CancelCurrent(c)
    \/ \E i \in DOMAIN db.sub : CancelRunId(i)
    \/ CancelStep
    \/ \E d \in Deletable : Closing(d) \/ DeleteStep(d)
    \/ Restart

Spec == Init /\ [][Next]_vars

\* A generation task that is live takes its next step: a model answers or fails, a
\* tool ends or is stopped, a handler is started again after a restart, or fails.
\* One of these is always possible, so this is weak fairness, stated by what the
\* steps have in common.
Progress(c) ==
    \E g \in DOMAIN db.gen :
        /\ db.gen[g].conversation = c
        /\ db'.gen[g].phase # db.gen[g].phase
HandlersMove(c) == []<>Quiet(db, c) \/ []<><<Progress(c)>>_vars

\* Callers are polled, and finish_closing is called again and again.
FairSpec ==
    /\ Spec
    /\ \A c \in Conversation : HandlersMove(c) /\ WF_vars(AnchorEnds(c))
    /\ WF_vars(CancelStep)
    /\ \A d \in Deletable : WF_vars(DeleteStep(d))

-----------------------------------------------------------------------------
(* Properties. *)

Submissions == DOMAIN db.sub
Of(c) == {i \in Submissions : db.sub[i].conversation = c}
Running(c) == ToSet(db.run[c].inputs)
Unsettled(i) == i \in Submissions /\ db.sub[i].status \in {"queued", "placed"}
Distinct(q) == Cardinality(ToSet(q)) = Len(q)

SubmissionRecord ==
    [conversation : Conversation, draft : SubmissionDraft, target : Nat,
     status : {"queued", "placed", "done", "unanswered", "withdrawn"},
     entry : Nat, run : Nat]
GenerationRecord ==
    [conversation : Conversation, run : Nat, phase : {"request", "tools", "over"},
     marked : BOOLEAN]

RunRecord == [task : Nat, inputs : Seq(Nat), rounds : 0..MaxRounds]
TaskDoc == [born : BOOLEAN, anchored : BOOLEAN, continued : Nat, contracts : SUBSET Nat]
Database ==
    [sub : Seq(SubmissionRecord), gen : Seq(GenerationRecord),
     inbox : [Conversation -> Seq(Nat)], run : [Conversation -> RunRecord],
     head : [Conversation -> Nat], entries : Nat, doc : [Conversation -> TaskDoc],
     lifecycle : [Conversation -> {"active", "closing", "deleted"}]]

CancellerRecord ==
    [stage : {"idle", "withdraw", "read", "mark", "wait", "returned"}, of : Nat,
     conversation : Conversation \cup {NoConversation}, target : Nat, last : Nat]
DeleterRecord ==
    [stage : {"idle", "inbox", "withdraw", "check", "deleted"}, now : BOOLEAN,
     items : Seq(Nat), waiting : SUBSET Nat, anchors : SUBSET Conversation]

TypeOK ==
    /\ db \in Database
    /\ \A c \in Conversation :
         db.head[c] <= db.entries /\ db.doc[c].contracts \subseteq Submissions
    /\ canceller \in CancellerRecord
    /\ deleter \in [Deletable -> DeleterRecord]
    /\ \A d \in Deletable : deleter[d].waiting \subseteq DOMAIN db.gen
    /\ restarts \in 0..MaxRestarts

\* A submission is in exactly one place: it waits in its inbox, belongs to the
\* live run, or is over; and nothing waits in the inbox of an idle conversation.
InputsAccounted ==
    \A c \in Conversation :
        /\ Distinct(db.inbox[c]) /\ Waiting(c) = {i \in Of(c) : db.sub[i].status = "queued"}
        /\ Distinct(db.run[c].inputs)
        /\ Running(c) = {i \in Of(c) : db.sub[i].status = "placed"}
        /\ ~Busy(db, c) => db.inbox[c] = <<>>

\* A reset cuts off what came before it: what is sent after it lands after it,
\* and no input of a live run lies before a reset that has landed.
ResetCutsOff ==
    \A r \in Submissions : IsReset(db, r) =>
        /\ \A j \in Of(db.sub[r].conversation) :
             j > r /\ db.sub[j].entry # NoEntry =>
                db.sub[r].status = "done" /\ db.sub[r].entry < db.sub[j].entry
        /\ \A i \in Running(db.sub[r].conversation) :
             db.sub[r].status = "done" => db.sub[r].entry < db.sub[i].entry

\* A background task hands each of its runs back to its parent once, or goes on
\* by itself once; nothing is handed back before the run is over.
From(what, c, first) ==
    {i \in Submissions : db.sub[i].draft.from = [what |-> what, of |-> c, nth |-> first]}
RunsOf(c) == {i \in Of(c) : db.sub[i].run = i}
TaskRunsHandBack ==
    \A c \in {c \in Conversation : Parent[c] # NoConversation} :
        \A first \in RunsOf(c) :
            LET results == From("result", c, first)
                continuations == From("continue", c, first)
                handed == Cardinality(results \cup continuations)
            IN  IF first \in Running(c) THEN handed = 0
                ELSE /\ handed = 1 \/ (handed = 0 /\ db.lifecycle[Parent[c]] # "active")
                     /\ results \subseteq Of(Parent[c])
                     /\ db.sub[first].draft.from.what = "continue" => continuations = {}

\* A deleted session is quiet: no run, and no input waiting to become one.
DeletedIsQuiet ==
    \A d \in Deletable : db.lifecycle[d] = "deleted" =>
        ~Busy(db, d) /\ \A i \in Waiting(d) : IsWrite(db, i)

\* Every submission is answered, refused or withdrawn in the end.
EverySubmissionSettles == \A i \in 1..MaxSubmitted : Unsettled(i) ~> ~Unsettled(i)

\* A caller that cancels gets its answer, unless the process goes down.
CancelConcludes == canceller.stage # "idle" ~> canceller.stage = "idle"

\* A deletion that has begun is completed, across restarts.
DeletionConcludes ==
    \A d \in Deletable : db.lifecycle[d] = "closing" ~> db.lifecycle[d] = "deleted"
=============================================================================
