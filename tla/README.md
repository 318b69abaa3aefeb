# Verification of komo's durable core

komo runs agents whose conversations survive the process: everything a run decides goes
through one durable task engine, on top of one commit line, on top of one database.
This directory holds TLA+ modules for that core, the TLC runs that check them on small
instances, and proofs of their central properties for every value of the constants.

1. [The system](#1-the-system): the components, their state, and where they are hard
2. [Modules and code](#2-modules-and-code): which module models what, and how
3. [Runs](#3-runs): what each run checks, its bounds, the fairness assumed
4. [Proofs](#4-proofs): what is proved, from what, and how
5. [Findings](#5-where-code-and-documentation-disagree)
6. [Limits](#6-what-is-not-modelled): what is only model-checked, and what is left out
7. [Plan](#7-plan)

To repeat the checks: `tlc -config EngineWaits.cfg MCTaskEngine` (and likewise for every
run of section 3), `tlapm TaskEngineForest.tla` (and every proof module of section 4).

---------------------------------------------------------------------------------------

## 1. The system

Paths are relative to `src/crates/`.

### 1.1 From the bottom up

| component | code | state | operations | what makes it hard |
|---|---|---|---|---|
| store line | `komo-store/src/durable/line.rs`, `write.rs`, `ids.rs` | the SQLite tables; `Writer.{seq, persisted_max_id, sync}`; the ID counter; `Shared.failed` | `commit`, `close`, `open` | a COMMIT whose outcome is unknown, power loss against `synchronous=OFF`, IDs after a purge |
| commit line | `komo-runtime/src/durable/line.rs` | gate, `LineState.{sealed, fault}`, listeners | `commit`, `seal`, `fail`, `finish_close`, `read_on_line` | callers dropped at any await, a close among queued commits, order of publications |
| commit builder | `komo-runtime/src/durable/tx.rs` | the staged writes of one commit | `create_task`, `set_task`, `append`, `assemble` ... | checks against the *final* candidates of the commit |
| task engine | `komo-runtime/src/durable/scheduler.rs`, `komo-kernel/src/durable/task/` | task records, ownership forest, invocations, dirty / reconcile flags, abandoned set | `reserve`, `step`, `commit_state`, `reconcile`, `abort`, `fault_idle`, `open`, `resume` | handlers, aborts, cascades and repairs interleave; everything must come back after a crash |
| inbox and live run | `komo-runtime/src/durable/harness/{inbox,live,submit,outcome}.rs` | submissions, the inbox and live documents of a conversation | `submit`, `apply_boundary`, `withdraw`, `abort_run` | a message arrives while a run starts, ends, is aborted or hands over |
| generation task | `harness/generation.rs`, `hooks.rs` | checkpoint of the run's phases | prepare, request, tools, finish | every ending of a run must place what waits; replays of a phase after a crash |
| tool task | `harness/tool.rs`, `confirm.rs`, `komo-store/src/tool_output.rs` | checkpoint (`call`, `confirm`, `execute`, `probe`), the confirmation document, `output.json` per attempt, result entries | intent -> run -> publish -> commit, recovery, cancellation | an effect that ran but was not recorded; a child that outlives the process; an operator who answers late |
| nested calls | `harness/codemode.rs`, `nested.rs`, `komo-runtime/src/codemode/` | memos of readings, `komo.nested` documents, the worker | run a script again from its first line on top of what is on record | a replay that goes another way than the records |
| orchestration | `harness/orchestration/` | child sessions, monitors, reports | spawn, follow, hand back, monitor ticks | a child's end against its parent's, follow-ups against the end of a run |
| compaction | `harness/compaction/` | one compaction task per conversation | plan, summarise, place | a summary placed into a conversation that moved on |
| context | `komo-kernel/src/durable/context.rs`, `fork.rs`, `fold/` | none: pure functions of entries | fork chain, folds, projections | which entries a fork sees, what a head marker hides |
| gateway | `komo-gateway/src/service/durable/` | sessions, branches, watchers | submit, cancel, delete, purge, navigate | callers that read first and act later; deletion against running work |
| event feed | `komo-gateway/src/{service/durable/feed,sse,http/v2/events}.rs`, `komo-kernel/src/durable/legacy_events.rs`; the clients' `komo-client/src/sse.rs`, `packages/api/src/sse.ts` | queue of batches, projections of sessions, buffers of subscribers; a cursor in every client | project, seed, push, evict; page, subscribe, back-fill, catch up, reconnect | a session is read in pieces while commits go on; back-fill meeting live events; buffers that overflow |
| deliveries | `komo-gateway/src/deliveries.rs`, `service/durable/watch.rs` | outbox rows, watchers and waiters in memory | record, send, settle, flush, replay | sent but not settled; settled but not recorded; many who ask for one reply |
| cron | `komo-runtime/src/scheduler/cron.rs`, `komo-gateway/src/service/durable/{cron,cron_watch}.rs` | jobs, firings; sessions in another database | claim, fire, record, advance, watch, recover | a crash between any two |
| dispatcher, channels, providers, tools, memory, configuration, user interfaces, command line | see `PROJECT.json` | mostly none that is durable | I/O | protocols and formats |

### 1.2 How they interact

Every durable change is a **commit closure**: a caller hands the commit line a closure,
the line runs it alone against the committed state, the closure stages writes in the
builder, the batch is sent to the store line's writer task, and on success the line calls
its listeners synchronously before it lets the next closure in. The scheduler is such a
listener: a published task write kicks its drain loop (a reservation commit that starts
whatever can run) and its reconcile loop (a commit that passes cancellation down and lets
held outcomes out). A started task is a tokio task that runs one phase handler at a time;
handlers, in turn, commit through the same line, gated by the task's status and abort
mark. The harness is a set of handlers and of documents kept by such commits; the gateway
calls the harness and reads what was published.

So the system has a single point of order (the line) and concurrency everywhere else:
between the moments at which handlers, aborts, repairs, the drain and the reconcile loop
get their turn, and between all of them and a crash.

### 1.3 What makes each component correct

* **Store line.** The database is always a prefix of the history of commits, and never
  loses a structural commit it acknowledged. An ID is used once, for ever. After an error
  of unknown outcome nothing more is written until the line is reopened.
* **Commit line.** A closure reads everything that was committed before it. Listeners get
  every commit once, in order, with its number. Every commit call returns; a close
  concludes. A request key is answered with one submission.
* **Task engine.** Owners outlive what they own; outcomes wait for the work below and are
  decided once; waits never form a circle; a cancellation reaches everything below and is
  never weakened; abort handlers run bottom up; a run writes nothing past its mark; only
  one invocation writes a task; nothing is forgotten by the scheduler; no write of the
  scheduler is ever refused; an abort ends.
* **Inbox and live run.** A submission is in exactly one place: waiting in the inbox, in
  the live run, or settled. An idle conversation has an empty inbox. A run has exactly one
  generation task that drives it. What is sent is placed in the order it was sent; a reset
  cuts off what came before it and nothing else; a context never moves back. A caller that
  cancels gets its answer, and the run is over by then.
* **Tool task.** A non-repeatable effect is started at most once, whatever crashes, and an
  outward one only after an approval. A committed result says what happened, and its body
  on disk stays what it was. Calls that may not overlap do not, not even through a restart.
* **Nested calls.** What a call used is on record before the call is; a replay makes the
  calls on record, in their order; after an uncertain result nothing more is executed; the
  outer result comes last.
* **Orchestration.** Every run of a background task is handed to its parent once, or is
  continued once. Every submission is settled.
* **Deletion.** A deleted session does nothing any more, and a deletion that has begun is
  completed.
* **Deliveries.** The reply of a settled run gets a row, one for each chat; a row is sent
  when its channel is there, and shown twice only when nobody could know of the first time.
* **Cron.** The command of a slot runs at most once. A slot the job waits for is put on record
  and the job moves on; slots that come before it waits for them pass without a record, since
  missed slots are not made up for. A record is true, a run that was started is watched, and
  its outcome is told if the operator wants to hear of it. A run of a job does not start
  beside another one.
* **Event feed.** A client misses no event, gets none twice and none out of order, however
  pages, back-fill, live frames and reconnections follow each other. Statuses do not go back.
* **Context.** A fork sees its ancestors' entries up to the fork point and nothing else.

`PROJECT.json` lists the hazards of the code line by line, with the property that would
catch each of them.

---------------------------------------------------------------------------------------

## 2. Modules and code

### 2.1 Task engine

`TaskEngine` is `scheduler.rs` over the decisions of `komo-kernel/src/durable/task/`. The
line runs one closure at a time and publishes synchronously, so **one action is one
commit closure**, or one step outside the line that touches the scheduler's memory.

| state | code |
|---|---|
| `task` | the task records: status, held or final outcome, wait, abort mark, identity. `above` is the ownership walk of the task, taken once: ownership never changes |
| `minted`, `conversationOwner` | task IDs given out, owning task of each conversation |
| `session` | closed, open with scheduling paused, or enabled |
| `invocation` | the scheduler's map of running tokio tasks: reserved, in a run phase (`same` / `moved`: the checkpoint did or did not change in this phase), in the abort handler |
| `definition` | what the registry has for the task's kind: current, changed (can take over), blocked |
| `abandoned`, `dirty`, `reconcileDue` | `abandon_on_restart` tasks found at open, the drain loop's and the reconcile loop's flags |

| action | code |
|---|---|
| `HostCreate`, `CreateConversation` | `Tx::create_task`, `create_conversation`, and the owner check of `assemble` |
| `HandlerCommit` | `gated`, `commit_state`, `validate_wait`, creation of children in the same commit |
| `StepStop`, `StepCascade`, `StepContinue`, `StepHandover`, `StepFault`, `AbortStep` | `decide_step` and the step commit after a phase returned, and the end of the invocation with its kick |
| `MarkAbandoned`, `Reserve` | the drain loop's reservation commit |
| `Reconcile` | `reconcile`: cascade, fail-fast waits, `finalize` |
| `Abort`, `AbortConversation`, `FaultIdle` | `Sched::abort`, `abort_owned`, `Conversation::abort`, `fault_idle` |
| `RegistryChange`, `Shutdown`, `Reopen`, `Resume` | registry swap, crash / failure / close, `open`, `resume` |

Checkpoints, inputs, results and memos are abstracted to "the checkpoint moved or not"
(rule 6 of `decide_step` faults a phase that returns without progress). The walk of
`wait_cycle` is stated as the existence of a set closed under "holds up" that avoids the
waiting task. `finalize`'s loop is stated as its fixpoint.

`StructuredTasks` is the **abstract specification**: a forest of owned tasks in which work
starts only under an active, uncancelled owner, outcomes are decided once, owners end
last and cancellation is never taken back. `TaskEngineImplements` holds the refinement
mapping (`Promise`) and `KeepsPromise`. `MCTaskEngine` names the instances TLC uses.

That a commit closure is atomic with its publication is an assumption of `TaskEngine`.
`CommitLine` shows when it is justified: as long as no caller's future is dropped between
sending and publishing (section 5).

### 2.2 Commit lines

`CommitLine` models both lines, one on top of the other, since the hazards live between
them.

| state | code |
|---|---|
| `log`, `synced` | the write-ahead log as the sequence of committed batches, and how much of it a power loss keeps |
| `ids`, `seq`, `high`, `sync`, `failed` | `IdGen`, `Writer.seq`, `Writer.persisted_max_id`, `Writer.sync`, `Shared.failed` |
| `queue`, `reply` | the writer's mpsc queue and the oneshot answers |
| `gate`, `holder`, `stage`, `request` | the fair tokio mutex and the callers' futures |
| `sealed`, `published` | `LineState.sealed` / `fault`, what the listeners were told |
| `opened`, `promised`, `answered`, `dropped` | history variables of the properties |

| action | code |
|---|---|
| `Ask`, `Refuse`, `AnswerKnown`, `Send`, `SendRefused` | `Line::commit` up to the send: wait for the gate, `admit`, the closure's look-up of its request key, the batch on its way |
| `SettleOk`, `SettleError` | the reply: `publish`, or `settle_error` and `fail` |
| `DropQueued`, `DropHolder` | the caller's future is dropped at the gate, or while the writer has the batch |
| `Seal`, `Close`, `CloseStorage`, `Closed` | `Engine::close`, `finish_close`, `Storage::close` |
| `Accept`, `Reject`, `Fault`, `RefuseAfterFailure` | one turn of the writer task: pragma, `BEGIN`, the writes, `last_seq` / `max_id`, `COMMIT` |
| `Crash`, `PowerLoss`, `Open` | the process dies; the page cache is lost as well; `open` reads the counters back |

A batch is one of three that tell the hazards apart: a submission (with or without request
key, it also rewrites the inbox document from what the closure read), a progress write
(not synced), a purge. The reads of a closure are one atomic read: nothing but the writer
changes the database, and the gate is held. The writer's queue is bounded by 256 in the
code; the gate keeps at most one live batch and one close in it, so the bound is out of
reach and is left out. After a purge the model lets a staged submission start a new
conversation where the code may refuse it; the refusal is an outcome of `Reject` and
`SettleError`. A rejected batch seals the runtime's line, because `settle_error` treats
every storage error but an invalid read as fatal, although the comment at
`write.rs:528` wants a rejection to be recoverable instead of ending the line.

`DurableLog` is the abstract specification: one history that grows at its end; a crash
takes commits back from the end but never an acknowledged structural one. `KeepsLog` is
the refinement. `MCCommitLine` names the symmetry set.

### 2.3 Conversations

`Conversations` is the harness above the engine and the gateway's callers. The engine
itself is taken from `TaskEngine`, by what is proved or checked of it: commits are atomic,
a marked task runs only its abort handler, an abort handler runs when the task's own tools
are over, and whatever is live is scheduled again, after a restart too.

| state | code |
|---|---|
| `db.sub`, `db.inbox` | submission records (with the entry a submission was placed in, and the run it belongs to) and the inbox document |
| `db.run`, `db.gen` | `komo.live.run` (task, inputs, rounds) and the generation tasks: phase, abort mark, the run in their input |
| `db.head`, `db.entries` | the newest head marker of a conversation and the entry counter |
| `db.doc` | `komo.task` of a background task: born, the anchor task, `continued`, `contracts` |
| `db.lifecycle` | the row of the session: active, closing, deleted |
| `canceller`, `deleter` | what a caller of `cancel_run_id` / `abort_run`, and of `delete_session` / `finish_closing`, has read and does next |

| action | code |
|---|---|
| `Submit` | the commit of `land`: lifecycle, then `admit` with all its branches |
| `Answer`, `Fail`, `StartToolRound`, `FinishRound` | the commits of `answer`, `fail_run` / `fail_with_message` / the budget checks, `start_tool_round`, `finish_round`, each with its boundary, the hand-back, and the successor it starts |
| `AbortHandler`, `SchedulerOutcome` | `GenerationTask::abort`, `HarnessHooks::settle_outcome` |
| `Spawn`, `Follow`, `AnchorEnds` | the task tool: `spawn`, `follow`; the anchor task that holds the conversation |
| `CancelRunId`, `CancelQueued`, `CancelCurrent`, `AbortRunReads`, `AbortRunMarks`, `AbortRunWaited`, `CancelReturns` | `cancel_run_id`, `cancel_run`, the loop of `abort_run`: one action per read or commit |
| `Closing`, `FinishClosing`, `ReadInbox`, `WithdrawNext`, `AbortBelow`, `NothingToAbort`, `CheckWork`, `Deleted` | `delete_session` and `finish_closing` |
| `Restart` | callers are gone; records stay |

What is abstracted, and why it may be:

* prepare, request, retry and stream are one phase: none of their commits touches the
  inbox or the run, except the failures, which are `Fail`. The tool groups of one round are
  one phase for the same reason. Compaction is left out: it places a cut, as the write of a
  client with an `at` head does. Progress writes, partial messages and token counts are
  left out.
* Whether an answer states its status, and which queue modes the settings have at that
  moment, are chosen anew at every boundary.
* The reads of `work_remaining` are one read. Once the session is closing nothing starts a
  run in an idle conversation of it, so reading run, inbox and tasks one after the other
  finds no less.
* `DRAIN_ROUNDS` is any number of rounds: after each the deletion may leave the rest to
  `finish_closing`. One caller cancels at a time, and one deletion of a session is under
  way at a time.
* The mark of a task that is over is forgotten, as nobody reads it.

`SubmissionLedger` is the **abstract specification**: all that those who submit can count on,
without inbox, boundaries, queue modes, generations or callers. A ledger holds every
submission for good. Under a request key nothing is accepted twice; within a class (steers,
follow-ups, writes, display writes, resets) the first is served first, and nothing passes a
reset; what was served stays where it is, what is over stays over, and only what still waits
can be withdrawn; one run is live at a time, on one side of every reset, and its inputs end
together, in the same way. `ConversationsImplements` holds the refinement mapping: a ledger
record is a submission record with its class and its request key. An input with the policy
`reject` is refused or placed at once; where the code has to queue it, it is with the follow-ups,
and so it is of their class. The continuation of a task has no request key in the code (`from` in
the model only says what it continues). Why the promise is made by class: with
`oneAtATime` a boundary takes one steer and leaves later ones, a write lands before inputs
that came earlier, and a display write may land while everything else waits.

### 2.4 Tool calls

`ToolCalls` is one tool round of a run: the calls in the order the model made them, each a
tool task of its own over the engine, with its files and the child processes it leaves.
`call` says of each what the code branches on (`Shape`): the replay class of its stored
plan, what a later look at the tool set may find, whether it is outward, starts a child,
may run beside its neighbours.

| state | code |
|---|---|
| `phase`, `attempt`, `marked` | the checkpoint of the task or its outcome, and the abort mark |
| `pid` | the live slot names the child of this attempt (`child_started`) |
| `answer` | `komo.confirm` |
| `result`, `output` | the committed result entry; `output.json` in the directory of each attempt |
| `effect`, `child` | what happened outside: the effect of each attempt, its process |
| `doing` | where the invocation of the task is: nothing, inside the tool, before `publish`, before the commit. Lost in a crash |
| `asked`, `stopping` | cards the gateway has found; the run is cancelled |

| action | code |
|---|---|
| `CreateGroup`, `AbortListed` | `tools_phase` with `group_len`; the calls never created |
| `Refuse`, `Ask`, `Accept` | `call`: the ways out before the intent, `confirm`, `begin` |
| `Approved`, `NotApproved`, `FindCard`, `AnswerConfirm` | `confirm`, and `answer_confirm` in its two halves: look, then write |
| `StartEffect`, `RecordChild`, `EndEffect`, `TimeOut`, `Cancelled` | `run` |
| `PublishOutput`, `CommitResult` | `publish`, `commit_result` |
| `Execute` (`Reuse`, `Watch`, `Rerun`, `Interrupted`), `Probe` | recovery: `resolve`, `probe` |
| `StopRun`, `Abort`, `AbortHandler`, `Fault` | a cancel of the run, the cascade, `abort`, a phase that ends with an error |
| `ChildExits`, `Crash` | the world |

Progress snapshots only matter by the child they name; text, rendering and images are left
out. Orchestration calls commit in the harness and are in `Conversations`.

### 2.5 Scripts

`ScriptReplay` is one codemode call. The script is a deterministic program, here a sequence
of lines: readings, calls it waits for, calls that run beside it (`defer`) and awaits of those.
What it does next depends on its `history`, what each line was told so far; the arguments of a
call *are* that history, so that a replay that was told something else makes another call,
which `Match` sees as `docs[i].args # history`. A nested call is what `ToolCalls` shows of one.

| state | code |
|---|---|
| `start`, `memos`, `docs` | `codemode.start`, `codemode.nondet.n`, the `komo.nested` documents |
| `nested`, `outcome` | the tasks of the nested calls, the outer result |
| `host` | one execution: the history of the worker, which is also its position, `replay` and `pending` readings, calls and how far each has come (`reserved`, `flushed`, `admitted`, `answered`, `delivered`), the reason the host is locked for |

`Read`, `Reserve`, `Deliver`, `Match`, `Flush`, `Admit`, `WaitNested`, `CheckEnd`,
`FlushEnd`, `Finish`, `Aborted` are the functions of `codemode.rs` they are named after.

### 2.6 Outbox

`Outbox` is the way of a final reply from the settled run in `durable.db` to the chat. What
lies between them is in memory and lost in a crash: the watcher of the session, the waiters
`reattach` makes for inputs that were open, the calls of `finish`, the flushes.

| action | code |
|---|---|
| `Open`, `Settle` | a submission with its watcher (`ensure`); the run settles, watcher and waiter are told |
| `Deliver`, `Flush` | `deliver_once` / `record_once` and the flushes up to the moment they hold the lock and know their rows |
| `Send`, `SettleRow` | `attempt`: the platform call, then `settle`, whose error is only logged |
| `Register`, `Unregister`, `Inbound` | channels coming and going with their flush; the flush in front of a message |
| `Boot`, `Crash` | `reattach`, `replay_recent`, the flush of everything; the end of the process |

The holder of the lock keeps the set of the rows it has still to send; `Oldest` is the next
one, as `pending` returns them in the order of their IDs. `blurred` is a history variable: the
times a message was shown and nobody can know it.

### 2.7 Cron

`Cron` is one job over the slots of its schedule. The scan of `scheduler/cron.rs` works
through `decide`, `skip` / `claim`, `fire`, `command`, `land`, `record`, `advance`, `watch`,
each an await at which the process may stop or the operation fail; `proc` is where it is.
`Recover` runs the same target again for a firing that has no run.

| state | code |
|---|---|
| `row`, `firing` | `cron_jobs` (status and next slot), `cron_firings` |
| `session`, `executed` | the session with the ID of the claim, its input and what came of it: something to say, nothing to say (`NO_REPLY`, no output), or a failure; executions of a command |
| `watch`, `todo` | watchers (`cron_watch.rs`), which wait or have a result to tell; firings `recover` has still to look at |
| `notice` | the row in the outbox |
| `request` | what `PATCH /v1/cron/{id}` is about to write, from what it has read |

What fails is an action of its own, since each place does something else about it: the scan is
given up where it is (`ScanFails`), a submission that cannot be read counts as not over
(`Misread`), the target reports an error although its commit may have been written
(`FireFails`), the recovery ignores it (`RecordFails`, `BootFails`), a watcher gives up, takes
a result it cannot read for a failure, or only logs that it could not write
(`ConcludeFails`, `NotifyFails`). `Tells` is what `deliver` and `NotifyPolicy::delivers`
decide together.

Time is counted in slots: `MayBeTooLate` and `MayBeInTime` overlap, since a slot that is one
interval late may be on either side of the limit.

### 2.8 Event feed

`EventFeed` is one session's way from the commit line to its clients. A record's ID is its
place in `records`; an event's number is the ID shifted plus the place of the event in its
record, as `legacy_ids::seq` has it. What an entry is projected to is a number of events
per table.

| state | code |
|---|---|
| `publications`, `floor`, `projection` | the mpsc of the feed, `Feed.floor`, `SessionFeed` with `Projection.last_entry`, `seen_submissions` and `last_seq` |
| `handling` | where `Feed::handle` is: it reads the session (`seed`), or pushes events |
| `connection` | a page request, or `State_` of an SSE connection with its receiver (`live`, `lagged`) |
| `cursor`, `got` | the client's cursor and what it was given |
| `habit` | the desktop's cursor is the largest number of an event (`sse.ts:51`), the terminal's the number of the last frame of any kind (`komo-client/src/sse.rs:321`) |
| `mishaps` | history: reads that failed or met commits, evictions while the projection was ahead of the queue |

| action | code |
|---|---|
| `Commit` | the listener that `feed::spawn` puts on the line |
| `Handle`, `PushEvent`, `BatchDone` | `Feed::handle` for a session with a projection, `EventHub::publish_event`, `partial_changed` |
| `BeginSeed`, `SeedRead`, `Seed`, `SeedFails` | `Feed::seed`; one action per table that `read_session_records` reads |
| `Evict` | `evict`, caused by the batches of other sessions |
| `AskPage`, `Subscribe`, `ReadTable`, `ReadSession`, `ReadFails` | `stream` of `http/v2/events.rs` |
| `HandOut`, `TakeFrame`, `CatchUp` | the loop of `frames` |
| `TurnPage`, `Disconnect`, `Restart` | the clients' loops over pages and connections; a new process |

Deltas are pushed at the end of a batch under the number of the last event, and one without
a projection makes it first, or goes out as number 0 when that failed.

---------------------------------------------------------------------------------------

## 3. Runs

### 3.1 What each run checks

| run | module, configuration | instance | what it shows |
|---|---|---|---|
| `engine_waits` | `MCTaskEngine`, `EngineWaits` | 3 tasks, children, waits on any set under both policies, task 1 aborted by ID | `NoWaitCycle`, `NothingStranded`, `AbortRunsAboveNothing`, and the refinement of `StructuredTasks` (`KeepsPromise`) |
| `engine_restart` | `MCTaskEngine`, `EngineRestart` | 2 tasks over 2 conversations, of which one may be owned; abandon-on-restart, abort of a conversation, `fault_idle`, one crash, one registry change, `FairSpec` | `OwnersOutliveTheirTasks`, `CancellationSettled`, `AbortConcludes`, `CascadeArrives` |
| `line_crash` | `MCCommitLine`, `LineCrash` | 2 callers of which one may be dropped at any await, once while it holds the gate; 1 request key, 3 commits, one crash or power loss, closes and reopenings, `FairSpec` | the refinement of `DurableLog` (`KeepsLog`), `ListenersSeeTheLog`, `NoLostUpdate`, `IdsNeverReused`, `CommitsReturn` |
| `conv_queue` | `MCConversations`, `ConvQueue` | one conversation, 3 submissions of six kinds (steer, follow-up with a request key, reject, reset, cut, display write), any queue modes, one tool round, a caller that cancels, `FairSpec` | `InputsAccounted`, the refinement of `SubmissionLedger` (`KeepsLedger`), `CancelConcludes` |
| `conv_tasks` | `MCConversations`, `ConvTasks` | a conversation and its background task, 2 inputs and follow-ups, with and without contract, the parent's session may be deleted, with and without `now`, one restart, `FairSpec` | `TaskRunsHandBack`, `DeletedIsQuiet`, `EverySubmissionSettles`, `DeletionConcludes` |
| `tool_calls` | `MCToolCalls`, `ToolCalls` | rounds of 2 calls: two shell commands, a message and a command, a read-only call of a script and a command, two read-only calls; 2 restarts, a cancel, `FairSpec` | `UnsafeOnce`, `ApprovedFirst`, `ResultHonest`, `Barrier`, `RerunAfterChild`, `CallsSettle` |
| `script_replay` | `MCScriptReplay`, `ScriptReplay` | two deferred calls with a reading between them, an await, a reading and a last call; 2 values, 2 tool surfaces, 2 restarts, a cancel, `FairSpec` | `NeverDiverges` (also that a reading is on record before what uses it), `CompletedAsRecorded` (also that the outer result comes last), `UnknownStopsScript`, `ScriptEnds` |
| `cron` | `MCCron`, `Cron` | a prompt and a command that do not overlap, a command that runs once and is never told; 2 slots, 2 crashes, one failing operation, one pause (with any resuming) or removal, `FairSpec` | `CommandOnce`, `RecordsAreTrue`, `RecoveryConcludes`, `DueSlotsMoveOn` |
| `cron_overlap` | `MCCron`, `CronOverlap` | a prompt that is not to overlap, 2 slots, one crash | `OneAtATime` is violated (section 5) |
| `outbox` | `MCOutbox`, `Outbox` | 2 runs, one replied to in a chat and one in two home chats, 2 channels, replay of one input, one crash, one trouble | `ShownOnce`, `NothingForgotten` |
| `event_feed` | `MCEventFeed`, `EventFeed` | one client of either habit, entries with one event and submissions with two, 2 records and one commit without, buffer of 3 frames, pages of one event; one eviction, failing read, cut connection or restart | `NothingSkipped`, `NothingLeftBehind`, `OnceInOrder`, `StatusForward` |
| `event_gap` | `MCEventFeed`, `EventGap` | 3 records, no trouble at all | `NoEventMissed` is violated (section 5) |

Properties that are theorems of section 4 and not in a run (`WritesPassTheCheck`,
`MarksOnlyStrengthen`, `TerminalLeavesNothing`, `OneAnswerPerKey`, `PublishedInOrder`,
`ResetCutsOff`, which the ledger of `conv_queue` says too, `MissedSlotsPass`, the type
invariants of the engine, the line, the tool calls, the scripts, the outbox, the event feed,
cron and the conversations) are left to the proof, which covers every instance. An engineer
who changes an action adds `INVARIANT TypeOK` to a configuration for a moment, and finds out
before the prover does.

### 3.2 Bounds, and why they are enough

* `MaxTasks = 3` in the runs about structure: an owner, a middle and a leaf is the
  shortest forest in which "direct child" and "anything below" differ, three tasks the
  shortest wait circle that is neither a self-wait nor a mutual one, and a fail-fast wait
  on two members needs its waiter as the third. Runs with a crash and a registry change
  use two: what a restart re-derives concerns one task and its owner.
* One crash: a second finds records no other crash had not left already, since `Reopen`
  is the only action that can follow. One registry change: a second before the next
  resolution is indistinguishable from the first.
* The abstraction lets handlers commit anything `commit_state` accepts, so a run may loop
  through running, waiting and running again without a bound; only creation is bounded.
* Commit lines: three commits are a submission, a purge and a submission (ID reuse), or
  two submissions on each side of a dropped one (lost update, retried key). Two callers
  are enough for one to overtake another; a third would only wait at the gate.
* Conversations: three submissions are one that runs and two that wait, the least for an
  order among those that wait, for a cut made stale by another and for a reset between two
  inputs. `MaxSubmitted` bounds what clients and the task tool send; results and
  continuations come on top and are bounded by it. `MaxRounds = 1`: a run passes one
  hand-over to a next generation; a second round repeats the first with the inputs that
  joined. Its `Budget` is larger, so that a run can answer
  after the round. One background task:
  results of two siblings meet in the parent's inbox as results and client inputs do here.
* Tools: two calls are the least for a group, a barrier between groups and a call that never
  gets created. Two restarts are one that loses a result and one that loses its recovery;
  with two an unsafe call has three attempts to be started in, if anything let it.
* Scripts: two calls in parallel with a reading between them are the shortest script whose
  documents could get a hole or whose readings could come in the wrong batch, and the call
  after the `await` depends on all of it. A restart of a replay is the second one.
* Outbox: two runs and `Recent = 1` are the least at which the replay leaves a run out; two
  home chats the least at which the first one's error keeps the second from its row.
* Cron: two slots are the least at which a run is still there when the next slot comes, and at
  which one is passed while the other is in work; two crashes are one in a scan and one in
  the recovery of it. One pause with its resuming is all a job can tell of the operator:
  each request may have read the row before the scan moves it, or after.
* Event feed: two records are an event that was handed out and one that could be passed over,
  and with their statuses five frames, more than the buffer holds, so that an overflow meets
  the back-fill as well as the live frames. The page of one event makes a client
  turn pages while the other record is committed. A second client would only be a second
  reader: clients share nothing but what the feed pushes, and the feed does not look at them.
* `CHECK_DEADLOCK FALSE` is set wherever the system may really stop: the host creates no
  more tasks, the calls of the round are over, the script has its result, the schedule has
  ended, all replies are sent, nothing more is committed and the clients have it all. The
  commit lines are checked for deadlock.

### 3.3 Fairness

* Engine. The drain and the reconcile loops are tokio tasks that are spawned or woken at
  every kick, so their commits are weakly fair. A closed session is reopened and resumed
  (the host process is restarted). A handler owes nothing in general; it is only required
  to return once it is *signalled* (abort mark, task no longer running, owner cancelled),
  which is when the scheduler cancels its token.
* Commit line. The writer is a spawned task, a caller is polled as long as it lives, and
  the tokio mutex is fair: `Write`, `CloseStorage`, and each caller's `Turn` and `Settle`
  are weakly fair. Nothing is assumed of crashes, drops, closes or `Open`.
* Conversations. A live generation task takes its next step (`HandlersMove`): the engine
  keeps it scheduled (`NothingStranded`), a model call times out, tools end or are stopped.
  Which step is left open, so no ending is assumed. `HandlersMove` is weak fairness of
  "some generation of c changes its phase", which is always possible while one is live.
  An anchor ends when its conversation is quiet (the engine's reconcile loop); a caller is
  polled until it returns; `finish_closing` is called on a timer (`CLOSING_TICK`).
* Tools. The invocation of a live task goes on (the engine's promise), a tool ends or its
  time limit ends it, a child process exits, a confirmation has a deadline. Nothing is
  assumed of operators, crashes or cancels.
* Scripts. The worker and the host go on, nested calls come to an end (`CallsSettle`), the
  worker stops at its time limit.
* Cron. Time passes, the scheduler's task goes on, runs are settled
  (`EverySubmissionSettles`), watchers are polled. Nothing is assumed of the operator, of
  failures or of crashes.
* Event feed and outbox. None: that nothing is left behind is stated of the states in which
  nothing is on its way any more.

---------------------------------------------------------------------------------------

## 4. Proofs

All are theorems of `Spec` for every value of the constants (any number of tasks,
conversations, callers, crashes), from the named assumptions of the modules, which only
state types (`MaxTasksAssumption`, `RootAssumption`, `HandlerAssumption`,
`NamesAssumption`, ...).

| module | theorem | states |
|---|---|---|
| `TaskEngineSafety` | `TypeCorrect` | `[]TypeOK` |
| | `WritesLegal` | `WritesPassTheCheck`: no write of the engine is ever refused by `check_replacement` |
| | `MarksStrengthen` | `MarksOnlyStrengthen` |
| | `ForestCorrect` | the inductive invariant `Grown` |
| | `OwnersOutlive` | `[]OwnersOutliveTheirTasks` |
| | `TerminalLast` | `TerminalLeavesNothing` |
| | `NoCircularWait` | `[]NoWaitCycle` |
| | `AbortsBottomUp` | `[]AbortRunsAboveNothing` |
| | `CancellationComesDown` | `[]CancellationSettled` |
| | `AllWorkEnds` | `[]NothingStranded` |
| | `EngineKeepsPromise` | `"completing" \notin FaultTargets => (Spec => KeepsPromise)`: the engine implements `StructuredTasks` |
| `CommitLineSafety` | `Invariant`, `LineTypeCorrect` | the inductive invariant `IInv`, `[]TypeOK` |
| | `IdsUnique` | `[]IdsNeverReused` |
| | `OneAnswer` | `[]OneAnswerPerKey` |
| | `PublishedOrdered` | `[]PublishedInOrder` |
| | `LineKeepsLog` | `KeepsLog`: the commit lines implement `DurableLog` |
| | `NoUpdateIsLost`, `EveryCommitIsTold` | `[]NoLostUpdate` and `[]ListenersSeeTheLog`, which both speak of the time until a holder of the gate is dropped |
| `ConversationsSafety` | `ConversationsInvariant`, `ConversationsTypeCorrect` | the inductive invariant `IInv`, `[]TypeOK` |
| | `EveryInputAccounted` | `[]InputsAccounted` |
| | `ResetsCutOff` | `[]ResetCutsOff` |
| | `RunsHandedBackOnce` | `[]TaskRunsHandBack` |
| | `ConversationsKeepLedger` | `KeepsLedger`: the conversations implement `SubmissionLedger` |
| | `DeletedStaysQuiet` | `Spec => []DeletedIsQuiet`, if no deletable conversation is a background task's |
| `ToolCallsSafety` | `ToolTypeCorrect` | `[]TypeOK` |
| | `UnsafeStartsOnce` | `[]UnsafeOnce` |
| | `ApprovalComesFirst` | `[]ApprovedFirst` |
| | `ResultsAreHonest` | `[]ResultHonest` |
| | `RerunsWait` | `RerunAfterChild` |
| | `CallsKeepApart` | `Unasked => (Spec => []Barrier)`: no call that runs in a child may be refused or asked about |
| `ScriptReplaySafety` | `ScriptTypeCorrect` | `[]TypeOK` |
| | `ReplayNeverDiverges` | `[]NeverDiverges` |
| | `EndsAsRecorded` | `[]CompletedAsRecorded` |
| | `UnknownStops` | `[]UnknownStopsScript` |
| `EventFeedSafety` | `FeedTypeCorrect` | `[]TypeOK` |
| | `EventsInOrder` | `[]OnceInOrder` |
| | `EventsUnbroken` | `[]NothingSkipped` |
| | `EventsDelivered` | `[]NothingLeftBehind` |
| | `StatusesAdvance` | `[]StatusForward` |
| `OutboxSafety` | `OutboxTypeCorrect` | `[]TypeOK` |
| | `RepliesShownOnce` | `[]ShownOnce` |
| | `RepliesReachTheirChats` | `[]NothingForgotten` |
| `CronSafety` | `CronTypeCorrect` | `[]TypeOK` |
| | `CommandsRunOnce` | `[]CommandOnce` |
| | `RecordsStandForRuns` | `[]RecordsAreTrue` |
| | `SlotsPassWhenMissed` | `MissedSlotsPass`: a scan moves a job past the slot it has recorded and past slots that had come by then, no other |

**Engine.** `TypeOK` needs to know of each record that it is consistent with its status
and that exactly the minted ones exist; it is then inductive. That writes pass the check
and marks strengthen are statements about steps, proved action by action from it
(`RecordsStep` says it once for all actions). For the ownership properties `TypeOK` does
not suffice: one must know that every set `above` holds only older, born tasks, is closed
under ownership, and that a live task has its owner in it and alive. That is `Forest`.
Its core step is that a task becomes terminal only when `OwnedLive` is empty, and that no
child is born under an owner which ends in the same commit. A wait circle is excluded
separately: `NoWaitCycle` is preserved since a commit adds edges only out of one task,
and `NoCycleThrough` says that none of them leads back; new owned work adds edges only
into tasks that hold nothing up yet.

An abort handler runs above nothing that is alive: the drain starts it when `OwnedLive` is
empty, and as the mark of its task stays (`AbortsAreMarked`), no child is born below it.
Cancellation comes down because whoever writes a record schedules a reconcile, so without
one a reconcile would change nothing (`ReconcileOwed`). In the same way a pass that is not
owed would start nothing but tasks without a usable definition (`PassOwed`). That nothing is
stranded follows from these and the forest: if nothing is scheduled, each live task is held
up by one it waits for or by one that it owns, and this relation has no circle
(`NoCycleThrough`), so on a finite set of tasks it has a last member, which nothing holds up.
The refinement goes step by step: each commit of the engine is a begin, a mark, an end or a
stutter of `StructuredTasks`. Its hypothesis excludes `fault_idle` on a completing task
(section 5, "A held outcome can be swapped"): the only caller passes pending and running ones.

**Commit line.** The properties are not inductive, since they speak of the log while the
mistakes would be made on the way to it. `IInv` adds: each caller has at most one batch or
answer under way, and only between its `Send` and its settlement (`OneInFlight`); a process
that is down has nothing in memory (`DownIsEmpty`); the log is numbered by position and
`seq` is its length unless the line failed (`Numbered`); what was answered is a row of the
database (`AnswersStand`); every ID of the history is below the stored high-water mark and
the counter, and those of queued batches are fresh and distinct (`HighWaterHolds`,
`FreshIds`); a request key belongs to one row (`KeyHolds`). `CommitLineSafety` has the types
first, then one lemma per conjunct and action.

Until a caller is dropped that holds the gate more is true: the queue and the answers hold at
most the batch of the gate's holder (`OneAtATime`), so a closure reads the newest inbox
(`ClosureIsCurrent`), and everything in the log since `Open` is published except that batch
(`PublishedAll`). That is `Turns`, at the end of `CommitLineSafety`. It is false after the first
such drop (section 5).

**Conversations.** None of the properties is inductive, and none can be proved without
the others: the end of a run settles its inputs, hands the run back to the parent (a
submission there, which may start a run of the parent's), and places what waits, which may be
a reset. `IInv` says that every conversation is at rest between two commits (`AllRest`).
`Resting` is made of `InboxSound` (what is queued is what waits, in the order it came in, and
has neither entry nor run), `RunSound` (what is placed is an input of the live run, each once,
and names the run), `GenSound` (the live run has one generation, and no other of the
conversation is alive), `ResetSound` and `CutOff` (a queued reset holds back what came after
it, a landed one lies before it and before every input of the live run), `Served` (a key is used
once, each class is served in its order, a display write waits only behind a reset) and `Handed`
(each run of a background task that is over has one successor, a result or a continuation, or
the parent's session is not active). Results name the run they follow (`Named`).

A commit breaks these for a moment, so they have parameters: `users` are inputs that a
boundary has placed and no run has taken yet, `ending` is the generation that is about to be
over, `open` are the runs not handed back yet. The helpers of the model are proved one by one to
lead from one such state to the next: `BoundaryWithin` (what a boundary places, with the order
of entries and resets), `StartRunDoes`, `SettleRunDoes`, `JoinRunDoes`, `EntersDoes` (a new
submission), the report of a run in the commit that ends it. `Within`, `Onward` and `Moves`
say what each part leaves alone and compose them to whole commits; the other conversations are
at rest because nothing they speak of changed (`SameRest`). `Only` and `Heads` are recursive
functions: `OnlyByStep` says how `Only` is computed and `OnlyKeeps` that it keeps exactly the
elements of the set, in their order.

The refinement of `SubmissionLedger` needs the invariant on both sides of a step and, of the
step, `Goes`: each submission advances (`Advances`), and two inputs of one run have the same
status after it. Every lemma about a part of a commit states it with what it keeps (`KeepsSub`,
`Grows`), and `GrowsTwice` composes it. That a run ends as one is not true of the submissions
one by one: a commit may settle a run, start another with what waits and settle that one too, so
it is said of those with the same run (`OfOneRun`), and at rest all that is placed in a
conversation is of one run (`Somewhere`). The order within a class rests on three facts: the
inbox is ascending, a boundary takes the first of each class (`FirstOfClass`), and what is
admitted without waiting finds nothing of its class in the inbox (`NoneWaits`): either nothing
waits at all, or it is a display write, and those wait only behind a reset (`DisplayHeld`).
`LedgerLawful` and `LedgerGoes` carry this over to the ledger.

For deletion `DeletionSound` adds that a deleted session has no live run. The last check is
made outside the commit that writes `deleted`, so it holds because the lifecycle stops being
active before anything is read: from then on no commit gives an idle conversation of the
session a run, except the task tool's follow-up, which does not look at the lifecycle of the
*task's* session. That is why `DeletedStaysQuiet` speaks of conversations no task tool
dispatched; of a task's session it is false (section 6): with `Deletable = {2}` and three
submissions in `ConvTasks` a follow-up arrives between the last check and `deleted`.

**Tool calls.** `IInv` is `TypeOK` and one conjunct per call, `CallOK`, since calls share
nothing but the order in which they are created. `Counted`: only a restart puts a call
where it may be run again, so attempts are bounded by restarts. `Phased`: what a phase says
of the attempt, the invocation and the result. `Permitted`: an unsafe call never gets past
its first attempt, an outward one has no attempt without its approval, and nothing happened
in an attempt that was not begun. `Honest`: every body, on disk, on its way or committed,
is true of its attempt, and the committed one is on disk, unless the call was cancelled
before there was a directory or without its tool. The invariant has a lemma for each kind of
step, and `OneCall` says that a step of one call disturbs no other.

That calls keep apart (`Barrier`) is about two calls, and about children that an earlier
process left. A call is `Working` while it is live or a child is alive that its slot names;
`OneGroup` says that two calls are working only if both are read-only. The step that matters
creates the next group when all before it are over, so it has to be known that a call that
is over has no child at work (`Left`), unless the run is stopped, and then no group is
created. A call gets over by committing an outcome, and it commits after its child has ended,
or because an output of the attempt was found on disk, which a child leaves at its end.
`NothingOld` says that there is no such output of an attempt that has not come to an end, and
this is where the hypothesis `Unasked` is needed: a refusal writes its output to the
directory of attempt 1 without an attempt (section 5), so for a call that may be refused and
runs in a child the old output could be taken for that of a child at work. Whether the shell
tool accepts a command depends on the command alone, so the hypothesis leaves out only runs
whose tools are reconfigured between restarts so that they lose the shell and get it back.
`KeptBy` says what a step of one call must keep, and each
action of a call has a lemma that it does.

**Scripts.** An execution is compared with the program, not with the execution before it.
`Foretold` says what a line must be told: if it is a reading, the reading of its number on
record; otherwise the results in the documents of the calls it waits for (`Awaited`, by their
numbers in the program). `OnRecord` says so of all lines of a history, so two histories of the
same length that are on record are equal (`SameHistory`), however many restarts lie between
them. `IInv` says: every document has the history of the line that makes its call, and that is
on record (`DocsSound`); calls are numbered as in the program and each was made behind a part
of the history (`CallsInOrder`, also of a locked host); only a call behind the records has
flushed, and it is the next document (`CallsPlaced`). As long as the host is not locked, its
history is on record with its pending readings behind the memos, what it read is a part of the
replay log or all of it and more (`ReadingsInOrder`), and an admitted call is its document
(`CallsAsRecorded`). So a record meets the call it was made for (`RecordedCall`), in front of a
recorded call nothing unrecorded was read (`NothingUnread`), and a flush meets no memo of its
name (`FlushFacts`). What is foretold stays foretold since memos and documents only grow
(`OnRecordGrows`). An uncertain result is foretold by nothing, which is why no document knows
of one. `FlattenSeq` is a recursive function of the library; `Flattened` and `FlattenAppend`
show what it does to one more batch.

**Event feed.** That a client gets each event once and in order depends on nothing the feed
does: whatever it pushes, the connection drops what is not above `last`, and `last` starts at
the cursor. `Orderly` says so of a client that keeps the largest number: what it got ascends
and ends at or below its cursor, a connection's `last` is not below the cursor, the events
that wait to be handed out are above both, and none wait while a frame is taken.
`ClientOrder` proves it of each step of a client, `FeedOrder` of everything else, which gives
no client anything. Of a client with the terminal's habit it is not true: a delta may carry a
number below what was received, and after a reconnection the client is sent again what is
above it.

That a client misses nothing takes the whole feed. The queue of batches holds every record
behind `Taken`, in order (`QueueWhole`); a projection has seen every record up to its `Level`
and none beyond (`ProjectionWhole`); so which events are still unsent is known for each state
of the feed. `Served` says of each client, as long as no read failed or met commits: every
event has been received, or is in what its reads have found or will find, or in its buffer, or
unsent, and none of the last two is behind a frame with a larger number (`Follows`); and it
has all events up to its cursor, and up to each one it is about to be handed those before it
(`Gapless`). Where the code takes a largest or smallest number
(`EventsUpTo`, `Level`, the cursor) the proof needs that finite sets of numbers have one,
which comes from the well-founded order of the naturals. For statuses `Informed` says that
the feed has left behind every status a connection has or had (`Passed`), and that those in
its buffer ascend from the last one it was told (`Upward`).

**Outbox.** `RInv` says of the rows: a reply has one row for a chat (`OneRow`), the rows that
somebody holds to send were not sent (`InHand`), and a row counts at most one message more
than nobody can know of, and that one only if its state is `sent` or the holder of the lock
is about to write it (`Counted`). A sum over the rows of one reply in one chat is then a sum
over one row at most. `FInv` says of what is to come: a row that could be sent is held or a
flush of its chat is started, also while a channel is being registered (`Awaited`, `PutOff`);
a call has a row for each chat it has passed (`CallsPassed`, `HeldPassed`); and for the reply
of a settled run that has not all its rows somebody still asks, or its loss is remembered, or
the replay does not reach it (`Remembered`).

**Cron.** A record is written for a slot before anything is done for it, and the task works on
one slot at a time. `IInv` says both. `SlotOK`, of every slot: without a firing nothing was
begun, a firing with a run has the session of that run, a good outcome stands for a run that
ended well, and a command was executed at most once and never without a session. `ToldOK`:
what is told, or about to be, is a result that is there. `InHand`, of the slot in work: from
`fire` on it has a firing, its command is only ahead while the session is open and nothing was
executed, and a run is recorded only of a session that took the input. `Behind`: the scan
works for a time that has come, so `advance` passes what was missed and nothing that is still
ahead. Crashes keep `SlotOK` since they change no table, and empty the task's hand; what
`recover` takes up again it decides by the session, which `SlotOK` ties to the firing. Failures
keep it since a commit whose end nobody knows has either written all of it or nothing.

---------------------------------------------------------------------------------------

## 5. Where code and documentation disagree

* **A skipped slot may hide its own run** (`cron_overlap`). After a crash between the firing
  of a slot and `advance`, the next scan meets the same slot, finds its run unfinished, and
  `skip` (`scheduler/cron.rs:354`) writes `skipped` over the firing of that run. The overlap
  rule ignores skipped firings, so the next slot starts beside the run, against
  `docs/komo_bot.md:851`. The comment of the claim (`:272`) names the very overwrite it avoids.

* **An event may be passed over for good** (`event_gap`). `read_session_records`
  (`komo-gateway/src/service/durable/feed.rs:92`) reads the entries before the submissions,
  each table by itself, and its comment says that an entry which is missing because it was
  committed in between comes with its own batch. It does, but by then the back-fill may have
  handed out the event of a submission committed after it, with a larger number:
  `already_sent` drops the entry's frame, and no cursor asks for it again. A page has the
  same gap, and so has a projection made by `seed`, which takes the entry for a replay when
  a later entry of another branch was found. The module comment of `http/v2/events.rs`
  (`:8`) promises neither loss nor repetition. `NothingSkipped` and `NothingLeftBehind`
  except reads that met commits, and only those and failed ones.

Met while modelling, in the models as they stand, without a run of their own:

* **A cancel by name may stop another run.** The comment of `abort_run`
  (`komo-runtime/src/durable/harness/submit.rs:338`) says that when the run ended by itself,
  and a successor was started, before this call read it, what is cancelled is the run that
  ended and nothing is to be done. `abort_run` takes a conversation and marks the run it
  finds; `cancel_run_id` (`komo-gateway/src/service/durable/runs.rs:608`) looked at the
  named submission earlier. A successor that started in between is stopped, and reported to
  its submitter as aborted. The named run is over all the same.
* **A refusal may stand for an execution.** `settle_unrun` (`tool.rs:654`)
  publishes "not executed" to the directory of attempt 1 before it commits. If the process
  dies in between, the task is still in front of its intent. An approval that arrives then
  begins attempt 1 over that directory, and if the process dies again while the message is
  sent, `resolve` finds the old `output.json` and commits it: the model is told that the
  operator refused (`docs/confirm.md:80`) what was done.
* **A dropped caller frees the gate.** `line.rs:41` and `:216` say that the holder of the gate
  has closure, storage and publication to itself and that a commit that has begun is settled
  even if its caller is cancelled. The guard belongs to the caller's future. When that is
  dropped while the writer has the batch, the next closure runs before the batch is in the
  database and overwrites its document, and the batch is never published. `NoLostUpdate` and
  `ListenersSeeTheLog` except the time after such a drop; without `dropped = 0` TLC finds
  both violated in `line_crash`. The log, the IDs, the request keys and the order of
  publications survive it, which is proved.
* **A held outcome can be swapped.** The comment of `check_replacement`
  (`komo-kernel/src/durable/task/state.rs:141`) says that the outcome of a completing record
  cannot be changed; `fault_idle` writes completing -> completing with another one. Its only
  caller passes pending or running tasks.
* **A contract may never be looked at.** `docs/background-tasks.md:91` says that the last
  answer of a task is checked against the contract. `report` looks contracts up under the
  first input of the run only; a contracted follow-up that a boundary places together with
  an earlier steer does not begin its run, and its contract stays behind for good.
* **A child that is not mentioned.** The abort handler of a tool call notes a child that is
  still running only in `probe`; a task that is marked right after a restart is in `execute`.
* **A run may be left unwatched.** `watch_fired` reads the job once more before it attaches the
  watcher. The comment (`komo-gateway/src/service/state.rs:512`) says that when it cannot be
  read the run is watched by the default, better one message too many than a silent wait. The
  code (`:514`) turns the error into "no such job" and does not watch the run (`ScanFails` at
  `watch`): its firing stays `queued` and its result is not told until a restart recovers it.
* **A pause that is taken back.** `advance` of cron writes the status the scan has read. The
  other way round, a request writes the next slot it has read, which the scan may have passed:
  the slot is met again, and its firing keeps it from running twice.
* **A conclusion without a notice.** A crash between the outcome of a firing and its row in
  the outbox leaves no trace for `recover`, which looks at firings without an outcome only.
* **Approvals nobody acts on.** `answer_confirm` records an approval without a look at the
  task, also after the deadline or a cancel.
* **Second home chats.** `deliver_home_once` stops at the first chat whose delivery ends in an
  error; the chats behind it have no row until somebody asks for the reply again.

---------------------------------------------------------------------------------------

## 6. What is not modelled

* **Only model-checked.** Liveness (`AbortConcludes`, `CascadeArrives`, `CommitsReturn`,
  `CancelConcludes`, `EverySubmissionSettles`, `DeletionConcludes`, `CallsSettle`, `ScriptEnds`,
  `RecoveryConcludes`, `DueSlotsMoveOn`) is out of the prover's reach, and so is anything with
  `ENABLED`. Every safety property of the passing runs has a theorem. The library's induction
  theorems cannot be used (they take an operator); where an argument needs induction over
  numbers it takes the least counterexample of a set instead, so recursive functions can be
  reasoned about, but each needs its own lemmas.
* **Conversations.** Monitors (their messages are inputs of their own kind, and runs that
  only they started are not continued), compaction, forks, branches, purge.
  `Harness::abort_conversation` with `withdraw_queued_inputs` has no caller outside tests.
  `follow` and the messages of monitors do not look at the lifecycle of the *task's*
  session, which may have been deleted by itself; `conv_tasks` deletes the parent's, whose
  submissions do. A commit may not read a conversation it has written (`tx.rs:191`); that a
  commit which settles several generations keeps to this is not modelled.
* **Tools and scripts.** Progress snapshots, images, rendering; the limit of 256 nested calls,
  an incompatible worker, errors of reading memos.
* **Outbox and cron.** Deliveries without a key, retirement of rows, several chats of one
  channel, absorbed inputs, titles and the attention loops; parsing of schedules and time zones,
  changes of a definition, requests to activate a job that is not paused, manual runs. An error
  reading `durable.db` has no action of its own in `Outbox`: it is folded into the other
  troubles (a frame the watcher misses, an operation that fails). There is a home chat. `settle`
  of a firing, a read and a write, is one step. One job is modelled: an error at another job of
  the same scan makes it forget the runs it has fired before, which is what `ScanFails` does at
  `watch`. `RecoveryConcludes` is said of a last process whose operations succeed: the errors of
  the recovery and of the watchers are only logged in the code, so a firing they meet stays
  `queued` until the process is started again.
* **Event feed.** Purge, the snapshots of nested calls, the limit of concurrent reads
  (`READ_PERMITS`), several sessions (an eviction is one of the bounded troubles), which events
  a record is projected to (every record has a status frame here, though only `run.*` events
  change the status: more frames that could be repeated or reordered, not fewer), the
  submissions of several branches as tables of their own. Behaviour the properties allow for, as
  the code's comments do: a read that fails is only logged, and the events it would have given
  are lost to the connection (`events.rs:206`, `seed`); statuses and deltas that overflow are
  not sent again; a projection that was evicted while it was ahead of the queue pushes frames a
  second time, which connections drop, and statuses, which they do not.
* **Data.** Checkpoints, inputs, results, entries, message text, blobs, model output.
* **External.** The database engine: a transaction is atomic, `synchronous=FULL` syncs the
  log and everything before it, a power loss keeps a prefix.
* **Abstracted for the same reason everywhere.** A crash of the process is a crash of all of
  it; file and row writes are atomic; the clock does not go back.
* **Not modelled.** I/O and wire formats (providers, channels, tools, user interfaces,
  command line), configuration parsing, ranking in memory. Everything else in the table of section
  1 without a module is in the plan.

---------------------------------------------------------------------------------------

## 7. Plan

In order of what matters most. Each step adds its theorems or modules to the tables above.

1. **Monitors and compaction** as actions of `Conversations`, and the task session that is
   deleted by itself.
2. **The rules of `Tx`**: which reads a commit may make after which writes, composed with
   the commits that settle several tasks.
3. **Context**: fork chains, heads and folds as pure operators against a reference
   definition; purge against forks that still see the purged entries.

An abstract specification worth stating next is the exactly-once hand-back between two
conversations, of which `TaskRunsHandBack` says the state.
