----------------------------- MODULE TaskEngine -----------------------------
(***************************************************************************)
(* The durable task engine of komo: the scheduler of                       *)
(* komo-runtime/src/durable/scheduler.rs over the decisions of             *)
(* komo-kernel/src/durable/task/.                                          *)
(*                                                                         *)
(* Every commit goes through one FIFO line and publishes synchronously, so *)
(* one action is one commit closure (or one step outside the line that     *)
(* touches the scheduler's in-memory state).  `task`, `conversationOwner`  *)
(* and `minted` are durable; the rest is memory and is lost by a crash.    *)
(*                                                                         *)
(* Checkpoints, inputs, results and memos are abstracted: an invocation    *)
(* only remembers whether the checkpoint moved since its phase began.      *)
(***************************************************************************)
EXTENDS Integers, FiniteSets

CONSTANTS
    MaxTasks,           \* tasks are 1..MaxTasks, minted in this order
    Conversation,       \* the conversations that can ever exist
    Root,               \* the conversation that exists from the start
    HostTasks,          \* the kinds of task that are created from outside
    HandlerCreates,     \* what a handler's commit may create
    HandlerNext,        \* the next states handlers commit
    AbortTargets,       \* tasks aborted by id from outside
    AbortScopes,        \* conversations aborted as a whole
    FaultTargets,       \* statuses an outside repair applies fault_idle to
    MaxCrashes,         \* bound on the number of restarts
    MaxRegistryChanges  \* bound on the number of definition changes

TaskId == 1..MaxTasks
None == 0                            \* no owner
Unborn == -1                         \* a conversation that does not exist yet
OwnerId == TaskId \cup {None}

TaskStatus == {"absent", "pending", "running", "waiting", "completing", "terminal"}
\* "failed" stands for the handler outcomes Failed and Aborted.
HandlerOutcome == {"completed", "failed"}
TaskOutcome == HandlerOutcome \cup {"faulted", "orphaned"}
JoinPolicy == {"failFast", "allSettled"}
AbortMark == {"none", "restart", "request"}

TaskRecord ==
    [status : TaskStatus, outcome : TaskOutcome \cup {"none"},
     on : SUBSET TaskId, policy : JoinPolicy, mark : AbortMark,
     owner : OwnerId, conversation : Conversation,
     background : BOOLEAN, abandon : BOOLEAN,
     above : SUBSET TaskId]

\* What one handler commit may create and may write as the task's next state.
CreateChoice ==
    {[kind |-> "nothing"], [kind |-> "child"]}
    \cup [kind : {"task"}, conversation : Conversation, background : BOOLEAN]

NextTaskState ==
    {[kind |-> "none"]}
    \cup [kind : {"running"}, moved : {"same", "moved"}]
    \cup [kind : {"waiting"}, on : SUBSET TaskId, policy : JoinPolicy]
    \cup [kind : {"terminal"}, outcome : HandlerOutcome]

ASSUME MaxTasksAssumption == MaxTasks \in Nat
ASSUME RootAssumption == Root \in Conversation
ASSUME HostTasksAssumption ==
    HostTasks \subseteq
        [conversation : Conversation, background : BOOLEAN, abandon : BOOLEAN]
ASSUME FaultTargetsAssumption ==
    FaultTargets \subseteq {"pending", "running", "waiting", "completing"}
ASSUME BoundsAssumption == MaxCrashes \in Nat /\ MaxRegistryChanges \in Nat
ASSUME HandlerAssumption ==
    HandlerCreates \subseteq CreateChoice /\ HandlerNext \subseteq NextTaskState
ASSUME AbortAssumption == AbortTargets \subseteq TaskId /\ AbortScopes \subseteq Conversation

Absent ==
    [status |-> "absent", outcome |-> "none", on |-> {}, policy |-> "allSettled",
     mark |-> "none", owner |-> None, conversation |-> Root,
     background |-> FALSE, abandon |-> FALSE, above |-> {}]

VARIABLES
    task,               \* the task records
    minted,             \* how many task ids the storage has given out
    conversationOwner,  \* Unborn, None or the owning task of each conversation
    session,            \* "closed", "open" (scheduling paused) or "enabled"
    invocation,         \* what runs for a task: see InvocationState
    definition,         \* the registry's definition of the task's kind
    abandoned,          \* abandon_on_restart tasks found alive by open
    dirty,              \* a reservation pass is owed
    reconcileDue,       \* a reconcile commit is scheduled
    crashes, registryChanges

durable == <<task, minted, conversationOwner>>
memory == <<session, invocation, definition, abandoned, dirty, reconcileDue>>
bounds == <<crashes, registryChanges>>
vars == <<durable, memory, bounds>>

\* "reserved": registered, before its first step; "same" and "moved": the
\* phase handler runs and the checkpoint has not / has changed since the
\* phase began; "abort": the abort handler runs.
InvocationState == {"none", "reserved", "same", "moved", "abort"}
RunInvocation == {"reserved", "same", "moved"}
\* "changed": another definition object that can take over (possibly after a
\* migration); "blocked": missing, too old, or its migration failed.
Definition == {"current", "changed", "blocked"}

-----------------------------------------------------------------------------
(* The ownership forest.  Ownership never changes after creation, so the   *)
(* walk up from a new task is taken once and kept in its `above`: its      *)
(* owner (a task, or the task that owns its conversation) and, unless that *)
(* one is background, everything above it.                                 *)

Live(T, t) == T[t].status \notin {"absent", "terminal"}

Parent(owner, c) ==
    IF owner # None THEN owner
    ELSE IF conversationOwner[c] = Unborn THEN None ELSE conversationOwner[c]

AboveOf(p) ==
    IF p = None THEN {}
    ELSE {p} \cup (IF task[p].background THEN {} ELSE task[p].above)

\* The live ordinary work below t: what owned_live walks down to.
OwnedLive(T, t) ==
    {u \in TaskId : Live(T, u) /\ ~T[u].background /\ t \in T[u].above}

FailedOutcome(T, t) ==
    T[t].status \in {"completing", "terminal"} /\ T[t].outcome # "completed"

CancellationIntent(T, t) ==
    Live(T, t) /\ (T[t].mark # "none" \/ FailedOutcome(T, t))

CancellingOwners(t) == {o \in task[t].above : CancellationIntent(task, o)}

\* A task that an owner's cancellation intent reaches.
Cancelled(t) == ~task[t].background /\ CancellingOwners(t) # {}

\* X cannot end before Y.
HoldsUp(T, x, y) ==
    /\ Live(T, x) /\ Live(T, y)
    /\ \/ T[x].status = "waiting" /\ T[x].mark = "none" /\ y \in T[x].on
       \/ y \in OwnedLive(T, x)

\* Mutant of NoCycleThrough: only waiting on oneself is refused.
NoSelfWait(T, t, targets) == t \notin targets

\* wait_cycle finds no way from the targets back to t: what it visits is a
\* set closed under HoldsUp that does not hold t.
NoCycleThrough(T, t, targets) ==
    \E seen \in SUBSET TaskId :
        /\ targets \subseteq seen
        /\ t \notin seen
        /\ \A x \in seen, y \in TaskId : HoldsUp(T, x, y) => y \in seen

-----------------------------------------------------------------------------
(* Writing a record.                                                       *)

\* with_state for the states that keep no wait.
WithStatus(r, s) == [r EXCEPT !.status = s, !.on = {}, !.policy = "allSettled"]

WithOutcome(r, s, o) == [WithStatus(r, s) EXCEPT !.outcome = o]

\* Mutant of Ended: terminal at once, whatever is alive below.
EndedAtOnce(T, t, o) == WithOutcome(T[t], "terminal", o)

\* The outcome is held in "completing" while owned work is alive.
Ended(T, t, o) ==
    WithOutcome(T[t], IF OwnedLive(T, t) # {} THEN "completing" ELSE "terminal", o)

WithMark(r, m) == [r EXCEPT !.mark = m]

\* legal_transition and check_replacement: what write_task lets one record
\* become.  A refused write fails the commit, and in a reservation, a step or a
\* reconcile it fails the session.
LegalTransition(from, to) ==
    \/ from = to /\ from # "terminal"
    \/ from = "pending" /\ to \in {"running", "completing", "terminal"}
    \/ from = "running" /\ to \in {"pending", "waiting", "completing", "terminal"}
    \/ from = "waiting" /\ to \in {"running", "completing", "terminal"}
    \/ from = "completing" /\ to = "terminal"

SameIdentity(r, q) ==
    /\ q.owner = r.owner /\ q.conversation = r.conversation
    /\ q.background = r.background /\ q.abandon = r.abandon
    /\ q.above = r.above

CheckReplacement(r, q) ==
    /\ SameIdentity(r, q)
    /\ LegalTransition(r.status, q.status)
    /\ r.status = "completing" /\ q.status = "terminal" => q.outcome = r.outcome

\* What every publication of a task write schedules.
Published == dirty' = TRUE /\ reconcileDue' = TRUE

\* Mutant of End: nobody kicks.
EndWithoutKick(t) ==
    /\ invocation' = [invocation EXCEPT ![t] = "none"]
    /\ UNCHANGED dirty

\* The invocation leaves the map (sched.end), and the tokio task that ran it
\* kicks the scheduler.
End(t) ==
    /\ invocation' = [invocation EXCEPT ![t] = "none"]
    /\ dirty' = TRUE

\* The line admits commits while the session is not sealed.
Open_ == session # "closed"

-----------------------------------------------------------------------------
(* Creating tasks and conversations.                                       *)

NewTask(owner, c, bg, ab) ==
    [status |-> "pending", outcome |-> "none", on |-> {}, policy |-> "allSettled",
     mark |-> "none", owner |-> owner, conversation |-> c,
     background |-> bg, abandon |-> ab, above |-> AboveOf(Parent(owner, c))]

\* Mutant of CanOwn: the owner's abort mark is not looked at.
CanOwnThoughMarked(T, o) == T[o].status \in {"pending", "running", "waiting"}

\* assemble: an owner must be able to take on work in its final candidate.
CanOwn(T, o) ==
    T[o].status \in {"pending", "running", "waiting"} /\ T[o].mark = "none"

\* A commit from outside any task (a submission, a report) starts a task in a
\* conversation.
HostCreate(k) ==
    /\ Open_
    /\ minted < MaxTasks
    /\ conversationOwner[k.conversation] # Unborn
    /\ minted' = minted + 1
    /\ task' = [task EXCEPT ![minted + 1] =
                  NewTask(None, k.conversation, k.background, k.abandon)]
    /\ Published
    /\ UNCHANGED <<conversationOwner, session, invocation, definition, abandoned, bounds>>

\* A conversation owned by a live task: the child session of a background task.
CreateConversation(c, o) ==
    /\ Open_
    /\ conversationOwner[c] = Unborn
    /\ CanOwn(task, o)
    /\ conversationOwner' = [conversationOwner EXCEPT ![c] = o]
    /\ UNCHANGED <<task, minted, memory, bounds>>

-----------------------------------------------------------------------------
(* What a handler commits through its runtime.                             *)

Handling(t) == invocation[t] \in {"same", "moved", "abort"}

\* gated: the invocation still counts, the task is running, and a run commits
\* nothing once the abort mark is durable.
Gate(t) ==
    /\ Open_
    /\ Handling(t)
    /\ task[t].status = "running"
    /\ ~(invocation[t] \in RunInvocation /\ task[t].mark # "none")

\* validate_wait, over the candidates T of this commit.
ValidWait(T, t, on, policy) ==
    /\ invocation[t] # "abort"
    /\ \A m \in on : T[m].status # "absent"
    /\ policy = "failFast" => \A m \in on : T[m].owner = t
    /\ NoCycleThrough(T, t, {m \in on : Live(T, m) /\ T[m].owner # t})

\* The candidates with the one new task a commit may add: a child of t, or a
\* task in a conversation.
WithNew(t, creates) ==
    CASE creates.kind = "nothing" -> task
      [] creates.kind = "child" ->
           [task EXCEPT ![minted + 1] = NewTask(t, task[t].conversation, FALSE, FALSE)]
      [] creates.kind = "task" ->
           [task EXCEPT ![minted + 1] =
               NewTask(None, creates.conversation, creates.background, FALSE)]

\* commit_state: the candidates T with t's own next state.
WithNext(T, t, next) ==
    CASE next.kind = "none" -> T
      [] next.kind = "running" -> [T EXCEPT ![t] = WithStatus(T[t], "running")]
      [] next.kind = "waiting" ->
           [T EXCEPT ![t] = [T[t] EXCEPT !.status = "waiting", !.on = next.on,
                                         !.policy = next.policy]]
      [] next.kind = "terminal" -> [T EXCEPT ![t] = Ended(T, t, next.outcome)]

HandlerCommit(t, creates, next) ==
    /\ Gate(t)
    /\ creates.kind # "nothing" \/ next.kind # "none"
    /\ creates.kind # "nothing" => minted < MaxTasks
    /\ creates.kind = "task" => conversationOwner[creates.conversation] # Unborn
    /\ next.kind = "waiting" => ValidWait(WithNew(t, creates), t, next.on, next.policy)
    /\ task' = WithNext(WithNew(t, creates), t, next)
    /\ creates.kind = "child" => CanOwn(task', t)
    /\ minted' = IF creates.kind = "nothing" THEN minted ELSE minted + 1
    /\ invocation' = IF next.kind = "running" /\ invocation[t] # "abort"
                     THEN [invocation EXCEPT ![t] = next.moved] ELSE invocation
    /\ Published
    /\ UNCHANGED <<conversationOwner, session, definition, abandoned, bounds>>

-----------------------------------------------------------------------------
(* The step after a phase returned (decide_step), one action per decision. *)

Stepping(t) == Open_ /\ invocation[t] \in RunInvocation

\* Rules 1 and 3: the task is no longer running, or it carries a mark.
StepStop(t) ==
    /\ Stepping(t)
    /\ task[t].status # "running" \/ task[t].mark # "none"
    /\ End(t)
    /\ UNCHANGED <<durable, session, definition, abandoned, reconcileDue, bounds>>

\* An owner's cancellation has not come down as a mark yet.
StepCascade(t) ==
    /\ Stepping(t)
    /\ task[t].status = "running" /\ task[t].mark = "none"
    /\ Cancelled(t)
    /\ End(t)
    /\ reconcileDue' = TRUE
    /\ UNCHANGED <<durable, session, definition, abandoned, bounds>>

MayRunOn(t) ==
    /\ Stepping(t)
    /\ task[t].status = "running" /\ task[t].mark = "none"
    /\ ~Cancelled(t)

\* The registry snapshot is taken outside the line: it may predate any change
\* made since the invocation started.
Replacement(t) ==
    IF definition[t] = "current" THEN {"unchanged"}
    ELSE {"unchanged", "takeover", "unavailable"}

\* Rule 5, and the first phase.
StepContinue(t) ==
    /\ MayRunOn(t)
    /\ invocation[t] \in {"reserved", "moved"}
    /\ invocation[t] = "moved" =>
          \E r \in Replacement(t) : r # "takeover"
    /\ invocation' = [invocation EXCEPT ![t] = "same"]
    /\ UNCHANGED <<durable, session, definition, abandoned, dirty, reconcileDue, bounds>>

\* Rule 5 with a definition that takes over: back to pending, checkpoint kept.
StepHandover(t) ==
    /\ MayRunOn(t)
    /\ invocation[t] = "moved"
    /\ "takeover" \in Replacement(t)
    /\ task' = [task EXCEPT ![t] = WithStatus(@, "pending")]
    /\ End(t)
    /\ Published
    /\ UNCHANGED <<minted, conversationOwner, session, definition, abandoned, bounds>>

\* Rules 4 and 6: the phase failed, or returned without durable progress.
StepFault(t) ==
    /\ MayRunOn(t)
    /\ invocation[t] \in {"same", "moved"}
    /\ task' = [task EXCEPT ![t] = Ended(task, t, "faulted")]
    /\ End(t)
    /\ Published
    /\ UNCHANGED <<minted, conversationOwner, session, definition, abandoned, bounds>>

\* Mutant of AbortStep: a handler without an outcome is simply tried again.
AbortStepRetries(t) ==
    /\ Open_ /\ invocation[t] = "abort"
    /\ End(t)
    /\ UNCHANGED <<durable, session, definition, abandoned, reconcileDue, bounds>>

\* The abort handler returned: without an outcome the task faults.
AbortStep(t) ==
    /\ Open_ /\ invocation[t] = "abort"
    /\ End(t)
    /\ IF task[t].status = "running"
       THEN task' = [task EXCEPT ![t] = Ended(task, t, "faulted")] /\ Published
       ELSE UNCHANGED <<task, reconcileDue>>
    /\ UNCHANGED <<minted, conversationOwner, session, definition, abandoned, bounds>>

-----------------------------------------------------------------------------
(* Reservation.                                                            *)

\* Mutant of WaitingOn: an abort does not wait for the work below.
WaitingOnNothingWhenMarked(t) ==
    IF task[t].mark # "none" THEN {}
    ELSE {m \in task[t].on : task[t].status = "waiting" /\ Live(task, m)}

WaitingOn(t) ==
    IF task[t].mark # "none" THEN OwnedLive(task, t)
    ELSE {m \in task[t].on : task[t].status = "waiting" /\ Live(task, m)}

Candidate(t) ==
    /\ Live(task, t) /\ task[t].status # "completing"
    /\ invocation[t] = "none"
    /\ WaitingOn(t) = {}

\* Work under a cancelling owner starts no phase; it waits for its mark.
HeldBack(t) == task[t].mark = "none" /\ Cancelled(t)

\* The first pass after open only marks the tasks a restart abandons.
MarkAbandoned ==
    /\ session = "enabled" /\ dirty
    /\ abandoned # {}
    /\ task' = [t \in TaskId |->
                  IF t \in abandoned /\ Live(task, t) /\ task[t].mark = "none"
                  THEN WithMark(task[t], "restart") ELSE task[t]]
    /\ abandoned' = {}
    /\ dirty' = TRUE
    /\ reconcileDue' = (reconcileDue \/ task' # task)
    /\ UNCHANGED <<minted, conversationOwner, session, invocation, definition, bounds>>

\* The tasks a pass reaches, and of them those whose definition is missing or
\* whose migration is among the `failing` ones of this pass.
Reached == {t \in TaskId : Candidate(t) /\ ~HeldBack(t)}
Blocked(failing) == {t \in Reached : definition[t] = "blocked" \/ t \in failing}

\* One commit starts every task that can run, and gives up on those that were
\* asked to abort and cannot.
ReserveWith(failing) ==
    LET starts == Reached \ Blocked(failing)
        orphans == {t \in Blocked(failing) : task[t].mark = "request"}
    IN  /\ task' = [t \in TaskId |->
                       CASE t \in starts -> WithStatus(task[t], "running")
                         [] t \in orphans -> Ended(task, t, "orphaned")
                         [] OTHER -> task[t]]
        /\ invocation' = [t \in TaskId |->
                             IF t \notin starts THEN invocation[t]
                             ELSE IF task[t].mark = "none" THEN "reserved"
                             ELSE "abort"]
        /\ definition' = [t \in TaskId |->
                             CASE t \in starts -> "current"
                               [] t \in failing -> "blocked"
                               [] OTHER -> definition[t]]
        /\ dirty' = (task' # task)
        /\ reconcileDue' = (reconcileDue \/ task' # task
                            \/ \E t \in TaskId : Candidate(t) /\ HeldBack(t))

Reserve ==
    /\ session = "enabled" /\ dirty
    /\ abandoned = {}
    /\ \E failing \in SUBSET {t \in Reached : definition[t] = "changed"} :
          ReserveWith(failing)
    /\ UNCHANGED <<minted, conversationOwner, session, abandoned, bounds>>

-----------------------------------------------------------------------------
(* Reconcile: cancellation comes down, held outcomes come out.             *)

\* The nearest cancelling owner decides the mark it passes on.
Nearest(t) == CHOOSE o \in CancellingOwners(t) : \A p \in CancellingOwners(t) : p <= o

CascadeMark(t) ==
    LET o == Nearest(t)
    IN  IF task[o].mark = "restart" /\ ~FailedOutcome(task, o) THEN "restart" ELSE "request"

FailFastTarget(t) ==
    /\ Live(task, t) /\ ~FailedOutcome(task, t)
    /\ \E w \in TaskId :
         /\ task[w].status = "waiting" /\ task[w].policy = "failFast"
         /\ t \in task[w].on
         /\ \E m \in task[w].on : FailedOutcome(task, m)

\* Mutant of MarkFor: owners do not cascade.
MarkForWithoutCascade(t) ==
    IF FailFastTarget(t) THEN "request" ELSE task[t].mark

\* A request is never replaced, a restart only by a request.
MarkFor(t) ==
    LET cascaded == Live(task, t) /\ Cancelled(t)
        asked == FailFastTarget(t) \/ (cascaded /\ CascadeMark(t) = "request")
    IN  IF asked THEN "request"
        ELSE IF cascaded /\ task[t].mark = "none" THEN "restart"
        ELSE task[t].mark

\* Completing tasks with nothing alive below but other such tasks: finalize
\* repeats until none is left, innermost first.
Finalizable ==
    {t \in TaskId : /\ task[t].status = "completing"
                    /\ \A u \in OwnedLive(task, t) : task[u].status = "completing"}

Reconciled ==
    [t \in TaskId |->
        LET marked == WithMark(task[t], MarkFor(t))
        IN  IF t \in Finalizable THEN WithStatus(marked, "terminal") ELSE marked]

Reconcile ==
    /\ Open_ /\ reconcileDue
    /\ task' = Reconciled
    /\ reconcileDue' = (task' # task)
    /\ dirty' = (dirty \/ task' # task)
    /\ UNCHANGED <<minted, conversationOwner, session, invocation, definition,
                   abandoned, bounds>>

-----------------------------------------------------------------------------
(* Aborting and repairing from outside the task.                           *)

\* Sched::abort.  `keep` is abort_owned: the owner's own cleanup, which leaves
\* a restart mark alone.
Abort(t, keep) ==
    /\ Open_
    /\ Live(task, t)
    /\ keep => /\ task[t].owner # None
               /\ Handling(task[t].owner)
               /\ task[t].mark # "restart"
    /\ \E failing \in BOOLEAN :
         LET unowned == /\ invocation[t] = "none" /\ task[t].status # "completing"
                        /\ OwnedLive(task, t) = {}
             blocked == definition[t] = "blocked" \/ failing
         IN  /\ failing => unowned /\ definition[t] = "changed"
             /\ definition' = IF failing THEN [definition EXCEPT ![t] = "blocked"]
                                         ELSE definition
             /\ task' = [task EXCEPT ![t] =
                           IF unowned /\ blocked THEN Ended(task, t, "orphaned")
                           ELSE WithMark(@, "request")]
    /\ task' # task
    /\ Published
    /\ UNCHANGED <<minted, conversationOwner, session, invocation, abandoned, bounds>>

\* What the ordinary walk from the conversation reaches, stopping at
\* background tasks.
Reaches(c) ==
    LET inside == {t \in 1..minted : /\ task[t].conversation = c
                                     /\ task[t].owner = None
                                     /\ ~task[t].background}
    IN  inside \cup {t \in 1..minted : ~task[t].background
                                       /\ inside \cap task[t].above # {}}

\* The deletion of a session crosses background tasks: everything below the
\* conversation, as the least set closed under "owned by" and "held in".
EverythingBelow(c) ==
    LET Below(S, t) ==
            IF task[t].owner # None THEN task[t].owner \in S
            ELSE task[t].conversation = c \/ conversationOwner[task[t].conversation] \in S
    IN  {t \in 1..minted :
            \A S \in SUBSET (1..minted) :
                (\A u \in 1..minted : Below(S, u) => u \in S) => t \in S}

AbortConversation(c, background) ==
    /\ Open_
    /\ conversationOwner[c] # Unborn
    /\ LET reached == IF background THEN EverythingBelow(c) ELSE Reaches(c)
       IN  task' = [t \in TaskId |->
                     IF Live(task, t) /\ t \in reached
                     THEN WithMark(task[t], "request") ELSE task[t]]
    /\ task' # task
    /\ Published
    /\ UNCHANGED <<minted, conversationOwner, session, invocation, definition,
                   abandoned, bounds>>

\* fault_idle: a task that nothing runs is given up on.  A held outcome is
\* replaced while the task stays completing; finishing it with another outcome
\* is refused by check_replacement.
FaultIdle(t) ==
    /\ Open_
    /\ task[t].status \in FaultTargets
    /\ invocation[t] = "none"
    /\ task[t].status = "completing" => OwnedLive(task, t) # {}
    /\ task' = [task EXCEPT ![t] = Ended(task, t, "faulted")]
    /\ Published
    /\ UNCHANGED <<minted, conversationOwner, session, invocation, definition,
                   abandoned, bounds>>

\* The registry installs another definition object, or removes one.
RegistryChange(t) ==
    /\ registryChanges < MaxRegistryChanges
    /\ registryChanges' = registryChanges + 1
    /\ \E d \in {"changed", "blocked"} : definition' = [definition EXCEPT ![t] = d]
    /\ definition' # definition
    /\ dirty' = (dirty \/ Open_)
    /\ UNCHANGED <<durable, session, invocation, abandoned, reconcileDue, crashes>>

-----------------------------------------------------------------------------
(* The session.                                                            *)

\* A crash, a failed session, or a close: invocations end and write nothing.
Shutdown ==
    /\ Open_
    /\ crashes < MaxCrashes
    /\ crashes' = crashes + 1
    /\ session' = "closed"
    /\ invocation' = [t \in TaskId |-> "none"]
    /\ abandoned' = {}
    /\ dirty' = FALSE
    /\ reconcileDue' = FALSE
    /\ UNCHANGED <<durable, definition, registryChanges>>

\* Mutant of Reopen: no reconcile is scheduled.
ReopenWithoutReconcile ==
    /\ ~Open_
    /\ session' = "open"
    /\ task' = [t \in TaskId |->
                  IF task[t].status = "running" THEN WithStatus(task[t], "pending")
                  ELSE task[t]]
    /\ abandoned' = {t \in TaskId : Live(task, t) /\ task[t].abandon}
    /\ dirty' = (task' # task)
    /\ reconcileDue' = (task' # task)
    /\ UNCHANGED <<minted, conversationOwner, invocation, definition, bounds>>

\* open: what was running is pending again; scheduling stays paused.
Reopen ==
    /\ ~Open_
    /\ session' = "open"
    /\ task' = [t \in TaskId |->
                  IF task[t].status = "running" THEN WithStatus(task[t], "pending")
                  ELSE task[t]]
    /\ abandoned' = {t \in TaskId : Live(task, t) /\ task[t].abandon}
    /\ dirty' = (task' # task)
    /\ reconcileDue' = TRUE
    /\ UNCHANGED <<minted, conversationOwner, invocation, definition, bounds>>

Resume ==
    /\ session = "open"
    /\ session' = "enabled"
    /\ dirty' = TRUE
    /\ UNCHANGED <<durable, invocation, definition, abandoned, reconcileDue, bounds>>

-----------------------------------------------------------------------------
Init ==
    /\ task = [t \in TaskId |-> Absent]
    /\ minted = 0
    /\ conversationOwner = [c \in Conversation |-> IF c = Root THEN None ELSE Unborn]
    /\ session = "open"
    /\ invocation = [t \in TaskId |-> "none"]
    /\ definition = [t \in TaskId |-> "current"]
    /\ abandoned = {}
    /\ dirty = FALSE
    /\ reconcileDue = FALSE
    /\ crashes = 0
    /\ registryChanges = 0

Host ==
    \/ \E k \in HostTasks : HostCreate(k)
    \/ \E c \in Conversation, o \in TaskId : CreateConversation(c, o)
    \/ \E t \in AbortTargets : Abort(t, FALSE)
    \/ \E t \in TaskId : Abort(t, TRUE)
    \/ \E c \in AbortScopes, background \in BOOLEAN : AbortConversation(c, background)
    \/ \E t \in TaskId : FaultIdle(t)
    \/ \E t \in TaskId : RegistryChange(t)

Handler ==
    \E t \in TaskId :
        /\ Gate(t)
        /\ \E creates \in HandlerCreates, next \in HandlerNext : HandlerCommit(t, creates, next)

Step(t) ==
    \/ StepStop(t) \/ StepCascade(t) \/ StepContinue(t)
    \/ StepHandover(t) \/ StepFault(t) \/ AbortStep(t)

Scheduler ==
    \/ \E t \in TaskId : Step(t)
    \/ MarkAbandoned \/ Reserve \/ Reconcile

Session == Shutdown \/ Reopen \/ Resume

Next == Host \/ Handler \/ Scheduler \/ Session

\* The tokio tasks behind the drain loop and reconcile always get to run,
\* and a closed session is opened again.  A handler is only owed to return once
\* it has been signalled: its task carries an abort mark or is no longer its own.
Signalled(t) == task[t].mark # "none" \/ task[t].status # "running" \/ Cancelled(t)

Fairness ==
    /\ WF_vars(MarkAbandoned \/ Reserve)
    /\ WF_vars(Reconcile)
    /\ WF_vars(Reopen)
    /\ WF_vars(Resume)
    /\ \A t \in TaskId : WF_vars(Signalled(t) /\ Step(t))

Spec == Init /\ [][Next]_vars
FairSpec == Spec /\ Fairness

-----------------------------------------------------------------------------
(* Properties.                                                             *)

\* What the record of each status carries.
Consistent(r) ==
    /\ r.status = "absent" => r = Absent
    /\ r.status # "waiting" => r.on = {}
    /\ r.outcome = "none" <=> r.status \notin {"completing", "terminal"}

\* The shape of the state, and the agreement of each record with its status.
TypeOK ==
    /\ task \in [TaskId -> TaskRecord]
    /\ \A t \in TaskId : /\ Consistent(task[t])
                         /\ task[t].status = "absent" <=> t > minted
    /\ minted \in 0..MaxTasks
    /\ conversationOwner \in [Conversation -> OwnerId \cup {Unborn}]
    /\ session \in {"closed", "open", "enabled"}
    /\ invocation \in [TaskId -> InvocationState]
    /\ definition \in [TaskId -> Definition]
    /\ abandoned \in SUBSET TaskId
    /\ dirty \in BOOLEAN /\ reconcileDue \in BOOLEAN
    /\ crashes \in 0..MaxCrashes
    /\ registryChanges \in 0..MaxRegistryChanges

\* Every record the engine writes passes check_replacement against the record
\* it replaces, so no reservation, step or reconcile can fail the session on it.
WritesPassTheCheck ==
    [][\A t \in 1..minted :
         task'[t] # task[t] => CheckReplacement(task[t], task'[t])]_vars

\* Structured concurrency: a task created under an owner task is over by the
\* time the owner is terminal, whatever mix of commits, faults, aborts,
\* orphaning and restarts ended the owner (Ended, finalize, assemble).
OwnersOutliveTheirTasks ==
    \A t \in TaskId : Live(task, t) /\ task[t].owner # None => Live(task, task[t].owner)

\* A task never becomes terminal over live ordinary work, at any depth and
\* through the conversations it owns.  (Later work in an owned conversation is
\* allowed: its owner may already be terminal.)
TerminalLeavesNothing ==
    [][\A t \in TaskId :
         (task[t].status # "terminal" /\ task'[t].status = "terminal")
            => OwnedLive(task', t) = {}]_vars

\* Live tasks never hold each other up in a circle: a wait is refused when it
\* would close one, and nothing that happens later (new owned work, marks,
\* hand-overs, restarts) closes one either.
NoWaitCycle ==
    \A S \in SUBSET TaskId :
        S # {} => \E x \in S : \A y \in S : ~HoldsUp(task, x, y)

\* Abort goes bottom up: while an abort handler runs, no task owned by its task
\* is alive, although the owner's handlers and the cascade run concurrently.
AbortRunsAboveNothing ==
    \A t \in TaskId : invocation[t] = "abort" =>
        \A u \in TaskId : task[u].owner = t => ~Live(task, u)

\* A request to abort is never weakened to a restart mark, and no mark is lost,
\* over cascades, restarts and owner cleanups.
MarksOnlyStrengthen ==
    [][\A t \in TaskId :
         /\ task[t].mark = "request" => task'[t].mark = "request"
         /\ task[t].mark = "restart" => task'[t].mark # "none"]_vars

\* Once the scheduled reconcile has run, everything that the records imply is
\* written: ordinary work below a cancelling owner carries a mark, a request
\* where the nearest cancelling owner was asked or failed, and the other members
\* of a failed fail-fast wait are asked to abort.  A restart re-derives it.
CancellationSettled ==
    (Open_ /\ ~reconcileDue) =>
        \A t \in TaskId : Live(task, t) =>
            /\ Cancelled(t) => task[t].mark # "none"
            /\ \A o \in CancellingOwners(t) :
                 (/\ ~task[t].background
                  /\ \A p \in CancellingOwners(t) : p <= o
                  /\ task[o].mark = "request" \/ FailedOutcome(task, o))
                     => task[t].mark = "request"
            /\ \A w, m \in TaskId :
                 (/\ task[w].status = "waiting" /\ task[w].policy = "failFast"
                  /\ {t, m} \subseteq task[w].on
                  /\ task[t].status # "completing"
                  /\ task[m].outcome \notin {"none", "completed"})
                     => task[t].mark = "request"

\* When the scheduler owes nothing and nothing runs, no live task is left
\* behind: a reservation, a cascade or a finalization was never forgotten and no
\* circle of waits is stuck.  (Tasks without a usable definition do stay.)
Quiet ==
    /\ session = "enabled" /\ ~dirty /\ ~reconcileDue
    /\ \A t \in TaskId : invocation[t] = "none"

NothingStranded ==
    (Quiet /\ \A t \in TaskId : Live(task, t) => definition[t] # "blocked")
        => \A t \in TaskId : ~Live(task, t)

\* A task asked to abort ends, through restarts, hand-overs and the work below
\* it, as long as signalled handlers return.
AbortConcludes ==
    \A t \in TaskId : (task[t].mark = "request") ~> (task[t].status = "terminal")

\* Cancellation comes down: ordinary work below a cancelling owner is marked or
\* ends.
CascadeArrives ==
    \A t \in TaskId :
        (Live(task, t) /\ Cancelled(t)) ~> (task[t].mark # "none" \/ ~Live(task, t))

=============================================================================
