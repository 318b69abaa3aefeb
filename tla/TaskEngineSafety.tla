-------------------------- MODULE TaskEngineSafety --------------------------
(***************************************************************************)
(* Theorems of the task engine.  First what any step does to one task      *)
(* record, and what follows from it alone: the type invariant, the         *)
(* legality of every write, the monotonicity of abort marks.  Then the     *)
(* ownership forest, and what structured concurrency rests on it: a task   *)
(* ends over nothing alive, owners outlive what they own, an abort handler *)
(* runs above nothing, live tasks do not hold each other up in a circle.   *)
(* With what a reconcile and a pass owe, no task is left behind; and every *)
(* step of the engine is one that StructuredTasks allows.                  *)
(***************************************************************************)
EXTENDS TaskEngineImplements, TLAPS

-----------------------------------------------------------------------------
(* What a step does to one record.                                         *)

\* What a step may make of the record of a task that exists.
Rewrite(r, q) ==
    /\ q \in TaskRecord
    /\ Consistent(q)
    /\ SameIdentity(r, q)
    /\ q # r => CheckReplacement(r, q)
    /\ r.mark = "request" => q.mark = "request"
    /\ r.mark = "restart" => q.mark # "none"

\* A record as it is created.
Fresh(r) ==
    /\ r \in TaskRecord
    /\ r.status = "pending" /\ r.outcome = "none" /\ r.mark = "none" /\ r.on = {}

\* What a step makes of all records.
RecordsStep ==
    /\ task' \in [TaskId -> TaskRecord]
    /\ \A t \in TaskId : t <= minted => Rewrite(task[t], task'[t])
    /\ \A t \in TaskId : t > minted' => task'[t].status = "absent" /\ Consistent(task'[t])
    /\ minted' \in {minted, minted + 1} /\ minted' <= MaxTasks
    /\ minted' = minted + 1 => Fresh(task'[minted + 1])

-----------------------------------------------------------------------------
(* The records the writing operators return.                               *)

\* with_state keeps the identity, the outcome and the mark, and drops the wait.
LEMMA WithStatusFields ==
    ASSUME NEW r \in TaskRecord, NEW s \in TaskStatus
    PROVE  /\ WithStatus(r, s) \in TaskRecord
           /\ SameIdentity(r, WithStatus(r, s))
           /\ WithStatus(r, s).status = s
           /\ WithStatus(r, s).on = {}
           /\ WithStatus(r, s).outcome = r.outcome
           /\ WithStatus(r, s).mark = r.mark
  BY DEF WithStatus, TaskRecord, JoinPolicy, SameIdentity

\* The same with an outcome.
LEMMA WithOutcomeFields ==
    ASSUME NEW r \in TaskRecord, NEW s \in TaskStatus, NEW o \in TaskOutcome
    PROVE  /\ WithOutcome(r, s, o) \in TaskRecord
           /\ SameIdentity(r, WithOutcome(r, s, o))
           /\ WithOutcome(r, s, o).status = s
           /\ WithOutcome(r, s, o).on = {}
           /\ WithOutcome(r, s, o).outcome = o
           /\ WithOutcome(r, s, o).mark = r.mark
  BY DEF WithOutcome, WithStatus, TaskRecord, JoinPolicy, SameIdentity

\* with_abort_mark changes only the mark.
LEMMA WithMarkFields ==
    ASSUME NEW r \in TaskRecord, NEW m \in AbortMark
    PROVE  /\ WithMark(r, m) \in TaskRecord
           /\ SameIdentity(r, WithMark(r, m))
           /\ WithMark(r, m).status = r.status
           /\ WithMark(r, m).on = r.on
           /\ WithMark(r, m).outcome = r.outcome
           /\ WithMark(r, m).mark = m
           /\ m = r.mark => WithMark(r, m) = r
  BY DEF WithMark, TaskRecord, AbortMark, SameIdentity

-----------------------------------------------------------------------------
(* What the writes of the engine make of a record.                         *)

\* A record that is not written.
LEMMA KeptRecord ==
    ASSUME NEW r \in TaskRecord, Consistent(r)
    PROVE  Rewrite(r, r)
  BY DEF Rewrite, SameIdentity

\* A task that starts, hands over or restarts: neither completing nor over, and
\* the transition is legal.
LEMMA StatusRewrite ==
    ASSUME NEW r \in TaskRecord, Consistent(r), NEW s \in {"pending", "running"},
           r.status \in {"pending", "running", "waiting"},
           LegalTransition(r.status, s)
    PROVE  Rewrite(r, WithStatus(r, s))
  <1>1. s \in TaskStatus
    BY DEF TaskStatus
  <1> QED
    BY <1>1, WithStatusFields DEF Rewrite, Consistent, CheckReplacement

\* A task whose outcome is decided while it is pending, running or waiting.
LEMMA OutcomeRewrite ==
    ASSUME NEW r \in TaskRecord, Consistent(r), NEW o \in TaskOutcome,
           NEW s \in {"completing", "terminal"},
           r.status \in {"pending", "running", "waiting"}
    PROVE  Rewrite(r, WithOutcome(r, s, o))
  <1>1. s \in TaskStatus
    BY DEF TaskStatus
  <1>2. o # "none"
    BY DEF TaskOutcome, HandlerOutcome
  <1> QED
    BY <1>1, <1>2, WithOutcomeFields
    DEF Rewrite, Consistent, CheckReplacement, LegalTransition

\* A held outcome that is replaced while the task stays completing.
LEMMA HeldRewrite ==
    ASSUME NEW r \in TaskRecord, Consistent(r), NEW o \in TaskOutcome,
           r.status = "completing"
    PROVE  Rewrite(r, WithOutcome(r, "completing", o))
  <1>1. "completing" \in TaskStatus /\ o # "none"
    BY DEF TaskStatus, TaskOutcome, HandlerOutcome
  <1> QED
    BY <1>1, WithOutcomeFields DEF Rewrite, Consistent, CheckReplacement, LegalTransition

\* A completing task that is finished with the outcome it holds, and marked or
\* not.
LEMMA FinalRewrite ==
    ASSUME NEW r \in TaskRecord, Consistent(r), NEW m \in AbortMark,
           r.status = "completing",
           r.mark = "request" => m = "request",
           r.mark = "restart" => m # "none"
    PROVE  Rewrite(r, WithStatus(WithMark(r, m), "terminal"))
  <1>1. "terminal" \in TaskStatus
    BY DEF TaskStatus
  <1> QED
    BY <1>1, WithMarkFields, WithStatusFields
    DEF Rewrite, Consistent, CheckReplacement, LegalTransition, SameIdentity

\* A live task that is marked.
LEMMA MarkRewrite ==
    ASSUME NEW r \in TaskRecord, Consistent(r), NEW m \in AbortMark,
           r.status \notin {"absent", "terminal"} \/ m = r.mark,
           r.mark = "request" => m = "request",
           r.mark = "restart" => m # "none"
    PROVE  Rewrite(r, WithMark(r, m))
  <1>1. r.status \in TaskStatus
    BY DEF TaskRecord
  <1>2. CASE m = r.mark
    BY <1>2, WithMarkFields, KeptRecord
  <1>3. CASE r.status \notin {"absent", "terminal"}
    BY <1>1, <1>3, WithMarkFields
    DEF Rewrite, Consistent, CheckReplacement, LegalTransition, TaskStatus
  <1> QED
    BY <1>2, <1>3

\* Ended, for a task of T in a state that can end.
LEMMA EndedRewrite ==
    ASSUME NEW T, NEW t \in TaskId, T[t] \in TaskRecord, Consistent(T[t]),
           NEW o \in TaskOutcome,
           \/ T[t].status \in {"pending", "running", "waiting"}
           \/ T[t].status = "completing" /\ OwnedLive(T, t) # {}
    PROVE  Rewrite(T[t], Ended(T, t, o))
  <1>1. CASE T[t].status \in {"pending", "running", "waiting"}
    <2>1. CASE OwnedLive(T, t) # {}
      BY <1>1, <2>1, OutcomeRewrite DEF Ended
    <2>2. CASE OwnedLive(T, t) = {}
      BY <1>1, <2>2, OutcomeRewrite DEF Ended
    <2> QED
      BY <2>1, <2>2
  <1>2. CASE T[t].status = "completing" /\ OwnedLive(T, t) # {}
    BY <1>2, HeldRewrite DEF Ended
  <1> QED
    BY <1>1, <1>2

-----------------------------------------------------------------------------
(* From records to the whole step.                                         *)

\* The part of TypeOK that is about the records.
RecordsOK ==
    /\ minted \in 0..MaxTasks
    /\ task \in [TaskId -> TaskRecord]
    /\ \A t \in TaskId : /\ Consistent(task[t])
                         /\ task[t].status = "absent" <=> t > minted

\* The type invariant gives the invariant of the records.
LEMMA TypeRecords == TypeOK => RecordsOK
  BY DEF TypeOK, RecordsOK, Consistent

\* A step that creates no task and rewrites or keeps each record.
LEMMA EachRecord ==
    ASSUME RecordsOK, minted' = minted,
           task' = [t \in TaskId |-> task'[t]],
           \A t \in TaskId : \/ task'[t] = task[t]
                             \/ (t <= minted /\ Rewrite(task[t], task'[t]))
    PROVE  RecordsStep
  <1>1. minted \in Nat /\ minted <= MaxTasks
    BY MaxTasksAssumption DEF RecordsOK
  <1>2. ASSUME NEW t \in TaskId
        PROVE  /\ task'[t] \in TaskRecord
               /\ t <= minted => Rewrite(task[t], task'[t])
               /\ t > minted => task'[t] = task[t]
    <2>1. t \in Int
      BY MaxTasksAssumption DEF TaskId
    <2>2. task[t] \in TaskRecord /\ Consistent(task[t])
      BY DEF RecordsOK
    <2>3. CASE task'[t] = task[t]
      BY <2>2, <2>3, KeptRecord
    <2>4. CASE t <= minted /\ Rewrite(task[t], task'[t])
      BY <1>1, <2>1, <2>4 DEF Rewrite
    <2> QED
      BY <2>3, <2>4
  <1>3. task' \in [TaskId -> TaskRecord]
    BY <1>2
  <1>4. \A t \in TaskId : t > minted => task'[t].status = "absent" /\ Consistent(task'[t])
    BY <1>2 DEF RecordsOK
  <1>5. minted' # minted + 1 /\ minted' <= MaxTasks
    BY <1>1
  <1> QED
    BY <1>2, <1>3, <1>4, <1>5 DEF RecordsStep

\* A step that leaves the records and the ids alone is a legal records step.
LEMMA RecordsKept ==
    ASSUME RecordsOK, UNCHANGED <<task, minted>>
    PROVE  RecordsStep
  BY EachRecord DEF RecordsOK

\* Rewriting one born record legally is a legal records step.
LEMMA OneRecord ==
    ASSUME RecordsOK, minted' = minted, NEW t \in TaskId, t <= minted,
           NEW q, Rewrite(task[t], q), task' = [task EXCEPT ![t] = q]
    PROVE  RecordsStep
  <1>1. task' = [u \in TaskId |-> task'[u]]
    BY DEF RecordsOK
  <1>2. ASSUME NEW u \in TaskId
        PROVE  task'[u] = task[u] \/ (u <= minted /\ Rewrite(task[u], task'[u]))
    BY DEF RecordsOK
  <1> QED
    BY <1>1, <1>2, EachRecord

\* A task that is not absent has been minted.
LEMMA Minted ==
    ASSUME RecordsOK, NEW t \in TaskId, task[t].status # "absent"
    PROVE  t <= minted
  BY MaxTasksAssumption DEF RecordsOK, TaskId

\* The statuses of a live task.
LEMMA LiveStatus ==
    ASSUME RecordsOK, NEW t \in TaskId, Live(task, t)
    PROVE  /\ t <= minted
           /\ task[t] \in TaskRecord /\ Consistent(task[t])
           /\ task[t].status \in {"pending", "running", "waiting", "completing"}
  BY Minted DEF Live, RecordsOK, TaskRecord, TaskStatus

-----------------------------------------------------------------------------
(* Steps that create no task.                                              *)

\* Handing a task over (Sched::step, Handover) writes a legal record.
LEMMA StepHandoverRecords ==
    ASSUME RecordsOK, NEW t \in TaskId, StepHandover(t)
    PROVE  RecordsStep
  <1>1. task[t].status = "running" /\ t <= minted
    BY Minted DEF StepHandover, MayRunOn
  <1>2. Rewrite(task[t], WithStatus(task[t], "pending"))
    BY <1>1, StatusRewrite DEF RecordsOK, LegalTransition
  <1> QED
    BY <1>1, <1>2, OneRecord DEF StepHandover

\* Faulting a task that is not done writes a legal record.
LEMMA FaultRecords ==
    ASSUME RecordsOK, NEW t \in TaskId, minted' = minted,
           \/ task[t].status \in {"pending", "running", "waiting"}
           \/ task[t].status = "completing" /\ OwnedLive(task, t) # {},
           task' = [task EXCEPT ![t] = Ended(task, t, "faulted")]
    PROVE  RecordsStep
  <1>1. t <= minted
    BY Minted
  <1>2. Rewrite(task[t], Ended(task, t, "faulted"))
    BY EndedRewrite DEF RecordsOK, TaskOutcome
  <1> QED
    BY <1>1, <1>2, OneRecord

\* A fault decided by decide_step writes a legal record.
LEMMA StepFaultRecords ==
    ASSUME RecordsOK, NEW t \in TaskId, StepFault(t)
    PROVE  RecordsStep
  BY FaultRecords DEF StepFault, MayRunOn

\* An abort handler that returns (run_abort) writes a legal record.
LEMMA AbortStepRecords ==
    ASSUME RecordsOK, NEW t \in TaskId, AbortStep(t)
    PROVE  RecordsStep
  <1>1. CASE task[t].status = "running"
    BY <1>1, FaultRecords DEF AbortStep
  <1>2. CASE task[t].status # "running"
    BY <1>2, RecordsKept DEF AbortStep
  <1> QED
    BY <1>1, <1>2

\* fault_idle writes a legal record.
LEMMA FaultIdleRecords ==
    ASSUME RecordsOK, NEW t \in TaskId, FaultIdle(t)
    PROVE  RecordsStep
  <1>1. \/ task[t].status \in {"pending", "running", "waiting"}
        \/ task[t].status = "completing" /\ OwnedLive(task, t) # {}
    BY FaultTargetsAssumption DEF FaultIdle
  <1> QED
    BY <1>1, FaultRecords DEF FaultIdle

\* Marking a task and its owned work (abort, abort_owned) writes legal records.
LEMMA AbortRecords ==
    ASSUME RecordsOK, NEW t \in TaskId, NEW keep, Abort(t, keep)
    PROVE  RecordsStep
  <1>1. /\ t <= minted /\ task[t] \in TaskRecord /\ Consistent(task[t])
        /\ task[t].status \in {"pending", "running", "waiting", "completing"}
    BY LiveStatus DEF Abort
  <1>2. Rewrite(task[t], WithMark(task[t], "request"))
    BY <1>1, MarkRewrite DEF AbortMark
  <1>3. task[t].status # "completing" => Rewrite(task[t], Ended(task, t, "orphaned"))
    BY <1>1, EndedRewrite DEF TaskOutcome
  <1>4. \/ task' = [task EXCEPT ![t] = WithMark(task[t], "request")]
        \/ /\ task[t].status # "completing"
           /\ task' = [task EXCEPT ![t] = Ended(task, t, "orphaned")]
    BY DEF Abort
  <1> QED
    BY <1>1, <1>2, <1>3, <1>4, OneRecord DEF Abort

\* Marking the work of a conversation writes legal records.
LEMMA AbortConversationRecords ==
    ASSUME RecordsOK, NEW c \in Conversation, NEW b \in BOOLEAN, AbortConversation(c, b)
    PROVE  RecordsStep
  <1>1. ASSUME NEW t \in TaskId
        PROVE  \/ task'[t] = task[t]
               \/ (t <= minted /\ Rewrite(task[t], task'[t]))
    <2>1. CASE Live(task, t) /\ task'[t] = WithMark(task[t], "request")
      BY <2>1, LiveStatus, MarkRewrite DEF AbortMark
    <2> QED
      BY <2>1 DEF AbortConversation
  <1> QED
    BY <1>1, EachRecord DEF AbortConversation

\* Marking the tasks a restart abandons writes legal records.
LEMMA MarkAbandonedRecords ==
    ASSUME RecordsOK, MarkAbandoned
    PROVE  RecordsStep
  <1>1. ASSUME NEW t \in TaskId
        PROVE  \/ task'[t] = task[t]
               \/ (t <= minted /\ Rewrite(task[t], task'[t]))
    <2>1. CASE t \in abandoned /\ Live(task, t) /\ task[t].mark = "none"
      <3>1. task'[t] = WithMark(task[t], "restart")
        BY <2>1 DEF MarkAbandoned
      <3> QED
        BY <2>1, <3>1, LiveStatus, MarkRewrite DEF AbortMark
    <2> QED
      BY <2>1 DEF MarkAbandoned
  <1> QED
    BY <1>1, EachRecord DEF MarkAbandoned

\* Opening again, running to pending, writes legal records.
LEMMA ReopenRecords ==
    ASSUME RecordsOK, Reopen
    PROVE  RecordsStep
  <1>1. ASSUME NEW t \in TaskId
        PROVE  \/ task'[t] = task[t]
               \/ (t <= minted /\ Rewrite(task[t], task'[t]))
    <2>1. CASE task[t].status = "running"
      <3>1. task'[t] = WithStatus(task[t], "pending")
        BY <2>1 DEF Reopen
      <3> QED
        BY <2>1, <3>1, Minted, StatusRewrite DEF RecordsOK, LegalTransition
    <2> QED
      BY <2>1 DEF Reopen
  <1> QED
    BY <1>1, EachRecord DEF Reopen

\* A reservation (start, orphan, or leave alone) writes legal records.
LEMMA ReserveRecords ==
    ASSUME RecordsOK, Reserve
    PROVE  RecordsStep
  <1>1. PICK starts, orphans \in SUBSET Reached :
          task' = [t \in TaskId |->
                     CASE t \in starts -> WithStatus(task[t], "running")
                       [] t \in orphans -> Ended(task, t, "orphaned")
                       [] OTHER -> task[t]]
    <2>1. PICK failing : ReserveWith(failing)
      BY DEF Reserve
    <2>2. /\ Reached \ Blocked(failing) \in SUBSET Reached
          /\ {t \in Blocked(failing) : task[t].mark = "request"} \in SUBSET Reached
      BY DEF Blocked
    <2> QED
      BY <2>1, <2>2 DEF ReserveWith
  <1>2. ASSUME NEW t \in TaskId
        PROVE  \/ task'[t] = task[t]
               \/ (t <= minted /\ Rewrite(task[t], task'[t]))
    <2>1. CASE t \in starts \cup orphans
      <3>1. /\ t <= minted /\ task[t] \in TaskRecord /\ Consistent(task[t])
            /\ task[t].status \in {"pending", "running", "waiting"}
        BY <2>1, LiveStatus DEF Candidate, Reached
      <3>2. Rewrite(task[t], WithStatus(task[t], "running"))
        BY <3>1, StatusRewrite DEF LegalTransition
      <3>3. Rewrite(task[t], Ended(task, t, "orphaned"))
        BY <3>1, EndedRewrite DEF TaskOutcome
      <3> QED
        BY <1>1, <2>1, <3>1, <3>2, <3>3
    <2> QED
      BY <1>1, <2>1
  <1> QED
    BY <1>1, <1>2, EachRecord DEF Reserve

\* A reconcile only marks live tasks, and never takes a mark back.
LEMMA MarkForMonotone ==
    ASSUME RecordsOK, NEW t \in TaskId
    PROVE  /\ MarkFor(t) \in AbortMark
           /\ task[t].mark = "request" => MarkFor(t) = "request"
           /\ task[t].mark = "restart" => MarkFor(t) # "none"
           /\ ~Live(task, t) => MarkFor(t) = task[t].mark
  <1>1. task[t].mark \in AbortMark
    BY DEF RecordsOK, TaskRecord
  <1>2. ~Live(task, t) => MarkFor(t) = task[t].mark
    BY DEF MarkFor, FailFastTarget
  <1>3. CASE FailFastTarget(t) \/ (Live(task, t) /\ Cancelled(t) /\ CascadeMark(t) = "request")
    BY <1>2, <1>3 DEF MarkFor, AbortMark
  <1>4. CASE ~(FailFastTarget(t) \/ (Live(task, t) /\ Cancelled(t) /\ CascadeMark(t) = "request"))
    BY <1>1, <1>2, <1>4 DEF MarkFor, AbortMark
  <1> QED
    BY <1>3, <1>4

\* A reconcile (cascade marks and finalized outcomes) writes legal records.
LEMMA ReconcileRecords ==
    ASSUME RecordsOK, Reconcile
    PROVE  RecordsStep
  <1>1. ASSUME NEW t \in TaskId
        PROVE  \/ task'[t] = task[t]
               \/ (t <= minted /\ Rewrite(task[t], task'[t]))
    <2>1. /\ task[t] \in TaskRecord /\ Consistent(task[t])
          /\ task'[t] = IF t \in Finalizable
                        THEN WithStatus(WithMark(task[t], MarkFor(t)), "terminal")
                        ELSE WithMark(task[t], MarkFor(t))
      BY DEF RecordsOK, Reconcile, Reconciled
    <2>2. CASE t \in Finalizable
      <3>1. task[t].status = "completing"
        BY <2>2 DEF Finalizable
      <3> QED
        BY <2>1, <2>2, <3>1, MarkForMonotone, FinalRewrite, Minted
    <2>3. CASE t \notin Finalizable /\ Live(task, t)
      <3>1. task[t].status \notin {"absent", "terminal"}
        BY <2>3 DEF Live
      <3> QED
        BY <2>1, <2>3, <3>1, MarkForMonotone, MarkRewrite, Minted
    <2>4. CASE t \notin Finalizable /\ ~Live(task, t)
      BY <2>1, <2>4, MarkForMonotone, WithMarkFields
    <2> QED
      BY <2>2, <2>3, <2>4
  <1> QED
    BY <1>1, EachRecord DEF Reconcile, Reconciled

-----------------------------------------------------------------------------
(* Steps that create a task.                                               *)

OwnersOK == conversationOwner \in [Conversation -> OwnerId \cup {Unborn}]

\* A new task is pending, with everything above it taken from its parent.
LEMMA NewTaskFields ==
    ASSUME RecordsOK, OwnersOK, NEW owner \in OwnerId, NEW c \in Conversation,
           NEW bg \in BOOLEAN, NEW ab \in BOOLEAN
    PROVE  /\ Fresh(NewTask(owner, c, bg, ab))
           /\ NewTask(owner, c, bg, ab).owner = owner
           /\ NewTask(owner, c, bg, ab).background = bg
           /\ NewTask(owner, c, bg, ab).above = AboveOf(Parent(owner, c))
           /\ Parent(owner, c) \in OwnerId
  <1>1. Parent(owner, c) \in OwnerId
    BY DEF Parent, OwnersOK, OwnerId, Unborn, None
  <1>2. AboveOf(Parent(owner, c)) \in SUBSET TaskId
    <2>1. ASSUME Parent(owner, c) # None
          PROVE  task[Parent(owner, c)] \in TaskRecord /\ Parent(owner, c) \in TaskId
      BY <1>1, <2>1 DEF RecordsOK, OwnerId
    <2> QED
      BY <2>1 DEF AboveOf, TaskRecord
  <1> DEFINE q == NewTask(owner, c, bg, ab)
             above == AboveOf(Parent(owner, c))
  <1>3. q = [status |-> "pending", outcome |-> "none", on |-> {}, policy |-> "allSettled",
             mark |-> "none", owner |-> owner, conversation |-> c,
             background |-> bg, abandon |-> ab, above |-> above]
    BY DEF NewTask
  <1> HIDE DEF q, above
  <1>4. /\ q \in TaskRecord
        /\ q.status = "pending" /\ q.outcome = "none" /\ q.mark = "none" /\ q.on = {}
        /\ q.owner = owner /\ q.background = bg /\ q.above = above
    BY <1>2, <1>3 DEF above, TaskRecord, TaskStatus, JoinPolicy, AbortMark
  <1> QED
    BY <1>1, <1>4 DEF Fresh, q, above

\* A task created from outside is a legal new record.
LEMMA HostCreateRecords ==
    ASSUME RecordsOK, OwnersOK, NEW k \in HostTasks, HostCreate(k)
    PROVE  RecordsStep
  <1>1. /\ k.conversation \in Conversation /\ k.background \in BOOLEAN /\ k.abandon \in BOOLEAN
        /\ None \in OwnerId
    BY HostTasksAssumption DEF OwnerId
  <1>2. Fresh(NewTask(None, k.conversation, k.background, k.abandon))
    BY <1>1, NewTaskFields
  <1>3. minted \in Nat /\ minted + 1 \in TaskId /\ minted + 1 <= MaxTasks
    BY MaxTasksAssumption DEF RecordsOK, HostCreate, TaskId
  <1>4. /\ minted' = minted + 1
        /\ task' = [task EXCEPT ![minted + 1] =
                       NewTask(None, k.conversation, k.background, k.abandon)]
    BY DEF HostCreate
  <1>5. task' \in [TaskId -> TaskRecord]
    BY <1>2, <1>4 DEF RecordsOK, Fresh
  <1>6. \A t \in TaskId : t # minted + 1 => task'[t] = task[t]
    BY <1>4 DEF RecordsOK
  <1>7. \A t \in TaskId : t \in Int
    BY MaxTasksAssumption DEF TaskId
  <1>8. \A t \in TaskId : t <= minted => Rewrite(task[t], task'[t])
    BY <1>3, <1>6, <1>7, KeptRecord DEF RecordsOK
  <1>9. \A t \in TaskId : t > minted' => task'[t].status = "absent" /\ Consistent(task'[t])
    BY <1>3, <1>4, <1>6, <1>7 DEF RecordsOK
  <1>10. Fresh(task'[minted + 1])
    BY <1>2, <1>3, <1>4 DEF RecordsOK
  <1> QED
    BY <1>3, <1>4, <1>5, <1>8, <1>9, <1>10 DEF RecordsStep

\* What a handler may create and commit next, kind by kind.
LEMMA ChoiceFields ==
    ASSUME NEW creates \in HandlerCreates, NEW next \in HandlerNext
    PROVE  /\ creates.kind \in {"nothing", "child", "task"}
           /\ creates.kind = "task" => /\ creates.conversation \in Conversation
                                       /\ creates.background \in BOOLEAN
           /\ next.kind \in {"none", "running", "waiting", "terminal"}
           /\ next.kind = "running" => next.moved \in {"same", "moved"}
           /\ next.kind = "waiting" => next.on \in SUBSET TaskId /\ next.policy \in JoinPolicy
           /\ next.kind = "terminal" => next.outcome \in HandlerOutcome
  <1>1. creates \in CreateChoice /\ next \in NextTaskState
    BY HandlerAssumption
  <1>2. /\ creates.kind \in {"nothing", "child", "task"}
        /\ creates.kind = "task" => /\ creates.conversation \in Conversation
                                    /\ creates.background \in BOOLEAN
    BY <1>1 DEF CreateChoice
  <1>3. /\ next.kind \in {"none", "running", "waiting", "terminal"}
        /\ next.kind = "running" => next.moved \in {"same", "moved"}
        /\ next.kind = "waiting" => next.on \in SUBSET TaskId /\ next.policy \in JoinPolicy
        /\ next.kind = "terminal" => next.outcome \in HandlerOutcome
    BY <1>1 DEF NextTaskState
  <1> QED
    BY <1>2, <1>3

\* The candidates of a handler's commit before its own task's next state: the
\* committed records and at most one new task.
LEMMA NewRecords ==
    ASSUME RecordsOK, OwnersOK, NEW t \in TaskId, Gate(t),
           NEW creates \in HandlerCreates, NEW next \in HandlerNext,
           HandlerCommit(t, creates, next)
    PROVE  /\ WithNew(t, creates) \in [TaskId -> TaskRecord]
           /\ \A u \in TaskId : (creates.kind = "nothing" \/ u # minted + 1)
                                   => WithNew(t, creates)[u] = task[u]
           /\ minted' = IF creates.kind = "nothing" THEN minted ELSE minted + 1
           /\ creates.kind # "nothing" =>
                 /\ minted + 1 \in TaskId
                 /\ Fresh(WithNew(t, creates)[minted + 1])
           /\ t <= minted /\ t # minted + 1
           /\ task[t].status = "running" /\ WithNew(t, creates)[t] = task[t]
  <1>1. creates.kind \in {"nothing", "child", "task"}
    BY ChoiceFields
  <1>2. minted' = IF creates.kind = "nothing" THEN minted ELSE minted + 1
    BY DEF HandlerCommit
  <1>3. /\ task[t].status = "running" /\ t <= minted /\ t # minted + 1
        /\ creates.kind # "nothing" => minted + 1 \in TaskId
    BY Minted, MaxTasksAssumption DEF Gate, HandlerCommit, RecordsOK, TaskId
  <1>4. CASE creates.kind = "nothing"
    BY <1>2, <1>3, <1>4 DEF WithNew, RecordsOK
  <1>5. CASE creates.kind = "child"
    <2> DEFINE q == NewTask(t, task[t].conversation, FALSE, FALSE)
    <2>1. Fresh(q)
      BY NewTaskFields DEF RecordsOK, TaskRecord, OwnerId
    <2>2. WithNew(t, creates) = [task EXCEPT ![minted + 1] = q]
      BY <1>5 DEF WithNew
    <2> HIDE DEF q
    <2> QED
      BY <1>2, <1>3, <1>5, <2>1, <2>2 DEF RecordsOK, Fresh
  <1>6. CASE creates.kind = "task"
    <2> DEFINE q == NewTask(None, creates.conversation, creates.background, FALSE)
    <2>1. Fresh(q)
      BY <1>6, ChoiceFields, NewTaskFields DEF OwnerId
    <2>2. WithNew(t, creates) = [task EXCEPT ![minted + 1] = q]
      BY <1>6 DEF WithNew
    <2> HIDE DEF q
    <2> QED
      BY <1>2, <1>3, <1>6, <2>1, <2>2 DEF RecordsOK, Fresh
  <1> QED
    BY <1>1, <1>4, <1>5, <1>6

\* The next state is written on the candidates T of a running task.
LEMMA NextRewrite ==
    ASSUME NEW T \in [TaskId -> TaskRecord], NEW t \in TaskId,
           Consistent(T[t]), T[t].status = "running",
           NEW creates \in HandlerCreates, NEW next \in HandlerNext
    PROVE  /\ WithNext(T, t, next) \in [TaskId -> TaskRecord]
           /\ \A u \in TaskId : u # t => WithNext(T, t, next)[u] = T[u]
           /\ Rewrite(T[t], WithNext(T, t, next)[t])
  <1>1. next.kind \in {"none", "running", "waiting", "terminal"}
    BY ChoiceFields
  <1>2. CASE next.kind = "none"
    BY <1>2, KeptRecord DEF WithNext
  <1>3. CASE next.kind = "running"
    <2>1. Rewrite(T[t], WithStatus(T[t], "running"))
      BY StatusRewrite DEF LegalTransition
    <2>2. WithNext(T, t, next) = [T EXCEPT ![t] = WithStatus(T[t], "running")]
      BY <1>3 DEF WithNext
    <2> QED
      BY <2>1, <2>2 DEF Rewrite
  <1>4. CASE next.kind = "waiting"
    <2> DEFINE q == [T[t] EXCEPT !.status = "waiting", !.on = next.on, !.policy = next.policy]
    <2>1. next.on \in SUBSET TaskId /\ next.policy \in JoinPolicy
      BY <1>4, ChoiceFields
    <2>2. /\ q \in TaskRecord /\ SameIdentity(T[t], q) /\ q.status = "waiting"
          /\ q.outcome = T[t].outcome /\ q.mark = T[t].mark
      BY <2>1 DEF TaskRecord, TaskStatus, SameIdentity
    <2>3. WithNext(T, t, next) = [T EXCEPT ![t] = q]
      BY <1>4 DEF WithNext
    <2> HIDE DEF q
    <2>4. Rewrite(T[t], q)
      BY <2>2 DEF Rewrite, Consistent, CheckReplacement, LegalTransition
    <2> QED
      BY <2>2, <2>3, <2>4
  <1>5. CASE next.kind = "terminal"
    <2>1. Rewrite(T[t], Ended(T, t, next.outcome))
      BY <1>5, ChoiceFields, EndedRewrite DEF TaskOutcome
    <2>2. WithNext(T, t, next) = [T EXCEPT ![t] = Ended(T, t, next.outcome)]
      BY <1>5 DEF WithNext
    <2> QED
      BY <2>1, <2>2 DEF Rewrite
  <1> QED
    BY <1>1, <1>2, <1>3, <1>4, <1>5

\* A handler's commit, its creations and its next state together, writes legal records.
LEMMA HandlerCommitRecords ==
    ASSUME RecordsOK, OwnersOK, NEW t \in TaskId, Gate(t),
           NEW creates \in HandlerCreates, NEW next \in HandlerNext,
           HandlerCommit(t, creates, next)
    PROVE  RecordsStep
  <1> DEFINE T == WithNew(t, creates)
  <1>1. /\ T \in [TaskId -> TaskRecord]
        /\ \A u \in TaskId : (creates.kind = "nothing" \/ u # minted + 1) => T[u] = task[u]
        /\ minted' = IF creates.kind = "nothing" THEN minted ELSE minted + 1
        /\ creates.kind # "nothing" => minted + 1 \in TaskId /\ Fresh(T[minted + 1])
        /\ t <= minted /\ t # minted + 1
        /\ task[t].status = "running" /\ T[t] = task[t]
    BY NewRecords
  <1>2. task' = WithNext(T, t, next)
    BY DEF HandlerCommit
  <1> HIDE DEF T
  <1>3. Consistent(T[t]) /\ T[t].status = "running"
    BY <1>1 DEF RecordsOK
  <1>4. /\ task' \in [TaskId -> TaskRecord]
        /\ \A u \in TaskId : u # t => task'[u] = T[u]
        /\ Rewrite(task[t], task'[t])
    BY <1>1, <1>2, <1>3, NextRewrite
  <1>5. /\ minted \in Nat /\ minted <= MaxTasks
        /\ \A u \in TaskId : u \in Nat /\ u <= MaxTasks
    BY MaxTasksAssumption DEF RecordsOK, TaskId
  <1>6. \A u \in TaskId : u <= minted => Rewrite(task[u], task'[u])
    BY <1>1, <1>4, <1>5, KeptRecord DEF RecordsOK
  <1>7. \A u \in TaskId : u > minted' => task'[u].status = "absent" /\ Consistent(task'[u])
    BY <1>1, <1>4, <1>5 DEF RecordsOK
  <1>8. minted' = minted + 1 => Fresh(task'[minted + 1])
    BY <1>1, <1>4, <1>5
  <1>9. minted' \in {minted, minted + 1} /\ minted' <= MaxTasks
    BY <1>1, <1>5
  <1> QED
    BY <1>4, <1>6, <1>7, <1>8, <1>9 DEF RecordsStep

-----------------------------------------------------------------------------
(* Every step, and what follows for the specification.                     *)

\* Every action of the engine rewrites records as RecordsStep says.
LEMMA NextRecords ==
    ASSUME TypeOK, [Next]_vars
    PROVE  RecordsStep
  <1>1. RecordsOK /\ OwnersOK
    BY TypeRecords DEF TypeOK, OwnersOK
  <1>2. CASE Host
    <2>1. CASE \E k \in HostTasks : HostCreate(k)
      BY <1>1, <2>1, HostCreateRecords
    <2>2. CASE \E c \in Conversation, o \in TaskId : CreateConversation(c, o)
      BY <1>1, <2>2, RecordsKept DEF CreateConversation
    <2>3. CASE \E t \in AbortTargets : Abort(t, FALSE)
      BY <1>1, <2>3, AbortRecords, AbortAssumption
    <2>4. CASE \E t \in TaskId : Abort(t, TRUE)
      BY <1>1, <2>4, AbortRecords
    <2>5. CASE \E c \in AbortScopes, b \in BOOLEAN : AbortConversation(c, b)
      BY <1>1, <2>5, AbortConversationRecords, AbortAssumption
    <2>6. CASE \E t \in TaskId : FaultIdle(t)
      BY <1>1, <2>6, FaultIdleRecords
    <2>7. CASE \E t \in TaskId : RegistryChange(t)
      BY <1>1, <2>7, RecordsKept DEF RegistryChange, durable
    <2> QED
      BY <1>2, <2>1, <2>2, <2>3, <2>4, <2>5, <2>6, <2>7 DEF Host
  <1>3. CASE Handler
    BY <1>1, <1>3, HandlerCommitRecords DEF Handler
  <1>4. CASE Scheduler
    <2>1. ASSUME NEW t \in TaskId, Step(t)
          PROVE  RecordsStep
      <3>1. CASE StepStop(t) \/ StepCascade(t) \/ StepContinue(t)
        BY <1>1, <3>1, RecordsKept DEF StepStop, StepCascade, StepContinue, durable
      <3>2. CASE StepHandover(t)
        BY <1>1, <3>2, StepHandoverRecords
      <3>3. CASE StepFault(t)
        BY <1>1, <3>3, StepFaultRecords
      <3>4. CASE AbortStep(t)
        BY <1>1, <3>4, AbortStepRecords
      <3> QED
        BY <2>1, <3>1, <3>2, <3>3, <3>4 DEF Step
    <2> QED
      BY <1>1, <1>4, <2>1, MarkAbandonedRecords, ReserveRecords, ReconcileRecords
      DEF Scheduler
  <1>5. CASE Session
    BY <1>1, <1>5, RecordsKept, ReopenRecords DEF Session, Shutdown, Resume, durable
  <1>6. CASE UNCHANGED vars
    BY <1>1, <1>6, RecordsKept DEF vars, durable
  <1> QED
    BY <1>2, <1>3, <1>4, <1>5, <1>6 DEF Next

\* A legal records step keeps the invariant of the records.
LEMMA RecordsStayOK ==
    ASSUME RecordsOK, RecordsStep
    PROVE  RecordsOK'
  <1>1. /\ minted \in Nat /\ minted' \in Nat
        /\ \A t \in TaskId : t \in Nat
    BY MaxTasksAssumption DEF RecordsOK, RecordsStep, TaskId
  <1>2. ASSUME NEW t \in TaskId
        PROVE  Consistent(task'[t]) /\ (task'[t].status = "absent" <=> t > minted')
    <2>1. CASE t <= minted
      BY <1>1, <2>1 DEF RecordsOK, RecordsStep, Rewrite, CheckReplacement, LegalTransition
    <2>2. CASE t = minted + 1 /\ minted' = minted + 1
      BY <1>1, <2>2 DEF RecordsStep, Fresh, Consistent
    <2>3. CASE t > minted'
      BY <1>1, <2>3 DEF RecordsStep
    <2> QED
      BY <1>1, <2>1, <2>2, <2>3 DEF RecordsStep
  <1> QED
    BY <1>1, <1>2 DEF RecordsOK, RecordsStep

\* The memory of the scheduler.
MemoryOK ==
    /\ session \in {"closed", "open", "enabled"}
    /\ invocation \in [TaskId -> InvocationState]
    /\ definition \in [TaskId -> Definition]
    /\ abandoned \in SUBSET TaskId
    /\ dirty \in BOOLEAN /\ reconcileDue \in BOOLEAN
    /\ crashes \in 0..MaxCrashes
    /\ registryChanges \in 0..MaxRegistryChanges

\* The type invariant in the three parts that are proved apart.
LEMMA TypeParts == TypeOK <=> RecordsOK /\ OwnersOK /\ MemoryOK
  BY DEF TypeOK, RecordsOK, Consistent, OwnersOK, MemoryOK

\* The initial state has its types.
LEMMA InitTypes == Init => TypeOK
  <1> SUFFICES ASSUME Init PROVE RecordsOK /\ OwnersOK /\ MemoryOK
    BY TypeParts
  <1>1. /\ Absent \in TaskRecord /\ Consistent(Absent) /\ Absent.status = "absent"
    BY RootAssumption
    DEF Absent, Consistent, TaskRecord, TaskStatus, JoinPolicy, AbortMark, OwnerId
  <1>2. RecordsOK
    BY <1>1, MaxTasksAssumption DEF Init, RecordsOK, TaskId
  <1>3. OwnersOK
    BY DEF Init, OwnersOK, OwnerId
  <1>4. MemoryOK
    <2>1. crashes \in 0..MaxCrashes /\ registryChanges \in 0..MaxRegistryChanges
      BY BoundsAssumption DEF Init
    <2>2. dirty \in BOOLEAN /\ reconcileDue \in BOOLEAN
      BY DEF Init
    <2> QED
      BY <2>1, <2>2 DEF Init, MemoryOK, InvocationState, Definition
  <1> QED
    BY <1>2, <1>3, <1>4

\* The owners of conversations keep their type.
LEMMA OwnersStayOK ==
    ASSUME TypeOK, [Next]_vars
    PROVE  OwnersOK'
  <1>1. CASE UNCHANGED conversationOwner
    BY <1>1 DEF TypeOK, OwnersOK
  <1>2. CASE \E c \in Conversation, o \in TaskId : CreateConversation(c, o)
    BY <1>2 DEF TypeOK, OwnersOK, CreateConversation, OwnerId
  <1> QED
    BY <1>1, <1>2
    DEF Next, Host, Handler, Scheduler, Session, Step, HostCreate, Abort,
        AbortConversation, FaultIdle, RegistryChange, HandlerCommit, StepStop,
        StepCascade, StepContinue, StepHandover, StepFault, AbortStep,
        MarkAbandoned, Reserve, Reconcile, Shutdown, Reopen, Resume, vars, durable

\* The scheduler's memory and the bounds keep their types.
LEMMA MemoryStaysOK ==
    ASSUME TypeOK, [Next]_vars
    PROVE  MemoryOK'
  <1>1. MemoryOK
    BY TypeParts
  <1>2. CASE Host
    <2>1. CASE \E t \in TaskId : RegistryChange(t)
      BY <1>1, <2>1, BoundsAssumption
      DEF MemoryOK, RegistryChange, durable, Definition
    <2>2. CASE \E t \in AbortTargets : Abort(t, FALSE)
      BY <1>1, <2>2 DEF MemoryOK, Abort, Published, bounds, Definition
    <2>3. CASE \E t \in TaskId : Abort(t, TRUE)
      BY <1>1, <2>3 DEF MemoryOK, Abort, Published, bounds, Definition
    <2> QED
      BY <1>1, <1>2, <2>1, <2>2, <2>3
      DEF Host, MemoryOK, HostCreate, CreateConversation, AbortConversation,
          FaultIdle, Published, memory, bounds
  <1>3. CASE Handler
    BY <1>1, <1>3, ChoiceFields
    DEF Handler, HandlerCommit, MemoryOK, Published, bounds, InvocationState
  <1>4. CASE Scheduler
    <2>1. ASSUME NEW t \in TaskId, Step(t)
          PROVE  MemoryOK'
      BY <1>1, <2>1
      DEF Step, StepStop, StepCascade, StepContinue, StepHandover, StepFault, AbortStep,
          End, Published, MemoryOK, durable, bounds, InvocationState
    <2>2. CASE MarkAbandoned
      BY <1>1, <2>2 DEF MarkAbandoned, MemoryOK, bounds
    <2>3. CASE Reserve
      BY <1>1, <2>3 DEF Reserve, ReserveWith, MemoryOK, bounds, InvocationState, Definition
    <2>4. CASE Reconcile
      BY <1>1, <2>4 DEF Reconcile, MemoryOK, bounds
    <2> QED
      BY <1>4, <2>1, <2>2, <2>3, <2>4 DEF Scheduler
  <1>5. CASE Session
    <2>1. CASE Shutdown
      <3>1. crashes' \in 0..MaxCrashes
        BY <1>1, <2>1, BoundsAssumption DEF Shutdown, MemoryOK
      <3>2. dirty' \in BOOLEAN /\ reconcileDue' \in BOOLEAN
        BY <2>1 DEF Shutdown
      <3> QED
        BY <1>1, <2>1, <3>1, <3>2 DEF Shutdown, MemoryOK, InvocationState
    <2>2. CASE Reopen
      <3>1. dirty' \in BOOLEAN /\ reconcileDue' \in BOOLEAN
        BY <2>2 DEF Reopen
      <3> QED
        BY <1>1, <2>2, <3>1 DEF Reopen, MemoryOK, bounds
    <2>3. CASE Resume
      BY <1>1, <2>3 DEF Resume, MemoryOK, bounds
    <2> QED
      BY <1>5, <2>1, <2>2, <2>3 DEF Session
  <1>6. CASE UNCHANGED vars
    BY <1>1, <1>6 DEF vars, memory, bounds, MemoryOK
  <1> QED
    BY <1>2, <1>3, <1>4, <1>5, <1>6 DEF Next

\* The type invariant holds for any number of tasks, conversations and
\* restarts, whatever handlers commit.
THEOREM TypeCorrect == Spec => []TypeOK
  <1>1. TypeOK /\ [Next]_vars => TypeOK'
    <2> SUFFICES ASSUME TypeOK, [Next]_vars PROVE TypeOK'
      OBVIOUS
    <2>1. RecordsOK' /\ OwnersOK' /\ MemoryOK'
      BY TypeParts, NextRecords, RecordsStayOK, OwnersStayOK, MemoryStaysOK
    <2> QED
      BY <2>1 DEF TypeOK, RecordsOK, Consistent, OwnersOK, MemoryOK
  <1> QED
    BY <1>1, InitTypes, PTL DEF Spec

\* Every record the engine writes passes check_replacement, so no reservation,
\* step or reconcile fails the session on a refused write.
THEOREM WritesLegal == Spec => WritesPassTheCheck
  <1>1. TypeOK /\ [Next]_vars =>
          [\A t \in 1..minted : task'[t] # task[t] => CheckReplacement(task[t], task'[t])]_vars
    <2> SUFFICES ASSUME TypeOK, [Next]_vars, NEW t \in 1..minted, task'[t] # task[t]
                 PROVE  CheckReplacement(task[t], task'[t])
      OBVIOUS
    <2>1. t \in TaskId /\ t <= minted
      BY MaxTasksAssumption DEF TypeOK, TaskId
    <2> QED
      BY <2>1, NextRecords DEF RecordsStep, Rewrite
  <1> QED
    BY <1>1, TypeCorrect, PTL DEF Spec, WritesPassTheCheck

\* Abort marks are never lost and a request is never weakened.
THEOREM MarksStrengthen == Spec => MarksOnlyStrengthen
  <1>1. TypeOK /\ [Next]_vars =>
          [\A t \in TaskId :
             /\ task[t].mark = "request" => task'[t].mark = "request"
             /\ task[t].mark = "restart" => task'[t].mark # "none"]_vars
    <2> SUFFICES ASSUME TypeOK, [Next]_vars, NEW t \in TaskId
                 PROVE  /\ task[t].mark = "request" => task'[t].mark = "request"
                        /\ task[t].mark = "restart" => task'[t].mark # "none"
      OBVIOUS
    <2>1. CASE t <= minted
      BY <2>1, NextRecords DEF RecordsStep, Rewrite
    <2>2. CASE ~(t <= minted)
      BY <2>2, TypeParts, MaxTasksAssumption DEF RecordsOK, Consistent, Absent, TaskId
    <2> QED
      BY <2>1, <2>2
  <1> QED
    BY <1>1, TypeCorrect, PTL DEF Spec, MarksOnlyStrengthen

-----------------------------------------------------------------------------
(* The ownership forest.                                                   *)

\* The record of a new task fits into the forest below it.
FitsIn(q) ==
    /\ q.above \subseteq 1..minted
    /\ q.owner # None => q.owner \in q.above /\ ~q.background
    /\ \A u \in q.above : ~task[u].background => task[u].above \subseteq q.above

\* Everything above a task is older than it; its owner is above it, and what is
\* above an ordinary owner is above the task too.
Forest ==
    /\ \A t \in TaskId :
         /\ task[t].above \subseteq 1..(t - 1)
         /\ task[t].owner # None => task[t].owner \in task[t].above /\ ~task[t].background
         /\ \A u \in task[t].above : ~task[u].background => task[u].above \subseteq task[t].above
    /\ \A c \in Conversation : conversationOwner[c] \in TaskId => conversationOwner[c] <= minted

-----------------------------------------------------------------------------
(* The forest grows at its leaves only.                                    *)

\* Task ids are the naturals from 1, and None is not one of them.
LEMMA TaskIdFacts ==
    ASSUME RecordsOK
    PROVE  /\ \A t \in TaskId : t \in Nat /\ t > 0 /\ t <= MaxTasks
           /\ minted \in Nat /\ minted <= MaxTasks
           /\ 1..minted \subseteq TaskId
           /\ None \notin TaskId /\ Unborn \notin TaskId
  BY MaxTasksAssumption DEF RecordsOK, TaskId, None, Unborn

\* A new task under a task that exists, or in a conversation, fits in.
LEMMA NewTaskFits ==
    ASSUME RecordsOK, OwnersOK, Forest,
           NEW owner \in OwnerId, NEW c \in Conversation,
           NEW bg \in BOOLEAN, NEW ab \in BOOLEAN,
           owner # None => owner <= minted /\ ~bg
    PROVE  FitsIn(NewTask(owner, c, bg, ab))
  <1> DEFINE q == NewTask(owner, c, bg, ab)
             p == Parent(owner, c)
  <1>1. /\ q.owner = owner /\ q.background = bg
        /\ q.above = AboveOf(p) /\ p \in OwnerId
    BY NewTaskFields
  <1>2. p # None => p \in TaskId /\ p <= minted
    BY <1>1 DEF Parent, OwnerId, Forest, OwnersOK, Unborn
  <1>3. owner # None => owner = p
    BY DEF Parent
  <1> SUFFICES FitsIn(q)
    OBVIOUS
  <1> HIDE DEF q, p
  <1>4. CASE p = None
    BY <1>1, <1>3, <1>4 DEF FitsIn, AboveOf
  <1>5. CASE p # None
    <2>1. p \in 1..minted /\ p \in TaskId /\ task[p].above \subseteq 1..minted
      BY <1>2, <1>5, TaskIdFacts DEF Forest
    <2>2. q.above = {p} \cup (IF task[p].background THEN {} ELSE task[p].above)
      BY <1>1, <1>5 DEF AboveOf
    <2>3. \A u \in q.above : ~task[u].background => task[u].above \subseteq q.above
      BY <2>1, <2>2 DEF Forest
    <2> QED
      BY <1>1, <1>3, <1>5, <2>1, <2>2, <2>3 DEF FitsIn
  <1> QED
    BY <1>4, <1>5

\* A task is only born fitting in, and under an owner that can take on work.
LEMMA Births ==
    ASSUME TypeOK, Forest, [Next]_vars, minted' = minted + 1
    PROVE  /\ FitsIn(task'[minted + 1])
           /\ task'[minted + 1].owner # None => CanOwn(task', task'[minted + 1].owner)
           /\ UNCHANGED <<conversationOwner, session>>
  <1>1. RecordsOK /\ OwnersOK
    BY TypeParts
  <1>2. minted + 1 # minted
    BY <1>1, TaskIdFacts
  <1>3. CASE \E k \in HostTasks : HostCreate(k)
    <2>1. PICK k \in HostTasks : HostCreate(k)
      BY <1>3
    <2>2. /\ k.conversation \in Conversation /\ k.background \in BOOLEAN
          /\ k.abandon \in BOOLEAN /\ None \in OwnerId
      BY HostTasksAssumption DEF OwnerId
    <2>3. task'[minted + 1] = NewTask(None, k.conversation, k.background, k.abandon)
      BY <1>1, <2>1, MaxTasksAssumption DEF HostCreate, RecordsOK, TaskId
    <2>4. task'[minted + 1].owner = None /\ FitsIn(task'[minted + 1])
      BY <1>1, <2>2, <2>3, NewTaskFields, NewTaskFits
    <2> QED
      BY <2>1, <2>4 DEF HostCreate
  <1>4. CASE Handler
    <2>1. PICK t \in TaskId, creates \in HandlerCreates, next \in HandlerNext :
            Gate(t) /\ HandlerCommit(t, creates, next)
      BY <1>4 DEF Handler
    <2> DEFINE T == WithNew(t, creates)
    <2>2. /\ T \in [TaskId -> TaskRecord]
          /\ creates.kind # "nothing" => minted + 1 \in TaskId
          /\ t <= minted /\ t # minted + 1
          /\ task[t].status = "running" /\ T[t] = task[t]
      BY <1>1, <2>1, NewRecords
    <2>3. creates.kind # "nothing" /\ minted + 1 \in TaskId
      BY <1>2, <2>1, <2>2 DEF HandlerCommit
    <2>4. task'[minted + 1] = T[minted + 1]
      <3>1. task' = WithNext(T, t, next)
        BY <2>1 DEF HandlerCommit
      <3>2. Consistent(T[t]) /\ T[t].status = "running"
        BY <1>1, <2>2 DEF RecordsOK
      <3> HIDE DEF T
      <3> QED
        BY <2>1, <2>2, <2>3, <3>1, <3>2, NextRewrite
    <2>5. CASE creates.kind = "child"
      <3>1. T[minted + 1] = NewTask(t, task[t].conversation, FALSE, FALSE)
        BY <1>1, <2>3, <2>5 DEF WithNew, RecordsOK
      <3>2. t \in OwnerId /\ task[t].conversation \in Conversation
        BY <1>1 DEF RecordsOK, TaskRecord, OwnerId
      <3> HIDE DEF T
      <3>3. T[minted + 1].owner = t /\ FitsIn(T[minted + 1])
        <4> DEFINE no == FALSE
                   q == NewTask(t, task[t].conversation, no, no)
        <4>1. no \in BOOLEAN /\ ~no /\ T[minted + 1] = q
          BY <3>1
        <4> HIDE DEF no
        <4>2. q.owner = t /\ FitsIn(q)
          BY <1>1, <2>2, <3>2, <4>1, NewTaskFields, NewTaskFits
        <4> QED
          BY <4>1, <4>2
      <3>4. CanOwn(task', t)
        BY <2>1, <2>5 DEF HandlerCommit
      <3> QED
        BY <2>1, <2>4, <3>3, <3>4 DEF HandlerCommit
    <2>6. CASE creates.kind = "task"
      <3>1. T[minted + 1] = NewTask(None, creates.conversation, creates.background, FALSE)
        BY <1>1, <2>3, <2>6 DEF WithNew, RecordsOK
      <3>2. /\ creates.conversation \in Conversation /\ creates.background \in BOOLEAN
            /\ None \in OwnerId
        BY <2>1, <2>6, ChoiceFields DEF OwnerId
      <3> HIDE DEF T
      <3>3. T[minted + 1].owner = None /\ FitsIn(T[minted + 1])
        <4> DEFINE no == FALSE
                   q == NewTask(None, creates.conversation, creates.background, no)
        <4>1. no \in BOOLEAN /\ T[minted + 1] = q
          BY <3>1
        <4> HIDE DEF no
        <4>2. q.owner = None /\ FitsIn(q)
          BY <1>1, <3>2, <4>1, NewTaskFields, NewTaskFits
        <4> QED
          BY <4>1, <4>2
      <3> QED
        BY <2>1, <2>4, <3>3 DEF HandlerCommit
    <2> QED
      BY <2>1, <2>3, <2>5, <2>6, ChoiceFields
  <1> QED
    BY <1>2, <1>3, <1>4
    DEF Next, Host, Scheduler, Session, Step, CreateConversation, Abort,
        AbortConversation, FaultIdle, RegistryChange, StepStop,
        StepCascade, StepContinue, StepHandover, StepFault, AbortStep,
        MarkAbandoned, Reserve, Reconcile, Shutdown, Reopen, Resume, vars, durable

\* What a step leaves alone in the forest.
LEMMA IdentityKept ==
    ASSUME RecordsOK, RecordsStep, NEW t \in TaskId, t <= minted \/ t > minted'
    PROVE  SameIdentity(task[t], task'[t])
  <1>1. CASE t <= minted
    BY <1>1 DEF RecordsStep, Rewrite
  <1>2. CASE t > minted'
    <2>1. t > minted
      BY <1>2, TaskIdFacts DEF RecordsStep
    <2>2. task[t] = Absent /\ task'[t] = Absent
      BY <1>2, <2>1 DEF RecordsOK, RecordsStep, Consistent
    <2> QED
      BY <2>2 DEF SameIdentity
  <1> QED
    BY <1>1, <1>2

\* Every step keeps the forest: old records keep their place, new ones fit.
LEMMA ForestGrows ==
    ASSUME TypeOK, Forest, [Next]_vars
    PROVE  Forest'
  <1>1. RecordsOK /\ OwnersOK /\ RecordsStep
    BY TypeParts, NextRecords
  <1>2. /\ \A t \in TaskId : t \in Nat /\ t > 0
        /\ minted \in Nat /\ minted' \in {minted, minted + 1}
    BY <1>1, TaskIdFacts DEF RecordsStep
  <1>3. ASSUME NEW t \in TaskId
        PROVE  /\ task'[t].above \subseteq 1..(t - 1)
               /\ task'[t].owner # None => task'[t].owner \in task'[t].above /\ ~task'[t].background
               /\ \A u \in task'[t].above :
                    ~task'[u].background => task'[u].above \subseteq task'[t].above
    <2>1. ASSUME NEW u \in TaskId, u <= minted
          PROVE  task'[u].above = task[u].above /\ task'[u].background = task[u].background
      BY <1>1, <2>1, IdentityKept DEF SameIdentity
    <2>2. CASE t <= minted
      <3>1. SameIdentity(task[t], task'[t])
        BY <1>1, <2>2, IdentityKept
      <3>2. \A u \in task[t].above : u \in TaskId /\ u <= minted
        BY <1>1, <1>2, <2>2, TaskIdFacts DEF Forest
      <3> QED
        BY <2>1, <3>1, <3>2 DEF Forest, SameIdentity
    <2>3. CASE t > minted'
      <3>1. task'[t] = Absent
        BY <1>1, <2>3 DEF RecordsStep, Consistent
      <3> QED
        BY <3>1 DEF Absent
    <2>4. CASE t = minted + 1 /\ minted' = minted + 1
      <3>1. FitsIn(task'[t])
        BY <2>4, Births
      <3>2. \A u \in task'[t].above : u \in TaskId /\ u <= minted
        BY <1>1, <1>2, <3>1, TaskIdFacts DEF FitsIn
      <3> QED
        BY <1>2, <2>1, <2>4, <3>1, <3>2 DEF FitsIn
    <2> QED
      BY <1>2, <2>2, <2>3, <2>4
  <1>4. ASSUME NEW c \in Conversation, conversationOwner'[c] \in TaskId
        PROVE  conversationOwner'[c] <= minted'
    <2>1. CASE UNCHANGED conversationOwner
      BY <1>2, <1>4, <2>1, TaskIdFacts, <1>1 DEF Forest
    <2>2. CASE \E d \in Conversation, o \in TaskId : CreateConversation(d, o)
      <3>1. PICK d \in Conversation, o \in TaskId : CreateConversation(d, o)
        BY <2>2
      <3>2. o <= minted /\ minted' = minted
        BY <1>1, <3>1, Minted DEF CreateConversation, CanOwn
      <3>3. conversationOwner'[c] = IF c = d THEN o ELSE conversationOwner[c]
        BY <1>1, <3>1 DEF CreateConversation, OwnersOK
      <3> QED
        BY <1>4, <3>2, <3>3 DEF Forest
    <2> QED
      BY <2>1, <2>2
      DEF Next, Host, Handler, Scheduler, Session, Step, HostCreate, Abort,
          AbortConversation, FaultIdle, RegistryChange, HandlerCommit, StepStop,
          StepCascade, StepContinue, StepHandover, StepFault, AbortStep,
          MarkAbandoned, Reserve, Reconcile, Shutdown, Reopen, Resume, vars, durable
  <1> QED
    BY <1>3, <1>4 DEF Forest

\* There is nothing above or below a task that is not born.
LEMMA InitForest == Init => Forest
  BY MaxTasksAssumption DEF Init, Forest, Absent, TaskId, None, Unborn

-----------------------------------------------------------------------------
(* A task ends over nothing alive.                                         *)

\* Work that existed before a step is below t after it only if it was before.
LEMMA OwnedLiveShrinks ==
    ASSUME RecordsOK, RecordsStep, NEW t \in TaskId, NEW u \in TaskId,
           u <= minted, u \in OwnedLive(task', t)
    PROVE  u \in OwnedLive(task, t)
  <1>1. Rewrite(task[u], task'[u])
    BY DEF RecordsStep
  <1>2. Live(task, u)
    BY <1>1 DEF OwnedLive, Live, Rewrite, CheckReplacement, LegalTransition
  <1> QED
    BY <1>1, <1>2 DEF OwnedLive, Rewrite, SameIdentity

\* A new task is below no task that is not older, and nothing is below it.
LEMMA NewOwnsNothing ==
    ASSUME TypeOK, Forest, [Next]_vars, minted' = minted + 1, minted + 1 \in TaskId
    PROVE  OwnedLive(task', minted + 1) = {}
  <1>1. RecordsOK /\ RecordsStep /\ Forest'
    BY TypeParts, NextRecords, ForestGrows
  <1>2. \A t \in TaskId : t \in Nat
    BY <1>1, TaskIdFacts
  <1>3. ASSUME NEW u \in TaskId, Live(task', u)
        PROVE  minted + 1 \notin task'[u].above
    <2>1. u <= minted + 1
      BY <1>1, <1>2, <1>3 DEF RecordsStep, Live
    <2>2. task'[u].above \subseteq 1..(u - 1)
      BY <1>1 DEF Forest
    <2> QED
      BY <1>1, <1>2, <2>1, <2>2, TaskIdFacts
  <1> QED
    BY <1>3 DEF OwnedLive

\* A record that Ended makes terminal had no live ordinary work below it.
LEMMA EndedOverNothing ==
    ASSUME NEW T \in [TaskId -> TaskRecord], NEW t \in TaskId, NEW o \in TaskOutcome,
           task' = [T EXCEPT ![t] = Ended(T, t, o)],
           task'[t].status = "terminal"
    PROVE  OwnedLive(task', t) = {}
  <1>1. task'[t] = Ended(T, t, o) /\ \A u \in TaskId : u # t => task'[u] = T[u]
    OBVIOUS
  <1>2. OwnedLive(T, t) = {}
    <2> SUFFICES ASSUME OwnedLive(T, t) # {} PROVE FALSE
      OBVIOUS
    <2>1. Ended(T, t, o) = WithOutcome(T[t], "completing", o) /\ "completing" \in TaskStatus
      BY DEF Ended, TaskStatus
    <2> QED
      BY <1>1, <2>1, WithOutcomeFields
  <1>3. ASSUME NEW u \in OwnedLive(task', t) PROVE u \in OwnedLive(T, t)
    BY <1>1 DEF OwnedLive, Live
  <1> QED
    BY <1>2, <1>3

\* The step t becomes terminal in leaves no ordinary work alive below it.
LEMMA TerminalOverNothing ==
    ASSUME TypeOK, Forest, [Next]_vars, NEW t \in TaskId,
           task[t].status # "terminal", task'[t].status = "terminal"
    PROVE  OwnedLive(task', t) = {}
  <1>1. RecordsOK /\ OwnersOK /\ RecordsStep
    BY TypeParts, NextRecords
  <1>2. /\ task \in [TaskId -> TaskRecord]
        /\ {"faulted", "orphaned"} \subseteq TaskOutcome
    BY <1>1 DEF RecordsOK, TaskOutcome
  <1>3. ASSUME NEW u \in TaskId, NEW o \in TaskOutcome,
               task' = [task EXCEPT ![u] = Ended(task, u, o)]
        PROVE  OwnedLive(task', t) = {}
    BY <1>2, <1>3, EndedOverNothing
  <1>4. CASE Handler
    <2>1. PICK u \in TaskId, creates \in HandlerCreates, next \in HandlerNext :
            Gate(u) /\ HandlerCommit(u, creates, next)
      BY <1>4 DEF Handler
    <2> DEFINE T == WithNew(u, creates)
    <2>2. /\ T \in [TaskId -> TaskRecord]
          /\ \A v \in TaskId : (creates.kind = "nothing" \/ v # minted + 1) => T[v] = task[v]
          /\ creates.kind # "nothing" => Fresh(T[minted + 1])
          /\ task[u].status = "running" /\ T[u] = task[u]
      BY <1>1, <2>1, NewRecords
    <2>3. task' = WithNext(T, u, next)
      BY <2>1 DEF HandlerCommit
    <2> HIDE DEF T
    <2>4. \A v \in TaskId : v # u => task'[v] = T[v]
      BY <1>1, <2>2, <2>3, NextRewrite DEF RecordsOK
    <2>5. t = u
      BY <2>2, <2>4 DEF Fresh
    <2>6. next.kind = "terminal"
      BY <2>1, <2>2, <2>3, <2>5, ChoiceFields, WithStatusFields DEF WithNext, TaskStatus
    <2>7. task' = [T EXCEPT ![u] = Ended(T, u, next.outcome)] /\ next.outcome \in TaskOutcome
      BY <2>3, <2>6, ChoiceFields DEF WithNext, TaskOutcome
    <2> QED
      BY <2>2, <2>5, <2>7, EndedOverNothing
  <1>5. CASE Host
    <2>1. ASSUME NEW k \in HostTasks, HostCreate(k)
          PROVE  FALSE
      <3>1. minted' = minted + 1 /\ minted + 1 \in TaskId
        BY <1>1, <2>1, MaxTasksAssumption DEF HostCreate, RecordsOK, TaskId
      <3>2. t # minted + 1
        BY <1>1, <3>1 DEF RecordsStep, Fresh
      <3>3. task'[t] = task[t]
        BY <1>2, <2>1, <3>2 DEF HostCreate
      <3> QED
        BY <3>3
    <2>2. ASSUME NEW u \in TaskId, NEW keep, Abort(u, keep)
          PROVE  OwnedLive(task', t) = {}
      <3>1. \/ task' = [task EXCEPT ![u] = Ended(task, u, "orphaned")]
            \/ task' = [task EXCEPT ![u] = WithMark(task[u], "request")]
        BY <2>2 DEF Abort
      <3>2. CASE task' = [task EXCEPT ![u] = WithMark(task[u], "request")]
        BY <1>2, <3>2, WithMarkFields DEF AbortMark
      <3> QED
        BY <1>2, <1>3, <3>1, <3>2
    <2>3. ASSUME NEW c \in Conversation, NEW b \in BOOLEAN,
                 AbortConversation(c, b)
          PROVE  FALSE
      BY <1>2, <2>3, WithMarkFields DEF AbortConversation, AbortMark
    <2>4. ASSUME NEW u \in TaskId, FaultIdle(u)
          PROVE  OwnedLive(task', t) = {}
      BY <1>2, <1>3, <2>4 DEF FaultIdle
    <2> QED
      BY <1>5, <2>1, <2>2, <2>3, <2>4, AbortAssumption
      DEF Host, CreateConversation, RegistryChange, durable
  <1>6. CASE Scheduler
    <2>1. ASSUME NEW u \in TaskId, Step(u)
          PROVE  OwnedLive(task', t) = {}
      <3>1. CASE StepHandover(u)
        BY <1>2, <3>1, WithStatusFields DEF StepHandover, TaskStatus
      <3>2. CASE StepFault(u) \/ AbortStep(u)
        BY <1>2, <1>3, <3>2 DEF StepFault, AbortStep
      <3> QED
        BY <2>1, <3>1, <3>2 DEF Step, StepStop, StepCascade, StepContinue, durable
    <2>2. CASE MarkAbandoned
      BY <1>2, <2>2, WithMarkFields DEF MarkAbandoned, AbortMark
    <2>3. CASE Reserve
      <3>1. PICK failing : ReserveWith(failing)
        BY <2>3 DEF Reserve
      <3>2. CASE t \in Reached \ Blocked(failing)
        BY <1>2, <3>1, <3>2, WithStatusFields DEF ReserveWith, TaskStatus
      <3>3. CASE t \notin Reached \ Blocked(failing)
        <4>1. task'[t] = Ended(task, t, "orphaned")
          BY <1>2, <3>1, <3>3 DEF ReserveWith
        <4>2. OwnedLive(task, t) = {}
          <5> SUFFICES ASSUME OwnedLive(task, t) # {} PROVE FALSE
            OBVIOUS
          <5>1. /\ Ended(task, t, "orphaned") = WithOutcome(task[t], "completing", "orphaned")
                /\ "completing" \in TaskStatus
            BY DEF Ended, TaskStatus
          <5> QED
            BY <1>2, <4>1, <5>1, WithOutcomeFields
        <4>3. minted' = minted
          BY <2>3 DEF Reserve
        <4>4. ASSUME NEW u \in OwnedLive(task', t) PROVE u \in OwnedLive(task, t)
          <5>1. u \in TaskId /\ task'[u].status # "absent"
            BY DEF OwnedLive, Live
          <5>2. u <= minted
            BY <1>1, <4>3, <5>1, TaskIdFacts DEF RecordsStep
          <5> QED
            BY <1>1, <5>1, <5>2, OwnedLiveShrinks
        <4> QED
          BY <4>2, <4>4
      <3> QED
        BY <3>2, <3>3
    <2>4. CASE Reconcile
      <3>1. t \in Finalizable
        <4> SUFFICES ASSUME t \notin Finalizable PROVE FALSE
          OBVIOUS
        <4>1. task'[t] = WithMark(task[t], MarkFor(t))
          BY <2>4 DEF Reconcile, Reconciled
        <4> QED
          BY <1>1, <1>2, <4>1, MarkForMonotone, WithMarkFields
      <3>2. ASSUME NEW u \in OwnedLive(task', t) PROVE FALSE
        <4>1. u \in TaskId /\ task'[u].status \notin {"absent", "terminal"}
          BY DEF OwnedLive, Live
        <4>2. u <= minted
          BY <1>1, <2>4, <4>1, TaskIdFacts DEF RecordsStep, Reconcile
        <4>3. u \in OwnedLive(task, t)
          BY <1>1, <4>1, <4>2, OwnedLiveShrinks
        <4>4. task[u].status = "completing"
          BY <3>1, <4>3 DEF Finalizable
        <4>5. ASSUME NEW v \in OwnedLive(task, u) PROVE v \in OwnedLive(task, t)
          BY <4>3 DEF OwnedLive, Forest
        <4>6. u \in Finalizable
          BY <3>1, <4>1, <4>4, <4>5 DEF Finalizable
        <4>7. task'[u] = WithStatus(WithMark(task[u], MarkFor(u)), "terminal")
          BY <2>4, <4>1, <4>6 DEF Reconcile, Reconciled
        <4> QED
          BY <1>1, <1>2, <4>1, <4>7, MarkForMonotone, WithMarkFields, WithStatusFields
          DEF TaskStatus
      <3> QED
        BY <3>2
    <2> QED
      BY <1>6, <2>1, <2>2, <2>3, <2>4 DEF Scheduler
  <1>7. CASE Session
    BY <1>2, <1>7, WithStatusFields DEF Session, Shutdown, Reopen, Resume, durable, TaskStatus
  <1>8. CASE UNCHANGED vars
    BY <1>8 DEF vars, durable
  <1> QED
    BY <1>4, <1>5, <1>6, <1>7, <1>8 DEF Next

\* Every step keeps owners alive longer than what they own.
LEMMA OwnersKeepOutliving ==
    ASSUME TypeOK, Forest, OwnersOutliveTheirTasks, [Next]_vars
    PROVE  OwnersOutliveTheirTasks'
  <1>1. RecordsOK /\ RecordsStep /\ Forest'
    BY TypeParts, NextRecords, ForestGrows
  <1> SUFFICES ASSUME NEW t \in TaskId, Live(task', t), task'[t].owner # None
               PROVE  Live(task', task'[t].owner)
    BY DEF OwnersOutliveTheirTasks
  <1>2. t <= minted \/ (t = minted + 1 /\ minted' = minted + 1)
    BY <1>1, TaskIdFacts DEF RecordsStep, Live
  <1>3. CASE t = minted + 1 /\ minted' = minted + 1
    BY <1>3, Births DEF CanOwn, Live
  <1>4. CASE t <= minted
    <2> DEFINE o == task'[t].owner
    <2>1. /\ Rewrite(task[t], task'[t])
          /\ o = task[t].owner /\ task'[t].background = task[t].background
          /\ task'[t].above = task[t].above
      BY <1>1, <1>4 DEF RecordsStep, Rewrite, SameIdentity
    <2>2. o \in task[t].above /\ ~task[t].background
      BY <2>1 DEF Forest
    <2>3. o \in TaskId /\ o <= minted
      BY <1>1, <1>4, <2>2, TaskIdFacts DEF Forest
    <2>4. Live(task, o)
      <3>1. Live(task, t)
        BY <2>1 DEF Live, Rewrite, CheckReplacement, LegalTransition
      <3> QED
        BY <2>1, <3>1 DEF OwnersOutliveTheirTasks
    <2>5. t \in OwnedLive(task', o)
      BY <2>1, <2>2 DEF OwnedLive
    <2> HIDE DEF o
    <2>6. task'[o].status # "terminal"
      BY <2>3, <2>4, <2>5, TerminalOverNothing DEF Live
    <2>7. task'[o].status # "absent"
      BY <1>1, <2>3, <2>4
      DEF RecordsStep, Rewrite, CheckReplacement, LegalTransition, Live
    <2> QED
      BY <2>6, <2>7 DEF Live, o
  <1> QED
    BY <1>2, <1>3, <1>4

\* The type invariant and the shape of the forest.
Grown == TypeOK /\ Forest

\* What is above a task (graph.rs above) is older than it, holds its owner and is
\* closed under ordinary ownership, for every behaviour of the engine.
THEOREM ForestCorrect == Spec => []Grown
  <1>1. Init => Grown
    BY InitTypes, InitForest DEF Grown
  <1>2. TypeOK /\ Grown /\ [Next]_vars => Forest'
    BY ForestGrows DEF Grown
  <1>3. TypeOK /\ TypeOK' /\ Grown /\ [Next]_vars => Grown'
    BY <1>2 DEF Grown, TypeOK
  <1> QED
    BY <1>1, <1>3, TypeCorrect, PTL DEF Spec

\* Owners outlive what they own, whichever way the owner ends.
THEOREM OwnersOutlive == Spec => []OwnersOutliveTheirTasks
  <1>1. Init => OwnersOutliveTheirTasks
    BY DEF Init, OwnersOutliveTheirTasks, Absent, Live
  <1>2. Grown /\ OwnersOutliveTheirTasks /\ [Next]_vars => OwnersOutliveTheirTasks'
    BY OwnersKeepOutliving DEF Grown
  <1> QED
    BY <1>1, <1>2, ForestCorrect, PTL DEF Spec

\* No task becomes terminal over live ordinary work.
THEOREM TerminalLast == Spec => TerminalLeavesNothing
  <1>1. Grown /\ [Next]_vars =>
          [\A t \in TaskId :
             (task[t].status # "terminal" /\ task'[t].status = "terminal")
                => OwnedLive(task', t) = {}]_vars
    BY TerminalOverNothing DEF Grown
  <1> QED
    BY <1>1, ForestCorrect, PTL DEF Spec, TerminalLeavesNothing

-----------------------------------------------------------------------------
(* An abort handler runs above nothing.                                    *)

\* A reservation starts an abort handler only for a marked task, and only when
\* no ordinary work is alive below it.
LEMMA AbortsStartOverNothing ==
    ASSUME TypeOK, Reserve, NEW t \in TaskId,
           invocation[t] # "abort", invocation'[t] = "abort"
    PROVE  task[t].mark # "none" /\ t <= minted /\ OwnedLive(task, t) = {}
  <1>1. PICK failing : ReserveWith(failing)
    BY DEF Reserve
  <1>2. t \in Reached /\ task[t].mark # "none"
    BY <1>1 DEF ReserveWith
  <1>3. Live(task, t) /\ WaitingOn(t) = {}
    BY <1>2 DEF Reached, Candidate
  <1> QED
    BY <1>2, <1>3, TypeParts, Minted DEF WaitingOn, Live

\* Only a reservation starts an abort handler.
LEMMA AbortsStart ==
    ASSUME TypeOK, [Next]_vars, NEW t \in TaskId,
           invocation[t] # "abort", invocation'[t] = "abort"
    PROVE  Reserve
  <1>1. invocation \in [TaskId -> InvocationState]
    BY DEF TypeOK
  <1>2. ~Handler
    <2> SUFFICES ASSUME Handler PROVE FALSE
      OBVIOUS
    <2>1. PICK u \in TaskId, creates \in HandlerCreates, next \in HandlerNext :
            HandlerCommit(u, creates, next)
      BY DEF Handler
    <2>2. next.kind = "running" => next.moved # "abort"
      BY ChoiceFields
    <2> QED
      BY <1>1, <2>1, <2>2 DEF HandlerCommit
  <1> QED
    BY <1>1, <1>2
    DEF Next, Host, Scheduler, Session, Step, HostCreate, CreateConversation, Abort,
        AbortConversation, FaultIdle, RegistryChange, StepStop, StepCascade,
        StepContinue, StepHandover, StepFault, AbortStep, End, MarkAbandoned,
        Reconcile, Shutdown, Reopen, Resume, vars, memory

\* A mark is not lost, so nothing is born under a task whose abort handler runs.
AbortsAreMarked ==
    \A t \in TaskId : invocation[t] = "abort" => task[t].mark # "none" /\ t <= minted

LEMMA MarkedStays ==
    ASSUME TypeOK, [Next]_vars, NEW t \in TaskId, t <= minted, task[t].mark # "none"
    PROVE  task'[t].mark # "none" /\ t <= minted'
  <1>1. RecordsOK /\ RecordsStep
    BY TypeParts, NextRecords
  <1>2. task[t].mark \in AbortMark /\ Rewrite(task[t], task'[t])
    BY <1>1 DEF RecordsOK, RecordsStep, TaskRecord
  <1> QED
    BY <1>1, <1>2, TaskIdFacts DEF Rewrite, RecordsStep, AbortMark

LEMMA AbortsStayMarked ==
    ASSUME TypeOK, AbortsAreMarked, [Next]_vars
    PROVE  AbortsAreMarked'
  <1> SUFFICES ASSUME NEW t \in TaskId, invocation'[t] = "abort"
               PROVE  task'[t].mark # "none" /\ t <= minted'
    BY DEF AbortsAreMarked
  <1>1. task[t].mark # "none" /\ t <= minted
    BY AbortsStart, AbortsStartOverNothing DEF AbortsAreMarked
  <1> QED
    BY <1>1, MarkedStays

\* Work that is alive below t after a step was there before, unless t owns new
\* work, which it only can while it is not marked.
LEMMA AbortsStayAbove ==
    ASSUME TypeOK, Forest, AbortsAreMarked, AbortRunsAboveNothing, [Next]_vars
    PROVE  AbortRunsAboveNothing'
  <1>1. RecordsOK /\ RecordsStep /\ Forest' /\ AbortsAreMarked'
    BY TypeParts, NextRecords, ForestGrows, AbortsStayMarked
  <1> SUFFICES ASSUME NEW t \in TaskId, invocation'[t] = "abort",
                      NEW u \in TaskId, task'[u].owner = t, Live(task', u)
               PROVE  FALSE
    BY DEF AbortRunsAboveNothing
  <1>2. t # None
    BY <1>1, TaskIdFacts
  <1>3. u <= minted \/ (u = minted + 1 /\ minted' = minted + 1)
    BY <1>1, TaskIdFacts DEF RecordsStep, Live
  <1>4. CASE u = minted + 1 /\ minted' = minted + 1
    <2>1. CanOwn(task', t)
      BY <1>2, <1>4, Births
    <2> QED
      BY <1>1, <2>1 DEF CanOwn, AbortsAreMarked
  <1>5. CASE u <= minted
    <2>1. /\ u \in OwnedLive(task', t)
          /\ Rewrite(task[u], task'[u])
      BY <1>1, <1>2, <1>5 DEF Forest, OwnedLive, RecordsStep
    <2>2. u \in OwnedLive(task, t) /\ task[u].owner = t /\ Live(task, u)
      BY <1>1, <1>5, <2>1, OwnedLiveShrinks DEF Rewrite, SameIdentity, OwnedLive
    <2>3. CASE invocation[t] = "abort"
      BY <2>2, <2>3 DEF AbortRunsAboveNothing
    <2>4. CASE invocation[t] # "abort"
      BY <2>2, <2>4, AbortsStart, AbortsStartOverNothing
    <2> QED
      BY <2>3, <2>4
  <1> QED
    BY <1>3, <1>4, <1>5

\* While the abort handler of a task runs, nothing the task owns is alive.
THEOREM AbortsBottomUp == Spec => []AbortRunsAboveNothing
  <1>1. Init => AbortsAreMarked /\ AbortRunsAboveNothing
    BY DEF Init, AbortsAreMarked, AbortRunsAboveNothing
  <1>2. Grown /\ AbortsAreMarked /\ AbortRunsAboveNothing /\ [Next]_vars
          => (AbortsAreMarked /\ AbortRunsAboveNothing)'
    BY AbortsStayMarked, AbortsStayAbove DEF Grown
  <1> QED
    BY <1>1, <1>2, ForestCorrect, PTL DEF Spec

-----------------------------------------------------------------------------
(* No circle of live tasks that hold each other up.                        *)

\* Every member of S is held up by a member of S.
Circle(T, S) == S # {} /\ \A x \in S : \E y \in S : HoldsUp(T, x, y)

\* No wait cycle, said with the set that would be one.
LEMMA NoCircle == NoWaitCycle <=> \A S \in SUBSET TaskId : ~Circle(task, S)
  BY DEF NoWaitCycle, Circle

\* Without new tasks and new waits nothing new is held up.
LEMMA HoldsUpShrinks ==
    ASSUME NEW T \in [TaskId -> TaskRecord], NEW U \in [TaskId -> TaskRecord],
           NEW x \in TaskId, NEW y \in TaskId, HoldsUp(U, x, y),
           \A t \in TaskId :
             /\ SameIdentity(T[t], U[t])
             /\ Live(U, t) => Live(T, t)
             /\ (U[t].status = "waiting" /\ U[t].mark = "none") =>
                  T[t].status = "waiting" /\ T[t].mark = "none" /\ T[t].on = U[t].on
    PROVE  HoldsUp(T, x, y)
  <1>1. y \in OwnedLive(U, x) => y \in OwnedLive(T, x)
    BY DEF OwnedLive, SameIdentity
  <1> QED
    BY <1>1 DEF HoldsUp

\* A new task that nothing is below and that does not wait closes no circle.
LEMMA NewTaskClosesNoCircle ==
    ASSUME NEW T \in [TaskId -> TaskRecord], NEW U \in [TaskId -> TaskRecord],
           NEW n \in TaskId, U[n].status = "pending", OwnedLive(U, n) = {},
           \A t \in TaskId : t # n => U[t] = T[t],
           NEW S \in SUBSET TaskId, Circle(U, S)
    PROVE  Circle(T, S)
  <1>1. \A y \in TaskId : ~HoldsUp(U, n, y)
    BY DEF HoldsUp
  <1>2. n \notin S
    BY <1>1 DEF Circle
  <1>3. ASSUME NEW x \in S, NEW y \in S, HoldsUp(U, x, y) PROVE HoldsUp(T, x, y)
    <2>1. x # n /\ y # n /\ U[x] = T[x] /\ U[y] = T[y]
      BY <1>2
    <2> QED
      BY <1>3, <2>1 DEF HoldsUp, OwnedLive, Live
  <1> QED
    BY <1>3 DEF Circle

\* An admitted wait closes no circle: what the targets reach never leads back
\* to t, and the members t owns hold it up already.
LEMMA AdmittedWaitClosesNoCircle ==
    ASSUME NEW T \in [TaskId -> TaskRecord], NEW U \in [TaskId -> TaskRecord],
           NEW t \in TaskId, NEW on \in SUBSET TaskId,
           Live(T, t), Live(U, t), SameIdentity(T[t], U[t]), U[t].on = on,
           \A u \in TaskId : u # t => U[u] = T[u],
           \A m \in TaskId : T[m].owner = t => t \in T[m].above /\ ~T[m].background,
           NoCycleThrough(T, t, {m \in on : Live(T, m) /\ T[m].owner # t}),
           NEW S \in SUBSET TaskId, Circle(U, S)
    PROVE  \E R \in SUBSET TaskId : Circle(T, R)
  <1>1. PICK seen \in SUBSET TaskId :
          /\ {m \in on : Live(T, m) /\ T[m].owner # t} \subseteq seen
          /\ t \notin seen
          /\ \A x \in seen, y \in TaskId : HoldsUp(T, x, y) => y \in seen
    BY DEF NoCycleThrough
  <1>2. \A u \in TaskId : Live(U, u) <=> Live(T, u)
    BY DEF Live
  <1>3. ASSUME NEW x \in TaskId, NEW y \in TaskId
        PROVE  y \in OwnedLive(U, x) <=> y \in OwnedLive(T, x)
    BY <1>2 DEF OwnedLive, SameIdentity
  <1>4. ASSUME NEW x \in TaskId, NEW y \in TaskId, HoldsUp(U, x, y), x # t
        PROVE  HoldsUp(T, x, y)
    BY <1>2, <1>3, <1>4 DEF HoldsUp
  <1>5. ASSUME NEW y \in TaskId, HoldsUp(U, t, y), y \notin seen
        PROVE  HoldsUp(T, t, y)
    <2>1. y \in OwnedLive(T, t)
      <3>1. CASE y \in OwnedLive(U, t)
        BY <1>3, <3>1
      <3>2. CASE y \notin OwnedLive(U, t)
        <4>1. y \in on /\ Live(T, y)
          BY <1>2, <1>5, <3>2 DEF HoldsUp
        <4>2. T[y].owner = t
          BY <1>1, <1>5, <4>1
        <4> QED
          BY <4>1, <4>2 DEF OwnedLive
      <3> QED
        BY <3>1, <3>2
    <2> QED
      BY <1>2, <1>5, <2>1 DEF HoldsUp
  <1>6. CASE S \cap seen = {}
    <2>1. Circle(T, S)
      BY <1>4, <1>5, <1>6 DEF Circle
    <2> QED
      BY <2>1
  <1>7. CASE S \cap seen # {}
    <2>1. ASSUME NEW x \in S \cap seen PROVE \E y \in S \cap seen : HoldsUp(T, x, y)
      BY <1>1, <1>4 DEF Circle
    <2>2. Circle(T, S \cap seen)
      BY <1>7, <2>1 DEF Circle
    <2> QED
      BY <2>2
  <1> QED
    BY <1>6, <1>7

\* Only a handler makes a task wait.
LEMMA WaitsKept ==
    ASSUME TypeOK, [Next]_vars, ~Handler, NEW t \in TaskId, t <= minted,
           task'[t].status = "waiting"
    PROVE  task[t].status = "waiting" /\ task'[t].on = task[t].on
  <1>1. RecordsOK /\ task[t] \in TaskRecord /\ task \in [TaskId -> TaskRecord]
    BY TypeParts DEF RecordsOK
  <1>2. {"faulted", "orphaned"} \subseteq TaskOutcome /\ {"request", "restart"} \subseteq AbortMark
        /\ {"pending", "running", "completing", "terminal"} \subseteq TaskStatus
    BY DEF TaskOutcome, AbortMark, TaskStatus
  <1>3. ASSUME NEW o \in TaskOutcome PROVE Ended(task, t, o).status # "waiting"
    <2>1. \/ Ended(task, t, o) = WithOutcome(task[t], "completing", o)
          \/ Ended(task, t, o) = WithOutcome(task[t], "terminal", o)
      BY DEF Ended
    <2>2. /\ WithOutcome(task[t], "completing", o).status = "completing"
          /\ WithOutcome(task[t], "terminal", o).status = "terminal"
      BY <1>1, <1>2, WithOutcomeFields
    <2> QED
      BY <2>1, <2>2
  <1>4. CASE Host
    <2>1. ASSUME NEW k \in HostTasks, HostCreate(k) PROVE task'[t] = task[t]
      BY <1>1, <2>1, TaskIdFacts DEF HostCreate
    <2>2. ASSUME NEW u \in TaskId, NEW keep, Abort(u, keep)
          PROVE  task[t].status = "waiting" /\ task'[t].on = task[t].on
      <3>1. \/ task' = [task EXCEPT ![u] = Ended(task, u, "orphaned")]
            \/ task' = [task EXCEPT ![u] = WithMark(task[u], "request")]
        BY <2>2 DEF Abort
      <3> QED
        BY <1>1, <1>2, <1>3, <3>1, WithMarkFields
    <2>3. ASSUME NEW c \in Conversation, NEW b \in BOOLEAN,
                 AbortConversation(c, b)
          PROVE  task[t].status = "waiting" /\ task'[t].on = task[t].on
      BY <1>1, <1>2, <2>3, WithMarkFields DEF AbortConversation
    <2>4. ASSUME NEW u \in TaskId, FaultIdle(u)
          PROVE  task[t].status = "waiting" /\ task'[t].on = task[t].on
      BY <1>1, <1>2, <1>3, <2>4 DEF FaultIdle
    <2> QED
      BY <1>4, <2>1, <2>2, <2>3, <2>4, AbortAssumption
      DEF Host, CreateConversation, RegistryChange, durable
  <1>5. CASE Scheduler
    <2>1. ASSUME NEW u \in TaskId, Step(u)
          PROVE  task[t].status = "waiting" /\ task'[t].on = task[t].on
      <3>1. CASE StepHandover(u)
        BY <1>1, <1>2, <3>1, WithStatusFields DEF StepHandover
      <3>2. CASE StepFault(u) \/ AbortStep(u)
        BY <1>1, <1>2, <1>3, <3>2 DEF StepFault, AbortStep
      <3> QED
        BY <2>1, <3>1, <3>2 DEF Step, StepStop, StepCascade, StepContinue, durable
    <2>2. CASE MarkAbandoned
      BY <1>1, <1>2, <2>2, WithMarkFields DEF MarkAbandoned
    <2>3. CASE Reserve
      <3>1. PICK failing : ReserveWith(failing)
        BY <2>3 DEF Reserve
      <3> QED
        BY <1>1, <1>2, <1>3, <3>1, WithStatusFields DEF ReserveWith
    <2>4. CASE Reconcile
      <3>1. \/ task'[t] = WithStatus(WithMark(task[t], MarkFor(t)), "terminal")
            \/ task'[t] = WithMark(task[t], MarkFor(t))
        BY <2>4 DEF Reconcile, Reconciled
      <3>2. /\ WithMark(task[t], MarkFor(t)) \in TaskRecord
            /\ WithMark(task[t], MarkFor(t)).status = task[t].status
            /\ WithMark(task[t], MarkFor(t)).on = task[t].on
        BY <1>1, MarkForMonotone, WithMarkFields
      <3> QED
        BY <1>2, <3>1, <3>2, WithStatusFields
    <2> QED
      BY <1>5, <2>1, <2>2, <2>3, <2>4 DEF Scheduler
  <1>6. CASE Session
    <2>1. CASE Reopen
      <3>1. task'[t] = IF task[t].status = "running" THEN WithStatus(task[t], "pending")
                       ELSE task[t]
        BY <2>1 DEF Reopen
      <3> QED
        BY <1>1, <1>2, <3>1, WithStatusFields
    <2> QED
      BY <1>6, <2>1 DEF Session, Shutdown, Resume, durable
  <1>7. CASE UNCHANGED vars
    BY <1>7 DEF vars, durable
  <1> QED
    BY <1>4, <1>5, <1>6, <1>7 DEF Next

\* No step but a handler's commit closes a circle of waits.
LEMMA StepClosesNoCircle ==
    ASSUME TypeOK, Forest, [Next]_vars, ~Handler, NoWaitCycle
    PROVE  NoWaitCycle'
  <1>1. RecordsOK /\ RecordsStep
    BY TypeParts, NextRecords
  <1>2. task \in [TaskId -> TaskRecord] /\ task' \in [TaskId -> TaskRecord]
    BY <1>1 DEF RecordsOK, RecordsStep
  <1> SUFFICES ASSUME NEW S \in SUBSET TaskId, Circle(task', S) PROVE FALSE
    BY DEF NoWaitCycle, Circle
  <1> DEFINE n == minted + 1
             U == [t \in TaskId |-> IF t > minted THEN task[t] ELSE task'[t]]
  <1>3. U \in [TaskId -> TaskRecord] /\ \A t \in TaskId : t <= minted => U[t] = task'[t]
    BY <1>1, <1>2, TaskIdFacts
  <1>4. \E R \in SUBSET TaskId : Circle(U, R)
    <2>1. CASE minted' = minted + 1
      <3>1. n \in TaskId
        BY <1>1, <2>1, MaxTasksAssumption DEF RecordsStep, RecordsOK, TaskId
      <3>2. task'[n].status = "pending" /\ OwnedLive(task', n) = {}
        BY <1>1, <2>1, <3>1, NewOwnsNothing DEF RecordsStep, Fresh
      <3>3. \A t \in TaskId : t # n => task'[t] = U[t]
        <4>1. ASSUME NEW t \in TaskId, t > minted'
              PROVE  task'[t] = task[t]
          <5>1. t > minted
            BY <1>1, <2>1, <4>1, TaskIdFacts
          <5> QED
            BY <1>1, <4>1, <5>1 DEF RecordsStep, RecordsOK, Consistent
        <4> QED
          BY <1>1, <2>1, <4>1, TaskIdFacts
      <3> HIDE DEF U, n
      <3> QED
        BY <1>2, <1>3, <3>1, <3>2, <3>3, NewTaskClosesNoCircle
    <2>2. CASE minted' = minted
      <3>1. ASSUME NEW t \in TaskId, t > minted
            PROVE  task'[t] = task[t]
        BY <1>1, <2>2, <3>1 DEF RecordsStep, RecordsOK, Consistent
      <3>2. U = task'
        BY <1>2, <3>1
      <3> QED
        BY <3>2
    <2> QED
      BY <1>1, <2>1, <2>2 DEF RecordsStep
  <1>5. PICK R \in SUBSET TaskId : Circle(U, R)
    BY <1>4
  <1>6. ASSUME NEW t \in TaskId
        PROVE  /\ SameIdentity(task[t], U[t])
               /\ Live(U, t) => Live(task, t)
               /\ (U[t].status = "waiting" /\ U[t].mark = "none") =>
                    task[t].status = "waiting" /\ task[t].mark = "none" /\ task[t].on = U[t].on
    <2>1. CASE t <= minted
      <3>1. U[t] = task'[t] /\ Rewrite(task[t], task'[t]) /\ task[t].mark \in AbortMark
        BY <1>1, <1>3, <2>1 DEF RecordsStep, RecordsOK, TaskRecord
      <3>2. U[t].status = "waiting" => task[t].status = "waiting" /\ U[t].on = task[t].on
        BY <2>1, <3>1, WaitsKept
      <3>3. Live(U, t) => Live(task, t)
        BY <3>1 DEF Live, Rewrite, CheckReplacement, LegalTransition
      <3> HIDE DEF U
      <3> QED
        BY <3>1, <3>2, <3>3 DEF Rewrite, AbortMark
    <2>2. CASE t > minted
      BY <2>2 DEF Live, SameIdentity
    <2> QED
      BY <1>1, <2>1, <2>2, TaskIdFacts
  <1> HIDE DEF U
  <1>7. Circle(task, R)
    <2>1. ASSUME NEW x \in R, NEW y \in R, HoldsUp(U, x, y) PROVE HoldsUp(task, x, y)
      BY <1>2, <1>3, <1>6, <2>1, HoldsUpShrinks
    <2> QED
      BY <1>5, <2>1 DEF Circle
  <1> QED
    BY <1>7, NoCircle

\* A handler's commit closes no circle, although it may create a task and wait
\* on it in the same commit.
LEMMA HandlerClosesNoCircle ==
    ASSUME TypeOK, Forest, Handler, NoWaitCycle
    PROVE  NoWaitCycle'
  <1>1. RecordsOK /\ OwnersOK /\ RecordsStep /\ Forest'
    BY TypeParts, NextRecords, ForestGrows DEF Next
  <1>2. PICK t \in TaskId, creates \in HandlerCreates, next \in HandlerNext :
          Gate(t) /\ HandlerCommit(t, creates, next)
    BY DEF Handler
  <1> DEFINE T == WithNew(t, creates)
             n == minted + 1
  <1>3. /\ T \in [TaskId -> TaskRecord]
        /\ \A u \in TaskId : (creates.kind = "nothing" \/ u # n) => T[u] = task[u]
        /\ minted' = IF creates.kind = "nothing" THEN minted ELSE n
        /\ creates.kind # "nothing" => n \in TaskId /\ Fresh(T[n])
        /\ t <= minted /\ t # n
        /\ task[t].status = "running" /\ T[t] = task[t]
    BY <1>1, <1>2, NewRecords
  <1>4. task' = WithNext(T, t, next)
    BY <1>2 DEF HandlerCommit
  <1>5. next.kind = "waiting" => ValidWait(T, t, next.on, next.policy)
    BY <1>2 DEF HandlerCommit
  <1> HIDE DEF T
  <1>6. /\ Consistent(T[t]) /\ T[t].status = "running"
        /\ task \in [TaskId -> TaskRecord] /\ task' \in [TaskId -> TaskRecord]
    BY <1>1, <1>3 DEF RecordsOK, RecordsStep
  <1>7. /\ \A u \in TaskId : u # t => task'[u] = T[u]
        /\ Rewrite(T[t], task'[t])
    BY <1>3, <1>4, <1>6, NextRewrite
  <1>8. \A u \in TaskId : SameIdentity(T[u], task'[u])
    BY <1>7 DEF Rewrite, SameIdentity
  <1> SUFFICES ASSUME NEW S \in SUBSET TaskId, Circle(task', S) PROVE FALSE
    BY DEF NoWaitCycle, Circle
  <1>9. \E R \in SUBSET TaskId : Circle(T, R)
    <2>1. CASE next.kind = "waiting"
      <3>1. task' = [T EXCEPT ![t] = [T[t] EXCEPT !.status = "waiting", !.on = next.on,
                                                   !.policy = next.policy]]
        BY <1>4, <2>1 DEF WithNext
      <3>2. task'[t].on = next.on /\ task'[t].status = "waiting" /\ next.on \in SUBSET TaskId
        BY <1>3, <2>1, <3>1, ChoiceFields DEF TaskRecord
      <3>3. Live(T, t) /\ Live(task', t)
        BY <1>6, <3>2 DEF Live
      <3>4. \A m \in TaskId : T[m].owner = t => t \in T[m].above /\ ~T[m].background
        BY <1>1, <1>8, TaskIdFacts DEF Forest, SameIdentity
      <3>5. NoCycleThrough(T, t, {m \in next.on : Live(T, m) /\ T[m].owner # t})
        BY <1>5, <2>1 DEF ValidWait
      <3> QED
        BY <1>3, <1>6, <1>7, <1>8, <3>2, <3>3, <3>4, <3>5, AdmittedWaitClosesNoCircle
    <2>2. CASE next.kind # "waiting"
      <3>1. task'[t].status # "waiting"
        <4>1. \/ task'[t] = T[t] \/ task'[t] = WithStatus(T[t], "running")
              \/ \E o \in TaskOutcome : task'[t] = Ended(T, t, o)
          BY <1>3, <1>4, <2>2, ChoiceFields DEF WithNext, TaskOutcome
        <4>2. {"running", "completing", "terminal"} \subseteq TaskStatus
          BY DEF TaskStatus
        <4>3. WithStatus(T[t], "running").status # "waiting"
          BY <1>3, <4>2, WithStatusFields
        <4>4. ASSUME NEW o \in TaskOutcome PROVE Ended(T, t, o).status # "waiting"
          <5>1. \/ Ended(T, t, o) = WithOutcome(T[t], "completing", o)
                \/ Ended(T, t, o) = WithOutcome(T[t], "terminal", o)
            BY DEF Ended
          <5>2. /\ WithOutcome(T[t], "completing", o).status = "completing"
                /\ WithOutcome(T[t], "terminal", o).status = "terminal"
            BY <1>3, <4>2, WithOutcomeFields
          <5> QED
            BY <5>1, <5>2
        <4> QED
          BY <1>6, <4>1, <4>3, <4>4
      <3>2. Live(T, t)
        BY <1>6 DEF Live
      <3>3. \A u \in TaskId :
              /\ SameIdentity(T[u], task'[u])
              /\ Live(task', u) => Live(T, u)
              /\ (task'[u].status = "waiting" /\ task'[u].mark = "none") =>
                   T[u].status = "waiting" /\ T[u].mark = "none" /\ T[u].on = task'[u].on
        BY <1>7, <1>8, <3>1, <3>2 DEF Live
      <3>4. ASSUME NEW x \in S, NEW y \in S, HoldsUp(task', x, y) PROVE HoldsUp(T, x, y)
        BY <1>3, <1>6, <3>3, <3>4, HoldsUpShrinks
      <3> QED
        BY <3>4 DEF Circle
    <2> QED
      BY <2>1, <2>2
  <1>10. PICK R \in SUBSET TaskId : Circle(T, R)
    BY <1>9
  <1>11. Circle(task, R)
    <2>1. CASE creates.kind = "nothing"
      <3>1. T = task
        BY <1>3, <1>6, <2>1
      <3> QED
        BY <1>10, <3>1
    <2>2. CASE creates.kind # "nothing"
      <3>1. minted' = n /\ n \in TaskId /\ T[n].status = "pending"
        BY <1>3, <2>2 DEF Fresh
      <3>2. OwnedLive(task', n) = {}
        BY <3>1, NewOwnsNothing DEF Next
      <3>3. OwnedLive(T, n) = {}
        <4>1. ASSUME NEW u \in OwnedLive(T, n) PROVE u \in OwnedLive(task', n)
          <5>1. u \in TaskId /\ SameIdentity(T[u], task'[u])
            BY <1>8 DEF OwnedLive
          <5>2. u # t
            <6>1. n \notin T[t].above
              BY <1>1, <1>3, TaskIdFacts DEF Forest
            <6> QED
              BY <6>1 DEF OwnedLive
          <5> QED
            BY <1>7, <5>1, <5>2 DEF OwnedLive, Live
        <4> QED
          BY <3>2, <4>1
      <3> HIDE DEF n
      <3> QED
        BY <1>3, <1>6, <1>10, <3>1, <3>3, NewTaskClosesNoCircle
    <2> QED
      BY <2>1, <2>2
  <1> QED
    BY <1>11, NoCircle

\* Live tasks never hold each other up in a circle, for any number of tasks.
THEOREM NoCircularWait == Spec => []NoWaitCycle
  <1>1. Init => NoWaitCycle
    BY DEF Init, NoWaitCycle, HoldsUp, Live, Absent
  <1>2. Grown /\ NoWaitCycle /\ [Next]_vars => NoWaitCycle'
    BY StepClosesNoCircle, HandlerClosesNoCircle DEF Grown
  <1> QED
    BY <1>1, <1>2, ForestCorrect, PTL DEF Spec

-----------------------------------------------------------------------------
(* What the records imply is written or scheduled, and nothing that could  *)
(* go on is left behind.                                                   *)

\* A reconcile that is not scheduled would change nothing.
ReconcileOwed == Open_ /\ ~reconcileDue => Reconciled = task

\* What a reconcile writes depends on the records only.
LEMMA ReconciledOfRecords == UNCHANGED task => Reconciled' = Reconciled
  BY DEF Reconciled, Finalizable, MarkFor, FailFastTarget, CascadeMark, Nearest,
         Cancelled, CancellingOwners, CancellationIntent, FailedOutcome, OwnedLive, Live

\* Whoever writes a record schedules a reconcile.
LEMMA ReconcileStaysOwed ==
    ASSUME TypeOK, ReconcileOwed, [Next]_vars
    PROVE  ReconcileOwed'
  <1>1. reconcileDue \in BOOLEAN /\ session \in {"closed", "open", "enabled"}
    BY DEF TypeOK
  <1>2. CASE UNCHANGED task /\ (Open_' /\ ~reconcileDue' => Open_ /\ ~reconcileDue)
    BY <1>2, ReconciledOfRecords DEF ReconcileOwed
  <1>3. CASE Reconcile
    <2>1. task' = Reconciled /\ reconcileDue' = (task' # task)
      BY <1>3 DEF Reconcile
    <2>2. CASE task' = task
      BY <2>1, <2>2, ReconciledOfRecords DEF ReconcileOwed
    <2> QED
      BY <2>1, <2>2 DEF ReconcileOwed
  <1>4. CASE reconcileDue' \/ ~Open_'
    BY <1>4 DEF ReconcileOwed
  <1>5. CASE Host
    BY <1>1, <1>2, <1>4, <1>5
    DEF Host, HostCreate, CreateConversation, Abort, AbortConversation, FaultIdle,
        RegistryChange, Published, memory, durable, Open_
  <1>6. CASE Handler
    BY <1>4, <1>6 DEF Handler, HandlerCommit, Published
  <1>7. CASE \E t \in TaskId : Step(t)
    BY <1>1, <1>2, <1>4, <1>7
    DEF Step, StepStop, StepCascade, StepContinue, StepHandover, StepFault, AbortStep,
        Published, durable, Open_
  <1>8. CASE MarkAbandoned \/ Reserve
    <2>1. reconcileDue' = FALSE => task' = task /\ ~reconcileDue
      BY <1>1, <1>8 DEF MarkAbandoned, Reserve, ReserveWith
    <2>2. reconcileDue' \in BOOLEAN /\ session' = session
      BY <1>1, <1>8 DEF MarkAbandoned, Reserve, ReserveWith
    <2> QED
      BY <1>2, <1>4, <2>1, <2>2 DEF Open_
  <1>9. CASE Session
    BY <1>1, <1>2, <1>4, <1>9 DEF Session, Shutdown, Reopen, Resume, durable, Open_
  <1>10. CASE UNCHANGED vars
    BY <1>2, <1>10 DEF vars, durable, memory, Open_
  <1> QED
    BY <1>3, <1>5, <1>6, <1>7, <1>8, <1>9, <1>10 DEF Next, Scheduler

\* With nothing to reconcile, marks are what the cascade makes of them and no
\* held outcome can come out.
LEMMA NothingToReconcile ==
    ASSUME TypeOK, Reconciled = task, NEW t \in TaskId
    PROVE  task[t].mark = MarkFor(t) /\ t \notin Finalizable
  <1>1. RecordsOK /\ task[t] \in TaskRecord /\ MarkFor(t) \in AbortMark
    BY TypeParts, MarkForMonotone DEF RecordsOK
  <1> DEFINE marked == WithMark(task[t], MarkFor(t))
  <1>2. /\ marked \in TaskRecord /\ marked.mark = MarkFor(t)
        /\ WithStatus(marked, "terminal").mark = MarkFor(t)
        /\ WithStatus(marked, "terminal").status = "terminal"
    BY <1>1, WithMarkFields, WithStatusFields DEF TaskStatus
  <1>3. task[t] = IF t \in Finalizable THEN WithStatus(marked, "terminal") ELSE marked
    BY DEF Reconciled
  <1> HIDE DEF marked
  <1>4. t \in Finalizable => task[t].status = "completing"
    BY DEF Finalizable
  <1> QED
    BY <1>2, <1>3, <1>4

\* What CancellationSettled says of each task.
LEMMA CascadeIsWritten ==
    ASSUME TypeOK, Forest, ReconcileOwed
    PROVE  CancellationSettled
  <1>1. RecordsOK
    BY TypeParts
  <1> SUFFICES ASSUME Reconciled = task, NEW t \in TaskId, Live(task, t)
               PROVE  /\ Cancelled(t) => task[t].mark # "none"
                      /\ \A o \in CancellingOwners(t) :
                           (/\ ~task[t].background
                            /\ \A p \in CancellingOwners(t) : p <= o
                            /\ task[o].mark = "request" \/ FailedOutcome(task, o))
                               => task[t].mark = "request"
                      /\ \A w, m \in TaskId :
                           (/\ task[w].status = "waiting" /\ task[w].policy = "failFast"
                            /\ {t, m} \subseteq task[w].on
                            /\ task[t].status # "completing"
                            /\ task[m].outcome \notin {"none", "completed"})
                               => task[t].mark = "request"
    BY DEF CancellationSettled, ReconcileOwed
  <1>2. task[t].mark = MarkFor(t)
    BY NothingToReconcile
  <1>3. Cancelled(t) => task[t].mark # "none"
    BY <1>2 DEF MarkFor
  <1>4. ASSUME NEW o \in CancellingOwners(t), ~task[t].background,
               \A p \in CancellingOwners(t) : p <= o,
               task[o].mark = "request" \/ FailedOutcome(task, o)
        PROVE  task[t].mark = "request"
    <2>1. CancellingOwners(t) \subseteq Nat
      BY <1>1, TaskIdFacts DEF CancellingOwners, Forest
    <2>2. Nearest(t) = o
      BY <1>4, <2>1 DEF Nearest
    <2>3. Cancelled(t) /\ CascadeMark(t) = "request"
      BY <1>4, <2>2 DEF Cancelled, CascadeMark
    <2> QED
      BY <1>2, <2>3 DEF MarkFor
  <1>5. ASSUME NEW w \in TaskId, NEW m \in TaskId,
               task[w].status = "waiting", task[w].policy = "failFast",
               {t, m} \subseteq task[w].on, task[t].status # "completing",
               task[m].outcome \notin {"none", "completed"}
        PROVE  task[t].mark = "request"
    <2>1. FailedOutcome(task, m) /\ ~FailedOutcome(task, t)
      BY <1>1, <1>5 DEF FailedOutcome, RecordsOK, Consistent, Live
    <2>2. FailFastTarget(t)
      BY <1>5, <2>1 DEF FailFastTarget
    <2> QED
      BY <1>2, <2>2 DEF MarkFor
  <1> QED
    BY <1>3, <1>4, <1>5

LEMMA SameMark ==
    ASSUME NEW r \in TaskRecord
    PROVE  WithMark(r, r.mark) = r
  BY DEF WithMark, TaskRecord

LEMMA ReconcileIsOwed == Spec => []ReconcileOwed
  <1>1. Init => ReconcileOwed
    <2> SUFFICES ASSUME Init PROVE ReconcileOwed
      OBVIOUS
    <2>1. \A t \in TaskId : task[t] = Absent
      BY DEF Init
    <2>2. \A t \in TaskId : MarkFor(t) = "none" /\ t \notin Finalizable
      BY <2>1 DEF MarkFor, FailFastTarget, Live, Finalizable, Absent
    <2>3. WithMark(Absent, "none") = Absent
      <3>1. Absent \in TaskRecord /\ Absent.mark = "none"
        BY RootAssumption
        DEF Absent, TaskRecord, TaskStatus, JoinPolicy, AbortMark, OwnerId
      <3> QED
        BY <3>1, SameMark
    <2>4. Reconciled = [t \in TaskId |-> Absent]
      BY <2>1, <2>2, <2>3 DEF Reconciled
    <2> QED
      BY <2>4 DEF Init, ReconcileOwed
  <1>2. TypeOK /\ ReconcileOwed /\ [Next]_vars => ReconcileOwed'
    BY ReconcileStaysOwed
  <1> QED
    BY <1>1, <1>2, TypeCorrect, PTL DEF Spec

\* When no reconcile is due, cancellation has come down to every task that an
\* owner or a failed fail-fast wait cancels, with the mark it deserves.
THEOREM CancellationComesDown == Spec => []CancellationSettled
  <1>1. Grown /\ ReconcileOwed => CancellationSettled
    BY CascadeIsWritten DEF Grown
  <1> QED
    BY <1>1, ForestCorrect, ReconcileIsOwed, PTL

\* No pass is owed: all it would reach is without a usable definition.
PassOwed ==
    session = "enabled" /\ ~dirty => \A t \in Reached : definition[t] = "blocked"

\* Whom a pass reaches depends on the records and the invocations only.
LEMMA ReachedOfState == UNCHANGED <<task, invocation>> => Reached' = Reached
  BY DEF Reached, Candidate, HeldBack, WaitingOn, Cancelled, CancellingOwners,
         CancellationIntent, FailedOutcome, OwnedLive, Live

\* Whoever writes a record, ends an invocation or changes a definition kicks.
LEMMA PassStaysOwed ==
    ASSUME TypeOK, PassOwed, [Next]_vars
    PROVE  PassOwed'
  <1>1. /\ dirty \in BOOLEAN /\ session \in {"closed", "open", "enabled"}
        /\ invocation \in [TaskId -> InvocationState]
        /\ definition \in [TaskId -> Definition]
    BY DEF TypeOK
  <1>2. CASE UNCHANGED <<task, invocation, definition, session, dirty>>
    BY <1>2, ReachedOfState DEF PassOwed
  <1>3. CASE dirty' \/ session' # "enabled"
    BY <1>3 DEF PassOwed
  <1>4. CASE Host
    <2>1. ASSUME NEW t \in TaskId, RegistryChange(t) PROVE PassOwed'
      <3>1. Open_ => dirty'
        BY <2>1 DEF RegistryChange
      <3>2. ~Open_ => session' # "enabled"
        BY <2>1 DEF RegistryChange, Open_
      <3> QED
        BY <1>3, <3>1, <3>2
    <2> QED
      BY <1>2, <1>3, <1>4, <2>1
      DEF Host, HostCreate, CreateConversation, Abort, AbortConversation, FaultIdle,
          Published, memory
  <1>5. CASE Handler
    BY <1>3, <1>5 DEF Handler, HandlerCommit, Published
  <1>6. ASSUME NEW u \in TaskId, Step(u) PROVE PassOwed'
    <2>1. CASE StepContinue(u)
      <3>1. /\ invocation' = [invocation EXCEPT ![u] = "same"]
            /\ invocation[u] # "none"
            /\ UNCHANGED <<task, session, definition, dirty>>
        BY <2>1 DEF StepContinue, durable
      <3>2. UNCHANGED task => Reached' \subseteq Reached
        <4>1. ASSUME NEW t \in TaskId, invocation'[t] = "none"
              PROVE  invocation[t] = "none"
          BY <1>1, <3>1, <4>1
        <4> QED
          BY <4>1 DEF Reached, Candidate, HeldBack, WaitingOn, Cancelled, CancellingOwners,
                      CancellationIntent, FailedOutcome, OwnedLive, Live
      <3> QED
        BY <3>1, <3>2 DEF PassOwed
    <2> QED
      BY <1>3, <1>6, <2>1
      DEF Step, StepStop, StepCascade, StepHandover, StepFault, AbortStep, End, Published
  <1>7. CASE MarkAbandoned
    BY <1>3, <1>7 DEF MarkAbandoned
  <1>8. CASE Reserve
    <2>1. PICK failing \in SUBSET {t \in Reached : definition[t] = "changed"} :
             ReserveWith(failing)
      BY <1>8 DEF Reserve
    <2>2. CASE task' # task
      BY <1>3, <2>1, <2>2 DEF ReserveWith
    <2>3. CASE task' = task
      <3>1. ASSUME NEW t \in TaskId, invocation'[t] = "none"
            PROVE  invocation[t] = "none" /\ t \notin Reached \ Blocked(failing)
        BY <2>1, <3>1 DEF ReserveWith, Reached, Candidate
      <3>2. Reached' \subseteq Reached
        BY <2>3, <3>1 DEF Reached, Candidate, HeldBack, WaitingOn, Cancelled, CancellingOwners,
                          CancellationIntent, FailedOutcome, OwnedLive, Live
      <3>3. ASSUME NEW t \in Reached' PROVE definition'[t] = "blocked"
        <4>1. t \in TaskId /\ invocation'[t] = "none"
          BY DEF Reached, Candidate
        <4>2. t \in Blocked(failing)
          BY <3>1, <3>2, <4>1
        <4> QED
          BY <2>1, <4>1, <4>2 DEF ReserveWith, Blocked
      <3> QED
        BY <3>3 DEF PassOwed
    <2> QED
      BY <2>2, <2>3
  <1>9. CASE Reconcile
    <2>1. CASE task' # task
      BY <1>3, <1>9, <2>1 DEF Reconcile
    <2>2. CASE task' = task
      BY <1>1, <1>2, <1>9, <2>2 DEF Reconcile
    <2> QED
      BY <2>1, <2>2
  <1>10. CASE Session
    BY <1>3, <1>10 DEF Session, Shutdown, Reopen, Resume
  <1>11. CASE UNCHANGED vars
    BY <1>2, <1>11 DEF vars, durable, memory
  <1> QED
    BY <1>4, <1>5, <1>6, <1>7, <1>8, <1>9, <1>10, <1>11 DEF Next, Scheduler

LEMMA PassIsOwed == Spec => []PassOwed
  <1>1. Init => PassOwed
    BY DEF Init, PassOwed
  <1>2. TypeOK /\ PassOwed /\ [Next]_vars => PassOwed'
    BY PassStaysOwed
  <1> QED
    BY <1>1, <1>2, TypeCorrect, PTL DEF Spec

\* Of the live tasks one is held up by no other, since there is no circle.  With
\* nothing due it would have been finished, marked or started.
LEMMA SomeoneGoesOn ==
    ASSUME TypeOK, NoWaitCycle, ReconcileOwed, PassOwed, Quiet,
           \A t \in TaskId : Live(task, t) => definition[t] # "blocked",
           NEW live \in TaskId, Live(task, live)
    PROVE  FALSE
  <1> DEFINE S == {t \in TaskId : Live(task, t)}
  <1>1. PICK x \in S : \A y \in S : ~HoldsUp(task, x, y)
    BY DEF NoWaitCycle
  <1>2. x \in TaskId /\ Live(task, x)
    BY <1>1
  <1>3. \A y \in TaskId : ~HoldsUp(task, x, y)
    BY <1>1 DEF HoldsUp
  <1>4. OwnedLive(task, x) = {}
    BY <1>2, <1>3 DEF HoldsUp, OwnedLive
  <1>5. Reconciled = task
    BY DEF ReconcileOwed, Quiet, Open_
  <1>6. task[x].mark = MarkFor(x) /\ x \notin Finalizable
    BY <1>2, <1>5, NothingToReconcile
  <1>7. task[x].status # "completing"
    BY <1>2, <1>4, <1>6 DEF Finalizable
  <1>8. ~HeldBack(x)
    BY <1>2, <1>6 DEF HeldBack, MarkFor
  <1>9. WaitingOn(x) = {}
    <2>1. CASE task[x].mark # "none"
      BY <1>4, <2>1 DEF WaitingOn
    <2>2. CASE task[x].mark = "none"
      <3>1. task[x].on \subseteq TaskId
        BY <1>2 DEF TypeOK, TaskRecord
      <3> QED
        BY <1>2, <1>3, <2>2, <3>1 DEF WaitingOn, HoldsUp
    <2> QED
      BY <2>1, <2>2
  <1>10. x \in Reached
    BY <1>2, <1>7, <1>8, <1>9 DEF Reached, Candidate, Quiet
  <1> QED
    BY <1>2, <1>10 DEF PassOwed, Quiet

\* When the engine is quiet and every definition is usable, all work is over.
THEOREM AllWorkEnds == Spec => []NothingStranded
  <1>1. TypeOK /\ NoWaitCycle /\ ReconcileOwed /\ PassOwed => NothingStranded
    BY SomeoneGoesOn DEF NothingStranded
  <1> QED
    BY <1>1, TypeCorrect, NoCircularWait, ReconcileIsOwed, PassIsOwed, PTL

-----------------------------------------------------------------------------
(* The engine keeps the promise of StructuredTasks.                        *)

\* A decided outcome is not decided again, if fault_idle is only called for
\* tasks without one.
LEMMA HeldOutcomeKept ==
    ASSUME TypeOK, [Next]_vars, "completing" \notin FaultTargets,
           NEW t \in TaskId, task[t].status = "completing"
    PROVE  task'[t].outcome = task[t].outcome
  <1>1. /\ RecordsOK /\ OwnersOK /\ RecordsStep /\ task[t] \in TaskRecord
        /\ task \in [TaskId -> TaskRecord] /\ t <= minted
    BY TypeParts, NextRecords, Minted DEF RecordsOK
  <1>2. {"request", "restart"} \subseteq AbortMark /\ "terminal" \in TaskStatus
    BY DEF AbortMark, TaskStatus
  <1>3. CASE Host
    <2>1. ASSUME NEW k \in HostTasks, HostCreate(k) PROVE task'[t] = task[t]
      BY <1>1, <2>1, TaskIdFacts DEF HostCreate
    <2>2. ASSUME NEW u \in TaskId, NEW keep, Abort(u, keep)
          PROVE  task'[t].outcome = task[t].outcome
      <3>1. \/ task' = [task EXCEPT ![u] = Ended(task, u, "orphaned")] /\ u # t
            \/ task' = [task EXCEPT ![u] = WithMark(task[u], "request")]
        BY <2>2 DEF Abort
      <3> QED
        BY <1>1, <1>2, <3>1, WithMarkFields
    <2>3. ASSUME NEW c \in Conversation, NEW b \in BOOLEAN, AbortConversation(c, b)
          PROVE  task'[t].outcome = task[t].outcome
      BY <1>1, <1>2, <2>3, WithMarkFields DEF AbortConversation
    <2>4. ASSUME NEW u \in TaskId, FaultIdle(u) PROVE task'[t] = task[t]
      <3>1. u # t
        BY <2>4 DEF FaultIdle
      <3> QED
        BY <1>1, <2>4, <3>1 DEF FaultIdle
    <2> QED
      BY <1>3, <2>1, <2>2, <2>3, <2>4, AbortAssumption
      DEF Host, CreateConversation, RegistryChange, durable
  <1>4. CASE Handler
    <2>1. PICK u \in TaskId, creates \in HandlerCreates, next \in HandlerNext :
            Gate(u) /\ HandlerCommit(u, creates, next)
      BY <1>4 DEF Handler
    <2> DEFINE T == WithNew(u, creates)
    <2>2. /\ T \in [TaskId -> TaskRecord]
          /\ \A v \in TaskId : (creates.kind = "nothing" \/ v # minted + 1) => T[v] = task[v]
          /\ task[u].status = "running" /\ T[u] = task[u]
      BY <1>1, <2>1, NewRecords
    <2>3. task' = WithNext(T, u, next) /\ Consistent(T[u])
      BY <1>1, <2>1, <2>2 DEF HandlerCommit, RecordsOK
    <2> HIDE DEF T
    <2>4. \A v \in TaskId : v # u => task'[v] = T[v]
      BY <2>1, <2>2, <2>3, NextRewrite
    <2>5. t # minted + 1 /\ t # u
      BY <1>1, <2>2, TaskIdFacts
    <2> QED
      BY <2>2, <2>4, <2>5
  <1>5. CASE Scheduler
    <2>1. ASSUME NEW u \in TaskId, Step(u) PROVE task'[t] = task[t]
      BY <1>1, <2>1
      DEF Step, StepStop, StepCascade, StepContinue, StepHandover, StepFault, AbortStep,
          MayRunOn, durable
    <2>2. CASE MarkAbandoned
      BY <1>1, <1>2, <2>2, WithMarkFields DEF MarkAbandoned
    <2>3. CASE Reserve
      BY <1>1, <2>3 DEF Reserve, ReserveWith, Reached, Blocked, Candidate
    <2>4. CASE Reconcile
      <3>1. \/ task'[t] = WithStatus(WithMark(task[t], MarkFor(t)), "terminal")
            \/ task'[t] = WithMark(task[t], MarkFor(t))
        BY <2>4 DEF Reconcile, Reconciled
      <3>2. /\ WithMark(task[t], MarkFor(t)) \in TaskRecord
            /\ WithMark(task[t], MarkFor(t)).outcome = task[t].outcome
        BY <1>1, MarkForMonotone, WithMarkFields
      <3> QED
        BY <1>2, <3>1, <3>2, WithStatusFields
    <2> QED
      BY <1>5, <2>1, <2>2, <2>3, <2>4 DEF Scheduler
  <1>6. CASE Session
    BY <1>1, <1>6 DEF Session, Shutdown, Reopen, Resume, durable
  <1>7. CASE UNCHANGED vars
    BY <1>7 DEF vars, durable
  <1> QED
    BY <1>3, <1>4, <1>5, <1>6, <1>7 DEF Next

\* The phases a caller sees, by status.
LEMMA PhaseFacts ==
    ASSUME NEW t \in TaskId, RecordsOK
    PROVE  /\ PhaseOf(t) \in {"unborn", "active", "held", "done"}
           /\ PhaseOf(t) = "unborn" <=> task[t].status = "absent"
           /\ PhaseOf(t) = "active" <=> task[t].status \in {"pending", "running", "waiting"}
           /\ PhaseOf(t) = "held" <=> task[t].status = "completing"
           /\ PhaseOf(t) = "done" <=> task[t].status = "terminal"
  BY DEF RecordsOK, TaskRecord, TaskStatus, PhaseOf

\* Every step of the engine is a step the promise allows.
LEMMA StepIsPromised ==
    ASSUME TypeOK, Forest, TypeOK', Forest', [Next]_vars, "completing" \notin FaultTargets
    PROVE  Promise!Step
  <1>1. RecordsOK /\ RecordsStep /\ RecordsOK'
    BY TypeParts, NextRecords DEF TypeOK, RecordsOK
  <1>2. \A t \in TaskId :
           /\ PhaseOf(t)' \in {"unborn", "active", "held", "done"}
           /\ PhaseOf(t)' = "unborn" <=> task'[t].status = "absent"
           /\ PhaseOf(t)' = "active" <=> task'[t].status \in {"pending", "running", "waiting"}
           /\ PhaseOf(t)' = "held" <=> task'[t].status = "completing"
           /\ PhaseOf(t)' = "done" <=> task'[t].status = "terminal"
    BY <1>1 DEF RecordsOK, TaskRecord, TaskStatus, PhaseOf
  <1>3. ASSUME NEW t \in TaskId
        PROVE  /\ task[t].owner \in TaskId \cup {None} /\ task'[t].owner \in TaskId \cup {None}
               /\ task'[t].outcome \in TaskOutcome \cup {"none"}
    BY <1>1 DEF RecordsOK, TaskRecord, OwnerId
  <1>4. {t \in TaskId : task[t].mark # "none"} \subseteq {t \in TaskId : task'[t].mark # "none"}
    <2> SUFFICES ASSUME NEW t \in TaskId, task[t].mark # "none" PROVE task'[t].mark # "none"
      OBVIOUS
    <2>1. t <= minted
      BY <1>1, TaskIdFacts DEF RecordsOK, Consistent, Absent
    <2> QED
      BY <2>1, MarkedStays
  <1>5. ASSUME NEW t \in TaskId, t <= minted
        PROVE  /\ task[t].status # "absent" /\ task'[t].owner = task[t].owner
               /\ task[t] = task'[t] \/ LegalTransition(task[t].status, task'[t].status)
               /\ task[t].status = "terminal" => task'[t] = task[t]
    BY <1>1, <1>5, MaxTasksAssumption
    DEF RecordsOK, RecordsStep, Rewrite, SameIdentity, CheckReplacement, LegalTransition, TaskId
  <1>6. ASSUME NEW t \in TaskId, t > minted
        PROVE  /\ task[t].status = "absent"
               /\ \/ task'[t].status = "absent"
                  \/ /\ t = minted + 1 /\ minted' = minted + 1
                     /\ task'[t].status = "pending"
    BY <1>1, <1>6, MaxTasksAssumption DEF RecordsOK, RecordsStep, Fresh, TaskId
  <1>7. \A t \in TaskId : t <= minted \/ t > minted
    BY <1>1, TaskIdFacts
  <1>8. ASSUME NEW t \in TaskId
        PROVE  \/ PhaseOf(t)' = PhaseOf(t)
               \/ PhaseOf(t) = "unborn" /\ PhaseOf(t)' = "active"
               \/ PhaseOf(t) = "active" /\ PhaseOf(t)' \in {"held", "done"}
               \/ PhaseOf(t) = "held" /\ PhaseOf(t)' = "done"
    BY <1>1, <1>2, <1>5, <1>6, <1>7, PhaseFacts DEF LegalTransition
  <1>9. ASSUME NEW t \in TaskId, PhaseOf(t) = "unborn", PhaseOf(t)' = "active",
               NEW o \in TaskId, task'[t].owner = o
        PROVE  PhaseOf(o)' = "active" /\ task'[o].mark = "none"
    <2>1. t = minted + 1 /\ minted' = minted + 1
      BY <1>1, <1>2, <1>5, <1>6, <1>7, <1>9, PhaseFacts
    <2>2. CanOwn(task', o)
      BY <1>1, <1>9, <2>1, Births, TaskIdFacts
    <2> QED
      BY <1>2, <2>2 DEF CanOwn
  <1>10. ASSUME NEW t \in TaskId, PhaseOf(t) # "done", PhaseOf(t)' = "done",
                NEW u \in TaskId, task'[u].owner = t
         PROVE  PhaseOf(u)' \notin {"active", "held"}
    <2>1. OwnedLive(task', t) = {}
      BY <1>1, <1>2, <1>10, PhaseFacts, TerminalOverNothing
    <2>2. t \in task'[u].above /\ ~task'[u].background
      BY <1>1, <1>10, TaskIdFacts DEF Forest
    <2> QED
      BY <1>2, <2>1, <2>2 DEF OwnedLive, Live
  <1>11. ASSUME NEW t \in TaskId
         PROVE  /\ PhaseOf(t) # "unborn" => task'[t].owner = task[t].owner
                /\ PhaseOf(t) \in {"held", "done"} => task'[t].outcome = task[t].outcome
                /\ PhaseOf(t)' \in {"held", "done"} <=> task'[t].outcome # "none"
    <2>1. task'[t].outcome = "none" <=> task'[t].status \notin {"completing", "terminal"}
      BY <1>1 DEF RecordsOK, Consistent
    <2> QED
      BY <1>1, <1>2, <1>5, <1>6, <1>7, <2>1, PhaseFacts, HeldOutcomeKept
  <1>12. /\ [t \in TaskId |-> PhaseOf(t)]' \in [TaskId -> Promise!Phase]
         /\ [t \in TaskId |-> task[t].owner]' \in [TaskId -> TaskId \cup {None}]
         /\ [t \in TaskId |-> task[t].outcome]'
               \in [TaskId -> TaskOutcome \cup {Promise!Undecided}]
    BY <1>2, <1>3 DEF Promise!Phase, Promise!Undecided
  <1>13. ASSUME NEW t \in TaskId
         PROVE  Promise!Forward(t) /\ Promise!KeepsItsOwner(t) /\ Promise!DecidesOnce(t)
    BY <1>8, <1>11
    DEF Promise!Forward, Promise!KeepsItsOwner, Promise!DecidesOnce, Promise!Undecided
  <1>14. ASSUME NEW t \in TaskId PROVE Promise!StartsUnderActiveOwner(t)
    BY <1>3, <1>9 DEF Promise!StartsUnderActiveOwner
  <1>15. ASSUME NEW t \in TaskId PROVE Promise!EndsLast(t)
    BY <1>10 DEF Promise!EndsLast, Promise!Alive
  <1> QED
    BY <1>4, <1>12, <1>13, <1>14, <1>15 DEF Promise!Step

\* The engine implements StructuredTasks: seen from above, tasks start under active
\* owners, end over nothing, decide once and keep their cancellation.  The callers
\* of fault_idle pass no task that has its outcome.
THEOREM EngineKeepsPromise == "completing" \notin FaultTargets => (Spec => KeepsPromise)
  <1> SUFFICES ASSUME "completing" \notin FaultTargets PROVE Spec => KeepsPromise
    OBVIOUS
  <1>1. Init => Promise!Init
    BY DEF Init, Promise!Init, Promise!Undecided, PhaseOf, Absent
  <1>2. Grown /\ Grown' /\ [Next]_vars => [Promise!Step]_(Promise!vars)
    BY StepIsPromised DEF Grown
  <1> QED
    BY <1>1, <1>2, ForestCorrect, PTL DEF Spec, KeepsPromise, Promise!Spec
=============================================================================
