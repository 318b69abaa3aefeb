----------------------------- MODULE ToolCalls -----------------------------
(***************************************************************************)
(* The tool task of the harness (komo-runtime/src/durable/harness/tool.rs, *)
(* confirm.rs and nested.rs), the outputs it keeps on disk                 *)
(* (komo-store/src/tool_output.rs) and the operator's answers to its       *)
(* confirmation cards (komo-gateway/src/service/durable/confirms.rs).      *)
(*                                                                         *)
(* The calls of one round of a run (generation.rs) are created in groups:  *)
(* read-only neighbours together, any other call alone.                    *)
(*                                                                         *)
(* A call is an effect between two commits: the intent, and the result,    *)
(* whose body is on disk before the commit that refers to it.  The process *)
(* may die anywhere in between; a child process it started may outlive it. *)
(* What the engine promises (one invocation of a task at a time, a marked  *)
(* task only runs its abort handler, an unmarked one is resumed after a    *)
(* restart) is what TaskEngine shows.  Orchestration calls are in          *)
(* Conversations; the scripts of nested calls are in ScriptReplay.         *)
(***************************************************************************)
EXTENDS Integers, FiniteSets

CONSTANTS
    NCalls,      \* the calls of the round, in the order the model made them
    Rounds,      \* the rounds the model may ask for
    MaxCrashes   \* bound on the restarts of the process

\* What a call asks for.  `stored` is the replay class of its plan and `look`
\* what a later look at the tool set may find: tools of MCP servers come and
\* go, and a tool may change its mind about its replay class.
Shape ==
    [stored    : {"safe", "unsafe"},
     look      : SUBSET {"safe", "unsafe", "gone"},
     refusable : BOOLEAN,   \* the tool may be unknown or refuse to prepare
     nested    : BOOLEAN,   \* made by a script
     outward   : BOOLEAN,   \* an outward tool, in a run nobody attends
     spawns    : BOOLEAN,   \* runs in a child process
     lossy     : BOOLEAN,   \* a script needs more of the text than is published
     parallel  : BOOLEAN]   \* read-only: may run with its neighbours

Call == 1 .. NCalls

ASSUME RoundsAssumption == Rounds \subseteq [Call -> Shape]
ASSUME BoundsAssumption == NCalls \in Nat /\ MaxCrashes \in Nat

\* An attempt is begun by the intent, and another one by every safe rerun.
Attempt == 1 .. MaxCrashes + 1

\* The bodies of a result: not executed; the tool came to an end; the host
\* stopped it; a restart interrupted it; cancelled; cancelled, and the child of
\* the process before is said to be still running.
Body == {"unrun", "ended", "timeout", "interrupted", "aborted", "orphaned"}
Ending == {"completed", "failed", "aborted"}
Over == Ending \cup {"faulted"}

VARIABLES
    call,       \* what each call asks for
    phase,      \* the checkpoint of its task, or the outcome; "listed" before
    attempt,    \* the attempt of the checkpoint, 0 before the intent
    pid,        \* the live slot names the child of this attempt
    marked,     \* the abort mark of the task
    answer,     \* the komo.confirm document
    result,     \* the committed result
    output,     \* the output.json of every attempt
    effect,     \* how far the effect of every attempt has come
    child,      \* the child process of every attempt
    doing,      \* what the invocation of the task does next
    asked,      \* calls the gateway has found waiting for an answer
    stopping,   \* the run is cancelled
    crashes     \* restarts so far

durable == <<call, phase, attempt, pid, marked, answer, result, stopping>>
world == <<output, effect, child>>
vars == <<call, phase, attempt, pid, marked, answer, result, output, effect,
          child, doing, asked, stopping, crashes>>

Step == [step : {"idle", "run"}]
        \cup [step : {"publish", "commit"}, body : Body, ending : Ending]
Idle == [step |-> "idle"]
Run == [step |-> "run"]
Publish(body, ending) == [step |-> "publish", body |-> body, ending |-> ending]
Commit(body, ending) == [step |-> "commit", body |-> body, ending |-> ending]

\* The type invariant: tasks, documents, files and processes.
TypeOK ==
    /\ call \in Rounds
    /\ phase \in [Call -> {"listed", "call", "confirm", "execute", "probe"} \cup Over]
    /\ attempt \in [Call -> Attempt \cup {0}]
    /\ pid \in [Call -> BOOLEAN]
    /\ marked \in [Call -> BOOLEAN]
    /\ answer \in [Call -> {"none", "approve", "reject"}]
    /\ result \in [Call -> Body \cup {"none"}]
    /\ output \in [Call -> [Attempt -> Body \cup {"none"}]]
    /\ effect \in [Call -> [Attempt -> {"none", "started", "ended"}]]
    /\ child \in [Call -> [Attempt -> {"none", "alive", "gone"}]]
    /\ doing \in [Call -> Step]
    /\ asked \subseteq Call
    /\ stopping \in BOOLEAN
    /\ crashes \in 0 .. MaxCrashes

Init ==
    /\ call \in Rounds
    /\ phase = [c \in Call |-> "listed"]
    /\ attempt = [c \in Call |-> 0]
    /\ pid = [c \in Call |-> FALSE]
    /\ marked = [c \in Call |-> FALSE]
    /\ answer = [c \in Call |-> "none"]
    /\ result = [c \in Call |-> "none"]
    /\ output = [c \in Call |-> [a \in Attempt |-> "none"]]
    /\ effect = [c \in Call |-> [a \in Attempt |-> "none"]]
    /\ child = [c \in Call |-> [a \in Attempt |-> "none"]]
    /\ doing = [c \in Call |-> Idle]
    /\ asked = {}
    /\ stopping = FALSE
    /\ crashes = 0

-----------------------------------------------------------------------------
(* Helpers.                                                                *)

Live(c) == phase[c] \notin Over \cup {"listed"}

\* The invocation of an unmarked task may begin or go on with its phase.
Invoked(c) == Live(c) /\ ~marked[c] /\ doing[c] = Idle

\* The directory results are published to: a call without an intent uses that
\* of the first attempt.
Directory(c) == IF attempt[c] = 0 THEN 1 ELSE attempt[c]

Does(c, step) == doing' = [doing EXCEPT ![c] = step]

-----------------------------------------------------------------------------
(* The round.                                                              *)

Listed == {c \in Call : phase[c] = "listed"}

\* Mutant of Group: the calls left, all at once.
GroupOfAll == Listed

\* The next group: the first call left, and if it is read-only the read-only
\* calls that follow it.
Group ==
    {c \in Listed :
        \A d \in Listed : d < c => call[d].parallel /\ call[c].parallel}

\* The generation creates a group once the one before is over.
CreateGroup ==
    /\ ~stopping
    /\ Listed # {}
    /\ \A c \in Call : ~Live(c)
    /\ phase' = [c \in Call |-> IF c \in Group THEN "call" ELSE phase[c]]
    /\ UNCHANGED <<call, attempt, pid, marked, answer, result, stopping, world,
                   doing, asked, crashes>>

\* The generation's abort handler answers the calls that were never created.
AbortListed ==
    /\ stopping
    /\ Listed # {}
    /\ \A c \in Call : ~Live(c)
    /\ phase' = [c \in Call |-> IF c \in Listed THEN "aborted" ELSE phase[c]]
    /\ result' = [c \in Call |-> IF c \in Listed THEN "aborted" ELSE result[c]]
    /\ UNCHANGED <<call, attempt, pid, marked, answer, stopping, world, doing,
                   asked, crashes>>

-----------------------------------------------------------------------------
(* Before the intent.                                                      *)

\* A conclusion without an execution: the refusal is published and committed
\* like any other result.
SettleUnrun(c) ==
    /\ Does(c, Publish("unrun", "completed"))
    /\ UNCHANGED <<durable, world, asked, crashes>>

\* Refuse a call: no such tool, arguments it does not accept, or an outward
\* tool in a script nobody attends.
Refuse(c) ==
    /\ Invoked(c) /\ phase[c] = "call"
    /\ call[c].refusable \/ (call[c].outward /\ call[c].nested)
    /\ SettleUnrun(c)

\* An outward call in a run nobody attends waits for the operator.
Ask(c) ==
    /\ Invoked(c) /\ phase[c] = "call"
    /\ call[c].outward /\ ~call[c].nested
    /\ phase' = [phase EXCEPT ![c] = "confirm"]
    /\ UNCHANGED <<call, attempt, pid, marked, answer, result, world, doing,
                   asked, stopping, crashes>>

\* The intent: the slot runs and the checkpoint is `execute`, in one commit.
Begin(c) ==
    /\ phase' = [phase EXCEPT ![c] = "execute"]
    /\ attempt' = [attempt EXCEPT ![c] = 1]
    /\ pid' = [pid EXCEPT ![c] = FALSE]
    /\ Does(c, Run)
    /\ UNCHANGED <<call, marked, answer, result, world, asked, stopping, crashes>>

Accept(c) ==
    /\ Invoked(c) /\ phase[c] = "call"
    /\ ~call[c].outward
    /\ Begin(c)

\* Mutant of Approved: whoever has not said no has agreed.
ApprovedUnlessRejected(c) ==
    /\ Invoked(c) /\ phase[c] = "confirm"
    /\ answer[c] # "reject"
    /\ Begin(c)

\* The approved call is looked up again: its tool may be gone by now.
Approved(c) ==
    /\ Invoked(c) /\ phase[c] = "confirm"
    /\ answer[c] = "approve"
    /\ \/ Begin(c)
       \/ "gone" \in call[c].look /\ SettleUnrun(c)

\* Mutant of NotApproved: the wait has no deadline.
NotApprovedWithoutDeadline(c) ==
    /\ Invoked(c) /\ phase[c] = "confirm"
    /\ answer[c] = "reject"
    /\ SettleUnrun(c)

\* Rejected, or not answered by the deadline.
NotApproved(c) ==
    /\ Invoked(c) /\ phase[c] = "confirm"
    /\ answer[c] \in {"reject", "none"}
    /\ SettleUnrun(c)

\* The gateway finds the card of a waiting call and writes the answer later,
\* in a commit of its own that does not look at the task; the first answer
\* stays.
FindCard(c) ==
    /\ phase[c] = "confirm"
    /\ c \notin asked
    /\ asked' = asked \cup {c}
    /\ UNCHANGED <<durable, world, doing, crashes>>

AnswerConfirm(c, verdict) ==
    /\ c \in asked
    /\ asked' = asked \ {c}
    /\ answer' = [answer EXCEPT ![c] = IF @ = "none" THEN verdict ELSE @]
    /\ UNCHANGED <<call, phase, attempt, pid, marked, result, world, doing,
                   stopping, crashes>>

-----------------------------------------------------------------------------
(* The execution of an attempt.                                            *)

StartEffect(c) ==
    /\ doing[c] = Run
    /\ effect[c][attempt[c]] = "none"
    /\ effect' = [effect EXCEPT ![c][attempt[c]] = "started"]
    /\ child' = IF call[c].spawns
                THEN [child EXCEPT ![c][attempt[c]] = "alive"] ELSE child
    /\ UNCHANGED <<durable, output, doing, asked, crashes>>

\* The child's identity is written to the slot by a throttled progress commit,
\* some time after the child has started.
RecordChild(c) ==
    /\ doing[c] = Run /\ ~marked[c]
    /\ child[c][attempt[c]] = "alive" /\ ~pid[c]
    /\ pid' = [pid EXCEPT ![c] = TRUE]
    /\ UNCHANGED <<call, phase, attempt, marked, answer, result, world, doing,
                   asked, stopping, crashes>>

\* A child is reaped with the call, whether it ends, times out or is cancelled.
Reaped(c) ==
    [child EXCEPT ![c][attempt[c]] = IF @ = "alive" THEN "gone" ELSE @]

\* Mutant of EndEffect: the result is committed in front of its body.
EndEffectUnpublished(c) ==
    /\ doing[c] = Run
    /\ effect[c][attempt[c]] = "started"
    /\ effect' = [effect EXCEPT ![c][attempt[c]] = "ended"]
    /\ child' = Reaped(c)
    /\ Does(c, Commit("ended", "completed"))
    /\ UNCHANGED <<durable, output, asked, crashes>>

\* The tool returns, with a result or an error of its own.
EndEffect(c) ==
    /\ doing[c] = Run
    /\ effect[c][attempt[c]] = "started"
    /\ effect' = [effect EXCEPT ![c][attempt[c]] = "ended"]
    /\ child' = Reaped(c)
    /\ Does(c, Publish("ended", "completed"))
    /\ UNCHANGED <<durable, output, asked, crashes>>

\* The host stops the tool at the call's time limit.
TimeOut(c) ==
    /\ doing[c] = Run
    /\ effect[c][attempt[c]] = "started"
    /\ child' = Reaped(c)
    /\ Does(c, Publish("timeout", "completed"))
    /\ UNCHANGED <<durable, output, effect, asked, crashes>>

\* The body is synced and renamed to output.json, over an earlier one.
PublishOutput(c) ==
    /\ doing[c].step = "publish"
    /\ output' = [output EXCEPT ![c][Directory(c)] = doing[c].body]
    /\ Does(c, Commit(doing[c].body, doing[c].ending))
    /\ UNCHANGED <<durable, effect, child, asked, crashes>>

\* The result entry, or the member of komo.nested, and the task's outcome in
\* one commit; only the abort handler's is accepted once the task is marked.
CommitResult(c) ==
    /\ doing[c].step = "commit"
    /\ marked[c] => doing[c].ending = "aborted"
    /\ result' = [result EXCEPT ![c] = doing[c].body]
    /\ phase' = [phase EXCEPT ![c] = doing[c].ending]
    /\ Does(c, Idle)
    /\ UNCHANGED <<call, attempt, pid, marked, answer, world, asked, stopping, crashes>>

\* An error of the tool set or of the files ends the invocation; the scheduler
\* faults the task, which has no result.
Fault(c) ==
    /\ \/ Invoked(c)
       \/ doing[c] = Run /\ effect[c][attempt[c]] = "none" /\ ~marked[c]
       \/ doing[c].step = "publish" /\ (marked[c] => doing[c].ending = "aborted")
    /\ phase' = [phase EXCEPT ![c] = "faulted"]
    /\ Does(c, Idle)
    /\ UNCHANGED <<call, attempt, pid, marked, answer, result, world, asked,
                   stopping, crashes>>

-----------------------------------------------------------------------------
(* Cancellation.                                                           *)

StopRun ==
    /\ ~stopping
    /\ stopping' = TRUE
    /\ UNCHANGED <<call, phase, attempt, pid, marked, answer, result, world, doing,
                   asked, crashes>>

\* The mark of the run reaches the tasks below it.
Abort(c) ==
    /\ stopping /\ Live(c) /\ ~marked[c]
    /\ marked' = [marked EXCEPT ![c] = TRUE]
    /\ UNCHANGED <<call, phase, attempt, pid, answer, result, world, doing,
                   asked, stopping, crashes>>

\* Cancellation wins the race against the tool, its output cannot be written,
\* or the commit is refused: the invocation ends without a result.
Cancelled(c) ==
    /\ marked[c]
    /\ \/ doing[c] = Run /\ child' = Reaped(c)
       \/ /\ doing[c].step \in {"publish", "commit"} /\ doing[c].ending # "aborted"
          /\ child' = child
    /\ Does(c, Idle)
    /\ UNCHANGED <<durable, output, effect, asked, crashes>>

\* The abort handler writes the result of a cancelled call.  A task in `probe`
\* says that the child it watched is still running; a run that can no longer
\* reach its outputs has a result without a body on disk.
AbortHandler(c) ==
    /\ Live(c) /\ marked[c] /\ doing[c] = Idle
    /\ \/ Does(c, Publish(IF phase[c] = "probe" /\ child[c][attempt[c]] = "alive"
                          THEN "orphaned" ELSE "aborted", "aborted"))
       \/ "gone" \in call[c].look /\ Does(c, Commit("aborted", "aborted"))
    /\ UNCHANGED <<durable, world, asked, crashes>>

-----------------------------------------------------------------------------
(* Recovery.                                                               *)

\* A body that stands for the whole of what the call returned.
Reusable(c, body) == ~(call[c].nested /\ call[c].lossy /\ body = "ended")

Found(c) ==
    /\ output[c][attempt[c]] # "none"
    /\ Reusable(c, output[c][attempt[c]])

\* The output is on disk and only the commit is missing.
Reuse(c) ==
    /\ Found(c)
    /\ Does(c, Commit(output[c][attempt[c]], "completed"))
    /\ UNCHANGED <<durable, world, asked, crashes>>

\* Mutant of Rerun: the class the plan was stored with is not asked for.
RerunByToday(c) ==
    /\ ~Found(c)
    /\ "safe" \in call[c].look
    /\ phase' = [phase EXCEPT ![c] = "execute"]
    /\ attempt' = [attempt EXCEPT ![c] = @ + 1]
    /\ pid' = [pid EXCEPT ![c] = FALSE]
    /\ Does(c, Run)
    /\ UNCHANGED <<call, marked, answer, result, world, asked, stopping, crashes>>

\* The plan and the tool of today both say the call may be repeated.
Rerun(c) ==
    /\ ~Found(c)
    /\ call[c].stored = "safe" /\ "safe" \in call[c].look
    /\ phase' = [phase EXCEPT ![c] = "execute"]
    /\ attempt' = [attempt EXCEPT ![c] = @ + 1]
    /\ pid' = [pid EXCEPT ![c] = FALSE]
    /\ Does(c, Run)
    /\ UNCHANGED <<call, marked, answer, result, world, asked, stopping, crashes>>

\* One of them says no, or the tool is gone: nobody knows how far it came.
Interrupted(c) ==
    /\ ~Found(c)
    /\ call[c].stored = "unsafe" \/ call[c].look \cap {"unsafe", "gone"} # {}
    /\ Does(c, Publish("interrupted", "failed"))
    /\ UNCHANGED <<durable, world, asked, crashes>>

\* Mutant of Execute: the child the slot names is not asked for.
ExecuteUnwatched(c) ==
    /\ Invoked(c) /\ phase[c] = "execute"
    /\ Reuse(c) \/ Rerun(c) \/ Interrupted(c)

\* The `execute` phase, which only a restart enters.
Execute(c) ==
    /\ Invoked(c) /\ phase[c] = "execute"
    /\ \/ Reuse(c)
       \/ ~pid[c] /\ (Rerun(c) \/ Interrupted(c))

\* The slot names a child of this attempt: wait for it.
Watch(c) ==
    /\ Invoked(c) /\ phase[c] = "execute"
    /\ ~Found(c) /\ pid[c]
    /\ phase' = [phase EXCEPT ![c] = "probe"]
    /\ UNCHANGED <<call, attempt, pid, marked, answer, result, world, doing,
                   asked, stopping, crashes>>

\* The child is gone.  While it lives, or when nobody can tell, the task only
\* moves the time of its next look.
Probe(c) ==
    /\ Invoked(c) /\ phase[c] = "probe"
    /\ child[c][attempt[c]] # "alive"
    /\ Reuse(c) \/ Rerun(c) \/ Interrupted(c)

\* A child that outlived its process comes to an end by itself.
ChildExits(c, a) ==
    /\ child[c][a] = "alive"
    /\ ~(doing[c] = Run /\ a = attempt[c])
    /\ child' = [child EXCEPT ![c][a] = "gone"]
    /\ effect' = [effect EXCEPT ![c][a] = "ended"]
    /\ UNCHANGED <<durable, output, doing, asked, crashes>>

\* The process dies: invocations and requests are gone, children are not.
Crash ==
    /\ crashes < MaxCrashes
    /\ crashes' = crashes + 1
    /\ doing' = [c \in Call |-> Idle]
    /\ asked' = {}
    /\ UNCHANGED <<durable, world>>

-----------------------------------------------------------------------------
\* What the harness does for a call without anybody's doing.
Progress(c) ==
    \/ Refuse(c) \/ Ask(c) \/ Accept(c) \/ Approved(c) \/ NotApproved(c)
    \/ StartEffect(c) \/ RecordChild(c) \/ EndEffect(c) \/ TimeOut(c)
    \/ PublishOutput(c) \/ CommitResult(c)
    \/ Abort(c) \/ Cancelled(c) \/ AbortHandler(c)
    \/ Execute(c) \/ Watch(c) \/ Probe(c)
    \/ \E a \in Attempt : ChildExits(c, a)

Next ==
    \/ \E c \in Call :
        \/ Progress(c) \/ Fault(c) \/ FindCard(c)
        \/ \E verdict \in {"approve", "reject"} : AnswerConfirm(c, verdict)
    \/ CreateGroup \/ StopRun \/ AbortListed \/ Crash

Spec == Init /\ [][Next]_vars

\* Invocations go on, confirmations have a deadline, tools a time limit, and
\* the children of an earlier process come to an end.
Fairness ==
    /\ \A c \in Call : WF_vars(Progress(c))
    /\ WF_vars(CreateGroup \/ AbortListed)

FairSpec == Spec /\ Fairness

-----------------------------------------------------------------------------
(* Properties.                                                             *)

AtWork(c) ==
    \/ doing[c] = Run /\ effect[c][attempt[c]] = "started"
    \/ pid[c] /\ child[c][attempt[c]] = "alive" /\ phase[c] # "faulted"

Started(c) == {a \in Attempt : effect[c][a] # "none"}

\* Whatever the restarts, the effect of a call that the stored plan or the tool
\* of today calls unsafe is started at most once (tool.rs, the table of
\* `resolve`: only two times Safe runs again).
UnsafeOnce ==
    \A c \in Call :
        call[c].stored = "unsafe" \/ "safe" \notin call[c].look
            => Cardinality(Started(c)) <= 1

\* Outward calls of unattended runs have no effect without an approval, also
\* after restarts in the middle of the wait, and none in scripts
\* (docs/confirm.md).
ApprovedFirst ==
    \A c \in Call :
        call[c].outward /\ Started(c) # {}
            => answer[c] = "approve" /\ ~call[c].nested

\* A result says what happened: an ended call has ended, a stopped one has
\* started, an interrupted one had its intent committed; and the body on disk
\* that the committed result refers to says the same (later recoveries and
\* cancellations never write over it).
ResultHonest ==
    \A c \in Call :
        /\ result[c] = "ended" => effect[c][attempt[c]] = "ended"
        /\ result[c] = "timeout" => effect[c][attempt[c]] # "none"
        /\ result[c] = "interrupted" => attempt[c] > 0
        /\ result[c] # "none" =>
            \/ output[c][Directory(c)] = result[c]
            \/ result[c] = "aborted" /\ (attempt[c] = 0 \/ "gone" \in call[c].look)

\* No attempt begins while a child that the slot names for the attempt before
\* may still be at work (tool.rs, the `probe` phase).
RerunAfterChild ==
    [][\A c \in Call :
        attempt'[c] # attempt[c] /\ pid[c] => child[c][attempt[c]] # "alive"]_vars

\* Every call comes to an end, however it is cancelled, left unanswered or
\* interrupted.
CallsSettle == \A c \in Call : <>(phase[c] \in Over)

\* A call that is not read-only has the tools to itself: while its tool or a
\* child the slot names is at work no other call of the round is, also after
\* restarts (generation.rs, group_len); unless the scheduler faulted its task,
\* which gives the child up.
Barrier ==
    \A c, d \in Call :
        c # d /\ ~call[c].parallel /\ ~call[c].nested => ~(AtWork(c) /\ AtWork(d))

=============================================================================
