-------------------------------- MODULE Cron --------------------------------
(***************************************************************************)
(* Scheduled jobs: the scheduler (komo-runtime/src/scheduler/cron.rs), the *)
(* target it hands a firing to and its recovery                            *)
(* (komo-gateway/src/service/durable/cron.rs), the watchers that write the *)
(* outcome back (service/durable/cron_watch.rs, service/cron_watch.rs) and *)
(* the operations of the HTTP interface (http/cron.rs).                    *)
(*                                                                         *)
(* Jobs and firings are rows of one database, sessions and submissions of  *)
(* another: nothing joins a slot's firing, its session, its run and the    *)
(* job's next slot but the order in which they are written, and the        *)
(* process may stop, and any operation fail, between any two of them.  One *)
(* job is modelled; jobs share nothing but the scan.  Manual runs leave no *)
(* firing and are left out, and so are changes of a job's definition.      *)
(***************************************************************************)
EXTENDS Integers, FiniteSets

CONSTANTS
    Jobs,        \* the definitions the job may have
    NSlots,      \* planned times until the end of the model
    MaxCrashes,  \* bound on the restarts of the process
    MaxFailures, \* bound on the operations on either database that fail
    MaxEdits     \* bound on pausing and removing the job

\* A job runs a command or a prompt, once or again and again, may be started
\* while the run before is not over, and has its results told or not.
Definition ==
    [command : BOOLEAN, once : BOOLEAN, overlap : {"skip", "allow"},
     notify : {"always", "on_error", "never"}]

ASSUME JobsAssumption == Jobs \subseteq Definition
ASSUME BoundsAssumption ==
    /\ NSlots \in Nat \ {0}
    /\ MaxCrashes \in Nat /\ MaxFailures \in Nat /\ MaxEdits \in Nat

Slot == 1 .. NSlots

VARIABLES
    job,       \* the job's definition
    row,       \* its row: status and next slot, 0 when there is none
    firing,    \* the firings, by slot
    session,   \* what durable.db has of a slot: nothing, a session without an
               \* input, an input that is not settled, what came of it
    executed,  \* executions of a slot's command
    notice,    \* the slot's result has a row in the outbox
    now,       \* planned times that have come
    proc,      \* the task that recovers and then scans
    todo,      \* firings it still has to recover
    watch,     \* watchers, by slot: they wait, or have a result to tell
    request,   \* what an operator's request is about to write to the row
    crashes, failures, edits

vars == <<job, row, firing, session, executed, notice, now, proc, todo, watch,
          request, crashes, failures, edits>>
outside == <<job, request, crashes, failures, edits>>

None == [status |-> "none"]
Firing(status, known, run) == [status |-> status, session |-> known, run |-> run]

\* What came of a run: something to say, nothing to say (NO_REPLY, no output of a
\* command), or it failed, was cancelled, or left another exit code than 0.
Settled == {"answered", "silent", "failed"}

Fails == failures < MaxFailures /\ failures' = failures + 1 /\ UNCHANGED <<crashes, edits>>

\* The task works on one slot: for a scan it holds the time when the scan began.
Idle == [step |-> "idle"]
Scan(step, p) == [p EXCEPT !.step = step]

\* The type invariant.
TypeOK ==
    /\ job \in Jobs
    /\ row \in [status : {"active", "paused", "done", "removed"}, next : 0 .. NSlots + 1]
    /\ firing \in [Slot -> {None} \cup
            [status : {"queued", "ok", "error", "skipped"},
             session : BOOLEAN, run : BOOLEAN]]
    /\ session \in [Slot -> {"none", "open", "queued"} \cup Settled]
    /\ executed \in [Slot -> Nat]
    /\ notice \in [Slot -> BOOLEAN]
    /\ now \in 0 .. NSlots
    /\ proc = Idle \/ proc = [step |-> "boot"] \/ proc \in
            [step : {"decide", "skip", "claim", "fire", "command", "land", "record",
                     "error", "advance", "watch"},
             by : {"scan", "recovery"}, slot : Slot, at : 0 .. NSlots, fired : BOOLEAN]
    /\ todo \subseteq Slot
    /\ watch \in [Slot -> {"off", "wait", "tell"}]
    /\ request = None \/ request \in
            [status : {"active", "paused"}, next : 0 .. NSlots + 1]
    /\ crashes \in 0 .. MaxCrashes
    /\ failures \in 0 .. MaxFailures
    /\ edits \in 0 .. MaxEdits

Init ==
    /\ job \in Jobs
    /\ row = [status |-> "active", next |-> 1]
    /\ firing = [s \in Slot |-> None]
    /\ session = [s \in Slot |-> "none"]
    /\ executed = [s \in Slot |-> 0]
    /\ notice = [s \in Slot |-> FALSE]
    /\ now = 0
    /\ proc = [step |-> "boot"]
    /\ todo = {}
    /\ watch = [s \in Slot |-> "off"]
    /\ request = None
    /\ crashes = 0 /\ failures = 0 /\ edits = 0

-----------------------------------------------------------------------------
(* The scan.                                                               *)

\* The next planned time comes.
Clock ==
    /\ now < NSlots
    /\ now' = now + 1
    /\ UNCHANGED <<row, firing, session, executed, notice, proc, todo, watch, outside>>

Due ==
    /\ proc = Idle
    /\ row.status = "active" /\ row.next # 0 /\ row.next <= now
    /\ proc' = [step |-> "decide", by |-> "scan", slot |-> row.next, at |-> now,
                fired |-> FALSE]
    /\ UNCHANGED <<row, firing, session, executed, notice, now, todo, watch, outside>>

\* More than the job's own interval has passed since the slot.  A job that runs
\* once is never too late.
MayBeTooLate(p) == ~job.once /\ p.slot < p.at
MayBeInTime(p) == job.once \/ p.at <= p.slot + 1

\* A firing is not over: it waits for its outcome, and its input, if it has one
\* by now, is not settled.
Unfinished ==
    \E s \in Slot :
        /\ firing[s].status = "queued"
        /\ firing[s].run => session[s] \notin Settled

\* Too late, or still running: skip; otherwise claim the slot.
Overlaps == job.overlap = "skip" /\ Unfinished

Decide ==
    /\ proc.step = "decide"
    /\ \/ MayBeTooLate(proc) /\ proc' = Scan("skip", proc)
       \/ MayBeInTime(proc) /\ proc' = Scan(IF Overlaps THEN "skip" ELSE "claim", proc)
    /\ UNCHANGED <<row, firing, session, executed, notice, now, todo, watch, outside>>

\* The submission of a run that may be over cannot be read: it counts as not over.
Misread ==
    /\ proc.step = "decide" /\ MayBeInTime(proc)
    /\ job.overlap = "skip" /\ \E s \in Slot : firing[s].status = "queued" /\ firing[s].run
    /\ Fails
    /\ proc' = Scan("skip", proc)
    /\ UNCHANGED <<job, row, firing, session, executed, notice, now, todo, watch, request>>

\* Mutant of Skip: the reason is only logged.
SkipUnrecorded ==
    /\ proc.step = "skip"
    /\ proc' = Scan("advance", proc)
    /\ UNCHANGED <<row, firing, session, executed, notice, now, todo, watch, outside>>

\* The slot is recorded as skipped, in place of what may be on record.
Skip ==
    /\ proc.step = "skip"
    /\ firing' = [firing EXCEPT ![proc.slot] = Firing("skipped", FALSE, FALSE)]
    /\ proc' = Scan("advance", proc)
    /\ UNCHANGED <<row, session, executed, notice, now, todo, watch, outside>>

\* The firing is claimed with the ID its session will have; a slot that has a
\* firing is left alone.
Claim ==
    /\ proc.step = "claim"
    /\ IF firing[proc.slot] = None
       THEN /\ firing' = [firing EXCEPT ![proc.slot] = Firing("queued", TRUE, FALSE)]
            /\ proc' = Scan("fire", proc)
       ELSE UNCHANGED firing /\ proc' = Scan("advance", proc)
    /\ UNCHANGED <<row, session, executed, notice, now, todo, watch, outside>>

-----------------------------------------------------------------------------
(* The target, for the scan and for the recovery.                          *)

\* Mutant of Existing: a session without an input gets its command.
ExistingAgain ==
    /\ proc.step = "fire"
    /\ session[proc.slot] # "none"
    /\ proc' = Scan(IF session[proc.slot] = "open" THEN "command" ELSE "record", proc)
    /\ UNCHANGED <<row, firing, session, executed, notice, now, todo, watch, outside>>

\* The session is there: its run is what was asked for, if it has one.
Existing ==
    /\ proc.step = "fire"
    /\ session[proc.slot] # "none"
    /\ proc' = Scan(IF session[proc.slot] = "open" THEN "error" ELSE "record", proc)
    /\ UNCHANGED <<row, firing, session, executed, notice, now, todo, watch, outside>>

\* A prompt: session and input in one commit.
FirePrompt ==
    /\ proc.step = "fire" /\ ~job.command
    /\ session[proc.slot] = "none"
    /\ session' = [session EXCEPT ![proc.slot] = "queued"]
    /\ proc' = Scan("record", proc)
    /\ UNCHANGED <<row, firing, executed, notice, now, todo, watch, outside>>

\* A command: the session, then the command, then the entry with its result.
OpenSession ==
    /\ proc.step = "fire" /\ job.command
    /\ session[proc.slot] = "none"
    /\ session' = [session EXCEPT ![proc.slot] = "open"]
    /\ proc' = Scan("command", proc)
    /\ UNCHANGED <<row, firing, executed, notice, now, todo, watch, outside>>

RunCommand ==
    /\ proc.step = "command"
    /\ executed' = [executed EXCEPT ![proc.slot] = @ + 1]
    /\ proc' = Scan("land", proc)
    /\ UNCHANGED <<row, firing, session, notice, now, todo, watch, outside>>

LandCommand ==
    /\ proc.step = "land"
    /\ \E outcome \in Settled : session' = [session EXCEPT ![proc.slot] = outcome]
    /\ proc' = Scan("record", proc)
    /\ UNCHANGED <<row, firing, executed, notice, now, todo, watch, outside>>

\* The target reports an error of its own.  Its commit may have reached the
\* database all the same, when nobody knows how it ended.
FireFails ==
    /\ proc.step \in {"fire", "command", "land"}
    /\ Fails
    /\ \/ UNCHANGED session
       \/ /\ proc.step = "fire" /\ session[proc.slot] = "none"
          /\ session' = [session EXCEPT ![proc.slot] = IF job.command THEN "open" ELSE "queued"]
       \/ /\ proc.step = "land"
          /\ \E outcome \in Settled : session' = [session EXCEPT ![proc.slot] = outcome]
    /\ proc' = Scan("error", proc)
    /\ UNCHANGED <<job, row, firing, executed, notice, now, todo, watch, request>>

-----------------------------------------------------------------------------
(* What became of it.                                                      *)

Attach(s) == watch' = [watch EXCEPT ![s] = IF @ = "off" THEN "wait" ELSE @]

\* The run is written to the firing.  The recovery also attaches the watcher.
Record ==
    /\ proc.step = "record"
    /\ firing' = [firing EXCEPT ![proc.slot] = Firing("queued", TRUE, TRUE)]
    /\ IF proc.by = "scan"
       THEN proc' = [proc EXCEPT !.step = "advance", !.fired = TRUE] /\ UNCHANGED watch
       ELSE proc' = Idle /\ Attach(proc.slot)
    /\ UNCHANGED <<row, session, executed, notice, now, todo, outside>>

RecordError ==
    /\ proc.step = "error"
    /\ firing' = [firing EXCEPT ![proc.slot] = Firing("error", TRUE, FALSE)]
    /\ proc' = IF proc.by = "scan" THEN Scan("advance", proc) ELSE Idle
    /\ UNCHANGED <<row, session, executed, notice, now, todo, watch, outside>>

\* The recovery does not look whether its writes succeed: a run is watched all
\* the same, an error is forgotten.
RecordFails ==
    /\ proc.step \in {"record", "error"} /\ proc.by = "recovery"
    /\ Fails
    /\ proc' = Idle
    /\ IF proc.step = "record" THEN Attach(proc.slot) ELSE UNCHANGED watch
    /\ UNCHANGED <<job, row, firing, session, executed, notice, now, todo, request>>

\* The job moves on to the first slot after the time of the scan; its status is
\* written as the scan has seen it, and it was active then.
Advance ==
    /\ proc.step = "advance"
    /\ row' = IF row.status = "removed" THEN row
              ELSE IF job.once THEN [status |-> "done", next |-> 0]
              ELSE [status |-> "active", next |-> proc.at + 1]
    /\ proc' = IF proc.fired /\ row.status # "removed" THEN Scan("watch", proc) ELSE Idle
    /\ UNCHANGED <<firing, session, executed, notice, now, todo, watch, outside>>

\* At the end of the scan the run gets its watcher, if the job is still there.
WatchFired ==
    /\ proc.step = "watch"
    /\ proc' = Idle
    /\ IF row.status # "removed" THEN Attach(proc.slot) ELSE UNCHANGED watch
    /\ UNCHANGED <<row, firing, session, executed, notice, now, todo, outside>>

\* An operation fails: the scan is given up where it is; a job that cannot be
\* read is taken for one that is gone.
ScanFails ==
    /\ proc.step \in {"decide", "skip", "claim", "record", "error", "advance", "watch"}
    /\ proc.by = "scan"
    /\ Fails
    /\ proc' = Idle
    /\ UNCHANGED <<job, row, firing, session, executed, notice, now, todo, watch, request>>

-----------------------------------------------------------------------------
(* Runs and watchers.                                                      *)

\* The harness settles the input.
Settle(s) ==
    /\ session[s] = "queued"
    /\ \E outcome \in Settled : session' = [session EXCEPT ![s] = outcome]
    /\ UNCHANGED <<row, firing, executed, notice, now, proc, todo, watch, outside>>

\* What the operator wants to hear of: a run that has nothing to say is silent.
Tells(outcome) ==
    \/ outcome = "answered" /\ job.notify = "always"
    \/ outcome = "failed" /\ job.notify # "never"

\* A watcher has written what it has seen, or could not, and ends or tells it.
WatchedTo(s, outcome) ==
    watch' = [watch EXCEPT ![s] = IF Tells(outcome) THEN "tell" ELSE "off"]

\* The outcome is written to the firing, whatever the firing says by now.
Concluded(s, outcome) ==
    firing' = IF row.status = "removed" \/ firing[s] = None THEN firing
              ELSE [firing EXCEPT ![s].status = IF outcome = "failed" THEN "error" ELSE "ok"]

\* Mutant of Conclude: the watcher does not wait.
ConcludeAtOnce(s) ==
    /\ watch[s] = "wait"
    /\ Concluded(s, "answered") /\ WatchedTo(s, "answered")
    /\ UNCHANGED <<row, session, executed, notice, now, proc, todo, outside>>

\* The watcher sees what came of the input.
Conclude(s) ==
    /\ watch[s] = "wait" /\ session[s] \in Settled
    /\ Concluded(s, session[s]) /\ WatchedTo(s, session[s])
    /\ UNCHANGED <<row, session, executed, notice, now, proc, todo, outside>>

\* Its reads or its write fail: a submission it cannot read it gives up, a result
\* it cannot read is a failure, a status it cannot write it only logs.
ConcludeFails(s) ==
    /\ watch[s] = "wait" /\ Fails
    /\ \/ watch' = [watch EXCEPT ![s] = "off"] /\ UNCHANGED firing
       \/ session[s] \in Settled /\ Concluded(s, "failed") /\ WatchedTo(s, "failed")
       \/ session[s] \in Settled /\ UNCHANGED firing /\ WatchedTo(s, session[s])
    /\ UNCHANGED <<job, row, session, executed, notice, now, proc, todo, request>>

\* Then the result goes to the outbox.
Notify(s) ==
    /\ watch[s] = "tell"
    /\ notice' = [notice EXCEPT ![s] = TRUE]
    /\ watch' = [watch EXCEPT ![s] = "off"]
    /\ UNCHANGED <<row, firing, session, executed, now, proc, todo, outside>>

NotifyFails(s) ==
    /\ watch[s] = "tell" /\ Fails
    /\ watch' = [watch EXCEPT ![s] = "off"]
    /\ UNCHANGED <<job, row, firing, session, executed, notice, now, proc, todo, request>>

-----------------------------------------------------------------------------
(* Restarts.                                                               *)

Crash ==
    /\ crashes < MaxCrashes
    /\ crashes' = crashes + 1
    /\ proc' = [step |-> "boot"]
    /\ todo' = {}
    /\ watch' = [s \in Slot |-> "off"]
    /\ request' = None
    /\ UNCHANGED <<job, row, firing, session, executed, notice, now, failures, edits>>

\* Mutant of Boot: only firings with a run are gone through.
BootRuns ==
    /\ proc.step = "boot"
    /\ todo' = {s \in Slot : row.status # "removed" /\ firing[s].status = "queued"
                            /\ firing[s].run}
    /\ proc' = Idle
    /\ UNCHANGED <<row, firing, session, executed, notice, now, watch, outside>>

\* Before the first scan the firings without an outcome are gone through, if the
\* job is still there.
Boot ==
    /\ proc.step = "boot"
    /\ todo' = {s \in Slot : row.status # "removed" /\ firing[s].status = "queued"}
    /\ proc' = Idle
    /\ UNCHANGED <<row, firing, session, executed, notice, now, watch, outside>>

\* They cannot be read: there is no recovery before the next start.
BootFails ==
    /\ proc.step = "boot" /\ Fails
    /\ proc' = Idle
    /\ UNCHANGED <<job, row, firing, session, executed, notice, now, todo, watch, request>>

\* One with a run gets a watcher; one without is fired again with the session
\* ID it was claimed with.
Recover(s) ==
    /\ proc = Idle
    /\ s \in todo /\ \A t \in todo : t <= s
    /\ todo' = todo \ {s}
    /\ IF firing[s].run
       THEN Attach(s) /\ UNCHANGED proc
       ELSE /\ proc' = [step |-> "fire", by |-> "recovery", slot |-> s, at |-> 0,
                        fired |-> FALSE]
            /\ UNCHANGED watch
    /\ UNCHANGED <<row, firing, session, executed, notice, now, outside>>

-----------------------------------------------------------------------------
(* The operator, through the HTTP interface: the row is read, and written   *)
(* as it was read but for what was asked.                                  *)

Ask(status, next) ==
    /\ request = None
    /\ request' = [status |-> status, next |-> next]
    /\ UNCHANGED <<job, row, firing, session, executed, notice, now, proc, todo, watch,
                   crashes, failures>>

Pause ==
    /\ row.status = "active" /\ Ask("paused", row.next)
    /\ edits < MaxEdits /\ edits' = edits + 1

\* The next slot is computed again; the only one of a job that runs once may have
\* passed.
Resume ==
    /\ row.status = "paused"
    /\ Ask("active", IF job.once /\ now > 0 THEN 0 ELSE now + 1)
    /\ UNCHANGED edits

Answer ==
    /\ request # None /\ request' = None
    /\ row' = IF row.status = "removed" THEN row ELSE request
    /\ UNCHANGED <<job, firing, session, executed, notice, now, proc, todo, watch,
                   crashes, failures, edits>>

Remove ==
    /\ row.status # "removed"
    /\ edits < MaxEdits /\ edits' = edits + 1
    /\ row' = [status |-> "removed", next |-> 0]
    /\ UNCHANGED <<job, firing, session, executed, notice, now, proc, todo, watch,
                   request, crashes, failures>>

-----------------------------------------------------------------------------
\* What the gateway's task does.
Work ==
    \/ todo = {} /\ Due
    \/ Decide \/ Skip \/ Claim
    \/ Existing \/ FirePrompt \/ OpenSession \/ RunCommand \/ LandCommand
    \/ Record \/ RecordError \/ Advance \/ WatchFired
    \/ Boot \/ \E s \in Slot : Recover(s)

Watcher(s) == Conclude(s) \/ Notify(s)

\* What may fail, and need not.
Failure ==
    \/ Misread \/ FireFails \/ RecordFails \/ ScanFails \/ BootFails
    \/ \E s \in Slot : ConcludeFails(s) \/ NotifyFails(s)

Next ==
    \/ Clock \/ Work \/ Failure \/ Crash
    \/ \E s \in Slot : Settle(s) \/ Watcher(s)
    \/ Pause \/ Resume \/ Answer \/ Remove

Spec == Init /\ [][Next]_vars

\* Time passes, the task goes on, runs come to an end, watchers are scheduled.
Fairness ==
    /\ WF_vars(Clock) /\ WF_vars(Work)
    /\ \A s \in Slot : WF_vars(Settle(s)) /\ WF_vars(Watcher(s))

FairSpec == Spec /\ Fairness

-----------------------------------------------------------------------------
(* Properties.                                                             *)

\* The command of a slot is executed at most once, however often the process
\* stops and whatever fails: what was begun is never begun again (cron.rs of the
\* gateway: commands are not replayed).
CommandOnce == \A s \in Slot : executed[s] <= 1

\* A firing's record is true: a run on record was accepted, a good outcome is
\* written after the run has ended well, a slot without a record never began, and
\* only results are told, of jobs that have them told.
RecordsAreTrue ==
    \A s \in Slot :
        /\ firing[s] = None => session[s] = "none" /\ executed[s] = 0
        /\ firing[s] # None =>
            /\ firing[s].run => session[s] \in {"queued"} \cup Settled
            /\ firing[s].status = "ok" => session[s] \in Settled \ {"failed"}
        /\ notice[s] => session[s] \in Settled /\ job.notify # "never"

\* The job waits for a slot that has come, and nobody has it in hand.
WaitsFor(s) ==
    /\ row = [status |-> "active", next |-> s] /\ s <= now
    /\ proc.step \in {"idle", "boot"} /\ request = None

\* A slot the job waits for is not lost, and does not hold the job up: whatever
\* stops or fails between the claim and the next slot, it is put on record, as
\* fired, skipped or failed, and the job waits for a later one, unless the
\* operator pauses it, or it is done.  (Slots that come before the job waits for
\* them pass without a record, see MissedSlotsPass.)
DueSlotsMoveOn ==
    \A s \in Slot :
        WaitsFor(s) ~> \/ row.status # "active"
                       \/ firing[s] # None /\ row.next > s

\* When a scan moves a job, the slot it has worked on is on record, and those it
\* passes besides had come by then: they were missed and are not made up for
\* (scheduler/cron.rs:12).  No slot is passed that is still to come.
MissedSlotsPass ==
    [][row' # row /\ proc' # proc =>
           /\ firing[proc.slot] # None
           /\ \A s \in Slot : proc.slot < s /\ s < row'.next => s <= now]_vars

\* What a process left without an outcome is concluded by the one that follows,
\* and its result is told if it is to be, unless a command was cut off.  Of the
\* process is asked that it goes on and that its operations succeed: a firing
\* whose recovery fails waits for the next start.  (The outcome may be covered by
\* a skip, see OneAtATime.)
LastBoot(s) ==
    /\ crashes = MaxCrashes /\ failures = MaxFailures
    /\ proc.step = "boot" /\ firing[s].status = "queued"

RecoveryConcludes ==
    \A s \in Slot :
        LastBoot(s) ~> \/ row.status = "removed"
                       \/ firing[s].status = "error" /\ session[s] = "open"
                       \/ /\ firing[s].status # "queued"
                          /\ session[s] \in Settled
                          /\ Tells(session[s]) => notice[s]

\* While a run of the job is not over the next one is not started
\* (docs/komo_bot.md:851).
OneAtATime ==
    job.overlap = "skip" =>
        Cardinality({s \in Slot : session[s] = "queued"}) <= 1
=============================================================================
