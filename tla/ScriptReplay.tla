---------------------------- MODULE ScriptReplay ----------------------------
(***************************************************************************)
(* A codemode call (komo-runtime/src/durable/harness/codemode.rs): a       *)
(* script runs in a worker, every tool call it makes is a nested tool task *)
(* of its own (nested.rs), and after a restart the script runs again from  *)
(* its first line.  What it was told the first time and what its calls     *)
(* returned is replayed from the memos and the komo.nested documents of    *)
(* the outer task; new calls are made only behind the records.             *)
(*                                                                         *)
(* The script is deterministic: what it does next depends on what it has   *)
(* been told so far, its history, line by line.  A call's arguments are    *)
(* that history.                                                           *)
(* The host talks to the worker as komo-runtime/src/codemode/mod.rs does.  *)
(* A nested call is what ToolCalls shows of it: executed once unless the   *)
(* call is safe, then a result, or one that says nobody knows.             *)
(***************************************************************************)
EXTENDS Integers, SequencesExt

CONSTANTS
    Program,     \* the script: "read" (clock or random), "call", "defer", "await"
    Values,      \* what a reading or a tool may return
    SafeCalls,   \* the calls that may be executed again, by their number
    Surfaces,    \* tool surfaces the Gateway may offer
    MaxCrashes   \* bound on the restarts

ASSUME ProgramAssumption == Program \in Seq({"read", "call", "defer", "await"})
ASSUME CrashesAssumption == MaxCrashes \in Nat

Unknown == "unknown"   \* an uncertain result
Error == "error"       \* what the script gets when the host is locked

ASSUME ValuesAssumption == Values \cap {Unknown, Error, "none"} = {}

\* What a line is told: one reading, or the replies of calls by their number.
Entry == [of : {"read", "call"},
          told : UNION {[K -> Values \cup {Unknown, Error}] : K \in SUBSET (1 .. Len(Program))}]
History == Seq(Entry)

VARIABLES
    start,      \* memo codemode.start: the surface of the first execution
    memos,      \* memos codemode.nondet.n: batches of readings
    docs,       \* komo.nested: arguments and result of every call
    nested,     \* the nested task of every document
    outcome,    \* the result of the outer call
    stopping,   \* the outer task is marked for abort
    surface,    \* what the Gateway offers now
    crashes,    \* restarts so far
    host        \* the execution of the script, lost in a restart

durable == <<start, memos, docs, nested, outcome>>
vars == <<start, memos, docs, nested, outcome, stopping, surface, crashes, host>>

\* An execution: the worker behind its `history`; the replay log, what was read
\* of it and what was read behind it; the records found at the start; the calls.
Off == [phase |-> "off"]
\* Mutant of Fresh: the batches on record are not counted.
FreshUncounted ==
    [phase |-> "script", history |-> <<>>, calls |-> <<>>,
     replay |-> FlattenSeq(memos), read |-> 0, pending |-> <<>>,
     batches |-> 0, recorded |-> Len(docs), fatal |-> "no"]
Fresh ==
    [phase |-> "script", history |-> <<>>, calls |-> <<>>,
     replay |-> FlattenSeq(memos), read |-> 0, pending |-> <<>>,
     batches |-> Len(memos), recorded |-> Len(docs), fatal |-> "no"]

Op == IF Len(host.history) < Len(Program) THEN Program[Len(host.history) + 1] ELSE "done"
Call == DOMAIN docs

\* A nested task that is not over; "lost" is one whose invocation the restart
\* ended behind the intent.
Live(i) == nested[i] \in {"call", "begun", "lost"}

CallState ==
    [args : History, deferred : BOOLEAN,
     at : {"reserved", "flushed", "admitted", "answered", "delivered"},
     reply : Values \cup {Unknown, Error, "none"}]
HostState ==
    [phase : {"script", "closing", "failing"}, history : History, calls : Seq(CallState),
     replay : Seq(Values), read : Nat, pending : Seq(Values), batches : Nat,
     recorded : Nat, fatal : {"no", "changed", "diverged", "unknown"}]

\* The type invariant.
TypeOK ==
    /\ start \in Surfaces \cup {"none"}
    /\ memos \in Seq(Seq(Values))
    /\ docs \in Seq([args : History, result : Values \cup {Unknown, "none"}])
    /\ nested \in [Call -> {"call", "begun", "lost", "over"}]
    /\ outcome \in {"none", "completed", "failed", "uncertain", "aborted"}
    /\ stopping \in BOOLEAN
    /\ surface \in Surfaces
    /\ crashes \in 0 .. MaxCrashes
    /\ host \in HostState \cup {Off}

Init ==
    /\ start = "none"
    /\ memos = <<>>
    /\ docs = <<>>
    /\ nested = <<>>
    /\ outcome = "none"
    /\ stopping = FALSE
    /\ surface \in Surfaces
    /\ crashes = 0
    /\ host = Off

-----------------------------------------------------------------------------
(* The worker's messages.                                                  *)

Running == host # Off /\ host.phase = "script" /\ ~stopping

\* Start or replay: the fingerprint memo is written by the first execution, and
\* another one with other tools makes nothing but the end.
Start ==
    /\ host = Off /\ outcome = "none" /\ ~stopping
    /\ start' = IF start = "none" THEN surface ELSE start
    /\ host' = IF start' = surface THEN Fresh
               ELSE [Fresh EXCEPT !.phase = "closing", !.fatal = "changed"]
    /\ UNCHANGED <<memos, docs, nested, outcome, stopping, surface, crashes>>

\* The line is told something and the script goes on to the next one.
Told(h, of, told) == [h EXCEPT !.history = Append(@, [of |-> of, told |-> told])]

\* A reading: recorded ones first, then a fresh one that is not yet on record.
Read ==
    /\ Running /\ Op = "read"
    /\ \/ /\ host.fatal # "no"
          /\ host' = Told(host, "call", <<Error>>)
       \/ /\ host.fatal = "no" /\ host.read < Len(host.replay)
          /\ host' = Told([host EXCEPT !.read = @ + 1], "read",
                          <<host.replay[host.read + 1]>>)
       \/ /\ host.fatal = "no" /\ host.read = Len(host.replay)
          /\ \E v \in Values :
                host' = Told([host EXCEPT !.pending = Append(@, v)], "read", <<v>>)
    /\ UNCHANGED <<durable, stopping, surface, crashes>>

\* A call gets its number when the worker sends it.  Readings in front of a
\* recorded call must all have been recorded.
Locked(h, why) == [h EXCEPT !.fatal = IF @ = "no" THEN why ELSE @]

Reserve ==
    /\ Running /\ Op \in {"call", "defer"}
    /\ \A k \in DOMAIN host.calls :
            host.calls[k].deferred \/ host.calls[k].at = "delivered"
    /\ LET h == [host EXCEPT !.calls = Append(@,
                    [args |-> host.history, deferred |-> Op = "defer",
                     at |-> "reserved", reply |-> "none"])]
           more == Len(h.calls) <= h.recorded /\ h.pending # <<>>
           told == IF Op = "defer" THEN Told(h, "call", <<>>) ELSE h
       IN host' = IF more THEN Locked(told, "diverged") ELSE told
    /\ UNCHANGED <<durable, stopping, surface, crashes>>

\* A call answers its own line, an await is answered by all deferred calls.
Undelivered ==
    {k \in DOMAIN host.calls : host.calls[k].at # "delivered"}

Deliver ==
    /\ Running
    /\ \/ Op = "call" /\ \E k \in Undelivered : ~host.calls[k].deferred
       \/ Op = "await"
    /\ LET these == {k \in Undelivered : Op = "await" \/ ~host.calls[k].deferred}
       IN /\ \A k \in these : host.calls[k].at = "answered"
          /\ host' = Told([host EXCEPT !.calls =
                            [k \in DOMAIN @ |-> IF k \in these
                                THEN [@[k] EXCEPT !.at = "delivered"] ELSE @[k]]],
                          "call", [k \in these |-> host.calls[k].reply])
    /\ UNCHANGED <<durable, stopping, surface, crashes>>

-----------------------------------------------------------------------------
(* The host: admission by number, then the result.                         *)

\* Calls are admitted one after the other.
Turn(k) ==
    /\ host # Off /\ host.phase = "script" /\ ~stopping
    /\ k \in DOMAIN host.calls
    /\ \A j \in 1 .. k - 1 : host.calls[j].at \in {"admitted", "answered", "delivered"}

At(h, k, at) == [h EXCEPT !.calls[k].at = at]
Answered(h, k, reply) == [At(h, k, "answered") EXCEPT !.calls[k].reply = reply]

\* Mutant of Match: a locked host does not answer.
MatchUnlessLocked(k) ==
    /\ Turn(k) /\ host.calls[k].at = "reserved"
    /\ host.fatal = "no" /\ k <= host.recorded
    /\ host' = IF docs[k].args = host.calls[k].args THEN At(host, k, "admitted")
               ELSE Answered(Locked(host, "diverged"), k, Error)
    /\ UNCHANGED <<durable, stopping, surface, crashes>>

\* Admission: nothing once the host is locked; a record must match the call;
\* a new call may depend on what was read, so that goes on record first.
Match(k) ==
    /\ Turn(k) /\ host.calls[k].at = "reserved"
    /\ host.fatal # "no" \/ k <= host.recorded
    /\ host' = IF host.fatal # "no" THEN Answered(host, k, Error)
               ELSE IF docs[k].args = host.calls[k].args THEN At(host, k, "admitted")
               ELSE Answered(Locked(host, "diverged"), k, Error)
    /\ UNCHANGED <<durable, stopping, surface, crashes>>

\* put_memo: the first writer of a name wins.
Flushed(h) ==
    IF h.pending = <<>> THEN h
    ELSE IF h.batches + 1 <= Len(memos) /\ memos[h.batches + 1] # h.pending
    THEN Locked(h, "diverged")
    ELSE [h EXCEPT !.pending = <<>>, !.batches = @ + 1]

MemosAfter(h) ==
    IF h.pending = <<>> \/ h.batches + 1 <= Len(memos) THEN memos
    ELSE Append(memos, h.pending)

Flush(k) ==
    /\ Turn(k) /\ host.calls[k].at = "reserved"
    /\ host.fatal = "no" /\ k > host.recorded
    /\ memos' = MemosAfter(host)
    /\ host' = At(Flushed(host), k, "flushed")
    /\ UNCHANGED <<start, docs, nested, outcome, stopping, surface, crashes>>

\* The nested task and its document, in one commit.
Admit(k) ==
    /\ Turn(k) /\ host.calls[k].at = "flushed"
    /\ docs' = Append(docs, [args |-> host.calls[k].args, result |-> "none"])
    /\ nested' = Append(nested, "call")
    /\ host' = At(host, k, "admitted")
    /\ UNCHANGED <<start, memos, outcome, stopping, surface, crashes>>

\* Mutant of WaitNested: the uncertain result is an error like any other.
WaitNestedUnlocked(k) ==
    /\ host # Off /\ host.phase = "script"
    /\ k \in DOMAIN host.calls /\ host.calls[k].at = "admitted"
    /\ nested[k] = "over"
    /\ host' = Answered(host, k,
                 IF docs[k].result = "none" THEN Unknown ELSE docs[k].result)
    /\ UNCHANGED <<durable, stopping, surface, crashes>>

\* The nested task is over: its result goes to the script.  Without one, or
\* with one that is uncertain, the host is locked.
WaitNested(k) ==
    /\ host # Off /\ host.phase = "script"
    /\ k \in DOMAIN host.calls /\ host.calls[k].at = "admitted"
    /\ nested[k] = "over"
    /\ host' = IF docs[k].result \in {Unknown, "none"}
               THEN Answered(Locked(host, "unknown"), k, Unknown)
               ELSE Answered(host, k, docs[k].result)
    /\ UNCHANGED <<durable, stopping, surface, crashes>>

-----------------------------------------------------------------------------
(* The nested tasks (ToolCalls).                                           *)

Over(i, result) ==
    /\ nested' = [nested EXCEPT ![i] = "over"]
    /\ docs' = [docs EXCEPT ![i].result = result]
    /\ UNCHANGED <<start, memos, outcome, stopping, surface, crashes, host>>

\* The parent is being aborted, or the host aborts what it owns at the end.
AbortsNested == stopping \/ (host # Off /\ host.phase # "script")

\* The intent is committed and the effect takes place.
NestedBegin(i) ==
    /\ nested[i] = "call" \/ (nested[i] = "lost" /\ i \in SafeCalls)
    /\ ~AbortsNested
    /\ nested' = [nested EXCEPT ![i] = "begun"]
    /\ UNCHANGED <<start, memos, docs, outcome, stopping, surface, crashes, host>>

\* A result, also one reused from disk after a restart.
NestedEnd(i) ==
    /\ nested[i] \in {"begun", "lost"}
    /\ \E v \in Values : Over(i, v)

\* Refused, interrupted or stopped by the host; faulted by the scheduler,
\* without a result; aborted.
NestedRefuse(i) == nested[i] = "call" /\ ~AbortsNested /\ \E v \in Values : Over(i, v)
NestedUnknown(i) == nested[i] \in {"begun", "lost"} /\ Over(i, Unknown)
NestedFault(i) == Live(i) /\ ~AbortsNested /\ Over(i, "none")
NestedAbort(i) == Live(i) /\ AbortsNested /\ Over(i, Unknown)

-----------------------------------------------------------------------------
(* The end of an execution.                                                *)

\* The script is done and the calls it did not wait for have their results, or
\* the host stops the worker at its time or memory limit.
Done ==
    /\ Running /\ Op = "done"
    /\ \A k \in DOMAIN host.calls : host.calls[k].at \in {"answered", "delivered"}
    /\ host' = [host EXCEPT !.phase = "closing"]
    /\ UNCHANGED <<durable, stopping, surface, crashes>>

StopWorker ==
    /\ Running
    /\ host' = [host EXCEPT !.phase = "failing"]
    /\ UNCHANGED <<durable, stopping, surface, crashes>>

\* Mutant of CheckEnd: only the counts are compared.
CheckEndByCount ==
    /\ Len(host.calls) >= host.recorded
    /\ host.read = Len(host.replay)

\* What check_end asks for: a host that is not locked, records used up, a
\* certain result of every call.
CheckEnd ==
    /\ host.fatal = "no"
    /\ Len(host.calls) >= host.recorded
    /\ host.read = Len(host.replay)
    /\ \A i \in Call : docs[i].result \notin {Unknown, "none"}

\* Nothing of the execution is alive any more.
Closed ==
    /\ host # Off /\ host.phase \in {"closing", "failing"} /\ ~stopping
    /\ \A i \in Call : ~Live(i)

\* Readings go on record before the result that may tell of them.
FlushEnd ==
    /\ Closed /\ CheckEnd
    /\ host.pending # <<>>
    /\ memos' = MemosAfter(host)
    /\ host' = Flushed(host)
    /\ UNCHANGED <<start, docs, nested, outcome, stopping, surface, crashes>>

\* The execution is judged.
Finish ==
    /\ Closed
    /\ CheckEnd => host.pending = <<>>
    /\ outcome' = IF ~CheckEnd THEN "uncertain"
                  ELSE IF host.phase = "failing" THEN "failed" ELSE "completed"
    /\ UNCHANGED <<start, memos, docs, nested, stopping, surface, crashes, host>>

\* The user cancels; the nested tasks are aborted before the outer one.
Abort ==
    /\ outcome = "none" /\ ~stopping
    /\ stopping' = TRUE
    /\ UNCHANGED <<durable, surface, crashes, host>>

Aborted ==
    /\ stopping /\ outcome = "none"
    /\ \A i \in Call : ~Live(i)
    /\ outcome' = "aborted"
    /\ UNCHANGED <<start, memos, docs, nested, stopping, surface, crashes, host>>

\* The process restarts, perhaps with other tools.
Crash ==
    /\ outcome = "none"
    /\ crashes < MaxCrashes
    /\ crashes' = crashes + 1
    /\ host' = Off
    /\ nested' = [i \in Call |-> IF nested[i] = "begun" THEN "lost" ELSE nested[i]]
    /\ surface' \in Surfaces
    /\ UNCHANGED <<start, memos, docs, outcome, stopping>>

-----------------------------------------------------------------------------
Worker == Start \/ Read \/ Reserve \/ Deliver \/ Done \/ FlushEnd \/ Finish \/ Aborted
Host(k) == Match(k) \/ Flush(k) \/ Admit(k) \/ WaitNested(k)
Nested(i) ==
    \/ NestedBegin(i) \/ NestedEnd(i) \/ NestedUnknown(i) \/ NestedAbort(i)

Next ==
    \/ outcome = "none" /\
        \/ Worker
        \/ \E k \in 1 .. Len(Program) : Host(k)
        \/ \E i \in Call : Nested(i) \/ NestedRefuse(i) \/ NestedFault(i)
    \/ outcome = "none" /\ StopWorker
    \/ Abort \/ Crash

Spec == Init /\ [][Next]_vars

\* The worker, the host and the tools go on; the engine resumes tasks.
Fairness ==
    /\ WF_vars(outcome = "none" /\ Worker)
    /\ \A k \in 1 .. Len(Program) : WF_vars(outcome = "none" /\ Host(k))
    /\ \A i \in 1 .. Len(Program) :
        WF_vars(outcome = "none" /\ i \in Call /\ Nested(i))

FairSpec == Spec /\ Fairness

-----------------------------------------------------------------------------
(* Properties.                                                             *)

\* A line of a history that was told the n-th reading.
IsReading(history, p, n) ==
    /\ history[p].of = "read"
    /\ n = Cardinality({q \in 1 .. p : history[q].of = "read"})

\* With the tools unchanged no replay of a script diverges from its records,
\* wherever the process stopped and whatever was in flight; and what a committed
\* call may have used of the clock or of randomness is on record, in order, so
\* that later executions are told the same (codemode.rs, flush_nondet).
NeverDiverges ==
    /\ host # Off => host.fatal # "diverged"
    /\ \A i \in Call : \A p, n \in DOMAIN docs[i].args :
            IsReading(docs[i].args, p, n) =>
                /\ n <= Len(FlattenSeq(memos))
                /\ docs[i].args[p].told = <<FlattenSeq(memos)[n]>>

\* A completed script was told exactly what is on record: every call of the
\* execution that ended it is recorded once, under its number, with the same
\* arguments and the result the script got.  However it ends, nothing it owns
\* outlives it.
CompletedAsRecorded ==
    /\ outcome # "none" => \A i \in Call : ~Live(i)
    /\ outcome = "completed" =>
        /\ Len(docs) = Len(host.calls)
        /\ \A k \in Call :
            /\ docs[k].args = host.calls[k].args
            /\ docs[k].result = host.calls[k].reply

\* A script that was told of an uncertain result makes no further call, in this
\* execution or another one, even when it catches the error.
UnknownStopsScript ==
    \A i \in Call : \A p \in DOMAIN docs[i].args :
        \A k \in DOMAIN docs[i].args[p].told :
            docs[i].args[p].told[k] \notin {Unknown, Error}

\* The script comes to an end, also after restarts.
ScriptEnds == <>(outcome # "none")
=============================================================================
