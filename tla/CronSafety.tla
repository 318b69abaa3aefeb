----------------------------- MODULE CronSafety -----------------------------
(***************************************************************************)
(* The scheduler of jobs: types, that no command is executed twice for a   *)
(* slot, that the records of firings are true, and which slots a scan      *)
(* passes, for any number of slots, crashes, failures and edits.           *)
(***************************************************************************)
EXTENDS Cron, TLAPS

\* What the task holds while it works on a slot.
Busy ==
    [step : {"decide", "skip", "claim", "fire", "command", "land", "record",
             "error", "advance", "watch"},
     by : {"scan", "recovery"}, slot : Slot, at : 0 .. NSlots, fired : BOOLEAN]

FiringState ==
    {None} \cup [status : {"queued", "ok", "error", "skipped"},
                 session : BOOLEAN, run : BOOLEAN]

-----------------------------------------------------------------------------
(* Types.                                                                  *)

LEMMA BusyProc ==
    ASSUME TypeOK, proc.step \notin {"idle", "boot"}
    PROVE  proc \in Busy
  BY DEF TypeOK, Busy, Idle

LEMMA StepsOn ==
    ASSUME NEW p \in Busy,
           NEW step \in {"decide", "skip", "claim", "fire", "command", "land", "record",
                         "error", "advance", "watch"}
    PROVE  /\ Scan(step, p) \in Busy
           /\ Scan(step, p).step = step /\ Scan(step, p).by = p.by
           /\ Scan(step, p).slot = p.slot /\ Scan(step, p).at = p.at
           /\ Scan(step, p).fired = p.fired
  BY DEF Busy, Scan

LEMMA Recorded ==
    ASSUME NEW status \in {"queued", "ok", "error", "skipped"},
           NEW known \in BOOLEAN, NEW run \in BOOLEAN
    PROVE  /\ Firing(status, known, run) \in FiringState
           /\ Firing(status, known, run) # None
           /\ Firing(status, known, run).status = status
           /\ Firing(status, known, run).run = run
  BY DEF Firing, FiringState, None

LEMMA Attached ==
    ASSUME NEW s \in Slot, watch \in [Slot -> {"off", "wait", "tell"}], Attach(s)
    PROVE  watch' \in [Slot -> {"off", "wait", "tell"}]
  BY DEF Attach

LEMMA InitTypes == Init => TypeOK
  BY JobsAssumption, BoundsAssumption DEF Init, TypeOK, Slot

\* The steps of a scan and of a target.
LEMMA WorkTypes == TypeOK /\ Work => TypeOK'
  <1> SUFFICES ASSUME TypeOK, Work
               PROVE  TypeOK'
    OBVIOUS
  <1>b. NSlots \in Nat
    BY BoundsAssumption
  <1>1. CASE Due
    <2>1. row.next \in Slot /\ now \in 0 .. NSlots
      BY <1>1, <1>b DEF Due, TypeOK, Slot
    <2>2. proc' \in Busy
      BY <1>1, <2>1 DEF Due, Busy
    <2> QED
      BY <1>1, <2>2 DEF Due, TypeOK, Busy, outside
  <1>2. CASE Decide
    <2>1. proc' \in Busy
      BY <1>2, BusyProc, StepsOn DEF Decide
    <2> QED
      BY <1>2, <2>1 DEF Decide, TypeOK, Busy, outside
  <1>3. CASE Skip
    <2>1. proc \in Busy /\ proc' \in Busy
      BY <1>3, BusyProc, StepsOn DEF Skip
    <2>2. firing' \in [Slot -> FiringState]
      BY <1>3, <2>1, Recorded DEF Skip, TypeOK, Busy, FiringState
    <2> QED
      BY <1>3, <2>1, <2>2 DEF Skip, TypeOK, Busy, FiringState, outside
  <1>4. CASE Claim
    <2>1. proc \in Busy
      BY <1>4, BusyProc DEF Claim
    <2>2. proc' \in Busy
      <3>1. proc' = Scan("fire", proc) \/ proc' = Scan("advance", proc)
        BY <1>4 DEF Claim
      <3> QED
        BY <2>1, <3>1, StepsOn
    <2>3. firing' \in [Slot -> FiringState]
      <3>1. firing \in [Slot -> FiringState] /\ proc.slot \in Slot
        BY <2>1 DEF TypeOK, FiringState, Busy
      <3>2. \/ firing' = firing
            \/ firing' = [firing EXCEPT ![proc.slot] = Firing("queued", TRUE, FALSE)]
        BY <1>4 DEF Claim
      <3>3. Firing("queued", TRUE, FALSE) \in FiringState
        BY Recorded
      <3> QED
        BY <3>1, <3>2, <3>3
    <2>4. UNCHANGED <<job, row, session, executed, notice, now, todo, watch, outside>>
      BY <1>4 DEF Claim, outside
    <2> QED
      BY <2>2, <2>3, <2>4 DEF TypeOK, Busy, FiringState, outside
  <1>5. CASE Existing
    <2>1. proc' \in Busy
      BY <1>5, BusyProc, StepsOn DEF Existing
    <2> QED
      BY <1>5, <2>1 DEF Existing, TypeOK, Busy, outside
  <1>6. CASE FirePrompt
    <2>1. proc' \in Busy
      BY <1>6, BusyProc, StepsOn DEF FirePrompt
    <2> QED
      BY <1>6, <2>1 DEF FirePrompt, TypeOK, Busy, outside
  <1>7. CASE OpenSession
    <2>1. proc' \in Busy
      BY <1>7, BusyProc, StepsOn DEF OpenSession
    <2> QED
      BY <1>7, <2>1 DEF OpenSession, TypeOK, Busy, outside
  <1>8. CASE RunCommand
    <2>1. proc \in Busy /\ proc' \in Busy
      BY <1>8, BusyProc, StepsOn DEF RunCommand
    <2>2. executed' \in [Slot -> Nat]
      BY <1>8, <2>1 DEF RunCommand, TypeOK, Busy
    <2> QED
      BY <1>8, <2>1, <2>2 DEF RunCommand, TypeOK, Busy, outside
  <1>9. CASE LandCommand
    <2>1. proc \in Busy /\ proc' \in Busy
      BY <1>9, BusyProc, StepsOn DEF LandCommand
    <2>2. session' \in [Slot -> {"none", "open", "queued"} \cup Settled]
      BY <1>9, <2>1 DEF LandCommand, TypeOK, Busy
    <2> QED
      BY <1>9, <2>1, <2>2 DEF LandCommand, TypeOK, Busy, outside
  <1>10. CASE Record
    <2>1. proc \in Busy
      BY <1>10, BusyProc DEF Record
    <2>2. proc' \in Busy \/ proc' = Idle
      BY <1>10, <2>1 DEF Record, Busy
    <2>3. firing' \in [Slot -> FiringState]
      BY <1>10, <2>1, Recorded DEF Record, TypeOK, Busy, FiringState
    <2>4. watch' \in [Slot -> {"off", "wait", "tell"}]
      BY <1>10, <2>1, Attached DEF Record, TypeOK, Busy
    <2> QED
      BY <1>10, <2>2, <2>3, <2>4 DEF Record, TypeOK, Busy, FiringState, outside
  <1>11. CASE RecordError
    <2>1. proc \in Busy /\ (proc' \in Busy \/ proc' = Idle)
      BY <1>11, BusyProc, StepsOn DEF RecordError
    <2>2. firing' \in [Slot -> FiringState]
      BY <1>11, <2>1, Recorded DEF RecordError, TypeOK, Busy, FiringState
    <2> QED
      BY <1>11, <2>1, <2>2 DEF RecordError, TypeOK, Busy, FiringState, outside
  <1>12. CASE Advance
    <2>1. proc \in Busy
      BY <1>12, BusyProc DEF Advance
    <2>2. proc.at + 1 \in 0 .. NSlots + 1
      BY <2>1, <1>b DEF Busy
    <2>3. row' \in [status : {"active", "paused", "done", "removed"}, next : 0 .. NSlots + 1]
      BY <1>12, <2>1, <2>2, <1>b DEF Advance, TypeOK, Busy
    <2>4. proc' \in Busy \/ proc' = Idle
      BY <1>12, <2>1, StepsOn DEF Advance
    <2> QED
      BY <1>12, <2>3, <2>4 DEF Advance, TypeOK, Busy, outside
  <1>13. CASE Boot
    BY <1>13 DEF Boot, TypeOK, outside
  <1>14. ASSUME NEW s \in Slot, Recover(s)
         PROVE  TypeOK'
    <2>1. watch' \in [Slot -> {"off", "wait", "tell"}]
      BY <1>14, Attached DEF Recover, TypeOK
    <2>2. proc' = Idle \/ proc' \in Busy
      <3> DEFINE fires == [step |-> "fire", by |-> "recovery", slot |-> s, at |-> 0,
                           fired |-> FALSE]
      <3>1. proc' = Idle \/ proc' = fires
        BY <1>14 DEF Recover, TypeOK
      <3>3. fires \in Busy
        BY <1>b DEF Busy
      <3> QED
        BY <3>1, <3>3
    <2> QED
      BY <1>14, <2>1, <2>2 DEF Recover, TypeOK, Busy, outside
  <1>15. CASE WatchFired
    <2>1. proc.slot \in Slot
      BY <1>15, BusyProc DEF WatchFired, Busy
    <2>2. watch' \in [Slot -> {"off", "wait", "tell"}]
      BY <1>15, <2>1, Attached DEF WatchFired, TypeOK
    <2> QED
      BY <1>15, <2>2 DEF WatchFired, TypeOK, outside
  <1> QED
    BY <1>1, <1>2, <1>3, <1>4, <1>5, <1>6, <1>7, <1>8, <1>9, <1>10, <1>11, <1>12,
       <1>13, <1>14, <1>15 DEF Work

\* What fails.
LEMMA FailureTypes == TypeOK /\ Failure => TypeOK'
  <1> SUFFICES ASSUME TypeOK, Failure
               PROVE  TypeOK'
    OBVIOUS
  <1>b. NSlots \in Nat /\ MaxFailures \in Nat
    BY BoundsAssumption
  <1>f. Fails => failures' \in 0 .. MaxFailures /\ UNCHANGED <<crashes, edits>>
    BY <1>b DEF Fails, TypeOK
  <1>1. CASE Misread
    <2>1. proc' \in Busy
      BY <1>1, BusyProc, StepsOn DEF Misread
    <2> QED
      BY <1>1, <2>1, <1>f DEF Misread, TypeOK, Busy
  <1>2. CASE FireFails
    <2>1. proc \in Busy /\ proc' \in Busy
      BY <1>2, BusyProc, StepsOn DEF FireFails
    <2>2. session' \in [Slot -> {"none", "open", "queued"} \cup Settled]
      BY <1>2, <2>1 DEF FireFails, TypeOK, Busy
    <2> QED
      BY <1>2, <2>1, <2>2, <1>f DEF FireFails, TypeOK, Busy
  <1>3. CASE RecordFails
    <2>1. proc.slot \in Slot
      BY <1>3, BusyProc DEF RecordFails, Busy
    <2>2. watch' \in [Slot -> {"off", "wait", "tell"}]
      BY <1>3, <2>1, Attached DEF RecordFails, TypeOK
    <2> QED
      BY <1>3, <2>2, <1>f DEF RecordFails, TypeOK
  <1>4. CASE ScanFails
    BY <1>4, <1>f DEF ScanFails, TypeOK
  <1>5. CASE BootFails
    BY <1>5, <1>f DEF BootFails, TypeOK
  <1>6. ASSUME NEW s \in Slot, ConcludeFails(s)
        PROVE  TypeOK'
    <2>1. firing' \in [Slot -> FiringState]
      BY <1>6 DEF ConcludeFails, Concluded, TypeOK, FiringState
    <2>2. watch' \in [Slot -> {"off", "wait", "tell"}]
      BY <1>6 DEF ConcludeFails, WatchedTo, TypeOK
    <2> QED
      BY <1>6, <2>1, <2>2, <1>f DEF ConcludeFails, TypeOK, FiringState
  <1>7. ASSUME NEW s \in Slot, NotifyFails(s)
        PROVE  TypeOK'
    BY <1>7, <1>f DEF NotifyFails, TypeOK
  <1> QED
    BY <1>1, <1>2, <1>3, <1>4, <1>5, <1>6, <1>7 DEF Failure

\* All other steps.
LEMMA WorldTypes ==
    ASSUME TypeOK,
           \/ Clock \/ Crash
           \/ \E s \in Slot : Settle(s) \/ Watcher(s)
           \/ Pause \/ Resume \/ Answer \/ Remove
    PROVE  TypeOK'
  <1>b. NSlots \in Nat /\ MaxCrashes \in Nat /\ MaxEdits \in Nat
    BY BoundsAssumption
  <1>1. CASE Clock
    BY <1>1, <1>b DEF Clock, TypeOK, outside
  <1>2. CASE Crash
    BY <1>2, <1>b DEF Crash, TypeOK
  <1>3. ASSUME NEW s \in Slot, Settle(s)
        PROVE  TypeOK'
    BY <1>3 DEF Settle, TypeOK, outside
  <1>4. ASSUME NEW s \in Slot, Conclude(s)
        PROVE  TypeOK'
    <2>1. firing' \in [Slot -> FiringState]
      BY <1>4 DEF Conclude, Concluded, TypeOK, FiringState
    <2>2. watch' \in [Slot -> {"off", "wait", "tell"}]
      BY <1>4 DEF Conclude, WatchedTo, TypeOK
    <2> QED
      BY <1>4, <2>1, <2>2 DEF Conclude, TypeOK, FiringState, outside
  <1>5. ASSUME NEW s \in Slot, Notify(s)
        PROVE  TypeOK'
    BY <1>5 DEF Notify, TypeOK, outside
  <1>6. ASSUME NEW status \in {"active", "paused"}, NEW next \in 0 .. NSlots + 1,
               Ask(status, next), edits' \in 0 .. MaxEdits
        PROVE  TypeOK'
    BY <1>6 DEF Ask, TypeOK
  <1>7. CASE Pause
    <2>1. edits' \in 0 .. MaxEdits
      BY <1>7, <1>b DEF Pause, TypeOK
    <2> QED
      BY <1>6, <1>7, <2>1 DEF Pause, TypeOK
  <1>8. CASE Resume
    <2>1. now + 1 \in 0 .. NSlots + 1 /\ 0 \in 0 .. NSlots + 1 /\ edits' \in 0 .. MaxEdits
      BY <1>8, <1>b DEF Resume, TypeOK
    <2>2. CASE job.once /\ now > 0
      BY <1>6, <1>8, <2>1, <2>2 DEF Resume
    <2>3. CASE ~(job.once /\ now > 0)
      BY <1>6, <1>8, <2>1, <2>3 DEF Resume
    <2> QED
      BY <2>2, <2>3
  <1>9. CASE Answer
    BY <1>9 DEF Answer, TypeOK
  <1>10. CASE Remove
    BY <1>10, <1>b DEF Remove, TypeOK
  <1> QED
    BY <1>1, <1>2, <1>3, <1>4, <1>5, <1>7, <1>8, <1>9, <1>10 DEF Watcher

LEMMA TypesKept == TypeOK /\ [Next]_vars => TypeOK'
  <1>1. ASSUME TypeOK, UNCHANGED vars
        PROVE  TypeOK'
    BY <1>1 DEF TypeOK, vars, outside
  <1> QED
    BY <1>1, WorkTypes, FailureTypes, WorldTypes DEF Next

\* The type invariant of the scheduler, whatever the bounds are.
THEOREM CronTypeCorrect == Spec => []TypeOK
  <1> QED
    BY InitTypes, TypesKept, PTL DEF Spec
-----------------------------------------------------------------------------
(* What is on record, and how far the task has come.                       *)

\* A slot: what was begun is on record, and at most once.
SlotOK(s) ==
    /\ firing[s] = None => session[s] = "none" /\ s \notin todo
    /\ firing[s] # None =>
        /\ firing[s].run => session[s] \in {"queued"} \cup Settled
        /\ firing[s].status = "ok" => session[s] \in Settled \ {"failed"}
    /\ session[s] = "none" => executed[s] = 0
    /\ executed[s] <= 1

\* What is told, or is about to be, is a result, of a job that has them told.
ToldOK(s) ==
    notice[s] \/ watch[s] = "tell" => session[s] \in Settled /\ job.notify # "never"

\* The slot the task works on, and the time it does so for.
InHand ==
    /\ proc.step \in {"fire", "command", "land", "record", "error", "advance"} =>
           firing[proc.slot] # None
    /\ proc.step \in {"command", "land"} => session[proc.slot] = "open"
    /\ proc.step = "command" => executed[proc.slot] = 0
    /\ proc.step = "record" => session[proc.slot] \in {"queued"} \cup Settled

Behind == proc.step \notin {"idle", "boot"} => proc.at <= now

IInv ==
    /\ TypeOK
    /\ \A s \in Slot : SlotOK(s) /\ ToldOK(s)
    /\ InHand /\ Behind

LEMMA InitOrder == Init => IInv
  BY InitTypes DEF Init, IInv, SlotOK, ToldOK, InHand, Behind, None

\* Steps that write none of the records of a slot.
LEMMA SlotsKept ==
    ASSUME \A s \in Slot : SlotOK(s),
           UNCHANGED <<firing, session, executed>>, todo' \subseteq todo
    PROVE  \A s \in Slot : SlotOK(s)'
  BY DEF SlotOK

LEMMA ScanOrder ==
    ASSUME IInv, Due \/ Decide \/ Misread \/ Skip \/ Claim \/ Advance \/ WatchFired
    PROVE  (\A s \in Slot : SlotOK(s)') /\ InHand' /\ Behind'
  <1>1. CASE Due
    <2>1. \A s \in Slot : SlotOK(s)'
      BY <1>1, SlotsKept DEF Due, IInv
    <2>2. InHand' /\ Behind'
      BY <1>1, BoundsAssumption DEF Due, InHand, Behind, IInv, TypeOK
    <2> QED
      BY <2>1, <2>2
  <1>2. CASE Decide \/ Misread
    <2>1. \A s \in Slot : SlotOK(s)'
      BY <1>2, SlotsKept DEF Decide, Misread, IInv
    <2>2. proc \in Busy /\ proc.step = "decide" /\ now' = now
      BY <1>2, BusyProc DEF Decide, Misread, IInv
    <2>3. proc' = Scan("skip", proc) \/ proc' = Scan("claim", proc)
      BY <1>2 DEF Decide, Misread
    <2>4. InHand' /\ Behind'
      BY <2>2, <2>3, StepsOn DEF InHand, Behind, IInv
    <2> QED
      BY <2>1, <2>4
  <1>3. CASE Skip
    <2>1. proc \in Busy /\ proc.slot \in Slot
      BY <1>3, BusyProc DEF Skip, IInv, Busy
    <2>2. /\ firing' = [firing EXCEPT ![proc.slot] = Firing("skipped", FALSE, FALSE)]
          /\ proc' = Scan("advance", proc)
          /\ UNCHANGED <<session, executed, todo, row, now>>
      BY <1>3 DEF Skip
    <2>3. /\ firing'[proc.slot] = Firing("skipped", FALSE, FALSE)
          /\ \A s \in Slot : s # proc.slot => firing'[s] = firing[s]
      BY <2>1, <2>2 DEF IInv, TypeOK
    <2>4. /\ firing'[proc.slot] # None /\ firing'[proc.slot].status = "skipped"
          /\ ~firing'[proc.slot].run
      BY <2>3 DEF Firing, None
    <2>5. /\ SlotOK(proc.slot) /\ proc.step = "skip"
          /\ proc'.step = "advance" /\ proc'.slot = proc.slot
          /\ proc'.by = proc.by /\ proc'.at = proc.at
      BY <1>3, <2>1, <2>2, StepsOn DEF Skip, IInv
    <2>6. \A s \in Slot : SlotOK(s)'
      <3>1. ASSUME NEW s \in Slot, s = proc.slot
            PROVE  SlotOK(s)'
        BY <2>2, <2>4, <2>5, <3>1 DEF SlotOK
      <3>2. ASSUME NEW s \in Slot, s # proc.slot
            PROVE  SlotOK(s)'
        BY <2>2, <2>3, <3>2 DEF IInv, SlotOK
      <3> QED
        BY <3>1, <3>2
    <2>7. InHand' /\ Behind'
      BY <2>2, <2>4, <2>5 DEF InHand, Behind, IInv
    <2> QED
      BY <2>6, <2>7
  <1>4. CASE Claim
    <2>1. proc \in Busy /\ proc.slot \in Slot
      BY <1>4, BusyProc DEF Claim, IInv, Busy
    <2>2. proc.step = "claim" /\ UNCHANGED <<session, executed, todo, row, now>>
      BY <1>4 DEF Claim
    <2>3. CASE firing[proc.slot] = None
      <3>1. /\ firing' = [firing EXCEPT ![proc.slot] = Firing("queued", TRUE, FALSE)]
            /\ proc' = Scan("fire", proc)
        BY <1>4, <2>3 DEF Claim
      <3>2. /\ firing'[proc.slot] = Firing("queued", TRUE, FALSE)
            /\ \A s \in Slot : s # proc.slot => firing'[s] = firing[s]
        BY <2>1, <3>1 DEF IInv, TypeOK
      <3>3. /\ firing'[proc.slot] # None /\ firing'[proc.slot].status = "queued"
            /\ ~firing'[proc.slot].run
        BY <3>2 DEF Firing, None
      <3>4. /\ SlotOK(proc.slot)
            /\ proc'.step = "fire" /\ proc'.slot = proc.slot
            /\ proc'.by = proc.by /\ proc'.at = proc.at
        BY <2>1, <3>1, StepsOn DEF IInv
      <3>5. \A s \in Slot : SlotOK(s)'
        <4>1. ASSUME NEW s \in Slot, s = proc.slot
              PROVE  SlotOK(s)'
          BY <2>2, <2>3, <3>3, <3>4, <4>1 DEF SlotOK
        <4>2. ASSUME NEW s \in Slot, s # proc.slot
              PROVE  SlotOK(s)'
          BY <2>2, <3>2, <4>2 DEF IInv, SlotOK
        <4> QED
          BY <4>1, <4>2
      <3>6. InHand' /\ Behind'
        BY <2>2, <3>3, <3>4 DEF InHand, Behind, IInv
      <3> QED
        BY <3>5, <3>6
    <2>4. CASE firing[proc.slot] # None
      <3>1. UNCHANGED firing /\ proc' = Scan("advance", proc)
        BY <1>4, <2>4 DEF Claim
      <3>2. \A s \in Slot : SlotOK(s)'
        BY <2>2, <3>1, SlotsKept DEF IInv
      <3>3. InHand' /\ Behind'
        BY <2>1, <2>2, <2>4, <3>1, StepsOn DEF InHand, Behind, IInv
      <3> QED
        BY <3>2, <3>3
    <2> QED
      BY <2>3, <2>4
  <1>5. CASE Advance
    <2>1. \A s \in Slot : SlotOK(s)'
      BY <1>5, SlotsKept DEF Advance, IInv
    <2>2. proc \in Busy /\ proc.step = "advance" /\ now' = now
      BY <1>5, BusyProc DEF Advance, IInv
    <2>3. proc' = Scan("watch", proc) \/ proc' = Idle
      BY <1>5 DEF Advance
    <2>4. InHand' /\ Behind'
      BY <2>2, <2>3, StepsOn DEF Idle, InHand, Behind, IInv
    <2> QED
      BY <2>1, <2>4
  <1>6. CASE WatchFired
    <2>1. \A s \in Slot : SlotOK(s)'
      BY <1>6, SlotsKept DEF WatchFired, IInv
    <2> QED
      BY <1>6, <2>1 DEF WatchFired, Idle, InHand, Behind
  <1> QED
    BY <1>1, <1>2, <1>3, <1>4, <1>5, <1>6

\* The target begins a slot only if nothing of it is there.
LEMMA TargetOrder ==
    ASSUME IInv, Existing \/ FirePrompt \/ OpenSession \/ RunCommand \/ LandCommand \/ FireFails
    PROVE  (\A s \in Slot : SlotOK(s)') /\ InHand' /\ Behind'
  <1>1. proc \in Busy /\ proc.slot \in Slot
    BY BusyProc DEF Existing, FirePrompt, OpenSession, RunCommand, LandCommand, FireFails,
       IInv, Busy
  <1>2. UNCHANGED <<firing, todo, row, now>> /\ firing[proc.slot] # None
    BY DEF Existing, FirePrompt, OpenSession, RunCommand, LandCommand, FireFails, IInv, InHand
  <1>3. proc.step \in {"fire", "command", "land"}
    BY DEF Existing, FirePrompt, OpenSession, RunCommand, LandCommand, FireFails
  <1>4. \E step \in {"command", "land", "record", "error"} : proc' = Scan(step, proc)
    BY DEF Existing, FirePrompt, OpenSession, RunCommand, LandCommand, FireFails
  <1>5. /\ proc'.slot = proc.slot /\ proc'.by = proc.by /\ proc'.at = proc.at
        /\ proc'.step \in {"command", "land", "record", "error"}
    BY <1>1, <1>4, StepsOn
  <1>6. Behind'
    BY <1>2, <1>3, <1>5 DEF Behind, IInv
  <1>7. SlotOK(proc.slot)
    BY <1>1 DEF IInv
  <1>8. CASE Existing
    <2>1. \A s \in Slot : SlotOK(s)'
      BY <1>8, SlotsKept DEF Existing, IInv
    <2>2. session' = session /\ (proc'.step = "record" \/ proc'.step = "error")
      BY <1>1, <1>8, StepsOn DEF Existing
    <2>3. proc'.step = "record" => session[proc.slot] \notin {"none", "open"}
      BY <1>1, <1>8, StepsOn DEF Existing
    <2>4. InHand'
      BY <1>1, <1>2, <1>5, <2>2, <2>3 DEF InHand, IInv, TypeOK
    <2> QED
      BY <1>6, <2>1, <2>4
  <1>9. CASE FirePrompt
    <2>1. /\ session' = [session EXCEPT ![proc.slot] = "queued"] /\ executed' = executed
          /\ session[proc.slot] = "none"
      BY <1>9 DEF FirePrompt
    <2>2. /\ session'[proc.slot] = "queued"
          /\ \A s \in Slot : s # proc.slot => session'[s] = session[s]
      BY <1>1, <2>1 DEF IInv, TypeOK
    <2>3. \A s \in Slot : SlotOK(s)'
      BY <1>2, <1>7, <2>1, <2>2 DEF IInv, SlotOK, Settled
    <2>4. proc'.step = "record"
      BY <1>1, <1>9, StepsOn DEF FirePrompt
    <2>5. InHand'
      BY <1>2, <1>5, <2>2, <2>4 DEF InHand
    <2> QED
      BY <1>6, <2>3, <2>5
  <1>10. CASE OpenSession
    <2>1. /\ session' = [session EXCEPT ![proc.slot] = "open"] /\ executed' = executed
          /\ session[proc.slot] = "none"
      BY <1>10 DEF OpenSession
    <2>2. /\ session'[proc.slot] = "open"
          /\ \A s \in Slot : s # proc.slot => session'[s] = session[s]
      BY <1>1, <2>1 DEF IInv, TypeOK
    <2>3. \A s \in Slot : SlotOK(s)'
      BY <1>2, <1>7, <2>1, <2>2 DEF IInv, SlotOK, Settled
    <2>4. proc'.step = "command"
      BY <1>1, <1>10, StepsOn DEF OpenSession
    <2>5. executed[proc.slot] = 0
      BY <1>7, <2>1 DEF SlotOK
    <2>6. InHand'
      BY <1>2, <1>5, <2>1, <2>2, <2>4, <2>5 DEF InHand
    <2> QED
      BY <1>6, <2>3, <2>6
  <1>11. CASE RunCommand
    <2>1. /\ executed' = [executed EXCEPT ![proc.slot] = @ + 1] /\ session' = session
          /\ session[proc.slot] = "open" /\ executed[proc.slot] = 0
      BY <1>11 DEF RunCommand, IInv, InHand
    <2>2. /\ executed'[proc.slot] = 1
          /\ \A s \in Slot : s # proc.slot => executed'[s] = executed[s]
      BY <1>1, <2>1 DEF IInv, TypeOK
    <2>3. \A s \in Slot : SlotOK(s)'
      BY <1>2, <1>7, <2>1, <2>2 DEF IInv, SlotOK
    <2>4. proc'.step = "land"
      BY <1>1, <1>11, StepsOn DEF RunCommand
    <2>5. InHand'
      BY <1>2, <1>5, <2>1, <2>4 DEF InHand
    <2> QED
      BY <1>6, <2>3, <2>5
  <1>12. CASE LandCommand
    <2>1. /\ executed' = executed /\ session[proc.slot] = "open"
          /\ \E outcome \in Settled : session' = [session EXCEPT ![proc.slot] = outcome]
      BY <1>12 DEF LandCommand, IInv, InHand
    <2>2. /\ session'[proc.slot] \in Settled
          /\ \A s \in Slot : s # proc.slot => session'[s] = session[s]
      BY <1>1, <2>1 DEF IInv, TypeOK
    <2>3. \A s \in Slot : SlotOK(s)'
      BY <1>2, <1>7, <2>1, <2>2 DEF IInv, SlotOK, Settled
    <2>4. proc'.step = "record"
      BY <1>1, <1>12, StepsOn DEF LandCommand
    <2>5. InHand'
      BY <1>2, <1>5, <2>2, <2>4 DEF InHand
    <2> QED
      BY <1>6, <2>3, <2>5
  <1>13. CASE FireFails
    <2>1. /\ executed' = executed
          /\ \/ session' = session
             \/ /\ session[proc.slot] \in {"none", "open"}
                /\ \E state \in {"open", "queued"} \cup Settled :
                       session' = [session EXCEPT ![proc.slot] = state]
      <3>1. executed' = executed /\ (proc.step = "land" => session[proc.slot] = "open")
        BY <1>13 DEF FireFails, IInv, InHand
      <3> QED
        BY <1>13, <3>1 DEF FireFails
    <2>4. \A s \in Slot : SlotOK(s)'
      <3>1. CASE session' = session
        BY <1>2, <2>1, <3>1, SlotsKept DEF IInv
      <3>2. CASE session' # session
        <4>1. /\ session[proc.slot] \in {"none", "open"}
              /\ session'[proc.slot] \in {"open", "queued"} \cup Settled
              /\ \A s \in Slot : s # proc.slot => session'[s] = session[s]
          BY <1>1, <2>1, <3>2 DEF IInv, TypeOK
        <4> QED
          BY <1>2, <1>7, <2>1, <4>1 DEF IInv, SlotOK, Settled
      <3> QED
        BY <3>1, <3>2
    <2>2. proc'.step = "error"
      BY <1>1, <1>13, StepsOn DEF FireFails
    <2>3. InHand'
      BY <1>2, <1>5, <2>2 DEF InHand
    <2> QED
      BY <1>6, <2>3, <2>4
  <1> QED
    BY <1>8, <1>9, <1>10, <1>11, <1>12, <1>13

\* What became of a firing is written.
LEMMA RecordOrder ==
    ASSUME IInv, Record \/ RecordError
    PROVE  (\A s \in Slot : SlotOK(s)') /\ InHand' /\ Behind'
  <1>1. proc \in Busy /\ proc.slot \in Slot /\ proc.step \in {"record", "error"}
    BY BusyProc DEF Record, RecordError, IInv, Busy
  <1>2. UNCHANGED <<session, executed, todo, row, now>> /\ firing[proc.slot] # None
    BY DEF Record, RecordError, IInv, InHand
  <1>3. PICK status \in {"queued", "error"}, run \in BOOLEAN :
            /\ firing' = [firing EXCEPT ![proc.slot] = Firing(status, TRUE, run)]
            /\ run => session[proc.slot] \in {"queued"} \cup Settled
    BY DEF Record, RecordError, IInv, InHand
  <1>4. /\ firing'[proc.slot] = Firing(status, TRUE, run)
        /\ \A s \in Slot : s # proc.slot => firing'[s] = firing[s]
    BY <1>1, <1>3 DEF IInv, TypeOK
  <1>5. /\ firing'[proc.slot] # None
        /\ firing'[proc.slot].status = status /\ firing'[proc.slot].run = run
    BY <1>4 DEF Firing, None
  <1>6. \A s \in Slot : SlotOK(s)'
    <2>1. ASSUME NEW s \in Slot, s = proc.slot
          PROVE  SlotOK(s)'
      BY <1>1, <1>2, <1>3, <1>5, <2>1 DEF SlotOK, IInv
    <2>2. ASSUME NEW s \in Slot, s # proc.slot
          PROVE  SlotOK(s)'
      BY <1>2, <1>4, <2>2 DEF SlotOK, IInv
    <2> QED
      BY <2>1, <2>2
  <1>7. \/ proc' = Idle
        \/ /\ proc'.step = "advance" /\ proc'.slot = proc.slot
           /\ proc'.by = proc.by /\ proc'.at = proc.at /\ proc.by = "scan"
    <2>1. CASE Record
      BY <1>1, <2>1 DEF Record, Busy
    <2>2. CASE RecordError
      BY <1>1, <2>2, StepsOn DEF RecordError
    <2> QED
      BY <2>1, <2>2
  <1>8. InHand' /\ Behind'
    BY <1>1, <1>2, <1>5, <1>7 DEF InHand, Behind, IInv, Idle
  <1> QED
    BY <1>6, <1>8

\* Restarts, what is recovered after them, and what is given up.
LEMMA RestartOrder ==
    ASSUME IInv,
           \/ Crash \/ Boot \/ BootFails \/ ScanFails \/ RecordFails
           \/ \E s \in Slot : Recover(s)
    PROVE  (\A s \in Slot : SlotOK(s)') /\ InHand' /\ Behind'
  <1>1. CASE Crash
    <2>1. \A s \in Slot : SlotOK(s)'
      BY <1>1, SlotsKept DEF Crash, IInv
    <2> QED
      BY <1>1, <2>1 DEF Crash, InHand, Behind
  <1>2. CASE Boot
    <2>1. \A s \in Slot : SlotOK(s)'
      BY <1>2 DEF Boot, SlotOK, IInv, None
    <2> QED
      BY <1>2, <2>1 DEF Boot, InHand, Behind, Idle
  <1>3. CASE BootFails \/ ScanFails \/ RecordFails
    <2>1. \A s \in Slot : SlotOK(s)'
      BY <1>3, SlotsKept DEF BootFails, ScanFails, RecordFails, IInv
    <2> QED
      BY <1>3, <2>1 DEF BootFails, ScanFails, RecordFails, InHand, Behind, Idle
  <1>4. ASSUME NEW s \in Slot, Recover(s)
        PROVE  (\A t \in Slot : SlotOK(t)') /\ InHand' /\ Behind'
    <2>1. \A t \in Slot : SlotOK(t)'
      BY <1>4, SlotsKept DEF Recover, IInv
    <2>2. firing[s] # None /\ firing' = firing /\ now' = now
      BY <1>4 DEF Recover, IInv, SlotOK
    <2>3. \/ proc' = Idle
          \/ proc'.step = "fire" /\ proc'.slot = s /\ proc'.at = 0
      BY <1>4 DEF Recover
    <2>4. now >= 0
      BY BoundsAssumption DEF IInv, TypeOK
    <2>5. InHand' /\ Behind'
      BY <2>2, <2>3, <2>4 DEF InHand, Behind, Idle
    <2> QED
      BY <2>1, <2>5
  <1> QED
    BY <1>1, <1>2, <1>3, <1>4

\* A watcher writes to a firing only that its run is over, and well only if it is.
LEMMA WatcherOrder ==
    ASSUME IInv, NEW s \in Slot, Conclude(s) \/ ConcludeFails(s)
    PROVE  (\A t \in Slot : SlotOK(t)') /\ InHand' /\ Behind'
  <1>p. proc.step \notin {"idle", "boot"} => proc \in Busy
    BY BusyProc DEF IInv
  <1>1. UNCHANGED <<session, executed, todo, proc, now>>
    BY DEF Conclude, ConcludeFails
  <1>2. \/ firing' = firing
        \/ /\ session[s] \in Settled
           /\ Concluded(s, session[s]) \/ Concluded(s, "failed")
    BY DEF Conclude, ConcludeFails
  <1>3. Behind'
    BY <1>1 DEF Behind, IInv
  <1>4. CASE firing' = firing
    BY <1>1, <1>3, <1>4, SlotsKept DEF InHand, IInv
  <1>5. CASE firing' # firing
    <2>1. PICK status \in {"ok", "error"} :
              /\ firing[s] # None /\ firing' = [firing EXCEPT ![s].status = status]
              /\ session[s] \in Settled /\ (status = "ok" => session[s] # "failed")
      BY <1>2, <1>5 DEF Concluded
    <2>2. firing[s] \in [status : {"queued", "ok", "error", "skipped"},
                         session : BOOLEAN, run : BOOLEAN]
      BY <2>1 DEF IInv, TypeOK
    <2>3. /\ firing'[s] = [firing[s] EXCEPT !.status = status]
          /\ \A t \in Slot : t # s => firing'[t] = firing[t]
      BY <2>1 DEF IInv, TypeOK
    <2>4. firing'[s] # None /\ firing'[s].run = firing[s].run /\ firing'[s].status = status
      BY <2>2, <2>3 DEF None
    <2>5. \A t \in Slot : SlotOK(t)'
      <3>1. SlotOK(s)'
        BY <1>1, <2>1, <2>4 DEF SlotOK, IInv
      <3>2. ASSUME NEW t \in Slot, t # s
            PROVE  SlotOK(t)'
        BY <1>1, <2>3, <3>2 DEF SlotOK, IInv
      <3> QED
        BY <3>1, <3>2
    <2>6. InHand'
      BY <1>p, <1>1, <2>3, <2>4 DEF InHand, IInv, Busy
    <2> QED
      BY <1>3, <2>5, <2>6
  <1> QED
    BY <1>4, <1>5

\* Runs, time and the operator go on while the task works.
LEMMA WorldOrder ==
    ASSUME IInv,
           \/ Clock \/ Pause \/ Resume \/ Answer \/ Remove
           \/ \E s \in Slot : Settle(s) \/ Notify(s) \/ NotifyFails(s)
    PROVE  (\A s \in Slot : SlotOK(s)') /\ InHand' /\ Behind'
  <1>p. proc.step \notin {"idle", "boot"} => proc \in Busy
    BY BusyProc DEF IInv
  <1>1. CASE Clock
    <2>1. \A s \in Slot : SlotOK(s)'
      BY <1>1, SlotsKept DEF Clock, IInv
    <2>2. now \in Int /\ now' = now + 1
      BY <1>1, BoundsAssumption DEF Clock, IInv, TypeOK
    <2>3. InHand'
      BY <1>1 DEF Clock, InHand, IInv
    <2>4. Behind'
      BY <1>1, <1>p, <2>2, BoundsAssumption DEF Clock, Behind, IInv, Busy
    <2> QED
      BY <2>1, <2>3, <2>4
  <1>2. CASE \/ Pause \/ Resume \/ Answer \/ Remove
             \/ \E s \in Slot : Notify(s) \/ NotifyFails(s)
    <2>1. UNCHANGED <<firing, session, executed, todo, proc, now>>
      BY <1>2 DEF Pause, Resume, Ask, Answer, Remove, Notify, NotifyFails
    <2> QED
      BY <2>1, SlotsKept DEF InHand, Behind, IInv
  <1>3. ASSUME NEW s \in Slot, Settle(s)
        PROVE  (\A t \in Slot : SlotOK(t)') /\ InHand' /\ Behind'
    <2>1. /\ session[s] = "queued"
          /\ \E outcome \in Settled : session' = [session EXCEPT ![s] = outcome]
          /\ UNCHANGED <<firing, executed, todo, proc, now>>
      BY <1>3 DEF Settle
    <2>2. session'[s] \in Settled /\ \A t \in Slot : t # s => session'[t] = session[t]
      BY <2>1 DEF IInv, TypeOK
    <2>3. \A t \in Slot : SlotOK(t)'
      BY <2>1, <2>2 DEF SlotOK, IInv, Settled
    <2>4. InHand'
      BY <1>p, <2>1, <2>2 DEF InHand, IInv, Busy
    <2>5. Behind'
      BY <2>1 DEF Behind, IInv
    <2> QED
      BY <2>3, <2>4, <2>5
  <1> QED
    BY <1>1, <1>2, <1>3

\* A result stays what it is.
LEMMA ResultsStay ==
    ASSUME IInv, [Next]_vars, NEW s \in Slot, session[s] \in Settled
    PROVE  session'[s] \in Settled
  <1>1. CASE session' = session
    BY <1>1
  <1>2. CASE session' # session
    <2>1. \E t \in Slot : \E state \in {"open", "queued"} \cup Settled :
              /\ session' = [session EXCEPT ![t] = state]
              /\ session[t] \in {"none", "queued"} \/ state \in Settled
      <3>1. ASSUME NEW t \in Slot, Settle(t)
            PROVE  \E state \in Settled : session' = [session EXCEPT ![t] = state]
        BY <3>1 DEF Settle
      <3>2. CASE FirePrompt \/ OpenSession \/ LandCommand \/ FireFails
        <4>1. proc.slot \in Slot
          BY <3>2, BusyProc DEF FirePrompt, OpenSession, LandCommand, FireFails, IInv, Busy
        <4> QED
          BY <1>2, <3>2, <4>1 DEF FirePrompt, OpenSession, LandCommand, FireFails
      <3>3. \/ FirePrompt \/ OpenSession \/ LandCommand \/ FireFails
            \/ \E t \in Slot : Settle(t)
        BY <1>2 DEF Next, vars, Clock, Work, Failure, Misread, RecordFails, ScanFails,
           BootFails, Crash, Watcher, Conclude, ConcludeFails, Notify, NotifyFails, Due,
           Decide, Skip, Claim, Existing, RunCommand, Record, RecordError, Advance,
           WatchFired, Boot, Recover, Pause, Resume, Ask, Answer, Remove
      <3> QED
        BY <3>1, <3>2, <3>3
    <2> QED
      BY <2>1 DEF IInv, TypeOK, Settled
  <1> QED
    BY <1>1, <1>2

\* A watcher comes to tell only what is there to be told.
LEMMA TellsResults ==
    ASSUME IInv, [Next]_vars, NEW s \in Slot, watch'[s] = "tell", watch[s] # "tell"
    PROVE  session[s] \in Settled /\ job.notify # "never"
  <1>t. watch \in [Slot -> {"off", "wait", "tell"}] /\ session \in
            [Slot -> {"none", "open", "queued"} \cup Settled]
    BY DEF IInv, TypeOK
  <1>1. ASSUME NEW t \in Slot, Conclude(t) \/ ConcludeFails(t)
        PROVE  session[s] \in Settled /\ job.notify # "never"
    <2>1. PICK outcome \in Settled :
              /\ session[t] \in Settled
              /\ WatchedTo(t, outcome)
      <3>1. watch' # [watch EXCEPT ![t] = "off"]
        BY <1>t
      <3> QED
        BY <1>1, <3>1 DEF Conclude, ConcludeFails, Settled
    <2>2. t = s /\ Tells(outcome)
      BY <1>t, <2>1 DEF WatchedTo
    <2> QED
      BY <2>1, <2>2 DEF Tells
  <1>2. ASSUME NEW t \in Slot, Notify(t) \/ NotifyFails(t)
        PROVE  FALSE
    BY <1>t, <1>2 DEF Notify, NotifyFails
  <1>3. ASSUME NEW t, Attach(t)
        PROVE  FALSE
    BY <1>t, <1>3 DEF Attach
  <1>4. watch' # watch
    OBVIOUS
  <1>5. CASE Crash
    BY <1>5 DEF Crash
  <1>6. \/ \E t \in Slot : Conclude(t) \/ ConcludeFails(t) \/ Notify(t) \/ NotifyFails(t)
        \/ Crash \/ \E t : Attach(t)
    BY <1>4 DEF Next, vars, Clock, Work, Failure, Misread, FireFails, RecordFails, ScanFails,
       BootFails, Settle, Watcher, Due, Decide, Skip, Claim, Existing, FirePrompt,
       OpenSession, RunCommand, LandCommand, Record, RecordError, Advance, WatchFired,
       Boot, Recover, Pause, Resume, Ask, Answer, Remove
  <1> QED
    BY <1>1, <1>2, <1>3, <1>5, <1>6

LEMMA ToldKept ==
    ASSUME IInv, [Next]_vars, NEW s \in Slot
    PROVE  ToldOK(s)'
  <1>1. job' = job
    BY DEF Next, vars, Clock, Work, Failure, Misread, FireFails, RecordFails, ScanFails,
       BootFails, Crash, Settle, Watcher, Conclude, ConcludeFails, Notify, NotifyFails, Due,
       Decide, Skip, Claim, Existing, FirePrompt, OpenSession, RunCommand, LandCommand,
       Record, RecordError, Advance, WatchFired, Boot, Recover, Pause, Resume, Ask, Answer,
       Remove, outside
  <1>2. notice'[s] => notice[s] \/ watch[s] = "tell"
    <2>1. CASE \E t \in Slot : Notify(t)
      BY <2>1 DEF Notify, IInv, TypeOK
    <2>2. notice' = notice \/ \E t \in Slot : Notify(t)
      BY DEF Next, vars, Clock, Work, Failure, Misread, FireFails, RecordFails, ScanFails,
         BootFails, Crash, Settle, Watcher, Conclude, ConcludeFails, NotifyFails, Due,
         Decide, Skip, Claim, Existing, FirePrompt, OpenSession, RunCommand, LandCommand,
         Record, RecordError, Advance, WatchFired, Boot, Recover, Pause, Resume, Ask,
         Answer, Remove
    <2> QED
      BY <2>1, <2>2
  <1>3. ToldOK(s)
    BY DEF IInv
  <1>4. watch'[s] = "tell" /\ watch[s] # "tell" =>
            session[s] \in Settled /\ job.notify # "never"
    BY TellsResults
  <1>5. session[s] \in Settled => session'[s] \in Settled
    BY ResultsStay
  <1> QED
    BY <1>1, <1>2, <1>3, <1>4, <1>5 DEF ToldOK

LEMMA OrderKept == IInv /\ [Next]_vars => IInv'
  <1> SUFFICES ASSUME IInv, [Next]_vars
               PROVE  IInv'
    OBVIOUS
  <1>1. TypeOK' /\ \A s \in Slot : ToldOK(s)'
    BY TypesKept, ToldKept DEF IInv
  <1>2. CASE UNCHANGED vars
    <2>1. (\A s \in Slot : SlotOK(s)') /\ InHand' /\ Behind'
      BY <1>2, SlotsKept DEF vars, InHand, Behind, IInv
    <2> QED
      BY <1>1, <2>1 DEF IInv
  <1>3. CASE Next
    <2>1. (\A s \in Slot : SlotOK(s)') /\ InHand' /\ Behind'
      BY <1>3, ScanOrder, TargetOrder, RecordOrder, RestartOrder, WatcherOrder, WorldOrder
         DEF Next, Work, Failure, Watcher
    <2> QED
      BY <1>1, <2>1 DEF IInv
  <1> QED
    BY <1>2, <1>3

LEMMA Order == Spec => []IInv
  <1> QED
    BY InitOrder, OrderKept, PTL DEF Spec

-----------------------------------------------------------------------------
(* What follows.                                                           *)

\* The command of a slot is executed at most once, whatever stops and fails.
THEOREM CommandsRunOnce == Spec => []CommandOnce
  <1>1. IInv => CommandOnce
    BY DEF IInv, SlotOK, CommandOnce
  <1> QED
    BY <1>1, Order, PTL

\* The record of a firing is true, and only results are told.
THEOREM RecordsStandForRuns == Spec => []RecordsAreTrue
  <1>1. IInv => RecordsAreTrue
    BY DEF IInv, SlotOK, ToldOK, RecordsAreTrue
  <1> QED
    BY <1>1, Order, PTL

\* A scan records the slot it works on before it moves the job, and the slots it
\* passes without a record had all come by then.
THEOREM SlotsPassWhenMissed == Spec => MissedSlotsPass
  <1>1. ASSUME IInv, [Next]_vars, row' # row, proc' # proc
        PROVE  /\ firing[proc.slot] # None
               /\ \A s \in Slot : proc.slot < s /\ s < row'.next => s <= now
    <2>1. Advance
      BY <1>1
         DEF Next, vars, Clock, Work, Failure, Misread, FireFails, RecordFails, ScanFails,
             BootFails, Crash, Settle, Watcher, Conclude, ConcludeFails, Notify, NotifyFails,
             Due, Decide, Skip, Claim, Existing, FirePrompt, OpenSession, RunCommand,
             LandCommand, Record, RecordError, WatchFired, Boot, Recover, Pause, Resume,
             Ask, Answer, Remove
    <2>2. proc \in Busy /\ proc.step = "advance" /\ proc.at <= now
      BY <1>1, <2>1, BusyProc DEF Advance, Behind, IInv
    <2>3. row'.next = 0 \/ row'.next = proc.at + 1
      <3>1. CASE job.once
        BY <1>1, <2>1, <3>1 DEF Advance
      <3>2. CASE ~job.once
        BY <1>1, <2>1, <3>2 DEF Advance
      <3> QED
        BY <3>1, <3>2
    <2>4. ASSUME NEW s \in Slot, s < row'.next
          PROVE  s <= now
      BY <1>1, <2>2, <2>3, <2>4, BoundsAssumption DEF IInv, TypeOK, Busy, Slot
    <2> QED
      BY <1>1, <2>2, <2>4 DEF InHand, IInv
  <1>2. IInv /\ [Next]_vars => [row' # row /\ proc' # proc =>
           /\ firing[proc.slot] # None
           /\ \A s \in Slot : proc.slot < s /\ s < row'.next => s <= now]_vars
    BY <1>1
  <1> QED
    BY <1>2, Order, PTL DEF Spec, MissedSlotsPass
=============================================================================
